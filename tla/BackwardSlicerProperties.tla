----------------------- MODULE BackwardSlicerProperties -----------------------
(***************************************************************************)
(* What a backward slice promises: nothing the criterion depends on is     *)
(* missing from it, nothing unrelated is in it, no reason gets weaker, and *)
(* the computation ends.                                                   *)
(***************************************************************************)
EXTENDS BackwardSlicer

\* What any pass of the slicer works with: no worklist entry is over the call
\* budget and no more external calls are entered than xcontract_depth.
SliceTypeOK ==
    /\ request \in Request
    /\ included \in [Node -> Reason]
    /\ visited \in [Var -> 0..Unvisited]
    /\ work \subseteq Entry
    /\ \A e \in work : e.cr <= request.depth
    /\ notes \subseteq Note
    /\ xcSeen \subseteq Op
    /\ xcUsed \in 0..XContractDepth
    /\ pulled \subseteq StateVar
    /\ stitched \subseteq StateVar \X Node
    /\ round \in 0..request.rounds

\* A type for every variable.
TypeOK == SliceTypeOK /\ stage \in Stage

-----------------------------------------------------------------------------
\* The variable was processed with at least this much budget, or will be.
Reached(v, f, c) ==
    \/ visited[v] <= c
    \/ \E e \in work : e.var = v /\ e.fn = f /\ e.cr <= c

AllReached(V, f, c) == \A v \in V : Reached(v, f, c)

\* In the slice, unless it is scaffolding, which never is.
Emitted(n) == n \in Scaffolding \/ InSlice(n)

Noted(kind, about) == <<kind, about>> \in notes

\* A criterion on an ENTRYPOINT node starts from what the merges there read,
\* which may belong to other functions; any other criterion starts at home.
StartedAtHome(v) ==
    v \in Seeds(request.node, request.target) => Home(v) = FnOf(request.node)

\* The slicer meets v in v's own function only.  Elsewhere v has no definition,
\* and a visit there counts as one here: see RealDefinitionsReached.
MetAtHome(v) == ReadAtHome(v) /\ StartedAtHome(v)

Visited == {v \in Var : visited[v] <= MaxDepth}

\* The data dependence of everything processed is in the slice or on the
\* worklist: the definition of a visited variable is a node of the slice, and
\* what the definition reads is reached with the crossings of its *cheapest*
\* visit.  The code keeps the lowest crossings per variable for this: one first
\* seen deep in a call chain is processed again when it is met nearer the
\* criterion, whatever the order in which the worklist is popped.
DefinitionsFollowed ==
    \A v \in Visited : LET f == Home(v) IN
        MetAtHome(v) =>
            \A o \in DefSite(v, f) : ~IsEntryMerge(o) =>
                /\ AllReached(Reads(o), f, visited[v])
                /\ Kind(o) # "phi" => InSlice(NodeOf(o))

\* A call that defines something the slice depends on is entered: the returns
\* and the state writes of its callee are in the slice and what they read is
\* followed.  When the budget does not allow it the slice says so in a note.
CalleesEntered ==
    \A v \in Visited :
        MetAtHome(v) =>
            \A o \in DefSite(v, Home(v)) : IsDescendable(o) =>
                IF visited[v] < request.depth
                THEN \A p \in ResultOps(Callee(o)) :
                        /\ Emitted(NodeOf(p))
                        /\ AllReached(Reads(p), Callee(o), visited[v] + 1)
                ELSE Noted("interproc-depth-limit", Callee(o))

\* A formal parameter the slice depends on leads to every callsite of its
\* function: the callsite is in the slice, the modifier guards of the caller (the
\* access control of the entry point that protects an internal helper) are in it
\* with everything they read followed, and the actual argument is followed.
CallersEntered ==
    \A v \in Visited : LET f == Home(v) IN
        /\ StartedAtHome(v)
        /\ \A o \in DefSite(v, f) : IsEntryMerge(o)
        /\ NameOf(v) \in Formals(f)
        /\ visited[v] < request.depth
        => \A o \in Callsites[f] :
              LET actual == Actual(o, NameOf(v))
              IN  /\ InSlice(NodeOf(o))
                  /\ \A g \in ModifierGuards[FnOfOp(o)] :
                        InSlice(g) /\ AllReached(NodeReads(g), FnOf(g), 0)
                  /\ actual # NoVar => Reached(actual, FnOfOp(o), visited[v] + 1)

\* A node included as a guard, a modifier guard or a storage writer is not left
\* dangling: everything it reads is followed with the whole budget.
NothingDangles ==
    \A n \in Node :
        included[n] \in {"control-dep", "modifier-guard", "storage-dep"} =>
            AllReached(NodeReads(n), FnOf(n), 0)

\* A guard is never dropped: the slice that is returned holds every node that
\* one of its nodes is control dependent on, and the modifier guards of the
\* criterion's function, whichever of its statements brought the node in.
GuardsNeverDropped ==
    stage = "done" =>
        /\ work = {}
        /\ \A n \in Slice : \A g \in GuardsOf(n) : Emitted(g)
        /\ \A g \in ModifierGuards[FnOf(request.node)] :
              Rank[included[g]] >= Rank["modifier-guard"]

\* Storage stitching ends with every writer of every stitched variable in the
\* slice, and when it ends before its rounds are used up there is no state
\* variable left to stitch.
WritersStitched ==
    stage = "done" =>
        /\ \A sv \in pulled : \A w \in WritersOf(sv) : InSlice(w)
        /\ round < request.rounds => Unstitched = {}

\* With cross_contract, the descents end with every external call in the slice
\* entered, or noted as unresolved, or noted as over the budget; and none is over
\* the budget before the whole of it went to calls that were entered.  The budget
\* is one for the slice, whatever the order in which the calls are met.
CallsHandledBeforeStitching ==
    request.cross /\ stage = "crossed" /\ round = 0 /\ Saturated =>
        /\ Unhandled # {} =>
              /\ Noted("cross-contract-depth-limit", NoFn)
              /\ Cardinality({o \in xcSeen : Callee(o) # NoFn}) = XContractDepth
        /\ \A o \in xcSeen :
              IF Callee(o) = NoFn
              THEN Noted("cross-contract-unresolved", NoFn)
              ELSE \A p \in ResultOps(Callee(o)) :
                      \/ NodeOf(p) \in Scaffolding
                      \/ InSlice(NodeOf(p)) /\ AllReached(Reads(p), Callee(o), 0)

-----------------------------------------------------------------------------
(* The reference: what the criterion depends on, as the least set closed   *)
(* under the dependences.  A fact is a node, or a variable of a function   *)
(* with the crossings spent to get there.                                  *)

NodeFact(n) == <<"node", n, FnOf(n), 0>>
VarFacts(V, f, c) == {<<"var", v, f, c>> : v \in V}
OpFacts(o, c) ==
    VarFacts(Reads(o), FnOfOp(o), c)
      \cup {NodeFact(n) : n \in {NodeOf(o)} \ Scaffolding}
NodeFacts(S) ==
    {NodeFact(n) : n \in S}
      \cup UNION {VarFacts(NodeReads(n), FnOf(n), 0) : n \in S}

\* One step of dependence from a node: control, storage, an external callee.
DependsOnOfNode(n) ==
    LET guards  == GuardsOf(n) \ Scaffolding
        writers == IF request.rounds = 0 THEN {}
                   ELSE UNION {WritersOf(sv) : sv \in StateRead(n)}
        callees == {Callee(o) : o \in {p \in OpsOf[n] : Kind(p) = "external"}} \ {NoFn}
    IN  NodeFacts(guards \cup writers)
          \cup (IF request.cross
                THEN UNION {OpFacts(p, 0) : p \in UNION {ResultOps(f) : f \in callees}}
                ELSE {})

\* One step of dependence from a variable: its definition, the callee that
\* computes it, or the callers that pass it.
DependsOnOfVar(v, f, c) ==
    LET def   == DefSite(v, f)
        calls == {o \in def : IsDescendable(o) /\ c < request.depth}
        sites == IF /\ \A o \in def : IsEntryMerge(o)
                    /\ NameOf(v) \in Formals(f) /\ c < request.depth
                 THEN Callsites[f] ELSE {}
    IN  (UNION {VarFacts(Reads(o), f, c)
                  \cup {NodeFact(n) : n \in {m \in {NodeOf(o)} : Kind(o) # "phi"}} :
                  o \in {p \in def : ~IsEntryMerge(p)}})
          \cup (UNION {OpFacts(p, c + 1) : p \in UNION {ResultOps(Callee(o)) : o \in calls}})
          \cup UNION {{NodeFact(NodeOf(o))}
                        \cup NodeFacts(ModifierGuards[FnOfOp(o)])
                        \cup VarFacts({Actual(o, NameOf(v))} \ {NoVar}, FnOfOp(o), c + 1) : o \in sites}

DependsOn(x) ==
    IF x[1] = "node" THEN DependsOnOfNode(x[2]) ELSE DependsOnOfVar(x[2], x[3], x[4])

CriterionFacts ==
    {NodeFact(request.node)}
      \cup VarFacts(Seeds(request.node, request.target), FnOf(request.node), 0)
      \cup NodeFacts(ModifierGuards[FnOf(request.node)])

Fact == ({"node"} \X Node \X Fn \X {0}) \cup ({"var"} \X Var \X Fn \X (0..MaxDepth))

\* From what was found, all there is to find along `step', a function from facts
\* to sets of facts.  Those found last are kept apart, so each is expanded once.
Expansion == [all: SUBSET Fact, new: SUBSET Fact]
Closure(step) ==
    LET closed[found \in Expansion] ==
          IF found.new = {} THEN found.all
          ELSE LET next == (UNION {step[x] : x \in found.new}) \ found.all
               IN  closed[[all |-> found.all \cup next, new |-> next]]
    IN  closed

\* The least set that holds the facts of `start' and is closed under `step'.
LeastClosed(start, step) == Closure(step)[[all |-> start, new |-> start]]

Dependences == LeastClosed(CriterionFacts, [x \in Fact |-> DependsOn(x)])

\* The slice is evidence, not a superset: every node of the slice that is
\* returned is one the criterion depends on, through dependences that respect
\* the call budget, and every writer it lists as stitched is in it.
OnlyDependences ==
    stage = "done" =>
        /\ \A n \in Slice : NodeFact(n) \in Dependences
        /\ \A s \in stitched : InSlice(s[2])

-----------------------------------------------------------------------------
\* The strongest reason wins, in every order in which a node is met: no step
\* takes a node out of the slice or gives it a weaker reason, forgets a
\* cheaper visit, or takes back a note.
ReasonsOnlyStrengthen ==
    [][/\ \A n \in Node : Rank[included[n]] <= Rank[included'[n]]
       /\ \A v \in Var : visited'[v] <= visited[v]
       /\ notes \subseteq notes']_vars

\* The slicer returns, recursion and loops in the contract included: a variable
\* is processed again only with fewer crossings, a guard scan ends the
\* saturation when it adds nothing, and each state variable is stitched once.
Termination == <>(stage = "done")

-----------------------------------------------------------------------------
(* What the documents say and the code does not do.                        *)

\* "Anything that could not be followed precisely is recorded as a note rather
\* than silently dropped": a formal parameter the slice depends on, in a
\* function that has callsites, is ascended from or leaves a note.
AscentLimitNoted ==
    stage = "done" =>
        \A v \in Visited : LET f == Home(v) IN
            /\ \A o \in DefSite(v, f) : IsEntryMerge(o)
            /\ NameOf(v) \in Formals(f)
            /\ visited[v] >= request.depth
            /\ Callsites[f] # {}
            => \E k \in {f} \cup {FnOfOp(o) : o \in Callsites[f]} :
                  Noted("interproc-depth-limit", k)

\* "A slice is the set of nodes reachable from the criterion along" data and
\* control dependence edges: what a guard of the slice reads is followed.
GuardsFollowed ==
    stage = "done" =>
        \A n \in Slice : \A g \in GuardsOf(n) \ (Scaffolding \cup {request.node}) :
            AllReached(NodeReads(g), FnOf(g), MaxDepth)

\* "We traverse through them to the real definitions": the argument that a
\* followed formal parameter receives at a callsite has its definition in the
\* slice, whatever merges the contract has.
RealDefinitionsReached ==
    stage = "done" =>
        \A v \in Visited : LET f == Home(v) IN
            /\ \E o \in DefSite(v, f) : IsEntryMerge(o)
            /\ visited[v] < request.depth
            => \A o \in Callsites[f] :
                  LET actual == Actual(o, NameOf(v)) IN
                  actual # NoVar =>
                      \A d \in DefSite(actual, FnOfOp(o)) :
                          Kind(d) # "phi" => InSlice(NodeOf(d))

\* "For every included node holding an unresolved external call ... resolution
\* failures are recorded as notes, never silently dropped."
ExternalCallsHandled ==
    stage = "done" /\ request.cross =>
        (Unhandled # {} => Noted("cross-contract-depth-limit", NoFn))
=============================================================================
