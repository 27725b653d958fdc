----------------------- MODULE ForwardSlicerProperties -----------------------
(***************************************************************************)
(* What a forward slice promises: whatever the criterion flows into is in  *)
(* it, through calls and through branches; nothing else is; it returns.    *)
(***************************************************************************)
EXTENDS ForwardSlicer, BackwardSlicerProperties

\* The type of the slicer's state, and what a forward slice makes of it: it
\* stitches no storage.
ForwardTypeOK ==
    /\ SliceTypeOK
    /\ request \in ForwardRequest
    /\ pulled = {} /\ stitched = {} /\ round = 0
    /\ stage \in ForwardStage

-----------------------------------------------------------------------------
\* The criterion starts from variables of its own function.
LocalTaint ==
    \A v \in ForwardSeeds(request.node, request.target) : Home(v) = FnOf(request.node)

\* Nothing tainted is lost on the worklist: every use of a variable the forward
\* pass has processed is in the slice, and what the use defines (a merge
\* included) is tainted with the crossings of the *cheapest* visit, in every
\* order in which the worklist is popped.
UsesFollowed ==
    stage = "tainting" /\ LocalTaint =>
        \A v \in Visited : \A o \in UseSites(v, Home(v)) :
            /\ Kind(o) # "phi" => Emitted(NodeOf(o))
            /\ LValue(o) # NoVar => Reached(LValue(o), Home(v), visited[v])

\* Taint enters every in-scope call that takes the variable, through all SSA
\* versions of the formal it is passed for, one crossing deeper; a call that the
\* budget does not reach leaves a note.
CalleesTainted ==
    stage = "tainting" /\ LocalTaint =>
        \A v \in Visited : \A o \in {p \in UseSites(v, Home(v)) : IsDescendable(p)} :
            IF visited[v] < request.depth
            THEN AllReached(Parameters(o, v), Callee(o), visited[v] + 1)
            ELSE Noted("interproc-depth-limit", Callee(o))

\* A statement that is in the slice only because of a branch taints everything
\* it defines, with the whole budget.
GuardedTaint ==
    stage = "tainting" =>
        \A n \in Node : included[n] = "control-dep" =>
            AllReached(NodeDefs(n), FnOf(n), 0)

\* The two fixpoints are nested the right way: when the saturation is over,
\* every branch it has put into the slice (through data, calls or another
\* branch) has all it guards in the slice, and no taint is left to follow.
\* The branches that the criterion node guards are added after it.
BranchesClosed ==
    stage = "controlled" =>
        /\ work = {}
        /\ \A b \in SliceBranches :
              request.node \in SliceBranches \/ request.node \notin GuardsOf(b)
                  => GuardedBy({b}) \subseteq Slice

-----------------------------------------------------------------------------
(* The reference: what the criterion influences, as the least set closed   *)
(* under the influences, with the facts of a backward slice.               *)

TaintFacts(o, c) ==
    VarFacts({LValue(o)} \ {NoVar}, FnOfOp(o), c)
      \cup {NodeFact(n) : n \in {m \in Node \ Scaffolding : m = NodeOf(o) /\ Kind(o) # "phi"}}

\* The formals that the call o passes v for, c crossings away.
CalleeFacts(o, v, c) ==
    VarFacts({u \in VersionsIn[Callee(o)] : /\ NameOf(u) \in Formals(Callee(o))
                                           /\ Actual(o, NameOf(u)) = v},
             Callee(o), c)

InfluencesOfVar(v, f, c) ==
    LET inScope(o) == IsDescendable(o) /\ c < request.depth
        beyond(o)  == request.cross /\ Kind(o) = "external" /\ Callee(o) # NoFn
    IN  UNION {TaintFacts(o, c)
                 \cup (IF inScope(o) THEN CalleeFacts(o, v, c + 1) ELSE {})
                 \cup (IF beyond(o) THEN CalleeFacts(o, v, 0) ELSE {}) :
                 o \in UseSites(v, f)}

InfluencesOfNode(n) ==
    IF Branches(n)
    THEN UNION {{NodeFact(m)} \cup VarFacts(NodeDefs(m), FnOf(m), 0) : m \in GuardedBy({n})}
    ELSE {}

Influences(x) ==
    IF x[1] = "node" THEN InfluencesOfNode(x[2]) ELSE InfluencesOfVar(x[2], x[3], x[4])

Influenced ==
    LeastClosed({NodeFact(request.node)}
                  \cup VarFacts(ForwardSeeds(request.node, request.target),
                                FnOf(request.node), 0),
                [x \in Fact |-> Influences(x)])

\* What the modifier guards of the criterion's function depend on, through data.
DataDependsOn(x) == IF x[1] = "node" THEN {} ELSE DependsOnOfVar(x[2], x[3], x[4])

GuardDependences ==
    LeastClosed(NodeFacts(ModifierGuards[FnOf(request.node)]),
                [x \in Fact |-> DataDependsOn(x)])

\* A forward slice holds nothing that the criterion does not influence, within
\* the call budget, but what it guards and the modifier guards with their data
\* dependence.
OnlyInfluenced ==
    stage = "done" =>
        \A n \in Slice : \/ NodeFact(n) \in Influenced \cup GuardDependences
                         \/ request.node \in GuardsOf(n)

-----------------------------------------------------------------------------
(* What the documents say and the code does not do.                        *)

\* "Taint flows into a cross-contract call argument: resolve the callee and seed
\* the matching formal parameter inside it", for every argument.
ExternalArgumentsTainted ==
    stage = "controlled" =>
        \A v \in Visited : \A o \in UseSites(v, Home(v)) \cap xcSeen :
            Callee(o) # NoFn => AllReached(Parameters(o, v), Callee(o), MaxDepth)

\* "A statement guarded by an included true branch is influenced by the criterion,
\* so include it."
GuardedStatementsIncluded ==
    stage = "done" => \A b \in SliceBranches : GuardedBy({b}) \subseteq Slice

\* "... and keep tainting its definitions", when the statement was in the slice
\* before the branch was looked at.
GuardedDefinitionsTainted ==
    stage = "controlled" =>
        \A b \in SliceBranches : \A n \in GuardedBy({b}) :
            included[n] = "data-dep" => AllReached(NodeDefs(n), FnOf(n), MaxDepth)

\* "resolve modifier-guard data deps": the data dependence of the modifier guards
\* is in the slice.
ModifierDependencesResolved ==
    stage = "done" =>
        \A n \in Node : NodeFact(n) \in GuardDependences => Emitted(n)
=============================================================================
