---------------------------- MODULE BackwardSlicer ----------------------------
(***************************************************************************)
(* slicer.py, `_Slicer.backward': the worklist engine that computes a      *)
(* backward slice.  The worklist is drained along data dependence; when it *)
(* is empty one scan pulls the guards of everything included, which        *)
(* refills it; when the scan adds nothing the slice is saturated and       *)
(* `backward' goes on to its next statement:                               *)
(*                                                                         *)
(*   seeded  -- saturate --> modifier guards of the criterion's function   *)
(*   guarded -- saturate --> cross-contract descents, until none adds      *)
(*   crossed -- saturate --> storage stitching, `storage_depth' rounds     *)
(*   stitched ----------------> _finish --> done                           *)
(*                                                                         *)
(* The worklist is a set and any entry may be popped next.  The code pops  *)
(* the last one pushed, but guards_of() is a Python set, iterated in hash  *)
(* order, so the order of the pushes is not determined either; a second    *)
(* copy of an entry is popped to no effect, so one copy is kept.           *)
(*                                                                         *)
(* A definition marked (slip) is a plausible mistake in the one after it.  *)
(* Next does not use it: it shows that a property can fail.                *)
(***************************************************************************)
EXTENDS SlitherContract

CONSTANTS
    NoName,         \* a criterion without a variable: the whole node
    MaxDepth,       \* bound on `depth', the call crossings allowed per trace
    MaxRounds,      \* bound on `storage_depth'
    XContractDepth  \* `xcontract_depth', the cross-contract descents allowed

ASSUME BoundsAssumption ==
    MaxDepth \in Nat /\ MaxRounds \in Nat /\ XContractDepth \in Nat

ASSUME NameAssumption == NoName \notin Name \cup Var /\ Name \cap Var = {}

VARIABLES
    request,   \* criterion and options of this slice
    included,  \* node -> why it is in the slice, "none" when it is not
    visited,   \* SSA variable -> lowest crossings it was processed at
    work,      \* the worklist: (variable, function, crossings)
    notes,     \* what could not be followed precisely
    xcSeen,    \* external calls already handled
    xcUsed,    \* cross-contract descents performed
    pulled,    \* state variables already stitched
    stitched,  \* storage_writers: the writers stitched in, by state variable
    round,     \* storage rounds performed
    stage      \* the statement of `backward' that is running

vars == <<request, included, visited, work, notes,
          xcSeen, xcUsed, pulled, stitched, round, stage>>

sliceVars == <<included, notes>>
crossVars == <<xcSeen, xcUsed>>
storageVars == <<pulled, stitched, round>>

Stage == {"seeded", "guarded", "crossed", "stitched", "done"}

Reason == {"none", "storage-dep", "data-dep", "callee", "control-dep",
           "modifier-guard", "criterion"}

\* _REASON_RANK; 0 stands for a node the slice does not hold.
Rank == [r \in Reason |->
           CASE r = "none"           -> 0
             [] r = "storage-dep"    -> 1
             [] r = "data-dep"       -> 2
             [] r = "callee"         -> 3
             [] r = "control-dep"    -> 4
             [] r = "modifier-guard" -> 5
             [] r = "criterion"      -> 6]

Unvisited == MaxDepth + 1

Entry == [var: Var, fn: Fn, cr: 0..MaxDepth]

\* The criterion (a node and a source variable, an SSA instance, or neither)
\* and the options.
Request == [node: Node, target: Name \cup Var \cup {NoName}, depth: 0..MaxDepth,
            rounds: 0..MaxRounds, cross: BOOLEAN]

NoteKind == {"assembly-boundary", "interproc-depth-limit", "imprecise-alias",
             "cross-contract", "cross-contract-depth-limit",
             "cross-contract-unresolved"}

Note == NoteKind \X (Fn \cup {NoFn})

-----------------------------------------------------------------------------
InSlice(n) == included[n] # "none"
Slice == {n \in Node : InSlice(n)}

\* (slip) The last reason wins.
ReasonedLastWins(inc, S, r) == [n \in Node |-> IF n \in S THEN r ELSE inc[n]]

\* _add_node for every node of S: the strongest reason wins.
Reasoned(inc, S, r) ==
    [n \in Node |-> IF n \in S /\ Rank[r] > Rank[inc[n]] THEN r ELSE inc[n]]

\* ... and a note for the assembly among them.
AssemblyNotes(S) ==
    {<<"assembly-boundary", FnOf(n)>> : n \in {m \in S : TypeOf(m) = "assembly"}}

Pushes(V, f, c) == [var: V, fn: {f}, cr: {c}]

\* The reads of the operations in Os, each pushed with its own function.
ReadsOf(Os, c) == UNION {Pushes(Reads(o), FnOfOp(o), c) : o \in Os}

OpsAt(S) == {o \in Op : NodeOf(o) \in S}

\* (slip) The arguments of calls are forgotten: they are not in `read'.
SeedReadsNoArguments(S) == ReadsOf({o \in OpsAt(S) : ~IsDescendable(o)}, 0)

\* Everything the nodes of S read, with the whole budget.
SeedReads(S) == ReadsOf(OpsAt(S), 0)

\* _resolve_seed_vars: a whole node, or one SSA instance, or the versions of a
\* source variable at the node, or failing that anywhere in the function.
Seeds(n, target) ==
    LET Versions(S) == {v \in S : NameOf(v) = target}
        at  == Versions(NodeReads(n) \cup NodeDefs(n))
        all == Versions(UNION {NodeReads(m) \cup NodeDefs(m) :
                                 m \in {k \in Node : FnOf(k) = FnOf(n)}})
    IN  IF target = NoName   THEN NodeReads(n)
        ELSE IF target \in Var THEN {target}
        ELSE IF at # {}      THEN at
        ELSE all

\* _resolve_variable refuses a name that is no variable of the function; the
\* sink catalog picks an instance that an operation of the node reads.
Resolvable(r) ==
    \/ r.target = NoName
    \/ r.target \in NodeReads(r.node)
    \/ \E v \in Var : NameOf(v) = r.target /\ Home(v) = FnOf(r.node)

Init ==
    /\ request \in Request /\ Resolvable(request)
    /\ included = Reasoned([n \in Node |-> "none"],
                           {request.node} \ Scaffolding, "criterion")
    /\ notes = AssemblyNotes({request.node})
    /\ work = Pushes(Seeds(request.node, request.target),
                     FnOf(request.node), 0)
    /\ visited = [v \in Var |-> Unvisited]
    /\ xcSeen = {} /\ xcUsed = 0
    /\ pulled = {} /\ stitched = {} /\ round = 0
    /\ stage = "seeded"

-----------------------------------------------------------------------------
(* _run_backward_data: one iteration pops one entry.                       *)

\* (slip) A variable is processed once, whatever the crossings.
ProcessedOnce(e) == visited[e.var] # Unvisited

\* (slip) Strict comparison.
ProcessedStrictly(e) == visited[e.var] < e.cr

\* The variable was processed before, with at least as much budget left.
Processed(e) == visited[e.var] <= e.cr

SkipVisited(e) ==
    /\ Processed(e)
    /\ work' = work \ {e}
    /\ UNCHANGED <<request, visited, sliceVars, crossVars,
                   storageVars, stage>>

\* Common to the actions that process an entry.
Visit(e) ==
    /\ ~Processed(e)
    /\ visited' = [visited EXCEPT ![e.var] = e.cr]
    /\ UNCHANGED <<request, crossVars, storageVars, stage>>

\* _maybe_ascend is called: no definition here, or a formal's entry merge.
LeavesFunction(e) ==
    \A o \in DefSite(e.var, e.fn) : IsEntryMerge(o)

\* (slips) The budget is off by one, either way.
CanAscendTooFar(e) == e.cr <= request.depth /\ NameOf(e.var) \in Formals(e.fn)
CanAscendTooShort(e) == e.cr + 1 < request.depth /\ NameOf(e.var) \in Formals(e.fn)

CanAscend(e) ==
    /\ e.cr < request.depth
    /\ NameOf(e.var) \in Formals(e.fn)

\* (slip) Everything the callsite reads.
PassedAll(o, p) == Reads(o)

\* The argument passed for the formal p, if there is one at its position.
Passed(o, p) == {Actual(o, p)} \ {NoVar}

\* _maybe_ascend: to every callsite, with the modifier guards of the caller.
Ascend(e) ==
    LET sites   == Callsites[e.fn]
        callers == {FnOfOp(o) : o \in sites}
        guards  == UNION {ModifierGuards[f] : f \in callers}
    IN  /\ Visit(e)
        /\ LeavesFunction(e) /\ CanAscend(e)
        /\ included' = Reasoned(Reasoned(included, {NodeOf(o) : o \in sites},
                                         "callee"),
                                guards, "modifier-guard")
        /\ notes' = notes \cup AssemblyNotes({NodeOf(o) : o \in sites} \cup guards)
        /\ work' = (work \ {e})
                     \cup SeedReads(guards)
                     \cup UNION {Pushes(Passed(o, NameOf(e.var)), FnOfOp(o), e.cr + 1) :
                                   o \in sites}

\* _maybe_ascend returns early: the budget is spent, or this is no formal.
StopAtBoundary(e) ==
    /\ Visit(e)
    /\ LeavesFunction(e) /\ ~CanAscend(e)
    /\ work' = work \ {e}
    /\ UNCHANGED sliceVars

\* Thread through the merge; a Phi has no place in the slice.
ThreadPhi(e) ==
    /\ Visit(e)
    /\ \E o \in DefSite(e.var, e.fn) :
          /\ Kind(o) = "phi" /\ ~IsEntryMerge(o)
          /\ work' = (work \ {e}) \cup Pushes(Reads(o), e.fn, e.cr)
    /\ UNCHANGED sliceVars

\* The reason of a definition: deeper than the criterion's function or not.
DefReason(e) == IF e.cr > 0 THEN "callee" ELSE "data-dep"

FollowDefinition(e) ==
    /\ Visit(e)
    /\ \E o \in DefSite(e.var, e.fn) :
          /\ Kind(o) # "phi" /\ ~IsDescendable(o)
          /\ included' = Reasoned(included, {NodeOf(o)}, DefReason(e))
          /\ notes' = notes \cup AssemblyNotes({NodeOf(o)})
          /\ work' = (work \ {e}) \cup Pushes(Reads(o), e.fn, e.cr)

\* (slip) State written by the callee is forgotten.
DescendedReturns(o) ==
    {p \in ResultOps(Callee(o)) : TypeOf(NodeOf(p)) = "return"}

\* What _descend_backward takes from the callee of the call o.
DescendedOps(o) == ResultOps(Callee(o))

\* The definition is a call: _descend_backward enters the callee ...
EnterCallee(e) ==
    /\ Visit(e)
    /\ e.cr < request.depth
    /\ \E o \in DefSite(e.var, e.fn) :
          LET body  == DescendedOps(o)
              nodes == {NodeOf(p) : p \in body} \ Scaffolding
          IN  /\ IsDescendable(o)
              /\ included' = Reasoned(Reasoned(included, {NodeOf(o)}, DefReason(e)),
                                      nodes, "callee")
              /\ notes' = notes \cup AssemblyNotes({NodeOf(o)} \cup nodes)
              /\ work' = (work \ {e}) \cup Pushes(Reads(o), e.fn, e.cr)
                                      \cup ReadsOf(body, e.cr + 1)

\* ... or leaves a note that the budget does not reach it.
CalleeTooDeep(e) ==
    /\ Visit(e)
    /\ e.cr >= request.depth
    /\ \E o \in DefSite(e.var, e.fn) :
          /\ IsDescendable(o)
          /\ included' = Reasoned(included, {NodeOf(o)}, DefReason(e))
          /\ notes' = notes \cup AssemblyNotes({NodeOf(o)})
                            \cup {<<"interproc-depth-limit", Callee(o)>>}
          /\ work' = (work \ {e}) \cup Pushes(Reads(o), e.fn, e.cr)

Pop(e) ==
    \/ SkipVisited(e)
    \/ Ascend(e)
    \/ StopAtBoundary(e)
    \/ ThreadPhi(e)
    \/ FollowDefinition(e)
    \/ EnterCallee(e)
    \/ CalleeTooDeep(e)

-----------------------------------------------------------------------------
(* _control_closure_step: one scan over the slice, when the worklist is    *)
(* empty.                                                                  *)

NewGuards == (UNION {GuardsOf(n) : n \in Slice}) \ (Slice \cup Scaffolding)

ControlClosure ==
    /\ work = {} /\ NewGuards # {}
    /\ included' = Reasoned(included, NewGuards, "control-dep")
    /\ notes' = notes \cup AssemblyNotes(NewGuards)
    /\ work' = SeedReads(NewGuards)
    /\ UNCHANGED <<request, visited, crossVars, storageVars, stage>>

\* (slip) The guards are not closed again after the worklist was drained.
Drained == work = {}

\* _saturate_backward returns.
Saturated == work = {} /\ NewGuards = {}

-----------------------------------------------------------------------------
(* The statements of `backward', each run on a saturated slice.            *)

IncludeModifierGuards ==
    LET guards == ModifierGuards[FnOf(request.node)]
    IN  /\ stage = "seeded" /\ Saturated
        /\ included' = Reasoned(included, guards, "modifier-guard")
        /\ notes' = notes \cup AssemblyNotes(guards)
        /\ work' = SeedReads(guards)
        /\ stage' = "guarded"
        /\ UNCHANGED <<request, visited, crossVars, storageVars>>

\* The external calls in the slice that no step has handled yet.
Unhandled == {o \in Op \ xcSeen : Kind(o) = "external" /\ InSlice(NodeOf(o))}

\* _pull_callee_backward, for the callees of the calls in R.
PulledOps(R) ==
    {p \in UNION {ResultOps(Callee(o)) : o \in R} : NodeOf(p) \notin Scaffolding}

\* (slip) A call that does not resolve uses the budget up, too.
ChargedUnresolved(handled) == handled

\* The calls that use the budget up: those that are entered.
Charged(handled) == {o \in handled : Callee(o) # NoFn}

\* _cross_contract_backward_step: the calls are met in the order the nodes
\* were included.  Those met before the budget is spent are handled (entered
\* when they resolve, noted when they do not); the rest leave a note.  The
\* loop ends with the first step that pulls nothing.
CrossContractStep ==
    /\ stage = "guarded" /\ Saturated /\ request.cross
    /\ \E handled \in SUBSET Unhandled :
          LET entered == {o \in handled : Callee(o) # NoFn}
              used    == Cardinality(Charged(handled))
              budget  == XContractDepth - xcUsed
              body    == PulledOps(entered)
              nodes   == {NodeOf(p) : p \in body}
          IN  /\ used <= budget
              /\ handled # Unhandled => used = budget
              /\ budget = 0 => handled = {}
              /\ xcSeen' = xcSeen \cup handled
              /\ xcUsed' = xcUsed + used
              /\ included' = Reasoned(included, nodes, "callee")
              /\ work' = ReadsOf(body, 0)
              /\ notes' = notes \cup AssemblyNotes(nodes)
                    \cup {<<"cross-contract", Callee(o)>> : o \in entered}
                    \cup {<<"cross-contract-unresolved", NoFn>> :
                            o \in handled \ entered}
                    \cup {<<"cross-contract-depth-limit", NoFn>> :
                            o \in Unhandled \ handled}
              /\ stage' = IF body = {} THEN "crossed" ELSE "guarded"
    /\ UNCHANGED <<request, visited, storageVars>>

NoCrossContract ==
    /\ stage = "guarded" /\ Saturated /\ ~request.cross
    /\ stage' = "crossed"
    /\ UNCHANGED <<request, visited, work, sliceVars, crossVars,
                   storageVars>>

\* State variables the slice reads that no round has stitched.
Unstitched == (UNION {StateRead(n) : n \in Slice}) \ pulled

\* (slip) Only writers in other functions than the criterion's.
NewWritersElsewhere ==
    {w \in UNION {WritersOf(sv) : sv \in Unstitched} : FnOf(w) # FnOf(request.node)}
        \ Slice

\* Their writers that are not in the slice for another reason.
NewWriters == (UNION {WritersOf(sv) : sv \in Unstitched}) \ Slice

\* _storage_closure_step.  A writer of several of them is listed under the one
\* that was met first.
StorageClosureStep ==
    /\ stage = "crossed" /\ Saturated
    /\ round < request.rounds
    /\ \E first \in [NewWriters -> Unstitched] :
          /\ \A w \in NewWriters : w \in WritersOf(first[w])
          /\ stitched' = stitched \cup {<<first[w], w>> : w \in NewWriters}
    /\ pulled' = pulled \cup Unstitched
    /\ included' = Reasoned(included, NewWriters, "storage-dep")
    /\ notes' = notes \cup AssemblyNotes(NewWriters)
    /\ work' = SeedReads(NewWriters)
    /\ IF NewWriters = {} THEN stage' = "stitched" /\ UNCHANGED round
                          ELSE round' = round + 1 /\ UNCHANGED stage
    /\ UNCHANGED <<request, visited, crossVars>>

\* _finish and _collect_metadata.  The rest of what they return is read off
\* the slice that is left here.
Finish ==
    /\ \/ stage = "crossed" /\ round = request.rounds
       \/ stage = "stitched"
    /\ Saturated
    /\ notes' = notes \cup {<<"imprecise-alias", NoFn>> :
                              o \in {p \in OpsAt(Slice) : IsImprecise(p)}}
    /\ stage' = "done"
    /\ UNCHANGED <<request, included, visited, work, crossVars,
                   storageVars>>

\* The slice has been returned.
Terminating == stage = "done" /\ UNCHANGED vars

Next ==
    \/ \E e \in work : Pop(e)
    \/ ControlClosure
    \/ IncludeModifierGuards
    \/ CrossContractStep
    \/ NoCrossContract
    \/ StorageClosureStep
    \/ Finish
    \/ Terminating

\* One thread runs the slicer, and nothing in it blocks.
Spec == Init /\ [][Next]_vars /\ WF_vars(Next)
=============================================================================
