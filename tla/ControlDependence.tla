--------------------------- MODULE ControlDependence ---------------------------
(***************************************************************************)
(* dependence/control.py, `control_parents': which branch or abort nodes   *)
(* of a function every other node is control dependent on.  Three loops:   *)
(*                                                                         *)
(*   _post_dominators    sweeps over the nodes, updating the sets in       *)
(*                       place, until a sweep changes nothing;             *)
(*   _immediate_post_dominators  picks one post-dominator of each node;    *)
(*   control_parents     walks, from every edge of a branch, up the        *)
(*                       immediate post-dominators.                        *)
(*                                                                         *)
(* The control-flow graph is chosen at the start and does not change.      *)
(* Nodes are numbered in the order of function.nodes, the first is the     *)
(* entry point.  Which nodes may abort is part of the graph.  The sons of  *)
(* a node are a set: a repeated son adds an edge whose walk ends at once.  *)
(*                                                                         *)
(* A definition marked (slip) is a plausible mistake in the one after it.  *)
(***************************************************************************)
EXTENDS FiniteSets, Integers

CONSTANTS
    N,          \* number of nodes of the function
    MaxSons,    \* bound on the sons of a node; a branch has two
    MaxAborts   \* bound on the nodes that may abort

ASSUME SizeAssumption == N \in Nat \ {0} /\ MaxSons \in Nat /\ MaxAborts \in Nat

VARIABLES
    sons,      \* the CFG
    aborting,  \* nodes whose execution may revert
    pdom,      \* node -> its post-dominators, as far as computed
    at,        \* the node the sweep is at
    changed,   \* this sweep has changed something
    edges,     \* edges of branches that are still to be walked from
    walk,      \* <<branch, runner>>: the walk under way
    parents,   \* the result: node -> its guards
    stage

vars == <<sons, aborting, pdom, at, changed, edges, walk, parents, stage>>
graph == <<sons, aborting>>
sweepVars == <<pdom, at, changed>>
walkVars == <<edges, walk, parents>>

Block == 1..N
Exit == 0
Point == Block \cup {Exit}
None == -1
Idle == <<None, None>>

-----------------------------------------------------------------------------
\* (slip) Only the terminal nodes have an edge to the exit.
SuccWithoutAborts(n) == sons[n] \cup (IF sons[n] = {} THEN {Exit} ELSE {})

\* _successors: the virtual edges to the exit of terminal and abort nodes.
Succ(n) == sons[n] \cup (IF sons[n] = {} \/ n \in aborting THEN {Exit} ELSE {})

\* Slither's CFGs: nothing jumps to the entry point, and every loop has an edge
\* that leaves it, so that no set of nodes is closed under successors.
WellFormed ==
    /\ \A n \in Block : 1 \notin sons[n]
    /\ {C \in SUBSET Block : \A n \in C : Succ(n) \subseteq C} = {{}}

\* (slip) The sets start from below.
FirstGuessSmall == [n \in Point |-> {n}]

\* The greatest sets; the exit post-dominates itself only.
FirstGuess == [n \in Point |-> IF n = Exit THEN {Exit} ELSE Point]

Init ==
    /\ sons \in [Block -> {S \in SUBSET Block : Cardinality(S) <= MaxSons}]
    /\ aborting \in {S \in SUBSET Block : Cardinality(S) <= MaxAborts}
    /\ WellFormed
    /\ pdom = FirstGuess
    /\ at = 1 /\ changed = FALSE
    /\ edges = {} /\ walk = Idle
    /\ parents = [n \in Block |-> {}]
    /\ stage = "sweeping"

-----------------------------------------------------------------------------
(* _post_dominators                                                        *)

\* (slip) A post-dominator of some successor is taken for one of n.
MeetAny(n) == {n} \cup {d \in Point : \E s \in Succ(n) : d \in pdom[s]}

\* What post-dominates n if the sets of its successors are right.
Meet(n) == {n} \cup {d \in Point : \A s \in Succ(n) : d \in pdom[s]}

Sweep ==
    /\ stage = "sweeping" /\ at \in Block
    /\ pdom' = [pdom EXCEPT ![at] = Meet(at)]
    /\ changed' = (changed \/ Meet(at) # pdom[at])
    /\ at' = at + 1
    /\ UNCHANGED <<graph, walkVars, stage>>

\* (slip) The flag of the last sweep is kept.
NothingChangedKept == changed

\* `changed = False' at the start of a sweep.
NothingChanged == FALSE

NextSweep ==
    /\ stage = "sweeping" /\ at \notin Block /\ changed
    /\ at' = 1
    /\ changed' = NothingChanged
    /\ UNCHANGED <<graph, pdom, walkVars, stage>>

-----------------------------------------------------------------------------
(* _immediate_post_dominators                                              *)

Strict(n) == pdom[n] \ {n}

\* (slip) The fewest post-dominators.
ClosestFewest(n) ==
    {d \in Strict(n) : \A e \in Strict(n) : Cardinality(pdom[d]) <= Cardinality(pdom[e])}

\* The strict post-dominators with the largest post-dominator set.
Closest(n) ==
    {d \in Strict(n) : \A e \in Strict(n) : Cardinality(pdom[e]) <= Cardinality(pdom[d])}

\* max() of them, None if there is none.  ClosestIsImmediate says that there is
\* never more than one to choose from.
Ipdom(n) == IF Closest(n) = {} THEN None ELSE CHOOSE d \in Closest(n) : TRUE

-----------------------------------------------------------------------------
(* control_parents                                                         *)

\* (slip) Only the nodes with two sons are branches.
BranchesWithSons == {n \in Block : Cardinality(sons[n]) >= 2}

Branches == {n \in Block : Cardinality(Succ(n)) >= 2}

StartWalks ==
    /\ stage = "sweeping" /\ at \notin Block /\ ~changed
    /\ edges' = {e \in Branches \X Point : e[2] \in Succ(e[1])}
    /\ stage' = "walking"
    /\ UNCHANGED <<graph, sweepVars, walk, parents>>

TakeEdge ==
    /\ stage = "walking" /\ walk = Idle
    /\ \E e \in edges :
          /\ \A other \in edges : e[1] <= other[1]
          /\ walk' = e
          /\ edges' = edges \ {e}
    /\ UNCHANGED <<graph, sweepVars, parents, stage>>

\* Where the walk from an edge of a stops.
Stops(a, runner) == runner = None \/ runner = Ipdom(a)

\* (slip) A loop header guards itself.
RecordedWithSelf(a, runner) == {runner} \ {Exit}

\* The node the runner is at depends on a, unless it is a itself (a loop
\* header) or the exit.
Recorded(a, runner) == {runner} \ {Exit, a}

Climb ==
    LET a == walk[1]  runner == walk[2]
    IN  /\ stage = "walking" /\ walk # Idle /\ ~Stops(a, runner)
        /\ parents' = [n \in Block |->
                         parents[n] \cup (IF n \in Recorded(a, runner) THEN {a} ELSE {})]
        /\ walk' = <<a, Ipdom(runner)>>
        /\ UNCHANGED <<graph, sweepVars, edges, stage>>

EndWalk ==
    /\ stage = "walking" /\ walk # Idle /\ Stops(walk[1], walk[2])
    /\ walk' = Idle
    /\ UNCHANGED <<graph, sweepVars, edges, parents, stage>>

Return ==
    /\ stage = "walking" /\ walk = Idle /\ edges = {}
    /\ stage' = "done"
    /\ UNCHANGED <<graph, sweepVars, walkVars>>

Terminating == stage = "done" /\ UNCHANGED vars

Next ==
    \/ Sweep \/ NextSweep
    \/ StartWalks \/ TakeEdge \/ Climb \/ EndWalk \/ Return
    \/ Terminating

\* A pure function of the CFG, computed by one thread.
Spec == Init /\ [][Next]_vars /\ WF_vars(Next)
=============================================================================
