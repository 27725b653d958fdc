---------------------- MODULE ControlDependenceProperties ----------------------
(***************************************************************************)
(* Control dependence by its definition, in terms of paths, and what the   *)
(* three loops of control.py make of it.                                   *)
(***************************************************************************)
EXTENDS ControlDependence

\* A type for every variable; no node is its own guard.
TypeOK ==
    /\ sons \in [Block -> SUBSET Block]
    /\ aborting \in SUBSET Block
    /\ pdom \in [Point -> SUBSET Point]
    /\ pdom[Exit] = {Exit}
    /\ at \in 1..(N + 1)
    /\ changed \in BOOLEAN
    /\ edges \in SUBSET (Block \X Point)
    /\ walk \in (Block \X (Point \cup {None})) \cup {Idle}
    /\ parents \in [Block -> SUBSET Block]
    /\ \A n \in Block : n \notin parents[n]
    /\ stage \in {"sweeping", "walking", "done"}

\* d post-dominates n: every path from n to the exit meets d.  That is, there
\* is a set of points that holds n, is left through d alone and does not hold
\* the exit (or d is the exit).
PostDominates(d, n) ==
    \E C \in SUBSET Point :
        /\ n \in C
        /\ Exit \in C => d = Exit
        /\ \A m \in (C \cap Block) \ {d} : Succ(m) \subseteq C

\* The sets computed start out too large and never lose a post-dominator, in
\* spite of being updated in place; when a sweep changes nothing, nothing but
\* post-dominators is left in them.
PostDominatorsExact ==
    /\ \A n \in Point : {d \in Point : PostDominates(d, n)} \subseteq pdom[n]
    /\ stage # "sweeping" =>
          \A n \in Point : \A d \in pdom[n] : PostDominates(d, n)

\* The choice by the size of the set is the choice meant: there is a single
\* closest strict post-dominator, no tie for Python's max() to break in hash
\* order, and all the others post-dominate it.
ClosestIsImmediate ==
    stage # "sweeping" =>
        \A n \in Block :
            /\ Cardinality(Closest(n)) = 1
            /\ \A d \in Closest(n) : \A e \in Strict(n) : PostDominates(e, d)

\* n is control dependent on a: a decides whether n is executed.  One of its
\* edges leads to n on every path and another one may avoid it.
DependsOn(n, a) ==
    /\ n # a
    /\ \E s \in Succ(a) : PostDominates(n, s)
    /\ ~PostDominates(n, a)

\* The guards of a node are the nodes it is control dependent on.
ControlDependenceCorrect ==
    stage = "done" => \A n \in Block : parents[n] = {a \in Block : DependsOn(n, a)}

\* What can follow n in an execution: the least set that holds its sons and is
\* closed under them.
Follows(n) ==
    {m \in Block : \A C \in SUBSET Block :
        sons[n] \subseteq C /\ (\A k \in C : sons[k] \subseteq C) => m \in C}

\* The guards of a node, their guards, and so on.
Guards(n) ==
    {a \in Block : \A C \in SUBSET Block :
        parents[n] \subseteq C /\ (\A k \in C : parents[k] \subseteq C) => a \in C}

\* A require is never lost: every statement that can be executed after a node
\* that may abort has that node among its guards, the guards of its guards
\* and so on, which is what the control closure of a slice pulls in.
AbortsGuardWhatFollows ==
    stage = "done" =>
        \A a \in aborting : \A n \in Follows(a) \ {a} : a \in Guards(n)

\* No step puts a node back into a post-dominator set.
SweepsOnlyShrink == [][\A n \in Point : pdom'[n] \subseteq pdom[n]]_vars

\* The sweeps reach a fixpoint and every walk meets the immediate post-dominator
\* of its branch.
WalkEnds == <>(stage = "done")
=============================================================================
