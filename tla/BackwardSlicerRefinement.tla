----------------------- MODULE BackwardSlicerRefinement -----------------------
(***************************************************************************)
(* The worklist engine implements the search for dependences: a fact is    *)
(* known when its node is in the slice, or its variable was processed or   *)
(* is on the worklist with at most its crossings, in whichever function.   *)
(***************************************************************************)
EXTENDS BackwardSlicerProperties

\* In whichever function: the worklist says where a variable was met, the visited
\* map does not.
ReachedAnywhere(v, c) == \E f \in Fn : Reached(v, f, c)

Known ==
    {<<"node", n, 0>> : n \in Slice}
      \cup {<<"var", x[1], x[2]>> :
              x \in {y \in Var \X (0..MaxDepth) : ReachedAnywhere(y[1], y[2])}}

Search ==
    INSTANCE DependenceSearch WITH
        question <- request, known <- Known, answered <- (stage = "done")

\* Every step of the slicer learns only what a known fact explains and forgets
\* nothing, whatever it pops and whatever statement it is at, and the slice that
\* Finish returns is closed: the whole engine, budgets included, computes what
\* the search asks for.
ImplementsSearch == Search!Spec
=============================================================================
