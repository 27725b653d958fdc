----------------------- MODULE AccessControlProperties -----------------------
(***************************************************************************)
(* What access_control_of promises, besides what every backward slice does *)
(* (GuardsNeverDropped and NothingDangles hold of it as well).              *)
(***************************************************************************)
EXTENDS AccessControl, BackwardSlicerProperties

Protected == FnOf(request.node)

\* A function that is reported as guarded has a guard to show for it: "guarded"
\* and the guard context are computed by different code.
GuardedHasContext ==
    stage = "done" /\ IsGuarded(Protected) /\ Protected \notin Constructors =>
        Slice # {}

\* What a check compares the caller with is traced to where it comes from: when it
\* is an argument of an internal function, every callsite is in the context, with
\* the modifier guards of the caller, and the argument passed there is followed.
CheckedArgumentsTraced ==
    stage = "done" =>
        \A n \in CallerChecks(Protected) : \A v \in NodeReads(n) :
            /\ NameOf(v) \in Formals(Protected)
            /\ \A o \in DefSite(v, Protected) : IsEntryMerge(o)
            => \A o \in Callsites[Protected] :
                  LET actual == Actual(o, NameOf(v))
                  IN  /\ InSlice(NodeOf(o))
                      /\ \A g \in ModifierGuards[FnOfOp(o)] : InSlice(g)
                      /\ actual # NoVar => Reached(actual, FnOfOp(o), 1)

GuardContext ==
    LeastClosed(NodeFacts(ModifierGuards[Protected] \cup CallerChecks(Protected)),
                [x \in Fact |-> DependsOn(x)])

\* The context is evidence: it holds only what the guards depend on, so that the
\* body of the function is in it only as far as a check needs it.
OnlyGuardContext == stage = "done" => \A n \in Slice : NodeFact(n) \in GuardContext
=============================================================================
