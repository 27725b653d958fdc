---------------------------- MODULE AccessControl ----------------------------
(***************************************************************************)
(* catalog/access.py and `Slicer.access_control_of' of __init__.py: the    *)
(* checks that protect a function, and what they depend on.  The slice is  *)
(* started by hand from the modifier guards and the in-body checks of the  *)
(* caller, with no criterion, and saturated by the backward slicer.        *)
(***************************************************************************)
EXTENDS BackwardSlicer

CONSTANTS
    Checks,        \* what else a node does, see CheckInfo
    Constructors   \* functions that only the deployer calls

\* requires: a `require' or `assert'; aborts: it may throw or revert; isIf: an IF
\* node; comparesCaller: an equality with msg.sender or tx.origin; listsCaller: a
\* lookup in a mapping to bool, indexed by it; asksChecker: a call that takes it
\* as an argument; readsCaller: any of these, or another use of it.
CheckInfo ==
    [requires: BOOLEAN, isIf: BOOLEAN, aborts: BOOLEAN, sons: SUBSET Node,
     comparesCaller: BOOLEAN, listsCaller: BOOLEAN, asksChecker: BOOLEAN,
     readsCaller: BOOLEAN]

ASSUME ChecksAssumption ==
    Checks \in [Node -> CheckInfo] /\ Constructors \subseteq Fn

\* Both are operations of the node, which are no merges; an IF node is neither the
\* entry of a function nor a placeholder.
ASSUME ChecksAreStatements ==
    \A n \in Node :
        /\ Checks[n].requires \/ Checks[n].readsCaller => \E o \in OpsOf[n] : Kind(o) # "phi"
        /\ Checks[n].isIf => n \notin Scaffolding

\* MAX_BOUNDARY_CROSSINGS: the slicer of access_control_of is given no depth.
DefaultDepth == 1

ASSUME DefaultAllowed == DefaultDepth <= MaxDepth

\* is_caller_check: it can stop the caller, and it is about who that is.
StopsCaller(n) ==
    \/ Checks[n].requires
    \/ Checks[n].isIf /\ \E s \in Checks[n].sons : Checks[s].aborts

ChecksIdentity(n) ==
    Checks[n].comparesCaller \/ Checks[n].listsCaller \/ Checks[n].asksChecker

\* caller_check_nodes.
CallerChecks(f) == {n \in Node : FnOf(n) = f /\ StopsCaller(n) /\ ChecksIdentity(n)}

\* modifier_restricts_caller: it reads the caller, or a function it calls does.
Calls(F) == {Callee(o) : o \in {p \in Op : FnOfOp(p) \in F /\ IsDescendable(p)}}
CallsFrom(m) ==
    LET grow[i \in Nat] ==
          IF i = 0 THEN {m} ELSE LET prior == grow[i - 1] IN prior \cup Calls(prior)
    IN  grow[Cardinality(Op)]
RestrictsCaller(m) == \E n \in Node : FnOf(n) \in CallsFrom(m) /\ Checks[n].readsCaller

IsGuarded(f) ==
    \/ f \in Constructors
    \/ \E m \in Modifiers(f) : RestrictsCaller(m)
    \/ CallerChecks(f) # {}

EntryPoint(f) == {n \in Node : FnOf(n) = f /\ TypeOf(n) = "entrypoint"}

\* access_control_of, up to its saturation.
AccessInit ==
    \E f \in Fn : \E entry \in EntryPoint(f) :
        LET guards == ModifierGuards[f]
            checks == CallerChecks(f)
        IN  /\ request = [node |-> entry, target |-> NoName, depth |-> DefaultDepth,
                          rounds |-> 0, cross |-> FALSE]
            /\ included = Reasoned(Reasoned([n \in Node |-> "none"], guards, "modifier-guard"),
                                   checks, "control-dep")
            /\ notes = AssemblyNotes(guards \cup checks)
            /\ work = SeedReads(guards \cup checks)
            /\ visited = [v \in Var |-> Unvisited]
            /\ xcSeen = {} /\ xcUsed = 0
            /\ pulled = {} /\ stitched = {} /\ round = 0
            /\ stage = "seeded"

\* _saturate_backward, then _finish.
AccessFinish ==
    /\ stage = "seeded" /\ Saturated
    /\ notes' = notes \cup {<<"imprecise-alias", NoFn>> :
                              o \in {p \in OpsAt(Slice) : IsImprecise(p)}}
    /\ stage' = "done"
    /\ UNCHANGED <<request, included, visited, work, crossVars, storageVars>>

AccessNext ==
    \/ \E e \in work : Pop(e)
    \/ ControlClosure
    \/ AccessFinish
    \/ Terminating

AccessSpec == AccessInit /\ [][AccessNext]_vars /\ WF_vars(AccessNext)
=============================================================================
