---------------------------- MODULE ForwardSlicer ----------------------------
(***************************************************************************)
(* slicer.py, `_Slicer.forward': what the criterion influences.  The same  *)
(* object as the backward slicer, with the same slice, visited map and     *)
(* worklist, drained along uses instead of definitions.  When it is empty, *)
(* one scan adds what the branches of the slice guard, which refills it;   *)
(* when the scan adds nothing `forward' goes on to its next statement:     *)
(*                                                                         *)
(*   tainting   -- saturate --> what the criterion node guards             *)
(*   controlled --------------> modifier guards of its function            *)
(*   resolving  -- drain, along definitions --> _finish --> done           *)
(*                                                                         *)
(* The last drain is the backward slicer's own (Pop), on the visited map   *)
(* the forward pass has filled.                                            *)
(***************************************************************************)
EXTENDS BackwardSlicer

ForwardStage == {"tainting", "controlled", "resolving", "done"}

\* Forward slices do not stitch storage.
ForwardRequest == {r \in Request : r.rounds = 0}

\* _resolve_seed_vars, forward: what a whole node defines, or one SSA instance,
\* or the versions of a source variable that no operation of the function
\* defines, or failing that those at the node, or anywhere in the function.
ForwardSeeds(n, target) ==
    LET f     == FnOf(n)
        all   == VersionsOf(target, f)
        roots == {v \in all : DefSite(v, f) = {}}
        at    == all \cap (NodeReads(n) \cup NodeDefs(n))
    IN  IF target = NoName   THEN NodeDefs(n)
        ELSE IF target \in Var THEN {target}
        ELSE IF roots # {}   THEN roots
        ELSE IF at # {}      THEN at
        ELSE all

\* The source catalog picks the value an external call returns.
ForwardResolvable(r) ==
    \/ r.target = NoName
    \/ \E o \in OpsOf[r.node] : Kind(o) = "external" /\ LValue(o) = r.target
    \/ \E v \in Var : NameOf(v) = r.target /\ Home(v) = FnOf(r.node)

ForwardInit ==
    /\ request \in ForwardRequest /\ ForwardResolvable(request)
    /\ included = Reasoned([n \in Node |-> "none"],
                           {request.node} \ Scaffolding, "criterion")
    /\ notes = AssemblyNotes({request.node} \ Scaffolding)
    /\ work = Pushes(ForwardSeeds(request.node, request.target),
                     FnOf(request.node), 0)
    /\ visited = [v \in Var |-> Unvisited]
    /\ xcSeen = {} /\ xcUsed = 0
    /\ pulled = {} /\ stitched = {} /\ round = 0
    /\ stage = "tainting"

-----------------------------------------------------------------------------
(* _run_forward_data: one iteration pops one entry.                        *)

SkipTainted(e) == stage = "tainting" /\ SkipVisited(e)

\* (slip) Every formal, whichever argument is tainted.
ParametersAll(o, v) == UNION {VersionsOf(p, Callee(o)) : p \in Formals(Callee(o))}

\* Every SSA version of the formals that the call o passes v for.
Parameters(o, v) ==
    UNION {VersionsOf(p, Callee(o)) : p \in {q \in Formals(Callee(o)) : Actual(o, q) = v}}

\* (slip) The budget is off by one.
DescendsTooShort(o, c) == IsDescendable(o) /\ c + 1 < request.depth

\* _descend_forward is called with budget left.
Descends(o, c) == IsDescendable(o) /\ c < request.depth

\* Where the uses put the variable into the slice: a Phi has no place there.
UseNodes(uses) == {NodeOf(o) : o \in {p \in uses : Kind(p) # "phi"}} \ Scaffolding

\* Of the calls, those met before the cross-contract budget is spent, for every
\* order in which they may be met.  A call that does not resolve costs nothing.
MetInBudget(handled, calls) ==
    LET entered == {o \in handled : Callee(o) # NoFn}
        budget  == XContractDepth - xcUsed
    IN  /\ Cardinality(entered) <= budget
        /\ handled # calls => Cardinality(entered) = budget
        /\ budget = 0 => handled = {}

\* The entry is processed: every use is included, every call that takes the
\* variable is entered, everything the uses define is tainted.
TaintUses(e) ==
    LET uses  == UseSites(e.var, e.fn)
        calls == IF request.cross
                 THEN {o \in uses : Kind(o) = "external"} \ xcSeen ELSE {}
        deep  == {o \in uses : IsDescendable(o)} \ {o \in uses : Descends(o, e.cr)}
    IN  /\ stage = "tainting" /\ ~Processed(e)
        /\ visited' = [visited EXCEPT ![e.var] = e.cr]
        /\ included' = Reasoned(included, UseNodes(uses), DefReason(e))
        /\ \E handled \in SUBSET calls :
              LET entered == {o \in handled : Callee(o) # NoFn}
              IN  /\ MetInBudget(handled, calls)
                  /\ xcSeen' = xcSeen \cup handled
                  /\ xcUsed' = xcUsed + Cardinality(entered)
                  /\ work' = (work \ {e})
                        \cup (UNION {Pushes({LValue(o)} \ {NoVar}, e.fn, e.cr) : o \in uses})
                        \cup (UNION {Pushes(Parameters(o, e.var), Callee(o), e.cr + 1) :
                                       o \in {p \in uses : Descends(p, e.cr)}})
                        \cup UNION {Pushes(Parameters(o, e.var), Callee(o), 0) : o \in entered}
                  /\ notes' = notes \cup AssemblyNotes(UseNodes(uses))
                        \cup {<<"interproc-depth-limit", Callee(o)>> : o \in deep}
                        \cup {<<"cross-contract", Callee(o)>> : o \in entered}
                        \cup {<<"cross-contract-unresolved", NoFn>> :
                                o \in handled \ entered}
                        \cup {<<"cross-contract-depth-limit", NoFn>> :
                                o \in calls \ handled}
        /\ UNCHANGED <<request, storageVars, stage>>

-----------------------------------------------------------------------------
(* _forward_implicit_step: one scan over the slice, when the worklist is   *)
(* empty.                                                                  *)

\* What the nodes of S guard.
GuardedBy(S) == {n \in Node \ Scaffolding : GuardsOf(n) \cap S # {}}

\* The branches of the slice; a node that only may abort is none.
SliceBranches == {n \in Slice : Branches(n)}

NewlyGuarded == GuardedBy(SliceBranches) \ Slice

\* (slip) What they read, as in the backward closure.
ReadsAt(S) == SeedReads(S)

\* Everything the nodes of S define, with the whole budget.
DefinitionsAt(S) == UNION {Pushes(NodeDefs(n), FnOf(n), 0) : n \in S}

ImplicitStep ==
    /\ stage = "tainting" /\ work = {} /\ NewlyGuarded # {}
    /\ included' = Reasoned(included, NewlyGuarded, "control-dep")
    /\ notes' = notes \cup AssemblyNotes(NewlyGuarded)
    /\ work' = DefinitionsAt(NewlyGuarded)
    /\ UNCHANGED <<request, visited, crossVars, storageVars, stage>>

\* (slip) The branches are not scanned again after the worklist was drained.
TaintDrained == work = {}

\* _saturate_forward returns.
TaintSaturated == work = {} /\ NewlyGuarded = {}

-----------------------------------------------------------------------------
(* The statements of `forward', after the saturation.                      *)

ForwardControl ==
    LET guarded == GuardedBy({request.node})
    IN  /\ stage = "tainting" /\ TaintSaturated
        /\ included' = Reasoned(included, guarded, "control-dep")
        /\ notes' = notes \cup AssemblyNotes(guarded)
        /\ stage' = "controlled"
        /\ UNCHANGED <<request, visited, work, crossVars, storageVars>>

ForwardModifierGuards ==
    LET guards == ModifierGuards[FnOf(request.node)]
    IN  /\ stage = "controlled"
        /\ included' = Reasoned(included, guards, "modifier-guard")
        /\ notes' = notes \cup AssemblyNotes(guards)
        /\ work' = SeedReads(guards)
        /\ stage' = "resolving"
        /\ UNCHANGED <<request, visited, crossVars, storageVars>>

\* _run_backward_data, once: no control closure follows it.
ResolveModifierGuards(e) == stage = "resolving" /\ Pop(e)

ForwardFinish ==
    /\ stage = "resolving" /\ work = {}
    /\ notes' = notes \cup {<<"imprecise-alias", NoFn>> :
                              o \in {p \in OpsAt(Slice) : IsImprecise(p)}}
    /\ stage' = "done"
    /\ UNCHANGED <<request, included, visited, work, crossVars, storageVars>>

ForwardNext ==
    \/ \E e \in work : SkipTainted(e)
    \/ \E e \in work : TaintUses(e)
    \/ ImplicitStep
    \/ ForwardControl
    \/ ForwardModifierGuards
    \/ \E e \in work : ResolveModifierGuards(e)
    \/ ForwardFinish
    \/ Terminating

\* One thread, which blocks on nothing.
ForwardSpec == ForwardInit /\ [][ForwardNext]_vars /\ WF_vars(ForwardNext)
=============================================================================
