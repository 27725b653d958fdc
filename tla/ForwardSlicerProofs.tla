-------------------------- MODULE ForwardSlicerProofs --------------------------
(***************************************************************************)
(* What a forward slice promises, for every contract, every criterion and  *)
(* every budget, whatever the order in which the worklist is popped.  What *)
(* is followed is a promise about the slice while it is being tainted, so  *)
(* only the steps of the tainting stage can break it.  That nothing else   *)
(* is in the slice is about every stage, with one closed set of facts for  *)
(* the taint and one for the modifier guards (ForwardSound).               *)
(***************************************************************************)
EXTENDS ForwardSlicerProperties, BackwardSlicerProofs

-----------------------------------------------------------------------------
(* Type correctness.                                                       *)

LEMMA VersionsType ==
    \A f \in Fn : /\ VersionsIn[f] \in SUBSET Var
                  /\ \A p : VersionsOf(p, f) \in SUBSET Var
  <1> SUFFICES ASSUME NEW f \in Fn PROVE VersionsIn[f] \in SUBSET Var
    BY DEF VersionsOf
  <1>1. VersionsIn[f] = UNION {Reads(o) \cup ({LValue(o)} \ {NoVar}) :
                                 o \in {p \in Op : FnOfOp(p) = f}}
    BY DEF VersionsIn
  <1>2. \A o \in Op : Reads(o) \cup ({LValue(o)} \ {NoVar}) \in SUBSET Var
    BY OpTypes
  <1> QED
    BY <1>1, <1>2

LEMMA NodeDefsType == \A n \in Node : NodeDefs(n) \in SUBSET Var
  BY OpTypes DEF NodeDefs, OpsOf

\* The seeds are variables.
LEMMA ForwardSeedsType ==
    ASSUME NEW r \in Request
    PROVE  ForwardSeeds(r.node, r.target) \in SUBSET Var
  <1>1. r.node \in Node /\ FnOf(r.node) \in Fn /\ r.target \in Name \cup Var \cup {NoName}
    BY NodeTypes DEF Request
  <1>2. NodeDefs(r.node) \in SUBSET Var /\ VersionsOf(r.target, FnOf(r.node)) \in SUBSET Var
    BY <1>1, NodeDefsType, VersionsType
  <1> QED
    BY <1>1, <1>2 DEF ForwardSeeds

LEMMA ForwardInitType == ForwardInit => ForwardTypeOK
  <1> SUFFICES ASSUME ForwardInit PROVE ForwardTypeOK
    OBVIOUS
  <1> USE DEF ForwardInit
  <1>1. request \in Request /\ request.node \in Node /\ request.depth \in 0..MaxDepth
    BY DEF ForwardRequest, Request
  <1>2. included \in [Node -> Reason]
    <2>1. [n \in Node |-> "none"] \in [Node -> Reason] /\ "criterion" \in Reason
      BY DEF Reason
    <2> QED
      BY <2>1, ReasonedStrengthens
  <1>3. notes \subseteq Note
    BY <1>1, AssemblyNotesType
  <1>4. work \subseteq Entry /\ \A e \in work : e.cr <= request.depth
    <2>1. 0 \in 0..request.depth /\ FnOf(request.node) \in Fn
      BY <1>1, NodeTypes, BoundsAssumption
    <2> QED
      BY <1>1, <2>1, ForwardSeedsType, PushesType
  <1>5. visited \in [Var -> 0..Unvisited] /\ xcUsed \in 0..XContractDepth
    BY BoundsAssumption DEF Unvisited
  <1>6. round \in 0..request.rounds
    BY <1>1 DEF Request
  <1> QED
    BY <1>1, <1>2, <1>3, <1>4, <1>5, <1>6 DEF ForwardTypeOK, SliceTypeOK, ForwardStage

\* The formals a call passes a variable for are variables of its callee.
LEMMA ParametersType ==
    ASSUME NEW o \in Op, NEW v, Callee(o) # NoFn
    PROVE  Parameters(o, v) \in SUBSET Var /\ Callee(o) \in Fn
  <1>1. Callee(o) \in Fn
    BY OpTypes
  <1> QED
    BY <1>1, VersionsType DEF Parameters

\* An entry of the worklist and a use of its variable.
LEMMA UseType ==
    ASSUME SliceTypeOK, NEW e \in work, NEW o \in UseSites(e.var, e.fn)
    PROVE  /\ o \in Op /\ NodeOf(o) \in Node /\ FnOfOp(o) = e.fn
           /\ LValue(o) \in Var \cup {NoVar}
           /\ IsDescendable(o) => Callee(o) # NoFn
  BY EntryType, OpTypes, CallsResolved DEF UseSites, UseMap, IsDescendable

\* What one use of the variable pushes.
UsePushes(o, e) == Pushes({LValue(o)} \ {NoVar}, e.fn, e.cr)
DescendPushes(o, e) == Pushes(Parameters(o, e.var), Callee(o), e.cr + 1)
CrossPushes(o, e) == Pushes(Parameters(o, e.var), Callee(o), 0)

LEMMA UsePushesType ==
    ASSUME SliceTypeOK, NEW e \in work, NEW o \in UseSites(e.var, e.fn)
    PROVE  /\ UsePushes(o, e) \subseteq Entry
           /\ \A x \in UsePushes(o, e) : x.cr <= request.depth
           /\ Descends(o, e.cr) =>
                 /\ DescendPushes(o, e) \subseteq Entry
                 /\ \A x \in DescendPushes(o, e) : x.cr <= request.depth
           /\ Callee(o) # NoFn =>
                 /\ CrossPushes(o, e) \subseteq Entry
                 /\ \A x \in CrossPushes(o, e) : x.cr <= request.depth
  <1>1. /\ e.fn \in Fn /\ e.cr \in 0..request.depth /\ request.depth \in 0..MaxDepth
        /\ o \in Op /\ {LValue(o)} \ {NoVar} \in SUBSET Var
        /\ IsDescendable(o) => Callee(o) # NoFn
    BY EntryType, UseType
  <1>2. /\ UsePushes(o, e) \subseteq Entry
        /\ \A x \in UsePushes(o, e) : x.cr <= request.depth
    BY <1>1, PushesType DEF UsePushes
  <1>3. ASSUME Descends(o, e.cr)
        PROVE  /\ DescendPushes(o, e) \subseteq Entry
               /\ \A x \in DescendPushes(o, e) : x.cr <= request.depth
    <2>1. e.cr + 1 \in 0..request.depth /\ Callee(o) # NoFn
      BY <1>1, <1>3, BoundsAssumption DEF Descends
    <2> QED
      BY <1>1, <2>1, ParametersType, PushesType DEF DescendPushes
  <1>4. ASSUME Callee(o) # NoFn
        PROVE  /\ CrossPushes(o, e) \subseteq Entry
               /\ \A x \in CrossPushes(o, e) : x.cr <= request.depth
    <2>1. 0 \in 0..request.depth
      BY <1>1, BoundsAssumption
    <2> QED
      BY <1>1, <1>4, <2>1, ParametersType, PushesType DEF CrossPushes
  <1> QED
    BY <1>2, <1>3, <1>4

\* The step that follows the uses of e, for some of the external calls handled.
Follows(e, handled) ==
    LET uses    == UseSites(e.var, e.fn)
        entered == {o \in handled : Callee(o) # NoFn}
        deep    == {o \in uses : IsDescendable(o)} \ {o \in uses : Descends(o, e.cr)}
    IN  /\ handled \subseteq uses
        /\ Cardinality(entered) <= XContractDepth - xcUsed
        /\ xcSeen' = xcSeen \cup handled
        /\ xcUsed' = xcUsed + Cardinality(entered)
        /\ work' = (work \ {e})
              \cup (UNION {UsePushes(o, e) : o \in uses})
              \cup (UNION {DescendPushes(o, e) : o \in {p \in uses : Descends(p, e.cr)}})
              \cup UNION {CrossPushes(o, e) : o \in entered}
        /\ notes \subseteq notes'
        /\ {<<"interproc-depth-limit", Callee(o)>> : o \in deep} \subseteq notes'
        /\ notes' \subseteq notes \cup AssemblyNotes(UseNodes(uses))
              \cup ({"interproc-depth-limit", "cross-contract",
                     "cross-contract-unresolved", "cross-contract-depth-limit"}
                     \X ({Callee(o) : o \in Op} \cup {NoFn}))

LEMMA TaintFollows ==
    ASSUME SliceTypeOK, NEW e \in work, TaintUses(e)
    PROVE  \E handled : Follows(e, handled)
  <1> DEFINE uses  == UseSites(e.var, e.fn)
             calls == IF request.cross
                      THEN {o \in uses : Kind(o) = "external"} \ xcSeen ELSE {}
             deep  == {o \in uses : IsDescendable(o)} \ {o \in uses : Descends(o, e.cr)}
             entered(H) == {o \in H : Callee(o) # NoFn}
  <1>1. PICK H \in SUBSET calls :
              /\ MetInBudget(H, calls)
              /\ xcSeen' = xcSeen \cup H
              /\ xcUsed' = xcUsed + Cardinality(entered(H))
              /\ work' = (work \ {e})
                    \cup (UNION {UsePushes(o, e) : o \in uses})
                    \cup (UNION {DescendPushes(o, e) : o \in {p \in uses : Descends(p, e.cr)}})
                    \cup UNION {CrossPushes(o, e) : o \in entered(H)}
              /\ notes' = notes \cup AssemblyNotes(UseNodes(uses))
                    \cup {<<"interproc-depth-limit", Callee(o)>> : o \in deep}
                    \cup {<<"cross-contract", Callee(o)>> : o \in entered(H)}
                    \cup {<<"cross-contract-unresolved", NoFn>> : o \in H \ entered(H)}
                    \cup {<<"cross-contract-depth-limit", NoFn>> : o \in calls \ H}
    BY DEF TaintUses, UsePushes, DescendPushes, CrossPushes
  <1>2. H \subseteq uses /\ \A o \in uses : o \in Op
    BY <1>1, UseType
  <1>3. Cardinality(entered(H)) <= XContractDepth - xcUsed
    BY <1>1 DEF MetInBudget
  <1>4. /\ notes \subseteq notes'
        /\ {<<"interproc-depth-limit", Callee(o)>> : o \in deep} \subseteq notes'
    BY <1>1
  <1>5. notes' \subseteq notes \cup AssemblyNotes(UseNodes(uses))
              \cup ({"interproc-depth-limit", "cross-contract",
                     "cross-contract-unresolved", "cross-contract-depth-limit"}
                     \X ({Callee(o) : o \in Op} \cup {NoFn}))
    BY <1>1, <1>2
  <1> HIDE DEF deep
  <1>6. Follows(e, H)
    BY <1>1, <1>2, <1>3, <1>4, <1>5 DEF Follows, deep
  <1> QED
    BY <1>6

LEMMA TaintUsesType ==
    ASSUME ForwardTypeOK, NEW e \in work, TaintUses(e)
    PROVE  ForwardTypeOK'
  <1> DEFINE uses == UseSites(e.var, e.fn)
             entered(H) == {o \in H : Callee(o) # NoFn}
  <1>0. SliceTypeOK
    BY DEF ForwardTypeOK
  <1>1. PICK H : Follows(e, H)
    BY <1>0, TaintFollows
  <1>2. /\ UNCHANGED <<request, storageVars, stage>>
        /\ visited' = [visited EXCEPT ![e.var] = e.cr]
        /\ included' = Reasoned(included, UseNodes(uses), DefReason(e))
    BY DEF TaintUses
  <1>3. \A o \in uses : o \in Op /\ NodeOf(o) \in Node
    BY <1>0, UseType
  <1>4. UseNodes(uses) \in SUBSET Node /\ DefReason(e) \in Reason
    BY <1>3 DEF UseNodes, DefReason, Reason
  <1>5. included' \in [Node -> Reason]
    BY <1>0, <1>2, <1>4, IncludeType
  <1>6. visited' \in [Var -> 0..Unvisited]
    <2>1. e.cr \in 0..Unvisited
      BY <1>0, EntryType, BoundsAssumption DEF Unvisited
    <2> QED
      BY <1>0, <1>2, <2>1 DEF SliceTypeOK
  <1>7. notes' \subseteq Note
    <2>1. AssemblyNotes(UseNodes(uses)) \subseteq Note /\ notes \subseteq Note
      BY <1>0, <1>4, AssemblyNotesType DEF SliceTypeOK
    <2>2. {"interproc-depth-limit", "cross-contract",
           "cross-contract-unresolved", "cross-contract-depth-limit"} \subseteq NoteKind
      BY DEF NoteKind
    <2>3. {Callee(o) : o \in Op} \cup {NoFn} \subseteq Fn \cup {NoFn}
      BY OpTypes
    <2> QED
      BY <1>1, <2>1, <2>2, <2>3 DEF Follows, Note
  <1>8. work' \subseteq Entry /\ \A x \in work' : x.cr <= request.depth
    <2>1. /\ work \ {e} \subseteq Entry /\ \A x \in work \ {e} : x.cr <= request.depth
          /\ H \subseteq uses
      BY <1>0, <1>1, EntryType DEF Follows
    <2>2. ASSUME NEW x \in work', x \notin work \ {e}
          PROVE  x \in Entry /\ x.cr <= request.depth
      <3>1. \/ \E o \in uses : x \in UsePushes(o, e)
            \/ \E o \in uses : Descends(o, e.cr) /\ x \in DescendPushes(o, e)
            \/ \E o \in uses : Callee(o) # NoFn /\ x \in CrossPushes(o, e)
        BY <1>1, <2>1, <2>2 DEF Follows
      <3> QED
        BY <1>0, <3>1, UsePushesType
    <2> QED
      BY <2>1, <2>2
  <1>9. xcSeen' \subseteq Op /\ xcUsed' \in 0..XContractDepth
    <2>1. entered(H) \in SUBSET Op /\ H \in SUBSET Op
      BY <1>1, <1>3 DEF Follows
    <2>2. Cardinality(entered(H)) \in Nat
      BY <2>1, FiniteAssumption, FS_Subset, FS_CardinalityType
    <2> QED
      BY <1>0, <1>1, <2>1, <2>2, BoundsAssumption DEF SliceTypeOK, Follows
  <1> QED
    BY <1>2, <1>5, <1>6, <1>7, <1>8, <1>9
       DEF ForwardTypeOK, SliceTypeOK, storageVars

\* Including a set of nodes leaves the rest of the type alone.
LEMMA IncludedType ==
    ASSUME ForwardTypeOK, NEW S \in SUBSET Node, NEW r \in Reason,
           included' = Reasoned(included, S, r),
           notes' = notes \cup AssemblyNotes(S),
           work' \subseteq Entry, \A x \in work' : x.cr <= request.depth,
           UNCHANGED <<request, visited, crossVars, storageVars>>,
           stage' \in ForwardStage
    PROVE  ForwardTypeOK'
  <1>1. included' \in [Node -> Reason] /\ notes' \subseteq Note
    BY IncludeType DEF ForwardTypeOK
  <1> QED
    BY <1>1 DEF ForwardTypeOK, SliceTypeOK, crossVars, storageVars

LEMMA DefinitionsAtType ==
    ASSUME ForwardTypeOK, NEW S \in SUBSET Node
    PROVE  /\ DefinitionsAt(S) \subseteq Entry
           /\ \A x \in DefinitionsAt(S) : x.cr <= request.depth
  <1>1. ASSUME NEW n \in S
        PROVE  /\ Pushes(NodeDefs(n), FnOf(n), 0) \subseteq Entry
               /\ \A x \in Pushes(NodeDefs(n), FnOf(n), 0) : x.cr <= request.depth
    <2>1. /\ request.depth \in 0..MaxDepth /\ 0 \in 0..request.depth
          /\ NodeDefs(n) \in SUBSET Var /\ FnOf(n) \in Fn
      BY NodeDefsType, NodeTypes, BoundsAssumption DEF ForwardTypeOK, SliceTypeOK, Request
    <2> QED
      BY <2>1, PushesType
  <1> QED
    BY <1>1 DEF DefinitionsAt

LEMMA ForwardNextType == ForwardTypeOK /\ [ForwardNext]_vars => ForwardTypeOK'
  <1> SUFFICES ASSUME ForwardTypeOK, [ForwardNext]_vars PROVE ForwardTypeOK'
    OBVIOUS
  <1>0. /\ SliceTypeOK /\ stage \in ForwardStage
        /\ work \subseteq Entry /\ \A x \in work : x.cr <= request.depth
        /\ request.depth \in 0..MaxDepth /\ request.node \in Node
        /\ FnOf(request.node) \in Fn
    BY CriterionType DEF ForwardTypeOK, SliceTypeOK, Request
  <1>1. CASE \E e \in work : SkipTainted(e)
    BY <1>1 DEF SkipTainted, SkipVisited, ForwardTypeOK, SliceTypeOK, sliceVars,
                crossVars, storageVars
  <1>2. CASE \E e \in work : TaintUses(e)
    BY <1>2, TaintUsesType
  <1>3. CASE ImplicitStep
    <2>1. NewlyGuarded \in SUBSET Node /\ "control-dep" \in Reason
      BY DEF NewlyGuarded, GuardedBy, Reason
    <2>2. work' \subseteq Entry /\ \A x \in work' : x.cr <= request.depth
      BY <1>3, <2>1, DefinitionsAtType DEF ImplicitStep
    <2> QED
      BY <1>0, <1>3, <2>1, <2>2, IncludedType DEF ImplicitStep
  <1>4. CASE ForwardControl
    <2>1. GuardedBy({request.node}) \in SUBSET Node /\ "control-dep" \in Reason
      BY DEF GuardedBy, Reason
    <2>2. work' \subseteq Entry /\ \A x \in work' : x.cr <= request.depth
      BY <1>0, <1>4 DEF ForwardControl
    <2> QED
      BY <1>4, <2>1, <2>2, IncludedType DEF ForwardControl, ForwardStage
  <1>5. CASE ForwardModifierGuards
    <2> DEFINE guards == ModifierGuards[FnOf(request.node)]
    <2>1. guards \in SUBSET Node /\ "modifier-guard" \in Reason
      BY <1>0, ModifierGuardsType DEF Reason
    <2>2. work' \subseteq Entry /\ \A x \in work' : x.cr <= request.depth
      BY <1>0, <1>5, SeedReadsType DEF ForwardModifierGuards
    <2> QED
      BY <1>5, <2>1, <2>2, IncludedType DEF ForwardModifierGuards, ForwardStage
  <1>6. CASE \E e \in work : ResolveModifierGuards(e)
    <2>1. \E e \in work : Pop(e)
      BY <1>6 DEF ResolveModifierGuards
    <2>2. SliceTypeOK' /\ UNCHANGED <<request, crossVars, storageVars, stage>>
      BY <1>0, <2>1, PopType, PopSteady
    <2> QED
      BY <2>2 DEF ForwardTypeOK, storageVars
  <1>7. CASE ForwardFinish
    <2>1. <<"imprecise-alias", NoFn>> \in Note
      BY DEF Note, NoteKind
    <2> QED
      BY <1>7, <2>1 DEF ForwardFinish, ForwardTypeOK, SliceTypeOK, ForwardStage, crossVars,
                        storageVars
  <1>8. CASE UNCHANGED vars
    BY <1>8 DEF vars, ForwardTypeOK, SliceTypeOK
  <1> QED
    BY <1>1, <1>2, <1>3, <1>4, <1>5, <1>6, <1>7, <1>8 DEF ForwardNext, Terminating

\* The state of a forward slice is always well typed: in particular taint never
\* crosses more calls than `depth' allows, no more external calls are entered
\* than `xcontract_depth' allows, and no storage is stitched.
THEOREM ForwardTypeCorrect == ForwardSpec => []ForwardTypeOK
  BY ForwardInitType, ForwardNextType, PTL DEF ForwardSpec

-----------------------------------------------------------------------------
(* Nothing tainted is taken back.                                          *)

\* The steps of the tainting stage: only these leave the stage as it is found.
LEMMA TaintingSteps ==
    ASSUME [ForwardNext]_vars, stage' = "tainting"
    PROVE  /\ stage = "tainting" /\ request' = request
           /\ \/ \E e \in work : SkipTainted(e) \/ TaintUses(e)
              \/ ImplicitStep
              \/ UNCHANGED vars
  <1>1. ~ForwardControl /\ ~ForwardModifierGuards /\ ~ForwardFinish
    BY DEF ForwardControl, ForwardModifierGuards, ForwardFinish
  <1>2. ~(\E e \in work : ResolveModifierGuards(e))
    BY PopSteady DEF ResolveModifierGuards
  <1> QED
    BY <1>1, <1>2
       DEF ForwardNext, SkipTainted, SkipVisited, TaintUses, ImplicitStep, Terminating, vars

\* No reason is weakened, no cheaper visit forgotten, no note taken back.
LEMMA TaintingStrengthens ==
    ASSUME ForwardTypeOK, [ForwardNext]_vars, stage' = "tainting"
    PROVE  Strengthens
  <1>0. SliceTypeOK
    BY DEF ForwardTypeOK
  <1>1. /\ \A n \in Node : Rank[included[n]] <= Rank[included[n]]
        /\ \A v \in Var : visited[v] <= visited[v]
    BY <1>0, RankType, BoundsAssumption DEF SliceTypeOK, Unvisited
  <1>2. CASE \E e \in work : SkipTainted(e)
    BY <1>1, <1>2 DEF SkipTainted, SkipVisited, sliceVars, Strengthens
  <1>3. ASSUME NEW e \in work, TaintUses(e) PROVE Strengthens
    <2>1. /\ included' = Reasoned(included, UseNodes(UseSites(e.var, e.fn)), DefReason(e))
          /\ DefReason(e) \in Reason
          /\ visited' = [visited EXCEPT ![e.var] = e.cr] /\ ~Processed(e)
      BY <1>3 DEF TaintUses, DefReason, Reason
    <2>2. \A n \in Node : Rank[included[n]] <= Rank[included'[n]]
      BY <1>0, <2>1, IncludeStrengthens
    <2>3. \A v \in Var : visited'[v] <= visited[v]
      <3>1. e.cr \in Nat /\ \A v \in Var : visited[v] \in Nat
        BY <1>0, EntryType, VisitedType, BoundsAssumption
      <3> QED
        BY <1>0, <2>1, <3>1 DEF Processed, SliceTypeOK
    <2>4. notes \subseteq notes'
      BY <1>0, <1>3, TaintFollows DEF Follows
    <2> QED
      BY <2>2, <2>3, <2>4 DEF Strengthens
  <1>4. CASE ImplicitStep
    <2>1. included' = Reasoned(included, NewlyGuarded, "control-dep")
          /\ "control-dep" \in Reason
      BY <1>4 DEF ImplicitStep, Reason
    <2>2. \A n \in Node : Rank[included[n]] <= Rank[included'[n]]
      BY <1>0, <2>1, IncludeStrengthens
    <2> QED
      BY <1>1, <1>4, <2>2 DEF ImplicitStep, Strengthens
  <1>5. CASE UNCHANGED vars
    BY <1>1, <1>5 DEF vars, Strengthens
  <1> QED
    BY <1>2, <1>3, <1>4, <1>5, TaintingSteps

\* A node of the slice stays in it.
LEMMA TaintedStays ==
    ASSUME ForwardTypeOK, [ForwardNext]_vars, stage' = "tainting",
           NEW n \in Node, InSlice(n)
    PROVE  InSlice(n)'
  <1>1. /\ Rank[included[n]] <= Rank[included'[n]]
        /\ included[n] \in Reason /\ included'[n] \in Reason
    BY TaintingStrengthens, ForwardNextType DEF Strengthens, ForwardTypeOK, SliceTypeOK
  <1>2. Rank[included[n]] \in Nat /\ Rank[included'[n]] \in Nat
    BY <1>1, RankType
  <1> QED
    BY <1>1, <1>2, RankNone DEF InSlice

\* An entry leaves the worklist when its variable has been processed with at
\* least as much budget.
LEMMA TaintedWorkKept ==
    ASSUME ForwardTypeOK, [ForwardNext]_vars, stage' = "tainting"
    PROVE  \A e \in work : e \in work' \/ visited'[e.var] <= e.cr
  <1>0. SliceTypeOK
    BY DEF ForwardTypeOK
  <1>1. ASSUME NEW e \in work, SkipTainted(e)
        PROVE  work \ {e} \subseteq work' /\ visited'[e.var] <= e.cr
    BY <1>1 DEF SkipTainted, SkipVisited, Processed
  <1>2. ASSUME NEW e \in work, TaintUses(e)
        PROVE  work \ {e} \subseteq work' /\ visited'[e.var] <= e.cr
    <2>1. work \ {e} \subseteq work'
      BY <1>0, <1>2, TaintFollows DEF Follows
    <2>2. visited'[e.var] = e.cr /\ e.cr \in Int
      BY <1>0, <1>2, EntryType DEF TaintUses, SliceTypeOK
    <2> QED
      BY <2>1, <2>2
  <1>3. CASE ImplicitStep
    BY <1>3 DEF ImplicitStep
  <1>4. CASE UNCHANGED vars
    BY <1>4 DEF vars
  <1> QED
    BY <1>1, <1>2, <1>3, <1>4, TaintingSteps

\* What has been reached stays reached.
LEMMA TaintReachedStable ==
    ASSUME ForwardTypeOK, [ForwardNext]_vars, stage' = "tainting",
           NEW v \in Var, NEW f, NEW c \in Nat, Reached(v, f, c)
    PROVE  Reached(v, f, c)'
  <1>1. ForwardTypeOK' /\ visited'[v] <= visited[v]
    BY ForwardNextType, TaintingStrengthens DEF Strengthens
  <1>2. visited[v] \in Nat /\ visited'[v] \in Nat
    BY <1>1, BoundsAssumption DEF ForwardTypeOK, SliceTypeOK, Unvisited
  <1>3. CASE visited[v] <= c
    BY <1>1, <1>2, <1>3 DEF Reached
  <1>4. ASSUME NEW e \in work, e.var = v, e.fn = f, e.cr <= c
        PROVE  Reached(v, f, c)'
    <2>1. e.cr \in Nat
      BY EntryType, BoundsAssumption DEF ForwardTypeOK
    <2>2. CASE e \in work'
      BY <1>4, <2>2 DEF Reached
    <2>3. CASE visited'[e.var] <= e.cr
      BY <1>2, <1>4, <2>1, <2>3 DEF Reached
    <2> QED
      BY <2>2, <2>3, TaintedWorkKept
  <1> QED
    BY <1>3, <1>4 DEF Reached

-----------------------------------------------------------------------------
(* What a branch guards is tainted.                                        *)

\* What the nodes of S define is on the worklist when it is pushed for them.
LEMMA DefinitionsReached ==
    ASSUME NEW S, DefinitionsAt(S) \subseteq work', NEW n \in S
    PROVE  AllReached(NodeDefs(n), FnOf(n), 0)'
  <1>1. Pushes(NodeDefs(n), FnOf(n), 0) \subseteq work'
    BY DEF DefinitionsAt
  <1> QED
    BY <1>1, PushedReached

LEMMA NextGuardedTaint ==
    ForwardTypeOK /\ GuardedTaint /\ [ForwardNext]_vars => GuardedTaint'
  <1> SUFFICES ASSUME ForwardTypeOK, GuardedTaint, [ForwardNext]_vars,
                      stage' = "tainting", NEW n \in Node, included'[n] = "control-dep"
               PROVE  AllReached(NodeDefs(n), FnOf(n), 0)'
    BY DEF GuardedTaint
  <1>0. SliceTypeOK /\ included \in [Node -> Reason] /\ stage = "tainting"
    BY TaintingSteps DEF ForwardTypeOK, SliceTypeOK
  <1>1. CASE included[n] = "control-dep"
    <2>1. AllReached(NodeDefs(n), FnOf(n), 0) /\ NodeDefs(n) \in SUBSET Var
      BY <1>0, <1>1, NodeDefsType DEF GuardedTaint
    <2> QED
      BY <2>1, TaintReachedStable DEF AllReached
  <1>2. CASE included[n] # "control-dep"
    <2>1. ImplicitStep
      <3>1. ASSUME NEW e \in work, TaintUses(e) PROVE FALSE
        <4>1. /\ included' = Reasoned(included, UseNodes(UseSites(e.var, e.fn)), DefReason(e))
              /\ DefReason(e) \in Reason /\ DefReason(e) # "control-dep"
          BY <3>1 DEF TaintUses, DefReason, Reason
        <4> QED
          BY <1>0, <1>2, <4>1, ReasonedStrengthens
      <3>2. included' # included
        BY <1>2
      <3> QED
        BY <3>1, <3>2, TaintingSteps DEF SkipTainted, SkipVisited, sliceVars, vars
    <2>2. /\ included' = Reasoned(included, NewlyGuarded, "control-dep")
          /\ work' = DefinitionsAt(NewlyGuarded)
          /\ "control-dep" \in Reason
      BY <2>1 DEF ImplicitStep, Reason
    <2>3. n \in NewlyGuarded
      BY <1>0, <1>2, <2>2, ReasonedStrengthens
    <2> QED
      BY <2>2, <2>3, DefinitionsReached
  <1> QED
    BY <1>1, <1>2

\* While the slice is being tainted, every statement that is in it because a
\* branch guards it has everything it defines processed or on the worklist, with
\* the whole budget.
THEOREM GuardedStatementsTaint == ForwardSpec => []GuardedTaint
  <1>1. ForwardInit => GuardedTaint
    <2> SUFFICES ASSUME ForwardInit, NEW n \in Node PROVE included[n] # "control-dep"
      BY DEF GuardedTaint
    <2>1. [m \in Node |-> "none"] \in [Node -> Reason] /\ "criterion" \in Reason
      BY DEF Reason
    <2>2. included[n] = "none" \/ included[n] = "criterion"
      BY <2>1, ReasonedStrengthens DEF ForwardInit
    <2> QED
      BY <2>2
  <1> QED
    BY <1>1, ForwardInitType, ForwardNextType, NextGuardedTaint, PTL DEF ForwardSpec

-----------------------------------------------------------------------------
(* The two fixpoints are nested the right way.                             *)

\* Of the scaffolding aside, the criterion is in the slice.
CriterionIn ==
    stage = "tainting" /\ request.node \notin Scaffolding => InSlice(request.node)

LEMMA NextCriterionIn ==
    ForwardTypeOK /\ CriterionIn /\ [ForwardNext]_vars => CriterionIn'
  <1> SUFFICES ASSUME ForwardTypeOK, CriterionIn, [ForwardNext]_vars,
                      stage' = "tainting", request'.node \notin Scaffolding
               PROVE  InSlice(request.node)'
    BY DEF CriterionIn
  <1>1. /\ stage = "tainting" /\ request' = request
        /\ request.node \in Node
    BY TaintingSteps, CriterionType DEF ForwardTypeOK
  <1>2. InSlice(request.node)
    BY <1>1 DEF CriterionIn
  <1>3. PICK n \in Node : n = request.node
    BY <1>1
  <1>4. InSlice(n)'
    BY <1>2, <1>3, TaintedStays
  <1>5. request'.node = n
    BY <1>1, <1>3
  <1> QED
    BY <1>4, <1>5 DEF InSlice

\* Only one step leads out of the tainting stage, and only from a slice that is
\* saturated.
LEMMA ControlledSteps ==
    ASSUME [ForwardNext]_vars, stage' = "controlled"
    PROVE  \/ ForwardControl
           \/ UNCHANGED vars
  <1>1. ~ForwardModifierGuards /\ ~ForwardFinish /\ ~ImplicitStep
    BY DEF ForwardModifierGuards, ForwardFinish, ImplicitStep
  <1>2. /\ ~(\E e \in work : SkipTainted(e) \/ TaintUses(e))
        /\ ~(\E e \in work : ResolveModifierGuards(e))
    BY PopSteady DEF SkipTainted, SkipVisited, TaintUses, ResolveModifierGuards
  <1> QED
    BY <1>1, <1>2 DEF ForwardNext, Terminating, vars

LEMMA ControlCloses ==
    ASSUME ForwardTypeOK, CriterionIn, ForwardControl, NEW b \in SliceBranches',
           (request.node \in SliceBranches \/ request.node \notin GuardsOf(b))'
    PROVE  GuardedBy({b}) \subseteq Slice'
  <1> DEFINE c == request.node
  <1>1. /\ stage = "tainting" /\ work = {} /\ NewlyGuarded = {} /\ request' = request
        /\ included' = Reasoned(included, GuardedBy({c}), "control-dep")
        /\ included \in [Node -> Reason] /\ "control-dep" \in Reason \ {"none"}
    BY DEF ForwardControl, TaintSaturated, ForwardTypeOK, SliceTypeOK, Reason
  <1>2. \A n \in Node : InSlice(n) => InSlice(n)'
    BY <1>1 DEF Reasoned, InSlice
  <1>3. \A n \in Node : InSlice(n)' => InSlice(n) \/ n \in GuardedBy({c})
    BY <1>1 DEF Reasoned, InSlice
  <1>4. \A s \in SliceBranches : GuardedBy({s}) \subseteq Slice
    BY <1>1 DEF NewlyGuarded, GuardedBy
  <1>5. Slice \subseteq Slice'
    BY <1>2 DEF Slice
  <1>6. b \in Node /\ InSlice(b)' /\ Branches(b)
    BY DEF SliceBranches, Slice
  <1>7. c \in SliceBranches' => c \in SliceBranches
    <2> SUFFICES ASSUME c \in SliceBranches' PROVE InSlice(c)
      BY DEF SliceBranches, Slice
    <2>1. CASE c \notin Scaffolding
      BY <1>1, <2>1 DEF CriterionIn
    <2>2. CASE c \in Scaffolding
      <3>1. PICK n \in Node : n = c
        BY DEF SliceBranches, Slice
      <3>2. InSlice(n)' /\ n \notin GuardedBy({c})
        BY <2>2, <3>1 DEF SliceBranches, Slice, GuardedBy
      <3> QED
        BY <1>3, <3>1, <3>2
    <2> QED
      BY <2>1, <2>2
  <1>8. InSlice(b)
    <2>1. CASE b \notin GuardedBy({c})
      BY <1>3, <1>6, <2>1
    <2>2. CASE b \in GuardedBy({c})
      <3>1. c \in GuardsOf(b)
        BY <2>2 DEF GuardedBy
      <3>2. c \in SliceBranches
        BY <1>1, <1>7, <3>1
      <3>3. b \in Slice
        BY <1>4, <2>2, <3>2
      <3> QED
        BY <3>3 DEF Slice
    <2> QED
      BY <2>1, <2>2
  <1>9. b \in SliceBranches
    BY <1>6, <1>8 DEF SliceBranches, Slice
  <1> QED
    BY <1>4, <1>5, <1>9

LEMMA NextBranches ==
    ForwardTypeOK /\ CriterionIn /\ BranchesClosed /\ [ForwardNext]_vars => BranchesClosed'
  <1> SUFFICES ASSUME ForwardTypeOK, CriterionIn, BranchesClosed, [ForwardNext]_vars,
                      stage' = "controlled"
               PROVE  BranchesClosed'
    BY DEF BranchesClosed
  <1>1. CASE ForwardControl
    <2>1. work' = {}
      BY <1>1 DEF ForwardControl, TaintSaturated
    <2>2. \A b \in SliceBranches' :
             (request.node \in SliceBranches \/ request.node \notin GuardsOf(b))'
                => GuardedBy({b}) \subseteq Slice'
      BY <1>1, ControlCloses
    <2> QED
      BY <2>1, <2>2 DEF BranchesClosed, GuardedBy
  <1>2. CASE UNCHANGED vars
    BY <1>2 DEF vars, BranchesClosed, SliceBranches, Slice, InSlice, GuardedBy
  <1> QED
    BY <1>1, <1>2, ControlledSteps

\* When the saturation of the forward slice is over, every branch it has put
\* into the slice has all it guards in the slice, and no taint is left to follow.
THEOREM EveryBranchIsClosed == ForwardSpec => []BranchesClosed
  <1>1. ForwardInit => CriterionIn /\ BranchesClosed
    <2> SUFFICES ASSUME ForwardInit PROVE CriterionIn
      BY DEF ForwardInit, BranchesClosed
    <2>1. request.node \in Node
      BY DEF ForwardInit, ForwardRequest, Request
    <2>2. Rank["criterion"] > Rank["none"]
      BY DEF Rank, Reason
    <2> QED
      BY <2>1, <2>2 DEF ForwardInit, CriterionIn, Reasoned, InSlice
  <1> QED
    BY <1>1, ForwardInitType, ForwardNextType, NextCriterionIn, NextBranches, PTL
       DEF ForwardSpec

-----------------------------------------------------------------------------
(* Everything processed is followed.                                       *)

\* Every entry has the function its variable belongs to.
IsLocal(E) == \A e \in E : e.fn = Home(e.var)

\* An entry is pushed with the function its variable belongs to.
TaintIsLocal == stage = "tainting" /\ LocalTaint => IsLocal(work)

LEMMA TaintUsesLocal ==
    ASSUME ForwardTypeOK, LocalTaint, IsLocal(work), NEW e \in work, TaintUses(e)
    PROVE  IsLocal(work')
  <1>0. SliceTypeOK
    BY DEF ForwardTypeOK
  <1>1. PICK H : Follows(e, H)
    BY <1>0, TaintFollows
  <1>2. ASSUME NEW o \in UseSites(e.var, e.fn)
        PROVE  /\ IsLocal(UsePushes(o, e))
               /\ Callee(o) # NoFn => IsLocal(DescendPushes(o, e)) /\ IsLocal(CrossPushes(o, e))
    <2>1. o \in Op /\ FnOfOp(o) = e.fn
      BY <1>0, UseType
    <2>2. IsLocal(UsePushes(o, e))
      BY <2>1, StaticSingleAssignment DEF IsLocal, UsePushes, Pushes
    <2>3. ASSUME Callee(o) # NoFn PROVE \A v \in Parameters(o, e.var) : Home(v) = Callee(o)
      <3>1. Callee(o) \in Fn /\ Parameters(o, e.var) \in SUBSET Var
        BY <2>1, <2>3, ParametersType
      <3>2. \A v \in Parameters(o, e.var) : NameOf(v) \in Formals(Callee(o))
        BY DEF Parameters, VersionsOf
      <3> QED
        BY <3>1, <3>2, FormalsAreScoped
    <2> QED
      BY <2>2, <2>3 DEF IsLocal, DescendPushes, CrossPushes, Pushes
  <1>3. ASSUME NEW x \in work', x \notin work PROVE x.fn = Home(x.var)
    <2>1. \/ \E o \in UseSites(e.var, e.fn) : x \in UsePushes(o, e)
          \/ \E o \in UseSites(e.var, e.fn) : Descends(o, e.cr) /\ x \in DescendPushes(o, e)
          \/ \E o \in UseSites(e.var, e.fn) : Callee(o) # NoFn /\ x \in CrossPushes(o, e)
      BY <1>1, <1>3 DEF Follows
    <2>2. \A o \in UseSites(e.var, e.fn) : Descends(o, e.cr) => Callee(o) # NoFn
      BY <1>0, UseType DEF Descends
    <2> QED
      BY <1>2, <2>1, <2>2 DEF IsLocal
  <1> QED
    BY <1>3 DEF IsLocal

LEMMA NextTaintLocal ==
    ForwardTypeOK /\ TaintIsLocal /\ [ForwardNext]_vars => TaintIsLocal'
  <1> SUFFICES ASSUME ForwardTypeOK, TaintIsLocal, [ForwardNext]_vars,
                      stage' = "tainting", LocalTaint'
               PROVE  IsLocal(work')
    BY DEF TaintIsLocal, IsLocal
  <1>1. stage = "tainting" /\ LocalTaint /\ IsLocal(work)
    BY TaintingSteps DEF LocalTaint, TaintIsLocal
  <1>2. CASE \E e \in work : SkipTainted(e)
    BY <1>1, <1>2 DEF SkipTainted, SkipVisited, IsLocal
  <1>3. CASE \E e \in work : TaintUses(e)
    BY <1>1, <1>3, TaintUsesLocal
  <1>4. CASE ImplicitStep
    <2>1. work' = DefinitionsAt(NewlyGuarded) /\ NewlyGuarded \in SUBSET Node
      BY <1>4 DEF ImplicitStep, NewlyGuarded, GuardedBy
    <2>2. \A n \in Node : \A v \in NodeDefs(n) : Home(v) = FnOf(n)
      BY StaticSingleAssignment DEF NodeDefs, OpsOf, FnOfOp
    <2> QED
      BY <2>1, <2>2 DEF IsLocal, DefinitionsAt, Pushes
  <1>5. CASE UNCHANGED vars
    BY <1>1, <1>5 DEF vars
  <1> QED
    BY <1>2, <1>3, <1>4, <1>5, TaintingSteps

LEMMA TaintInitLocal == ForwardInit => TaintIsLocal
  BY DEF ForwardInit, TaintIsLocal, LocalTaint, IsLocal, Pushes

\* A visit is recorded by the step that follows the uses of the variable.
LEMMA VisitedByTaint ==
    ASSUME ForwardTypeOK, TaintIsLocal, [ForwardNext]_vars, stage' = "tainting",
           LocalTaint, NEW v \in Var, visited'[v] # visited[v]
    PROVE  \E e \in work : /\ TaintUses(e)
                           /\ e.var = v /\ e.fn = Home(v)
                           /\ visited'[v] = e.cr
  <1>1. PICK e \in work : TaintUses(e)
    BY TaintingSteps DEF SkipTainted, SkipVisited, ImplicitStep, vars
  <1>2. e.var = v /\ visited'[v] = e.cr
    BY <1>1 DEF TaintUses, ForwardTypeOK, SliceTypeOK
  <1>3. e.fn = Home(v)
    BY <1>2, TaintingSteps DEF TaintIsLocal, IsLocal
  <1> QED
    BY <1>1, <1>2, <1>3

\* What was reached from a variable whose visit has not changed still is.
LEMMA TaintAllReachedStable ==
    ASSUME ForwardTypeOK, [ForwardNext]_vars, stage' = "tainting",
           NEW v \in Var, visited'[v] = visited[v], NEW k \in Nat, NEW V \in SUBSET Var,
           NEW f, AllReached(V, f, visited[v] + k)
    PROVE  AllReached(V, f, visited[v] + k)'
  <1>1. PICK c \in Nat : c = visited[v] + k
    BY VisitedType DEF ForwardTypeOK
  <1>2. ASSUME NEW w \in V PROVE Reached(w, f, visited[v] + k)'
    <2>1. Reached(w, f, c) /\ w \in Var
      BY <1>1 DEF AllReached, Reached
    <2>2. Reached(w, f, c)'
      BY <2>1, TaintReachedStable
    <2>3. (visited[v] + k)' = c
      BY <1>1
    <2> QED
      BY <2>2, <2>3 DEF Reached
  <1> QED
    BY <1>2 DEF AllReached

LEMMA NoneTainted == ForwardInit => Visited = {}
  BY BoundsAssumption DEF ForwardInit, Visited, Unvisited

LEMMA UseSitesType ==
    ASSUME NEW v \in Var, NEW o \in UseSites(v, Home(v))
    PROVE  /\ o \in Op /\ NodeOf(o) \in Node /\ LValue(o) \in Var \cup {NoVar}
           /\ IsDescendable(o) => Callee(o) # NoFn
  BY OpTypes, CallsResolved DEF UseSites, UseMap, IsDescendable

\* One use of the variable that a step processes.
LEMMA TaintReaches ==
    ASSUME ForwardTypeOK, NEW e \in work, TaintUses(e), NEW o \in UseSites(e.var, e.fn)
    PROVE  /\ Kind(o) # "phi" => Emitted(NodeOf(o))'
           /\ AllReached({LValue(o)} \ {NoVar}, e.fn, e.cr)'
           /\ IsDescendable(o) =>
                 IF e.cr < request.depth
                 THEN AllReached(Parameters(o, e.var), Callee(o), e.cr + 1)'
                 ELSE Noted("interproc-depth-limit", Callee(o))'
  <1>0. /\ SliceTypeOK /\ e.cr \in Nat /\ e.cr + 1 \in Nat
        /\ o \in Op /\ NodeOf(o) \in Node
    BY EntryType, UseType, BoundsAssumption DEF ForwardTypeOK
  <1>1. PICK H : Follows(e, H)
    BY <1>0, TaintFollows
  <1>2. ASSUME Kind(o) # "phi" PROVE Emitted(NodeOf(o))'
    <2> DEFINE nodes == UseNodes(UseSites(e.var, e.fn))
    <2>1. included' = Reasoned(included, nodes, DefReason(e))
      BY DEF TaintUses
    <2>2. NodeOf(o) \in nodes \/ NodeOf(o) \in Scaffolding
      BY <1>2 DEF UseNodes
    <2>3. DefReason(e) \in Reason \ {"none"}
      BY DEF DefReason, Reason
    <2> HIDE DEF nodes
    <2>4. NodeOf(o) \in nodes => InSlice(NodeOf(o))'
      BY <1>0, <2>1, <2>3, ReasonedIn
    <2> QED
      BY <2>2, <2>4 DEF Emitted
  <1>3. AllReached({LValue(o)} \ {NoVar}, e.fn, e.cr)'
    <2>1. Pushes({LValue(o)} \ {NoVar}, e.fn, e.cr) \subseteq work'
      BY <1>1 DEF Follows, UsePushes
    <2> QED
      BY <1>0, <2>1, PushedReached
  <1>4. ASSUME IsDescendable(o), e.cr < request.depth
        PROVE  AllReached(Parameters(o, e.var), Callee(o), e.cr + 1)'
    <2>1. Descends(o, e.cr)
      BY <1>4 DEF Descends
    <2>2. Pushes(Parameters(o, e.var), Callee(o), e.cr + 1) \subseteq work'
      BY <1>1, <2>1 DEF Follows, DescendPushes
    <2>3. PICK c \in Nat : c = e.cr + 1
      BY <1>0
    <2>4. AllReached(Parameters(o, e.var), Callee(o), c)'
      BY <2>2, <2>3, PushedReached
    <2> QED
      BY <2>3, <2>4
  <1>5. ASSUME IsDescendable(o), ~(e.cr < request.depth)
        PROVE  Noted("interproc-depth-limit", Callee(o))'
    BY <1>1, <1>5 DEF Follows, Descends, Noted
  <1> QED
    BY <1>2, <1>3, <1>4, <1>5

LEMMA NextUses ==
    ForwardTypeOK /\ TaintIsLocal /\ UsesFollowed /\ [ForwardNext]_vars => UsesFollowed'
  <1> SUFFICES ASSUME ForwardTypeOK, TaintIsLocal, UsesFollowed, [ForwardNext]_vars,
                      stage' = "tainting", LocalTaint',
                      NEW v \in Visited', NEW o \in UseSites(v, Home(v))
               PROVE  /\ Kind(o) # "phi" => Emitted(NodeOf(o))'
                      /\ LValue(o) # NoVar => Reached(LValue(o), Home(v), visited[v])'
    BY DEF UsesFollowed
  <1>0. stage = "tainting" /\ LocalTaint /\ v \in Var
    BY TaintingSteps DEF LocalTaint, Visited
  <1>1. NodeOf(o) \in Node /\ LValue(o) \in Var \cup {NoVar}
    BY <1>0, UseSitesType
  <1>2. CASE visited'[v] = visited[v]
    <2>1. /\ Kind(o) # "phi" => Emitted(NodeOf(o))
          /\ LValue(o) # NoVar => Reached(LValue(o), Home(v), visited[v])
      BY <1>0, <1>2 DEF UsesFollowed, Visited
    <2>2. Kind(o) # "phi" => Emitted(NodeOf(o))'
      BY <1>1, <2>1, TaintedStays DEF Emitted
    <2>3. ASSUME LValue(o) # NoVar PROVE Reached(LValue(o), Home(v), visited[v])'
      <3>1. visited[v] \in Nat
        BY <1>0, VisitedType DEF ForwardTypeOK
      <3>2. PICK c \in Nat : c = visited[v]
        BY <3>1
      <3>3. Reached(LValue(o), Home(v), c)
        BY <2>1, <2>3, <3>2
      <3>4. Reached(LValue(o), Home(v), c)'
        BY <1>1, <2>3, <3>3, TaintReachedStable
      <3> QED
        BY <1>2, <3>2, <3>4
    <2> QED
      BY <2>2, <2>3
  <1>3. CASE visited'[v] # visited[v]
    <2>1. PICK e \in work : /\ TaintUses(e)
                            /\ e.var = v /\ e.fn = Home(v)
                            /\ visited'[v] = e.cr
      BY <1>0, <1>3, VisitedByTaint
    <2>2. /\ Kind(o) # "phi" => Emitted(NodeOf(o))'
          /\ AllReached({LValue(o)} \ {NoVar}, e.fn, e.cr)'
      BY <2>1, TaintReaches
    <2>3. LValue(o) # NoVar => Reached(LValue(o), Home(v), e.cr)'
      BY <2>1, <2>2 DEF AllReached
    <2> QED
      BY <2>1, <2>2, <2>3
  <1> QED
    BY <1>2, <1>3

\* While the slice is being tainted, and whatever the order of the worklist,
\* every use of a variable that has been processed is in the slice, and what the
\* use defines is processed or on the worklist with the budget of the cheapest
\* visit, when the seeds and the formals belong to their functions.
THEOREM EveryUseIsFollowed == ForwardSpec => []UsesFollowed
  <1>1. ForwardInit => UsesFollowed
    BY NoneTainted DEF UsesFollowed
  <1> QED
    BY <1>1, ForwardInitType, ForwardNextType, TaintInitLocal, NextTaintLocal, NextUses, PTL
       DEF ForwardSpec

LEMMA NextTaintedCallees ==
    ForwardTypeOK /\ TaintIsLocal /\ CalleesTainted /\ [ForwardNext]_vars => CalleesTainted'
  <1> SUFFICES ASSUME ForwardTypeOK, TaintIsLocal, CalleesTainted, [ForwardNext]_vars,
                      stage' = "tainting", LocalTaint',
                      NEW v \in Visited', NEW o \in UseSites(v, Home(v)), IsDescendable(o)
               PROVE  IF visited'[v] < request.depth
                      THEN AllReached(Parameters(o, v), Callee(o), visited[v] + 1)'
                      ELSE Noted("interproc-depth-limit", Callee(o))'
    BY TaintingSteps DEF CalleesTainted
  <1>0. stage = "tainting" /\ LocalTaint /\ v \in Var
    BY TaintingSteps DEF LocalTaint, Visited
  <1>1. Parameters(o, v) \in SUBSET Var
    BY <1>0, UseSitesType, ParametersType
  <1>2. CASE visited'[v] = visited[v]
    <2>1. IF visited[v] < request.depth
          THEN AllReached(Parameters(o, v), Callee(o), visited[v] + 1)
          ELSE Noted("interproc-depth-limit", Callee(o))
      BY <1>0, <1>2 DEF CalleesTainted, Visited
    <2>2. Noted("interproc-depth-limit", Callee(o)) =>
            Noted("interproc-depth-limit", Callee(o))'
      BY TaintingStrengthens DEF Noted, Strengthens
    <2>3. AllReached(Parameters(o, v), Callee(o), visited[v] + 1) =>
            AllReached(Parameters(o, v), Callee(o), visited[v] + 1)'
      BY <1>0, <1>1, <1>2, TaintAllReachedStable
    <2> QED
      BY <1>2, <2>1, <2>2, <2>3
  <1>3. CASE visited'[v] # visited[v]
    <2>1. PICK e \in work : /\ TaintUses(e)
                            /\ e.var = v /\ e.fn = Home(v)
                            /\ visited'[v] = e.cr
      BY <1>0, <1>3, VisitedByTaint
    <2>2. o \in UseSites(e.var, e.fn) /\ e.cr \in Nat
      BY <2>1, EntryType, BoundsAssumption DEF ForwardTypeOK
    <2>3. IF e.cr < request.depth
          THEN AllReached(Parameters(o, e.var), Callee(o), e.cr + 1)'
          ELSE Noted("interproc-depth-limit", Callee(o))'
      BY <2>1, <2>2, TaintReaches
    <2>4. PICK c \in Nat : c = e.cr + 1
      BY <2>2
    <2>5. (visited[v] + 1)' = c
      BY <2>1, <2>4
    <2>6. AllReached(Parameters(o, v), Callee(o), c)' =>
            AllReached(Parameters(o, v), Callee(o), visited[v] + 1)'
      BY <2>5 DEF AllReached, Reached
    <2> QED
      BY <2>1, <2>3, <2>4, <2>6
  <1> QED
    BY <1>2, <1>3

\* While the slice is being tainted, taint has entered every in-scope call that
\* takes a processed variable, through every version of the formal it is passed
\* for, or the slice says in a note that the budget does not reach the callee.
THEOREM EveryTaintedCalleeIsEntered == ForwardSpec => []CalleesTainted
  <1>1. ForwardInit => CalleesTainted
    BY NoneTainted DEF CalleesTainted
  <1> QED
    BY <1>1, ForwardInitType, ForwardNextType, TaintInitLocal, NextTaintLocal,
       NextTaintedCallees, PTL DEF ForwardSpec

-----------------------------------------------------------------------------
(* A forward slice is evidence: the argument of the backward slice, with   *)
(* one closed set for the taint and one for the modifier guards.           *)

\* The influences are facts.
LEMMA InfluencesOfNodeType == \A n \in Node : InfluencesOfNode(n) \in SUBSET Fact
  <1> SUFFICES ASSUME NEW n \in Node PROVE InfluencesOfNode(n) \in SUBSET Fact
    OBVIOUS
  <1>1. 0 \in 0..MaxDepth /\ GuardedBy({n}) \in SUBSET Node
    BY BoundsAssumption DEF GuardedBy
  <1>2. ASSUME NEW m \in GuardedBy({n})
        PROVE  {NodeFact(m)} \cup VarFacts(NodeDefs(m), FnOf(m), 0) \in SUBSET Fact
    BY <1>1, NodeTypes, NodeDefsType, NodeFactType, VarFactsType
  <1> QED
    BY <1>2 DEF InfluencesOfNode

\* What one use taints.
UseFacts(o, v, c) ==
    TaintFacts(o, c)
      \cup (IF IsDescendable(o) /\ c < request.depth THEN CalleeFacts(o, v, c + 1) ELSE {})
      \cup (IF request.cross /\ Kind(o) = "external" /\ Callee(o) # NoFn
            THEN CalleeFacts(o, v, 0) ELSE {})

LEMMA InfluencesByUse ==
    ASSUME NEW v, NEW f, NEW c
    PROVE  InfluencesOfVar(v, f, c) = UNION {UseFacts(o, v, c) : o \in UseSites(v, f)}
  BY DEF InfluencesOfVar, UseFacts

LEMMA CalleeFactsType ==
    ASSUME NEW o \in Op, Callee(o) # NoFn, NEW v, NEW c \in 0..MaxDepth
    PROVE  CalleeFacts(o, v, c) \in SUBSET Fact
  <1> DEFINE formals == {u \in VersionsIn[Callee(o)] : /\ NameOf(u) \in Formals(Callee(o))
                                                       /\ Actual(o, NameOf(u)) = v}
  <1>1. Callee(o) \in Fn
    BY OpTypes
  <1>2. formals \in SUBSET Var
    BY <1>1, VersionsType
  <1> HIDE DEF formals
  <1>3. VarFacts(formals, Callee(o), c) \in SUBSET Fact
    BY <1>1, <1>2, VarFactsType
  <1> QED
    BY <1>3 DEF CalleeFacts, formals

LEMMA TaintFactsType ==
    ASSUME NEW o \in Op, NEW c \in 0..MaxDepth
    PROVE  TaintFacts(o, c) \in SUBSET Fact
  <1>1. {LValue(o)} \ {NoVar} \in SUBSET Var /\ FnOfOp(o) \in Fn
    BY OpTypes
  <1> QED
    BY <1>1, NodeFactType, VarFactsType DEF TaintFacts

LEMMA InfluencesOfVarType ==
    ASSUME request \in Request, NEW v \in Var, NEW f \in Fn, NEW c \in 0..MaxDepth
    PROVE  InfluencesOfVar(v, f, c) \in SUBSET Fact
  <1>1. 0 \in 0..MaxDepth /\ (c < request.depth => c + 1 \in 0..MaxDepth)
    BY BoundsAssumption DEF Request
  <1>2. ASSUME NEW o \in UseSites(v, f) PROVE UseFacts(o, v, c) \in SUBSET Fact
    <2>1. o \in Op /\ (IsDescendable(o) => Callee(o) # NoFn)
      BY CallsResolved DEF UseSites, UseMap, IsDescendable
    <2>2. TaintFacts(o, c) \in SUBSET Fact
      BY <2>1, TaintFactsType
    <2>3. ASSUME IsDescendable(o), c < request.depth
          PROVE  CalleeFacts(o, v, c + 1) \in SUBSET Fact
      BY <1>1, <2>1, <2>3, CalleeFactsType
    <2>4. ASSUME Callee(o) # NoFn PROVE CalleeFacts(o, v, 0) \in SUBSET Fact
      BY <1>1, <2>1, <2>4, CalleeFactsType
    <2> QED
      BY <2>2, <2>3, <2>4 DEF UseFacts
  <1> QED
    BY <1>2, InfluencesByUse

LEMMA InfluencesType ==
    ASSUME request \in Request
    PROVE  [x \in Fact |-> Influences(x)] \in [Fact -> SUBSET Fact]
  <1>1. ASSUME NEW x \in Fact PROVE Influences(x) \in SUBSET Fact
    <2>1. CASE x \in {"node"} \X Node \X Fn \X {0}
      BY <2>1, InfluencesOfNodeType DEF Influences
    <2>2. CASE x \in {"var"} \X Var \X Fn \X (0..MaxDepth)
      BY <2>2, InfluencesOfVarType DEF Influences
    <2> QED
      BY <2>1, <2>2 DEF Fact
  <1> QED
    BY <1>1

LEMMA DataDependsOnType ==
    ASSUME request \in Request
    PROVE  [x \in Fact |-> DataDependsOn(x)] \in [Fact -> SUBSET Fact]
  <1>1. ASSUME NEW x \in Fact PROVE DataDependsOn(x) \in SUBSET Fact
    <2>1. CASE x \in {"node"} \X Node \X Fn \X {0}
      BY <2>1 DEF DataDependsOn
    <2>2. CASE x \in {"var"} \X Var \X Fn \X (0..MaxDepth)
      BY <2>2, DependsOnOfVarType DEF DataDependsOn
    <2> QED
      BY <2>1, <2>2 DEF Fact
  <1> QED
    BY <1>1

\* What the criterion of a forward slice is, in facts.
TaintedFacts ==
    {NodeFact(request.node)}
      \cup VarFacts(ForwardSeeds(request.node, request.target), FnOf(request.node), 0)

\* I holds the criterion and what it influences.
Influence(I) ==
    /\ TaintedFacts \subseteq I
    /\ \A v \in Var, f \in Fn, c \in 0..MaxDepth :
          <<"var", v, f, c>> \in I => InfluencesOfVar(v, f, c) \subseteq I
    /\ \A n \in Node : NodeFact(n) \in I => InfluencesOfNode(n) \subseteq I

\* G holds the modifier guards and their data dependence.
GuardEvidence(G) ==
    NodeFacts(ModifierGuards[FnOf(request.node)]) \subseteq G /\ ClosedForVars(G)

LEMMA InfluenceSteady ==
    ASSUME request' = request, NEW I
    PROVE  /\ Influence(I)' <=> Influence(I)
           /\ GuardEvidence(I)' <=> GuardEvidence(I)
  BY DEF Influence, GuardEvidence, TaintedFacts, ClosedForVars, InfluencesOfVar,
         InfluencesOfNode, DependsOnOfVar

\* The slice is made of I, of G, and of what the criterion node guards.
Justified(I, G) ==
    \A n \in Node : InSlice(n) => \/ NodeFact(n) \in I \/ NodeFact(n) \in G
                                  \/ request.node \in GuardsOf(n)

\* ... where the taint comes from I, and what is left of it in the last drain
\* from G.
ForwardSound ==
    \A I, G : Influence(I) /\ GuardEvidence(G) =>
        /\ Justified(I, G)
        /\ stage = "tainting" => WorkIn(I) /\ SliceIn(I)
        /\ stage = "resolving" => WorkIn(G)

LEMMA ForwardInitSound == ForwardInit => ForwardSound
  <1> SUFFICES ASSUME ForwardInit, NEW I, Influence(I) PROVE WorkIn(I) /\ SliceIn(I)
    BY DEF ForwardSound, Justified, SliceIn, ForwardInit
  <1>1. WorkIn(I)
    <2>1. VarFacts(ForwardSeeds(request.node, request.target), FnOf(request.node), 0)
            \subseteq I
      BY DEF Influence, TaintedFacts
    <2> QED
      BY <2>1, PushesIn DEF ForwardInit, WorkIn
  <1>2. SliceIn(I)
    <2>1. NodeFact(request.node) \in I
      BY DEF Influence, TaintedFacts
    <2>2. ASSUME NEW n \in Node, InSlice(n) PROVE n = request.node
      BY <2>2 DEF ForwardInit, InSlice, Reasoned
    <2> QED
      BY <2>1, <2>2 DEF SliceIn
  <1> QED
    BY <1>1, <1>2

\* The formals that a call passes the variable for.
LEMMA ParametersIn ==
    ASSUME NEW I, NEW o, NEW v, NEW c, CalleeFacts(o, v, c) \subseteq I
    PROVE  \A x \in Pushes(Parameters(o, v), Callee(o), c) : EntryFact(x) \in I
  <1> DEFINE formals == {u \in VersionsIn[Callee(o)] : /\ NameOf(u) \in Formals(Callee(o))
                                                       /\ Actual(o, NameOf(u)) = v}
  <1>1. Parameters(o, v) \subseteq formals
    BY DEF Parameters, VersionsOf
  <1>2. VarFacts(formals, Callee(o), c) \subseteq I
    BY DEF CalleeFacts
  <1> HIDE DEF formals
  <1>3. VarFacts(Parameters(o, v), Callee(o), c) \subseteq I
    BY <1>1, <1>2 DEF VarFacts
  <1> QED
    BY <1>3, PushesIn

\* Following the uses of an entry leads to what it influences.
LEMMA TaintUsesIn ==
    ASSUME SliceTypeOK, NEW I, Influence(I), WorkIn(I), SliceIn(I),
           NEW e \in work, TaintUses(e)
    PROVE  WorkIn(I)' /\ SliceIn(I)'
  <1> DEFINE uses  == UseSites(e.var, e.fn)
             entered(H) == {o \in H : Callee(o) # NoFn}
  <1>1. e.var \in Var /\ e.fn \in Fn /\ e.cr \in 0..MaxDepth
    BY EntryType, BoundsAssumption
  <1>2. ASSUME NEW o \in uses PROVE UseFacts(o, e.var, e.cr) \subseteq I
    <2>1. <<"var", e.var, e.fn, e.cr>> \in I
      BY DEF WorkIn, EntryFact
    <2>2. InfluencesOfVar(e.var, e.fn, e.cr) \subseteq I
      BY <1>1, <2>1 DEF Influence
    <2> QED
      BY <2>2, InfluencesByUse
  <1>3. PICK H \in SUBSET uses :
              /\ \A o \in H : request.cross /\ Kind(o) = "external"
              /\ work' = (work \ {e})
                    \cup (UNION {UsePushes(o, e) : o \in uses})
                    \cup (UNION {DescendPushes(o, e) : o \in {p \in uses : Descends(p, e.cr)}})
                    \cup UNION {CrossPushes(o, e) : o \in entered(H)}
    BY DEF TaintUses, UsePushes, DescendPushes, CrossPushes
  <1>4. ASSUME NEW o \in uses, NEW x \in UsePushes(o, e) PROVE EntryFact(x) \in I
    <2>1. FnOfOp(o) = e.fn
      BY UseType
    <2>2. VarFacts({LValue(o)} \ {NoVar}, e.fn, e.cr) \subseteq I
      BY <1>2, <2>1 DEF UseFacts, TaintFacts
    <2> QED
      BY <1>4, <2>2, PushesIn DEF UsePushes
  <1>5. ASSUME NEW o \in uses, Descends(o, e.cr), NEW x \in DescendPushes(o, e)
        PROVE  EntryFact(x) \in I
    <2>1. CalleeFacts(o, e.var, e.cr + 1) \subseteq I
      BY <1>2, <1>5 DEF UseFacts, Descends
    <2> QED
      BY <1>5, <2>1, ParametersIn DEF DescendPushes
  <1>6. ASSUME NEW o \in entered(H), NEW x \in CrossPushes(o, e) PROVE EntryFact(x) \in I
    <2>1. CalleeFacts(o, e.var, 0) \subseteq I
      BY <1>2, <1>3 DEF UseFacts
    <2> QED
      BY <1>6, <2>1, ParametersIn DEF CrossPushes
  <1>7. WorkIn(I)'
    <2> SUFFICES ASSUME NEW x \in work' PROVE EntryFact(x) \in I
      BY DEF WorkIn
    <2>1. \/ x \in work
          \/ \E o \in uses : x \in UsePushes(o, e)
          \/ \E o \in uses : Descends(o, e.cr) /\ x \in DescendPushes(o, e)
          \/ \E o \in entered(H) : x \in CrossPushes(o, e)
      BY <1>3
    <2> QED
      BY <1>4, <1>5, <1>6, <2>1 DEF WorkIn
  <1>8. SliceIn(I)'
    <2> SUFFICES ASSUME NEW n \in Node, InSlice(n)' PROVE NodeFact(n) \in I
      BY DEF SliceIn
    <2>1. included' = Reasoned(included, UseNodes(uses), DefReason(e))
      BY DEF TaintUses
    <2>2. included \in [Node -> Reason] /\ DefReason(e) \in Reason
      BY DEF SliceTypeOK, Reason, DefReason
    <2>3. InSlice(n) \/ n \in UseNodes(uses)
      BY <2>1, <2>2, NewlyIn
    <2>4. ASSUME n \in UseNodes(uses) PROVE NodeFact(n) \in I
      <3>1. PICK o \in uses : n = NodeOf(o) /\ Kind(o) # "phi" /\ n \notin Scaffolding
        BY <2>4 DEF UseNodes
      <3>2. NodeFact(n) \in TaintFacts(o, e.cr)
        BY <3>1 DEF TaintFacts
      <3> QED
        BY <1>2, <3>2 DEF UseFacts
    <2> QED
      BY <2>3, <2>4 DEF SliceIn
  <1> QED
    BY <1>7, <1>8

\* A scan over the branches leads to what the slice influences.
LEMMA ImplicitStepIn ==
    ASSUME SliceTypeOK, NEW I, Influence(I), SliceIn(I), ImplicitStep
    PROVE  WorkIn(I)' /\ SliceIn(I)'
  <1>1. ASSUME NEW m \in NewlyGuarded
        PROVE  NodeFact(m) \in I /\ VarFacts(NodeDefs(m), FnOf(m), 0) \subseteq I
    <2>1. PICK b \in Node : InSlice(b) /\ Branches(b) /\ m \in GuardedBy({b})
      BY DEF NewlyGuarded, GuardedBy, SliceBranches, Slice
    <2>2. InfluencesOfNode(b) \subseteq I
      BY <2>1 DEF Influence, SliceIn
    <2>3. {NodeFact(m)} \cup VarFacts(NodeDefs(m), FnOf(m), 0) \subseteq InfluencesOfNode(b)
      BY <2>1 DEF InfluencesOfNode
    <2> QED
      BY <2>2, <2>3
  <1>2. WorkIn(I)'
    <2> SUFFICES ASSUME NEW x \in work' PROVE EntryFact(x) \in I
      BY DEF WorkIn
    <2>1. PICK m \in NewlyGuarded : x \in Pushes(NodeDefs(m), FnOf(m), 0)
      BY DEF ImplicitStep, DefinitionsAt
    <2> QED
      BY <1>1, <2>1, PushesIn
  <1>3. SliceIn(I)'
    <2>1. included' = Reasoned(included, NewlyGuarded, "control-dep")
      BY DEF ImplicitStep
    <2>2. included \in [Node -> Reason] /\ "control-dep" \in Reason
      BY DEF SliceTypeOK, Reason
    <2> QED
      BY <1>1, <2>1, <2>2, NewlyIn DEF SliceIn
  <1> QED
    BY <1>2, <1>3

LEMMA ForwardSteady == ASSUME ForwardTypeOK, [ForwardNext]_vars PROVE request' = request
  BY PopSteady DEF ForwardNext, SkipTainted, SkipVisited, TaintUses, ImplicitStep,
     ForwardControl, ForwardModifierGuards, ResolveModifierGuards, ForwardFinish,
     Terminating, vars

LEMMA NextForwardSound ==
    ForwardTypeOK /\ ForwardSound /\ [ForwardNext]_vars => ForwardSound'
  <1> SUFFICES ASSUME ForwardTypeOK, ForwardSound, [ForwardNext]_vars,
                      NEW I, NEW G, Influence(I)', GuardEvidence(G)'
               PROVE  /\ Justified(I, G)'
                      /\ stage' = "tainting" => WorkIn(I)' /\ SliceIn(I)'
                      /\ stage' = "resolving" => WorkIn(G)'
    BY DEF ForwardSound
  <1>1. request' = request /\ Influence(I) /\ GuardEvidence(G)
    BY ForwardSteady, InfluenceSteady
  <1>2. /\ Justified(I, G)
        /\ stage = "tainting" => WorkIn(I) /\ SliceIn(I)
        /\ stage = "resolving" => WorkIn(G)
    BY <1>1 DEF ForwardSound
  <1>3. SliceTypeOK /\ included \in [Node -> Reason]
    BY DEF ForwardTypeOK, SliceTypeOK
  <1>4. SliceIn(I)' => Justified(I, G)'
    BY DEF SliceIn, Justified
  <1>5. CASE \E e \in work : SkipTainted(e)
    BY <1>1, <1>2, <1>5 DEF SkipTainted, SkipVisited, sliceVars, WorkIn, SliceIn, Justified,
                            InSlice
  <1>6. CASE \E e \in work : TaintUses(e)
    BY <1>1, <1>2, <1>3, <1>4, <1>6, TaintUsesIn DEF TaintUses
  <1>7. CASE ImplicitStep
    BY <1>1, <1>2, <1>3, <1>4, <1>7, ImplicitStepIn DEF ImplicitStep
  <1>8. CASE ForwardControl
    <2>1. /\ included' = Reasoned(included, GuardedBy({request.node}), "control-dep")
          /\ stage' = "controlled" /\ "control-dep" \in Reason
      BY <1>8 DEF ForwardControl, Reason
    <2>2. \A n \in Node : InSlice(n)' => InSlice(n) \/ n \in GuardedBy({request.node})
      BY <1>3, <2>1, NewlyIn
    <2> QED
      BY <1>1, <1>2, <2>1, <2>2 DEF Justified, GuardedBy
  <1>9. CASE ForwardModifierGuards
    <2> DEFINE guards == ModifierGuards[FnOf(request.node)]
    <2>1. /\ included' = Reasoned(included, guards, "modifier-guard")
          /\ work' = SeedReads(guards)
          /\ stage' = "resolving" /\ "modifier-guard" \in Reason
      BY <1>9 DEF ForwardModifierGuards, Reason
    <2>2. guards \in SUBSET Node /\ NodeFacts(guards) \subseteq G
      BY <1>1, <1>3, CriterionType, ModifierGuardsType DEF GuardEvidence
    <2> HIDE DEF guards
    <2>3. WorkIn(G)'
      BY <2>1, <2>2, SeedReadsIn DEF WorkIn
    <2>4. \A n \in Node : InSlice(n)' => InSlice(n) \/ NodeFact(n) \in G
      BY <1>3, <2>1, <2>2, NewlyIn DEF NodeFacts
    <2> QED
      BY <1>1, <1>2, <2>1, <2>3, <2>4 DEF Justified
  <1>10. CASE \E e \in work : ResolveModifierGuards(e)
    <2>1. PICK e \in work : Pop(e) /\ stage = "resolving"
      BY <1>10 DEF ResolveModifierGuards
    <2>2. WorkIn(G)' /\ \A n \in Node : InSlice(n)' => InSlice(n) \/ NodeFact(n) \in G
      BY <1>1, <1>2, <1>3, <2>1, PopIn DEF GuardEvidence
    <2>3. stage' = stage
      BY <2>1, PopSteady
    <2> QED
      BY <1>1, <1>2, <2>1, <2>2, <2>3 DEF Justified
  <1>11. CASE ForwardFinish
    BY <1>1, <1>2, <1>11 DEF ForwardFinish, Justified, InSlice
  <1>12. CASE UNCHANGED vars
    BY <1>1, <1>2, <1>12 DEF vars, WorkIn, SliceIn, Justified, InSlice
  <1> QED
    BY <1>5, <1>6, <1>7, <1>8, <1>9, <1>10, <1>11, <1>12 DEF ForwardNext, Terminating

\* The references are two of the sets I and G.
LEMMA InfluencedIsInfluence == ASSUME request \in Request PROVE Influence(Influenced)
  <1> DEFINE step == [x \in Fact |-> Influences(x)]
  <1>1. request.node \in Node /\ FnOf(request.node) \in Fn /\ 0 \in 0..MaxDepth
    BY NodeTypes, BoundsAssumption DEF Request
  <1>2. step \in [Fact -> SUBSET Fact] /\ TaintedFacts \in SUBSET Fact
    BY <1>1, InfluencesType, ForwardSeedsType, NodeFactType, VarFactsType DEF TaintedFacts
  <1> HIDE DEF step
  <1>3. /\ Influenced \in SUBSET Fact /\ TaintedFacts \subseteq Influenced
        /\ \A x \in Influenced : step[x] \subseteq Influenced
    BY <1>2, LeastClosedIsLeast DEF Influenced, TaintedFacts, step
  <1>4. \A x \in Influenced : Influences(x) \subseteq Influenced
    BY <1>3 DEF step
  <1>5. \A v, f, c : Influences(<<"var", v, f, c>>) = InfluencesOfVar(v, f, c)
    BY DEF Influences
  <1>6. \A n : Influences(NodeFact(n)) = InfluencesOfNode(n)
    BY DEF Influences, NodeFact
  <1> QED
    BY <1>3, <1>4, <1>5, <1>6 DEF Influence

LEMMA GuardDependencesAreEvidence ==
    ASSUME request \in Request PROVE GuardEvidence(GuardDependences)
  <1> DEFINE step == [x \in Fact |-> DataDependsOn(x)]
             start == NodeFacts(ModifierGuards[FnOf(request.node)])
  <1>1. request.node \in Node /\ FnOf(request.node) \in Fn
    BY NodeTypes DEF Request
  <1>2. step \in [Fact -> SUBSET Fact] /\ start \in SUBSET Fact
    BY <1>1, DataDependsOnType, ModifierGuardsType, NodeFactsType
  <1> HIDE DEF step, start
  <1>3. /\ GuardDependences \in SUBSET Fact /\ start \subseteq GuardDependences
        /\ \A x \in GuardDependences : step[x] \subseteq GuardDependences
    BY <1>2, LeastClosedIsLeast DEF GuardDependences, start, step
  <1>4. \A x \in GuardDependences : DataDependsOn(x) \subseteq GuardDependences
    BY <1>3 DEF step
  <1>5. \A v, f, c : DataDependsOn(<<"var", v, f, c>>) = DependsOnOfVar(v, f, c)
    BY DEF DataDependsOn
  <1> QED
    BY <1>3, <1>4, <1>5 DEF GuardEvidence, ClosedForVars, start

\* A forward slice holds nothing that the criterion does not influence within
\* the call budget, in every contract and every order of the worklist, but what
\* the criterion guards and the modifier guards with their data dependence.
THEOREM NothingUninfluenced == ForwardSpec => []OnlyInfluenced
  <1>1. ForwardInit => ForwardTypeOK /\ ForwardSound
    BY ForwardInitType, ForwardInitSound
  <1>2. ForwardTypeOK /\ ForwardSound /\ [ForwardNext]_vars => (ForwardTypeOK /\ ForwardSound)'
    BY ForwardNextType, NextForwardSound
  <1>3. ForwardTypeOK /\ ForwardSound => OnlyInfluenced
    <2> SUFFICES ASSUME ForwardTypeOK, ForwardSound PROVE OnlyInfluenced
      OBVIOUS
    <2>1. Influence(Influenced) /\ GuardEvidence(GuardDependences)
      BY InfluencedIsInfluence, GuardDependencesAreEvidence DEF ForwardTypeOK, SliceTypeOK
    <2>2. Justified(Influenced, GuardDependences)
      BY <2>1 DEF ForwardSound
    <2> QED
      BY <2>2 DEF Justified, OnlyInfluenced, Slice
  <1> QED
    BY <1>1, <1>2, <1>3, PTL DEF ForwardSpec
=============================================================================
