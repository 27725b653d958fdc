------------------------- MODULE BackwardSlicerProofs -------------------------
(***************************************************************************)
(* What a backward slice promises, for every contract, every criterion and *)
(* every budget: first that nothing is lost from the worklist or left      *)
(* open, then that nothing is in the slice that no dependence puts there   *)
(* (see SoundInv).  Two parts rest on the same lemmas and follow: that the *)
(* engine implements the search for dependences, and what                  *)
(* access_control_of, whose steps are those of a backward slice, promises. *)
(***************************************************************************)
EXTENDS BackwardSlicerProperties, BackwardSlicerRefinement, AccessControlProperties,
        FiniteSetTheorems, WellFoundedInduction, TLAPS

-----------------------------------------------------------------------------
(* The contract is well typed.                                             *)

\* The queries the slicer asks of a compiled contract return what the type of
\* the contract says.
LEMMA NodeTypes ==
    \A n \in Node : /\ FnOf(n) \in Fn
                    /\ TypeOf(n) \in NodeType
                    /\ GuardsOf(n) \in SUBSET Node
                    /\ StateRead(n) \in SUBSET StateVar
  BY ContractAssumption
     DEF ContractType, NodeInfo, FnOf, TypeOf, GuardsOf, StateRead

LEMMA OpTypes ==
    \A o \in Op : /\ NodeOf(o) \in Node
                  /\ Kind(o) \in OpKind
                  /\ Reads(o) \in SUBSET Var
                  /\ LValue(o) \in Var \cup {NoVar}
                  /\ Callee(o) \in Fn \cup {NoFn}
                  /\ FnOfOp(o) \in Fn
                  /\ \A p \in Name : Actual(o, p) \in Var \cup {NoVar}
  <1>1. ASSUME NEW o \in Op
        PROVE  Contract.op[o] \in OpInfo
    BY ContractAssumption DEF ContractType
  <1>2. \A o \in Op : NodeOf(o) \in Node
    BY <1>1 DEF OpInfo, NodeOf
  <1> QED
    BY <1>1, <1>2, NodeTypes
       DEF OpInfo, NodeOf, Kind, Reads, LValue, Callee, FnOfOp, Actual

LEMMA NameTypes ==
    /\ \A v \in Var : NameOf(v) \in Name /\ Home(v) \in Fn
    /\ \A f \in Fn : Formals(f) \in SUBSET Name /\ Modifiers(f) \in SUBSET Fn
  BY ContractAssumption
     DEF ContractType, FnInfo, NameOf, Home, Formals, Modifiers

-----------------------------------------------------------------------------
(* The helpers of the slicer.                                              *)

\* Adding nodes never takes one out nor weakens a reason, and the nodes added
\* end with a reason at least as strong as the one they are added for.
LEMMA ReasonedStrengthens ==
    ASSUME NEW inc \in [Node -> Reason], NEW S, NEW r \in Reason
    PROVE  /\ Reasoned(inc, S, r) \in [Node -> Reason]
           /\ \A n \in Node : Rank[inc[n]] <= Rank[Reasoned(inc, S, r)[n]]
           /\ \A n \in Node : n \in S => Rank[r] <= Rank[Reasoned(inc, S, r)[n]]
           /\ \A n \in Node : \/ Reasoned(inc, S, r)[n] = inc[n]
                              \/ n \in S /\ Reasoned(inc, S, r)[n] = r
  <1>1. \A q \in Reason : Rank[q] \in Int
    BY DEF Rank, Reason
  <1> QED
    BY <1>1 DEF Reasoned

LEMMA PushesType ==
    ASSUME NEW d \in 0..MaxDepth, NEW V \in SUBSET Var, NEW f \in Fn,
           NEW c \in 0..d
    PROVE  /\ Pushes(V, f, c) \subseteq Entry
           /\ \A e \in Pushes(V, f, c) : e.cr <= d
  BY BoundsAssumption DEF Pushes, Entry

LEMMA ReadsOfType ==
    ASSUME NEW d \in 0..MaxDepth, NEW Os \in SUBSET Op, NEW c \in 0..d
    PROVE  /\ ReadsOf(Os, c) \subseteq Entry
           /\ \A e \in ReadsOf(Os, c) : e.cr <= d
  <1>1. ASSUME NEW o \in Os
        PROVE  /\ Pushes(Reads(o), FnOfOp(o), c) \subseteq Entry
               /\ \A e \in Pushes(Reads(o), FnOfOp(o), c) : e.cr <= d
    BY OpTypes, PushesType
  <1> QED
    BY <1>1 DEF ReadsOf

LEMMA SeedReadsType ==
    ASSUME NEW d \in 0..MaxDepth, NEW S
    PROVE  /\ SeedReads(S) \subseteq Entry
           /\ \A e \in SeedReads(S) : e.cr <= d
  <1>1. OpsAt(S) \in SUBSET Op /\ 0 \in 0..d
    BY BoundsAssumption DEF OpsAt
  <1> QED
    BY <1>1, ReadsOfType DEF SeedReads

LEMMA AssemblyNotesType ==
    ASSUME NEW S \in SUBSET Node
    PROVE  AssemblyNotes(S) \subseteq Note
  BY NodeTypes DEF AssemblyNotes, Note, NoteKind

LEMMA SeedsType ==
    ASSUME NEW r \in Request
    PROVE  Seeds(r.node, r.target) \in SUBSET Var
  <1>1. \A n \in Node : NodeReads(n) \in SUBSET Var
    BY OpTypes DEF NodeReads, OpsOf
  <1>2. \A n \in Node : NodeDefs(n) \in SUBSET Var
    BY OpTypes DEF NodeDefs, OpsOf
  <1>3. r.node \in Node /\ r.target \in Name \cup Var \cup {NoName}
    BY DEF Request
  <1>4. CASE r.target = NoName
    <2>1. Seeds(r.node, NoName) = NodeReads(r.node)
      BY NameAssumption DEF Seeds
    <2> QED
      BY <1>1, <1>3, <1>4, <2>1
  <1>5. CASE r.target \in Var
    <2>1. r.target # NoName
      BY <1>5, NameAssumption
    <2>2. Seeds(r.node, r.target) = {r.target}
      BY <1>5, <2>1 DEF Seeds
    <2> QED
      BY <1>5, <2>2
  <1>6. CASE r.target \in Name
    <2> DEFINE at == {v \in NodeReads(r.node) \cup NodeDefs(r.node) : NameOf(v) = r.target}
               all == {v \in UNION {NodeReads(m) \cup NodeDefs(m) :
                                      m \in {k \in Node : FnOf(k) = FnOf(r.node)}} :
                         NameOf(v) = r.target}
    <2>1. at \in SUBSET Var /\ all \in SUBSET Var
      BY <1>1, <1>2, <1>3
    <2>2. Seeds(r.node, r.target) = IF at # {} THEN at ELSE all
      BY <1>3, <1>6, NameAssumption DEF Seeds
    <2> QED
      BY <2>1, <2>2
  <1> QED
    BY <1>3, <1>4, <1>5, <1>6

LEMMA DefSiteType ==
    \A v \in Var : \A f : \A o \in DefSite(v, f) : o \in Op
  BY DEF DefSite, DefMap

LEMMA ModifierGuardsType ==
    \A f \in Fn : /\ ModifierGuards[f] \in SUBSET Node
                  /\ ModifierGuards[f] \cap Scaffolding = {}
  BY DEF ModifierGuards

\* The function of the criterion, whose modifier guards are included.
LEMMA CriterionType == SliceTypeOK => request.node \in Node /\ FnOf(request.node) \in Fn
  BY NodeTypes DEF SliceTypeOK, Request

\* What a worklist entry is, and what is left of the worklist without it.
LEMMA EntryType ==
    ASSUME SliceTypeOK, NEW e \in work
    PROVE  /\ e.var \in Var /\ e.fn \in Fn /\ e.cr \in 0..request.depth
           /\ request.depth \in 0..MaxDepth
           /\ work \ {e} \subseteq Entry
           /\ \A x \in work \ {e} : x.cr <= request.depth
  BY BoundsAssumption DEF SliceTypeOK, Entry, Request

-----------------------------------------------------------------------------
(* Type correctness.                                                       *)

LEMMA InitType == Init => TypeOK
  <1> SUFFICES ASSUME Init PROVE TypeOK
    OBVIOUS
  <1> USE DEF Init
  <1>1. request \in Request /\ request.node \in Node /\ request.depth \in 0..MaxDepth
    BY DEF Request
  <1>2. /\ [n \in Node |-> "none"] \in [Node -> Reason]
        /\ included \in [Node -> Reason]
    <2>1. [n \in Node |-> "none"] \in [Node -> Reason] /\ "criterion" \in Reason
      BY DEF Reason
    <2> QED
      BY <2>1, ReasonedStrengthens
  <1>3. notes \subseteq Note
    BY <1>1, AssemblyNotesType
  <1>4. work \subseteq Entry /\ \A e \in work : e.cr <= request.depth
    <2>1. 0 \in 0..request.depth /\ FnOf(request.node) \in Fn
      BY <1>1, NodeTypes, BoundsAssumption
    <2> QED
      BY <1>1, <2>1, SeedsType, PushesType
  <1>5. visited \in [Var -> 0..Unvisited] /\ xcUsed \in 0..XContractDepth
    BY BoundsAssumption DEF Unvisited
  <1>6. round \in 0..request.rounds
    BY <1>1 DEF Request
  <1> QED
    BY <1>1, <1>2, <1>3, <1>4, <1>5, <1>6 DEF TypeOK, SliceTypeOK, Stage

\* Processing an entry leaves the rest of the state alone and records a number
\* of crossings that is within the bound.
LEMMA VisitType ==
    ASSUME SliceTypeOK, NEW e \in work, Visit(e)
    PROVE  /\ visited' \in [Var -> 0..Unvisited]
           /\ request' = request /\ request' \in Request
           /\ xcSeen' \subseteq Op /\ xcUsed' \in 0..XContractDepth
           /\ pulled' \subseteq StateVar /\ stitched' \subseteq StateVar \X Node
           /\ round' \in 0..request'.rounds /\ stage' = stage
  <1>1. e.cr \in 0..Unvisited
    BY EntryType, BoundsAssumption DEF Unvisited
  <1> QED
    BY <1>1 DEF SliceTypeOK, Visit, crossVars, storageVars

\* The callsites of a function, and what they pass, are well typed.
LEMMA CallsitesType ==
    ASSUME NEW f \in Fn, NEW o \in Callsites[f]
    PROVE  /\ o \in Op /\ NodeOf(o) \in Node /\ FnOfOp(o) \in Fn
           /\ \A p \in Name : Passed(o, p) \in SUBSET Var
  BY OpTypes DEF Callsites, Passed

LEMMA AscendType == SliceTypeOK /\ (\E e \in work : Ascend(e)) => SliceTypeOK'
  <1> SUFFICES ASSUME SliceTypeOK, NEW e \in work, Ascend(e) PROVE SliceTypeOK'
    OBVIOUS
  <1> DEFINE sites   == Callsites[e.fn]
             callers == {FnOfOp(o) : o \in sites}
             guards  == UNION {ModifierGuards[f] : f \in callers}
             at      == {NodeOf(o) : o \in sites}
             passed  == UNION {Pushes(Passed(o, NameOf(e.var)), FnOfOp(o), e.cr + 1) :
                                 o \in sites}
  <1>1. Visit(e) /\ CanAscend(e)
    BY DEF Ascend
  <1>2. guards \in SUBSET Node /\ at \in SUBSET Node
    BY ModifierGuardsType, CallsitesType, EntryType
  <1>3. included' \in [Node -> Reason]
    <2>1. included' = Reasoned(Reasoned(included, at, "callee"), guards, "modifier-guard")
      BY DEF Ascend
    <2>2. included \in [Node -> Reason] /\ "callee" \in Reason /\ "modifier-guard" \in Reason
      BY DEF SliceTypeOK, Reason
    <2>3. Reasoned(included, at, "callee") \in [Node -> Reason]
      BY <2>2, ReasonedStrengthens
    <2> QED
      BY <2>1, <2>2, <2>3, ReasonedStrengthens
  <1>4. notes' \subseteq Note
    <2>1. notes' = notes \cup AssemblyNotes(at \cup guards)
      BY DEF Ascend
    <2> QED
      BY <1>2, <2>1, AssemblyNotesType DEF SliceTypeOK
  <1>5. passed \subseteq Entry /\ \A x \in passed : x.cr <= request.depth
    <2>1. e.cr + 1 \in 0..request.depth
      BY <1>1, EntryType DEF CanAscend
    <2>2. ASSUME NEW o \in sites
          PROVE  LET P == Pushes(Passed(o, NameOf(e.var)), FnOfOp(o), e.cr + 1)
                 IN  P \subseteq Entry /\ \A x \in P : x.cr <= request.depth
      <3>1. Passed(o, NameOf(e.var)) \in SUBSET Var /\ FnOfOp(o) \in Fn
        BY CallsitesType, EntryType, NameTypes
      <3> QED
        BY <2>1, <3>1, EntryType, PushesType
    <2> QED
      BY <2>2
  <1>6. work' \subseteq Entry /\ \A x \in work' : x.cr <= request.depth
    <2>1. work' = (work \ {e}) \cup SeedReads(guards) \cup passed
      BY DEF Ascend
    <2> QED
      BY <1>5, <2>1, EntryType, SeedReadsType
  <1> QED
    BY <1>1, <1>3, <1>4, <1>6, VisitType DEF SliceTypeOK

\* The reads of an operation, pushed with the crossings of the entry that led
\* to it, are well typed, and so is the definition's reason.
LEMMA FollowType ==
    ASSUME SliceTypeOK, NEW e \in work, NEW o \in DefSite(e.var, e.fn)
    PROVE  LET P == Pushes(Reads(o), e.fn, e.cr)
           IN  /\ o \in Op /\ NodeOf(o) \in Node
               /\ DefReason(e) \in Reason
               /\ (work \ {e}) \cup P \subseteq Entry
               /\ \A x \in (work \ {e}) \cup P : x.cr <= request.depth
  <1>1. o \in Op /\ NodeOf(o) \in Node /\ Reads(o) \in SUBSET Var
    BY DefSiteType, OpTypes, EntryType
  <1>2. /\ Pushes(Reads(o), e.fn, e.cr) \subseteq Entry
        /\ \A x \in Pushes(Reads(o), e.fn, e.cr) : x.cr <= request.depth
    BY <1>1, EntryType, PushesType
  <1> QED
    BY <1>1, <1>2, EntryType DEF DefReason, Reason

\* Including nodes and noting the assembly among them keeps both types.
LEMMA IncludeType ==
    ASSUME SliceTypeOK, NEW S \in SUBSET Node, NEW r \in Reason
    PROVE  /\ Reasoned(included, S, r) \in [Node -> Reason]
           /\ notes \cup AssemblyNotes(S) \subseteq Note
  BY ReasonedStrengthens, AssemblyNotesType DEF SliceTypeOK

LEMMA FollowDefinitionType == SliceTypeOK /\ (\E e \in work : FollowDefinition(e)) => SliceTypeOK'
  <1> SUFFICES ASSUME SliceTypeOK, NEW e \in work, FollowDefinition(e) PROVE SliceTypeOK'
    OBVIOUS
  <1>1. PICK o \in DefSite(e.var, e.fn) :
              /\ included' = Reasoned(included, {NodeOf(o)}, DefReason(e))
              /\ notes' = notes \cup AssemblyNotes({NodeOf(o)})
              /\ work' = (work \ {e}) \cup Pushes(Reads(o), e.fn, e.cr)
    BY DEF FollowDefinition
  <1>2. included' \in [Node -> Reason] /\ notes' \subseteq Note
    BY <1>1, FollowType, IncludeType
  <1>3. work' \subseteq Entry /\ \A x \in work' : x.cr <= request.depth
    BY <1>1, FollowType
  <1> QED
    BY <1>2, <1>3, VisitType DEF FollowDefinition, SliceTypeOK

LEMMA EnterCalleeType == SliceTypeOK /\ (\E e \in work : EnterCallee(e)) => SliceTypeOK'
  <1> SUFFICES ASSUME SliceTypeOK, NEW e \in work, EnterCallee(e) PROVE SliceTypeOK'
    OBVIOUS
  <1> DEFINE body(o)  == DescendedOps(o)
             nodes(o) == {NodeOf(p) : p \in body(o)} \ Scaffolding
  <1>1. PICK o \in DefSite(e.var, e.fn) :
              /\ included' = Reasoned(Reasoned(included, {NodeOf(o)}, DefReason(e)),
                                      nodes(o), "callee")
              /\ notes' = notes \cup AssemblyNotes({NodeOf(o)} \cup nodes(o))
              /\ work' = (work \ {e}) \cup Pushes(Reads(o), e.fn, e.cr)
                                      \cup ReadsOf(body(o), e.cr + 1)
    BY DEF EnterCallee
  <1>2. body(o) \in SUBSET Op
    BY DEF DescendedOps, ResultOps
  <1>3. {NodeOf(o)} \in SUBSET Node /\ {NodeOf(o)} \cup nodes(o) \in SUBSET Node
    BY <1>2, FollowType, OpTypes
  <1>4. included' \in [Node -> Reason]
    <2>1. Reasoned(included, {NodeOf(o)}, DefReason(e)) \in [Node -> Reason]
      BY <1>3, FollowType, IncludeType
    <2>2. "callee" \in Reason
      BY DEF Reason
    <2> QED
      BY <1>1, <2>1, <2>2, ReasonedStrengthens
  <1>5. notes' \subseteq Note
    BY <1>1, <1>3, AssemblyNotesType DEF SliceTypeOK
  <1>6. work' \subseteq Entry /\ \A x \in work' : x.cr <= request.depth
    <2>1. e.cr + 1 \in 0..request.depth /\ request.depth \in 0..MaxDepth
      BY EntryType, BoundsAssumption DEF EnterCallee
    <2>2. /\ ReadsOf(body(o), e.cr + 1) \subseteq Entry
          /\ \A x \in ReadsOf(body(o), e.cr + 1) : x.cr <= request.depth
      BY <1>2, <2>1, ReadsOfType
    <2> QED
      BY <1>1, <2>2, FollowType
  <1> QED
    BY <1>4, <1>5, <1>6, VisitType DEF EnterCallee, SliceTypeOK

LEMMA CalleeTooDeepType == SliceTypeOK /\ (\E e \in work : CalleeTooDeep(e)) => SliceTypeOK'
  <1> SUFFICES ASSUME SliceTypeOK, NEW e \in work, CalleeTooDeep(e) PROVE SliceTypeOK'
    OBVIOUS
  <1>1. PICK o \in DefSite(e.var, e.fn) :
              /\ IsDescendable(o)
              /\ included' = Reasoned(included, {NodeOf(o)}, DefReason(e))
              /\ notes' = notes \cup AssemblyNotes({NodeOf(o)})
                                \cup {<<"interproc-depth-limit", Callee(o)>>}
              /\ work' = (work \ {e}) \cup Pushes(Reads(o), e.fn, e.cr)
    BY DEF CalleeTooDeep
  <1>2. included' \in [Node -> Reason] /\ notes \cup AssemblyNotes({NodeOf(o)}) \subseteq Note
    BY <1>1, FollowType, IncludeType
  <1>3. <<"interproc-depth-limit", Callee(o)>> \in Note
    BY DefSiteType, OpTypes, EntryType DEF Note, NoteKind
  <1>4. work' \subseteq Entry /\ \A x \in work' : x.cr <= request.depth
    BY <1>1, FollowType
  <1> QED
    BY <1>1, <1>2, <1>3, <1>4, VisitType DEF CalleeTooDeep, SliceTypeOK

\* One iteration of the data-dependence drain.
LEMMA PopType == SliceTypeOK /\ (\E e \in work : Pop(e)) => SliceTypeOK'
  <1> SUFFICES ASSUME SliceTypeOK, NEW e \in work, Pop(e) PROVE SliceTypeOK'
    OBVIOUS
  <1>1. CASE SkipVisited(e)
    BY <1>1 DEF SkipVisited, SliceTypeOK, sliceVars, crossVars, storageVars
  <1>2. CASE Ascend(e)
    BY <1>2, AscendType
  <1>3. CASE StopAtBoundary(e)
    BY <1>3, VisitType DEF StopAtBoundary, SliceTypeOK, sliceVars
  <1>4. CASE ThreadPhi(e)
    BY <1>4, VisitType, FollowType DEF ThreadPhi, SliceTypeOK, sliceVars
  <1>5. CASE FollowDefinition(e)
    BY <1>5, FollowDefinitionType
  <1>6. CASE EnterCallee(e)
    BY <1>6, EnterCalleeType
  <1>7. CASE CalleeTooDeep(e)
    BY <1>7, CalleeTooDeepType
  <1> QED
    BY <1>1, <1>2, <1>3, <1>4, <1>5, <1>6, <1>7 DEF Pop

\* ... and it is the same statement of the same slice.
LEMMA PopSteady ==
    (\E e \in work : Pop(e)) => UNCHANGED <<request, crossVars, storageVars, stage>>
  BY DEF Pop, SkipVisited, Ascend, StopAtBoundary, ThreadPhi, FollowDefinition, EnterCallee,
         CalleeTooDeep, Visit

\* Including a set of nodes whole: guards, modifier guards, storage writers.
LEMMA SeedType ==
    ASSUME SliceTypeOK, NEW S \in SUBSET Node, NEW r \in Reason,
           included' = Reasoned(included, S, r),
           notes' = notes \cup AssemblyNotes(S),
           work' = SeedReads(S)
    PROVE  /\ included' \in [Node -> Reason]
           /\ notes' \subseteq Note
           /\ work' \subseteq Entry
           /\ \A e \in work' : e.cr <= request.depth
  <1>1. request.depth \in 0..MaxDepth
    BY DEF SliceTypeOK, Request
  <1> QED
    BY <1>1, IncludeType, SeedReadsType

\* From here on the statement that runs is part of the type.
USE DEF TypeOK

LEMMA ControlClosureType == TypeOK /\ ControlClosure => TypeOK'
  <1> SUFFICES ASSUME TypeOK, ControlClosure PROVE TypeOK'
    OBVIOUS
  <1>1. NewGuards \in SUBSET Node /\ "control-dep" \in Reason
    BY NodeTypes DEF NewGuards, Slice, Reason
  <1>2. /\ included' \in [Node -> Reason]
        /\ notes' \subseteq Note
        /\ work' \subseteq Entry
        /\ \A e \in work' : e.cr <= request.depth
    BY <1>1, SeedType DEF ControlClosure
  <1> QED
    BY <1>2 DEF ControlClosure, SliceTypeOK, crossVars, storageVars

LEMMA IncludeModifierGuardsType == TypeOK /\ IncludeModifierGuards => TypeOK'
  <1> SUFFICES ASSUME TypeOK, IncludeModifierGuards PROVE TypeOK'
    OBVIOUS
  <1> DEFINE guards == ModifierGuards[FnOf(request.node)]
  <1>1. guards \in SUBSET Node /\ "modifier-guard" \in Reason
    BY ModifierGuardsType, CriterionType DEF Reason
  <1>2. /\ included' \in [Node -> Reason]
        /\ notes' \subseteq Note
        /\ work' \subseteq Entry
        /\ \A e \in work' : e.cr <= request.depth
    BY <1>1, SeedType DEF IncludeModifierGuards
  <1> QED
    BY <1>2 DEF IncludeModifierGuards, SliceTypeOK, Stage, crossVars, storageVars

LEMMA StorageClosureStepType == TypeOK /\ StorageClosureStep => TypeOK'
  <1> SUFFICES ASSUME TypeOK, StorageClosureStep PROVE TypeOK'
    OBVIOUS
  <1>1. NewWriters \in SUBSET Node /\ Unstitched \in SUBSET StateVar
    BY NodeTypes DEF NewWriters, WritersOf, Unstitched, Slice
  <1>2. /\ included' \in [Node -> Reason]
        /\ notes' \subseteq Note
        /\ work' \subseteq Entry
        /\ \A e \in work' : e.cr <= request.depth
    BY <1>1, SeedType DEF StorageClosureStep, Reason
  <1>3. stitched' \subseteq StateVar \X Node
    <2>1. PICK first \in [NewWriters -> Unstitched] :
                stitched' = stitched \cup {<<first[w], w>> : w \in NewWriters}
      BY DEF StorageClosureStep
    <2> QED
      BY <1>1, <2>1 DEF SliceTypeOK
  <1>4. round' \in 0..request.rounds /\ stage' \in Stage
    <2>1. request.rounds \in Nat
      BY BoundsAssumption DEF SliceTypeOK, Request
    <2> QED
      BY <2>1 DEF StorageClosureStep, SliceTypeOK, Stage
  <1> QED
    BY <1>1, <1>2, <1>3, <1>4 DEF StorageClosureStep, SliceTypeOK, crossVars

\* No more external calls are entered than the budget allows.
LEMMA CrossContractStepType == TypeOK /\ CrossContractStep => TypeOK'
  <1> SUFFICES ASSUME TypeOK, CrossContractStep PROVE TypeOK'
    OBVIOUS
  <1> DEFINE entered(H) == {o \in H : Callee(o) # NoFn}
             body(H)    == PulledOps(entered(H))
             nodes(H)   == {NodeOf(p) : p \in body(H)}
  <1>1. PICK H \in SUBSET Unhandled :
              /\ Cardinality(entered(H)) <= XContractDepth - xcUsed
              /\ xcSeen' = xcSeen \cup H
              /\ xcUsed' = xcUsed + Cardinality(entered(H))
              /\ included' = Reasoned(included, nodes(H), "callee")
              /\ work' = ReadsOf(body(H), 0)
              /\ notes' = notes \cup AssemblyNotes(nodes(H))
                    \cup {<<"cross-contract", Callee(o)>> : o \in entered(H)}
                    \cup {<<"cross-contract-unresolved", NoFn>> : o \in H \ entered(H)}
                    \cup {<<"cross-contract-depth-limit", NoFn>> : o \in Unhandled \ H}
    BY DEF CrossContractStep, Charged
  <1>2. H \in SUBSET Op /\ entered(H) \in SUBSET Op /\ body(H) \in SUBSET Op
    BY DEF Unhandled, PulledOps, ResultOps
  <1>3. nodes(H) \in SUBSET Node
    BY <1>2, OpTypes
  <1>4. xcUsed' \in 0..XContractDepth
    <2>1. Cardinality(entered(H)) \in Nat
      BY <1>2, FiniteAssumption, FS_Subset, FS_CardinalityType
    <2> QED
      BY <1>1, <2>1, BoundsAssumption DEF SliceTypeOK
  <1>5. included' \in [Node -> Reason]
    BY <1>1, <1>3, IncludeType DEF Reason
  <1>6. notes' \subseteq Note
    <2>1. notes \cup AssemblyNotes(nodes(H)) \subseteq Note
      BY <1>3, IncludeType DEF Reason
    <2>2. \A o \in Op : Callee(o) \in Fn \cup {NoFn}
      BY OpTypes
    <2> QED
      BY <1>1, <1>2, <2>1, <2>2 DEF Note, NoteKind
  <1>7. work' \subseteq Entry /\ \A e \in work' : e.cr <= request.depth
    <2>1. request.depth \in 0..MaxDepth /\ 0 \in 0..request.depth
      BY BoundsAssumption DEF SliceTypeOK, Request
    <2> QED
      BY <1>1, <1>2, <2>1, ReadsOfType
  <1>8. stage' \in Stage
    BY DEF CrossContractStep, Stage
  <1> QED
    BY <1>1, <1>2, <1>4, <1>5, <1>6, <1>7, <1>8
       DEF CrossContractStep, SliceTypeOK, storageVars

LEMMA FinishType == TypeOK /\ Finish => TypeOK'
  <1> SUFFICES ASSUME TypeOK, Finish PROVE TypeOK'
    OBVIOUS
  <1>1. <<"imprecise-alias", NoFn>> \in Note
    BY DEF Note, NoteKind
  <1> QED
    BY <1>1 DEF Finish, SliceTypeOK, Stage, crossVars, storageVars

LEMMA NextType == TypeOK /\ [Next]_vars => TypeOK'
  <1> SUFFICES ASSUME TypeOK, [Next]_vars PROVE TypeOK'
    OBVIOUS
  <1>1. CASE \E e \in work : Pop(e)
    BY <1>1, PopType, PopSteady
  <1>2. CASE ControlClosure
    BY <1>2, ControlClosureType
  <1>3. CASE IncludeModifierGuards
    BY <1>3, IncludeModifierGuardsType
  <1>4. CASE CrossContractStep
    BY <1>4, CrossContractStepType
  <1>5. CASE NoCrossContract
    BY <1>5 DEF NoCrossContract, SliceTypeOK, Stage, sliceVars, crossVars, storageVars
  <1>6. CASE StorageClosureStep
    BY <1>6, StorageClosureStepType
  <1>7. CASE Finish
    BY <1>7, FinishType
  <1>8. CASE UNCHANGED vars
    BY <1>8 DEF vars, SliceTypeOK
  <1> QED
    BY <1>1, <1>2, <1>3, <1>4, <1>5, <1>6, <1>7, <1>8 DEF Next, Terminating

\* The slicer's state is always well typed: in particular no trace crosses more
\* call boundaries than `depth' allows, no more external calls are entered than
\* `xcontract_depth' allows, and no more storage rounds run than asked for.
THEOREM TypeCorrect == Spec => []TypeOK
  BY InitType, NextType, PTL DEF Spec

-----------------------------------------------------------------------------
(* Nothing is taken back.                                                  *)

Strengthens ==
    /\ \A n \in Node : Rank[included[n]] <= Rank[included'[n]]
    /\ \A v \in Var : visited'[v] <= visited[v]
    /\ notes \subseteq notes'

\* Reasons are numbers, so that `stronger' is transitive.
LEMMA RankType == \A r \in Reason : Rank[r] \in Nat
  BY DEF Rank, Reason

LEMMA RankNone == \A r \in Reason : r # "none" <=> Rank[r] > 0
  BY DEF Rank, Reason

\* Including a set of nodes weakens no reason.
LEMMA IncludeStrengthens ==
    ASSUME SliceTypeOK, NEW S, NEW r \in Reason, included' = Reasoned(included, S, r)
    PROVE  \A n \in Node : Rank[included[n]] <= Rank[included'[n]]
  BY ReasonedStrengthens DEF SliceTypeOK

\* Nor does including a second set after it.
LEMMA IncludeTwiceStrengthens ==
    ASSUME SliceTypeOK, NEW S, NEW r \in Reason, NEW T, NEW q \in Reason,
           included' = Reasoned(Reasoned(included, S, r), T, q)
    PROVE  \A n \in Node : Rank[included[n]] <= Rank[included'[n]]
  <1> DEFINE inc == Reasoned(included, S, r)
  <1>1. inc \in [Node -> Reason] /\ \A n \in Node : Rank[included[n]] <= Rank[inc[n]]
    BY ReasonedStrengthens DEF SliceTypeOK
  <1>2. /\ Reasoned(inc, T, q) \in [Node -> Reason]
        /\ \A n \in Node : Rank[inc[n]] <= Rank[Reasoned(inc, T, q)[n]]
    BY <1>1, ReasonedStrengthens
  <1>3. included \in [Node -> Reason]
    BY DEF SliceTypeOK
  <1> HIDE DEF inc
  <1>4. ASSUME NEW n \in Node PROVE Rank[included[n]] <= Rank[Reasoned(inc, T, q)[n]]
    <2>1. /\ Rank[included[n]] \in Nat /\ Rank[inc[n]] \in Nat
          /\ Rank[Reasoned(inc, T, q)[n]] \in Nat
      BY <1>1, <1>2, <1>3, RankType
    <2> QED
      BY <1>1, <1>2, <2>1
  <1> QED
    BY <1>4 DEF inc

\* A visit records fewer crossings than the one before it.
LEMMA VisitStrengthens ==
    ASSUME SliceTypeOK, NEW e \in work, Visit(e)
    PROVE  \A v \in Var : visited'[v] <= visited[v]
  <1>1. e.cr \in Nat /\ \A v \in Var : visited[v] \in Nat
    BY EntryType, BoundsAssumption DEF SliceTypeOK, Unvisited
  <1> QED
    BY <1>1 DEF Visit, Processed, SliceTypeOK

LEMMA PopStrengthens == TypeOK /\ (\E e \in work : Pop(e)) => Strengthens
  <1> SUFFICES ASSUME TypeOK, NEW e \in work, Pop(e) PROVE Strengthens
    OBVIOUS
  <1>1. /\ \A n \in Node : Rank[included[n]] <= Rank[included[n]]
        /\ \A v \in Var : visited[v] <= visited[v]
    BY RankType, BoundsAssumption DEF SliceTypeOK, Unvisited
  <1>2. "callee" \in Reason /\ "modifier-guard" \in Reason /\ DefReason(e) \in Reason
    BY DEF Reason, DefReason
  <1>3. CASE SkipVisited(e)
    BY <1>1, <1>3 DEF SkipVisited, sliceVars, Strengthens
  <1>4. CASE Ascend(e)
    BY <1>2, <1>4, IncludeTwiceStrengthens, VisitStrengthens DEF Ascend, Strengthens
  <1>5. CASE StopAtBoundary(e) \/ ThreadPhi(e)
    BY <1>1, <1>5, VisitStrengthens DEF StopAtBoundary, ThreadPhi, sliceVars, Strengthens
  <1>6. CASE FollowDefinition(e) \/ CalleeTooDeep(e)
    BY <1>2, <1>6, IncludeStrengthens, VisitStrengthens
       DEF FollowDefinition, CalleeTooDeep, Strengthens
  <1>7. CASE EnterCallee(e)
    BY <1>2, <1>7, IncludeTwiceStrengthens, VisitStrengthens DEF EnterCallee, Strengthens
  <1> QED
    BY <1>3, <1>4, <1>5, <1>6, <1>7 DEF Pop

LEMMA NextStrengthens == TypeOK /\ [Next]_vars => Strengthens
  <1> SUFFICES ASSUME TypeOK, [Next]_vars PROVE Strengthens
    OBVIOUS
  <1>1. /\ \A n \in Node : Rank[included[n]] <= Rank[included[n]]
        /\ \A v \in Var : visited[v] <= visited[v]
    BY RankType, BoundsAssumption DEF SliceTypeOK, Unvisited
  <1>2. /\ "control-dep" \in Reason /\ "modifier-guard" \in Reason
        /\ "callee" \in Reason /\ "storage-dep" \in Reason
    BY DEF Reason
  <1>3. CASE \E e \in work : Pop(e)
    BY <1>3, PopStrengthens
  <1>4. CASE ControlClosure
    BY <1>1, <1>2, <1>4, IncludeStrengthens DEF ControlClosure, Strengthens
  <1>5. CASE IncludeModifierGuards
    BY <1>1, <1>2, <1>5, IncludeStrengthens DEF IncludeModifierGuards, Strengthens
  <1>6. CASE CrossContractStep
    BY <1>1, <1>2, <1>6, IncludeStrengthens DEF CrossContractStep, Strengthens
  <1>7. CASE StorageClosureStep
    BY <1>1, <1>2, <1>7, IncludeStrengthens DEF StorageClosureStep, Strengthens
  <1>8. CASE NoCrossContract \/ UNCHANGED vars
    BY <1>1, <1>8 DEF NoCrossContract, sliceVars, vars, Strengthens
  <1>9. CASE Finish
    BY <1>1, <1>9 DEF Finish, Strengthens
  <1> QED
    BY <1>3, <1>4, <1>5, <1>6, <1>7, <1>8, <1>9 DEF Next, Terminating

\* The strongest reason wins in every order of the worklist: no step of the
\* slicer weakens a reason, forgets a cheaper visit or takes back a note.
THEOREM ReasonsStrengthen == Spec => ReasonsOnlyStrengthen
  <1>1. TypeOK /\ [Next]_vars => [Strengthens]_vars
    BY NextStrengthens
  <1> QED
    BY <1>1, InitType, NextType, PTL DEF Spec, ReasonsOnlyStrengthen, Strengthens

-----------------------------------------------------------------------------
(* What is reached stays reached, and what is included whole is followed.  *)

\* An entry leaves the worklist only when its variable has been processed with
\* at least as much budget; the steps outside the drain start from an empty
\* worklist.
LEMMA WorkKept ==
    ASSUME TypeOK, [Next]_vars
    PROVE  \A e \in work : e \in work' \/ visited'[e.var] <= e.cr
  <1>1. ASSUME NEW e \in work, Pop(e)
        PROVE  work \ {e} \subseteq work' /\ visited'[e.var] <= e.cr
    <2>1. CASE SkipVisited(e)
      BY <2>1 DEF SkipVisited, Processed
    <2>2. CASE ~SkipVisited(e)
      <3>1. Visit(e) /\ work \ {e} \subseteq work'
        BY <1>1, <2>2
           DEF Pop, Ascend, StopAtBoundary, ThreadPhi, FollowDefinition,
               EnterCallee, CalleeTooDeep
      <3>2. visited'[e.var] = e.cr /\ e.cr \in Int
        BY <3>1, EntryType DEF Visit, SliceTypeOK
      <3> QED
        BY <3>1, <3>2
    <2> QED
      BY <2>1, <2>2
  <1>2. CASE \E e \in work : Pop(e)
    BY <1>1, <1>2
  <1>3. CASE UNCHANGED work
    BY <1>3
  <1>4. CASE work = {}
    BY <1>4
  <1> QED
    BY <1>2, <1>3, <1>4
       DEF Next, ControlClosure, IncludeModifierGuards, CrossContractStep,
           NoCrossContract, StorageClosureStep, Finish, Terminating, Saturated, vars

\* What has been reached stays reached.
LEMMA ReachedStable ==
    ASSUME TypeOK, [Next]_vars, NEW v \in Var, NEW f, NEW c \in Nat, Reached(v, f, c)
    PROVE  Reached(v, f, c)'
  <1>1. TypeOK' /\ visited'[v] <= visited[v]
    BY NextType, NextStrengthens DEF Strengthens
  <1>2. visited[v] \in Nat /\ visited'[v] \in Nat
    BY <1>1, BoundsAssumption DEF SliceTypeOK, Unvisited
  <1>3. CASE visited[v] <= c
    BY <1>1, <1>2, <1>3 DEF Reached
  <1>4. ASSUME NEW e \in work, e.var = v, e.fn = f, e.cr <= c
        PROVE  Reached(v, f, c)'
    <2>1. e.cr \in Nat
      BY EntryType, BoundsAssumption
    <2>2. CASE e \in work'
      BY <1>4, <2>2 DEF Reached
    <2>3. CASE visited'[e.var] <= e.cr
      BY <1>2, <1>4, <2>1, <2>3 DEF Reached
    <2> QED
      BY <2>2, <2>3, WorkKept
  <1> QED
    BY <1>3, <1>4 DEF Reached

\* What a node reads is on the worklist when it is seeded.
LEMMA SeedReadsReached ==
    ASSUME NEW S, SeedReads(S) \subseteq work', NEW n \in Node, n \in S
    PROVE  AllReached(NodeReads(n), FnOf(n), 0)'
  <1> SUFFICES ASSUME NEW v \in NodeReads(n)
               PROVE  \E e \in work' : e.var = v /\ e.fn = FnOf(n) /\ e.cr <= 0
    BY DEF AllReached, Reached
  <1>1. PICK o \in Op : NodeOf(o) = n /\ v \in Reads(o)
    BY DEF NodeReads, OpsOf
  <1>2. [var |-> v, fn |-> FnOf(n), cr |-> 0] \in SeedReads(S)
    BY <1>1 DEF SeedReads, ReadsOf, OpsAt, Pushes, FnOfOp
  <1> QED
    BY <1>2

Whole == {"control-dep", "modifier-guard", "storage-dep"}

\* A step that gives a node one of these reasons seeds what the node reads.
LEMMA WholeSeeded ==
    ASSUME TypeOK, [Next]_vars, NEW n \in Node, included'[n] \in Whole,
           included'[n] # included[n]
    PROVE  \E S : n \in S /\ SeedReads(S) \subseteq work'
  <1>1. included \in [Node -> Reason]
    BY DEF SliceTypeOK
  <1>2. ASSUME NEW S, NEW r \in Reason, included' = Reasoned(included, S, r)
        PROVE  n \in S /\ r \in Whole
    BY <1>1, <1>2, ReasonedStrengthens
  <1>3. CASE \E e \in work : Ascend(e)
    <2>1. PICK e \in work : Ascend(e)
      BY <1>3
    <2> DEFINE sites  == Callsites[e.fn]
               guards == UNION {ModifierGuards[f] : f \in {FnOfOp(o) : o \in sites}}
               inc    == Reasoned(included, {NodeOf(o) : o \in sites}, "callee")
    <2>2. included' = Reasoned(inc, guards, "modifier-guard") /\ SeedReads(guards) \subseteq work'
      BY <2>1 DEF Ascend
    <2>3. "callee" \in Reason /\ "modifier-guard" \in Reason
      BY DEF Reason
    <2>4. inc \in [Node -> Reason] /\ (inc[n] = included[n] \/ inc[n] = "callee")
      BY <1>1, <2>3, ReasonedStrengthens
    <2>5. \/ included'[n] = inc[n]
          \/ n \in guards
      BY <2>2, <2>3, <2>4, ReasonedStrengthens
    <2> QED
      BY <2>2, <2>4, <2>5 DEF Whole
  <1>4. CASE \E e \in work : EnterCallee(e)
    <2>0. PICK e \in work : EnterCallee(e)
      BY <1>4
    <2>1. PICK S, T :
                included' = Reasoned(Reasoned(included, S, DefReason(e)), T, "callee")
      BY <2>0 DEF EnterCallee
    <2> DEFINE inc == Reasoned(included, S, DefReason(e))
    <2>2. "callee" \in Reason /\ DefReason(e) \in Reason \ Whole
      BY DEF Reason, DefReason, Whole
    <2>3. inc \in [Node -> Reason] /\ (inc[n] = included[n] \/ inc[n] = DefReason(e))
      BY <1>1, <2>2, ReasonedStrengthens
    <2>4. included'[n] = inc[n] \/ included'[n] = "callee"
      BY <2>1, <2>2, <2>3, ReasonedStrengthens
    <2> QED
      BY <2>2, <2>3, <2>4 DEF Whole
  <1>5. CASE \E e \in work : FollowDefinition(e) \/ CalleeTooDeep(e)
    <2>0. PICK e \in work : FollowDefinition(e) \/ CalleeTooDeep(e)
      BY <1>5
    <2>1. PICK S : included' = Reasoned(included, S, DefReason(e))
      BY <2>0 DEF FollowDefinition, CalleeTooDeep
    <2>2. DefReason(e) \in Reason \ Whole
      BY DEF Reason, DefReason, Whole
    <2> QED
      BY <1>2, <2>1, <2>2
  <1>6. CASE ControlClosure
    BY <1>2, <1>6 DEF ControlClosure, Reason
  <1>7. CASE IncludeModifierGuards
    BY <1>2, <1>7 DEF IncludeModifierGuards, Reason
  <1>8. CASE StorageClosureStep
    BY <1>2, <1>8 DEF StorageClosureStep, Reason
  <1>9. CASE CrossContractStep
    <2>1. PICK S : included' = Reasoned(included, S, "callee")
      BY <1>9 DEF CrossContractStep
    <2> QED
      BY <1>2, <2>1 DEF Reason, Whole
  <1>10. CASE UNCHANGED included
    BY <1>10
  <1> QED
    BY <1>3, <1>4, <1>5, <1>6, <1>7, <1>8, <1>9, <1>10
       DEF Next, Pop, SkipVisited, StopAtBoundary, ThreadPhi, NoCrossContract,
           Finish, Terminating, sliceVars, vars

LEMMA NextDangles == TypeOK /\ NothingDangles /\ [Next]_vars => NothingDangles'
  <1> SUFFICES ASSUME TypeOK, NothingDangles, [Next]_vars,
                      NEW n \in Node, included'[n] \in Whole
               PROVE  AllReached(NodeReads(n), FnOf(n), 0)'
    BY DEF NothingDangles, Whole
  <1>1. CASE included'[n] = included[n]
    <2>1. AllReached(NodeReads(n), FnOf(n), 0)
      BY <1>1 DEF NothingDangles, Whole
    <2>2. NodeReads(n) \in SUBSET Var
      BY OpTypes DEF NodeReads, OpsOf
    <2> QED
      BY <2>1, <2>2, ReachedStable DEF AllReached
  <1>2. CASE included'[n] # included[n]
    BY <1>2, WholeSeeded, SeedReadsReached
  <1> QED
    BY <1>1, <1>2

\* A guard, a modifier guard or a storage writer is never left dangling: from
\* the step that includes it on, everything it reads is on the worklist or has
\* been processed, with the whole budget.
THEOREM NothingIsLeftDangling == Spec => []NothingDangles
  <1>1. Init => NothingDangles
    <2> SUFFICES ASSUME Init, NEW n \in Node PROVE included[n] \notin Whole
      BY DEF NothingDangles, Whole
    <2>1. [m \in Node |-> "none"] \in [Node -> Reason] /\ "criterion" \in Reason
      BY DEF Reason
    <2>2. included[n] = "none" \/ included[n] = "criterion"
      BY <2>1, ReasonedStrengthens DEF Init
    <2> QED
      BY <2>2 DEF Whole
  <1> QED
    BY <1>1, InitType, NextType, NextDangles, PTL DEF Spec

-----------------------------------------------------------------------------
(* A guard or a writer is never dropped.                                   *)

\* Once stitching is over the slice is saturated and nothing can grow it.
ReturnedSaturated ==
    stage \in {"stitched", "done"} =>
        /\ Saturated
        /\ round < request.rounds => Unstitched = {}

ModifierGuardsIn ==
    stage # "seeded" =>
        \A g \in ModifierGuards[FnOf(request.node)] :
            Rank[included[g]] >= Rank["modifier-guard"]

PulledIn == \A sv \in pulled : \A w \in WritersOf(sv) : InSlice(w)

\* A node of the slice stays in it.
LEMMA InSliceStable ==
    ASSUME TypeOK, [Next]_vars, NEW n \in Node, InSlice(n)
    PROVE  InSlice(n)'
  <1>1. TypeOK' /\ Rank[included[n]] <= Rank[included'[n]]
    BY NextType, NextStrengthens DEF Strengthens
  <1>2. included[n] \in Reason /\ included'[n] \in Reason
    BY <1>1 DEF SliceTypeOK
  <1>3. Rank[included[n]] \in Nat /\ Rank[included'[n]] \in Nat
    BY <1>2, RankType
  <1> QED
    BY <1>1, <1>2, <1>3, RankNone DEF InSlice

\* The request does not change, and the statements of `backward' are run in
\* order: the modifier guards are included on the way out of the first one,
\* and only stitching leads to the last two.
LEMMA StageOrder ==
    ASSUME [Next]_vars
    PROVE  /\ request' = request
           /\ stage = "seeded" => stage' = "seeded" \/ IncludeModifierGuards
           /\ stage' = "stitched" => stage = "stitched" \/ StorageClosureStep
           /\ stage' = "done" => stage = "done" \/ Finish
  <1>1. ASSUME NEW e \in work, Pop(e) PROVE request' = request /\ stage' = stage
    BY <1>1 DEF Pop, SkipVisited, Visit, Ascend, StopAtBoundary, ThreadPhi,
                FollowDefinition, EnterCallee, CalleeTooDeep
  <1>2. CASE CrossContractStep
    <2>1. request' = request /\ stage = "guarded" /\ stage' \in {"crossed", "guarded"}
      BY <1>2 DEF CrossContractStep
    <2> QED
      BY <2>1
  <1>3. CASE StorageClosureStep
    <2>1. request' = request /\ stage = "crossed" /\ stage' \in {"stitched", stage}
      BY <1>3 DEF StorageClosureStep
    <2> QED
      BY <1>3, <2>1
  <1>4. CASE UNCHANGED vars
    BY <1>4 DEF vars
  <1> QED
    BY <1>1, <1>2, <1>3, <1>4
       DEF Next, ControlClosure, IncludeModifierGuards, NoCrossContract,
           Finish, Terminating

\* Nothing but the end of the computation is left once stitching is over.
LEMMA StitchedIsOver ==
    ASSUME Saturated, stage \in {"stitched", "done"}, [Next]_vars
    PROVE  /\ UNCHANGED <<request, included, work, pulled, round>>
           /\ stage' \in {"stitched", "done"}
  <1>1. work = {} /\ NewGuards = {}
    BY DEF Saturated
  <1>2. CASE Finish
    BY <1>2 DEF Finish, storageVars
  <1>3. CASE UNCHANGED vars
    BY <1>3 DEF vars
  <1> QED
    BY <1>1, <1>2, <1>3
       DEF Next, ControlClosure, IncludeModifierGuards, CrossContractStep,
           NoCrossContract, StorageClosureStep, Terminating

LEMMA NextSaturated ==
    TypeOK /\ ReturnedSaturated /\ [Next]_vars => ReturnedSaturated'
  <1> SUFFICES ASSUME TypeOK, ReturnedSaturated, [Next]_vars,
                      stage' \in {"stitched", "done"}
               PROVE  /\ Saturated'
                      /\ round' < request'.rounds => Unstitched' = {}
    BY DEF ReturnedSaturated
  <1>1. CASE stage \in {"stitched", "done"}
    <2>1. /\ Saturated /\ (round < request.rounds => Unstitched = {})
          /\ UNCHANGED <<request, included, work, pulled, round>>
      BY <1>1, StitchedIsOver DEF ReturnedSaturated
    <2> QED
      BY <2>1 DEF Saturated, NewGuards, Unstitched, Slice, InSlice
  <1>2. CASE StorageClosureStep /\ stage' = "stitched"
    <2>1. NewWriters = {} /\ round' = round /\ NewGuards = {} /\ request' = request
      BY <1>2 DEF StorageClosureStep, Saturated
    <2>2. included' = included
      <3>1. included' = Reasoned(included, {}, "storage-dep") /\ included \in [Node -> Reason]
        BY <1>2, <2>1 DEF StorageClosureStep, SliceTypeOK
      <3> QED
        BY <3>1 DEF Reasoned
    <2>3. work' = {}
      BY <1>2, <2>1 DEF StorageClosureStep, SeedReads, ReadsOf, OpsAt
    <2>4. Unstitched' = {}
      BY <1>2, <2>2 DEF StorageClosureStep, Unstitched, Slice, InSlice
    <2> QED
      BY <2>1, <2>2, <2>3, <2>4 DEF Saturated, NewGuards, Slice, InSlice
  <1>3. CASE Finish /\ stage = "crossed"
    <2>1. /\ round = request.rounds /\ Saturated
          /\ UNCHANGED <<request, included, work, round>>
      BY <1>3 DEF Finish, storageVars
    <2>2. request.rounds \in Nat
      BY BoundsAssumption DEF SliceTypeOK, Request
    <2> QED
      BY <2>1, <2>2 DEF Saturated, NewGuards, Slice, InSlice
  <1>4. Finish => stage \in {"crossed", "stitched"}
    BY DEF Finish
  <1> QED
    BY <1>1, <1>2, <1>3, <1>4, StageOrder

LEMMA NextModifierGuards ==
    TypeOK /\ ModifierGuardsIn /\ [Next]_vars => ModifierGuardsIn'
  <1> SUFFICES ASSUME TypeOK, ModifierGuardsIn, [Next]_vars, stage' # "seeded",
                      NEW g \in ModifierGuards[FnOf(request.node)]
               PROVE  Rank[included'[g]] >= Rank["modifier-guard"]
    BY StageOrder DEF ModifierGuardsIn
  <1>1. g \in Node /\ included \in [Node -> Reason] /\ "modifier-guard" \in Reason
    BY ModifierGuardsType, CriterionType DEF SliceTypeOK, Reason
  <1>2. CASE IncludeModifierGuards
    BY <1>1, <1>2, ReasonedStrengthens DEF IncludeModifierGuards
  <1>3. CASE stage # "seeded"
    <2>1. /\ Rank[included[g]] >= Rank["modifier-guard"]
          /\ Rank[included[g]] <= Rank[included'[g]]
      BY <1>1, <1>3, NextStrengthens DEF ModifierGuardsIn, Strengthens
    <2>2. /\ Rank[included[g]] \in Nat /\ Rank[included'[g]] \in Nat
          /\ Rank["modifier-guard"] \in Nat
      BY <1>1, NextType, RankType DEF SliceTypeOK
    <2> QED
      BY <2>1, <2>2
  <1> QED
    BY <1>2, <1>3, StageOrder

LEMMA NextPulled == TypeOK /\ PulledIn /\ [Next]_vars => PulledIn'
  <1> SUFFICES ASSUME TypeOK, PulledIn, [Next]_vars,
                      NEW sv \in pulled', NEW w \in WritersOf(sv)
               PROVE  InSlice(w)'
    BY DEF PulledIn
  <1>1. w \in Node
    BY DEF WritersOf
  <1>2. CASE sv \in pulled
    BY <1>1, <1>2, InSliceStable DEF PulledIn
  <1>3. CASE sv \notin pulled
    <2>1. StorageClosureStep
      BY <1>3 DEF Next, Pop, SkipVisited, Visit, Ascend, StopAtBoundary, ThreadPhi,
                  FollowDefinition, EnterCallee, CalleeTooDeep, ControlClosure,
                  IncludeModifierGuards, CrossContractStep, NoCrossContract,
                  Finish, Terminating, storageVars, vars
    <2>2. sv \in Unstitched /\ included' = Reasoned(included, NewWriters, "storage-dep")
      BY <1>3, <2>1 DEF StorageClosureStep
    <2>3. CASE InSlice(w)
      BY <1>1, <2>3, InSliceStable
    <2>4. CASE ~InSlice(w)
      <3>1. w \in NewWriters
        BY <2>2, <2>4 DEF NewWriters, Slice
      <3>2. included \in [Node -> Reason] /\ included[w] = "none"
        BY <2>4 DEF SliceTypeOK, InSlice
      <3>3. Rank["storage-dep"] > Rank["none"]
        BY DEF Rank, Reason
      <3>4. included'[w] = "storage-dep"
        BY <1>1, <2>2, <3>1, <3>2, <3>3 DEF Reasoned
      <3> QED
        BY <3>4 DEF InSlice
    <2> QED
      BY <2>3, <2>4
  <1> QED
    BY <1>2, <1>3

\* In the slice that is returned every guard of a node of the slice is in the
\* slice, and the modifier guards of the criterion's function have a reason at
\* least as strong as "modifier-guard", whichever statement of `backward'
\* brought the node in.
THEOREM NoGuardIsDropped == Spec => []GuardsNeverDropped
  <1>1. Init => ReturnedSaturated /\ ModifierGuardsIn
    BY DEF Init, ReturnedSaturated, ModifierGuardsIn
  <1>2. ASSUME ReturnedSaturated, ModifierGuardsIn, stage = "done"
        PROVE  /\ work = {}
               /\ \A n \in Slice : \A g \in GuardsOf(n) : Emitted(g)
               /\ \A g \in ModifierGuards[FnOf(request.node)] :
                     Rank[included[g]] >= Rank["modifier-guard"]
    <2>1. work = {} /\ NewGuards = {}
      BY <1>2 DEF ReturnedSaturated, Saturated
    <2>2. ASSUME NEW n \in Slice, NEW g \in GuardsOf(n) PROVE Emitted(g)
      <3>1. g \in Slice \cup Scaffolding
        BY <2>1 DEF NewGuards
      <3> QED
        BY <3>1 DEF Slice, Emitted
    <2> QED
      BY <1>2, <2>1, <2>2 DEF ModifierGuardsIn
  <1>3. ReturnedSaturated /\ ModifierGuardsIn => GuardsNeverDropped
    BY <1>2 DEF GuardsNeverDropped
  <1> QED
    BY <1>1, <1>3, InitType, NextType, NextSaturated, NextModifierGuards, PTL DEF Spec

\* In the slice that is returned every writer of every stitched state variable
\* is in the slice, and when rounds were left no variable was left to stitch.
THEOREM EveryWriterIsStitched == Spec => []WritersStitched
  <1>1. Init => ReturnedSaturated /\ PulledIn
    BY DEF Init, ReturnedSaturated, PulledIn
  <1>2. ReturnedSaturated /\ PulledIn => WritersStitched
    BY DEF ReturnedSaturated, PulledIn, WritersStitched
  <1> QED
    BY <1>1, <1>2, InitType, NextType, NextSaturated, NextPulled, PTL DEF Spec

-----------------------------------------------------------------------------
(* Everything processed is followed.                                       *)

\* A formal is read at home: the merges that read across functions merge versions
\* of one source variable, and a formal is a variable of one function.
LEMMA FormalsReadAtHome ==
    ASSUME NEW v \in Var, NameOf(v) \in Formals(Home(v))
    PROVE  ReadAtHome(v)
  <1> SUFFICES ASSUME NEW o \in Op, v \in Reads(o), ~IsEntryMerge(o), FnOfOp(o) # Home(v)
               PROVE  FALSE
    BY DEF ReadAtHome
  <1>1. Kind(o) = "phi" /\ NameOf(LValue(o)) = NameOf(v)
    BY ReadsAcrossFunctions
  <1>2. LValue(o) \in Var /\ Home(v) \in Fn
    BY <1>1, OpTypes, NameTypes, StaticSingleAssignment
  <1>3. Home(LValue(o)) = Home(v)
    BY <1>1, <1>2, FormalsAreScoped
  <1>4. Home(LValue(o)) = FnOfOp(o)
    BY <1>1, StaticSingleAssignment
  <1> QED
    BY <1>3, <1>4

\* Every entry of a variable that is read at home has the function it belongs to.
IsAtHome(E) == \A e \in E : ReadAtHome(e.var) => e.fn = Home(e.var)

\* An entry of a variable that is met at home only is one of its own function.
WorkIsLocal == \A e \in work : MetAtHome(e.var) => e.fn = Home(e.var)

LEMMA ReadsOfLocal ==
    ASSUME NEW Os \in SUBSET Op, NEW c, \A o \in Os : ~IsEntryMerge(o)
    PROVE  IsAtHome(ReadsOf(Os, c))
  BY DEF ReadAtHome, ReadsOf, Pushes, IsAtHome

\* The operations that are seeded, or taken from a callee, are never the entry
\* merges of a formal: those are on the scaffolding and write no state.
LEMMA TakenAreNoMerges ==
    /\ \A o \in Op : NodeOf(o) \notin Scaffolding => ~IsEntryMerge(o)
    /\ \A f : \A o \in ResultOps(f) : o \in Op /\ ~IsEntryMerge(o)
  BY OpTypes, FormalsAreLocal DEF IsEntryMerge, Scaffolding, ResultOps

LEMMA SeedReadsLocal ==
    ASSUME NEW S, S \cap Scaffolding = {}
    PROVE  IsAtHome(SeedReads(S))
  <1>1. \A o \in OpsAt(S) : o \in Op /\ ~IsEntryMerge(o)
    BY TakenAreNoMerges DEF OpsAt
  <1> QED
    BY <1>1, ReadsOfLocal DEF SeedReads

\* The entries in E are pushed, the others were on the worklist.
PushesAtHome(E) == work' \subseteq work \cup E /\ IsAtHome(E)

LEMMA AscendLocal ==
    ASSUME TypeOK, NEW e \in work, Ascend(e)
    PROVE  \E E : PushesAtHome(E)
  <1> DEFINE sites   == Callsites[e.fn]
             guards  == UNION {ModifierGuards[f] : f \in {FnOfOp(o) : o \in sites}}
             passed(o) == Pushes(Passed(o, NameOf(e.var)), FnOfOp(o), e.cr + 1)
             pushed  == SeedReads(guards) \cup UNION {passed(o) : o \in sites}
  <1>1. work' \subseteq work \cup pushed
    BY DEF Ascend
  <1>2. IsAtHome(SeedReads(guards))
    <2>1. \A o \in sites : FnOfOp(o) \in Fn
      BY EntryType, CallsitesType
    <2>2. guards \cap Scaffolding = {}
      BY <2>1, ModifierGuardsType
    <2> QED
      BY <2>2, SeedReadsLocal
  <1>3. ASSUME NEW o \in sites, NEW x \in passed(o) PROVE x.fn = Home(x.var)
    <2>1. o \in Op /\ NameOf(e.var) \in Name
      BY EntryType, NameTypes DEF Callsites
    <2>2. x.var = Actual(o, NameOf(e.var)) /\ x.var # NoVar /\ x.fn = FnOfOp(o)
      BY DEF Pushes, Passed
    <2> QED
      BY <2>1, <2>2, CallsResolved
  <1>4. IsAtHome(pushed)
    BY <1>2, <1>3 DEF IsAtHome
  <1> QED
    BY <1>1, <1>4 DEF PushesAtHome

\* Following a definition pushes what it reads, in its own function.
LEMMA FollowLocal ==
    ASSUME NEW v \in Var, NEW f, NEW c, NEW o \in DefSite(v, f), ~IsEntryMerge(o)
    PROVE  IsAtHome(Pushes(Reads(o), f, c))
  BY DEF IsAtHome, ReadAtHome, DefSite, DefMap, Pushes

LEMMA PopLocal ==
    ASSUME TypeOK, NEW e \in work, Pop(e)
    PROVE  \E E : PushesAtHome(E)
  <1>1. CASE SkipVisited(e) \/ StopAtBoundary(e)
    <2>1. work' \subseteq work \cup {} /\ IsAtHome({})
      BY <1>1 DEF SkipVisited, StopAtBoundary, IsAtHome
    <2> QED
      BY <2>1 DEF PushesAtHome
  <1>2. CASE Ascend(e)
    BY <1>2, AscendLocal
  <1>3. CASE ThreadPhi(e) \/ FollowDefinition(e) \/ CalleeTooDeep(e)
    <2>1. PICK o \in DefSite(e.var, e.fn) :
                /\ ~IsEntryMerge(o)
                /\ work' = (work \ {e}) \cup Pushes(Reads(o), e.fn, e.cr)
      BY <1>3 DEF ThreadPhi, FollowDefinition, CalleeTooDeep, IsEntryMerge, IsDescendable
    <2>2. work' \subseteq work \cup Pushes(Reads(o), e.fn, e.cr)
      BY <2>1
    <2>3. IsAtHome(Pushes(Reads(o), e.fn, e.cr))
      BY <2>1, EntryType, FollowLocal
    <2> QED
      BY <2>2, <2>3 DEF PushesAtHome
  <1>4. CASE EnterCallee(e)
    <2>1. PICK o \in DefSite(e.var, e.fn) :
                /\ ~IsEntryMerge(o)
                /\ work' = (work \ {e}) \cup Pushes(Reads(o), e.fn, e.cr)
                                        \cup ReadsOf(DescendedOps(o), e.cr + 1)
      BY <1>4 DEF EnterCallee, IsEntryMerge, IsDescendable
    <2> DEFINE pushed == Pushes(Reads(o), e.fn, e.cr) \cup ReadsOf(DescendedOps(o), e.cr + 1)
    <2>2. IsAtHome(ReadsOf(DescendedOps(o), e.cr + 1))
      BY TakenAreNoMerges, ReadsOfLocal DEF DescendedOps
    <2>3. IsAtHome(Pushes(Reads(o), e.fn, e.cr))
      BY <2>1, EntryType, FollowLocal
    <2>4. IsAtHome(pushed) /\ work' \subseteq work \cup pushed
      BY <2>1, <2>2, <2>3 DEF IsAtHome
    <2> QED
      BY <2>4 DEF PushesAtHome
  <1> QED
    BY <1>1, <1>2, <1>3, <1>4 DEF Pop

LEMMA ControlClosureLocal ==
    ASSUME ControlClosure PROVE \E E : PushesAtHome(E)
  <1>1. NewGuards \cap Scaffolding = {} /\ work' = SeedReads(NewGuards)
    BY DEF ControlClosure, NewGuards
  <1> QED
    BY <1>1, SeedReadsLocal DEF PushesAtHome

\* Every step pushes at home.
LEMMA NextPushes ==
    ASSUME TypeOK, [Next]_vars PROVE \E E : PushesAtHome(E)
  <1>1. CASE \E e \in work : Pop(e)
    BY <1>1, PopLocal
  <1>2. CASE ControlClosure
    BY <1>2, ControlClosureLocal
  <1>3. CASE IncludeModifierGuards
    <2> DEFINE guards == ModifierGuards[FnOf(request.node)]
    <2>1. guards \cap Scaffolding = {} /\ work' = SeedReads(guards)
      BY <1>3, ModifierGuardsType, CriterionType DEF IncludeModifierGuards
    <2> QED
      BY <2>1, SeedReadsLocal DEF PushesAtHome
  <1>4. CASE StorageClosureStep
    <2>1. NewWriters \cap Scaffolding = {} /\ work' = SeedReads(NewWriters)
      BY <1>4 DEF StorageClosureStep, NewWriters, WritersOf
    <2> QED
      BY <2>1, SeedReadsLocal DEF PushesAtHome
  <1>5. CASE CrossContractStep
    <2>1. PICK R : work' = ReadsOf(PulledOps(R), 0)
      BY <1>5 DEF CrossContractStep
    <2>2. \A o \in PulledOps(R) : o \in Op /\ ~IsEntryMerge(o)
      BY TakenAreNoMerges DEF PulledOps
    <2> QED
      BY <2>1, <2>2, ReadsOfLocal DEF PushesAtHome
  <1>6. CASE UNCHANGED work
    <2>1. work' \subseteq work \cup {} /\ IsAtHome({})
      BY <1>6 DEF IsAtHome
    <2> QED
      BY <2>1 DEF PushesAtHome
  <1> QED
    BY <1>1, <1>2, <1>3, <1>4, <1>5, <1>6
       DEF Next, NoCrossContract, Finish, Terminating, vars

\* Where a variable is met is a question about the request, which is fixed.
LEMMA MetAtHomeSteady ==
    ASSUME request' = request, NEW v
    PROVE  (MetAtHome(v)' <=> MetAtHome(v)) /\ (StartedAtHome(v)' <=> StartedAtHome(v))
  BY DEF MetAtHome, StartedAtHome

LEMMA NextLocal == TypeOK /\ WorkIsLocal /\ [Next]_vars => WorkIsLocal'
  <1> SUFFICES ASSUME TypeOK, WorkIsLocal, [Next]_vars,
                      NEW e \in work', MetAtHome(e.var)
               PROVE  e.fn = Home(e.var)
    BY StageOrder, MetAtHomeSteady DEF WorkIsLocal
  <1>1. PICK E : PushesAtHome(E)
    BY NextPushes
  <1> QED
    BY <1>1 DEF PushesAtHome, IsAtHome, WorkIsLocal, MetAtHome

LEMMA InitLocal == Init => WorkIsLocal
  BY DEF Init, WorkIsLocal, MetAtHome, StartedAtHome, Pushes

\* A visit is recorded by the step that pops an entry of the variable.
LEMMA VisitedByPop ==
    ASSUME TypeOK, [Next]_vars, NEW v \in Var, visited'[v] # visited[v]
    PROVE  \E e \in work : /\ Pop(e) /\ Visit(e)
                           /\ e.var = v /\ visited'[v] = e.cr
                           /\ WorkIsLocal /\ MetAtHome(v) => e.fn = Home(v)
  <1>1. PICK e \in work : Pop(e) /\ Visit(e)
    BY DEF Next, Pop, SkipVisited, Ascend, StopAtBoundary, ThreadPhi,
           FollowDefinition, EnterCallee, CalleeTooDeep, ControlClosure,
           IncludeModifierGuards, CrossContractStep, NoCrossContract,
           StorageClosureStep, Finish, Terminating, vars
  <1>2. e.var = v /\ visited'[v] = e.cr
    BY <1>1 DEF Visit, SliceTypeOK
  <1>3. WorkIsLocal /\ MetAtHome(v) => e.fn = Home(v)
    BY <1>2 DEF WorkIsLocal
  <1> QED
    BY <1>1, <1>2, <1>3

\* The nodes a step gives a reason to are in the slice.
LEMMA ReasonedIn ==
    ASSUME SliceTypeOK, NEW S, NEW r \in Reason \ {"none"},
           included' = Reasoned(included, S, r)
    PROVE  \A n \in Node : n \in S => InSlice(n)'
  BY DEF Reasoned, InSlice, SliceTypeOK, Rank, Reason

LEMMA ReasonedTwiceIn ==
    ASSUME TypeOK, NEW S, NEW r \in Reason \ {"none"},
           NEW T, NEW q \in Reason \ {"none"},
           included' = Reasoned(Reasoned(included, S, r), T, q)
    PROVE  \A n \in Node : n \in S \cup T => InSlice(n)'
  <1> DEFINE inc == Reasoned(included, S, r)
  <1>1. /\ inc \in [Node -> Reason]
        /\ \A n \in Node : n \in S => Rank[r] <= Rank[inc[n]]
    BY ReasonedStrengthens DEF SliceTypeOK
  <1> HIDE DEF inc
  <1>2. /\ Reasoned(inc, T, q) \in [Node -> Reason]
        /\ \A n \in Node : Rank[inc[n]] <= Rank[Reasoned(inc, T, q)[n]]
        /\ \A n \in Node : n \in T => Rank[q] <= Rank[Reasoned(inc, T, q)[n]]
    BY <1>1, ReasonedStrengthens
  <1>3. ASSUME NEW n \in Node, n \in S \cup T
        PROVE  Reasoned(inc, T, q)[n] # "none"
    <2>1. /\ Rank[r] \in Nat /\ Rank[q] \in Nat /\ Rank[inc[n]] \in Nat
          /\ Rank[Reasoned(inc, T, q)[n]] \in Nat
      BY <1>1, <1>2, RankType
    <2>2. Rank[r] > 0 /\ Rank[q] > 0
      BY RankNone
    <2>3. Rank[Reasoned(inc, T, q)[n]] > 0
      BY <1>1, <1>2, <1>3, <2>1, <2>2
    <2> QED
      BY <1>2, <2>3, RankNone
  <1> QED
    BY <1>3 DEF inc, InSlice

\* What is pushed is reached.
LEMMA PushedReached ==
    ASSUME NEW V, NEW f, NEW c \in Nat, Pushes(V, f, c) \subseteq work'
    PROVE  AllReached(V, f, c)'
  <1>1. ASSUME NEW v \in V
        PROVE  \E e \in work' : e.var = v /\ e.fn = f /\ e.cr <= c
    <2>1. [var |-> v, fn |-> f, cr |-> c] \in Pushes(V, f, c)
      BY DEF Pushes
    <2> QED
      BY <2>1
  <1> QED
    BY <1>1 DEF AllReached, Reached

\* A visited variable was visited with crossings within the bound.
LEMMA VisitedType ==
    ASSUME SliceTypeOK PROVE \A v \in Var : visited[v] \in Nat
  BY BoundsAssumption DEF SliceTypeOK, Unvisited

\* What was reached from a variable whose visit has not changed still is.
LEMMA AllReachedStable ==
    ASSUME TypeOK, [Next]_vars, NEW v \in Var, visited'[v] = visited[v],
           NEW k \in Nat, NEW V \in SUBSET Var, NEW f,
           AllReached(V, f, visited[v] + k)
    PROVE  AllReached(V, f, visited[v] + k)'
  <1>1. PICK c \in Nat : c = visited[v] + k
    BY VisitedType
  <1>2. ASSUME NEW w \in V PROVE Reached(w, f, visited[v] + k)'
    <2>1. Reached(w, f, c) /\ w \in Var
      BY <1>1 DEF AllReached, Reached
    <2>2. Reached(w, f, c)'
      BY <2>1, ReachedStable
    <2>3. (visited[v] + k)' = c
      BY <1>1
    <2> QED
      BY <2>2, <2>3 DEF Reached
  <1> QED
    BY <1>2 DEF AllReached

LEMMA NoneVisited == Init => Visited = {}
  BY BoundsAssumption DEF Init, Visited, Unvisited

\* SSA: the operation that defines a variable is the only one.
LEMMA OneDefinition ==
    ASSUME NEW v \in Var, NEW f, NEW o \in DefSite(v, f)
    PROVE  DefSite(v, f) = {o} /\ o \in Op /\ f = Home(v)
  BY StaticSingleAssignment, NullAssumption DEF DefSite, DefMap

LEMMA NextDefinitions ==
    TypeOK /\ WorkIsLocal /\ DefinitionsFollowed /\ [Next]_vars => DefinitionsFollowed'
  <1> SUFFICES ASSUME TypeOK, WorkIsLocal, DefinitionsFollowed, [Next]_vars,
                      NEW v \in Visited', MetAtHome(v), NEW o \in DefSite(v, Home(v)),
                      ~IsEntryMerge(o)
               PROVE  /\ AllReached(Reads(o), Home(v), visited[v])'
                      /\ Kind(o) # "phi" => InSlice(NodeOf(o))'
    BY StageOrder, MetAtHomeSteady DEF DefinitionsFollowed
  <1>1. v \in Var /\ o \in Op /\ Reads(o) \in SUBSET Var /\ NodeOf(o) \in Node
    BY OpTypes DEF Visited, DefSite, DefMap
  <1>2. CASE visited'[v] = visited[v]
    <2>1. /\ AllReached(Reads(o), Home(v), visited[v])
          /\ Kind(o) # "phi" => InSlice(NodeOf(o))
      BY <1>1, <1>2 DEF DefinitionsFollowed, Visited
    <2>2. visited[v] + 0 = visited[v] /\ (visited[v] + 0)' = visited[v]'
      BY <1>1, <1>2, VisitedType
    <2>3. AllReached(Reads(o), Home(v), visited[v] + 0)'
      BY <1>1, <1>2, <2>1, <2>2, AllReachedStable
    <2> QED
      BY <1>1, <2>1, <2>2, <2>3, InSliceStable
  <1>3. CASE visited'[v] # visited[v]
    <2>1. PICK e \in work : /\ Pop(e) /\ Visit(e)
                            /\ e.var = v /\ e.fn = Home(v)
                            /\ visited'[v] = e.cr
      BY <1>1, <1>3, VisitedByPop
    <2>2. DefSite(e.var, e.fn) = {o} /\ e.cr \in Nat
      BY <1>1, <2>1, OneDefinition, EntryType, BoundsAssumption
    <2>3. ~Processed(e)
      BY <2>1 DEF Visit
    <2>4. Pushes(Reads(o), Home(v), e.cr) \subseteq work'
      BY <2>1, <2>2, <2>3
         DEF Pop, SkipVisited, Ascend, StopAtBoundary, LeavesFunction, ThreadPhi,
             FollowDefinition, EnterCallee, CalleeTooDeep
    <2>5. AllReached(Reads(o), Home(v), visited[v])'
      <3>1. AllReached(Reads(o), Home(v), e.cr)'
        BY <2>2, <2>4, PushedReached
      <3> QED
        BY <2>1, <3>1
    <2>6. ASSUME Kind(o) # "phi" PROVE InSlice(NodeOf(o))'
      <3>1. DefReason(e) \in Reason \ {"none"} /\ "callee" \in Reason \ {"none"}
        BY DEF DefReason, Reason
      <3>2. CASE FollowDefinition(e) \/ CalleeTooDeep(e)
        <4>1. included' = Reasoned(included, {NodeOf(o)}, DefReason(e))
          BY <2>2, <3>2 DEF FollowDefinition, CalleeTooDeep
        <4> QED
          BY <1>1, <3>1, <4>1, ReasonedIn
      <3>3. CASE EnterCallee(e)
        <4>1. \E T : included' = Reasoned(Reasoned(included, {NodeOf(o)}, DefReason(e)),
                                         T, "callee")
          BY <2>2, <3>3 DEF EnterCallee
        <4> QED
          BY <1>1, <3>1, <4>1, ReasonedTwiceIn
      <3> QED
        BY <2>1, <2>2, <2>3, <2>6, <3>2, <3>3
           DEF Pop, SkipVisited, Ascend, StopAtBoundary, LeavesFunction, ThreadPhi,
               IsEntryMerge
    <2> QED
      BY <2>5, <2>6
  <1> QED
    BY <1>2, <1>3

\* Whatever the order in which the worklist is popped, the definition of every
\* variable processed is in the slice, and what it reads is processed or on the
\* worklist with the budget of the cheapest visit.  Excepted are the instances of
\* state variables that another function's merge reads, and what a criterion on
\* an ENTRYPOINT node starts from in another function: see RealDefinitionsReached.
THEOREM EveryDefinitionIsFollowed == Spec => []DefinitionsFollowed
  <1>1. Init => DefinitionsFollowed
    BY NoneVisited DEF DefinitionsFollowed
  <1> QED
    BY <1>1, InitType, NextType, InitLocal, NextLocal, NextDefinitions, PTL DEF Spec

\* The operations whose reads are pushed are reached, each in its own function.
LEMMA ReadsOfReached ==
    ASSUME NEW Os, NEW c \in Nat, ReadsOf(Os, c) \subseteq work', NEW o \in Os
    PROVE  AllReached(Reads(o), FnOfOp(o), c)'
  <1>1. Pushes(Reads(o), FnOfOp(o), c) \subseteq work'
    BY DEF ReadsOf
  <1> QED
    BY <1>1, PushedReached

LEMMA NextCallees ==
    TypeOK /\ WorkIsLocal /\ CalleesEntered /\ [Next]_vars => CalleesEntered'
  <1> DEFINE entered(v, o) ==
        \A p \in ResultOps(Callee(o)) :
            /\ Emitted(NodeOf(p))
            /\ AllReached(Reads(p), Callee(o), visited[v] + 1)
  <1> SUFFICES ASSUME TypeOK, WorkIsLocal, CalleesEntered, [Next]_vars,
                      NEW v \in Visited', MetAtHome(v), NEW o \in DefSite(v, Home(v)),
                      IsDescendable(o)
               PROVE  IF visited'[v] < request.depth
                      THEN entered(v, o)'
                      ELSE Noted("interproc-depth-limit", Callee(o))'
    BY StageOrder, MetAtHomeSteady DEF CalleesEntered
  <1>1. v \in Var /\ o \in Op
    BY DEF Visited, DefSite, DefMap
  <1>2. \A p \in ResultOps(Callee(o)) :
            p \in Op /\ FnOfOp(p) = Callee(o) /\ NodeOf(p) \in Node /\ Reads(p) \in SUBSET Var
    BY OpTypes DEF ResultOps
  <1>3. CASE visited'[v] = visited[v]
    <2>1. IF visited[v] < request.depth
          THEN entered(v, o)
          ELSE Noted("interproc-depth-limit", Callee(o))
      BY <1>1, <1>3 DEF CalleesEntered, Visited
    <2>2. Noted("interproc-depth-limit", Callee(o)) =>
            Noted("interproc-depth-limit", Callee(o))'
      BY NextStrengthens DEF Noted, Strengthens
    <2>3. entered(v, o) => entered(v, o)'
      <3> SUFFICES ASSUME entered(v, o), NEW p \in ResultOps(Callee(o))
                   PROVE  /\ Emitted(NodeOf(p))'
                          /\ AllReached(Reads(p), Callee(o), visited[v] + 1)'
        OBVIOUS
      <3>1. Emitted(NodeOf(p))'
        BY <1>2, InSliceStable DEF Emitted
      <3>2. AllReached(Reads(p), Callee(o), visited[v] + 1)'
        BY <1>1, <1>2, <1>3, AllReachedStable
      <3> QED
        BY <3>1, <3>2
    <2> HIDE DEF entered
    <2> QED
      BY <1>3, <2>1, <2>2, <2>3
  <1>4. CASE visited'[v] # visited[v]
    <2>1. PICK e \in work : /\ Pop(e) /\ Visit(e)
                            /\ e.var = v /\ e.fn = Home(v)
                            /\ visited'[v] = e.cr
      BY <1>1, <1>4, VisitedByPop
    <2>2. DefSite(e.var, e.fn) = {o} /\ e.cr \in Nat /\ request.depth \in Nat
      BY <1>1, <2>1, OneDefinition, EntryType, BoundsAssumption
    <2>3. EnterCallee(e) \/ CalleeTooDeep(e)
      BY <2>1, <2>2
         DEF Pop, SkipVisited, Visit, Ascend, StopAtBoundary, LeavesFunction, ThreadPhi,
             FollowDefinition, IsEntryMerge, IsDescendable
    <2>4. CASE CalleeTooDeep(e)
      <3>1. ~(e.cr < request.depth)
        BY <2>2, <2>4 DEF CalleeTooDeep
      <3>2. Noted("interproc-depth-limit", Callee(o))'
        BY <2>2, <2>4 DEF CalleeTooDeep, Noted
      <3> QED
        BY <2>1, <3>1, <3>2
    <2>5. CASE EnterCallee(e)
      <3> DEFINE body  == ResultOps(Callee(o))
                 nodes == {NodeOf(p) : p \in body} \ Scaffolding
      <3>1. /\ e.cr < request.depth
            /\ included' = Reasoned(Reasoned(included, {NodeOf(o)}, DefReason(e)),
                                    nodes, "callee")
            /\ ReadsOf(body, e.cr + 1) \subseteq work'
        BY <2>2, <2>5 DEF EnterCallee, DescendedOps
      <3>2. DefReason(e) \in Reason \ {"none"} /\ "callee" \in Reason \ {"none"}
        BY DEF DefReason, Reason
      <3>3. ASSUME NEW p \in body PROVE Emitted(NodeOf(p))'
        <4>1. NodeOf(p) \in nodes => InSlice(NodeOf(p))'
          BY <1>2, <3>1, <3>2, ReasonedTwiceIn
        <4> QED
          BY <4>1 DEF Emitted
      <3>4. ASSUME NEW p \in body
            PROVE  AllReached(Reads(p), Callee(o), visited[v] + 1)'
        <4>1. PICK c \in Nat : c = e.cr + 1
          BY <2>2
        <4>2. AllReached(Reads(p), Callee(o), c)'
          BY <1>2, <3>1, <4>1, ReadsOfReached
        <4>3. (visited[v] + 1)' = c
          BY <2>1, <4>1
        <4> QED
          BY <4>2, <4>3 DEF AllReached, Reached
      <3> QED
        BY <2>1, <3>1, <3>3, <3>4
    <2> QED
      BY <2>3, <2>4, <2>5
  <1> QED
    BY <1>3, <1>4

\* A call that defines something the slice depends on is entered, or the slice
\* says in a note that the budget does not reach it.  The exceptions are those of
\* EveryDefinitionIsFollowed.
THEOREM EveryCalleeIsEntered == Spec => []CalleesEntered
  <1>1. Init => CalleesEntered
    BY NoneVisited DEF CalleesEntered
  <1> QED
    BY <1>1, InitType, NextType, InitLocal, NextLocal, NextCallees, PTL DEF Spec

\* The step that ascends from a formal reaches every callsite.
LEMMA AscendEnters ==
    ASSUME TypeOK, NEW e \in work, Ascend(e), NEW o \in Callsites[e.fn]
    PROVE  LET actual == Actual(o, NameOf(e.var))
           IN  /\ InSlice(NodeOf(o))'
               /\ \A g \in ModifierGuards[FnOfOp(o)] :
                     InSlice(g)' /\ AllReached(NodeReads(g), FnOf(g), 0)'
               /\ actual # NoVar =>
                     Pushes({actual}, FnOfOp(o), e.cr + 1) \subseteq work'
  <1> DEFINE sites  == Callsites[e.fn]
             at     == {NodeOf(p) : p \in sites}
             guards == UNION {ModifierGuards[f] : f \in {FnOfOp(p) : p \in sites}}
  <1>1. /\ included' = Reasoned(Reasoned(included, at, "callee"), guards, "modifier-guard")
        /\ Pushes(Passed(o, NameOf(e.var)), FnOfOp(o), e.cr + 1) \subseteq work'
        /\ SeedReads(guards) \subseteq work'
    BY DEF Ascend
  <1>2. "modifier-guard" \in Reason \ {"none"} /\ "callee" \in Reason \ {"none"}
    BY DEF Reason
  <1>3. NodeOf(o) \in Node /\ NodeOf(o) \in at
    BY EntryType, CallsitesType
  <1>4. \A g \in ModifierGuards[FnOfOp(o)] : g \in Node /\ g \in guards
    BY EntryType, CallsitesType, ModifierGuardsType
  <1>5. \A n \in Node : n \in at \cup guards => InSlice(n)'
    BY <1>1, <1>2, ReasonedTwiceIn
  <1>6. Actual(o, NameOf(e.var)) # NoVar =>
            {Actual(o, NameOf(e.var))} = Passed(o, NameOf(e.var))
    BY DEF Passed
  <1> HIDE DEF at, guards
  <1>7. \A g \in ModifierGuards[FnOfOp(o)] : AllReached(NodeReads(g), FnOf(g), 0)'
    BY <1>1, <1>4, SeedReadsReached
  <1> QED
    BY <1>1, <1>3, <1>4, <1>5, <1>6, <1>7

LEMMA NextCallers ==
    ASSUME TypeOK, WorkIsLocal, CallersEntered, [Next]_vars PROVE CallersEntered'
  <1> DEFINE entered(v, o) ==
        LET actual == Actual(o, NameOf(v))
        IN  /\ InSlice(NodeOf(o))
            /\ \A g \in ModifierGuards[FnOfOp(o)] :
                  InSlice(g) /\ AllReached(NodeReads(g), FnOf(g), 0)
            /\ actual # NoVar => Reached(actual, FnOfOp(o), visited[v] + 1)
  <1> SUFFICES ASSUME NEW v \in Visited', StartedAtHome(v),
                      \A d \in DefSite(v, Home(v)) : IsEntryMerge(d),
                      NameOf(v) \in Formals(Home(v)),
                      visited'[v] < request.depth,
                      NEW o \in Callsites[Home(v)]
               PROVE  entered(v, o)'
    BY StageOrder, MetAtHomeSteady DEF CallersEntered
  <1> DEFINE actual == Actual(o, NameOf(v))
  <1>1. /\ v \in Var /\ NodeOf(o) \in Node
        /\ actual \in Var \cup {NoVar}
        /\ ModifierGuards[FnOfOp(o)] \subseteq Node
    <2>1. v \in Var
      BY DEF Visited
    <2> QED
      BY <2>1, CallsitesType, NameTypes, OpTypes, ModifierGuardsType DEF Callsites
  <1>2. CASE visited'[v] = visited[v]
    <2>1. entered(v, o)
      BY <1>1, <1>2 DEF CallersEntered, Visited
    <2>2. InSlice(NodeOf(o))' /\ \A g \in ModifierGuards[FnOfOp(o)] : InSlice(g)'
      BY <1>1, <2>1, InSliceStable
    <2>3. ASSUME actual # NoVar PROVE Reached(actual, FnOfOp(o), visited[v] + 1)'
      <3>1. AllReached({actual}, FnOfOp(o), visited[v] + 1)
        BY <2>1, <2>3 DEF AllReached
      <3>2. AllReached({actual}, FnOfOp(o), visited[v] + 1)'
        BY <1>1, <1>2, <2>3, <3>1, AllReachedStable
      <3> QED
        BY <3>2 DEF AllReached
    <2>4. ASSUME NEW g \in ModifierGuards[FnOfOp(o)]
          PROVE  AllReached(NodeReads(g), FnOf(g), 0)'
      <3>1. NodeReads(g) \in SUBSET Var
        BY <1>1, OpTypes DEF NodeReads, OpsOf
      <3>2. AllReached(NodeReads(g), FnOf(g), 0)
        BY <2>1
      <3> QED
        BY <3>1, <3>2, ReachedStable DEF AllReached
    <2> QED
      BY <2>2, <2>3, <2>4
  <1>3. CASE visited'[v] # visited[v]
    <2>1. PICK e \in work : /\ Pop(e) /\ Visit(e)
                            /\ e.var = v /\ e.fn = Home(v)
                            /\ visited'[v] = e.cr
      BY <1>1, <1>3, VisitedByPop, FormalsReadAtHome DEF MetAtHome
    <2>2. Ascend(e)
      BY <2>1
         DEF Pop, SkipVisited, Visit, StopAtBoundary, CanAscend, ThreadPhi,
             FollowDefinition, EnterCallee, CalleeTooDeep, IsEntryMerge, IsDescendable
    <2>3. /\ InSlice(NodeOf(o))'
          /\ \A g \in ModifierGuards[FnOfOp(o)] :
                InSlice(g)' /\ AllReached(NodeReads(g), FnOf(g), 0)'
          /\ actual # NoVar => Pushes({actual}, FnOfOp(o), e.cr + 1) \subseteq work'
      BY <2>1, <2>2, AscendEnters
    <2>4. ASSUME actual # NoVar PROVE Reached(actual, FnOfOp(o), visited[v] + 1)'
      <3>1. PICK c \in Nat : c = e.cr + 1
        BY EntryType, BoundsAssumption
      <3>2. AllReached({actual}, FnOfOp(o), c)'
        BY <2>3, <2>4, <3>1, PushedReached
      <3>3. (visited[v] + 1)' = c
        BY <2>1, <3>1
      <3> QED
        BY <3>2, <3>3 DEF AllReached, Reached
    <2> QED
      BY <2>3, <2>4
  <1> QED
    BY <1>2, <1>3

\* A formal parameter the slice depends on leads, while the budget lasts, to
\* every callsite of its function: the callsite and the modifier guards of the
\* caller are in the slice, and what the guards read and the argument passed are
\* followed.  It is so of every formal but those that a criterion on an
\* ENTRYPOINT node starts from in another function.
THEOREM EveryCallerIsEntered == Spec => []CallersEntered
  <1>1. Init => CallersEntered
    BY NoneVisited DEF CallersEntered
  <1> QED
    BY <1>1, InitType, NextType, InitLocal, NextLocal, NextCallers, PTL DEF Spec

-----------------------------------------------------------------------------
(* Every external call is handled before storage is stitched.              *)

HandledCall(o) ==
    IF Callee(o) = NoFn
    THEN Noted("cross-contract-unresolved", NoFn)
    ELSE \A p \in ResultOps(Callee(o)) :
            \/ NodeOf(p) \in Scaffolding
            \/ InSlice(NodeOf(p)) /\ AllReached(Reads(p), Callee(o), 0)

SeenHandled == \A o \in xcSeen : HandledCall(o)

\* The budget that was used went to the calls that were entered.
Entered == {o \in xcSeen : Callee(o) # NoFn}

UsedByEntered == xcUsed = Cardinality(Entered)

\* A call that is left over was noted, and the budget is spent.
LeftOver == Noted("cross-contract-depth-limit", NoFn) /\ xcUsed = XContractDepth

\* Between the descents and the first storage round nothing changes.
CrossedSettled ==
    request.cross /\ stage = "crossed" /\ round = 0 =>
        /\ Saturated
        /\ Unhandled # {} => LeftOver

\* A step that handles calls takes what flows out of their callees, or notes
\* that there is no callee, or that the budget is spent.
LEMMA CrossContractHandles ==
    ASSUME TypeOK, CrossContractStep
    PROVE  \E H \in SUBSET Unhandled :
              /\ xcSeen' = xcSeen \cup H
              /\ \A o \in H : HandledCall(o)'
              /\ xcUsed' = xcUsed + Cardinality(Charged(H))
              /\ H # Unhandled => LeftOver'
              /\ stage' = "crossed" => included' = included /\ work' = {}
  <1> DEFINE entered(H) == {o \in H : Callee(o) # NoFn}
             body(H)    == PulledOps(entered(H))
             nodes(H)   == {NodeOf(p) : p \in body(H)}
  <1>1. PICK H \in SUBSET Unhandled :
              /\ xcSeen' = xcSeen \cup H
              /\ xcUsed' = xcUsed + Cardinality(Charged(H))
              /\ H # Unhandled => Cardinality(Charged(H)) = XContractDepth - xcUsed
              /\ included' = Reasoned(included, nodes(H), "callee")
              /\ work' = ReadsOf(body(H), 0)
              /\ {<<"cross-contract-unresolved", NoFn>> : o \in H \ entered(H)} \subseteq notes'
              /\ {<<"cross-contract-depth-limit", NoFn>> : o \in Unhandled \ H} \subseteq notes'
              /\ stage' = IF body(H) = {} THEN "crossed" ELSE "guarded"
    BY DEF CrossContractStep
  <1>2. ASSUME NEW o \in H, Callee(o) = NoFn PROVE HandledCall(o)'
    BY <1>1, <1>2 DEF HandledCall, Noted
  <1>3. ASSUME NEW o \in H, Callee(o) # NoFn, NEW p \in ResultOps(Callee(o)),
               NodeOf(p) \notin Scaffolding
        PROVE  InSlice(NodeOf(p))' /\ AllReached(Reads(p), Callee(o), 0)'
    <2>1. p \in body(H) /\ p \in Op /\ FnOfOp(p) = Callee(o)
      BY <1>3 DEF PulledOps, ResultOps
    <2>2. NodeOf(p) \in Node /\ "callee" \in Reason \ {"none"}
      BY <2>1, OpTypes DEF Reason
    <2>3. InSlice(NodeOf(p))'
      BY <1>1, <2>1, <2>2, ReasonedIn
    <2>4. AllReached(Reads(p), FnOfOp(p), 0)'
      BY <1>1, <2>1, ReadsOfReached
    <2> QED
      BY <2>1, <2>3, <2>4
  <1>4. \A o \in H : HandledCall(o)'
    BY <1>2, <1>3 DEF HandledCall
  <1>5. H # Unhandled => LeftOver'
    <2>1. xcUsed \in Nat
      BY BoundsAssumption DEF SliceTypeOK
    <2>2. H # Unhandled => xcUsed' = XContractDepth
      BY <1>1, <2>1, BoundsAssumption
    <2>3. H # Unhandled => <<"cross-contract-depth-limit", NoFn>> \in notes'
      BY <1>1
    <2> QED
      BY <2>2, <2>3 DEF Noted, LeftOver
  <1>6. ASSUME stage' = "crossed" PROVE included' = included /\ work' = {}
    <2>1. body(H) = {}
      BY <1>1, <1>6
    <2>2. included' = Reasoned(included, {}, "callee") /\ included \in [Node -> Reason]
      BY <1>1, <2>1 DEF SliceTypeOK
    <2> QED
      BY <1>1, <2>1, <2>2 DEF Reasoned, ReadsOf
  <1> QED
    BY <1>1, <1>4, <1>5, <1>6

LEMMA NextSeen == TypeOK /\ SeenHandled /\ [Next]_vars => SeenHandled'
  <1> SUFFICES ASSUME TypeOK, SeenHandled, [Next]_vars, NEW o \in xcSeen'
               PROVE  HandledCall(o)'
    BY DEF SeenHandled
  <1>1. CASE o \in xcSeen
    <2>1. HandledCall(o)
      BY <1>1 DEF SeenHandled
    <2>2. CASE Callee(o) = NoFn
      BY <2>1, <2>2, NextStrengthens DEF HandledCall, Noted, Strengthens
    <2>3. ASSUME NEW p \in ResultOps(Callee(o)), InSlice(NodeOf(p)),
                 AllReached(Reads(p), Callee(o), 0)
          PROVE  InSlice(NodeOf(p))' /\ AllReached(Reads(p), Callee(o), 0)'
      <3>1. NodeOf(p) \in Node /\ Reads(p) \in SUBSET Var
        BY OpTypes DEF ResultOps
      <3> QED
        BY <2>3, <3>1, InSliceStable, ReachedStable DEF AllReached
    <2> QED
      BY <2>1, <2>2, <2>3 DEF HandledCall
  <1>2. CASE o \notin xcSeen
    <2>1. CrossContractStep
      BY <1>2 DEF Next, Pop, SkipVisited, Visit, Ascend, StopAtBoundary, ThreadPhi,
                  FollowDefinition, EnterCallee, CalleeTooDeep, ControlClosure,
                  IncludeModifierGuards, StorageClosureStep, NoCrossContract,
                  Finish, Terminating, crossVars, vars
    <2> QED
      BY <1>2, <2>1, CrossContractHandles
  <1> QED
    BY <1>1, <1>2

LEMMA NextUsed == TypeOK /\ UsedByEntered /\ [Next]_vars => UsedByEntered'
  <1> SUFFICES ASSUME TypeOK, UsedByEntered, [Next]_vars PROVE UsedByEntered'
    OBVIOUS
  <1>1. CASE CrossContractStep
    <2>1. PICK H \in SUBSET Unhandled :
                /\ xcSeen' = xcSeen \cup H
                /\ xcUsed' = xcUsed + Cardinality(Charged(H))
      BY <1>1, CrossContractHandles
    <2>2. /\ Entered' = Entered \cup Charged(H)
          /\ Entered \cap Charged(H) = {}
      BY <2>1 DEF Entered, Charged, Unhandled
    <2>3. IsFiniteSet(Entered) /\ IsFiniteSet(Charged(H))
      <3>1. Entered \in SUBSET Op /\ Charged(H) \in SUBSET Op
        BY DEF Entered, Charged, Unhandled, SliceTypeOK
      <3> QED
        BY <3>1, FiniteAssumption, FS_Subset
    <2>4. Cardinality(Entered \cup Charged(H)) = Cardinality(Entered) + Cardinality(Charged(H))
      <3>1. Cardinality(Entered \cap Charged(H)) = 0
        BY <2>2, FS_EmptySet
      <3>2. Cardinality(Entered) \in Nat /\ Cardinality(Charged(H)) \in Nat
        BY <2>3, FS_CardinalityType
      <3>3. Cardinality(Entered \cup Charged(H))
              = Cardinality(Entered) + Cardinality(Charged(H)) - Cardinality(Entered \cap Charged(H))
        BY <2>3, FS_Union
      <3> QED
        BY <3>1, <3>2, <3>3
    <2> QED
      BY <2>1, <2>2, <2>4 DEF UsedByEntered
  <1>2. CASE UNCHANGED crossVars
    BY <1>2 DEF crossVars, UsedByEntered, Entered
  <1> QED
    BY <1>1, <1>2
       DEF Next, Pop, SkipVisited, Visit, Ascend, StopAtBoundary, ThreadPhi,
           FollowDefinition, EnterCallee, CalleeTooDeep, ControlClosure,
           IncludeModifierGuards, StorageClosureStep, NoCrossContract,
           Finish, Terminating, crossVars, vars

LEMMA NextSettled == TypeOK /\ CrossedSettled /\ [Next]_vars => CrossedSettled'
  <1> SUFFICES ASSUME TypeOK, CrossedSettled, [Next]_vars,
                      request.cross, stage' = "crossed", round' = 0
               PROVE  /\ Saturated'
                      /\ Unhandled' # {} => LeftOver'
    BY StageOrder DEF CrossedSettled
  <1>1. CASE CrossContractStep
    <2>1. PICK H \in SUBSET Unhandled :
                /\ xcSeen' = xcSeen \cup H
                /\ H # Unhandled => LeftOver'
                /\ included' = included /\ work' = {}
      BY <1>1, CrossContractHandles
    <2>2. NewGuards = {}
      BY <1>1 DEF CrossContractStep, Saturated
    <2>3. Saturated'
      BY <2>1, <2>2 DEF Saturated, NewGuards, Slice, InSlice
    <2>4. Unhandled' = Unhandled \ H
      BY <2>1 DEF Unhandled, InSlice
    <2> QED
      BY <2>1, <2>3, <2>4
  <1>2. CASE stage = "crossed"
    <2>1. ASSUME round = 0 PROVE UNCHANGED vars
      <3>1. Saturated /\ work = {} /\ NewGuards = {}
        BY <1>2, <2>1 DEF CrossedSettled, Saturated
      <3>2. ~StorageClosureStep
        BY <2>1 DEF StorageClosureStep
      <3> QED
        BY <1>2, <3>1, <3>2
           DEF Next, ControlClosure, IncludeModifierGuards, CrossContractStep,
               NoCrossContract, Finish, Terminating
    <2>2. round = 0
      <3>1. round \in Nat
        BY BoundsAssumption DEF SliceTypeOK, Request
      <3>2. CASE StorageClosureStep
        BY <3>1, <3>2 DEF StorageClosureStep
      <3>3. CASE ~StorageClosureStep
        BY <3>3 DEF Next, Pop, SkipVisited, Visit, Ascend, StopAtBoundary, ThreadPhi,
                    FollowDefinition, EnterCallee, CalleeTooDeep, ControlClosure,
                    IncludeModifierGuards, CrossContractStep, NoCrossContract,
                    Finish, Terminating, storageVars, vars
      <3> QED
        BY <3>2, <3>3
    <2>3. UNCHANGED vars
      BY <2>1, <2>2
    <2>4. /\ Saturated
          /\ Unhandled # {} => LeftOver
      BY <1>2, <2>2 DEF CrossedSettled
    <2> QED
      BY <2>3, <2>4 DEF vars, Saturated, NewGuards, Slice, InSlice, Unhandled, LeftOver, Noted
  <1> QED
    BY <1>1, <1>2
       DEF Next, Pop, SkipVisited, Visit, Ascend, StopAtBoundary, ThreadPhi,
           FollowDefinition, EnterCallee, CalleeTooDeep, ControlClosure,
           IncludeModifierGuards, NoCrossContract, StorageClosureStep, Finish,
           Terminating, vars

\* With cross_contract, when the descents are over every external call of the
\* slice has been entered, and then what flows out of its callee is in the slice
\* and followed with the whole budget, or is noted: as unresolved, or as over
\* the budget, and then the whole of it went to calls that were entered.
THEOREM ExternalCallsAreHandled == Spec => []CallsHandledBeforeStitching
  <1>1. Init => SeenHandled /\ UsedByEntered /\ CrossedSettled
    <2>1. Init => Entered = {}
      BY DEF Init, Entered
    <2> QED
      BY <2>1, FS_EmptySet DEF Init, SeenHandled, UsedByEntered, CrossedSettled
  <1>2. SeenHandled /\ UsedByEntered /\ CrossedSettled => CallsHandledBeforeStitching
    BY DEF SeenHandled, HandledCall, UsedByEntered, Entered, LeftOver, CrossedSettled,
           CallsHandledBeforeStitching
  <1> QED
    BY <1>1, <1>2, InitType, NextType, NextSeen, NextUsed, NextSettled, PTL DEF Spec

-----------------------------------------------------------------------------
(* The reference: LeastClosed is what it is called.                        *)

\* There are finitely many facts.
LEMMA FactsAreFinite == IsFiniteSet(Fact)
  <1>1. IsFiniteSet(Fn) /\ IsFiniteSet(Node) /\ IsFiniteSet(Var)
    BY FiniteAssumption
  <1>2. IsFiniteSet(0..MaxDepth)
    <2>1. 0 \in Int /\ MaxDepth \in Int
      BY BoundsAssumption
    <2> QED
      BY <2>1, FS_Interval
  <1>3. IsFiniteSet({"node"} \X Node \X Fn \X {0})
    <2> DEFINE pairs == Node \X Fn
               facts == {"node"} \X Node \X Fn \X {0}
               f == [p \in pairs |-> <<"node", p[1], p[2], 0>>]
    <2>1. IsFiniteSet(pairs)
      BY <1>1, FS_Product
    <2>2. f \in Surjection(pairs, facts)
      <3>1. f \in [pairs -> facts]
        OBVIOUS
      <3>2. ASSUME NEW x \in facts PROVE \E p \in pairs : f[p] = x
        <4>1. PICK n \in Node, g \in Fn : x = <<"node", n, g, 0>>
          OBVIOUS
        <4>2. <<n, g>> \in pairs /\ f[<<n, g>>] = x
          BY <4>1
        <4> QED
          BY <4>2
      <3> QED
        BY <3>1, <3>2 DEF Surjection
    <2> HIDE DEF pairs, facts, f
    <2>3. IsFiniteSet(facts)
      BY <2>1, <2>2, FS_Surjection
    <2> QED
      BY <2>3 DEF facts
  <1>4. IsFiniteSet({"var"} \X Var \X Fn \X (0..MaxDepth))
    <2> DEFINE pairs == (Var \X Fn) \X (0..MaxDepth)
               facts == {"var"} \X Var \X Fn \X (0..MaxDepth)
               f == [p \in pairs |-> <<"var", p[1][1], p[1][2], p[2]>>]
    <2>1. IsFiniteSet(pairs)
      <3>1. IsFiniteSet(Var \X Fn)
        BY <1>1, FS_Product
      <3> QED
        BY <1>2, <3>1, FS_Product
    <2>2. f \in Surjection(pairs, facts)
      <3>1. f \in [pairs -> facts]
        OBVIOUS
      <3>2. ASSUME NEW x \in facts PROVE \E p \in pairs : f[p] = x
        <4>1. PICK v \in Var, g \in Fn, c \in 0..MaxDepth : x = <<"var", v, g, c>>
          OBVIOUS
        <4>2. <<<<v, g>>, c>> \in pairs /\ f[<<<<v, g>>, c>>] = x
          BY <4>1
        <4> QED
          BY <4>2
      <3> QED
        BY <3>1, <3>2 DEF Surjection
    <2> HIDE DEF pairs, facts, f
    <2>3. IsFiniteSet(facts)
      BY <2>1, <2>2, FS_Surjection
    <2> QED
      BY <2>3 DEF facts
  <1> QED
    BY <1>3, <1>4, FS_Union DEF Fact

\* The sets that hold what was found and are closed but for what was expanded.
Completions(found, step) ==
    {S \in SUBSET Fact :
        /\ found.all \subseteq S
        /\ \A x \in found.new : step[x] \subseteq S
        /\ \A x \in S \ found.all : step[x] \subseteq S}

LeastCompletion(found, step) == {x \in Fact : \A S \in Completions(found, step) : x \in S}

\* What the last facts found lead to that was not found before.
FoundNext(found, step) == (UNION {step[x] : x \in found.new}) \ found.all

Expanded(found, step) ==
    [all |-> found.all \cup FoundNext(found, step), new |-> FoundNext(found, step)]

LEMMA ExpandedType ==
    ASSUME NEW step \in [Fact -> SUBSET Fact], NEW found \in Expansion
    PROVE  FoundNext(found, step) \in SUBSET Fact /\ Expanded(found, step) \in Expansion
  BY DEF FoundNext, Expanded, Expansion

\* An expansion leaves the completions as they are.
LEMMA SameCompletions ==
    ASSUME NEW step \in [Fact -> SUBSET Fact], NEW found \in Expansion
    PROVE  Completions(Expanded(found, step), step) = Completions(found, step)
  <1> DEFINE next == FoundNext(found, step)
             more == Expanded(found, step)
  <1>1. more.all = found.all \cup next /\ more.new = next
    BY DEF Expanded
  <1>2. \A x \in found.new : step[x] \subseteq found.all \cup next
    BY DEF FoundNext
  <1>3. \A y \in next : \E x \in found.new : y \in step[x]
    BY DEF FoundNext
  <1>4. next \cap found.all = {}
    BY DEF FoundNext
  <1> HIDE DEF next, more
  <1>5. ASSUME NEW S \in Completions(more, step) PROVE S \in Completions(found, step)
    BY <1>1, <1>2, <1>5 DEF Completions
  <1>6. ASSUME NEW S \in Completions(found, step) PROVE S \in Completions(more, step)
    <2>1. next \subseteq S
      BY <1>3, <1>6 DEF Completions
    <2> QED
      BY <1>1, <1>4, <1>6, <2>1 DEF Completions
  <1> QED
    BY <1>5, <1>6 DEF more

LEMMA NothingLeft ==
    ASSUME NEW step \in [Fact -> SUBSET Fact], NEW found \in Expansion, found.new = {}
    PROVE  LeastCompletion(found, step) = found.all
  <1>1. found.all \in Completions(found, step) /\ found.all \subseteq Fact
    BY DEF Completions, Expansion
  <1>2. \A S \in Completions(found, step) : found.all \subseteq S
    BY DEF Completions
  <1> QED
    BY <1>1, <1>2 DEF LeastCompletion

\* The equation that Closure stands for.
Unfolds(c, step) ==
    c = [found \in Expansion |->
           IF found.new = {} THEN found.all
           ELSE LET next == (UNION {step[x] : x \in found.new}) \ found.all
                IN  c[[all |-> found.all \cup next, new |-> next]]]

LEMMA ClosureUnfolds ==
    ASSUME NEW step \in [Fact -> SUBSET Fact]
    PROVE  Unfolds(Closure(step), step)
  <1> DEFINE least == [found \in Expansion |-> LeastCompletion(found, step)]
  <1>1. Unfolds(least, step)
    <2>1. ASSUME NEW found \in Expansion
          PROVE  least[found] =
                    IF found.new = {} THEN found.all ELSE least[Expanded(found, step)]
      <3>1. LeastCompletion(Expanded(found, step), step) = LeastCompletion(found, step)
        BY SameCompletions DEF LeastCompletion
      <3> QED
        BY <3>1, NothingLeft, ExpandedType
    <2> HIDE DEF least
    <2>2. \A found \in Expansion :
             least[found] =
                IF found.new = {} THEN found.all
                ELSE LET next == (UNION {step[x] : x \in found.new}) \ found.all
                     IN  least[[all |-> found.all \cup next, new |-> next]]
      BY <2>1 DEF Expanded, FoundNext
    <2>3. least = [found \in Expansion |-> least[found]]
      BY DEF least
    <2> QED
      BY <2>2, <2>3, Zenon DEF Unfolds
  <1> HIDE DEF least
  <1>2. \E c : Unfolds(c, step)
    BY <1>1
  <1> QED
    BY <1>2 DEF Closure, Unfolds

\* A set of numbers has a least one.
LEMMA LeastNumber ==
    ASSUME NEW S \in SUBSET Nat, S # {}
    PROVE  \E k \in S : \A j \in S : k <= j
  <1>1. PICK k \in S : \A j \in S : ~ (<<j, k>> \in OpToRel(<, Nat))
    BY WFMin, NatLessThanWellFounded, Zenon
  <1>2. \A j \in S : <<j, k>> \in Nat \X Nat
    OBVIOUS
  <1>3. \A j \in S : ~ (j < k)
    BY <1>1, <1>2 DEF OpToRel
  <1> QED
    BY <1>3

\* How many facts were not found.
Left(found) == Cardinality(Fact \ found.all)

LEMMA LeftType == \A found \in Expansion : Left(found) \in Nat
  <1>1. ASSUME NEW found \in Expansion PROVE IsFiniteSet(Fact \ found.all)
    BY FactsAreFinite, FS_Subset
  <1> QED
    BY <1>1, FS_CardinalityType DEF Left

\* An expansion that finds something leaves less to be found.
LEMMA ExpandedLeft ==
    ASSUME NEW step \in [Fact -> SUBSET Fact], NEW found \in Expansion,
           FoundNext(found, step) # {}
    PROVE  Left(Expanded(found, step)) < Left(found)
  <1> DEFINE next == FoundNext(found, step)
             before == Fact \ found.all
             after == Fact \ (found.all \cup next)
  <1>1. next \in SUBSET Fact /\ next \cap found.all = {} /\ next # {}
    BY ExpandedType DEF FoundNext
  <1>2. after \subseteq before /\ after # before
    BY <1>1
  <1>3. IsFiniteSet(before) /\ IsFiniteSet(after)
    BY FactsAreFinite, FS_Subset
  <1>4. Cardinality(before) \in Nat /\ Cardinality(after) \in Nat
    BY <1>3, FS_CardinalityType
  <1> HIDE DEF before, after, next
  <1>5. Cardinality(after) <= Cardinality(before)
        /\ (Cardinality(before) = Cardinality(after) => before = after)
    BY <1>2, <1>3, FS_Subset
  <1>6. Cardinality(after) < Cardinality(before)
    BY <1>2, <1>4, <1>5
  <1> QED
    BY <1>6 DEF Left, Expanded, before, after, next

LEMMA ClosureIsLeast ==
    ASSUME NEW step \in [Fact -> SUBSET Fact], NEW start \in Expansion
    PROVE  Closure(step)[start] = LeastCompletion(start, step)
  <1> DEFINE Right(found) == Closure(step)[found] = LeastCompletion(found, step)
             Wrong == {found \in Expansion : ~Right(found)}
  <1>1. ASSUME NEW found \in Expansion
        PROVE  Closure(step)[found] =
                  IF found.new = {} THEN found.all ELSE Closure(step)[Expanded(found, step)]
    <2>1. Unfolds(Closure(step), step)
      BY ClosureUnfolds
    <2> QED
      BY <2>1 DEF Unfolds, Expanded, FoundNext
  <1>2. ASSUME NEW found \in Expansion, found.new = {} PROVE Right(found)
    BY <1>1, <1>2, NothingLeft
  <1>3. ASSUME NEW found \in Expansion, found.new # {}, Right(Expanded(found, step))
        PROVE  Right(found)
    BY <1>1, <1>3, SameCompletions DEF LeastCompletion
  <1>4. ASSUME NEW found \in Wrong
        PROVE  Expanded(found, step) \in Wrong /\ Left(Expanded(found, step)) < Left(found)
    <2>1. found.new # {} /\ Expanded(found, step) \in Wrong
      BY <1>2, <1>3, <1>4, ExpandedType
    <2>2. Expanded(found, step).new = FoundNext(found, step)
      BY DEF Expanded
    <2>3. FoundNext(found, step) # {}
      BY <1>2, <2>1, <2>2
    <2> QED
      BY <2>1, <2>3, ExpandedLeft
  <1>5. CASE Wrong = {}
    BY <1>5
  <1>6. CASE Wrong # {}
    <2> DEFINE Counts == {Left(found) : found \in Wrong}
    <2>1. Counts \in SUBSET Nat /\ Counts # {}
      BY <1>6, LeftType
    <2>2. PICK k \in Counts : \A j \in Counts : k <= j
      BY <2>1, LeastNumber
    <2>3. PICK found \in Wrong : k = Left(found)
      BY <2>2
    <2>4. Left(found) <= Left(Expanded(found, step))
      BY <1>4, <2>2, <2>3
    <2>5. Left(found) \in Nat /\ Left(Expanded(found, step)) \in Nat
      BY <1>4, LeftType
    <2> QED
      BY <1>4, <2>4, <2>5
  <1> QED
    BY <1>5, <1>6

\* LeastClosed holds the facts it starts from, is closed, and is contained in
\* every set like that.
LEMMA LeastClosedIsLeast ==
    ASSUME NEW step \in [Fact -> SUBSET Fact], NEW start \in SUBSET Fact
    PROVE  /\ LeastClosed(start, step) \in SUBSET Fact
           /\ start \subseteq LeastClosed(start, step)
           /\ \A x \in LeastClosed(start, step) : step[x] \subseteq LeastClosed(start, step)
           /\ \A S \in SUBSET Fact :
                 start \subseteq S /\ (\A x \in S : step[x] \subseteq S)
                    => LeastClosed(start, step) \subseteq S
  <1> DEFINE first == [all |-> start, new |-> start]
             D == LeastClosed(start, step)
             IsClosed(S) == start \subseteq S /\ \A x \in S : step[x] \subseteq S
  <1>1. first \in Expansion /\ first.all = start /\ first.new = start
    BY DEF Expansion
  <1>2. D = LeastCompletion(first, step)
    BY <1>1, ClosureIsLeast DEF LeastClosed
  <1> HIDE DEF first, D
  <1>3. \A S \in SUBSET Fact : S \in Completions(first, step) <=> IsClosed(S)
    BY <1>1 DEF Completions
  <1>4. \A x : x \in D <=> x \in Fact /\ \A S \in SUBSET Fact : IsClosed(S) => x \in S
    BY <1>2, <1>3 DEF LeastCompletion, Completions
  <1>5. D \in SUBSET Fact /\ start \subseteq D
    BY <1>4
  <1>6. ASSUME NEW x \in D, NEW y \in step[x] PROVE y \in D
    <2>1. y \in Fact
      BY <1>5
    <2>2. ASSUME NEW S \in SUBSET Fact, IsClosed(S) PROVE y \in S
      BY <1>4, <2>2
    <2> QED
      BY <1>4, <2>1, <2>2
  <1> QED
    BY <1>4, <1>5, <1>6 DEF D

-----------------------------------------------------------------------------
(* A slice is contained in every set of facts that is closed under the     *)
(* dependences.                                                            *)

\* The facts are facts.
LEMMA NodeFactType == \A n \in Node : NodeFact(n) \in Fact
  BY NodeTypes DEF NodeFact, Fact

LEMMA VarFactsType ==
    ASSUME NEW V \in SUBSET Var, NEW f \in Fn, NEW c \in 0..MaxDepth
    PROVE  VarFacts(V, f, c) \in SUBSET Fact
  BY DEF VarFacts, Fact

LEMMA NodeReadsType == \A n \in Node : NodeReads(n) \in SUBSET Var
  BY OpTypes DEF NodeReads, OpsOf

LEMMA NodeFactsType == ASSUME NEW S \in SUBSET Node PROVE NodeFacts(S) \in SUBSET Fact
  <1>1. 0 \in 0..MaxDepth
    BY BoundsAssumption
  <1>2. ASSUME NEW n \in S PROVE VarFacts(NodeReads(n), FnOf(n), 0) \in SUBSET Fact
    BY <1>1, NodeTypes, NodeReadsType, VarFactsType
  <1> QED
    BY <1>2, NodeFactType DEF NodeFacts

LEMMA OpFactsType ==
    ASSUME NEW o \in Op, NEW c \in 0..MaxDepth
    PROVE  OpFacts(o, c) \in SUBSET Fact
  BY OpTypes, NodeFactType, VarFactsType DEF OpFacts

LEMMA ResultOpsType == \A f : ResultOps(f) \in SUBSET Op
  BY DEF ResultOps

LEMMA DependsOnOfNodeType ==
    ASSUME NEW n \in Node
    PROVE  DependsOnOfNode(n) \in SUBSET Fact
  <1> DEFINE guards  == GuardsOf(n) \ Scaffolding
             writers == IF request.rounds = 0 THEN {}
                        ELSE UNION {WritersOf(sv) : sv \in StateRead(n)}
             callees == {Callee(o) : o \in {p \in OpsOf[n] : Kind(p) = "external"}} \ {NoFn}
             results == UNION {OpFacts(p, 0) : p \in UNION {ResultOps(f) : f \in callees}}
  <1>1. guards \cup writers \in SUBSET Node
    BY NodeTypes DEF WritersOf
  <1>2. NodeFacts(guards \cup writers) \in SUBSET Fact
    BY <1>1, NodeFactsType
  <1>3. results \in SUBSET Fact
    <2>1. 0 \in 0..MaxDepth
      BY BoundsAssumption
    <2>2. \A p \in UNION {ResultOps(f) : f \in callees} : OpFacts(p, 0) \in SUBSET Fact
      BY <2>1, ResultOpsType, OpFactsType
    <2> QED
      BY <2>2
  <1>4. DependsOnOfNode(n) = NodeFacts(guards \cup writers)
                               \cup (IF request.cross THEN results ELSE {})
    BY DEF DependsOnOfNode
  <1> QED
    BY <1>2, <1>3, <1>4

\* What a callsite passes, and what comes with it.
SiteFacts(o, v, c) ==
    {NodeFact(NodeOf(o))} \cup NodeFacts(ModifierGuards[FnOfOp(o)])
                          \cup VarFacts({Actual(o, NameOf(v))} \ {NoVar}, FnOfOp(o), c + 1)

\* A definition, without the callee that computes it.
DefinitionFacts(o, f, c) ==
    VarFacts(Reads(o), f, c)
      \cup {NodeFact(n) : n \in {m \in {NodeOf(o)} : Kind(o) # "phi"}}

\* DependsOnOfVar, one kind of fact at a time.
LEMMA VarDependences ==
    ASSUME NEW v, NEW f, NEW c, NEW x
    PROVE  x \in DependsOnOfVar(v, f, c) <=>
              \/ \E o \in DefSite(v, f) : ~IsEntryMerge(o) /\ x \in DefinitionFacts(o, f, c)
              \/ \E o \in DefSite(v, f) :
                    /\ IsDescendable(o) /\ c < request.depth
                    /\ \E p \in ResultOps(Callee(o)) : x \in OpFacts(p, c + 1)
              \/ /\ \A o \in DefSite(v, f) : IsEntryMerge(o)
                 /\ NameOf(v) \in Formals(f) /\ c < request.depth
                 /\ \E o \in Callsites[f] : x \in SiteFacts(o, v, c)
  <1> DEFINE def   == DefSite(v, f)
             calls == {o \in def : IsDescendable(o) /\ c < request.depth}
             sites == IF /\ \A o \in def : IsEntryMerge(o)
                         /\ NameOf(v) \in Formals(f) /\ c < request.depth
                      THEN Callsites[f] ELSE {}
             own    == UNION {DefinitionFacts(o, f, c) : o \in {p \in def : ~IsEntryMerge(p)}}
             inside == UNION {OpFacts(p, c + 1) :
                                p \in UNION {ResultOps(Callee(o)) : o \in calls}}
             above  == UNION {SiteFacts(o, v, c) : o \in sites}
  <1>1. DependsOnOfVar(v, f, c) = own \cup inside \cup above
    BY DEF DependsOnOfVar, DefinitionFacts, SiteFacts
  <1>2. x \in own <=>
           \E o \in DefSite(v, f) : ~IsEntryMerge(o) /\ x \in DefinitionFacts(o, f, c)
    OBVIOUS
  <1>3. x \in inside <=>
           \E o \in DefSite(v, f) :
              /\ IsDescendable(o) /\ c < request.depth
              /\ \E p \in ResultOps(Callee(o)) : x \in OpFacts(p, c + 1)
    OBVIOUS
  <1>4. x \in above <=>
           /\ \A o \in DefSite(v, f) : IsEntryMerge(o)
           /\ NameOf(v) \in Formals(f) /\ c < request.depth
           /\ \E o \in Callsites[f] : x \in SiteFacts(o, v, c)
    OBVIOUS
  <1> HIDE DEF own, inside, above
  <1> QED
    BY <1>1, <1>2, <1>3, <1>4

LEMMA DependsOnOfVarType ==
    ASSUME request \in Request, NEW v \in Var, NEW f \in Fn, NEW c \in 0..MaxDepth
    PROVE  DependsOnOfVar(v, f, c) \in SUBSET Fact
  <1>1. c < request.depth => c + 1 \in 0..MaxDepth
    BY BoundsAssumption DEF Request
  <1>2. ASSUME NEW o \in DefSite(v, f) PROVE DefinitionFacts(o, f, c) \in SUBSET Fact
    BY DefSiteType, OpTypes, NodeFactType, VarFactsType DEF DefinitionFacts
  <1>3. ASSUME NEW p \in Op, c < request.depth PROVE OpFacts(p, c + 1) \in SUBSET Fact
    BY <1>1, <1>3, OpFactsType
  <1>4. ASSUME NEW o \in Callsites[f], c < request.depth
        PROVE  SiteFacts(o, v, c) \in SUBSET Fact
    <2>1. o \in Op /\ NodeOf(o) \in Node /\ FnOfOp(o) \in Fn
      BY CallsitesType
    <2>2. {Actual(o, NameOf(v))} \ {NoVar} \in SUBSET Var
      BY <2>1, OpTypes, NameTypes
    <2>3. ModifierGuards[FnOfOp(o)] \in SUBSET Node
      BY <2>1, ModifierGuardsType
    <2> QED
      BY <1>1, <1>4, <2>1, <2>2, <2>3, NodeFactType, NodeFactsType, VarFactsType DEF SiteFacts
  <1> QED
    BY <1>2, <1>3, <1>4, VarDependences, ResultOpsType

LEMMA DependsOnType ==
    ASSUME request \in Request
    PROVE  [x \in Fact |-> DependsOn(x)] \in [Fact -> SUBSET Fact]
  <1>1. ASSUME NEW x \in Fact PROVE DependsOn(x) \in SUBSET Fact
    <2>1. CASE x \in {"node"} \X Node \X Fn \X {0}
      BY <2>1, DependsOnOfNodeType DEF DependsOn
    <2>2. CASE x \in {"var"} \X Var \X Fn \X (0..MaxDepth)
      BY <2>2, DependsOnOfVarType DEF DependsOn
    <2> QED
      BY <2>1, <2>2 DEF Fact
  <1> QED
    BY <1>1

LEMMA CriterionFactsType ==
    ASSUME request \in Request
    PROVE  CriterionFacts \in SUBSET Fact
  <1>1. request.node \in Node /\ FnOf(request.node) \in Fn /\ 0 \in 0..MaxDepth
    BY NodeTypes, BoundsAssumption DEF Request
  <1> QED
    BY <1>1, SeedsType, ModifierGuardsType, NodeFactType, NodeFactsType, VarFactsType
    DEF CriterionFacts

\* The fact an entry of the worklist stands for.
EntryFact(e) == <<"var", e.var, e.fn, e.cr>>

\* D is closed under the dependences of variables, and of nodes.
ClosedForVars(D) ==
    \A v \in Var, f \in Fn, c \in 0..MaxDepth :
        <<"var", v, f, c>> \in D => DependsOnOfVar(v, f, c) \subseteq D

ClosedForNodes(D) == \A n \in Node : NodeFact(n) \in D => DependsOnOfNode(n) \subseteq D

WorkIn(D) == \A e \in work : EntryFact(e) \in D

SliceIn(D) == \A n \in Node : InSlice(n) => NodeFact(n) \in D

\* What is pushed is in D if the facts are.
LEMMA PushesIn ==
    ASSUME NEW D, NEW V, NEW f, NEW c, VarFacts(V, f, c) \subseteq D
    PROVE  \A e \in Pushes(V, f, c) : EntryFact(e) \in D
  BY DEF Pushes, VarFacts, EntryFact

LEMMA ReadsOfIn ==
    ASSUME NEW D, NEW Os, NEW c, \A o \in Os : OpFacts(o, c) \subseteq D
    PROVE  \A e \in ReadsOf(Os, c) : EntryFact(e) \in D
  <1>1. ASSUME NEW o \in Os
        PROVE  \A e \in Pushes(Reads(o), FnOfOp(o), c) : EntryFact(e) \in D
    BY PushesIn DEF OpFacts
  <1> QED
    BY <1>1 DEF ReadsOf

LEMMA SeedReadsIn ==
    ASSUME NEW D, NEW S \in SUBSET Node, NodeFacts(S) \subseteq D
    PROVE  \A e \in SeedReads(S) : EntryFact(e) \in D
  <1>1. ASSUME NEW o \in OpsAt(S)
        PROVE  \A e \in Pushes(Reads(o), FnOfOp(o), 0) : EntryFact(e) \in D
    <2>1. o \in Op /\ NodeOf(o) \in S /\ FnOfOp(o) = FnOf(NodeOf(o))
      BY DEF OpsAt, FnOfOp
    <2>2. Reads(o) \subseteq NodeReads(NodeOf(o))
      BY <2>1 DEF NodeReads, OpsOf
    <2>3. VarFacts(NodeReads(NodeOf(o)), FnOf(NodeOf(o)), 0) \subseteq D
      BY <2>1 DEF NodeFacts
    <2>4. VarFacts(Reads(o), FnOfOp(o), 0) \subseteq D
      BY <2>1, <2>2, <2>3 DEF VarFacts
    <2> QED
      BY <2>4, PushesIn
  <1> QED
    BY <1>1 DEF SeedReads, ReadsOf

\* The nodes a step puts into the slice.
LEMMA NewlyIn ==
    ASSUME included \in [Node -> Reason], NEW S, NEW r \in Reason,
           included' = Reasoned(included, S, r), NEW n \in Node, InSlice(n)'
    PROVE  InSlice(n) \/ n \in S
  BY ReasonedStrengthens DEF InSlice

LEMMA NewlyInTwice ==
    ASSUME included \in [Node -> Reason], NEW S, NEW r \in Reason, NEW T, NEW q \in Reason,
           included' = Reasoned(Reasoned(included, S, r), T, q), NEW n \in Node, InSlice(n)'
    PROVE  InSlice(n) \/ n \in S \/ n \in T
  <1> DEFINE inc == Reasoned(included, S, r)
  <1>1. inc \in [Node -> Reason] /\ (inc[n] = included[n] \/ n \in S)
    BY ReasonedStrengthens
  <1> HIDE DEF inc
  <1>2. included' = Reasoned(inc, T, q)
    BY DEF inc
  <1>3. included'[n] = inc[n] \/ n \in T
    BY <1>1, <1>2, ReasonedStrengthens
  <1> QED
    BY <1>1, <1>3 DEF InSlice

\* What an entry in D depends on.
LEMMA EntryDependences ==
    ASSUME SliceTypeOK, NEW D, ClosedForVars(D), NEW e \in work, EntryFact(e) \in D
    PROVE  /\ \A o \in DefSite(e.var, e.fn) :
                 ~IsEntryMerge(o) =>
                    /\ VarFacts(Reads(o), e.fn, e.cr) \subseteq D
                    /\ Kind(o) # "phi" => NodeFact(NodeOf(o)) \in D
           /\ \A o \in DefSite(e.var, e.fn) :
                 IsDescendable(o) /\ e.cr < request.depth =>
                    \A p \in ResultOps(Callee(o)) : OpFacts(p, e.cr + 1) \subseteq D
           /\ LeavesFunction(e) /\ CanAscend(e) =>
                 \A o \in Callsites[e.fn] : SiteFacts(o, e.var, e.cr) \subseteq D
  <1>1. e.var \in Var /\ e.fn \in Fn /\ e.cr \in 0..MaxDepth
    BY EntryType, BoundsAssumption
  <1>2. DependsOnOfVar(e.var, e.fn, e.cr) \subseteq D
    BY <1>1 DEF ClosedForVars, EntryFact
  <1>3. ASSUME NEW o \in DefSite(e.var, e.fn), ~IsEntryMerge(o)
        PROVE  DefinitionFacts(o, e.fn, e.cr) \subseteq D
    BY <1>2, <1>3, VarDependences
  <1>4. \A o \in DefSite(e.var, e.fn) :
           ~IsEntryMerge(o) =>
              /\ VarFacts(Reads(o), e.fn, e.cr) \subseteq D
              /\ Kind(o) # "phi" => NodeFact(NodeOf(o)) \in D
    BY <1>3 DEF DefinitionFacts
  <1>5. ASSUME NEW o \in DefSite(e.var, e.fn), IsDescendable(o), e.cr < request.depth,
               NEW p \in ResultOps(Callee(o))
        PROVE  OpFacts(p, e.cr + 1) \subseteq D
    BY <1>2, <1>5, VarDependences
  <1>6. ASSUME LeavesFunction(e), CanAscend(e), NEW o \in Callsites[e.fn]
        PROVE  SiteFacts(o, e.var, e.cr) \subseteq D
    BY <1>2, <1>6, VarDependences DEF LeavesFunction, CanAscend
  <1> QED
    BY <1>4, <1>5, <1>6

LEMMA AscendIn ==
    ASSUME SliceTypeOK, NEW D, ClosedForVars(D), WorkIn(D), NEW e \in work, Ascend(e)
    PROVE  WorkIn(D)' /\ \A n \in Node : InSlice(n)' => InSlice(n) \/ NodeFact(n) \in D
  <1> DEFINE sites   == Callsites[e.fn]
             callers == {FnOfOp(o) : o \in sites}
             guards  == UNION {ModifierGuards[f] : f \in callers}
             passed(o) == Pushes(Passed(o, NameOf(e.var)), FnOfOp(o), e.cr + 1)
  <1>1. \A o \in sites : SiteFacts(o, e.var, e.cr) \subseteq D
    BY EntryDependences DEF Ascend, WorkIn
  <1>2. \A o \in sites : NodeFact(NodeOf(o)) \in D
    BY <1>1 DEF SiteFacts
  <1>3. guards \in SUBSET Node
    BY EntryType, CallsitesType, ModifierGuardsType
  <1>4. NodeFacts(guards) \subseteq D
    <2>1. \A o \in sites : NodeFacts(ModifierGuards[FnOfOp(o)]) \subseteq D
      BY <1>1 DEF SiteFacts
    <2> QED
      BY <2>1 DEF NodeFacts
  <1>5. ASSUME NEW o \in sites, NEW x \in passed(o) PROVE EntryFact(x) \in D
    <2>1. VarFacts(Passed(o, NameOf(e.var)), FnOfOp(o), e.cr + 1) \subseteq D
      BY <1>1 DEF SiteFacts, Passed
    <2> QED
      BY <2>1, PushesIn
  <1>6. /\ work' = (work \ {e}) \cup SeedReads(guards) \cup UNION {passed(o) : o \in sites}
        /\ included' = Reasoned(Reasoned(included, {NodeOf(o) : o \in sites}, "callee"),
                                guards, "modifier-guard")
    BY DEF Ascend
  <1>7. \A x \in SeedReads(guards) : EntryFact(x) \in D
    BY <1>3, <1>4, SeedReadsIn
  <1>8. WorkIn(D)'
    BY <1>5, <1>6, <1>7 DEF WorkIn
  <1>9. ASSUME NEW n \in Node, InSlice(n)' PROVE InSlice(n) \/ NodeFact(n) \in D
    <2>1. included \in [Node -> Reason] /\ "callee" \in Reason /\ "modifier-guard" \in Reason
      BY DEF SliceTypeOK, Reason
    <2>2. InSlice(n) \/ n \in {NodeOf(o) : o \in sites} \/ n \in guards
      BY <1>6, <1>9, <2>1, NewlyInTwice
    <2> QED
      BY <1>2, <1>4, <2>2 DEF NodeFacts
  <1> QED
    BY <1>8, <1>9

\* What is pushed when a definition is followed.
LEMMA DefinitionIn ==
    ASSUME SliceTypeOK, NEW D, ClosedForVars(D), WorkIn(D), NEW e \in work,
           NEW o \in DefSite(e.var, e.fn), ~IsEntryMerge(o)
    PROVE  \A x \in Pushes(Reads(o), e.fn, e.cr) : EntryFact(x) \in D
  <1>1. VarFacts(Reads(o), e.fn, e.cr) \subseteq D
    BY EntryDependences DEF WorkIn
  <1> QED
    BY <1>1, PushesIn

LEMMA EnterCalleeIn ==
    ASSUME SliceTypeOK, NEW D, ClosedForVars(D), WorkIn(D), NEW e \in work, EnterCallee(e)
    PROVE  WorkIn(D)' /\ \A n \in Node : InSlice(n)' => InSlice(n) \/ NodeFact(n) \in D
  <1>1. PICK o \in DefSite(e.var, e.fn) :
            LET body  == DescendedOps(o)
                nodes == {NodeOf(p) : p \in body} \ Scaffolding
            IN  /\ IsDescendable(o)
                /\ included' = Reasoned(Reasoned(included, {NodeOf(o)}, DefReason(e)),
                                        nodes, "callee")
                /\ work' = (work \ {e}) \cup Pushes(Reads(o), e.fn, e.cr)
                                        \cup ReadsOf(body, e.cr + 1)
    BY DEF EnterCallee
  <1> DEFINE body  == ResultOps(Callee(o))
             nodes == {NodeOf(p) : p \in body} \ Scaffolding
  <1>2. ~IsEntryMerge(o) /\ Kind(o) # "phi"
    BY <1>1 DEF IsDescendable, IsEntryMerge
  <1>3. \A p \in body : OpFacts(p, e.cr + 1) \subseteq D
    BY <1>1, EntryDependences DEF EnterCallee, WorkIn
  <1>4. \A x \in ReadsOf(body, e.cr + 1) : EntryFact(x) \in D
    BY <1>3, ReadsOfIn
  <1>5. WorkIn(D)'
    BY <1>1, <1>2, <1>4, DefinitionIn DEF DescendedOps, WorkIn
  <1>6. NodeFact(NodeOf(o)) \in D
    BY <1>2, EntryDependences DEF WorkIn
  <1>7. \A n \in nodes : NodeFact(n) \in D
    BY <1>3 DEF OpFacts
  <1>8. ASSUME NEW n \in Node, InSlice(n)' PROVE InSlice(n) \/ NodeFact(n) \in D
    <2>1. included \in [Node -> Reason] /\ "callee" \in Reason /\ DefReason(e) \in Reason
      BY DEF SliceTypeOK, Reason, DefReason
    <2>2. InSlice(n) \/ n \in {NodeOf(o)} \/ n \in nodes
      BY <1>1, <1>8, <2>1, NewlyInTwice DEF DescendedOps
    <2> QED
      BY <1>6, <1>7, <2>2
  <1> QED
    BY <1>5, <1>8

\* One iteration of the drain leads to dependences of what was there.
LEMMA PopIn ==
    ASSUME SliceTypeOK, NEW D, ClosedForVars(D), WorkIn(D), NEW e \in work, Pop(e)
    PROVE  WorkIn(D)' /\ \A n \in Node : InSlice(n)' => InSlice(n) \/ NodeFact(n) \in D
  <1>1. CASE SkipVisited(e) \/ StopAtBoundary(e)
    BY <1>1 DEF SkipVisited, StopAtBoundary, WorkIn, InSlice, sliceVars
  <1>2. CASE ThreadPhi(e)
    <2>1. PICK o \in DefSite(e.var, e.fn) :
              ~IsEntryMerge(o) /\ work' = (work \ {e}) \cup Pushes(Reads(o), e.fn, e.cr)
      BY <1>2 DEF ThreadPhi
    <2>2. WorkIn(D)'
      BY <2>1, DefinitionIn DEF WorkIn
    <2> QED
      BY <1>2, <2>2 DEF ThreadPhi, InSlice, sliceVars
  <1>3. CASE FollowDefinition(e) \/ CalleeTooDeep(e)
    <2>1. PICK o \in DefSite(e.var, e.fn) :
              /\ ~IsEntryMerge(o) /\ Kind(o) # "phi"
              /\ included' = Reasoned(included, {NodeOf(o)}, DefReason(e))
              /\ work' = (work \ {e}) \cup Pushes(Reads(o), e.fn, e.cr)
      BY <1>3 DEF FollowDefinition, CalleeTooDeep, IsEntryMerge, IsDescendable
    <2>2. WorkIn(D)'
      BY <2>1, DefinitionIn DEF WorkIn
    <2>3. NodeFact(NodeOf(o)) \in D
      BY <2>1, EntryDependences DEF WorkIn
    <2>4. included \in [Node -> Reason] /\ DefReason(e) \in Reason
      BY DEF SliceTypeOK, Reason, DefReason
    <2> QED
      BY <2>1, <2>2, <2>3, <2>4, NewlyIn
  <1> QED
    BY <1>1, <1>2, <1>3, AscendIn, EnterCalleeIn DEF Pop

\* What a node in D depends on.
LEMMA NodeDependences ==
    ASSUME NEW D, ClosedForNodes(D), NEW n \in Node, NodeFact(n) \in D
    PROVE  /\ NodeFacts(GuardsOf(n) \ Scaffolding) \subseteq D
           /\ request.rounds # 0 =>
                 \A sv \in StateRead(n) : NodeFacts(WritersOf(sv)) \subseteq D
           /\ request.cross =>
                 \A o \in OpsOf[n] : Kind(o) = "external" /\ Callee(o) # NoFn =>
                    \A p \in ResultOps(Callee(o)) : OpFacts(p, 0) \subseteq D
  <1> DEFINE guards  == GuardsOf(n) \ Scaffolding
             writers == IF request.rounds = 0 THEN {}
                        ELSE UNION {WritersOf(sv) : sv \in StateRead(n)}
             callees == {Callee(o) : o \in {p \in OpsOf[n] : Kind(p) = "external"}} \ {NoFn}
             results == UNION {OpFacts(p, 0) : p \in UNION {ResultOps(f) : f \in callees}}
  <1>1. DependsOnOfNode(n) = NodeFacts(guards \cup writers)
                               \cup (IF request.cross THEN results ELSE {})
    BY DEF DependsOnOfNode
  <1>2. NodeFacts(guards \cup writers) \subseteq D /\ (request.cross => results \subseteq D)
    BY <1>1 DEF ClosedForNodes
  <1>3. ASSUME NEW S, S \subseteq guards \cup writers PROVE NodeFacts(S) \subseteq D
    BY <1>2, <1>3 DEF NodeFacts
  <1>4. ASSUME request.rounds # 0, NEW sv \in StateRead(n) PROVE NodeFacts(WritersOf(sv)) \subseteq D
    <2>1. WritersOf(sv) \subseteq guards \cup writers
      BY <1>4
    <2> QED
      BY <1>3, <2>1
  <1>5. ASSUME request.cross, NEW o \in OpsOf[n], Kind(o) = "external", Callee(o) # NoFn,
               NEW p \in ResultOps(Callee(o))
        PROVE  OpFacts(p, 0) \subseteq D
    <2>1. Callee(o) \in callees
      BY <1>5
    <2>2. OpFacts(p, 0) \subseteq results
      BY <2>1
    <2> QED
      BY <1>2, <1>5, <2>2
  <1> QED
    BY <1>3, <1>4, <1>5

\* Including a set of nodes whole, of which D holds all facts.
LEMMA WholeIn ==
    ASSUME included \in [Node -> Reason], NEW D, SliceIn(D), NEW S \in SUBSET Node,
           NodeFacts(S) \subseteq D, NEW r \in Reason,
           included' = Reasoned(included, S, r), work' = SeedReads(S)
    PROVE  WorkIn(D)' /\ SliceIn(D)'
  <1>1. WorkIn(D)'
    BY SeedReadsIn DEF WorkIn
  <1>2. \A n \in S : NodeFact(n) \in D
    BY DEF NodeFacts
  <1> QED
    BY <1>1, <1>2, NewlyIn DEF SliceIn

LEMMA ControlClosureIn ==
    ASSUME SliceTypeOK, NEW D, ClosedForNodes(D), SliceIn(D), ControlClosure
    PROVE  WorkIn(D)' /\ SliceIn(D)'
  <1>1. NewGuards \in SUBSET Node
    BY NodeTypes DEF NewGuards, Slice
  <1>2. ASSUME NEW g \in NewGuards PROVE NodeFacts({g}) \subseteq D
    <2>1. PICK n \in Node : InSlice(n) /\ g \in GuardsOf(n) \ Scaffolding
      BY DEF NewGuards, Slice
    <2>2. NodeFacts(GuardsOf(n) \ Scaffolding) \subseteq D
      BY <2>1, NodeDependences DEF SliceIn
    <2> QED
      BY <2>1, <2>2 DEF NodeFacts
  <1>3. NodeFacts(NewGuards) \subseteq D
    BY <1>2 DEF NodeFacts
  <1>4. included \in [Node -> Reason] /\ "control-dep" \in Reason
    BY DEF SliceTypeOK, Reason
  <1> QED
    BY <1>1, <1>3, <1>4, WholeIn DEF ControlClosure

LEMMA IncludeModifierGuardsIn ==
    ASSUME SliceTypeOK, NEW D, SliceIn(D), IncludeModifierGuards,
           NodeFacts(ModifierGuards[FnOf(request.node)]) \subseteq D
    PROVE  WorkIn(D)' /\ SliceIn(D)'
  <1>1. included \in [Node -> Reason] /\ "modifier-guard" \in Reason
    BY DEF SliceTypeOK, Reason
  <1> QED
    BY <1>1, CriterionType, ModifierGuardsType, WholeIn DEF IncludeModifierGuards

LEMMA StorageClosureIn ==
    ASSUME SliceTypeOK, NEW D, ClosedForNodes(D), SliceIn(D), StorageClosureStep
    PROVE  WorkIn(D)' /\ SliceIn(D)'
  <1>1. NewWriters \in SUBSET Node /\ request.rounds # 0
    BY DEF NewWriters, WritersOf, StorageClosureStep, SliceTypeOK
  <1>2. ASSUME NEW w \in NewWriters PROVE NodeFacts({w}) \subseteq D
    <2>1. PICK n \in Node : InSlice(n) /\ \E sv \in StateRead(n) : w \in WritersOf(sv)
      BY DEF NewWriters, Unstitched, Slice
    <2>2. PICK sv \in StateRead(n) : w \in WritersOf(sv)
      BY <2>1
    <2>3. NodeFacts(WritersOf(sv)) \subseteq D
      BY <1>1, <2>1, NodeDependences DEF SliceIn
    <2> QED
      BY <2>2, <2>3 DEF NodeFacts
  <1>3. NodeFacts(NewWriters) \subseteq D
    BY <1>2 DEF NodeFacts
  <1>4. included \in [Node -> Reason] /\ "storage-dep" \in Reason
    BY DEF SliceTypeOK, Reason
  <1> QED
    BY <1>1, <1>3, <1>4, WholeIn DEF StorageClosureStep

LEMMA CrossContractIn ==
    ASSUME SliceTypeOK, NEW D, ClosedForNodes(D), SliceIn(D), CrossContractStep
    PROVE  WorkIn(D)' /\ SliceIn(D)'
  <1>1. PICK handled \in SUBSET Unhandled :
            LET entered == {o \in handled : Callee(o) # NoFn}
                body    == PulledOps(entered)
                nodes   == {NodeOf(p) : p \in body}
            IN  /\ included' = Reasoned(included, nodes, "callee")
                /\ work' = ReadsOf(body, 0)
    BY DEF CrossContractStep
  <1> DEFINE entered == {o \in handled : Callee(o) # NoFn}
             body    == PulledOps(entered)
             nodes   == {NodeOf(p) : p \in body}
  <1>2. ASSUME NEW p \in body PROVE OpFacts(p, 0) \subseteq D
    <2>1. PICK o \in entered : p \in ResultOps(Callee(o))
      BY DEF PulledOps
    <2>2. /\ o \in Op /\ Kind(o) = "external" /\ InSlice(NodeOf(o)) /\ Callee(o) # NoFn
          /\ NodeOf(o) \in Node /\ o \in OpsOf[NodeOf(o)]
      BY OpTypes DEF Unhandled, OpsOf
    <2>3. request.cross /\ NodeFact(NodeOf(o)) \in D
      BY <2>2 DEF CrossContractStep, SliceIn
    <2> QED
      BY <2>1, <2>2, <2>3, NodeDependences
  <1>3. WorkIn(D)'
    BY <1>1, <1>2, ReadsOfIn DEF WorkIn
  <1>4. ASSUME NEW p \in body PROVE NodeFact(NodeOf(p)) \in D
    <2>1. NodeOf(p) \notin Scaffolding
      BY DEF PulledOps
    <2> QED
      BY <1>2, <2>1 DEF OpFacts
  <1>5. included \in [Node -> Reason] /\ "callee" \in Reason
    BY DEF SliceTypeOK, Reason
  <1>6. ASSUME NEW n \in Node, InSlice(n)' PROVE NodeFact(n) \in D
    <2>1. InSlice(n) \/ n \in nodes
      BY <1>1, <1>5, <1>6, NewlyIn
    <2> QED
      BY <1>4, <2>1 DEF SliceIn
  <1> QED
    BY <1>3, <1>6 DEF SliceIn

\* D holds the facts of the criterion and what they depend on.
Evidence(D) == CriterionFacts \subseteq D /\ ClosedForVars(D) /\ ClosedForNodes(D)

LEMMA EvidenceSteady ==
    ASSUME request' = request, NEW D
    PROVE  Evidence(D)' <=> Evidence(D)
  BY DEF Evidence, ClosedForVars, ClosedForNodes, CriterionFacts, DependsOnOfVar, DependsOnOfNode

SoundInv == \A D : Evidence(D) => WorkIn(D) /\ SliceIn(D)

LEMMA InitSound == Init => SoundInv
  <1> SUFFICES ASSUME Init, NEW D, Evidence(D) PROVE WorkIn(D) /\ SliceIn(D)
    BY DEF SoundInv
  <1>1. WorkIn(D)
    <2>1. VarFacts(Seeds(request.node, request.target), FnOf(request.node), 0) \subseteq D
      BY DEF Evidence, CriterionFacts
    <2> QED
      BY <2>1, PushesIn DEF Init, WorkIn
  <1>2. SliceIn(D)
    <2>1. NodeFact(request.node) \in D
      BY DEF Evidence, CriterionFacts
    <2>2. ASSUME NEW n \in Node, InSlice(n) PROVE n = request.node
      BY <2>2 DEF Init, InSlice, Reasoned
    <2> QED
      BY <2>1, <2>2 DEF SliceIn
  <1> QED
    BY <1>1, <1>2

LEMMA NextSound == TypeOK /\ SoundInv /\ [Next]_vars => SoundInv'
  <1> SUFFICES ASSUME TypeOK, SoundInv, [Next]_vars, NEW D, Evidence(D)'
               PROVE  WorkIn(D)' /\ SliceIn(D)'
    BY DEF SoundInv
  <1>1. request' = request
    BY StageOrder
  <1>2. Evidence(D) /\ WorkIn(D) /\ SliceIn(D)
    BY <1>1, EvidenceSteady DEF SoundInv
  <1>3. ClosedForVars(D) /\ ClosedForNodes(D) /\ SliceTypeOK
        /\ NodeFacts(ModifierGuards[FnOf(request.node)]) \subseteq D
    BY <1>2 DEF Evidence, CriterionFacts, TypeOK
  <1>4. CASE \E e \in work : Pop(e)
    BY <1>2, <1>3, <1>4, PopIn DEF SliceIn
  <1>5. CASE UNCHANGED <<work, included>>
    BY <1>2, <1>5 DEF WorkIn, SliceIn, InSlice
  <1>6. CASE ControlClosure
    BY <1>2, <1>3, <1>6, ControlClosureIn
  <1>7. CASE IncludeModifierGuards
    BY <1>2, <1>3, <1>7, IncludeModifierGuardsIn
  <1>8. CASE StorageClosureStep
    BY <1>2, <1>3, <1>8, StorageClosureIn
  <1>9. CASE CrossContractStep
    BY <1>2, <1>3, <1>9, CrossContractIn
  <1> QED
    BY <1>4, <1>5, <1>6, <1>7, <1>8, <1>9
    DEF Next, NoCrossContract, Finish, Terminating, vars, sliceVars

\* The reference is one of the sets D.
LEMMA DependencesAreEvidence == ASSUME request \in Request PROVE Evidence(Dependences)
  <1> DEFINE step == [x \in Fact |-> DependsOn(x)]
  <1>1. step \in [Fact -> SUBSET Fact] /\ CriterionFacts \in SUBSET Fact
    BY DependsOnType, CriterionFactsType
  <1> HIDE DEF step
  <1>2. /\ Dependences \in SUBSET Fact /\ CriterionFacts \subseteq Dependences
        /\ \A x \in Dependences : step[x] \subseteq Dependences
    BY <1>1, LeastClosedIsLeast DEF Dependences, step
  <1>3. \A x \in Dependences : DependsOn(x) \subseteq Dependences
    BY <1>2 DEF step
  <1>4. ClosedForVars(Dependences)
    <2> SUFFICES ASSUME NEW v, NEW f, NEW c, <<"var", v, f, c>> \in Dependences
                 PROVE  DependsOnOfVar(v, f, c) \subseteq Dependences
      BY DEF ClosedForVars
    <2>1. DependsOn(<<"var", v, f, c>>) = DependsOnOfVar(v, f, c)
      BY DEF DependsOn
    <2> QED
      BY <1>3, <2>1
  <1>5. ClosedForNodes(Dependences)
    <2> SUFFICES ASSUME NEW n \in Node, NodeFact(n) \in Dependences
                 PROVE  DependsOnOfNode(n) \subseteq Dependences
      BY DEF ClosedForNodes
    <2>1. DependsOn(NodeFact(n)) = DependsOnOfNode(n)
      BY DEF DependsOn, NodeFact
    <2> QED
      BY <1>3, <2>1
  <1> QED
    BY <1>2, <1>4, <1>5 DEF Evidence

\* The writers that were stitched are in the slice.
StitchedIn == \A s \in stitched : InSlice(s[2])

LEMMA NextStitched == TypeOK /\ StitchedIn /\ [Next]_vars => StitchedIn'
  <1> SUFFICES ASSUME TypeOK, StitchedIn, [Next]_vars PROVE StitchedIn'
    OBVIOUS
  <1>1. \A s \in stitched : s[2] \in Node
    BY DEF TypeOK, SliceTypeOK
  <1>2. \A s \in stitched : InSlice(s[2])'
    BY <1>1, InSliceStable DEF StitchedIn
  <1>3. CASE stitched' = stitched
    BY <1>2, <1>3 DEF StitchedIn
  <1>4. CASE StorageClosureStep
    <2>1. PICK first \in [NewWriters -> Unstitched] :
              stitched' = stitched \cup {<<first[w], w>> : w \in NewWriters}
      BY <1>4 DEF StorageClosureStep
    <2>2. NewWriters \in SUBSET Node /\ "storage-dep" \in Reason \ {"none"}
      BY DEF NewWriters, WritersOf, Reason
    <2>3. \A w \in NewWriters : InSlice(w)'
      BY <1>4, <2>2, ReasonedIn DEF TypeOK, StorageClosureStep
    <2> QED
      BY <1>2, <2>1, <2>3 DEF StitchedIn
  <1> QED
    BY <1>3, <1>4, PopSteady
    DEF Next, ControlClosure, IncludeModifierGuards, CrossContractStep, NoCrossContract,
        Finish, Terminating, storageVars, vars

\* A backward slice is evidence: it holds nothing that the criterion does not
\* depend on within the call budget, in every contract and every order of the
\* worklist, and every writer it lists as stitched.
THEOREM NothingUnrelated == Spec => []OnlyDependences
  <1>1. Init => TypeOK /\ SoundInv /\ StitchedIn
    BY InitType, InitSound DEF Init, StitchedIn
  <1>2. TypeOK /\ SoundInv /\ StitchedIn /\ [Next]_vars => (TypeOK /\ SoundInv /\ StitchedIn)'
    BY NextType, NextSound, NextStitched
  <1>3. TypeOK /\ SoundInv /\ StitchedIn => OnlyDependences
    BY DependencesAreEvidence DEF TypeOK, SliceTypeOK, SoundInv, StitchedIn, SliceIn, Slice,
                                  OnlyDependences
  <1> QED
    BY <1>1, <1>2, <1>3, PTL DEF Spec

-----------------------------------------------------------------------------
(***************************************************************************)
(* THE REFINEMENT.                                                         *)
(*                                                                         *)
(* The worklist engine implements the search for dependences, for every    *)
(* contract, criterion and budget.  Two things are shown of a step: what   *)
(* it adds to the slice and to the worklist is explained by a fact that    *)
(* was known before; and when Finish returns the slice, it is closed.      *)
(***************************************************************************)

\* Both specifications ask the same queries of the same contract.
LEMMA SameQueries ==
    /\ \A n : /\ Search!FnOf(n) = FnOf(n) /\ Search!GuardsOf(n) = GuardsOf(n)
              /\ Search!StateRead(n) = StateRead(n)
    /\ \A o : /\ Search!NodeOf(o) = NodeOf(o) /\ Search!Kind(o) = Kind(o)
              /\ Search!Reads(o) = Reads(o) /\ Search!Callee(o) = Callee(o)
              /\ Search!FnOfOp(o) = FnOfOp(o)
              /\ Search!IsDescendable(o) = IsDescendable(o)
              /\ Search!IsEntryMerge(o) = IsEntryMerge(o)
              /\ \A p : Search!Actual(o, p) = Actual(o, p)
    /\ \A v : Search!NameOf(v) = NameOf(v) /\ Search!Home(v) = Home(v)
    /\ \A f : Search!Formals(f) = Formals(f)
    /\ Search!Scaffolding = Scaffolding
BY DEF Search!FnOf, FnOf, Search!GuardsOf, GuardsOf, Search!StateRead, StateRead,
       Search!NodeOf, NodeOf, Search!Kind, Kind, Search!Reads, Reads, Search!Callee, Callee,
       Search!FnOfOp, FnOfOp, Search!IsDescendable, IsDescendable,
       Search!IsEntryMerge, IsEntryMerge, Search!TypeOf, TypeOf, Search!LValue, LValue,
       Search!Actual, Actual, Search!NameOf, NameOf, Search!Home, Home,
       Search!Formals, Formals, Search!Scaffolding, Scaffolding

LEMMA SameSets ==
    /\ Search!OpsOf = OpsOf /\ Search!Callsites = Callsites
    /\ Search!ModifierGuards = ModifierGuards
    /\ \A n : Search!NodeReads(n) = NodeReads(n)
    /\ \A v, f : Search!DefSite(v, f) = DefSite(v, f)
    /\ \A f : Search!ResultOps(f) = ResultOps(f)
    /\ \A sv : Search!WritersOf(sv) = WritersOf(sv)
BY SameQueries
   DEF Search!OpsOf, OpsOf, Search!Callsites, Callsites, Search!InScope, InScope,
       Search!ModifierGuards, ModifierGuards, Search!Modifiers, Modifiers,
       Search!NodeReads, NodeReads, Search!DefSite, DefSite, Search!DefMap, DefMap,
       Search!LValue, LValue, Search!ResultOps, ResultOps, Search!TypeOf, TypeOf,
       Search!WritesState, WritesState, Search!WritersOf, WritersOf,
       Search!StateWritten, StateWritten

\* The facts of a slicer: its nodes, and the variables it reached.
LEMMA KnownFacts ==
    /\ \A n : Search!NodeFact(n) \in Known <=> n \in Slice
    /\ \A v, c : Search!VarFact(v, c) \in Known <=>
                    v \in Var /\ c \in 0..MaxDepth /\ ReachedAnywhere(v, c)
<1>1. \A v, c : <<"var", v, c>> \in Known <=>
                   <<v, c>> \in {y \in Var \X (0..MaxDepth) : ReachedAnywhere(y[1], y[2])}
  BY DEF Known
<1> QED  BY <1>1 DEF Known, Search!NodeFact, Search!VarFact

\* What is traced, whole and an operation, element by element.
LEMMA InTraced ==
    \A V, c : \A v \in V : \A d \in c..MaxDepth : Search!VarFact(v, d) \in Search!Traced(V, c)
BY DEF Search!Traced

LEMMA TracedOnly ==
    ASSUME NEW V, NEW c, NEW x \in Search!Traced(V, c)
    PROVE  \E v \in V : \E d \in c..MaxDepth : x = Search!VarFact(v, d)
BY DEF Search!Traced

LEMMA InWhole ==
    ASSUME NEW S, NEW n \in S
    PROVE  /\ Search!NodeFact(n) \in Search!Whole(S)
           /\ Search!Traced(NodeReads(n), 0) \subseteq Search!Whole(S)
BY SameSets DEF Search!Whole, Search!Nodes

-----------------------------------------------------------------------------
(* What a known fact explains.                                             *)

LEMMA ExplainedByNode ==
    ASSUME NEW n \in Slice
    PROVE  /\ Search!Whole(GuardsOf(n) \ Scaffolding) \subseteq Search!Explained
           /\ request.rounds # 0 => \A sv \in StateRead(n) :
                 Search!Whole(WritersOf(sv)) \subseteq Search!Explained
           /\ request.cross => \A o \in OpsOf[n] : Kind(o) = "external" =>
                 \A p \in ResultOps(Callee(o)) :
                    Search!Operation(p, 0) \subseteq Search!Explained
<1>1. Search!NodeFact(n) \in Known /\ n \in Node
  BY KnownFacts DEF Slice
<1>2. Search!OfNode(n) \subseteq Search!Explained
  BY <1>1 DEF Search!Explained
<1>3. Search!Whole(GuardsOf(n) \ Scaffolding) \subseteq Search!OfNode(n)
  BY SameQueries DEF Search!OfNode
<1>4. request.rounds # 0 => \A sv \in StateRead(n) :
         Search!Whole(WritersOf(sv)) \subseteq Search!OfNode(n)
  BY SameQueries, SameSets DEF Search!OfNode
<1>5. ASSUME request.cross, NEW o \in OpsOf[n], Kind(o) = "external",
             NEW p \in ResultOps(Callee(o))
      PROVE  Search!Operation(p, 0) \subseteq Search!OfNode(n)
  BY <1>5, SameQueries, SameSets DEF Search!OfNode
<1> QED  BY <1>2, <1>3, <1>4, <1>5

LEMMA ExplainedByVariable ==
    ASSUME NEW v \in Var, NEW c \in 0..MaxDepth, ReachedAnywhere(v, c)
    PROVE  /\ \A o \in DefSite(v, Home(v)) : ~IsEntryMerge(o) =>
                 /\ Search!Traced(Reads(o), c) \subseteq Search!Explained
                 /\ Kind(o) # "phi" => Search!NodeFact(NodeOf(o)) \in Search!Explained
           /\ \A o \in DefSite(v, Home(v)) : IsDescendable(o) /\ c < request.depth =>
                 \A p \in ResultOps(Callee(o)) :
                    Search!Operation(p, c + 1) \subseteq Search!Explained
           /\ Search!CallersOf(v, c) \subseteq Search!Explained
<1>1. Search!OfVariable(v, c) \subseteq Search!Explained
  <2>1. Search!VarFact(v, c) \in Known
    BY KnownFacts
  <2>2. <<v, c>> \in {y \in Var \X (0..MaxDepth) : Search!VarFact(y[1], y[2]) \in Known}
    BY <2>1
  <2>3. Search!OfVariable(<<v, c>>[1], <<v, c>>[2]) \subseteq Search!Explained
    BY <2>2 DEF Search!Explained
  <2> QED  BY <2>3
<1>2. \A o \in DefSite(v, Home(v)) : ~IsEntryMerge(o) =>
         /\ Search!Traced(Reads(o), c) \subseteq Search!DefinitionOf(v, c)
         /\ Kind(o) # "phi" => Search!NodeFact(NodeOf(o)) \in Search!DefinitionOf(v, c)
  BY SameQueries, SameSets DEF Search!DefinitionOf, Search!Nodes
<1>3. \A o \in DefSite(v, Home(v)) : IsDescendable(o) /\ c < request.depth =>
         \A p \in ResultOps(Callee(o)) :
            Search!Operation(p, c + 1) \subseteq Search!ResultsOf(v, c)
  BY SameQueries, SameSets DEF Search!ResultsOf
<1> QED  BY <1>1, <1>2, <1>3 DEF Search!OfVariable

LEMMA ExplainedCallers ==
    ASSUME NEW v \in Var, NEW c \in 0..MaxDepth, ReachedAnywhere(v, c),
           \A o \in DefSite(v, Home(v)) : IsEntryMerge(o),
           NameOf(v) \in Formals(Home(v)), c < request.depth, NEW o \in Callsites[Home(v)]
    PROVE  /\ Search!NodeFact(NodeOf(o)) \in Search!Explained
           /\ Search!Whole(ModifierGuards[FnOfOp(o)]) \subseteq Search!Explained
           /\ Search!Traced(Passed(o, NameOf(v)), c + 1) \subseteq Search!Explained
<1>1. Search!IsTracedFormal(v, c)
  BY SameQueries, SameSets DEF Search!IsTracedFormal
<1> DEFINE through(p) ==
      Search!Nodes({NodeOf(p)}) \cup Search!Whole(ModifierGuards[FnOfOp(p)])
        \cup Search!Traced(Passed(p, NameOf(v)), c + 1)
<1>2. Search!CallersOf(v, c) = UNION {through(p) : p \in Callsites[Home(v)]}
  BY <1>1, SameQueries, SameSets DEF Search!CallersOf, Passed
<1>3. through(o) \subseteq Search!CallersOf(v, c)
  BY <1>2
<1>4. Search!NodeFact(NodeOf(o)) \in Search!Nodes({NodeOf(o)})
  BY DEF Search!Nodes
<1> QED  BY <1>3, <1>4, ExplainedByVariable

LEMMA ExplainedProtection ==
    Search!Whole(ModifierGuards[FnOf(request.node)]) \subseteq Search!Explained
BY SameQueries, SameSets DEF Search!Explained, Search!Protection

-----------------------------------------------------------------------------
(* What a step adds is explained.                                          *)

\* An entry with c crossings stands for its variable with c or more.
Explains(E) ==
    \A e \in E : \A d \in e.cr..MaxDepth : Search!VarFact(e.var, d) \in Search!Explained

Learnt ==
    /\ \A n \in Node : included'[n] # "none" =>
          n \in Slice \/ Search!NodeFact(n) \in Search!Explained
    /\ Explains(work' \ work)

LEMMA PushesExplained ==
    ASSUME NEW V, NEW f, NEW c, Search!Traced(V, c) \subseteq Search!Explained
    PROVE  Explains(Pushes(V, f, c))
BY InTraced DEF Explains, Pushes

LEMMA ReadsOfExplained ==
    ASSUME NEW Os, NEW c, \A o \in Os : Search!Traced(Reads(o), c) \subseteq Search!Explained
    PROVE  Explains(ReadsOf(Os, c))
<1>1. \A o \in Os : Explains(Pushes(Reads(o), FnOfOp(o), c))
  BY PushesExplained
<1> QED  BY <1>1 DEF Explains, ReadsOf

LEMMA SeedReadsExplained ==
    ASSUME NEW S, Search!Whole(S) \subseteq Search!Explained
    PROVE  Explains(SeedReads(S))
<1>1. ASSUME NEW o \in OpsAt(S)
      PROVE  Search!Traced(Reads(o), 0) \subseteq Search!Explained
  <2>1. NodeOf(o) \in S /\ Reads(o) \subseteq NodeReads(NodeOf(o))
    BY OpTypes DEF OpsAt, NodeReads, OpsOf
  <2>2. Search!Traced(NodeReads(NodeOf(o)), 0) \subseteq Search!Explained
    BY <2>1, InWhole
  <2>3. Search!Traced(Reads(o), 0) \subseteq Search!Traced(NodeReads(NodeOf(o)), 0)
    BY <2>1 DEF Search!Traced
  <2> QED  BY <2>2, <2>3
<1> QED  BY <1>1, ReadsOfExplained DEF SeedReads

LEMMA OperationParts ==
    ASSUME NEW p, NEW c, Search!Operation(p, c) \subseteq Search!Explained
    PROVE  /\ Search!Traced(Reads(p), c) \subseteq Search!Explained
           /\ NodeOf(p) \notin Scaffolding => Search!NodeFact(NodeOf(p)) \in Search!Explained
BY SameQueries DEF Search!Operation, Search!Nodes

LEMMA WholeNodes ==
    ASSUME NEW S, Search!Whole(S) \subseteq Search!Explained
    PROVE  \A n \in S : Search!NodeFact(n) \in Search!Explained
BY InWhole

\* Only the nodes that are added are added.
LEMMA ReasonedOnly ==
    ASSUME NEW inc \in [Node -> Reason], NEW S, NEW r \in Reason
    PROVE  \A n \in Node : Reasoned(inc, S, r)[n] # "none" => inc[n] # "none" \/ n \in S
BY ReasonedStrengthens

\* A set of nodes that is explained whole, and seeded.
LEMMA SeededLearnt ==
    ASSUME TypeOK, NEW S, NEW r \in Reason, Search!Whole(S) \subseteq Search!Explained,
           included' = Reasoned(included, S, r), work' = SeedReads(S)
    PROVE  Learnt
<1>1. \A n \in Node : included'[n] # "none" => n \in Slice \/ n \in S
  BY ReasonedOnly DEF SliceTypeOK, Slice, InSlice
<1>2. Explains(SeedReads(S))
  BY SeedReadsExplained
<1> QED  BY <1>1, <1>2, WholeNodes DEF Learnt, Explains

\* Each node of S is explained whole with some others.
LEMMA WholeByParts ==
    ASSUME NEW S, \A n \in S : \E T : n \in T /\ Search!Whole(T) \subseteq Search!Explained
    PROVE  Search!Whole(S) \subseteq Search!Explained
<1>1. \A n \in S : /\ Search!NodeFact(n) \in Search!Explained
                   /\ Search!Traced(NodeReads(n), 0) \subseteq Search!Explained
  BY InWhole
<1> QED  BY <1>1, SameSets DEF Search!Whole, Search!Nodes

LEMMA ControlClosureLearns ==
    ASSUME TypeOK, ControlClosure PROVE Learnt
<1>1. Search!Whole(NewGuards) \subseteq Search!Explained
  <2>1. \A n \in Slice : Search!Whole(GuardsOf(n) \ Scaffolding) \subseteq Search!Explained
    BY ExplainedByNode
  <2>2. \A g \in NewGuards : \E n \in Slice : g \in GuardsOf(n) \ Scaffolding
    BY DEF NewGuards
  <2> QED  BY <2>1, <2>2, WholeByParts
<1> QED  BY <1>1, SeededLearnt DEF ControlClosure, Reason

LEMMA IncludeModifierGuardsLearns ==
    ASSUME TypeOK, IncludeModifierGuards PROVE Learnt
BY ExplainedProtection, SeededLearnt DEF IncludeModifierGuards, Reason

LEMMA StorageClosureStepLearns ==
    ASSUME TypeOK, StorageClosureStep PROVE Learnt
<1>1. request.rounds # 0
  BY BoundsAssumption DEF StorageClosureStep, SliceTypeOK, Request
<1>2. Search!Whole(NewWriters) \subseteq Search!Explained
  <2>1. \A n \in Slice : \A sv \in StateRead(n) :
           Search!Whole(WritersOf(sv)) \subseteq Search!Explained
    BY <1>1, ExplainedByNode
  <2>2. \A w \in NewWriters : \E n \in Slice : \E sv \in StateRead(n) : w \in WritersOf(sv)
    BY DEF NewWriters, Unstitched
  <2> QED  BY <2>1, <2>2, WholeByParts
<1> QED  BY <1>2, SeededLearnt DEF StorageClosureStep, Reason

LEMMA CrossContractStepLearns ==
    ASSUME TypeOK, CrossContractStep PROVE Learnt
<1>1. PICK handled \in SUBSET Unhandled :
         LET body == PulledOps({o \in handled : Callee(o) # NoFn})
         IN  /\ included' = Reasoned(included, {NodeOf(p) : p \in body}, "callee")
             /\ work' = ReadsOf(body, 0)
  BY DEF CrossContractStep
<1> DEFINE body == PulledOps({o \in handled : Callee(o) # NoFn})
<1>2. ASSUME NEW p \in body
      PROVE  /\ Search!Operation(p, 0) \subseteq Search!Explained
             /\ NodeOf(p) \notin Scaffolding
  <2>1. PICK o \in handled : p \in ResultOps(Callee(o))
    BY DEF PulledOps
  <2>2. o \in Op /\ Kind(o) = "external" /\ InSlice(NodeOf(o))
    BY DEF Unhandled
  <2>3. NodeOf(o) \in Slice /\ o \in OpsOf[NodeOf(o)]
    BY <2>2, OpTypes DEF Slice, OpsOf
  <2>4. Search!Operation(p, 0) \subseteq Search!Explained
    BY <2>1, <2>2, <2>3, ExplainedByNode DEF CrossContractStep
  <2> QED  BY <2>4 DEF PulledOps
<1>3. \A p \in body : /\ Search!Traced(Reads(p), 0) \subseteq Search!Explained
                      /\ Search!NodeFact(NodeOf(p)) \in Search!Explained
  BY <1>2, OperationParts
<1> HIDE DEF body
<1>4. Explains(ReadsOf(body, 0))
  BY <1>3, ReadsOfExplained
<1>5. \A n \in Node : included'[n] # "none" => n \in Slice \/ n \in {NodeOf(p) : p \in body}
  BY <1>1, ReasonedOnly DEF SliceTypeOK, Slice, InSlice, Reason, body
<1> QED  BY <1>1, <1>3, <1>4, <1>5 DEF Learnt, Explains, body

\* A worklist entry is a known fact.
LEMMA EntryKnown ==
    ASSUME TypeOK, NEW e \in work
    PROVE  /\ e.var \in Var /\ e.cr \in 0..MaxDepth /\ e.fn \in Fn
           /\ ReachedAnywhere(e.var, e.cr)
<1>1. e.var \in Var /\ e.cr \in 0..MaxDepth /\ e.fn \in Fn
  BY DEF SliceTypeOK, Entry
<1> QED  BY <1>1, BoundsAssumption DEF Reached, ReachedAnywhere

LEMMA AscendLearns ==
    ASSUME TypeOK, NEW e \in work, Ascend(e)
    PROVE  Learnt
<1> DEFINE sites     == Callsites[e.fn]
           at        == {NodeOf(o) : o \in sites}
           guards    == UNION {ModifierGuards[f] : f \in {FnOfOp(o) : o \in sites}}
           passed(o) == Pushes(Passed(o, NameOf(e.var)), FnOfOp(o), e.cr + 1)
<1>1. /\ included' = Reasoned(Reasoned(included, at, "callee"), guards, "modifier-guard")
      /\ work' = (work \ {e}) \cup SeedReads(guards) \cup UNION {passed(o) : o \in sites}
      /\ LeavesFunction(e) /\ CanAscend(e)
  BY DEF Ascend
<1>2. /\ e.var \in Var /\ e.cr \in 0..MaxDepth /\ e.fn = Home(e.var)
      /\ ReachedAnywhere(e.var, e.cr)
  BY <1>1, EntryKnown, FormalsAreScoped DEF CanAscend
<1>3. \A o \in sites :
         /\ Search!NodeFact(NodeOf(o)) \in Search!Explained
         /\ Search!Whole(ModifierGuards[FnOfOp(o)]) \subseteq Search!Explained
         /\ Search!Traced(Passed(o, NameOf(e.var)), e.cr + 1) \subseteq Search!Explained
  BY <1>1, <1>2, ExplainedCallers DEF LeavesFunction, CanAscend
<1>4. Search!Whole(guards) \subseteq Search!Explained
  <2>1. \A g \in guards : \E o \in sites : g \in ModifierGuards[FnOfOp(o)]
    OBVIOUS
  <2> HIDE DEF guards, sites
  <2> QED  BY <1>3, <2>1, WholeByParts
<1>5. \A o \in sites : Explains(passed(o))
  BY <1>3, PushesExplained
<1>6. \A n \in Node : included'[n] # "none" => n \in Slice \/ n \in at \/ n \in guards
  <2>1. Reasoned(included, at, "callee") \in [Node -> Reason]
    BY ReasonedStrengthens DEF SliceTypeOK, Reason
  <2>2. \A n \in Node : included'[n] # "none" =>
           Reasoned(included, at, "callee")[n] # "none" \/ n \in guards
    BY <1>1, <2>1, ReasonedOnly DEF Reason
  <2>3. \A n \in Node : Reasoned(included, at, "callee")[n] # "none" =>
           included[n] # "none" \/ n \in at
    BY ReasonedOnly DEF SliceTypeOK, Reason
  <2> QED  BY <2>2, <2>3 DEF Slice, InSlice
<1>7. \A n \in at \cup guards : Search!NodeFact(n) \in Search!Explained
  BY <1>3, <1>4, WholeNodes
<1>8. Explains(SeedReads(guards))
  BY <1>4, SeedReadsExplained
<1>9. \A w \in work' \ work : w \in SeedReads(guards) \/ \E o \in sites : w \in passed(o)
  BY <1>1
<1> HIDE DEF sites, at, guards, passed
<1> QED  BY <1>5, <1>6, <1>7, <1>8, <1>9 DEF Learnt, Explains

\* The definition of a popped variable, which every other action follows.
LEMMA DefinitionExplained ==
    ASSUME TypeOK, NEW e \in work,
           NEW o \in DefSite(e.var, e.fn), ~IsEntryMerge(o)
    PROVE  /\ Explains(Pushes(Reads(o), e.fn, e.cr))
           /\ Kind(o) # "phi" => Search!NodeFact(NodeOf(o)) \in Search!Explained
<1>1. /\ Search!Traced(Reads(o), e.cr) \subseteq Search!Explained
      /\ Kind(o) # "phi" => Search!NodeFact(NodeOf(o)) \in Search!Explained
  BY EntryKnown, OneDefinition, ExplainedByVariable
<1> QED  BY <1>1, PushesExplained

LEMMA FollowLearns ==
    ASSUME TypeOK, NEW e \in work,
           FollowDefinition(e) \/ CalleeTooDeep(e)
    PROVE  Learnt
<1>1. PICK o \in DefSite(e.var, e.fn) :
         /\ Kind(o) # "phi"
         /\ included' = Reasoned(included, {NodeOf(o)}, DefReason(e))
         /\ work' = (work \ {e}) \cup Pushes(Reads(o), e.fn, e.cr)
  BY DEF FollowDefinition, CalleeTooDeep, IsDescendable
<1>2. ~IsEntryMerge(o) /\ DefReason(e) \in Reason
  BY <1>1 DEF IsEntryMerge, DefReason, Reason
<1>3. \A n \in Node : included'[n] # "none" => n \in Slice \/ n \in {NodeOf(o)}
  BY <1>1, <1>2, ReasonedOnly DEF SliceTypeOK, Slice, InSlice
<1> QED  BY <1>1, <1>2, <1>3, DefinitionExplained DEF Learnt, Explains

LEMMA ThreadPhiLearns ==
    ASSUME TypeOK, NEW e \in work, ThreadPhi(e)
    PROVE  Learnt
<1>1. PICK o \in DefSite(e.var, e.fn) :
         ~IsEntryMerge(o) /\ work' = (work \ {e}) \cup Pushes(Reads(o), e.fn, e.cr)
  BY DEF ThreadPhi
<1>2. included' = included
  BY DEF ThreadPhi, sliceVars
<1> QED  BY <1>1, <1>2, DefinitionExplained DEF Learnt, Explains, Slice, InSlice

LEMMA EnterCalleeLearns ==
    ASSUME TypeOK, NEW e \in work, EnterCallee(e)
    PROVE  Learnt
<1> DEFINE body(o)  == DescendedOps(o)
           nodes(o) == {NodeOf(p) : p \in body(o)} \ Scaffolding
<1>1. PICK o \in DefSite(e.var, e.fn) :
         /\ IsDescendable(o)
         /\ included' = Reasoned(Reasoned(included, {NodeOf(o)}, DefReason(e)),
                                 nodes(o), "callee")
         /\ work' = (work \ {e}) \cup Pushes(Reads(o), e.fn, e.cr)
                                 \cup ReadsOf(body(o), e.cr + 1)
  BY DEF EnterCallee
<1>2. /\ ~IsEntryMerge(o) /\ Kind(o) # "phi" /\ e.cr < request.depth
      /\ DefReason(e) \in Reason
  BY <1>1 DEF IsEntryMerge, IsDescendable, DefReason, Reason, EnterCallee
<1>3. \A p \in body(o) :
         /\ Search!Traced(Reads(p), e.cr + 1) \subseteq Search!Explained
         /\ NodeOf(p) \notin Scaffolding => Search!NodeFact(NodeOf(p)) \in Search!Explained
  <2>1. \A p \in body(o) : Search!Operation(p, e.cr + 1) \subseteq Search!Explained
    BY <1>1, <1>2, EntryKnown, OneDefinition, ExplainedByVariable DEF DescendedOps
  <2> QED  BY <2>1, OperationParts
<1>4. Explains(ReadsOf(body(o), e.cr + 1))
  BY <1>3, ReadsOfExplained
<1>5. \A n \in Node : included'[n] # "none" =>
         n \in Slice \/ n = NodeOf(o) \/ n \in nodes(o)
  <2> DEFINE once == Reasoned(included, {NodeOf(o)}, DefReason(e))
  <2>1. /\ once \in [Node -> Reason]
        /\ \A n \in Node : once[n] # "none" => included[n] # "none" \/ n \in {NodeOf(o)}
    BY <1>2, ReasonedStrengthens, ReasonedOnly DEF SliceTypeOK
  <2>2. \A n \in Node : Reasoned(once, nodes(o), "callee")[n] # "none" =>
           once[n] # "none" \/ n \in nodes(o)
    BY <2>1, ReasonedOnly DEF Reason
  <2> QED  BY <1>1, <2>1, <2>2 DEF Slice, InSlice
<1>6. \A n \in nodes(o) : Search!NodeFact(n) \in Search!Explained
  BY <1>3
<1>7. /\ Explains(Pushes(Reads(o), e.fn, e.cr))
      /\ Search!NodeFact(NodeOf(o)) \in Search!Explained
  BY <1>2, DefinitionExplained
<1> HIDE DEF body, nodes
<1> QED  BY <1>1, <1>4, <1>5, <1>6, <1>7 DEF Learnt, Explains

LEMMA NextLearns ==
    ASSUME TypeOK, Next
    PROVE  Learnt
<1>1. ASSUME UNCHANGED included, work' \subseteq work
      PROVE  Learnt
  BY <1>1 DEF Learnt, Explains, Slice, InSlice
<1>2. ASSUME NEW e \in work, SkipVisited(e) \/ StopAtBoundary(e)
      PROVE  Learnt
  BY <1>1, <1>2 DEF SkipVisited, StopAtBoundary, sliceVars
<1>3. CASE \E e \in work : Pop(e)
  BY <1>2, <1>3, AscendLearns, FollowLearns, ThreadPhiLearns, EnterCalleeLearns DEF Pop
<1>4. CASE NoCrossContract \/ Finish \/ Terminating
  BY <1>1, <1>4 DEF NoCrossContract, Finish, Terminating, sliceVars, vars
<1> QED  BY <1>3, <1>4, ControlClosureLearns, IncludeModifierGuardsLearns,
            CrossContractStepLearns, StorageClosureStepLearns DEF Next

-----------------------------------------------------------------------------
(* A step of the slicer is a step of the search.                           *)

\* Nothing is forgotten.
LEMMA KnownStable ==
    ASSUME TypeOK, [Next]_vars
    PROVE  Known \subseteq Known'
<1>1. \A n \in Slice : n \in Slice'
  BY InSliceStable DEF Slice
<1>2. \A v \in Var, c \in 0..MaxDepth : ReachedAnywhere(v, c) => ReachedAnywhere(v, c)'
  BY ReachedStable, BoundsAssumption DEF ReachedAnywhere
<1> QED  BY <1>1, <1>2 DEF Known

\* What is reached by a step was reached before or is explained.
LEMMA ReachedLearnt ==
    ASSUME TypeOK, Next,
           NEW v \in Var, NEW c \in 0..MaxDepth, ReachedAnywhere(v, c)'
    PROVE  ReachedAnywhere(v, c) \/ Search!VarFact(v, c) \in Search!Explained
<1>0. PICK f \in Fn : Reached(v, f, c)'
  BY DEF ReachedAnywhere
<1>1. CASE visited'[v] <= c /\ visited'[v] = visited[v]
  BY <1>1 DEF Reached, ReachedAnywhere
<1>2. CASE visited'[v] <= c /\ visited'[v] # visited[v]
  <2>1. PICK e \in work : e.var = v /\ visited'[v] = e.cr
    BY <1>2, VisitedByPop
  <2> QED  BY <1>2, <2>1, EntryKnown DEF Reached, ReachedAnywhere
<1>3. ASSUME NEW e \in work', e.var = v, e.fn = f, e.cr <= c
      PROVE  ReachedAnywhere(v, c) \/ Search!VarFact(v, c) \in Search!Explained
  <2>1. CASE e \in work
    BY <1>3, <2>1 DEF Reached, ReachedAnywhere
  <2>2. CASE e \notin work
    <3>1. e.cr \in Int
      BY NextType DEF SliceTypeOK, Entry
    <3>2. c \in e.cr..MaxDepth
      BY <1>3, <3>1
    <3> QED  BY <1>3, <2>2, <3>2, NextLearns DEF Learnt, Explains
  <2> QED  BY <2>1, <2>2
<1> QED  BY <1>0, <1>1, <1>2, <1>3 DEF Reached

LEMMA KnownLearnt ==
    ASSUME TypeOK, Next
    PROVE  Known' \subseteq Known \cup Search!Explained
<1>1. ASSUME NEW n \in Slice'
      PROVE  <<"node", n, 0>> \in Known \cup Search!Explained
  <2>1. n \in Slice \/ Search!NodeFact(n) \in Search!Explained
    BY NextLearns DEF Learnt, Slice, InSlice
  <2> QED  BY <2>1 DEF Known, Search!NodeFact
<1>2. ASSUME NEW v \in Var, NEW c \in 0..MaxDepth, ReachedAnywhere(v, c)'
      PROVE  <<"var", v, c>> \in Known \cup Search!Explained
  <2>1. Search!VarFact(v, c) \in Known \cup Search!Explained
    BY <1>2, ReachedLearnt, KnownFacts
  <2> QED  BY <2>1 DEF Search!VarFact
<1>3. \A x \in Known' :
         \/ \E n \in Slice' : x = <<"node", n, 0>>
         \/ \E v \in Var, c \in 0..MaxDepth : ReachedAnywhere(v, c)' /\ x = <<"var", v, c>>
  BY DEF Known
<1> QED  BY <1>1, <1>2, <1>3

-----------------------------------------------------------------------------
(* The slice that is returned is closed.                                   *)

\* With an empty worklist what is reached is known, with any more crossings.
LEMMA ReachedIsKnown ==
    ASSUME TypeOK, work = {}, NEW V \in SUBSET Var, NEW f, NEW k \in Nat,
           AllReached(V, f, k), NEW c \in Nat, k <= c
    PROVE  Search!Traced(V, c) \subseteq Known
<1> SUFFICES ASSUME NEW v \in V, NEW d \in c..MaxDepth
             PROVE  Search!VarFact(v, d) \in Known
  BY TracedOnly
<1>1. visited[v] <= k
  BY DEF AllReached, Reached
<1>2. visited[v] <= d /\ d \in 0..MaxDepth
  BY <1>1, VisitedType
<1>3. FnOf(request.node) \in Fn
  BY CriterionType
<1> QED  BY <1>2, <1>3, KnownFacts DEF Reached, ReachedAnywhere

LEMMA FinishClosed ==
    ASSUME TypeOK, ModifierGuardsIn, DefinitionsFollowed, CalleesEntered,
           CallersEntered, Finish
    PROVE  Search!Closed
<1>1. work = {} /\ NewGuards = {} /\ stage # "seeded"
  BY DEF Finish, Saturated
<1>2. \A o \in Op : Reads(o) \in SUBSET Var
  BY OpTypes
<1>3. Search!Nodes(ModifierGuards[FnOf(request.node)]) \subseteq Known
  <2>1. ASSUME NEW g \in ModifierGuards[FnOf(request.node)]
        PROVE  g \in Slice
    <3>1. g \in Node /\ included[g] \in Reason
      BY CriterionType, ModifierGuardsType DEF SliceTypeOK
    <3>2. Rank[included[g]] >= 5
      BY <1>1 DEF ModifierGuardsIn, Rank, Reason
    <3>3. Rank["none"] = 0
      BY DEF Rank, Reason
    <3>4. included[g] # "none"
      BY <3>2, <3>3
    <3> QED  BY <3>1, <3>4 DEF Slice, InSlice
  <2> QED  BY <2>1, KnownFacts DEF Search!Nodes
<1>4. ASSUME NEW n \in Node, Search!NodeFact(n) \in Known
      PROVE  Search!Nodes(GuardsOf(n) \ Scaffolding) \subseteq Known
  <2>1. n \in Slice
    BY <1>4, KnownFacts
  <2>2. GuardsOf(n) \ Scaffolding \subseteq Slice
    BY <1>1, <2>1 DEF NewGuards
  <2> QED  BY <2>2, KnownFacts DEF Search!Nodes
<1>5. ASSUME NEW v \in Var, NEW c \in 0..MaxDepth, Search!VarFact(v, c) \in Known,
             StartedAtHome(v)
      PROVE  /\ ReadAtHome(v) => Search!DefinitionOf(v, c) \subseteq Known
             /\ ReadAtHome(v) => Search!ResultsOf(v, c) \subseteq Known
             /\ Search!CallersOf(v, c) \subseteq Known
  <2>1. visited[v] \in Nat /\ visited[v] <= c /\ c \in Nat /\ v \in Visited
    <3>1. ReachedAnywhere(v, c)
      BY <1>5, KnownFacts
    <3>2. visited[v] <= c /\ visited[v] \in Nat
      BY <1>1, <3>1, VisitedType DEF Reached, ReachedAnywhere
    <3> QED  BY <3>2, BoundsAssumption DEF Visited
  <2>2. ASSUME ReadAtHome(v) PROVE Search!DefinitionOf(v, c) \subseteq Known
    <3>1. ASSUME NEW o \in DefSite(v, Home(v)), ~IsEntryMerge(o)
          PROVE  /\ Search!Traced(Reads(o), c) \subseteq Known
                 /\ Search!Nodes(IF Kind(o) = "phi" THEN {} ELSE {NodeOf(o)}) \subseteq Known
      <4>1. o \in Op /\ NodeOf(o) \in Node
        BY DefSiteType, OpTypes
      <4>2. /\ AllReached(Reads(o), Home(v), visited[v])
            /\ Kind(o) # "phi" => NodeOf(o) \in Slice
        BY <1>5, <2>1, <2>2, <3>1, <4>1 DEF DefinitionsFollowed, Slice, MetAtHome
      <4>3. Search!Traced(Reads(o), c) \subseteq Known
        BY <1>1, <1>2, <2>1, <4>1, <4>2, ReachedIsKnown
      <4> QED  BY <4>2, <4>3, KnownFacts DEF Search!Nodes
    <3> QED  BY <3>1, SameQueries, SameSets DEF Search!DefinitionOf
  <2>3. ASSUME ReadAtHome(v) PROVE Search!ResultsOf(v, c) \subseteq Known
    <3>1. ASSUME NEW o \in DefSite(v, Home(v)), IsDescendable(o), c < request.depth,
                 NEW p \in ResultOps(Callee(o))
          PROVE  Search!Operation(p, c + 1) \subseteq Known
      <4>1. p \in Op /\ NodeOf(p) \in Node /\ request.depth \in Nat
        BY OpTypes, BoundsAssumption DEF ResultOps, SliceTypeOK, Request
      <4>2. /\ Emitted(NodeOf(p))
            /\ AllReached(Reads(p), Callee(o), visited[v] + 1)
        BY <1>5, <2>1, <2>3, <3>1, <4>1 DEF CalleesEntered, MetAtHome
      <4>3. Search!Traced(Reads(p), c + 1) \subseteq Known
        BY <1>1, <1>2, <2>1, <4>1, <4>2, ReachedIsKnown
      <4>4. {NodeOf(p)} \ Scaffolding \subseteq Slice
        BY <4>1, <4>2 DEF Emitted, Slice
      <4> QED  BY <4>3, <4>4, KnownFacts, SameQueries DEF Search!Operation, Search!Nodes
    <3> QED  BY <3>1, SameQueries, SameSets DEF Search!ResultsOf
  <2>4. Search!CallersOf(v, c) \subseteq Known
    <3>1. ASSUME Search!IsTracedFormal(v, c), NEW o \in Callsites[Home(v)]
          PROVE  /\ Search!Nodes({NodeOf(o)}) \subseteq Known
                 /\ Search!Whole(ModifierGuards[FnOfOp(o)]) \subseteq Known
                 /\ Search!Traced({Actual(o, NameOf(v))} \ {NoVar}, c + 1) \subseteq Known
      <4>1. /\ \A d \in DefSite(v, Home(v)) : IsEntryMerge(d)
            /\ NameOf(v) \in Formals(Home(v)) /\ c < request.depth
        BY <3>1, SameQueries, SameSets DEF Search!IsTracedFormal
      <4>2. /\ NodeOf(o) \in Node /\ FnOfOp(o) \in Fn
            /\ request.depth \in Nat
            /\ {Actual(o, NameOf(v))} \ {NoVar} \in SUBSET Var
            /\ ModifierGuards[FnOfOp(o)] \in SUBSET Node
        BY CallsitesType, NameTypes, ModifierGuardsType, BoundsAssumption
           DEF Passed, SliceTypeOK, Request
      <4>3. /\ InSlice(NodeOf(o))
            /\ \A g \in ModifierGuards[FnOfOp(o)] :
                  InSlice(g) /\ AllReached(NodeReads(g), FnOf(g), 0)
            /\ Actual(o, NameOf(v)) # NoVar =>
                  Reached(Actual(o, NameOf(v)), FnOfOp(o), visited[v] + 1)
        BY <1>5, <2>1, <4>1, <4>2 DEF CallersEntered
      <4>4. Search!Nodes({NodeOf(o)}) \subseteq Known
        BY <4>2, <4>3, KnownFacts DEF Search!Nodes, Slice
      <4>5. ASSUME NEW g \in ModifierGuards[FnOfOp(o)]
            PROVE  /\ Search!NodeFact(g) \in Known
                   /\ Search!Traced(NodeReads(g), 0) \subseteq Known
        <5>1. NodeReads(g) \in SUBSET Var
          BY <4>2, OpTypes DEF NodeReads, OpsOf
        <5> QED  BY <1>1, <4>2, <4>3, <5>1, KnownFacts, ReachedIsKnown DEF Slice
      <4>6. Search!Whole(ModifierGuards[FnOfOp(o)]) \subseteq Known
        BY <4>5, SameSets DEF Search!Whole, Search!Nodes
      <4>7. AllReached({Actual(o, NameOf(v))} \ {NoVar}, FnOfOp(o), visited[v] + 1)
        BY <4>3 DEF AllReached
      <4>8. Search!Traced({Actual(o, NameOf(v))} \ {NoVar}, c + 1) \subseteq Known
        BY <1>1, <2>1, <4>2, <4>7, ReachedIsKnown
      <4> QED  BY <4>4, <4>6, <4>8
    <3> QED  BY <3>1, SameQueries, SameSets DEF Search!CallersOf
  <2> QED  BY <2>2, <2>3, <2>4
<1>6. \A v : (Search!StartedAtHome(v) <=> StartedAtHome(v)) /\ (Search!ReadAtHome(v) <=> ReadAtHome(v))
  BY SameQueries DEF Search!StartedAtHome, StartedAtHome, Search!ReadAtHome, ReadAtHome
<1> QED  BY <1>3, <1>4, <1>5, <1>6, SameQueries, SameSets DEF Search!Closed, Search!Protection

-----------------------------------------------------------------------------
(* The refinement.                                                         *)

SearchInv ==
    /\ TypeOK /\ WorkIsLocal /\ ReturnedSaturated /\ ModifierGuardsIn
    /\ DefinitionsFollowed /\ CalleesEntered /\ CallersEntered

LEMMA SearchInvInit ==
    Init => SearchInv
<1> SUFFICES ASSUME Init PROVE SearchInv
  OBVIOUS
<1>1. Init /\ Visited = {}
  BY NoneVisited
<1>2. ReturnedSaturated /\ ModifierGuardsIn
  BY <1>1 DEF Init, ReturnedSaturated, ModifierGuardsIn
<1>3. DefinitionsFollowed /\ CalleesEntered /\ CallersEntered
  BY <1>1 DEF DefinitionsFollowed, CalleesEntered, CallersEntered
<1> QED  BY <1>1, <1>2, <1>3, InitType, InitLocal DEF SearchInv

LEMMA SearchInvNext ==
    SearchInv /\ [Next]_vars => SearchInv'
BY NextType, NextLocal, NextSaturated, NextModifierGuards, NextDefinitions,
   NextCallees, NextCallers DEF SearchInv

LEMMA InitSearches ==
    Init => Search!Init
<1> SUFFICES ASSUME Init PROVE Search!Init
  OBVIOUS
<1>1. /\ request \in Request /\ stage = "seeded"
      /\ included = Reasoned([n \in Node |-> "none"], {request.node} \ Scaffolding, "criterion")
      /\ work = Pushes(Seeds(request.node, request.target), FnOf(request.node), 0)
      /\ visited = [v \in Var |-> Unvisited]
  BY DEF Init
<1>2. /\ request.node \in Node /\ Seeds(request.node, request.target) \in SUBSET Var
      /\ FnOf(request.node) \in Fn
  BY <1>1, InitType, CriterionType, SeedsType DEF Request
<1>3. Slice = {request.node} \ Scaffolding
  <2>1. "none" \in Reason /\ Rank["criterion"] > Rank["none"]
    BY DEF Rank, Reason
  <2> QED  BY <1>1, <1>2, <2>1 DEF Slice, InSlice, Reasoned
<1>4. ASSUME NEW v \in Var, NEW c \in 0..MaxDepth
      PROVE  ReachedAnywhere(v, c) <=> v \in Seeds(request.node, request.target)
  <2>1. ~(visited[v] <= c)
    BY <1>1, BoundsAssumption DEF Unvisited
  <2>2. ASSUME v \in Seeds(request.node, request.target)
        PROVE  Reached(v, FnOf(request.node), c)
    <3>1. [var |-> v, fn |-> FnOf(request.node), cr |-> 0] \in work
      BY <1>1, <2>2 DEF Pushes
    <3> QED  BY <3>1 DEF Reached
  <2>3. \A e \in work : e.var = v => v \in Seeds(request.node, request.target)
    BY <1>1 DEF Pushes
  <2> QED  BY <1>2, <2>1, <2>2, <2>3 DEF Reached, ReachedAnywhere
<1>5. Known = Search!Nodes({request.node} \ Scaffolding)
                 \cup Search!Traced(Seeds(request.node, request.target), 0)
  <2> DEFINE S == Seeds(request.node, request.target)
             T == {y \in Var \X (0..MaxDepth) : ReachedAnywhere(y[1], y[2])}
  <2>1. ASSUME NEW x \in T
        PROVE  <<"var", x[1], x[2]>> \in Search!Traced(S, 0)
    <3>1. x[1] \in S /\ x[2] \in 0..MaxDepth
      BY <1>4, <2>1
    <3> QED  BY <3>1, InTraced DEF Search!VarFact
  <2>2. ASSUME NEW x \in Search!Traced(S, 0)
        PROVE  x \in Known
    <3>1. PICK v \in S : \E d \in 0..MaxDepth : x = Search!VarFact(v, d)
      BY <2>2, TracedOnly
    <3>2. PICK d \in 0..MaxDepth : x = Search!VarFact(v, d)
      BY <3>1
    <3>3. ReachedAnywhere(v, d) /\ v \in Var
      BY <1>2, <1>4, <3>1, <3>2
    <3> QED  BY <3>2, <3>3, KnownFacts
  <2>3. Known = {<<"node", n, 0>> : n \in Slice} \cup {<<"var", x[1], x[2]>> : x \in T}
    BY DEF Known
  <2>4. Search!Nodes(Slice) = {<<"node", n, 0>> : n \in Slice}
    BY DEF Search!Nodes, Search!NodeFact
  <2> HIDE DEF S, T
  <2>5. {<<"var", x[1], x[2]>> : x \in T} \subseteq Search!Traced(S, 0)
    BY <2>1
  <2>6. Search!Traced(S, 0) \subseteq Known
    BY <2>2
  <2>7. Known = Search!Nodes(Slice) \cup Search!Traced(S, 0)
    BY <2>3, <2>4, <2>5, <2>6
  <2> QED  BY <1>3, <2>7 DEF S
<1> QED  BY <1>1, <1>5, SameQueries DEF Search!Init

LEMMA NextSearches ==
    SearchInv /\ [Next]_vars => [Search!Next]_(Search!vars)
<1> SUFFICES ASSUME SearchInv, [Next]_vars PROVE [Search!Next]_(Search!vars)
  OBVIOUS
<1> USE DEF SearchInv
<1>1. request' = request
  BY StageOrder
<1>2. CASE UNCHANGED vars
  <2>1. Known' = Known /\ stage' = stage
    BY <1>2 DEF vars, Known, Slice, InSlice, Reached, ReachedAnywhere
  <2> QED  BY <1>1, <2>1 DEF Search!vars
<1>3. CASE Finish
  <2>1. UNCHANGED <<included, visited, work>> /\ stage' = "done" /\ stage # "done"
    BY <1>3 DEF Finish
  <2>2. Known' = Known
    BY <2>1 DEF Known, Slice, InSlice, Reached, ReachedAnywhere
  <2> QED  BY <1>1, <1>3, <2>1, <2>2, FinishClosed DEF Search!Next, Search!Answer
<1>4. CASE Next /\ ~Finish /\ stage # "done"
  <2>1. stage' # "done"
    BY <1>4, StageOrder
  <2>2. Known \subseteq Known' /\ Known' \subseteq Known \cup Search!Explained
    BY <1>4, KnownStable, KnownLearnt
  <2>3. Search!Learn
    BY <1>1, <1>4, <2>1, <2>2 DEF Search!Learn
  <2> QED  BY <2>3 DEF Search!Next
<1>5. CASE Next /\ stage = "done"
  <2>1. work = {} /\ NewGuards = {}
    BY <1>5 DEF ReturnedSaturated, Saturated
  <2>2. Terminating
    BY <1>5, <2>1 DEF Next, ControlClosure, IncludeModifierGuards, CrossContractStep,
                      NoCrossContract, StorageClosureStep, Finish
  <2> QED  BY <1>2, <2>2 DEF Terminating
<1> QED  BY <1>2, <1>3, <1>4, <1>5

\* `_Slicer.backward' computes what a backward slice is: its worklist, its visited
\* map and its statements are one way to close the criterion under dependence.
THEOREM BackwardImplementsSearch ==
    Spec => ImplementsSearch
BY SearchInvInit, SearchInvNext, InitSearches, NextSearches, PTL
   DEF Spec, ImplementsSearch, Search!Spec

HIDE DEF TypeOK

-----------------------------------------------------------------------------
(***************************************************************************)
(* THE GUARD CONTEXT.                                                      *)
(*                                                                         *)
(* What access_control_of promises, for every contract and every function. *)
(* But for the way it starts and stops, its steps are steps of a backward  *)
(* slice, so the lemmas about those apply.                                 *)
(***************************************************************************)

(* The steps, and type correctness.                                        *)

LEMMA AccessSteps ==
    ASSUME [AccessNext]_vars
    PROVE  /\ request' = request
           /\ [Next]_vars \/ AccessFinish
           /\ stage' = "done" => stage = "done" \/ AccessFinish
           /\ AccessFinish => UNCHANGED <<included, visited, work>>
           /\ stage \in {"seeded", "done"} => stage' \in {"seeded", "done"}
  <1>1. ASSUME NEW e \in work, Pop(e) PROVE request' = request /\ stage' = stage
    BY <1>1, PopSteady
  <1>2. ControlClosure \/ Terminating \/ UNCHANGED vars => UNCHANGED <<request, stage>>
    BY DEF ControlClosure, Terminating, vars
  <1>3. AccessFinish => /\ request' = request /\ stage' = "done"
                        /\ UNCHANGED <<included, visited, work>>
    BY DEF AccessFinish
  <1> QED
    BY <1>1, <1>2, <1>3 DEF AccessNext, Next

\* The checks are statements of their function.
LEMMA CallerChecksType ==
    \A f : /\ CallerChecks(f) \in SUBSET Node
           /\ CallerChecks(f) \cap Scaffolding = {}
  <1> SUFFICES ASSUME NEW f, NEW n \in CallerChecks(f) PROVE n \in Node /\ n \notin Scaffolding
    OBVIOUS
  <1>1. n \in Node /\ (Checks[n].requires \/ Checks[n].isIf)
    BY DEF CallerChecks, StopsCaller
  <1>2. Checks[n].requires => \E o \in Op : NodeOf(o) = n /\ Kind(o) # "phi"
    BY <1>1, ChecksAreStatements DEF OpsOf
  <1> QED
    BY <1>1, <1>2, ScaffoldingMerges, ChecksAreStatements

\* What the slice is started from.
Started(f) == ModifierGuards[f] \cup CallerChecks(f)

\* The first state, one fact at a time.
LEMMA AccessStart ==
    ASSUME AccessInit
    PROVE  /\ request \in Request /\ request.depth = 1 /\ Protected \in Fn
           /\ Started(Protected) \in SUBSET Node /\ Started(Protected) \cap Scaffolding = {}
           /\ included \in [Node -> Reason]
           /\ \A n \in Node : InSlice(n) <=> n \in Started(Protected)
           /\ \A g \in ModifierGuards[Protected] :
                 Rank[included[g]] >= Rank["modifier-guard"]
           /\ work = SeedReads(Started(Protected))
           /\ visited = [v \in Var |-> Unvisited] /\ stage = "seeded"
  <1>0. PICK f \in Fn : \E entry \in EntryPoint(f) :
            /\ request = [node |-> entry, target |-> NoName, depth |-> DefaultDepth,
                          rounds |-> 0, cross |-> FALSE]
            /\ included = Reasoned(Reasoned([n \in Node |-> "none"], ModifierGuards[f],
                                            "modifier-guard"),
                                   CallerChecks(f), "control-dep")
            /\ work = SeedReads(ModifierGuards[f] \cup CallerChecks(f))
            /\ visited = [v \in Var |-> Unvisited] /\ stage = "seeded"
    BY DEF AccessInit
  <1>1. PICK entry \in EntryPoint(f) :
            /\ request = [node |-> entry, target |-> NoName, depth |-> DefaultDepth,
                          rounds |-> 0, cross |-> FALSE]
            /\ included = Reasoned(Reasoned([n \in Node |-> "none"], ModifierGuards[f],
                                            "modifier-guard"),
                                   CallerChecks(f), "control-dep")
            /\ work = SeedReads(ModifierGuards[f] \cup CallerChecks(f))
            /\ visited = [v \in Var |-> Unvisited] /\ stage = "seeded"
    BY <1>0
  <1> DEFINE none  == [n \in Node |-> "none"]
             first == Reasoned(none, ModifierGuards[f], "modifier-guard")
  <1>2. Protected = f /\ request.depth = 1 /\ request \in Request
    <2>1. entry \in Node /\ FnOf(entry) = f
      BY DEF EntryPoint
    <2>2. DefaultDepth \in 0..MaxDepth /\ 0 \in 0..MaxRounds
      BY BoundsAssumption, DefaultAllowed DEF DefaultDepth
    <2> QED
      BY <1>1, <2>1, <2>2 DEF Protected, Request, DefaultDepth
  <1>3. /\ Started(f) \in SUBSET Node /\ Started(f) \cap Scaffolding = {}
        /\ ModifierGuards[f] \in SUBSET Node /\ CallerChecks(f) \in SUBSET Node
    BY ModifierGuardsType, CallerChecksType DEF Started
  <1>4. /\ none \in [Node -> Reason] /\ "modifier-guard" \in Reason /\ "control-dep" \in Reason
        /\ \A n \in Node : none[n] = "none"
    BY DEF Reason
  <1> HIDE DEF none
  <1>5. /\ first \in [Node -> Reason]
        /\ \A n \in Node : /\ n \in ModifierGuards[f] => Rank[first[n]] >= Rank["modifier-guard"]
                           /\ first[n] = none[n] \/ n \in ModifierGuards[f]
    BY <1>4, ReasonedStrengthens
  <1> HIDE DEF first
  <1>6. included = Reasoned(first, CallerChecks(f), "control-dep")
    BY <1>1 DEF first, none
  <1>7. /\ included \in [Node -> Reason]
        /\ \A n \in Node : /\ Rank[included[n]] >= Rank[first[n]]
                           /\ n \in CallerChecks(f) => Rank[included[n]] >= Rank["control-dep"]
                           /\ included[n] = first[n] \/ n \in CallerChecks(f)
    BY <1>4, <1>5, <1>6, ReasonedStrengthens
  <1>8. Rank["modifier-guard"] = 5 /\ Rank["control-dep"] = 4
    BY DEF Rank, Reason
  <1>9. ASSUME NEW n \in Node
        PROVE  /\ InSlice(n) <=> n \in Started(f)
               /\ n \in ModifierGuards[f] => Rank[included[n]] >= Rank["modifier-guard"]
    <2>1. first[n] \in Reason /\ included[n] \in Reason
      BY <1>5, <1>7
    <2>2. Rank[first[n]] \in Nat /\ Rank[included[n]] \in Nat
      BY <2>1, RankType
    <2>3. n \in ModifierGuards[f] => Rank[included[n]] >= 5
      BY <1>5, <1>7, <1>8, <2>2
    <2>4. n \in CallerChecks(f) => Rank[included[n]] >= 4
      BY <1>7, <1>8
    <2>5. n \in Started(f) => InSlice(n)
      BY <2>1, <2>2, <2>3, <2>4, RankNone DEF Started, InSlice
    <2>6. n \notin Started(f) => ~InSlice(n)
      BY <1>4, <1>5, <1>7 DEF Started, InSlice
    <2> QED
      BY <1>8, <2>3, <2>5, <2>6
  <1> QED
    BY <1>1, <1>2, <1>3, <1>7, <1>9 DEF Started

LEMMA AccessInitType == AccessInit => TypeOK
  <1> SUFFICES ASSUME AccessInit PROVE TypeOK
    OBVIOUS
  <1>1. /\ request \in Request /\ included \in [Node -> Reason]
        /\ Started(Protected) \in SUBSET Node /\ stage \in Stage
        /\ work = SeedReads(Started(Protected))
    BY AccessStart DEF Stage
  <1>2. request.depth \in 0..MaxDepth /\ request.rounds = 0
    BY <1>1 DEF Request, AccessInit
  <1>3. work \subseteq Entry /\ \A e \in work : e.cr <= request.depth
    BY <1>1, <1>2, SeedReadsType
  <1>4. visited \in [Var -> 0..Unvisited]
    BY BoundsAssumption DEF AccessInit, Unvisited
  <1>5. notes \subseteq Note
    <2>1. PICK f \in Fn : notes = AssemblyNotes(ModifierGuards[f] \cup CallerChecks(f))
      BY DEF AccessInit
    <2> QED
      BY <2>1, ModifierGuardsType, CallerChecksType, AssemblyNotesType
  <1>6. /\ xcSeen = {} /\ xcUsed = 0 /\ pulled = {} /\ stitched = {} /\ round = 0
    BY DEF AccessInit
  <1> QED
    BY <1>1, <1>2, <1>3, <1>4, <1>5, <1>6, BoundsAssumption DEF TypeOK, SliceTypeOK

LEMMA AccessNextType == TypeOK /\ [AccessNext]_vars => TypeOK'
  <1> SUFFICES ASSUME TypeOK, [AccessNext]_vars PROVE TypeOK'
    OBVIOUS
  <1>1. CASE [Next]_vars
    BY <1>1, NextType
  <1>2. CASE AccessFinish
    <2>1. <<"imprecise-alias", NoFn>> \in Note
      BY DEF Note, NoteKind
    <2> QED
      BY <1>2, <2>1 DEF AccessFinish, TypeOK, SliceTypeOK, Stage, crossVars, storageVars
  <1> QED
    BY <1>1, <1>2, AccessSteps

\* The guard context never falls out of its types: in particular it crosses at
\* most one call, the default of the slicer that computes it.
THEOREM AccessTypeCorrect == AccessSpec => []TypeOK
  BY AccessInitType, AccessNextType, PTL DEF AccessSpec

-----------------------------------------------------------------------------
(* A guarded function has a guard to show for it.                          *)

\* A function that calls nothing in scope is all there is to reach from it.
LEMMA NoCallsNoGrowth ==
    ASSUME NEW m, Calls({m}) = {}
    PROVE  CallsFrom(m) = {m}
  <1> DEFINE Grows(g) ==
        g = [i \in Nat |->
               IF i = 0 THEN {m} ELSE LET prior == g[i - 1] IN prior \cup Calls(prior)]
             grow == CHOOSE g : Grows(g)
  <1>1. Grows([i \in Nat |-> {m}])
    OBVIOUS
  <1>2. Grows(grow)
    BY <1>1
  <1>3. CallsFrom(m) = grow[Cardinality(Op)]
    BY DEF CallsFrom
  <1> HIDE DEF grow
  <1>4. \A i \in Nat : grow[i] = {m}
    <2> DEFINE Wrong == {i \in Nat : grow[i] # {m}}
    <2>1. SUFFICES ASSUME Wrong # {} PROVE FALSE
      OBVIOUS
    <2>2. PICK i \in Wrong : \A j \in Wrong : i <= j
      <3>1. Wrong \in SUBSET Nat
        OBVIOUS
      <3> HIDE DEF Wrong
      <3> QED
        BY <2>1, <3>1, LeastNumber
    <2>3. i \in Nat /\ grow[i] # {m} /\ i # 0
      BY <1>2, <2>2
    <2>4. i - 1 \in Nat /\ grow[i - 1] = {m}
      BY <2>2, <2>3
    <2>5. grow[i] = grow[i - 1] \cup Calls(grow[i - 1])
      BY <1>2, <2>3
    <2> QED
      BY <2>3, <2>4, <2>5
  <1>5. Cardinality(Op) \in Nat
    BY FiniteAssumption, FS_CardinalityType
  <1> QED
    BY <1>3, <1>4, <1>5

\* A modifier that restricts the caller has a statement that is a guard, whether
\* it reads the caller itself or delegates the check.
LEMMA RestrictingModifierGuards ==
    ASSUME NEW f \in Fn, NEW m \in Modifiers(f), RestrictsCaller(m)
    PROVE  ModifierGuards[f] # {}
  <1>1. ASSUME NEW o \in Op, FnOfOp(o) = m, Kind(o) # "phi" PROVE ModifierGuards[f] # {}
    <2>1. NodeOf(o) \in Node \ Scaffolding /\ o \in OpsOf[NodeOf(o)] /\ FnOf(NodeOf(o)) = m
      BY <1>1, OpTypes, ScaffoldingMerges DEF OpsOf, FnOfOp
    <2>2. NodeOf(o) \in ModifierGuards[f]
      BY <1>1, <2>1 DEF ModifierGuards
    <2> QED
      BY <2>2
  <1>2. CASE \E o \in Op : FnOfOp(o) = m /\ IsDescendable(o)
    BY <1>1, <1>2 DEF IsDescendable
  <1>3. CASE ~\E o \in Op : FnOfOp(o) = m /\ IsDescendable(o)
    <2>1. Calls({m}) = {}
      BY <1>3 DEF Calls
    <2>2. PICK n \in Node : FnOf(n) = m /\ Checks[n].readsCaller
      BY <2>1, NoCallsNoGrowth DEF RestrictsCaller
    <2>3. PICK o \in Op : NodeOf(o) = n /\ Kind(o) # "phi"
      BY <2>2, ChecksAreStatements DEF OpsOf
    <2> QED
      BY <1>1, <2>2, <2>3 DEF FnOfOp
  <1> QED
    BY <1>2, <1>3

\* Where the slice was started from stays in it.
StartKept == \A n \in Started(Protected) : InSlice(n)

LEMMA NextStartKept == TypeOK /\ StartKept /\ [AccessNext]_vars => StartKept'
  <1> SUFFICES ASSUME TypeOK, StartKept, [AccessNext]_vars, NEW n \in Started(Protected)
               PROVE  InSlice(n)'
    BY AccessSteps DEF StartKept, Protected
  <1>1. n \in Node /\ InSlice(n)
    BY CriterionType, ModifierGuardsType, CallerChecksType DEF Started, Protected, StartKept,
                                                              TypeOK
  <1>2. CASE [Next]_vars
    BY <1>1, <1>2, InSliceStable
  <1>3. CASE AccessFinish
    BY <1>1, <1>3, AccessSteps DEF InSlice
  <1> QED
    BY <1>2, <1>3, AccessSteps

\* A function that is reported as guarded, and not for being a constructor, has
\* a guard context that is not empty: what is_guarded looks for and what the
\* slice is started from are never at odds.
THEOREM GuardIsShown == AccessSpec => []GuardedHasContext
  <1>1. AccessInit => StartKept
    BY AccessStart DEF StartKept
  <1>2. TypeOK /\ StartKept => GuardedHasContext
    <2> SUFFICES ASSUME TypeOK, StartKept, IsGuarded(Protected), Protected \notin Constructors
                 PROVE  Slice # {}
      BY DEF GuardedHasContext
    <2>1. Protected \in Fn /\ Started(Protected) \in SUBSET Node
      BY CriterionType, ModifierGuardsType, CallerChecksType DEF Protected, Started, TypeOK
    <2>2. Started(Protected) # {}
      BY <2>1, RestrictingModifierGuards DEF IsGuarded, Started
    <2> QED
      BY <2>1, <2>2 DEF StartKept, Slice
  <1> QED
    BY <1>1, <1>2, AccessInitType, AccessNextType, NextStartKept, PTL DEF AccessSpec

-----------------------------------------------------------------------------
(* What a check reads is traced.                                           *)

\* What the start reads is processed, or will be, with the whole budget.
StartReached ==
    \A n \in Started(Protected) : AllReached(NodeReads(n), FnOf(n), 0)

\* A variable read at home is pushed with its function, and every formal is ascended
\* from when it is processed.
AscendedFrom == WorkIsLocal /\ CallersEntered

\* A slice that is returned is saturated.
AccessSaturated == stage = "done" => Saturated

AccessInv == TypeOK /\ StartKept /\ StartReached /\ AscendedFrom /\ AccessSaturated
             /\ request.depth = 1 /\ stage \in {"seeded", "done"}

LEMMA AccessInitInv == AccessInit => AccessInv
  <1> SUFFICES ASSUME AccessInit PROVE AccessInv
    OBVIOUS
  <1>1. StartReached
    <2> SUFFICES ASSUME NEW n \in Started(Protected), NEW v \in NodeReads(n)
                 PROVE  \E e \in work : e.var = v /\ e.fn = FnOf(n) /\ e.cr <= 0
      BY DEF StartReached, AllReached, Reached
    <2>1. PICK o \in Op : NodeOf(o) = n /\ v \in Reads(o)
      BY AccessStart DEF NodeReads, OpsOf
    <2>2. [var |-> v, fn |-> FnOf(n), cr |-> 0] \in work
      BY <2>1, AccessStart DEF SeedReads, ReadsOf, OpsAt, Pushes, FnOfOp
    <2> QED
      BY <2>2
  <1>2. AscendedFrom
    <2>1. IsAtHome(work)
      BY AccessStart, SeedReadsLocal
    <2>2. Visited = {}
      BY AccessStart, BoundsAssumption DEF Visited, Unvisited
    <2> QED
      BY <2>1, <2>2 DEF AscendedFrom, WorkIsLocal, IsAtHome, MetAtHome, CallersEntered
  <1> QED
    BY <1>1, <1>2, AccessStart, AccessInitType DEF AccessInv, StartKept, AccessSaturated

LEMMA NextStartReached == TypeOK /\ StartReached /\ [AccessNext]_vars => StartReached'
  <1> SUFFICES ASSUME TypeOK, StartReached, [AccessNext]_vars,
                      NEW n \in Started(Protected), NEW v \in NodeReads(n)
               PROVE  Reached(v, FnOf(n), 0)'
    BY AccessSteps DEF StartReached, Protected, AllReached
  <1>1. n \in Node /\ v \in Var /\ Reached(v, FnOf(n), 0)
    BY CriterionType, ModifierGuardsType, CallerChecksType, NodeReadsType
    DEF Started, Protected, StartReached, AllReached, TypeOK
  <1>2. CASE [Next]_vars
    BY <1>1, <1>2, ReachedStable
  <1>3. CASE AccessFinish
    BY <1>1, <1>3, AccessSteps DEF Reached
  <1> QED
    BY <1>2, <1>3, AccessSteps

LEMMA NextAscended == TypeOK /\ AscendedFrom /\ [AccessNext]_vars => AscendedFrom'
  <1> SUFFICES ASSUME TypeOK, [AccessNext]_vars, WorkIsLocal, CallersEntered
               PROVE  WorkIsLocal' /\ CallersEntered'
    BY DEF AscendedFrom
  <1>1. CASE [Next]_vars
    BY <1>1, NextLocal, NextCallers
  <1>2. CASE AccessFinish
    <2>1. request' = request /\ work' = work
      BY <1>2 DEF AccessFinish
    <2>2. WorkIsLocal'
      BY <2>1, MetAtHomeSteady DEF WorkIsLocal
    <2>3. CallersEntered'
      BY <1>2, <2>1, MetAtHomeSteady, AccessSteps
         DEF CallersEntered, Visited, AllReached, Reached, InSlice
    <2> QED
      BY <2>2, <2>3
  <1> QED
    BY <1>1, <1>2, AccessSteps

LEMMA NextAccessSaturated ==
    AccessSaturated /\ stage \in {"seeded", "done"} /\ [AccessNext]_vars => AccessSaturated'
  <1> SUFFICES ASSUME AccessSaturated, [AccessNext]_vars, stage' = "done" PROVE Saturated'
    BY DEF AccessSaturated
  <1>1. Saturated /\ UNCHANGED <<work, included>>
    <2>1. CASE AccessFinish
      BY <2>1 DEF AccessFinish
    <2>2. CASE stage = "done"
      BY <2>2 DEF AccessSaturated, Saturated, AccessNext, ControlClosure, AccessFinish,
                  Terminating, vars
    <2> QED
      BY <2>1, <2>2, AccessSteps
  <1> QED
    BY <1>1 DEF Saturated, NewGuards, Slice, InSlice

LEMMA AccessNextInv == AccessInv /\ [AccessNext]_vars => AccessInv'
  BY AccessNextType, NextStartKept, NextStartReached, NextAscended, NextAccessSaturated,
     AccessSteps DEF AccessInv

\* In the context that is returned, an argument that a check of the function
\* reads leads to every callsite, with the modifier guards of the caller and the
\* argument passed there.
THEOREM ArgumentsAreTraced == AccessSpec => []CheckedArgumentsTraced
  <1>1. AccessInv => CheckedArgumentsTraced
    <2> SUFFICES ASSUME AccessInv, stage = "done",
                        NEW n \in CallerChecks(Protected), NEW v \in NodeReads(n),
                        NameOf(v) \in Formals(Protected),
                        \A o \in DefSite(v, Protected) : IsEntryMerge(o),
                        NEW o \in Callsites[Protected]
                 PROVE  LET actual == Actual(o, NameOf(v))
                        IN  /\ InSlice(NodeOf(o))
                            /\ \A g \in ModifierGuards[FnOfOp(o)] : InSlice(g)
                            /\ actual # NoVar => Reached(actual, FnOfOp(o), 1)
      BY DEF CheckedArgumentsTraced
    <2>1. /\ SliceTypeOK /\ request.depth = 1 /\ work = {}
          /\ n \in Node /\ FnOf(n) = Protected /\ n \notin Scaffolding
      BY CallerChecksType DEF AccessInv, AccessSaturated, Saturated, TypeOK, CallerChecks
    <2>2. v \in Var /\ visited[v] <= 0
      BY <2>1, NodeReadsType DEF AccessInv, StartReached, Started, AllReached, Reached
    <2>3. visited[v] = 0
      BY <2>1, <2>2, VisitedType
    <2>4. v \in Visited
      BY <2>2, <2>3, BoundsAssumption DEF Visited
    <2>5. Home(v) = Protected /\ StartedAtHome(v)
      BY <2>2, CriterionType, FormalsAreScoped DEF Protected, StartedAtHome, AccessInv, TypeOK
    <2>6. CallersEntered
      BY DEF AccessInv, AscendedFrom
    <2>7. visited[v] < request.depth /\ visited[v] + 1 = 1
      BY <2>1, <2>3
    <2> QED
      BY <2>4, <2>5, <2>6, <2>7 DEF CallersEntered
  <1> QED
    BY <1>1, AccessInitInv, AccessNextInv, PTL DEF AccessSpec

-----------------------------------------------------------------------------
(* What every backward slice promises, of a slice started by hand.         *)

\* The context that is returned holds every node that one of its nodes is
\* control dependent on, and the modifier guards of the function.
THEOREM NoCheckIsDropped == AccessSpec => []GuardsNeverDropped
  <1> DEFINE GuardsIn == \A g \in ModifierGuards[Protected] :
                            Rank[included[g]] >= Rank["modifier-guard"]
  <1>1. AccessInit => GuardsIn
    BY AccessStart
  <1>2. TypeOK /\ GuardsIn /\ [AccessNext]_vars => GuardsIn'
    <2> SUFFICES ASSUME TypeOK, GuardsIn, [AccessNext]_vars,
                        NEW g \in ModifierGuards[Protected]
                 PROVE  Rank[included'[g]] >= Rank["modifier-guard"]
      BY AccessSteps DEF Protected
    <2>1. g \in Node /\ Rank[included[g]] >= Rank["modifier-guard"]
      BY CriterionType, ModifierGuardsType DEF Protected, TypeOK
    <2>2. Rank[included[g]] <= Rank[included'[g]]
      <3>1. CASE [Next]_vars
        BY <2>1, <3>1, NextStrengthens DEF Strengthens
      <3>2. CASE AccessFinish
        BY <2>1, <3>2, AccessSteps, RankType DEF TypeOK, SliceTypeOK
      <3> QED
        BY <3>1, <3>2, AccessSteps
    <2>3. /\ Rank[included[g]] \in Nat /\ Rank[included'[g]] \in Nat
          /\ Rank["modifier-guard"] \in Nat
      BY <2>1, AccessNextType, RankType DEF TypeOK, SliceTypeOK, Reason
    <2> QED
      BY <2>1, <2>2, <2>3
  <1>3. GuardsIn /\ AccessInv => GuardsNeverDropped
    BY DEF AccessInv, AccessSaturated, Saturated, NewGuards, Slice, Emitted,
           GuardsNeverDropped, Protected
  <1> HIDE DEF GuardsIn
  <1>4. AccessInv => TypeOK
    BY DEF AccessInv
  <1> QED
    BY <1>1, <1>2, <1>3, <1>4, AccessInitInv, AccessNextInv, PTL DEF AccessSpec

\* What a node of the context reads is followed with the whole budget, whether it
\* is a check, a modifier guard or a guard of one of their dependences.
THEOREM NoCheckDangles == AccessSpec => []NothingDangles
  <1>1. AccessInit => NothingDangles
    <2> SUFFICES ASSUME AccessInit, NEW n \in Node, InSlice(n)
                 PROVE  AllReached(NodeReads(n), FnOf(n), 0)
      BY DEF NothingDangles, InSlice
    <2> QED
      BY AccessStart, AccessInitInv DEF AccessInv, StartReached
  <1>2. TypeOK /\ NothingDangles /\ [AccessNext]_vars => NothingDangles'
    <2>1. TypeOK /\ NothingDangles /\ [Next]_vars => NothingDangles'
      BY NextDangles
    <2>2. ASSUME NothingDangles, AccessFinish PROVE NothingDangles'
      BY <2>2 DEF AccessFinish, NothingDangles, AllReached, Reached
    <2> QED
      BY <2>1, <2>2, AccessSteps
  <1> QED
    BY <1>1, <1>2, AccessInitType, AccessNextType, PTL DEF AccessSpec

-----------------------------------------------------------------------------
(* The context is evidence.                                                *)

\* D holds the checks and what they depend on.
ContextEvidence(D) ==
    /\ NodeFacts(Started(Protected)) \subseteq D
    /\ ClosedForVars(D) /\ ClosedForNodes(D)

LEMMA ContextEvidenceSteady ==
    ASSUME request' = request, NEW D
    PROVE  ContextEvidence(D)' <=> ContextEvidence(D)
  BY DEF ContextEvidence, Protected, ClosedForVars, ClosedForNodes, DependsOnOfVar,
         DependsOnOfNode

AccessSound == \A D : ContextEvidence(D) => WorkIn(D) /\ SliceIn(D)

LEMMA AccessInitSound == AccessInit => AccessSound
  <1> SUFFICES ASSUME AccessInit, NEW D, ContextEvidence(D) PROVE WorkIn(D) /\ SliceIn(D)
    BY DEF AccessSound
  <1>1. Started(Protected) \in SUBSET Node /\ NodeFacts(Started(Protected)) \subseteq D
    BY AccessStart DEF ContextEvidence
  <1>2. WorkIn(D)
    BY <1>1, AccessStart, SeedReadsIn DEF WorkIn
  <1>3. SliceIn(D)
    BY <1>1, AccessStart DEF SliceIn, NodeFacts
  <1> QED
    BY <1>2, <1>3

LEMMA NextAccessSound == TypeOK /\ AccessSound /\ [AccessNext]_vars => AccessSound'
  <1> SUFFICES ASSUME TypeOK, AccessSound, [AccessNext]_vars, NEW D, ContextEvidence(D)'
               PROVE  WorkIn(D)' /\ SliceIn(D)'
    BY DEF AccessSound
  <1>1. ContextEvidence(D) /\ WorkIn(D) /\ SliceIn(D) /\ SliceTypeOK
    BY AccessSteps, ContextEvidenceSteady DEF AccessSound, TypeOK
  <1>2. CASE \E e \in work : Pop(e)
    BY <1>1, <1>2, PopIn DEF ContextEvidence, SliceIn
  <1>3. CASE ControlClosure
    BY <1>1, <1>3, ControlClosureIn DEF ContextEvidence
  <1>4. CASE UNCHANGED <<work, included>>
    BY <1>1, <1>4 DEF WorkIn, SliceIn, InSlice
  <1> QED
    BY <1>2, <1>3, <1>4 DEF AccessNext, AccessFinish, Terminating, vars

\* The reference is one of the sets D.
LEMMA GuardContextIsEvidence ==
    ASSUME SliceTypeOK PROVE ContextEvidence(GuardContext)
  <1> DEFINE step == [x \in Fact |-> DependsOn(x)]
             start == NodeFacts(Started(Protected))
  <1>1. Started(Protected) \in SUBSET Node
    BY CriterionType, ModifierGuardsType, CallerChecksType DEF Started, Protected
  <1>2. step \in [Fact -> SUBSET Fact] /\ start \in SUBSET Fact
    BY <1>1, DependsOnType, NodeFactsType DEF SliceTypeOK
  <1> HIDE DEF step, start
  <1>3. /\ GuardContext \in SUBSET Fact /\ start \subseteq GuardContext
        /\ \A x \in GuardContext : step[x] \subseteq GuardContext
    BY <1>2, LeastClosedIsLeast DEF GuardContext, start, step, Started
  <1>4. \A x \in GuardContext : DependsOn(x) \subseteq GuardContext
    BY <1>3 DEF step
  <1>5. \A v, f, c : DependsOn(<<"var", v, f, c>>) = DependsOnOfVar(v, f, c)
    BY DEF DependsOn
  <1>6. \A n : DependsOn(NodeFact(n)) = DependsOnOfNode(n)
    BY DEF DependsOn, NodeFact
  <1> QED
    BY <1>3, <1>4, <1>5, <1>6 DEF ContextEvidence, ClosedForVars, ClosedForNodes, start

\* The guard context holds nothing but the guards and what they depend on within
\* the call budget: the body of the function only as far as a check needs it.
THEOREM OnlyGuardsInContext == AccessSpec => []OnlyGuardContext
  <1>1. TypeOK /\ AccessSound => OnlyGuardContext
    BY GuardContextIsEvidence DEF AccessSound, TypeOK, SliceIn, Slice, OnlyGuardContext
  <1> QED
    BY <1>1, AccessInitType, AccessNextType, AccessInitSound, NextAccessSound, PTL
       DEF AccessSpec

=============================================================================
