------------------------ MODULE ControlDependenceProofs ------------------------
(***************************************************************************)
(* The three loops of control.py are right, for every control-flow graph   *)
(* and every order of its nodes.                                           *)
(*                                                                         *)
(* The post-dominator sets: the true sets are contained in the first guess *)
(* and in what a sweep makes of any sets that contain them (Sound); when a *)
(* sweep ends without a change the sets satisfy the equations at every     *)
(* node (Settled); and sets that do hold nothing but post-dominators, for  *)
(* the points that have d in their set are left through d alone            *)
(* (SettledIsExact).  Every set contains what a sweep would make of it     *)
(* (Shrinking), so that the sets only get smaller.                         *)
(*                                                                         *)
(* The choice by size: post-dominance is an order, and the post-dominators *)
(* of a point form a chain, on a graph in which every node can reach the   *)
(* exit.  The set of a point that another one post-dominates is larger.    *)
(*                                                                         *)
(* The walks: the runner of a walk is post-dominated by the point where    *)
(* the walk ends and post-dominates the edge it started from (WalkSound);  *)
(* what depends on an edge taken is recorded or lies ahead (WalkComplete). *)
(*                                                                         *)
(* Abort nodes: see AbortsAreGuards.                                       *)
(***************************************************************************)
EXTENDS ControlDependenceProperties, FiniteSetTheorems, WellFoundedInduction, TLAPS

Sound == \A n \in Point : \A d \in Point : PostDominates(d, n) => d \in pdom[n]

Settled ==
    \A n \in Block :
        stage # "sweeping" \/ (~changed /\ n < at) => pdom[n] = Meet(n)

Shrinking == \A n \in Block : Meet(n) \subseteq pdom[n]

IInv == TypeOK /\ Sound /\ Settled /\ Shrinking

-----------------------------------------------------------------------------
\* The numbers that stand for the points of the graph.
LEMMA Points ==
    /\ Exit \in Point /\ Exit \notin Block /\ Block \subseteq Point
    /\ None \notin Point /\ 1 \in Block /\ 1 \in 1..(N + 1)
    /\ \A n \in Block : n \in Int
  BY SizeAssumption DEF Point, Block, Exit, None

LEMMA SuccType ==
    ASSUME TypeOK, NEW n \in Block
    PROVE  Succ(n) \subseteq Point
  BY Points DEF TypeOK, Succ, Point

LEMMA MeetType ==
    ASSUME NEW n \in Block
    PROVE  Meet(n) \in SUBSET Point
  BY Points DEF Meet

\* The immediate post-dominator is a point, if there is one.
LEMMA IpdomType ==
    ASSUME TypeOK, NEW n \in Point
    PROVE  Ipdom(n) \in Point \cup {None}
  <1>1. Closest(n) \subseteq Point
    BY DEF TypeOK, Closest, Strict
  <1> QED
    BY <1>1 DEF Ipdom

\* What a node's post-dominators have to do with those of its successors.
LEMMA PostDominatesStep ==
    ASSUME NEW n \in Block, NEW d \in Point, d # n, PostDominates(d, n),
           NEW s \in Succ(n)
    PROVE  PostDominates(d, s)
  BY DEF PostDominates

\* The exit has no successor: no other point post-dominates it.
LEMMA OnlyExit ==
    ASSUME NEW d \in Point, PostDominates(d, Exit)
    PROVE  d = Exit
  BY DEF PostDominates

\* One step of the sweep loses no post-dominator.
LEMMA MeetSound ==
    ASSUME TypeOK, Sound, NEW n \in Block, NEW d \in Point, PostDominates(d, n)
    PROVE  d \in Meet(n)
  <1>1. CASE d = n
    BY <1>1 DEF Meet
  <1>2. CASE d # n
    <2>1. ASSUME NEW s \in Succ(n) PROVE d \in pdom[s]
      BY <1>2, PostDominatesStep, SuccType DEF Sound
    <2> QED
      BY <2>1 DEF Meet
  <1> QED
    BY <1>1, <1>2

\* Sets that satisfy the equations hold nothing but post-dominators.
LEMMA SettledIsExact ==
    ASSUME TypeOK, \A n \in Block : pdom[n] = Meet(n),
           NEW n \in Point, NEW d \in pdom[n]
    PROVE  PostDominates(d, n)
  <1> DEFINE C == {m \in Point : d \in pdom[m]}
  <1>1. C \in SUBSET Point /\ n \in C
    OBVIOUS
  <1>2. Exit \in C => d = Exit
    BY DEF TypeOK
  <1>3. ASSUME NEW m \in (C \cap Block) \ {d} PROVE Succ(m) \subseteq C
    <2>1. d \in Meet(m) /\ d # m
      OBVIOUS
    <2>2. \A s \in Succ(m) : d \in pdom[s]
      BY <2>1 DEF Meet
    <2> QED
      BY <2>2, SuccType
  <1> QED
    BY <1>1, <1>2, <1>3 DEF PostDominates

-----------------------------------------------------------------------------
LEMMA InitInv == Init => IInv
  <1> SUFFICES ASSUME Init PROVE IInv
    OBVIOUS
  <1>1. pdom \in [Point -> SUBSET Point] /\ pdom[Exit] = {Exit}
    BY Points DEF Init, FirstGuess
  <1>2. TypeOK
    <2>1. sons \in [Block -> SUBSET Block] /\ aborting \in SUBSET Block
      BY DEF Init
    <2>2. at \in 1..(N + 1) /\ changed \in BOOLEAN
      BY Points DEF Init
    <2>3. parents \in [Block -> SUBSET Block] /\ \A n \in Block : n \notin parents[n]
      BY DEF Init
    <2> QED
      BY <1>1, <2>1, <2>2, <2>3 DEF Init, TypeOK
  <1>3. Sound
    BY OnlyExit DEF Init, FirstGuess, Sound
  <1>4. Settled
    BY Points DEF Init, Settled, Block
  <1>5. Shrinking
    BY <1>2, Points, MeetType DEF Init, Shrinking, FirstGuess
  <1> QED
    BY <1>2, <1>3, <1>4, <1>5 DEF IInv

\* A sweep's visit of one node makes its set smaller, if anything.
LEMMA SweepShrinks ==
    ASSUME IInv, Sweep, NEW n \in Point
    PROVE  pdom'[n] \subseteq pdom[n]
  BY Points DEF IInv, TypeOK, Shrinking, Sweep

\* A sweep's visit of one node.
LEMMA SweepInv == IInv /\ Sweep => IInv'
  <1> SUFFICES ASSUME IInv, Sweep PROVE IInv'
    OBVIOUS
  <1>1. pdom' \in [Point -> SUBSET Point] /\ pdom'[Exit] = {Exit}
    BY MeetType, Points DEF IInv, TypeOK, Sweep
  <1>2. TypeOK'
    <2>1. at' \in 1..(N + 1) /\ changed' \in BOOLEAN
      BY SizeAssumption DEF IInv, TypeOK, Sweep, Block
    <2> QED
      BY <1>1, <2>1 DEF IInv, TypeOK, Sweep, graph, walkVars
  <1>3. Sound'
    <2> SUFFICES ASSUME NEW n \in Point, NEW d \in Point, PostDominates(d, n)'
                 PROVE  d \in pdom'[n]
      BY DEF Sound
    <2>1. PostDominates(d, n)
      BY DEF PostDominates, Succ, Sweep, graph
    <2>2. CASE n = at
      BY <2>1, <2>2, MeetSound, Points DEF IInv, TypeOK, Sweep
    <2>3. CASE n # at
      BY <2>1, <2>3 DEF IInv, TypeOK, Sound, Sweep
    <2> QED
      BY <2>2, <2>3
  <1>4. Settled'
    <2> SUFFICES ASSUME NEW n \in Block, ~changed', n < at'
                 PROVE  pdom'[n] = Meet(n)'
      BY DEF Settled, Sweep
    <2>1. ~changed /\ pdom[at] = Meet(at)
      BY DEF Sweep
    <2>2. pdom' = pdom
      BY <2>1 DEF IInv, TypeOK, Sweep
    <2>3. Meet(n)' = Meet(n)
      BY <2>2 DEF Meet, Succ, Sweep, graph
    <2>4. n < at \/ n = at
      BY Points DEF Sweep
    <2> QED
      BY <2>1, <2>2, <2>3, <2>4 DEF IInv, Settled
  <1>5. Shrinking'
    <2> SUFFICES ASSUME NEW n \in Block PROVE Meet(n)' \subseteq pdom'[n]
      BY DEF Shrinking
    <2>1. Succ(n)' = Succ(n) /\ Succ(n) \subseteq Point
      BY SuccType DEF IInv, Succ, Sweep, graph
    <2>2. Meet(n)' \subseteq Meet(n)
      BY <2>1, SweepShrinks DEF Meet
    <2>3. CASE n = at
      BY <2>2, <2>3, Points DEF IInv, TypeOK, Sweep
    <2>4. CASE n # at
      BY <2>2, <2>4, Points DEF IInv, TypeOK, Shrinking, Sweep
    <2> QED
      BY <2>3, <2>4
  <1> QED
    BY <1>2, <1>3, <1>4, <1>5 DEF IInv

\* The steps that leave the graph and the sets alone.
LEMMA UnchangedSets ==
    ASSUME IInv, UNCHANGED <<graph, pdom>>, TypeOK',
           \A n \in Block : (stage # "sweeping" \/ (~changed /\ n < at))'
                              => stage # "sweeping" \/ (~changed /\ n < at)
    PROVE  IInv'
  <1>1. Sound'
    BY DEF IInv, Sound, PostDominates, Succ, graph
  <1>2. ASSUME NEW n \in Block PROVE Meet(n)' = Meet(n)
    BY DEF Meet, Succ, graph
  <1>3. Settled'
    BY <1>2 DEF IInv, Settled
  <1>4. Shrinking'
    BY <1>2 DEF IInv, Shrinking
  <1> QED
    BY <1>1, <1>3, <1>4 DEF IInv

LEMMA NextInv == IInv /\ [Next]_vars => IInv'
  <1> SUFFICES ASSUME IInv, [Next]_vars PROVE IInv'
    OBVIOUS
  <1> USE Points DEF IInv
  <1>1. CASE Sweep
    BY <1>1, SweepInv
  <1>2. CASE NextSweep
    <2>1. at' \in 1..(N + 1) /\ changed' \in BOOLEAN
      BY <1>2 DEF NextSweep, NothingChanged
    <2>2. TypeOK'
      BY <1>2, <2>1 DEF NextSweep, TypeOK, graph, walkVars
    <2> QED
      BY <1>2, <2>2, UnchangedSets DEF NextSweep, Block
  <1>3. CASE StartWalks
    <2>1. TypeOK'
      BY <1>3 DEF StartWalks, TypeOK, Branches, graph, sweepVars
    <2>2. \A n \in Block : n < at
      BY <1>3, SizeAssumption DEF StartWalks, TypeOK, Block
    <2> QED
      BY <1>3, <2>1, <2>2, UnchangedSets DEF StartWalks, sweepVars
  <1>4. CASE TakeEdge
    <2>1. TypeOK'
      BY <1>4 DEF TakeEdge, TypeOK, graph, sweepVars
    <2> QED
      BY <1>4, <2>1, UnchangedSets DEF TakeEdge, sweepVars
  <1>5. CASE Climb
    <2>1. walk[1] \in Block /\ walk[2] \in Point
      BY <1>5 DEF Climb, TypeOK, Stops
    <2>2. walk' \in Block \X (Point \cup {None})
      BY <1>5, <2>1, IpdomType DEF Climb
    <2>3. parents' \in [Block -> SUBSET Block] /\ \A n \in Block : n \notin parents'[n]
      BY <1>5, <2>1 DEF Climb, TypeOK, Recorded
    <2>4. TypeOK'
      BY <1>5, <2>2, <2>3 DEF Climb, TypeOK, graph, sweepVars
    <2> QED
      BY <1>5, <2>4, UnchangedSets DEF Climb, sweepVars
  <1>6. CASE EndWalk
    <2>1. TypeOK'
      BY <1>6 DEF EndWalk, TypeOK, graph, sweepVars
    <2> QED
      BY <1>6, <2>1, UnchangedSets DEF EndWalk, sweepVars
  <1>7. CASE Return
    <2>1. TypeOK'
      BY <1>7 DEF Return, TypeOK, graph, sweepVars, walkVars
    <2> QED
      BY <1>7, <2>1, UnchangedSets DEF Return, sweepVars
  <1>8. CASE UNCHANGED vars
    <2>1. TypeOK'
      BY <1>8 DEF vars, TypeOK
    <2> QED
      BY <1>8, <2>1, UnchangedSets DEF vars, graph
  <1> QED
    BY <1>1, <1>2, <1>3, <1>4, <1>5, <1>6, <1>7, <1>8 DEF Next, Terminating

-----------------------------------------------------------------------------
\* The sweeps of control.py compute the post-dominators, no more and no less,
\* on every control-flow graph of every size: also on one with unreachable
\* nodes, or with loops that never leave.
THEOREM PostDominatorsAreExact == Spec => []PostDominatorsExact
  <1>1. IInv => PostDominatorsExact
    <2> SUFFICES ASSUME IInv PROVE PostDominatorsExact
      OBVIOUS
    <2>1. \A n \in Point : {d \in Point : PostDominates(d, n)} \subseteq pdom[n]
      BY DEF IInv, Sound
    <2>2. ASSUME stage # "sweeping", NEW n \in Point, NEW d \in pdom[n]
          PROVE  PostDominates(d, n)
      BY <2>2, SettledIsExact DEF IInv, Settled
    <2> QED
      BY <2>1, <2>2 DEF PostDominatorsExact
  <1> QED
    BY <1>1, InitInv, NextInv, PTL DEF Spec

\* The three loops keep their state well typed, and no node becomes its own
\* guard.
THEOREM ControlTypeCorrect == Spec => []TypeOK
  <1>1. IInv => TypeOK
    BY DEF IInv
  <1> QED
    BY <1>1, InitInv, NextInv, PTL DEF Spec

\* No step puts a node back into a post-dominator set: the sweeps of control.py
\* descend to their fixpoint.
THEOREM SetsOnlyShrink == Spec => SweepsOnlyShrink
  <1> DEFINE Shrinks == \A n \in Point : pdom'[n] \subseteq pdom[n]
  <1>1. IInv /\ Next => Shrinks
    <2> SUFFICES ASSUME IInv, Next PROVE Shrinks
      OBVIOUS
    <2>1. CASE Sweep
      BY <2>1, SweepShrinks
    <2>2. CASE ~Sweep
      BY <2>2 DEF Next, NextSweep, StartWalks, TakeEdge, Climb, EndWalk, Return,
                  Terminating, vars, sweepVars
    <2> QED
      BY <2>1, <2>2
  <1>2. IInv /\ [Next]_vars => [Shrinks]_vars
    BY <1>1
  <1> QED
    BY <1>2, InitInv, NextInv, PTL DEF Spec, SweepsOnlyShrink

-----------------------------------------------------------------------------
(* Post-dominance is an order on the points, and a chain above each one.   *)
(* None of it needs a path: a set that is left through one point alone is  *)
(* put together from others.                                               *)

\* What WellFormed says of a set of nodes.
LEMMA NoTrap ==
    ASSUME WellFormed, NEW C \in SUBSET Block, \A n \in C : Succ(n) \subseteq C
    PROVE  C = {}
  BY DEF WellFormed

LEMMA PostDominatesReflexive ==
    ASSUME NEW n \in Point
    PROVE  PostDominates(n, n)
  <1>1. {n} \in SUBSET Point /\ n \in {n} /\ (Exit \in {n} => n = Exit)
    OBVIOUS
  <1> QED
    BY <1>1 DEF PostDominates

LEMMA ExitPostDominates ==
    ASSUME TypeOK, NEW n \in Point
    PROVE  PostDominates(Exit, n)
  <1>1. \A m \in Block : Succ(m) \subseteq Point
    BY SuccType
  <1> QED
    BY <1>1 DEF PostDominates

LEMMA PostDominatesTransitive ==
    ASSUME NEW n \in Point, NEW d \in Point, NEW e \in Point,
           PostDominates(d, e), PostDominates(e, n)
    PROVE  PostDominates(d, n)
  <1>1. PICK D \in SUBSET Point :
            e \in D /\ (Exit \in D => d = Exit)
              /\ \A m \in (D \cap Block) \ {d} : Succ(m) \subseteq D
    BY DEF PostDominates
  <1>2. PICK E \in SUBSET Point :
            n \in E /\ (Exit \in E => e = Exit)
              /\ \A m \in (E \cap Block) \ {e} : Succ(m) \subseteq E
    BY DEF PostDominates
  <1>3. \A m \in ((D \cup E) \cap Block) \ {d} : Succ(m) \subseteq D \cup E
    BY <1>1, <1>2
  <1>4. D \cup E \in SUBSET Point /\ n \in D \cup E /\ (Exit \in D \cup E => d = Exit)
    BY <1>1, <1>2
  <1> QED
    BY <1>3, <1>4 DEF PostDominates

LEMMA PostDominatesAntisymmetric ==
    ASSUME WellFormed, NEW d \in Point, NEW e \in Point,
           PostDominates(d, e), PostDominates(e, d)
    PROVE  d = e
  <1> SUFFICES ASSUME d # e PROVE FALSE
    OBVIOUS
  <1>1. d # Exit /\ e # Exit
    BY OnlyExit
  <1>2. PICK D \in SUBSET Point :
            e \in D /\ (Exit \in D => d = Exit)
              /\ \A m \in (D \cap Block) \ {d} : Succ(m) \subseteq D
    BY DEF PostDominates
  <1>3. PICK E \in SUBSET Point :
            d \in E /\ (Exit \in E => e = Exit)
              /\ \A m \in (E \cap Block) \ {e} : Succ(m) \subseteq E
    BY DEF PostDominates
  <1>4. D \cup E \in SUBSET Block
    BY <1>1, <1>2, <1>3 DEF Point
  <1>5. \A m \in D \cup E : Succ(m) \subseteq D \cup E
    BY <1>2, <1>3, <1>4
  <1> QED
    BY <1>2, <1>4, <1>5, NoTrap

LEMMA PostDominatorsAreAChain ==
    ASSUME WellFormed, NEW n \in Point, NEW d \in Point, NEW e \in Point,
           PostDominates(d, n), PostDominates(e, n)
    PROVE  PostDominates(d, e) \/ PostDominates(e, d)
  <1>1. PICK D \in SUBSET Point :
            n \in D /\ (Exit \in D => d = Exit)
              /\ \A m \in (D \cap Block) \ {d} : Succ(m) \subseteq D
    BY DEF PostDominates
  <1>2. PICK E \in SUBSET Point :
            n \in E /\ (Exit \in E => e = Exit)
              /\ \A m \in (E \cap Block) \ {e} : Succ(m) \subseteq E
    BY DEF PostDominates
  <1>3. CASE e \in D
    BY <1>1, <1>3 DEF PostDominates
  <1>4. CASE d \in E
    BY <1>2, <1>4 DEF PostDominates
  <1>5. CASE e \notin D /\ d \notin E
    <2>1. Exit \notin D \cap E
      BY <1>1, <1>2, <1>5
    <2>2. D \cap E \in SUBSET Block
      BY <2>1 DEF Point
    <2>3. \A m \in D \cap E : Succ(m) \subseteq D \cap E
      BY <1>1, <1>2, <1>5, <2>2
    <2> QED
      BY <1>1, <1>2, <2>2, <2>3, NoTrap
  <1> QED
    BY <1>3, <1>4, <1>5

-----------------------------------------------------------------------------
(* The closest strict post-dominator.                                      *)

\* The sets when the sweeps are over.
Exact == \A n \in Point : \A d \in Point : d \in pdom[n] <=> PostDominates(d, n)

LEMMA SweptIsExact ==
    ASSUME IInv, stage # "sweeping"
    PROVE  Exact
  <1>1. \A n \in Point : pdom[n] \subseteq Point
    BY DEF IInv, TypeOK
  <1>2. ASSUME NEW n \in Point, NEW d \in pdom[n] PROVE PostDominates(d, n)
    BY SettledIsExact DEF IInv, Settled
  <1> QED
    BY <1>1, <1>2 DEF IInv, Sound, Exact

LEMMA PointsAreFinite == IsFiniteSet(Point) /\ Cardinality(Point) \in Nat
  <1>1. IsFiniteSet(1..N)
    <2>1. 1 \in Int /\ N \in Int
      BY SizeAssumption
    <2> QED
      BY <2>1, FS_Interval
  <1>2. IsFiniteSet({Exit})
    BY FS_Singleton
  <1>3. IsFiniteSet(Point)
    BY <1>1, <1>2, FS_Union DEF Point, Block
  <1> QED
    BY <1>3, FS_CardinalityType

LEMMA SetSizes ==
    ASSUME TypeOK, NEW n \in Point
    PROVE  Cardinality(pdom[n]) \in Nat /\ IsFiniteSet(pdom[n])
  <1>1. pdom[n] \in SUBSET Point
    BY DEF TypeOK
  <1> QED
    BY <1>1, PointsAreFinite, FS_Subset, FS_CardinalityType

\* What is post-dominated by another point has more post-dominators.
LEMMA LargerSet ==
    ASSUME TypeOK, WellFormed, Exact, NEW d \in Point, NEW e \in Point,
           PostDominates(e, d), d # e
    PROVE  Cardinality(pdom[e]) < Cardinality(pdom[d])
  <1>1. pdom[e] \in SUBSET Point /\ pdom[d] \in SUBSET Point
    BY DEF TypeOK
  <1>2. pdom[e] \subseteq pdom[d]
    BY <1>1, PostDominatesTransitive DEF Exact
  <1>3. d \in pdom[d] /\ d \notin pdom[e]
    BY PostDominatesReflexive, PostDominatesAntisymmetric DEF Exact
  <1>4. IsFiniteSet(pdom[d]) /\ Cardinality(pdom[d]) \in Nat /\ Cardinality(pdom[e]) \in Nat
    BY SetSizes
  <1>5. Cardinality(pdom[e]) <= Cardinality(pdom[d])
        /\ (Cardinality(pdom[d]) = Cardinality(pdom[e]) => pdom[d] = pdom[e])
    BY <1>2, <1>4, FS_Subset
  <1> QED
    BY <1>3, <1>4, <1>5

\* A set of numbers has a least one.
LEMMA LeastNumber ==
    ASSUME NEW S \in SUBSET Nat, S # {}
    PROVE  \E k \in S : \A j \in S : k <= j
  <1>1. PICK k \in S : \A j \in S : ~ (<<j, k>> \in OpToRel(<, Nat))
    BY WFMin, NatLessThanWellFounded, Zenon
  <1>2. \A j \in S : <<j, k>> \in Nat \X Nat
    OBVIOUS
  <1>3. \A j \in S : ~ (j < k)
    BY <1>1, <1>2 DEF OpToRel
  <1> QED
    BY <1>3

LEMMA ClosestExists ==
    ASSUME TypeOK, Exact, NEW n \in Block
    PROVE  Closest(n) # {}
  <1>1. Exit \in Strict(n) /\ Strict(n) \subseteq Point
    BY ExitPostDominates, Points DEF Exact, Strict, TypeOK
  <1> DEFINE Left(d) == Cardinality(Point) - Cardinality(pdom[d])
             Counts == {Left(d) : d \in Strict(n)}
  <1>2. ASSUME NEW d \in Point PROVE Left(d) \in Nat
    <2>1. pdom[d] \in SUBSET Point
      BY DEF TypeOK
    <2>2. Cardinality(pdom[d]) <= Cardinality(Point)
      BY <2>1, PointsAreFinite, FS_Subset
    <2> QED
      BY <2>2, PointsAreFinite, SetSizes
  <1>3. Counts \in SUBSET Nat /\ Counts # {}
    BY <1>1, <1>2
  <1>4. PICK k \in Counts : \A j \in Counts : k <= j
    BY <1>3, LeastNumber
  <1>5. PICK d \in Strict(n) : k = Left(d)
    BY <1>4
  <1>6. ASSUME NEW e \in Strict(n) PROVE Cardinality(pdom[e]) <= Cardinality(pdom[d])
    <2>1. Left(d) <= Left(e)
      BY <1>4, <1>5
    <2>2. Cardinality(pdom[e]) \in Nat /\ Cardinality(pdom[d]) \in Nat
      BY <1>1, SetSizes
    <2> QED
      BY <2>1, <2>2, PointsAreFinite
  <1> QED
    BY <1>6 DEF Closest

\* All strict post-dominators of n post-dominate the closest one.
LEMMA ClosestIsFirst ==
    ASSUME TypeOK, WellFormed, Exact, NEW n \in Block,
           NEW d \in Closest(n), NEW e \in Strict(n)
    PROVE  PostDominates(e, d)
  <1>1. d \in Point /\ e \in Point /\ PostDominates(d, n) /\ PostDominates(e, n)
    BY Points DEF TypeOK, Exact, Closest, Strict
  <1>2. Cardinality(pdom[e]) <= Cardinality(pdom[d])
    BY DEF Closest
  <1>3. CASE d = e
    BY <1>1, <1>3, PostDominatesReflexive
  <1>4. CASE d # e /\ PostDominates(d, e)
    <2>1. Cardinality(pdom[d]) < Cardinality(pdom[e])
      BY <1>1, <1>4, LargerSet
    <2> QED
      BY <1>1, <1>2, <2>1, SetSizes
  <1> QED
    BY <1>1, <1>3, <1>4, PostDominatorsAreAChain, Points

\* The immediate post-dominator of a node: there is one, and it is the first.
LEMMA IpdomIsFirst ==
    ASSUME TypeOK, WellFormed, Exact, NEW n \in Block
    PROVE  /\ Ipdom(n) \in Point /\ Ipdom(n) # n /\ PostDominates(Ipdom(n), n)
           /\ \A e \in Point : e # n /\ PostDominates(e, n) => PostDominates(e, Ipdom(n))
           /\ Closest(n) = {Ipdom(n)}
  <1>1. Ipdom(n) \in Closest(n)
    BY ClosestExists DEF Ipdom
  <1>2. Closest(n) \subseteq Strict(n) /\ Strict(n) \subseteq Point
    BY Points DEF Closest, Strict, TypeOK
  <1>3. \A d \in Strict(n) : d # n /\ PostDominates(d, n)
    BY <1>2, Points DEF Strict, Exact
  <1>4. \A e \in Point : e # n /\ PostDominates(e, n) => e \in Strict(n)
    BY Points DEF Strict, Exact
  <1>5. \A d \in Closest(n) : d = Ipdom(n)
    <2> TAKE d \in Closest(n)
    <2>1. PostDominates(d, Ipdom(n)) /\ PostDominates(Ipdom(n), d)
      BY <1>1, <1>2, ClosestIsFirst
    <2> QED
      BY <1>1, <1>2, <2>1, PostDominatesAntisymmetric
  <1> QED
    BY <1>1, <1>2, <1>3, <1>4, <1>5, ClosestIsFirst

-----------------------------------------------------------------------------
(* The walks.                                                              *)

\* Where the walk from an edge of branch a may be.
RunnerSound(a, runner) ==
    /\ a \in Branches
    /\ \E s \in Succ(a) : PostDominates(runner, s)
    /\ PostDominates(Ipdom(a), runner)

\* The edges still to be walked from, where the walk is, and what it has recorded.
WalkSound ==
    /\ \A n \in Block : \A a \in parents[n] : DependsOn(n, a)
    /\ \A e \in edges : e[1] \in Branches /\ e[2] \in Succ(e[1])
    /\ walk # Idle =>
          /\ stage = "walking"
          /\ RunnerSound(walk[1], walk[2])

\* What depends on an edge that was taken is recorded, or the walk comes to it.
WalkComplete ==
    stage # "sweeping" =>
        \A a \in Branches : \A s \in Succ(a) : <<a, s>> \notin edges =>
            \A n \in Block :
                n # a /\ PostDominates(n, s) /\ ~PostDominates(n, a) =>
                    \/ a \in parents[n]
                    \/ walk # Idle /\ walk[1] = a /\ PostDominates(n, walk[2])

\* A walk is over before the last edge is.
ReturnsLast == stage = "done" => edges = {} /\ walk = Idle

WalkInv == WellFormed /\ WalkSound /\ WalkComplete /\ ReturnsLast

LEMMA SameGraph ==
    ASSUME UNCHANGED graph
    PROVE  /\ WellFormed' = WellFormed /\ Branches' = Branches
           /\ \A n : Succ(n)' = Succ(n)
           /\ \A d, n : PostDominates(d, n)' = PostDominates(d, n)
           /\ \A n, a : DependsOn(n, a)' = DependsOn(n, a)
  <1>1. sons' = sons /\ aborting' = aborting
    BY DEF graph
  <1>2. \A n : Succ(n)' = Succ(n)
    BY <1>1 DEF Succ
  <1>3. \A d, n : PostDominates(d, n)' = PostDominates(d, n)
    BY <1>2 DEF PostDominates
  <1>4. WellFormed' = WellFormed
    BY <1>1, <1>2 DEF WellFormed
  <1>5. Branches' = Branches
    BY <1>2 DEF Branches
  <1>6. \A n, a : DependsOn(n, a)' = DependsOn(n, a)
    BY <1>2, <1>3 DEF DependsOn
  <1> QED
    BY <1>2, <1>3, <1>4, <1>5, <1>6

LEMMA SameSets ==
    ASSUME pdom' = pdom
    PROVE  \A n : Ipdom(n)' = Ipdom(n)
  BY DEF Ipdom, Closest, Strict

LEMMA SameRunner ==
    ASSUME UNCHANGED <<graph, pdom>>, NEW a, NEW runner
    PROVE  RunnerSound(a, runner)' = RunnerSound(a, runner)
  BY SameGraph, SameSets DEF RunnerSound

LEMMA BranchesType == Branches \subseteq Block
  BY DEF Branches

LEMMA InitWalk == Init => WalkInv
  <1> SUFFICES ASSUME Init PROVE WalkInv
    OBVIOUS
  <1>1. WellFormed
    BY DEF Init
  <1>2. WalkSound
    BY DEF Init, WalkSound
  <1>3. WalkComplete /\ ReturnsLast
    BY DEF Init, WalkComplete, ReturnsLast
  <1> QED
    BY <1>1, <1>2, <1>3 DEF WalkInv

\* The sweeps walk nowhere.
LEMMA SweepsDoNotWalk ==
    ASSUME WalkInv, UNCHANGED <<graph, edges, walk, parents, stage>>, stage = "sweeping"
    PROVE  WalkInv'
  <1>1. WalkSound'
    BY SameGraph DEF WalkInv, WalkSound
  <1> QED
    BY <1>1, SameGraph DEF WalkInv, WalkComplete, ReturnsLast

\* The runner of a walk is at a node, which the immediate post-dominator of the
\* branch post-dominates.
LEMMA RunnerIsANode ==
    ASSUME TypeOK, WellFormed, Exact, WalkSound, walk # Idle, ~Stops(walk[1], walk[2])
    PROVE  /\ walk[1] \in Block /\ walk[2] \in Block
           /\ walk[2] # Ipdom(walk[1])
           /\ PostDominates(Ipdom(walk[1]), Ipdom(walk[2]))
  <1>1. walk[1] \in Block /\ walk[2] \in Point /\ walk[2] # Ipdom(walk[1])
    BY DEF TypeOK, Stops
  <1>2. Ipdom(walk[1]) \in Point /\ PostDominates(Ipdom(walk[1]), walk[2])
    BY <1>1, IpdomIsFirst DEF WalkSound, RunnerSound
  <1>3. walk[2] \in Block
    BY <1>1, <1>2, OnlyExit DEF Point
  <1> QED
    BY <1>1, <1>2, <1>3, IpdomIsFirst

\* What is recorded depends on the branch.
LEMMA RecordedDepends ==
    ASSUME TypeOK, WellFormed, Exact, WalkSound, walk # Idle, ~Stops(walk[1], walk[2]),
           walk[2] # walk[1]
    PROVE  DependsOn(walk[2], walk[1])
  <1>1. /\ walk[1] \in Block /\ walk[2] \in Block /\ walk[2] # Ipdom(walk[1])
        /\ Ipdom(walk[1]) \in Point /\ PostDominates(Ipdom(walk[1]), walk[2])
    BY RunnerIsANode, IpdomIsFirst DEF WalkSound, RunnerSound
  <1>2. ASSUME PostDominates(walk[2], walk[1]) PROVE FALSE
    <2>1. PostDominates(walk[2], Ipdom(walk[1]))
      BY <1>1, <1>2, IpdomIsFirst, Points
    <2> QED
      BY <1>1, <2>1, PostDominatesAntisymmetric, Points
  <1> QED
    BY <1>2 DEF DependsOn, WalkSound, RunnerSound

LEMMA ClimbInv ==
    ASSUME IInv, WalkInv, Climb
    PROVE  WalkInv'
  <1> DEFINE a == walk[1]
             r == walk[2]
  <1>1. TypeOK /\ WellFormed /\ WalkSound /\ WalkComplete /\ stage = "walking"
        /\ walk # Idle /\ ~Stops(a, r)
    BY DEF IInv, WalkInv, Climb
  <1>2. Exact
    BY <1>1, SweptIsExact
  <1>3. /\ a \in Block /\ r \in Block /\ PostDominates(Ipdom(a), Ipdom(r))
        /\ Ipdom(r) \in Point /\ PostDominates(Ipdom(r), r)
        /\ \A e \in Point : e # r /\ PostDominates(e, r) => PostDominates(e, Ipdom(r))
    BY <1>1, <1>2, RunnerIsANode, IpdomIsFirst
  <1>4. /\ UNCHANGED graph /\ pdom' = pdom /\ edges' = edges /\ stage' = stage
        /\ walk' = <<a, Ipdom(r)>>
        /\ parents' = [n \in Block |->
                         parents[n] \cup (IF n \in Recorded(a, r) THEN {a} ELSE {})]
    BY DEF Climb, sweepVars
  <1>5. walk' # Idle /\ walk'[1] = a /\ walk'[2] = Ipdom(r)
    BY <1>3, <1>4, Points DEF Idle
  <1>6. WalkSound'
    <2>1. ASSUME NEW n \in Block, NEW b \in parents'[n] PROVE DependsOn(n, b)
      <3>1. CASE b \in parents[n]
        BY <1>1, <3>1 DEF WalkSound
      <3>2. CASE b \notin parents[n]
        <4>1. b = a /\ n = r /\ r # a
          BY <1>4, <2>1, <3>2 DEF Recorded
        <4> QED
          BY <1>1, <1>2, <4>1, RecordedDepends
      <3> QED
        BY <3>1, <3>2
    <2>2. PICK s \in Succ(a) : PostDominates(r, s)
      BY <1>1 DEF WalkSound, RunnerSound
    <2>3. s \in Point
      BY <1>1, <1>3, <2>2, SuccType
    <2>4. PostDominates(Ipdom(r), s)
      BY <1>3, <2>2, <2>3, PostDominatesTransitive, Points
    <2>5. a \in Branches
      BY <1>1 DEF WalkSound, RunnerSound
    <2>6. \A n : Ipdom(n)' = Ipdom(n)
      BY <1>4, SameSets
    <2>7. /\ WellFormed' = WellFormed /\ Branches' = Branches
          /\ \A n : Succ(n)' = Succ(n)
          /\ \A d, n : PostDominates(d, n)' = PostDominates(d, n)
          /\ \A n, b : DependsOn(n, b)' = DependsOn(n, b)
      BY <1>4, SameGraph
    <2>8. \A n \in Block : \A b \in parents'[n] : DependsOn(n, b)'
      BY <2>1, <2>7
    <2>9. \A e \in edges' : e[1] \in Branches' /\ e[2] \in Succ(e[1])'
      BY <1>1, <1>4, <2>7 DEF WalkSound
    <2>10. stage' = "walking" /\ RunnerSound(walk[1], walk[2])'
      <3>1. RunnerSound(a, Ipdom(r))
        BY <1>3, <2>2, <2>4, <2>5 DEF RunnerSound
      <3>2. UNCHANGED <<graph, pdom>>
        BY <1>4
      <3> QED
        BY <1>1, <1>4, <1>5, <3>1, <3>2, SameRunner
    <2> QED
      BY <2>8, <2>9, <2>10 DEF WalkSound
  <1>7. WalkComplete'
    <2> SUFFICES ASSUME NEW b \in Branches, NEW s \in Succ(b), <<b, s>> \notin edges,
                        NEW n \in Block,
                        n # b, PostDominates(n, s), ~PostDominates(n, b)
                 PROVE  \/ b \in parents'[n]
                        \/ walk' # Idle /\ walk'[1] = b /\ PostDominates(n, walk'[2])
      BY <1>4, SameGraph DEF WalkComplete
    <2>1. b \in parents[n] \/ (walk # Idle /\ walk[1] = b /\ PostDominates(n, r))
      BY <1>1 DEF WalkComplete
    <2>2. CASE b \in parents[n]
      BY <1>4, <2>2
    <2>3. CASE b = a /\ n = r
      BY <1>4, <2>3, Points DEF Recorded
    <2>4. CASE b = a /\ n # r /\ PostDominates(n, r)
      BY <1>3, <1>5, <2>4, Points
    <2> QED
      BY <2>1, <2>2, <2>3, <2>4
  <1> QED
    BY <1>1, <1>4, <1>6, <1>7, SameGraph DEF WalkInv, ReturnsLast

LEMMA TakeEdgeInv ==
    ASSUME IInv, WalkInv, TakeEdge
    PROVE  WalkInv'
  <1>1. TypeOK /\ WellFormed /\ WalkSound /\ WalkComplete /\ stage = "walking" /\ walk = Idle
    BY DEF IInv, WalkInv, TakeEdge
  <1>2. PICK e \in edges : walk' = e /\ edges' = edges \ {e}
    BY DEF TakeEdge
  <1>3. UNCHANGED graph /\ pdom' = pdom /\ parents' = parents /\ stage' = stage
    BY DEF TakeEdge, sweepVars
  <1>4. e = <<e[1], e[2]>> /\ e[1] \in Block /\ e[2] \in Point /\ e[2] \in Succ(e[1])
    BY <1>1 DEF TypeOK, WalkSound
  <1>5. e # Idle /\ walk' # Idle
    BY <1>2, <1>4, Points DEF Idle
  <1>6. Exact
    BY <1>1, SweptIsExact
  <1>7. e[1] \in Branches
    BY <1>1 DEF WalkSound
  <1>8. PostDominates(e[2], e[2]) /\ PostDominates(Ipdom(e[1]), e[2])
    BY <1>1, <1>4, <1>6, PostDominatesReflexive, IpdomIsFirst, PostDominatesStep
  <1>9. WalkSound'
    <2>1. \A n : Ipdom(n)' = Ipdom(n)
      BY <1>3, SameSets
    <2>2. /\ Branches' = Branches
          /\ \A n : Succ(n)' = Succ(n)
          /\ \A d, n : PostDominates(d, n)' = PostDominates(d, n)
          /\ \A n, b : DependsOn(n, b)' = DependsOn(n, b)
      BY <1>3, SameGraph
    <2>3. \A n \in Block : \A b \in parents'[n] : DependsOn(n, b)'
      BY <1>1, <1>3, <2>2 DEF WalkSound
    <2>4. \A f \in edges' : f[1] \in Branches' /\ f[2] \in Succ(f[1])'
      BY <1>1, <1>2, <2>2 DEF WalkSound
    <2>5. stage' = "walking" /\ RunnerSound(walk[1], walk[2])'
      <3>1. RunnerSound(e[1], e[2])
        BY <1>4, <1>7, <1>8 DEF RunnerSound
      <3> QED
        BY <1>1, <1>2, <1>3, <3>1, SameRunner
    <2> QED
      BY <2>3, <2>4, <2>5 DEF WalkSound
  <1>10. WalkComplete'
    <2> SUFFICES ASSUME NEW b \in Branches, NEW s \in Succ(b), <<b, s>> \notin edges',
                        NEW n \in Block,
                        n # b, PostDominates(n, s), ~PostDominates(n, b)
                 PROVE  \/ b \in parents'[n]
                        \/ walk' # Idle /\ walk'[1] = b /\ PostDominates(n, walk'[2])
      BY <1>3, SameGraph DEF WalkComplete
    <2>1. CASE <<b, s>> = e
      BY <1>2, <1>5, <2>1
    <2>2. CASE <<b, s>> # e
      <3>1. <<b, s>> \notin edges
        BY <1>2, <2>2
      <3> QED
        BY <1>1, <1>3, <3>1 DEF WalkComplete
    <2> QED
      BY <2>1, <2>2
  <1> QED
    BY <1>1, <1>3, <1>9, <1>10, SameGraph DEF WalkInv, ReturnsLast

LEMMA EndWalkInv ==
    ASSUME IInv, WalkInv, EndWalk
    PROVE  WalkInv'
  <1>1. /\ TypeOK /\ WellFormed /\ WalkSound /\ WalkComplete /\ stage = "walking"
        /\ walk # Idle /\ Stops(walk[1], walk[2])
    BY DEF IInv, WalkInv, EndWalk
  <1>2. /\ UNCHANGED graph /\ pdom' = pdom /\ edges' = edges /\ parents' = parents
        /\ stage' = stage /\ walk' = Idle
    BY DEF EndWalk, sweepVars
  <1>3. Exact /\ walk[1] \in Block
    BY <1>1, SweptIsExact DEF TypeOK
  <1>4. ASSUME NEW n \in Block, PostDominates(n, walk[2])
        PROVE  PostDominates(n, walk[1])
    <2>1. walk[2] \in Point
      BY <1>4 DEF PostDominates
    <2>2. walk[2] = Ipdom(walk[1])
      BY <1>1, <2>1, Points DEF Stops
    <2>3. PostDominates(walk[2], walk[1])
      BY <1>1, <1>3, <2>2, IpdomIsFirst
    <2> QED
      BY <1>3, <1>4, <2>1, <2>3, PostDominatesTransitive, Points
  <1>5. WalkSound'
    BY <1>1, <1>2, SameGraph DEF WalkSound
  <1>6. WalkComplete'
    <2> SUFFICES ASSUME NEW b \in Branches, NEW s \in Succ(b), <<b, s>> \notin edges,
                        NEW n \in Block,
                        n # b, PostDominates(n, s), ~PostDominates(n, b)
                 PROVE  b \in parents[n]
      BY <1>2, SameGraph DEF WalkComplete
    <2> QED
      BY <1>1, <1>4 DEF WalkComplete
  <1> QED
    BY <1>1, <1>2, <1>5, <1>6, SameGraph DEF WalkInv, ReturnsLast

\* All edges of branches are there when the walks start.
LEMMA StartWalksInv ==
    ASSUME IInv, WalkInv, StartWalks
    PROVE  WalkInv'
  <1>1. TypeOK /\ WellFormed /\ WalkSound /\ walk = Idle
    BY DEF IInv, WalkInv, WalkSound, StartWalks
  <1>2. /\ UNCHANGED graph /\ parents' = parents /\ walk' = Idle /\ stage' = "walking"
        /\ edges' = {e \in Branches \X Point : e[2] \in Succ(e[1])}
    BY <1>1 DEF StartWalks
  <1>3. \A b \in Branches : \A s \in Succ(b) : <<b, s>> \in edges'
    BY <1>1, <1>2, BranchesType, SuccType
  <1>4. WalkSound'
    BY <1>1, <1>2, SameGraph DEF WalkSound
  <1>5. WalkComplete'
    BY <1>2, <1>3, SameGraph DEF WalkComplete
  <1> QED
    BY <1>1, <1>2, <1>4, <1>5, SameGraph DEF WalkInv, ReturnsLast

LEMMA ReturnInv ==
    ASSUME IInv, WalkInv, Return
    PROVE  WalkInv'
  <1>1. /\ UNCHANGED <<graph, walkVars>> /\ stage = "walking" /\ stage' = "done"
        /\ edges = {} /\ walk = Idle
    BY DEF Return
  <1>2. WalkSound'
    BY <1>1, SameGraph DEF WalkInv, WalkSound, walkVars
  <1>3. WalkComplete'
    BY <1>1, SameGraph DEF WalkInv, WalkComplete, walkVars
  <1> QED
    BY <1>1, <1>2, <1>3, SameGraph DEF WalkInv, ReturnsLast, walkVars

LEMMA WalkNext == IInv /\ WalkInv /\ [Next]_vars => WalkInv'
  <1> SUFFICES ASSUME IInv, WalkInv, [Next]_vars PROVE WalkInv'
    OBVIOUS
  <1>1. CASE Sweep
    BY <1>1, SweepsDoNotWalk DEF Sweep, walkVars
  <1>2. CASE NextSweep
    BY <1>2, SweepsDoNotWalk DEF NextSweep, walkVars
  <1>3. CASE UNCHANGED vars
    <2>1. UNCHANGED <<graph, pdom, edges, walk, parents, stage>>
      BY <1>3 DEF vars, graph
    <2>2. WalkSound'
      BY <2>1, SameGraph, SameRunner DEF WalkInv, WalkSound
    <2>3. WalkComplete'
      BY <2>1, SameGraph DEF WalkInv, WalkComplete
    <2> QED
      BY <2>1, <2>2, <2>3, SameGraph DEF WalkInv, ReturnsLast
  <1> QED
    BY <1>1, <1>2, <1>3, StartWalksInv, TakeEdgeInv, ClimbInv, EndWalkInv, ReturnInv
    DEF Next, Terminating

LEMMA SpecInv == Spec => [](IInv /\ WalkInv)
  <1>1. IInv /\ WalkInv /\ [Next]_vars => (IInv /\ WalkInv)'
    BY NextInv, WalkNext
  <1>2. Init => IInv /\ WalkInv
    BY InitInv, InitWalk
  <1> QED
    BY <1>1, <1>2, PTL DEF Spec

\* The choice of control.py by the size of a set picks the immediate
\* post-dominator on every graph, and there is never a tie to break.
THEOREM ClosestIsTheImmediate == Spec => []ClosestIsImmediate
  <1>1. IInv /\ WalkInv => ClosestIsImmediate
    <2> SUFFICES ASSUME IInv, WalkInv, stage # "sweeping", NEW n \in Block
                 PROVE  /\ Cardinality(Closest(n)) = 1
                        /\ \A d \in Closest(n) : \A e \in Strict(n) : PostDominates(e, d)
      BY DEF ClosestIsImmediate
    <2>1. TypeOK /\ WellFormed /\ Exact
      BY SweptIsExact DEF IInv, WalkInv
    <2>2. Cardinality(Closest(n)) = 1
      BY <2>1, IpdomIsFirst, FS_Singleton
    <2> QED
      BY <2>1, <2>2, ClosestIsFirst
  <1> QED
    BY <1>1, SpecInv, PTL

\* A node with one way on decides nothing.
LEMMA OnlyBranchesDecide ==
    ASSUME TypeOK, NEW n \in Block, NEW a \in Block, DependsOn(n, a)
    PROVE  a \in Branches
  <1>1. PICK s \in Succ(a) : PostDominates(n, s)
    BY DEF DependsOn
  <1>2. n # a /\ ~PostDominates(n, a)
    BY DEF DependsOn
  <1>3. Succ(a) \subseteq Point /\ IsFiniteSet(Succ(a)) /\ Cardinality(Succ(a)) \in Nat
    BY SuccType, PointsAreFinite, FS_Subset, FS_CardinalityType
  <1>4. ASSUME Cardinality(Succ(a)) <= 1 PROVE FALSE
    <2>1. Succ(a) = {s}
      <3>1. Cardinality({s}) = 1 /\ {s} \subseteq Succ(a)
        BY <1>1, FS_Singleton
      <3>2. Cardinality({s}) <= Cardinality(Succ(a))
            /\ (Cardinality(Succ(a)) = Cardinality({s}) => Succ(a) = {s})
        BY <1>3, <3>1, FS_Subset
      <3> QED
        BY <1>3, <1>4, <3>1, <3>2
    <2>2. PICK C \in SUBSET Point :
              s \in C /\ (Exit \in C => n = Exit)
                /\ \A m \in (C \cap Block) \ {n} : Succ(m) \subseteq C
      BY <1>1 DEF PostDominates
    <2>3. C \cup {a} \in SUBSET Point /\ a \in C \cup {a} /\ (Exit \in C \cup {a} => n = Exit)
      BY <2>2, Points
    <2>4. \A m \in ((C \cup {a}) \cap Block) \ {n} : Succ(m) \subseteq C \cup {a}
      BY <2>1, <2>2
    <2> QED
      BY <1>2, <2>3, <2>4 DEF PostDominates
  <1> QED
    BY <1>3, <1>4 DEF Branches

LEMMA ParentsAreGuards ==
    ASSUME IInv, WalkInv, stage = "done", NEW n \in Block
    PROVE  parents[n] = {a \in Block : DependsOn(n, a)}
  <1>1. TypeOK /\ WalkSound /\ WalkComplete /\ edges = {} /\ walk = Idle
    BY DEF IInv, WalkInv, ReturnsLast
  <1>2. parents[n] \subseteq Block /\ \A a \in parents[n] : DependsOn(n, a)
    BY <1>1 DEF TypeOK, WalkSound
  <1>3. ASSUME NEW a \in Block, DependsOn(n, a) PROVE a \in parents[n]
    BY <1>1, <1>3, OnlyBranchesDecide DEF WalkComplete, DependsOn
  <1> QED
    BY <1>2, <1>3

\* The guards that control_parents returns for a node are the nodes it is
\* control dependent on, on every graph.
THEOREM ParentsAreControlDependence == Spec => []ControlDependenceCorrect
  <1>1. IInv /\ WalkInv => ControlDependenceCorrect
    BY ParentsAreGuards DEF ControlDependenceCorrect
  <1> QED
    BY <1>1, SpecInv, PTL

-----------------------------------------------------------------------------
(* What runs after a node that may abort.                                  *)

\* The points from which every way to the exit meets a node of W.
Held(W) ==
    {m \in Point : \E D \in SUBSET Point :
        m \in D /\ Exit \notin D /\ \A k \in (D \cap Block) \ W : Succ(k) \subseteq D}

\* A set of nodes W that holds the guards of its members has, for every point
\* it holds up, a member that every way from there meets.
LEMMA HeldByOne ==
    ASSUME TypeOK, WellFormed, NEW W \in SUBSET Block,
           \A w \in W : \A m \in Block : DependsOn(w, m) => m \in W,
           NEW s \in Held(W)
    PROVE  \E w \in W : PostDominates(w, s)
  <1> DEFINE B == {m \in Held(W) : \A w \in W : ~PostDominates(w, m)}
  <1>1. B \in SUBSET Block /\ B \cap W = {}
    <2>1. Exit \notin Held(W)
      BY DEF Held
    <2>2. \A w \in W : PostDominates(w, w)
      BY PostDominatesReflexive, Points
    <2> QED
      BY <2>1, <2>2 DEF Held, Point
  <1>2. ASSUME NEW m \in B, NEW t \in Succ(m) PROVE t \in B
    <2>1. m \in Block /\ m \notin W
      BY <1>1
    <2>2. PICK D \in SUBSET Point :
              m \in D /\ Exit \notin D /\ \A k \in (D \cap Block) \ W : Succ(k) \subseteq D
      BY DEF Held
    <2>3. t \in D /\ t \in Held(W)
      BY <2>1, <2>2, <1>2 DEF Held
    <2>4. ASSUME NEW w \in W, PostDominates(w, t) PROVE FALSE
      <3>1. DependsOn(w, m)
        BY <1>2, <2>1, <2>4 DEF DependsOn
      <3> QED
        BY <2>1, <3>1
    <2> QED
      BY <2>3, <2>4
  <1>3. B = {}
    BY <1>1, <1>2, NoTrap
  <1> QED
    BY <1>3

\* A node from which some way on is held up by W, but not all, is in W.
LEMMA HeldFromBehind ==
    ASSUME TypeOK, WellFormed, NEW W \in SUBSET Block,
           \A w \in W : \A m \in Block : DependsOn(w, m) => m \in W,
           NEW b \in Block \ Held(W), NEW s \in Succ(b), s \in Held(W)
    PROVE  b \in W
  <1>1. PICK w \in W : PostDominates(w, s)
    BY HeldByOne
  <1>2. CASE PostDominates(w, b)
    <2>1. PICK C \in SUBSET Point :
              b \in C /\ (Exit \in C => w = Exit)
                /\ \A m \in (C \cap Block) \ {w} : Succ(m) \subseteq C
      BY <1>2 DEF PostDominates
    <2>2. Exit \notin C
      BY <2>1, Points
    <2>3. b \in Held(W)
      BY <2>1, <2>2, Points DEF Held
    <2> QED
      BY <2>3
  <1>3. CASE w = b
    BY <1>3
  <1>4. CASE w # b /\ ~PostDominates(w, b)
    BY <1>1, <1>4 DEF DependsOn
  <1> QED
    BY <1>2, <1>3, <1>4

\* A node that may abort guards, directly or not, whatever runs after it: the
\* control closure of a slice never loses a require.  If a set W holds n and
\* the guards of its members but not a, then a is not held up by W, its edge to
\* the exit is a way around; nor is what follows a, one node at a time, so that
\* n does not follow a.
THEOREM AbortsAreGuards == Spec => []AbortsGuardWhatFollows
  <1>1. IInv /\ WalkInv => AbortsGuardWhatFollows
    <2> SUFFICES ASSUME IInv, WalkInv, stage = "done", NEW a \in aborting,
                        NEW n \in Follows(a), n # a, NEW C \in SUBSET Block,
                        parents[n] \subseteq C, \A k \in C : parents[k] \subseteq C
                 PROVE  a \in C
      BY DEF AbortsGuardWhatFollows, Guards, IInv, TypeOK
    <2>1. TypeOK /\ WellFormed /\ a \in Block /\ n \in Block
      BY DEF IInv, WalkInv, TypeOK, Follows
    <2> DEFINE W == C \cup {n}
               Free == Block \ Held(W)
    <2>2. W \in SUBSET Block /\ \A w \in W : \A m \in Block : DependsOn(w, m) => m \in W
      BY <2>1, ParentsAreGuards
    <2> SUFFICES ASSUME a \notin W PROVE FALSE
      OBVIOUS
    <2>3. a \in Free
      BY <2>1 DEF Held, Succ
    <2>4. n \in Held(W)
      <3>1. {n} \in SUBSET Point /\ Exit \notin {n}
        BY <2>1, Points
      <3> QED
        BY <2>1, <3>1, Points DEF Held
    <2>5. ASSUME NEW b \in Block, b \in Free, b \notin W PROVE sons[b] \subseteq Free
      <3>1. sons[b] \subseteq Block /\ sons[b] \subseteq Succ(b)
        BY <2>1 DEF TypeOK, Succ
      <3> QED
        BY <2>1, <2>2, <2>5, <3>1, HeldFromBehind
    <2>6. Free \cap W = {}
      <3> SUFFICES ASSUME NEW w \in W PROVE w \in Held(W)
        OBVIOUS
      <3>1. {w} \in SUBSET Point /\ Exit \notin {w} /\ w \in Point
        BY <2>2, Points
      <3> QED
        BY <3>1 DEF Held
    <2>7. sons[a] \subseteq Free /\ \A b \in Free : sons[b] \subseteq Free
      BY <2>1, <2>3, <2>5, <2>6
    <2>8. n \in Free
      BY <2>7 DEF Follows
    <2> QED
      BY <2>4, <2>8
  <1> QED
    BY <1>1, SpecInv, PTL
=============================================================================
