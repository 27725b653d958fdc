------------------------- MODULE DependencyPathsProofs -------------------------
(***************************************************************************)
(* A path of dependences is right for every contract, question and budget, *)
(* and the answer is exact when the budget cannot run out.                 *)
(***************************************************************************)
EXTENDS DependencyPathsProperties, FiniteSetTheorems, SequenceTheorems, WellFoundedInduction,
        TLAPS

-----------------------------------------------------------------------------
(* Numbers and recursive functions.                                        *)

\* A set of numbers has a least one.
LEMMA LeastNumber ==
    ASSUME NEW S \in SUBSET Nat, S # {}
    PROVE  \E k \in S : \A j \in S : k <= j
  <1>1. PICK k \in S : \A j \in S : ~ (<<j, k>> \in OpToRel(<, Nat))
    BY WFMin, NatLessThanWellFounded, Zenon
  <1>2. \A j \in S : <<j, k>> \in Nat \X Nat
    OBVIOUS
  <1>3. \A j \in S : ~ (j < k)
    BY <1>1, <1>2 DEF OpToRel
  <1> QED
    BY <1>3

\* So a set that holds 0 and the successor of each of its members holds them all.
LEMMA AllNumbers ==
    ASSUME NEW S \in SUBSET Nat, 0 \in S, \A k \in S : k + 1 \in S
    PROVE  S = Nat
  <1> SUFFICES ASSUME Nat \ S # {} PROVE FALSE
    OBVIOUS
  <1>1. PICK k \in Nat \ S : \A j \in Nat \ S : k <= j
    BY LeastNumber
  <1>2. k # 0 /\ k - 1 \in Nat /\ k - 1 \notin Nat \ S
    BY <1>1
  <1> QED
    BY <1>1, <1>2

\* What is computed by applying F again and again.
Iterates(a, F, n) ==
    {h \in [0..n -> DOMAIN F] : h[0] = a /\ \A i \in 0..(n - 1) : h[i + 1] = F[h[i]]}

LEMMA IteratesExist ==
    ASSUME NEW S, NEW a \in S, NEW F \in [S -> S], NEW n \in Nat
    PROVE  Iterates(a, F, n) # {}
  <1> DEFINE N == {k \in Nat : Iterates(a, F, k) # {}}
  <1>1. 0 \in N
    <2>1. [i \in 0..0 |-> a] \in Iterates(a, F, 0)
      BY DEF Iterates
    <2> QED
      BY <2>1
  <1>2. ASSUME NEW k \in N PROVE k + 1 \in N
    <2>1. PICK h \in Iterates(a, F, k) : TRUE
      OBVIOUS
    <2> DEFINE g == [i \in 0..(k + 1) |-> IF i = k + 1 THEN F[h[k]] ELSE h[i]]
    <2>2. h \in [0..k -> S] /\ h[0] = a /\ \A i \in 0..(k - 1) : h[i + 1] = F[h[i]]
      BY <2>1 DEF Iterates
    <2>3. g \in [0..(k + 1) -> S] /\ g[0] = a
      BY <2>2
    <2>4. ASSUME NEW i \in 0..k PROVE g[i + 1] = F[g[i]]
      BY <2>2
    <2>5. g \in Iterates(a, F, k + 1)
      BY <2>3, <2>4 DEF Iterates
    <2> QED
      BY <2>5
  <1>3. N = Nat
    <2> HIDE DEF N
    <2>1. N \in SUBSET Nat
      BY DEF N
    <2> QED
      BY <1>1, <1>2, <2>1, AllNumbers
  <1> QED
    BY <1>3

LEMMA IteratesAgree ==
    ASSUME NEW S, NEW a \in S, NEW F \in [S -> S], NEW m \in Nat, NEW n \in Nat,
           NEW h \in Iterates(a, F, m), NEW g \in Iterates(a, F, n), NEW j \in 0..m, j <= n
    PROVE  h[j] = g[j]
  <1> DEFINE N == {k \in Nat : k <= m /\ k <= n => h[k] = g[k]}
  <1>1. 0 \in N
    BY DEF Iterates
  <1>2. ASSUME NEW k \in N PROVE k + 1 \in N
    <2> SUFFICES ASSUME k + 1 <= m, k + 1 <= n PROVE h[k + 1] = g[k + 1]
      OBVIOUS
    <2>1. h[k] = g[k] /\ k \in 0..(m - 1) /\ k \in 0..(n - 1)
      OBVIOUS
    <2> QED
      BY <2>1 DEF Iterates
  <1>3. N = Nat
    <2> HIDE DEF N
    <2>1. N \in SUBSET Nat
      BY DEF N
    <2> QED
      BY <1>1, <1>2, <2>1, AllNumbers
  <1> QED
    BY <1>3

\* F can be iterated for ever.
LEMMA Iteration ==
    \A S : \A a \in S, F \in [S -> S] :
        \E g \in [Nat -> S] : g[0] = a /\ \A i \in Nat : g[i + 1] = F[g[i]]
  <1> SUFFICES ASSUME NEW S, NEW a \in S, NEW F \in [S -> S]
               PROVE  \E g \in [Nat -> S] : g[0] = a /\ \A i \in Nat : g[i + 1] = F[g[i]]
    OBVIOUS
  <1> DEFINE h == [n \in Nat |-> CHOOSE f \in Iterates(a, F, n) : TRUE]
             g == [n \in Nat |-> h[n][n]]
  <1>1. \A n \in Nat : h[n] \in Iterates(a, F, n)
    BY IteratesExist
  <1>2. \A n \in Nat : h[n] \in [0..n -> S] /\ h[n][0] = a
    BY <1>1 DEF Iterates
  <1>3. g \in [Nat -> S] /\ g[0] = a
    BY <1>2
  <1>4. ASSUME NEW i \in Nat PROVE g[i + 1] = F[g[i]]
    <2>1. h[i + 1][i] = h[i][i]
      BY <1>1, IteratesAgree
    <2>2. h[i + 1][i + 1] = F[h[i + 1][i]]
      <3>1. i + 1 \in Nat /\ h[i + 1] \in Iterates(a, F, i + 1)
        BY <1>1
      <3>2. \A f \in Iterates(a, F, i + 1) : f[i + 1] = F[f[i]]
        BY DEF Iterates
      <3> QED
        BY <3>1, <3>2
    <2> QED
      BY <2>1, <2>2
  <1> QED
    BY <1>3, <1>4

-----------------------------------------------------------------------------
(* The graph.                                                              *)

\* The queries return what the type of the contract says.
LEMMA NodeTypes ==
    \A n \in Node : /\ FnOf(n) \in Fn
                    /\ GuardsOf(n) \in SUBSET Node
  BY ContractAssumption DEF ContractType, NodeInfo, FnOf, GuardsOf

LEMMA OpTypes ==
    \A o \in Op : NodeOf(o) \in Node /\ Reads(o) \in SUBSET Var
  BY ContractAssumption DEF ContractType, OpInfo, NodeOf, Reads

\* Merges lead to variables, however many of them are gone through.
LEMMA MergesType ==
    ASSUME NEW v \in Var, NEW f
    PROVE  ThroughMerges(v, f) \subseteq Var
  <1> DEFINE merges(V) == {o \in UNION {DefSite(w, f) : w \in V} : Kind(o) = "phi"}
             Step == [V \in SUBSET Var |-> V \cup UNION {Reads(o) : o \in merges(V)}]
             Grown(g) == g = [i \in Nat |->
                                IF i = 0 THEN {v}
                                ELSE LET prior == g[i - 1]
                                     IN  prior \cup UNION {Reads(o) : o \in merges(prior)}]
             grow == CHOOSE g : Grown(g)
  <1>1. \A V \in SUBSET Var : merges(V) \subseteq Op
    BY DEF DefSite, DefMap
  <1>2. Step \in [SUBSET Var -> SUBSET Var]
    BY <1>1, OpTypes
  <1>3. PICK g \in [Nat -> SUBSET Var] : g[0] = {v} /\ \A i \in Nat : g[i + 1] = Step[g[i]]
    <2> DEFINE T == SUBSET Var
               a == {v}
    <2>1. a \in T /\ Step \in [T -> T]
      BY <1>2
    <2> HIDE DEF Step, T, a, merges, Grown, grow
    <2>2. \A b \in T, F \in [T -> T] :
             \E g \in [Nat -> T] : g[0] = b /\ \A i \in Nat : g[i + 1] = F[g[i]]
      BY Iteration
    <2>3. \E g \in [Nat -> T] : g[0] = a /\ \A i \in Nat : g[i + 1] = Step[g[i]]
      BY <2>1, <2>2
    <2> QED
      BY <2>3 DEF T, a
  <1>4. Grown(g)
    <2>1. ASSUME NEW i \in Nat, i # 0
          PROVE  g[i] = g[i - 1] \cup UNION {Reads(o) : o \in merges(g[i - 1])}
      <3>1. i - 1 \in Nat /\ (i - 1) + 1 = i
        BY <2>1
      <3>2. g[i] = Step[g[i - 1]] /\ g[i - 1] \in SUBSET Var
        BY <1>3, <3>1
      <3> QED
        BY <3>2
    <2> HIDE DEF merges, Step
    <2> QED
      BY <1>3, <2>1
  <1>5. Grown(grow)
    <2> HIDE DEF Grown
    <2> QED
      BY <1>4
  <1>6. \A i \in Nat : grow[i] \subseteq Var
    <2> DEFINE N == {i \in Nat : grow[i] \subseteq Var}
    <2> HIDE DEF grow
    <2>1. 0 \in N
      BY <1>5
    <2>2. ASSUME NEW i \in N PROVE i + 1 \in N
      <3>1. grow[i + 1] = grow[i] \cup UNION {Reads(o) : o \in merges(grow[i])}
        <4>1. i + 1 \in Nat /\ i + 1 # 0 /\ (i + 1) - 1 = i
          OBVIOUS
        <4> HIDE DEF merges
        <4> QED
          BY <1>5, <4>1
      <3> QED
        BY <1>1, <3>1, OpTypes
    <2>3. N = Nat
      <3> HIDE DEF N
      <3>1. N \in SUBSET Nat
        BY DEF N
      <3> QED
        BY <2>1, <2>2, <3>1, AllNumbers
    <2> QED
      BY <2>3
  <1>7. ThroughMerges(v, f) = grow[Cardinality(Op)]
    BY DEF ThroughMerges
  <1> HIDE DEF grow
  <1> QED
    BY <1>6, <1>7, FiniteAssumption, FS_CardinalityType

Definitions == [Var -> SUBSET Node]

LEMMA ChoicesType == Choices \subseteq Definitions
  <1>1. \A v \in Var : RealDefinitions(v, Home(v)) \subseteq Node
    <2> SUFFICES ASSUME NEW v \in Var PROVE RealDefinitions(v, Home(v)) \subseteq Node
      OBVIOUS
    <2>1. UNION {DefSite(w, Home(v)) : w \in ThroughMerges(v, Home(v))} \subseteq Op
      BY MergesType DEF DefSite, DefMap
    <2> QED
      BY <2>1, OpTypes DEF RealDefinitions
  <1>2. DefinitionsOf \in Definitions
    BY <1>1 DEF DefinitionsOf, Definitions
  <1> SUFFICES ASSUME NEW D \in Choices PROVE D \in Definitions
    OBVIOUS
  <1> DEFINE merged == {v \in Var : Cardinality(DefinitionsOf[v]) > 1}
  <1>3. PICK p \in [merged -> Node] :
          D = [v \in Var |-> IF v \in merged THEN {p[v]} ELSE DefinitionsOf[v]]
    BY DEF Choices
  <1> HIDE DEF merged
  <1> QED
    BY <1>2, <1>3 DEF Definitions

LEMMA TargetsType ==
    ASSUME NEW n \in Node, NEW D \in Definitions
    PROVE  /\ DataDependencies(n, D) \subseteq Node
           /\ ControlDependencies(n) \subseteq Node
           /\ Descents(n) \subseteq Node
           /\ Ascents(n) \subseteq Node
           /\ StorageWriters(n) \subseteq Node
           /\ \A kind \in EdgeKind : Targets(n, kind, D) \subseteq Node
  <1>1. DataDependencies(n, D) \subseteq Node
    <2>1. RealReads(n) \subseteq Var
      BY OpTypes DEF RealReads, OpsOf
    <2> QED
      BY <2>1 DEF DataDependencies, Definitions
  <1>2. ControlDependencies(n) \subseteq Node
    BY NodeTypes DEF ControlDependencies
  <1>3. Descents(n) \subseteq Node
    BY DEF Descents
  <1>4. Ascents(n) \subseteq Node
    BY NodeTypes, OpTypes DEF Ascents, Callsites
  <1>5. StorageWriters(n) \subseteq Node
    BY DEF StorageWriters, WritersOf
  <1> QED
    BY <1>1, <1>2, <1>3, <1>4, <1>5 DEF Targets, EdgeKind

Crosses(kind) == kind \in {"callee", "storage-dep"}

\* A neighbour is a target of an edge of its kind, which costs a crossing or not.
LEMMA NeighborEdge ==
    ASSUME NEW n \in Node, NEW D \in Definitions, NEW cr \in Nat, NEW e \in Neighbors(n, D, cr)
    PROVE  /\ e.node \in Node /\ e.kind \in EdgeKind
           /\ e.node \in Targets(n, e.kind, D)
           /\ e.cr = cr + (IF Crosses(e.kind) THEN 1 ELSE 0)
           /\ Crosses(e.kind) => ~OneFunction /\ cr < query.depth
  <1> USE DEF Neighbors, Successors, Edges, CrossingAllowed, Targets, EdgeKind, Crosses
  <1>1. /\ e.kind \in EdgeKind
        /\ e.node \in Targets(n, e.kind, D)
        /\ e.cr = cr + (IF Crosses(e.kind) THEN 1 ELSE 0)
        /\ Crosses(e.kind) => ~OneFunction /\ cr < query.depth
    OBVIOUS
  <1> QED
    BY <1>1, TargetsType

-----------------------------------------------------------------------------
(* Trails.                                                                 *)

Hop == [node: Node, kind: EdgeKind \cup {"seed"}]
Hops == Seq(Hop) \ {<<>>}
Predecessors == [Node -> [from: SUBSET Node, kind: EdgeKind \cup {"none", "seed"}]]

\* s leads from a to n over edges that the predecessors p record, and through
\* no node twice.
Trail(s, a, n, p, D) ==
    /\ s[1] = [node |-> a, kind |-> "seed"] /\ p[a] = Seed
    /\ s[Len(s)].node = n
    /\ \A i \in 2..Len(s) : /\ p[s[i].node] = Via(s[i-1].node, s[i].kind)
                            /\ s[i].kind \in EdgeKind
                            /\ s[i].node \in Targets(s[i-1].node, s[i].kind, D)
    /\ \A i, j \in DOMAIN s : s[i].node = s[j].node => i = j

LEMMA ViaSeen ==
    \A n, kind : Via(n, kind) # NotSeen /\ Via(n, kind) # Seed /\ Via(n, kind).from = {n}
                  /\ Via(n, kind).kind = kind
  <1>1. \A n, kind : Via(n, kind).from = {n} /\ Via(n, kind).kind = kind
    BY DEF Via
  <1>2. NotSeen.from = {} /\ Seed.from = {}
    BY DEF NotSeen, Seed
  <1>3. \A n : {n} # {}
    OBVIOUS
  <1> QED
    BY <1>1, <1>2, <1>3

HopTo(n, kind) == [node |-> n, kind |-> kind]

LEMMA HopsFacts ==
    ASSUME NEW s \in Hops
    PROVE  /\ Len(s) \in Nat \ {0} /\ DOMAIN s = 1..Len(s)
           /\ \A i \in 1..Len(s) : s[i] \in Hop /\ s[i].node \in Node
           /\ \A h \in Hop : /\ Append(s, h) \in Hops
                             /\ Len(Append(s, h)) = Len(s) + 1
                             /\ DOMAIN Append(s, h) = 1..(Len(s) + 1)
                             /\ Append(s, h)[Len(s) + 1] = h
                             /\ \A i \in 1..Len(s) : Append(s, h)[i] = s[i]
  <1>1. s \in Seq(Hop) /\ s # <<>>
    BY DEF Hops
  <1>2. Len(s) \in Nat \ {0} /\ DOMAIN s = 1..Len(s)
    BY <1>1
  <1>3. \A i \in 1..Len(s) : s[i] \in Hop /\ s[i].node \in Node
    <2>1. \A i \in 1..Len(s) : s[i] \in Hop
      BY <1>1, <1>2
    <2>2. \A h \in Hop : h.node \in Node
      BY DEF Hop
    <2> QED
      BY <2>1, <2>2
  <1>4. \A h \in Hop : Append(s, h) \in Seq(Hop) /\ Append(s, h) # <<>>
    BY <1>1
  <1>5. \A h \in Hop : /\ Len(Append(s, h)) = Len(s) + 1
                       /\ DOMAIN Append(s, h) = 1..(Len(s) + 1)
                       /\ Append(s, h)[Len(s) + 1] = h
                       /\ \A i \in 1..Len(s) : Append(s, h)[i] = s[i]
    BY <1>1, <1>2
  <1> QED
    BY <1>2, <1>3, <1>4, <1>5 DEF Hops

\* A node that is seen anew breaks no trail, for none goes through it ...
LEMMA TrailKept ==
    ASSUME NEW s \in Hops, NEW a \in Node, NEW n \in Node, NEW p \in Predecessors, NEW D,
           Trail(s, a, n, p, D), NEW x \in Node, p[x] = NotSeen, NEW y
    PROVE  Trail(s, a, n, [p EXCEPT ![x] = y], D)
  <1> DEFINE q == [p EXCEPT ![x] = y]
  <1>1. \A m \in Node : m # x => q[m] = p[m]
    BY DEF Predecessors
  <1>2. a # x
    BY DEF Trail, Seed, NotSeen
  <1>3. \A i \in 2..Len(s) : s[i].node \in Node /\ s[i].node # x
    <2> SUFFICES ASSUME NEW i \in 2..Len(s) PROVE s[i].node \in Node /\ s[i].node # x
      OBVIOUS
    <2>1. i \in 1..Len(s)
      OBVIOUS
    <2>2. s[i].node \in Node
      BY <2>1, HopsFacts
    <2>3. p[s[i].node] = Via(s[i-1].node, s[i].kind)
      BY DEF Trail
    <2> QED
      BY <2>2, <2>3, ViaSeen
  <1> HIDE DEF q
  <1>4. q[a] = Seed
    BY <1>1, <1>2 DEF Trail
  <1>5. \A i \in 2..Len(s) : q[s[i].node] = p[s[i].node]
    BY <1>1, <1>3
  <1>6. Trail(s, a, n, q, D)
    BY <1>4, <1>5 DEF Trail
  <1> QED
    BY <1>6 DEF q

\* ... and the trail to the node that it was seen from leads on to it.
LEMMA TrailExtended ==
    ASSUME NEW s \in Hops, NEW a \in Node, NEW n \in Node, NEW p \in Predecessors, NEW D,
           Trail(s, a, n, p, D), NEW x \in Node, p[x] = NotSeen,
           NEW kind \in EdgeKind, x \in Targets(n, kind, D)
    PROVE  Trail(Append(s, HopTo(x, kind)), a, x, [p EXCEPT ![x] = Via(n, kind)], D)
  <1> DEFINE q == [p EXCEPT ![x] = Via(n, kind)]
             h == HopTo(x, kind)
             t == Append(s, h)
  <1>0. h \in Hop /\ h.node = x /\ h.kind = kind
    BY DEF Hop, HopTo
  <1>1. /\ t \in Hops /\ Len(t) = Len(s) + 1 /\ t[Len(s) + 1] = h
        /\ DOMAIN t = 1..(Len(s) + 1)
        /\ \A i \in 1..Len(s) : t[i] = s[i]
    BY <1>0, HopsFacts
  <1>2. Trail(s, a, n, q, D)
    BY TrailKept
  <1>3. q[x] = Via(n, kind)
    BY DEF Predecessors
  <1>4. \A i \in 1..Len(s) : s[i].node # x
    <2> SUFFICES ASSUME NEW i \in 1..Len(s), s[i].node = x PROVE FALSE
      OBVIOUS
    <2>1. CASE i = 1
      BY <2>1 DEF Trail, Seed, NotSeen
    <2>2. CASE i \in 2..Len(s)
      <3>1. p[s[i].node] = Via(s[i-1].node, s[i].kind)
        BY <2>2 DEF Trail
      <3> QED
        BY <2>2, <3>1, ViaSeen
    <2> QED
      BY <2>1, <2>2, HopsFacts
  <1>5. Len(s) \in Nat \ {0} /\ DOMAIN s = 1..Len(s)
    BY HopsFacts
  <1> HIDE DEF q, t, h
  <1>6. t[1] = [node |-> a, kind |-> "seed"] /\ q[a] = Seed /\ t[Len(t)].node = x
    BY <1>0, <1>1, <1>2, <1>5 DEF Trail
  <1>7. \A i \in 2..Len(t) : /\ q[t[i].node] = Via(t[i-1].node, t[i].kind)
                             /\ t[i].kind \in EdgeKind
                             /\ t[i].node \in Targets(t[i-1].node, t[i].kind, D)
    <2> SUFFICES ASSUME NEW i \in 2..Len(t)
                 PROVE  /\ q[t[i].node] = Via(t[i-1].node, t[i].kind)
                        /\ t[i].kind \in EdgeKind
                        /\ t[i].node \in Targets(t[i-1].node, t[i].kind, D)
      OBVIOUS
    <2>1. CASE i = Len(s) + 1
      <3>1. t[i] = h /\ t[i - 1] = s[Len(s)] /\ s[Len(s)].node = n
        BY <1>1, <1>2, <1>5, <2>1 DEF Trail
      <3> QED
        BY <1>0, <1>3, <3>1
    <2>2. CASE i \in 2..Len(s)
      <3>1. t[i] = s[i] /\ t[i - 1] = s[i - 1]
        BY <1>1, <1>5, <2>2
      <3> QED
        BY <1>2, <2>2, <3>1 DEF Trail
    <2> QED
      BY <1>1, <1>5, <2>1, <2>2
  <1>8. \A i, j \in DOMAIN t : t[i].node = t[j].node => i = j
    <2>1. \A i, j \in 1..Len(s) : s[i].node = s[j].node => i = j
      BY <1>2, <1>5 DEF Trail
    <2> QED
      BY <1>0, <1>1, <1>4, <1>5, <2>1
  <1>9. Trail(t, a, x, q, D)
    BY <1>6, <1>7, <1>8 DEF Trail
  <1> QED
    BY <1>9 DEF q, t, h

\* A trail has no more hops than there are nodes.
LEMMA TrailIsShort ==
    ASSUME NEW s \in Hops, NEW a, NEW n, NEW p, NEW D, Trail(s, a, n, p, D)
    PROVE  Len(s) <= Cardinality(Node)
  <1> DEFINE f == [i \in 1..Len(s) |-> s[i].node]
  <1>1. f \in [1..Len(s) -> Node]
    BY HopsFacts
  <1>2. \A i, j \in 1..Len(s) : f[i] = f[j] => i = j
    BY HopsFacts DEF Trail
  <1>3. f \in Injection(1..Len(s), Node)
    BY <1>1, <1>2 DEF Injection, IsInjective
  <1>4. Cardinality(1..Len(s)) <= Cardinality(Node)
    <2> HIDE DEF f
    <2> QED
      BY <1>3, FiniteAssumption, FS_Injection
  <1> QED
    BY <1>4, FS_Interval, HopsFacts

\* The predecessors lead back along the trail.
LEMMA ChainIsTrail ==
    ASSUME NEW s \in Hops, NEW a \in Node, Target \in Node, NEW p \in Predecessors, NEW D,
           Trail(s, a, Target, p, D)
    PROVE  Chain(p) = s
  <1> DEFINE last == Len(s)
             w == [i \in Nat |-> IF i < last THEN SubSeq(s, last - i, last) ELSE s]
             start == <<[node |-> Target, kind |-> p[Target].kind]>>
             Before(n) == CHOOSE m \in p[n].from : TRUE
             Step(sofar) ==
               IF p[sofar[1].node] = Seed THEN sofar
               ELSE <<[node |-> Before(sofar[1].node), kind |-> p[Before(sofar[1].node)].kind]>>
                      \o sofar
             Back(g) == g = [i \in Nat |-> IF i = 0 THEN start ELSE Step(g[i - 1])]
             back == CHOOSE g : Back(g)
  <1>1. last \in Nat \ {0} /\ s \in Seq(Hop) /\ DOMAIN s = 1..last
        /\ \A i \in 1..last : s[i] \in Hop
    BY HopsFacts DEF Hops
  <1>2. \A i \in 1..last : s[i] = [node |-> s[i].node, kind |-> s[i].kind]
    BY <1>1 DEF Hop
  <1>3. \A i \in 1..last : p[s[i].node].kind = s[i].kind
    <2>1. p[s[1].node].kind = s[1].kind
      BY DEF Trail, Seed
    <2>2. ASSUME NEW i \in 2..last PROVE p[s[i].node].kind = s[i].kind
      BY ViaSeen DEF Trail
    <2> QED
      BY <1>1, <2>1, <2>2
  <1>4. w[0] = start
    <2>1. SubSeq(s, last, last) = <<s[last]>>
      <3>1. SubSeq(s, last, last) = <<s[last]>> \o SubSeq(s, last + 1, last)
        BY <1>1, SubSeqRecursiveFirst
      <3>2. SubSeq(s, last + 1, last) = <<>>
        BY <1>1, SubSeqEmpty
      <3>3. <<s[last]>> \in Seq(Hop)
        BY <1>1
      <3> QED
        BY <3>1, <3>2, <3>3, ConcatEmptySeq
    <2>2. s[last].node = Target /\ s[last] = [node |-> Target, kind |-> p[Target].kind]
      BY <1>1, <1>2, <1>3 DEF Trail
    <2>3. w[0] = SubSeq(s, last, last)
      BY <1>1
    <2> QED
      BY <2>1, <2>2, <2>3
  <1>5. ASSUME NEW i \in Nat PROVE w[i + 1] = Step(w[i])
    <2>1. CASE i + 1 < last
      <3> DEFINE k == last - i
      <3>1. k \in 2..last /\ k - 1 \in 1..last
        BY <1>1, <2>1
      <3>2. w[i] = SubSeq(s, k, last) /\ w[i + 1] = SubSeq(s, k - 1, last)
        BY <1>1, <2>1
      <3>3. SubSeq(s, k, last)[1] = s[k]
        <4>1. \A j \in k..last : s[j] \in Hop
          BY <1>1, <3>1
        <4>2. k \in Int /\ last \in Int /\ 1 \in 1..(last - k + 1) /\ k + 1 - 1 = k
          BY <1>1, <3>1
        <4> QED
          BY <4>1, <4>2, SubSeqProperties
      <3>4. p[s[k].node] = Via(s[k - 1].node, s[k].kind)
        BY <3>1 DEF Trail
      <3>5. Before(s[k].node) = s[k - 1].node /\ p[s[k].node] # Seed
        BY <3>4, ViaSeen
      <3>6. SubSeq(s, k - 1, last) = <<s[k - 1]>> \o SubSeq(s, k, last)
        <4>1. last \in (k - 1)..last /\ (k - 1) + 1 = k
          BY <3>1
        <4> QED
          BY <1>1, <3>1, <4>1, SubSeqRecursiveFirst
      <3>7. s[k - 1] = [node |-> s[k - 1].node, kind |-> p[s[k - 1].node].kind]
        BY <1>2, <1>3, <3>1
      <3> HIDE DEF k, w, Before
      <3> QED
        BY <3>2, <3>3, <3>5, <3>6, <3>7
    <2>2. CASE i + 1 >= last
      <3>1. w[i] = s
        <4>1. CASE i = last - 1
          <5>1. w[i] = SubSeq(s, 1, last)
            BY <1>1, <4>1
          <5> QED
            BY <1>1, <5>1, SubSeqFull
        <4>2. CASE i >= last
          BY <4>2, <1>1
        <4>3. i = last - 1 \/ i >= last
          <5>1. last \in Nat \ {0}
            BY <1>1
          <5> HIDE DEF last, w
          <5> QED
            BY <2>2, <5>1
        <4> HIDE DEF w, last
        <4> QED
          BY <4>1, <4>2, <4>3
      <3>2. w[i + 1] = s
        BY <1>1, <2>2
      <3>3. p[s[1].node] = Seed
        BY DEF Trail
      <3> HIDE DEF w
      <3> QED
        BY <3>1, <3>2, <3>3
    <2>3. i + 1 < last \/ i + 1 >= last
      BY <1>1
    <2> HIDE DEF w, last, Step
    <2> QED
      BY <2>1, <2>2, <2>3
  <1>6. w[Cardinality(Node)] = s
    <2>1. Cardinality(Node) \in Nat /\ last <= Cardinality(Node)
      BY TrailIsShort, FiniteAssumption, FS_CardinalityType
    <2> QED
      BY <1>1, <2>1
  <1>7. Chain(p) = back[Cardinality(Node)]
    BY DEF Chain
  <1>8. Back(back)
    <2>1. ASSUME NEW i \in Nat, i # 0 PROVE w[i] = Step(w[i - 1])
      <3>1. i - 1 \in Nat /\ (i - 1) + 1 = i
        BY <2>1
      <3> HIDE DEF w, Step
      <3> QED
        BY <3>1, <1>5
    <2>2. w = [i \in Nat |-> w[i]]
      OBVIOUS
    <2>3. Back(w)
      <3> HIDE DEF w, Step, start
      <3> QED
        BY <1>4, <2>1, <2>2
    <2> HIDE DEF Back
    <2> QED
      BY <2>3
  <1> HIDE DEF back, w, Step, start
  <1>9. \A i \in Nat : back[i] = w[i]
    <2> DEFINE N == {i \in Nat : back[i] = w[i]}
    <2>1. 0 \in N
      BY <1>4, <1>8
    <2>2. ASSUME NEW i \in N PROVE i + 1 \in N
      <3>1. i + 1 \in Nat /\ i + 1 # 0 /\ (i + 1) - 1 = i
        OBVIOUS
      <3>2. back[i + 1] = Step(back[i])
        BY <1>8, <3>1
      <3> QED
        BY <1>5, <3>1, <3>2
    <2>3. N = Nat
      <3> HIDE DEF N
      <3>1. N \in SUBSET Nat
        BY DEF N
      <3> QED
        BY <2>1, <2>2, <3>1, AllNumbers
    <2> QED
      BY <2>3
  <1> QED
    BY <1>6, <1>7, <1>9, FiniteAssumption, FS_CardinalityType

\* The crossings of a trail: fewer than its hops, and counted hop by hop.
LEMMA CrossingsFacts ==
    ASSUME NEW s \in Hops
    PROVE  /\ Crossings(s) \in Nat
           /\ s[1].kind = "seed" => Crossings(s) < Len(s)
           /\ Crossings(s) = 0 => \A i \in 1..Len(s) : ~Crosses(s[i].kind)
           /\ \A h \in Hop : Crossings(Append(s, h)) =
                               Crossings(s) + IF Crosses(h.kind) THEN 1 ELSE 0
  <1> DEFINE C == {i \in DOMAIN s : s[i].kind \in {"callee", "storage-dep"}}
  <1>1. Len(s) \in Nat \ {0} /\ DOMAIN s = 1..Len(s)
    BY HopsFacts
  <1>2. IsFiniteSet(1..Len(s)) /\ IsFiniteSet(2..Len(s)) /\ Cardinality(2..Len(s)) = Len(s) - 1
    BY <1>1, FS_Interval
  <1>3. C \in SUBSET (1..Len(s)) /\ Crossings(s) = Cardinality(C)
    BY <1>1 DEF Crossings
  <1>4. IsFiniteSet(C) /\ Cardinality(C) \in Nat
    <2> HIDE DEF C
    <2> QED
      BY <1>2, <1>3, FS_Subset, FS_CardinalityType
  <1>5. ASSUME s[1].kind = "seed" PROVE Crossings(s) < Len(s)
    <2>1. C \in SUBSET (2..Len(s))
      BY <1>1, <1>5
    <2>2. Cardinality(C) <= Len(s) - 1
      <3> HIDE DEF C
      <3> QED
        BY <1>2, <2>1, FS_Subset
    <2> HIDE DEF C
    <2> QED
      BY <1>1, <1>3, <1>4, <2>2
  <1>6. ASSUME Crossings(s) = 0 PROVE \A i \in 1..Len(s) : ~Crosses(s[i].kind)
    <2>1. C = {}
      <3> HIDE DEF C
      <3> QED
        BY <1>3, <1>4, <1>6, FS_EmptySet
    <2> QED
      BY <1>1, <2>1 DEF Crosses
  <1>7. ASSUME NEW h \in Hop
        PROVE  Crossings(Append(s, h)) = Crossings(s) + IF Crosses(h.kind) THEN 1 ELSE 0
    <2> DEFINE t == Append(s, h)
               E == {i \in DOMAIN t : t[i].kind \in {"callee", "storage-dep"}}
    <2>1. /\ DOMAIN t = 1..(Len(s) + 1) /\ t[Len(s) + 1] = h
          /\ \A i \in 1..Len(s) : t[i] = s[i]
      BY HopsFacts
    <2>2. Crossings(t) = Cardinality(E)
      BY DEF Crossings
    <2> HIDE DEF t
    <2>3. CASE Crosses(h.kind)
      <3>1. E = C \cup {Len(s) + 1} /\ Len(s) + 1 \notin C
        BY <1>1, <2>1, <2>3 DEF Crosses
      <3> HIDE DEF E, C
      <3>2. Cardinality(E) = Cardinality(C) + 1
        BY <1>4, <3>1, FS_AddElement
      <3> QED
        BY <1>3, <2>2, <2>3, <3>2 DEF t
    <2>4. CASE ~Crosses(h.kind)
      <3>1. E = C
        BY <1>1, <2>1, <2>4 DEF Crosses
      <3> HIDE DEF E, C
      <3> QED
        BY <1>3, <1>4, <2>2, <2>4, <3>1 DEF t
    <2> QED
      BY <2>3, <2>4
  <1> QED
    BY <1>3, <1>4, <1>5, <1>6, <1>7

\* The trail of no hop at all.
LEMMA FirstTrail ==
    ASSUME NEW a \in Node
    PROVE  LET s == <<HopTo(a, "seed")>>
           IN  /\ s \in Hops /\ Len(s) = 1 /\ Crossings(s) = 0
               /\ \A p, D : p[a] = Seed => Trail(s, a, a, p, D)
  <1> DEFINE s == <<HopTo(a, "seed")>>
  <1>1. HopTo(a, "seed") \in Hop
    BY DEF HopTo, Hop
  <1>2. s \in Hops /\ Len(s) = 1 /\ DOMAIN s = 1..1 /\ s[1] = HopTo(a, "seed")
    BY <1>1 DEF Hops
  <1>3. Crossings(s) = 0
    <2>1. s[1].kind = "seed"
      BY <1>2 DEF HopTo
    <2> HIDE DEF s
    <2>2. Crossings(s) \in Nat /\ Crossings(s) < Len(s)
      BY <1>2, <2>1, CrossingsFacts
    <2> QED
      BY <1>2, <2>2
  <1>4. \A p, D : p[a] = Seed => Trail(s, a, a, p, D)
    BY <1>2 DEF Trail, HopTo
  <1> QED
    BY <1>2, <1>3, <1>4

\* Only the trail of no hop comes back to its first node.
LEMMA TrailToStart ==
    ASSUME NEW s \in Hops, NEW a, NEW p, NEW D, Trail(s, a, a, p, D)
    PROVE  Len(s) = 1
  <1>1. Len(s) \in Nat \ {0} /\ DOMAIN s = 1..Len(s)
    BY HopsFacts
  <1>2. s[1].node = s[Len(s)].node
    BY DEF Trail
  <1> QED
    BY <1>1, <1>2 DEF Trail

-----------------------------------------------------------------------------
(* Levels: a node that waits is as far as the one that is expanded, or one *)
(* hop further, and the others have been dealt with.                       *)

Entry == [node: Node, cr: Nat]
Edge == [node: Node, kind: EdgeKind, cr: Nat, place: 1..5]

\* L the hops to a node, seen the nodes met, q the queue, cur the node that is
\* expanded, td what is left of it, nb the neighbours of a node.
Levels(L, seen, q, cur, td, nb) ==
    /\ \A i, j \in DOMAIN q : i < j => L[q[i].node] <= L[q[j].node]
    /\ \A i \in DOMAIN q : /\ q[i].node \in seen
                           /\ L[cur] <= L[q[i].node] /\ L[q[i].node] <= L[cur] + 1
    /\ \A n \in seen :
          \/ \E i \in DOMAIN q : q[i].node = n
          \/ /\ L[n] <= L[cur]
             /\ \A e \in nb[n] : \/ n = cur /\ e \in td
                                 \/ e.node \in seen /\ L[e.node] <= L[n] + 1

LEMMA LevelsExpand ==
    ASSUME NEW L \in [Node -> Nat], NEW seen \in SUBSET Node, NEW q \in Seq(Entry),
           NEW cur \in Node, NEW nb, Levels(L, seen, q, cur, {}, nb), q # <<>>
    PROVE  Levels(L, seen, Tail(q), Head(q).node, nb[Head(q).node], nb)
  <1> DEFINE r == Tail(q)
             new == Head(q).node
  <1>1. /\ Len(q) \in Nat \ {0} /\ DOMAIN q = 1..Len(q) /\ Head(q) = q[1]
        /\ DOMAIN r = 1..(Len(q) - 1) /\ \A i \in DOMAIN r : r[i] = q[i + 1]
    BY HeadTailProperties
  <1>2. \A i \in DOMAIN q : q[i].node \in Node
    <2>1. \A i \in DOMAIN q : q[i] \in Entry
      OBVIOUS
    <2>2. \A x \in Entry : x.node \in Node
      BY DEF Entry
    <2> QED
      BY <2>1, <2>2
  <1>3. new = q[1].node /\ new \in Node
    BY <1>1, <1>2
  <1> HIDE DEF r, new
  <1>4. \A i, j \in DOMAIN r : i < j => L[r[i].node] <= L[r[j].node]
    BY <1>1 DEF Levels
  <1>5. \A i \in DOMAIN r : /\ r[i].node \in seen
                            /\ L[new] <= L[r[i].node] /\ L[r[i].node] <= L[new] + 1
    <2> SUFFICES ASSUME NEW i \in DOMAIN r
                 PROVE  /\ r[i].node \in seen
                        /\ L[new] <= L[r[i].node] /\ L[r[i].node] <= L[new] + 1
      OBVIOUS
    <2>1. i + 1 \in DOMAIN q /\ 1 \in DOMAIN q /\ 1 < i + 1 /\ r[i] = q[i + 1]
      BY <1>1
    <2>2. /\ q[i + 1].node \in seen /\ L[q[1].node] <= L[q[i + 1].node]
          /\ L[q[i + 1].node] <= L[cur] + 1 /\ L[cur] <= L[q[1].node]
      BY <2>1 DEF Levels
    <2>3. L[q[i + 1].node] \in Nat /\ L[q[1].node] \in Nat /\ L[cur] \in Nat
      BY <1>2, <2>1
    <2> QED
      BY <1>3, <2>1, <2>2, <2>3
  <1>6. ASSUME NEW n \in seen
        PROVE  \/ \E i \in DOMAIN r : r[i].node = n
               \/ /\ L[n] <= L[new]
                  /\ \A e \in nb[n] : \/ n = new /\ e \in nb[new]
                                      \/ e.node \in seen /\ L[e.node] <= L[n] + 1
    <2>1. CASE n = new
      <3>1. L[n] <= L[new]
        BY <1>3, <2>1
      <3> QED
        BY <2>1, <3>1
    <2>2. CASE n # new /\ \E i \in DOMAIN q : q[i].node = n
      <3>1. PICK i \in DOMAIN q : q[i].node = n
        BY <2>2
      <3>2. i # 1 /\ i - 1 \in DOMAIN r /\ r[i - 1] = q[i]
        BY <1>1, <1>3, <2>2, <3>1
      <3> QED
        BY <3>1, <3>2
    <2>3. CASE ~ \E i \in DOMAIN q : q[i].node = n
      <3>1. /\ L[n] <= L[cur]
            /\ \A e \in nb[n] : e.node \in seen /\ L[e.node] <= L[n] + 1
        BY <2>3 DEF Levels
      <3>2. L[cur] <= L[new]
        BY <1>1, <1>3 DEF Levels
      <3>3. L[n] <= L[new]
        BY <1>3, <3>1, <3>2
      <3> QED
        BY <3>1, <3>3
    <2> QED
      BY <2>1, <2>2, <2>3
  <1>7. Levels(L, seen, r, new, nb[new], nb)
    BY <1>4, <1>5, <1>6 DEF Levels
  <1> QED
    BY <1>7 DEF r, new

\* A neighbour that was met before is no further than the next level.
LEMMA LevelsSkip ==
    ASSUME NEW L \in [Node -> Nat], NEW seen \in SUBSET Node, NEW q \in Seq(Entry),
           NEW cur \in Node, NEW td, NEW nb, Levels(L, seen, q, cur, td, nb),
           NEW e \in td, e.node \in seen
    PROVE  Levels(L, seen, q, cur, td \ {e}, nb)
  <1>1. L[e.node] <= L[cur] + 1
    <2>1. CASE \E i \in DOMAIN q : q[i].node = e.node
      BY <2>1 DEF Levels
    <2>2. CASE ~ \E i \in DOMAIN q : q[i].node = e.node
      <3>1. L[e.node] <= L[cur]
        BY <2>2 DEF Levels
      <3> QED
        BY <3>1
    <2> QED
      BY <2>1, <2>2
  <1> QED
    BY <1>1 DEF Levels

LEMMA LevelsDiscover ==
    ASSUME NEW L \in [Node -> Nat], NEW seen \in SUBSET Node, NEW q \in Seq(Entry),
           NEW cur \in seen, NEW td, NEW nb, Levels(L, seen, q, cur, td, nb),
           NEW e \in td, e.node \in Node, e.node \notin seen,
           NEW M \in [Node -> Nat], M[e.node] = L[cur] + 1, \A n \in seen : M[n] = L[n],
           NEW nc, \A n \in seen : nc[n] = nb[n],
           NEW x \in Entry, x.node = e.node
    PROVE  Levels(M, seen \cup {e.node}, Append(q, x), cur, td \ {e}, nc)
  <1> DEFINE r == Append(q, x)
             met == seen \cup {e.node}
  <1>1. /\ Len(q) \in Nat /\ DOMAIN q = 1..Len(q)
        /\ DOMAIN r = 1..(Len(q) + 1) /\ r[Len(q) + 1] = x
        /\ \A i \in DOMAIN q : r[i] = q[i] /\ q[i].node \in seen
    <2>1. \A i \in DOMAIN q : q[i].node \in seen
      BY DEF Levels
    <2>2. /\ Len(q) \in Nat /\ DOMAIN q = 1..Len(q)
          /\ DOMAIN r = 1..(Len(q) + 1) /\ r[Len(q) + 1] = x
          /\ \A i \in DOMAIN q : r[i] = q[i]
      OBVIOUS
    <2> QED
      BY <2>1, <2>2
  <1>2. M[cur] = L[cur] /\ L[cur] \in Nat
    OBVIOUS
  <1> HIDE DEF r
  <1>3. \A i \in DOMAIN r : /\ r[i].node \in met
                            /\ M[cur] <= M[r[i].node] /\ M[r[i].node] <= M[cur] + 1
    <2>1. ASSUME NEW i \in DOMAIN q
          PROVE  /\ r[i].node \in met
                 /\ M[cur] <= M[r[i].node] /\ M[r[i].node] <= M[cur] + 1
      BY <1>1, <1>2 DEF Levels
    <2>2. /\ x.node \in met
          /\ M[cur] <= M[x.node] /\ M[x.node] <= M[cur] + 1
      BY <1>2
    <2> QED
      BY <1>1, <2>1, <2>2
  <1>4. \A i, j \in DOMAIN r : i < j => M[r[i].node] <= M[r[j].node]
    <2> SUFFICES ASSUME NEW i \in DOMAIN r, NEW j \in DOMAIN r, i < j
                 PROVE  M[r[i].node] <= M[r[j].node]
      OBVIOUS
    <2>1. i \in DOMAIN q /\ r[i] = q[i] /\ M[r[i].node] = L[q[i].node]
      BY <1>1
    <2>2. CASE j \in DOMAIN q
      <3>1. M[r[j].node] = L[q[j].node]
        BY <1>1, <2>2
      <3> QED
        BY <2>1, <2>2, <3>1 DEF Levels
    <2>3. CASE j = Len(q) + 1
      <3>1. M[r[j].node] = M[cur] + 1
        BY <1>1, <1>2, <2>3
      <3> QED
        BY <1>3, <3>1
    <2> QED
      BY <1>1, <2>2, <2>3
  <1>5. ASSUME NEW n \in met
        PROVE  \/ \E i \in DOMAIN r : r[i].node = n
               \/ /\ M[n] <= M[cur]
                  /\ \A d \in nc[n] : \/ n = cur /\ d \in td \ {e}
                                      \/ d.node \in met /\ M[d.node] <= M[n] + 1
    <2>1. CASE n = e.node
      BY <1>1, <2>1
    <2>2. CASE n \in seen /\ \E i \in DOMAIN q : q[i].node = n
      BY <1>1, <2>2
    <2>3. CASE n \in seen /\ ~ \E i \in DOMAIN q : q[i].node = n
      <3>1. /\ L[n] <= L[cur]
            /\ \A d \in nb[n] : \/ n = cur /\ d \in td
                                \/ d.node \in seen /\ L[d.node] <= L[n] + 1
        BY <2>3 DEF Levels
      <3>2. M[n] = L[n] /\ nc[n] = nb[n]
        BY <2>3
      <3>3. ASSUME NEW d \in nc[n]
            PROVE  \/ n = cur /\ d \in td \ {e}
                   \/ d.node \in met /\ M[d.node] <= M[n] + 1
        <4>1. CASE d = e /\ n = cur
          BY <1>2, <4>1
        <4>2. CASE d # e \/ n # cur
          BY <3>1, <3>2, <4>2
        <4> QED
          BY <4>1, <4>2
      <3> QED
        BY <1>2, <3>1, <3>2, <3>3
    <2> QED
      BY <2>1, <2>2, <2>3
  <1>6. Levels(M, met, r, cur, td \ {e}, nc)
    BY <1>3, <1>4, <1>5 DEF Levels
  <1> QED
    BY <1>6 DEF r

-----------------------------------------------------------------------------
(* The reference, when the budget cannot run out.                          *)

\* What is one hop away.
Onward(n, D) ==
    DataDependencies(n, D) \cup ControlDependencies(n)
      \cup IF SameFunction THEN {} ELSE Targets(n, "callee", D) \cup StorageWriters(n)

LEMMA OnwardType ==
    ASSUME NEW n \in Node, NEW D \in Definitions
    PROVE  Onward(n, D) \subseteq Node
  BY TargetsType DEF Onward, EdgeKind

LEMMA BudgetType ==
    ASSUME query \in Query
    PROVE  /\ Budget \in Nat
           /\ Generous /\ ~SameFunction => Budget >= Cardinality(Node)
           /\ SameFunction => Budget = 0
           /\ Cardinality(Node) \in Nat \ {0} /\ query.a \in Node /\ query.b \in Node
           /\ query.depth \in Nat
  <1>1. query.a \in Node /\ query.b \in Node /\ query.depth \in Nat
    BY DepthsAssumption DEF Query
  <1>2. Cardinality(Node) \in Nat /\ Cardinality(Node) # 0
    BY <1>1, FiniteAssumption, FS_CardinalityType, FS_EmptySet
  <1> QED
    BY <1>1, <1>2 DEF Budget, Generous

\* The pairs of the reference all have no crossing to count.
Flat(N) == N \X {0}

LEMMA FlatFacts ==
    /\ \A A, B : Flat(A) \cup Flat(B) = Flat(A \cup B)
    /\ \A A, B : Flat(A) \ Flat(B) = Flat(A \ B)
    /\ \A A : {s[1] : s \in Flat(A)} = A
    /\ \A x : {<<x, 0>>} = Flat({x})
  <1>1. \A A, B : Flat(A) \cup Flat(B) = Flat(A \cup B)
    BY DEF Flat
  <1>2. \A A, B : Flat(A) \ Flat(B) = Flat(A \ B)
    BY DEF Flat
  <1>3. \A A : {s[1] : s \in Flat(A)} = A
    <2> SUFFICES ASSUME NEW A PROVE {s[1] : s \in Flat(A)} = A
      OBVIOUS
    <2>1. {s[1] : s \in Flat(A)} \subseteq A
      BY DEF Flat
    <2>2. ASSUME NEW x \in A PROVE x \in {s[1] : s \in Flat(A)}
      <3>1. <<x, 0>> \in Flat(A) /\ <<x, 0>>[1] = x
        BY DEF Flat
      <3> QED
        BY <3>1
    <2> QED
      BY <2>1, <2>2
  <1>4. \A x : {<<x, 0>>} = Flat({x})
    BY DEF Flat
  <1> QED
    BY <1>1, <1>2, <1>3, <1>4

LEMMA HopsFlat ==
    ASSUME query \in Query, Generous, NEW D \in Definitions, NEW N \in SUBSET Node
    PROVE  HopsFrom(Flat(N), D, Budget) = Flat(UNION {Onward(n, D) : n \in N})
  <1> DEFINE S == Flat(N)
             Free(n) == DataDependencies(n, D) \cup ControlDependencies(n)
             Paid(n) == Targets(n, "callee", D) \cup StorageWriters(n)
  <1>1. \A s \in S : s[1] \in N /\ s[2] = 0
    BY DEF Flat
  <1>2. \A n \in N : <<n, 0>> \in S
    BY DEF Flat
  <1>3. UNION {{<<m, s[2]>> : m \in Free(s[1])} : s \in S} = Flat(UNION {Free(n) : n \in N})
    <2> HIDE DEF Free
    <2>1. UNION {{<<m, s[2]>> : m \in Free(s[1])} : s \in S}
            = UNION {{<<m, 0>> : m \in Free(n)} : n \in N}
      <3> HIDE DEF S
      <3>1. \A s \in S : {<<m, s[2]>> : m \in Free(s[1])} = {<<m, 0>> : m \in Free(s[1])}
        BY <1>1
      <3>2. {{<<m, s[2]>> : m \in Free(s[1])} : s \in S}
              = {{<<m, 0>> : m \in Free(n)} : n \in N}
        <4>1. ASSUME NEW s \in S
              PROVE  {<<m, s[2]>> : m \in Free(s[1])} \in {{<<m, 0>> : m \in Free(n)} : n \in N}
          BY <1>1, <3>1
        <4>2. ASSUME NEW n \in N
              PROVE  {<<m, 0>> : m \in Free(n)} \in {{<<m, s[2]>> : m \in Free(s[1])} : s \in S}
          <5>1. <<n, 0>> \in S /\ <<n, 0>>[1] = n /\ <<n, 0>>[2] = 0
            BY <1>2
          <5> QED
            BY <5>1
        <4> QED
          BY <4>1, <4>2
      <3> QED
        BY <3>2
    <2>2. UNION {{<<m, 0>> : m \in Free(n)} : n \in N} = Flat(UNION {Free(n) : n \in N})
      BY DEF Flat
    <2> QED
      BY <2>1, <2>2
  <1>4. CASE SameFunction
    <2>1. {r \in S : r[2] < Budget} = {}
      BY <1>1, <1>4, BudgetType
    <2>2. HopsFrom(S, D, Budget) = UNION {{<<m, s[2]>> : m \in Free(s[1])} : s \in S}
      <3> HIDE DEF S
      <3> QED
        BY <2>1 DEF HopsFrom
    <2>3. \A n \in N : Onward(n, D) = Free(n)
      BY <1>4 DEF Onward
    <2>4. UNION {Onward(n, D) : n \in N} = UNION {Free(n) : n \in N}
      <3> HIDE DEF Free
      <3> QED
        BY <2>3
    <2> QED
      BY <1>3, <2>2, <2>4
  <1>5. CASE ~SameFunction
    <2>1. {r \in S : r[2] < Budget} = S
      BY <1>1, <1>5, BudgetType
    <2>2. Cost(Budget) = 0
      BY <1>5, BudgetType DEF Cost
    <2>3. UNION {{<<m, s[2] + Cost(Budget)>> : m \in Paid(s[1])} : s \in S}
            = Flat(UNION {Paid(n) : n \in N})
      <3> HIDE DEF Paid
      <3>1. UNION {{<<m, s[2] + Cost(Budget)>> : m \in Paid(s[1])} : s \in S}
              = UNION {{<<m, 0>> : m \in Paid(n)} : n \in N}
        <4> HIDE DEF S
        <4>1. \A s \in S : {<<m, s[2] + Cost(Budget)>> : m \in Paid(s[1])}
                             = {<<m, 0>> : m \in Paid(s[1])}
          BY <1>1, <2>2
        <4>2. {{<<m, s[2] + Cost(Budget)>> : m \in Paid(s[1])} : s \in S}
                = {{<<m, 0>> : m \in Paid(n)} : n \in N}
          <5>1. ASSUME NEW s \in S
                PROVE  {<<m, s[2] + Cost(Budget)>> : m \in Paid(s[1])}
                         \in {{<<m, 0>> : m \in Paid(n)} : n \in N}
            BY <1>1, <4>1
          <5>2. ASSUME NEW n \in N
                PROVE  {<<m, 0>> : m \in Paid(n)}
                         \in {{<<m, s[2] + Cost(Budget)>> : m \in Paid(s[1])} : s \in S}
            <6>1. <<n, 0>> \in S /\ <<n, 0>>[1] = n /\ <<n, 0>>[2] + Cost(Budget) = 0
              BY <1>2, <2>2
            <6> QED
              BY <6>1
          <5> QED
            BY <5>1, <5>2
        <4> QED
          BY <4>2
      <3>2. UNION {{<<m, 0>> : m \in Paid(n)} : n \in N} = Flat(UNION {Paid(n) : n \in N})
        BY DEF Flat
      <3> QED
        BY <3>1, <3>2
    <2>4. HopsFrom(S, D, Budget) = Flat(UNION {Free(n) : n \in N}) \cup Flat(UNION {Paid(n) : n \in N})
      <3> HIDE DEF S
      <3> QED
        BY <1>3, <2>1, <2>3 DEF HopsFrom
    <2>5. \A n \in N : Onward(n, D) = Free(n) \cup Paid(n)
      BY <1>5 DEF Onward
    <2>6. UNION {Onward(n, D) : n \in N} = (UNION {Free(n) : n \in N}) \cup UNION {Paid(n) : n \in N}
      <3>1. UNION {Onward(n, D) : n \in N} = UNION {Free(n) \cup Paid(n) : n \in N}
        <4> HIDE DEF Free, Paid
        <4> QED
          BY <2>5
      <3> HIDE DEF Free, Paid
      <3>2. UNION {Free(n) \cup Paid(n) : n \in N}
              = (UNION {Free(n) : n \in N}) \cup UNION {Paid(n) : n \in N}
        <4>1. \A m : m \in UNION {Free(n) \cup Paid(n) : n \in N}
                       <=> \E n \in N : m \in Free(n) \/ m \in Paid(n)
          OBVIOUS
        <4>2. \A m : m \in (UNION {Free(n) : n \in N}) \cup UNION {Paid(n) : n \in N}
                       <=> \E n \in N : m \in Free(n) \/ m \in Paid(n)
          OBVIOUS
        <4> QED
          BY <4>1, <4>2
      <3> QED
        BY <3>1, <3>2
    <2> DEFINE A == UNION {Free(n) : n \in N}
               B == UNION {Paid(n) : n \in N}
    <2> HIDE DEF Free, Paid
    <2>7. HopsFrom(S, D, Budget) = Flat(A) \cup Flat(B) /\ UNION {Onward(n, D) : n \in N} = A \cup B
      BY <2>4, <2>6
    <2> HIDE DEF S, A, B
    <2>8. Flat(A) \cup Flat(B) = Flat(A \cup B)
      BY FlatFacts
    <2>9. HopsFrom(S, D, Budget) = Flat(UNION {Onward(n, D) : n \in N})
      BY <2>7, <2>8
    <2> QED
      BY <2>9 DEF S
  <1> QED
    BY <1>4, <1>5

\* Hop by hop, the reference takes in what is one hop away from what it has.
LEMMA WithinFacts ==
    ASSUME query \in Query, Generous, NEW D \in Definitions, NEW n \in Node
    PROVE  /\ Within(n, 0, D, Budget) = {n}
           /\ \A k \in Nat :
                /\ Within(n, k, D, Budget) \subseteq Node
                /\ Within(n, k + 1, D, Budget) =
                     Within(n, k, D, Budget)
                       \cup UNION {Onward(m, D) : m \in Within(n, k, D, Budget)}
  <1> DEFINE From(N) == UNION {Onward(m, D) : m \in N}
             T == [all: SUBSET Node, new: SUBSET Node]
             a == [all |-> {n}, new |-> {n}]
             Step == [r \in T |-> [all |-> r.all \cup (From(r.new) \ r.all),
                                   new |-> From(r.new) \ r.all]]
             Pairs(r) == [all |-> Flat(r.all), new |-> Flat(r.new)]
             first == [all |-> {<<n, 0>>}, new |-> {<<n, 0>>}]
             Grow(prior) == [all |-> prior.all \cup (HopsFrom(prior.new, D, Budget) \ prior.all),
                             new |-> HopsFrom(prior.new, D, Budget) \ prior.all]
             Grown(g) == g = [i \in Nat |-> IF i = 0 THEN first ELSE Grow(g[i - 1])]
             grow == CHOOSE g : Grown(g)
  <1>1. \A N \in SUBSET Node : From(N) \in SUBSET Node
    BY OnwardType
  <1>2. a \in T /\ Step \in [T -> T]
    <2> HIDE DEF From
    <2> QED
      BY <1>1
  <1>3. PICK g \in [Nat -> T] : g[0] = a /\ \A i \in Nat : g[i + 1] = Step[g[i]]
    <2> HIDE DEF T, a, Step, From, Pairs, Grow, Grown, grow, first
    <2>1. \A b \in T, F \in [T -> T] :
             \E h \in [Nat -> T] : h[0] = b /\ \A i \in Nat : h[i + 1] = F[h[i]]
      BY Iteration
    <2>2. \E h \in [Nat -> T] : h[0] = a /\ \A i \in Nat : h[i + 1] = Step[h[i]]
      BY <1>2, <2>1
    <2> QED
      BY <2>2
  <1>4. \A i \in Nat : /\ g[i].all \in SUBSET Node /\ g[i].new \in SUBSET Node
                       /\ g[i + 1].all = g[i].all \cup (From(g[i].new) \ g[i].all)
                       /\ g[i + 1].new = From(g[i].new) \ g[i].all
    <2> SUFFICES ASSUME NEW i \in Nat
                 PROVE  /\ g[i].all \in SUBSET Node /\ g[i].new \in SUBSET Node
                        /\ g[i + 1].all = g[i].all \cup (From(g[i].new) \ g[i].all)
                        /\ g[i + 1].new = From(g[i].new) \ g[i].all
      OBVIOUS
    <2>1. g[i] \in T /\ g[i + 1] = Step[g[i]]
      BY <1>3
    <2> HIDE DEF From
    <2> QED
      BY <2>1
  <1>5. \A i \in Nat : Pairs(g[i + 1]) = Grow(Pairs(g[i]))
    <2> SUFFICES ASSUME NEW i \in Nat PROVE Pairs(g[i + 1]) = Grow(Pairs(g[i]))
      OBVIOUS
    <2> DEFINE A == g[i].all
               B == g[i].new
    <2>1. A \in SUBSET Node /\ B \in SUBSET Node
      BY <1>4
    <2>2. g[i + 1].all = A \cup (From(B) \ A) /\ g[i + 1].new = From(B) \ A
      BY <1>4
    <2> HIDE DEF A, B
    <2>3. HopsFrom(Flat(B), D, Budget) = Flat(From(B))
      BY <2>1, HopsFlat
    <2> HIDE DEF From
    <2>4. Flat(From(B)) \ Flat(A) = Flat(From(B) \ A)
      BY FlatFacts
    <2>5. Flat(A) \cup Flat(From(B) \ A) = Flat(A \cup (From(B) \ A))
      BY FlatFacts
    <2>6. Grow(Pairs(g[i])) = [all |-> Flat(A) \cup (Flat(From(B)) \ Flat(A)),
                               new |-> Flat(From(B)) \ Flat(A)]
      BY <2>3 DEF A, B
    <2> QED
      BY <2>2, <2>4, <2>5, <2>6
  <1>6. Pairs(g[0]) = first
    <2>1. {<<n, 0>>} = Flat({n})
      BY FlatFacts
    <2>2. g[0].all = {n} /\ g[0].new = {n}
      BY <1>3
    <2> QED
      BY <2>1, <2>2
  <1> HIDE DEF Grow, Pairs, first, From, a, T, Step
  <1>7. Grown(grow)
    <2> DEFINE w == [i \in Nat |-> Pairs(g[i])]
    <2>1. ASSUME NEW i \in Nat, i # 0 PROVE w[i] = Grow(w[i - 1])
      <3>1. i - 1 \in Nat /\ (i - 1) + 1 = i
        BY <2>1
      <3> QED
        BY <1>5, <3>1
    <2>2. w = [i \in Nat |-> w[i]] /\ w[0] = first
      BY <1>6
    <2>3. Grown(w)
      <3> HIDE DEF w
      <3> QED
        BY <2>1, <2>2
    <2> HIDE DEF Grown
    <2> QED
      BY <2>3
  <1> HIDE DEF grow
  <1>8. \A i \in Nat : grow[i] = Pairs(g[i])
    <2> DEFINE N == {i \in Nat : grow[i] = Pairs(g[i])}
    <2>1. 0 \in N
      BY <1>6, <1>7
    <2>2. ASSUME NEW i \in N PROVE i + 1 \in N
      <3>1. i + 1 \in Nat /\ i + 1 # 0 /\ (i + 1) - 1 = i
        OBVIOUS
      <3>2. grow[i + 1] = Grow(grow[i])
        BY <1>7, <3>1
      <3> QED
        BY <1>5, <3>1, <3>2
    <2>3. N = Nat
      <3> HIDE DEF N
      <3>1. N \in SUBSET Nat
        BY DEF N
      <3> QED
        BY <2>1, <2>2, <3>1, AllNumbers
    <2> QED
      BY <2>3
  <1>9. \A k \in Nat : Within(n, k, D, Budget) = g[k].all
    <2>1. \A k \in Nat : Within(n, k, D, Budget) = {s[1] : s \in grow[k].all}
      <3> USE DEF Grow, first
      <3> QED
        BY DEF Within, grow
    <2>2. \A k \in Nat : grow[k].all = Flat(g[k].all)
      <3>1. \A r : Pairs(r).all = Flat(r.all)
        BY DEF Pairs
      <3> QED
        BY <1>8, <3>1
    <2> QED
      BY <2>1, <2>2, FlatFacts
  \* What has been followed is closed but for what is new.
  <1>10. \A k \in Nat : From(g[k].all \ g[k].new) \subseteq g[k].all /\ g[k].new \subseteq g[k].all
    <2> DEFINE N == {k \in Nat : /\ From(g[k].all \ g[k].new) \subseteq g[k].all
                                 /\ g[k].new \subseteq g[k].all}
    <2>1. 0 \in N
      <3>1. g[0].all = {n} /\ g[0].new = {n}
        BY <1>3 DEF a
      <3>2. From({}) = {}
        BY DEF From
      <3> QED
        BY <3>1, <3>2
    <2>2. ASSUME NEW k \in N PROVE k + 1 \in N
      <3>1. /\ g[k + 1].all = g[k].all \cup (From(g[k].new) \ g[k].all)
            /\ g[k + 1].new = From(g[k].new) \ g[k].all
        BY <1>4
      <3>2. g[k + 1].all \ g[k + 1].new = g[k].all
        BY <3>1
      <3>3. \A A, B : From(A \cup B) = From(A) \cup From(B)
        BY DEF From
      <3>4. g[k].all = (g[k].all \ g[k].new) \cup g[k].new
        OBVIOUS
      <3>5. From(g[k].all) = From(g[k].all \ g[k].new) \cup From(g[k].new)
        BY <3>3, <3>4
      <3>6. From(g[k].all) \subseteq g[k + 1].all
        BY <3>1, <3>5
      <3>7. From(g[k + 1].all \ g[k + 1].new) = From(g[k].all)
        BY <3>2
      <3>8. g[k + 1].new \subseteq g[k + 1].all
        BY <3>1
      <3> QED
        BY <3>6, <3>7, <3>8
    <2>3. N = Nat
      <3> HIDE DEF N
      <3>1. N \in SUBSET Nat
        BY DEF N
      <3> QED
        BY <2>1, <2>2, <3>1, AllNumbers
    <2> QED
      BY <2>3
  <1>11. \A k \in Nat : g[k + 1].all = g[k].all \cup From(g[k].all)
    <2> SUFFICES ASSUME NEW k \in Nat PROVE g[k + 1].all = g[k].all \cup From(g[k].all)
      OBVIOUS
    <2>1. \A A, B : From(A \cup B) = From(A) \cup From(B)
      BY DEF From
    <2>2. g[k].all = (g[k].all \ g[k].new) \cup g[k].new
      BY <1>10
    <2>3. From(g[k].all) = From(g[k].all \ g[k].new) \cup From(g[k].new)
      BY <2>1, <2>2
    <2> QED
      BY <1>4, <1>10, <2>3
  <1>12. Within(n, 0, D, Budget) = {n}
    BY <1>3, <1>9 DEF a
  <1>13. ASSUME NEW k \in Nat
         PROVE  /\ Within(n, k, D, Budget) \subseteq Node
                /\ Within(n, k + 1, D, Budget) = Within(n, k, D, Budget) \cup From(Within(n, k, D, Budget))
    <2>1. k + 1 \in Nat
      OBVIOUS
    <2>2. Within(n, k, D, Budget) = g[k].all /\ Within(n, k + 1, D, Budget) = g[k + 1].all
      BY <1>9, <2>1
    <2> QED
      BY <1>4, <1>11, <2>2
  <1> QED
    BY <1>12, <1>13 DEF From

LEMMA WithinGrows ==
    ASSUME query \in Query, Generous, NEW D \in Definitions, NEW n \in Node,
           NEW j \in Nat, NEW k \in Nat, j <= k
    PROVE  Within(n, j, D, Budget) \subseteq Within(n, k, D, Budget)
  <1> DEFINE N == {i \in Nat : Within(n, j, D, Budget) \subseteq Within(n, j + i, D, Budget)}
  <1>1. 0 \in N
    BY j + 0 = j
  <1>2. ASSUME NEW i \in N PROVE i + 1 \in N
    <2>1. j + (i + 1) = (j + i) + 1 /\ j + i \in Nat
      OBVIOUS
    <2>2. Within(n, j + i, D, Budget) \subseteq Within(n, (j + i) + 1, D, Budget)
      BY <2>1, WithinFacts
    <2> QED
      BY <2>1, <2>2
  <1>3. N = Nat
    <2> HIDE DEF N
    <2>1. N \in SUBSET Nat
      BY DEF N
    <2> QED
      BY <1>1, <1>2, <2>1, AllNumbers
  <1>4. k - j \in Nat /\ j + (k - j) = k
    OBVIOUS
  <1> QED
    BY <1>3, <1>4

\* A trail that keeps to the budget stays within what its hops can reach.
LEMMA TrailWithin ==
    ASSUME query \in Query, Generous, NEW D \in Definitions, NEW a \in Node, NEW n, NEW p,
           NEW s \in Hops, Trail(s, a, n, p, D), Crossings(s) <= Budget
    PROVE  n \in Within(a, Len(s) - 1, D, Budget)
  <1> DEFINE N == {i \in Nat : i + 1 <= Len(s) => s[i + 1].node \in Within(a, i, D, Budget)}
  <1>0. Len(s) \in Nat \ {0}
    BY HopsFacts
  <1>1. 0 \in N
    <2>1. s[1].node = a
      BY DEF Trail
    <2>2. a \in Within(a, 0, D, Budget)
      BY WithinFacts
    <2> QED
      BY <2>1, <2>2
  <1>2. ASSUME NEW i \in N PROVE i + 1 \in N
    <2> SUFFICES ASSUME (i + 1) + 1 <= Len(s)
                 PROVE  s[(i + 1) + 1].node \in Within(a, i + 1, D, Budget)
      OBVIOUS
    <2> DEFINE k == (i + 1) + 1
               m == s[i + 1].node
               kind == s[k].kind
    <2>1. k \in 2..Len(s) /\ k - 1 = i + 1 /\ k \in 1..Len(s) /\ i + 1 \in 1..Len(s)
      BY <1>0
    <2>2. m \in Within(a, i, D, Budget) /\ m \in Node
      BY <2>1, HopsFacts
    <2>3. kind \in EdgeKind /\ s[k].node \in Targets(m, kind, D)
      BY <2>1 DEF Trail
    <2>4. SameFunction => ~Crosses(kind)
      <3> SUFFICES ASSUME SameFunction PROVE ~Crosses(kind)
        OBVIOUS
      <3>1. Crossings(s) = 0
        BY BudgetType, CrossingsFacts
      <3> QED
        BY <2>1, <3>1, CrossingsFacts
    <2> HIDE DEF k, m, kind
    <2>5. s[k].node \in Onward(m, D)
      BY <2>3, <2>4 DEF Onward, Targets, Crosses, EdgeKind
    <2>6. s[k].node \in Within(a, i + 1, D, Budget)
      <3>1. Within(a, i + 1, D, Budget) =
              Within(a, i, D, Budget) \cup UNION {Onward(o, D) : o \in Within(a, i, D, Budget)}
        BY WithinFacts
      <3> QED
        BY <2>2, <2>5, <3>1
    <2> QED
      BY <2>6 DEF k
  <1>3. N = Nat
    <2> HIDE DEF N
    <2>1. N \in SUBSET Nat
      BY DEF N
    <2> QED
      BY <1>1, <1>2, <2>1, AllNumbers
  <1>4. Len(s) - 1 \in N /\ (Len(s) - 1) + 1 = Len(s)
    BY <1>0, <1>3
  <1>5. s[Len(s)].node = n
    BY DEF Trail
  <1> QED
    BY <1>4, <1>5

\* With crossings left, every hop of the reference has its neighbour.
LEMMA OnwardNeighbors ==
    ASSUME query \in Query, Generous, NEW D \in Definitions, NEW n \in Node, NEW cr \in Nat,
           cr < Cardinality(Node)
    PROVE  \A m \in Onward(n, D) : \E e \in Neighbors(n, D, cr) : e.node = m
  <1> SUFFICES ASSUME NEW m \in Onward(n, D) PROVE \E e \in Neighbors(n, D, cr) : e.node = m
    OBVIOUS
  <1>1. ~SameFunction => ~OneFunction /\ CrossingAllowed(cr)
    BY BudgetType DEF SameFunction, OneFunction, CrossingAllowed, Generous
  <1>2. ASSUME NEW M, NEW kind, NEW c, NEW place, m \in M
        PROVE  \E e \in Edges(M, kind, c, place) : e.node = m
    <2>1. [node |-> m, kind |-> kind, cr |-> c, place |-> place] \in Edges(M, kind, c, place)
      BY <1>2 DEF Edges
    <2> QED
      BY <2>1
  <1>3. CASE m \in DataDependencies(n, D)
    BY <1>2, <1>3 DEF Neighbors, Successors
  <1>4. CASE m \in ControlDependencies(n)
    BY <1>2, <1>4 DEF Neighbors, Successors
  <1>5. CASE ~SameFunction /\ m \in Descents(n)
    BY <1>1, <1>2, <1>5 DEF Neighbors
  <1>6. CASE ~SameFunction /\ m \in Ascents(n)
    BY <1>1, <1>2, <1>6 DEF Neighbors
  <1>7. CASE ~SameFunction /\ m \in StorageWriters(n)
    BY <1>1, <1>2, <1>7 DEF Neighbors
  <1>8. Targets(n, "callee", D) = Descents(n) \cup Ascents(n)
    BY DEF Targets
  <1> QED
    BY <1>3, <1>4, <1>5, <1>6, <1>7, <1>8 DEF Onward

\* Below the level that is expanded all has been met, at its own level ...
LEMMA LevelsCover ==
    ASSUME query \in Query, Generous, NEW D \in Definitions, NEW a \in Node,
           NEW L \in [Node -> Nat], NEW seen \in SUBSET Node, NEW q, NEW cur \in Node, NEW td,
           NEW nb, Levels(L, seen, q, cur, td, nb), a \in seen, L[a] = 1,
           \A n \in seen : \A m \in Onward(n, D) : \E e \in nb[n] : e.node = m,
           NEW j \in Nat, j < L[cur]
    PROVE  \A m \in Within(a, j, D, Budget) : m \in seen /\ L[m] <= j + 1
  <1> DEFINE Reached(k) == \A m \in Within(a, k, D, Budget) : m \in seen /\ L[m] <= k + 1
             N == {k \in Nat : k < L[cur] => Reached(k)}
  <1>1. 0 \in N
    BY WithinFacts
  <1>2. ASSUME NEW k \in N PROVE k + 1 \in N
    <2> SUFFICES ASSUME k + 1 < L[cur],
                        NEW m \in Within(a, k + 1, D, Budget)
                 PROVE  m \in seen /\ L[m] <= (k + 1) + 1
      OBVIOUS
    <2>1. Reached(k)
      OBVIOUS
    <2>2. CASE m \in Within(a, k, D, Budget)
      <3>1. m \in seen /\ L[m] <= k + 1 /\ L[m] \in Nat
        BY <2>1, <2>2
      <3> QED
        BY <3>1
    <2>3. CASE m \notin Within(a, k, D, Budget)
      <3>1. PICK n \in Within(a, k, D, Budget) : m \in Onward(n, D)
        BY <2>3, WithinFacts
      <3>2. n \in seen /\ L[n] <= k + 1 /\ L[n] \in Nat /\ L[cur] \in Nat
        BY <2>1, <3>1
      <3>3. PICK e \in nb[n] : e.node = m
        BY <3>1, <3>2
      <3>4. n # cur
        BY <3>2
      <3>5. ~ \E i \in DOMAIN q : q[i].node = n
        BY <3>2 DEF Levels
      <3>6. e.node \in seen /\ L[e.node] <= L[n] + 1
        BY <3>2, <3>3, <3>4, <3>5 DEF Levels
      <3>7. L[m] \in Nat
        BY <3>3, <3>6
      <3> QED
        BY <3>2, <3>3, <3>6, <3>7
    <2> QED
      BY <2>2, <2>3
  <1>3. N = Nat
    <2> HIDE DEF N
    <2>1. N \in SUBSET Nat
      BY DEF N
    <2> QED
      BY <1>1, <1>2, <2>1, AllNumbers
  <1> QED
    BY <1>3

\* ... and all that can be reached when nothing waits any more.
LEMMA LevelsClosed ==
    ASSUME query \in Query, Generous, NEW D \in Definitions, NEW a \in Node,
           NEW L, NEW seen \in SUBSET Node, NEW cur,
           NEW nb, Levels(L, seen, <<>>, cur, {}, nb), a \in seen,
           \A n \in seen : \A m \in Onward(n, D) : \E e \in nb[n] : e.node = m,
           NEW j \in Nat
    PROVE  Within(a, j, D, Budget) \subseteq seen
  <1> DEFINE N == {k \in Nat : Within(a, k, D, Budget) \subseteq seen}
  <1>1. 0 \in N
    BY WithinFacts
  <1>2. ASSUME NEW k \in N PROVE k + 1 \in N
    <2>1. DOMAIN <<>> = {}
      OBVIOUS
    <2>2. \A n \in seen : \A e \in nb[n] : e.node \in seen
      BY <2>1 DEF Levels
    <2>3. \A n \in seen : Onward(n, D) \subseteq seen
      BY <2>2
    <2>4. UNION {Onward(n, D) : n \in Within(a, k, D, Budget)} \subseteq seen
      BY <2>3
    <2> QED
      BY <2>4, WithinFacts
  <1>3. N = Nat
    <2> HIDE DEF N
    <2>1. N \in SUBSET Nat
      BY DEF N
    <2> QED
      BY <1>1, <1>2, <2>1, AllNumbers
  <1> QED
    BY <1>3

-----------------------------------------------------------------------------
(* The types.                                                              *)

TypeOK ==
    /\ query \in Query
    /\ defs \in Definitions
    /\ turn \in {"forward", "backward", "over"}
    /\ prev \in Predecessors
    /\ queue \in Seq(Entry)
    /\ current \in Entry
    /\ todo \in SUBSET Edge

LEMMA NeighborsType ==
    ASSUME NEW n \in Node, NEW D \in Definitions, NEW cr \in Nat
    PROVE  Neighbors(n, D, cr) \in SUBSET Edge
  <1>1. ASSUME NEW N \in SUBSET Node, NEW kind \in EdgeKind, NEW c \in Nat, NEW place \in 1..5
        PROVE  Edges(N, kind, c, place) \in SUBSET Edge
    BY DEF Edges, Edge
  <1>2. cr + 1 \in Nat /\ 1 \in 1..5 /\ 2 \in 1..5 /\ 3 \in 1..5 /\ 4 \in 1..5 /\ 5 \in 1..5
    OBVIOUS
  <1>3. {"data-dep", "control-dep", "callee", "storage-dep"} = EdgeKind
    BY DEF EdgeKind
  <1>4. Edges(DataDependencies(n, D), "data-dep", cr, 1) \in SUBSET Edge
    BY <1>1, <1>2, <1>3, TargetsType
  <1>5. Edges(ControlDependencies(n), "control-dep", cr, 2) \in SUBSET Edge
    BY <1>1, <1>2, <1>3, TargetsType
  <1>6. Edges(Descents(n), "callee", cr + 1, 3) \in SUBSET Edge
    BY <1>1, <1>2, <1>3, TargetsType
  <1>7. Edges(Ascents(n), "callee", cr + 1, 4) \in SUBSET Edge
    BY <1>1, <1>2, <1>3, TargetsType
  <1>8. Edges(StorageWriters(n), "storage-dep", cr + 1, 5) \in SUBSET Edge
    BY <1>1, <1>2, <1>3, TargetsType
  <1> QED
    BY <1>4, <1>5, <1>6, <1>7, <1>8 DEF Neighbors, Successors

LEMMA SeedTypes ==
    ASSUME NEW a \in Node
    PROVE  /\ OnlySeen(a) \in Predecessors
           /\ \A m \in Node : OnlySeen(a)[m] = IF m = a THEN Seed ELSE NotSeen
           /\ [node |-> a, cr |-> 0] \in Entry
           /\ <<[node |-> a, cr |-> 0]>> \in Seq(Entry)
  <1>1. [node |-> a, cr |-> 0] \in Entry
    BY DEF Entry
  <1>2. OnlySeen(a) \in Predecessors
    BY DEF OnlySeen, Predecessors, Seed, NotSeen
  <1> QED
    BY <1>1, <1>2 DEF OnlySeen

LEMMA TypesInit == Init => TypeOK
  <1> SUFFICES ASSUME Init PROVE TypeOK
    OBVIOUS
  <1>1. query \in Query /\ defs \in Definitions /\ turn \in {"forward", "backward", "over"}
    BY ChoicesType DEF Init
  <1>2. query.a \in Node
    BY <1>1, BudgetType
  <1>3. prev = OnlySeen(query.a) /\ queue = <<[node |-> query.a, cr |-> 0]>>
        /\ current = [node |-> query.a, cr |-> 0] /\ todo = {}
    BY DEF Init, Idle
  <1> QED
    BY <1>1, <1>2, <1>3, SeedTypes DEF TypeOK

LEMMA TypesStep == TypeOK /\ [Next]_vars => TypeOK'
  <1> SUFFICES ASSUME TypeOK, [Next]_vars PROVE TypeOK'
    OBVIOUS
  <1> USE DEF TypeOK
  <1>1. CASE SameNode
    BY <1>1 DEF SameNode
  <1>2. CASE Expand
    <2>1. queue \in Seq(Entry) /\ queue # <<>>
      BY <1>2 DEF Expand
    <2>2. Head(queue) \in Entry /\ Tail(queue) \in Seq(Entry)
      BY <2>1, HeadTailProperties
    <2>3. current' \in Entry /\ queue' \in Seq(Entry)
      BY <1>2, <2>2 DEF Expand
    <2>4. current'.node \in Node /\ current'.cr \in Nat
      BY <2>3 DEF Entry
    <2>5. todo' = Neighbors(current'.node, defs, current'.cr)
      BY <1>2 DEF Expand
    <2>6. todo' \in SUBSET Edge
      BY <2>4, <2>5, NeighborsType
    <2> QED
      BY <1>2, <2>3, <2>6 DEF Expand
  <1>3. ASSUME NEW e \in InPlace, SkipSeen(e) PROVE TypeOK'
    BY <1>3 DEF SkipSeen
  <1>4. ASSUME NEW e \in InPlace, prev' = [prev EXCEPT ![e.node] = Via(current.node, e.kind)]
        PROVE  prev' \in Predecessors /\ [node |-> e.node, cr |-> e.cr] \in Entry
    <2>1. e \in Edge
      BY DEF InPlace
    <2>2. e.node \in Node /\ e.kind \in EdgeKind /\ e.cr \in Nat /\ current.node \in Node
      BY <2>1 DEF Edge, Entry
    <2>3. Via(current.node, e.kind) \in [from: SUBSET Node, kind: EdgeKind \cup {"none", "seed"}]
      BY <2>2 DEF Via
    <2> QED
      BY <1>4, <2>2, <2>3 DEF Predecessors, Entry
  <1>5. ASSUME NEW e \in InPlace, Discover(e) PROVE TypeOK'
    <2>1. prev' \in Predecessors /\ [node |-> e.node, cr |-> e.cr] \in Entry
      BY <1>4, <1>5 DEF Discover
    <2>2. queue' \in Seq(Entry)
      BY <1>5, <2>1 DEF Discover, Waiting
    <2> QED
      BY <1>5, <2>1, <2>2 DEF Discover
  <1>6. ASSUME NEW e \in InPlace, FoundTarget(e) PROVE TypeOK'
    <2>1. prev' \in Predecessors
      BY <1>4, <1>6 DEF FoundTarget
    <2> QED
      BY <1>6, <2>1 DEF FoundTarget
  <1>7. CASE Exhausted
    <2>1. query.a \in Node /\ query.b \in Node
      BY BudgetType
    <2>2. /\ query' = query /\ defs' = defs /\ todo' = todo
          /\ current' = [node |-> query.a, cr |-> 0]
          /\ \/ /\ turn' = "backward" /\ prev' = OnlySeen(query.b)
                /\ queue' = <<[node |-> query.b, cr |-> 0]>>
             \/ turn' = "over" /\ prev' = prev /\ queue' = queue
      BY <1>7 DEF Exhausted, Idle
    <2>3. OnlySeen(query.b) \in Predecessors /\ <<[node |-> query.b, cr |-> 0]>> \in Seq(Entry)
          /\ [node |-> query.a, cr |-> 0] \in Entry
      BY <2>1, SeedTypes
    <2> QED
      BY <2>2, <2>3
  <1>8. CASE Answered \/ UNCHANGED vars
    BY <1>8 DEF Answered, vars
  <1> QED
    BY <1>1, <1>2, <1>3, <1>5, <1>6, <1>7, <1>8 DEF Next

-----------------------------------------------------------------------------
(* The search.                                                             *)

Met == {n \in Node : ~Unseen(n)}
Places(T) == [n \in Node |-> Len(T[n])]
Around(T) == [n \in Node |-> Neighbors(n, defs, Crossings(T[n]))]

\* T has, for each node that was met, the trail to it.
Searched(T) ==
    /\ prev[Source] = Seed
    /\ \A n \in Met : Trail(T[n], Source, n, prev, defs) /\ Crossings(T[n]) <= Budget
    /\ \A i \in DOMAIN queue : queue[i].cr = Crossings(T[queue[i].node])
    /\ todo # {} => current.node \in Met /\ current.cr = Crossings(T[current.node])
    /\ todo \subseteq Neighbors(current.node, defs, current.cr)
    /\ Levels(Places(T), Met, queue, current.node, todo, Around(T))

Searching ==
    turn # "over" =>
        /\ \E T \in [Node -> Hops] : Searched(T)
        /\ path = <<>>
        /\ query.a # query.b => Unseen(Target)
        /\ query.a = query.b => turn = "forward" /\ todo = {}
        /\ turn = "backward" /\ Generous => ~Influences(query.b, query.a, defs)

Answer ==
    turn = "over" =>
        /\ path \in Seq(Hop)
        /\ PathIsDependence
        /\ ExactWhenGenerous

IInv == TypeOK /\ Searching /\ Answer

LEMMA MetType ==
    ASSUME TypeOK, turn # "over"
    PROVE  /\ Met \in SUBSET Node /\ Source \in Node /\ Target \in Node
           /\ current.node \in Node /\ current.cr \in Nat
           /\ \A n \in Node : n \notin Met <=> prev[n] = NotSeen
           /\ \A T \in [Node -> Hops] : Places(T) \in [Node -> Nat]
  <1>1. Source \in Node /\ Target \in Node
    BY BudgetType DEF TypeOK, Source, Target
  <1>2. current.node \in Node /\ current.cr \in Nat
    BY DEF TypeOK, Entry
  <1>3. \A T \in [Node -> Hops] : Places(T) \in [Node -> Nat]
    <2>1. \A s \in Hops : Len(s) \in Nat
      BY HopsFacts
    <2> QED
      BY <2>1 DEF Places
  <1> QED
    BY <1>1, <1>2, <1>3 DEF Met, Unseen

\* The start of a search from a, with what is expanded at the first level.
LEMMA LevelsStart ==
    ASSUME NEW a \in Node, NEW cur \in Node, NEW nb,
           NEW L, L[a] = 1, L[cur] = 1
    PROVE  Levels(L, {a}, <<[node |-> a, cr |-> 0]>>, cur, {}, nb)
  <1> DEFINE q == <<[node |-> a, cr |-> 0]>>
  <1>1. DOMAIN q = {1} /\ q[1].node = a
    OBVIOUS
  <1> HIDE DEF q
  <1>2. Levels(L, {a}, q, cur, {}, nb)
    BY <1>1 DEF Levels
  <1> QED
    BY <1>2 DEF q

\* Every node has the trail of no hop from a.
Start(a) == [n \in Node |-> <<HopTo(a, "seed")>>]

LEMMA StartFacts ==
    ASSUME NEW a \in Node
    PROVE  /\ Start(a) \in [Node -> Hops]
           /\ \A n \in Node : Crossings(Start(a)[n]) = 0
           /\ \A n \in Node : Places(Start(a))[n] = 1
           /\ \A D : Trail(Start(a)[a], a, a, OnlySeen(a), D)
  <1>1. OnlySeen(a)[a] = Seed
    BY SeedTypes
  <1> QED
    BY <1>1, FirstTrail DEF Start, Places

LEMMA SearchingInit == Init => Searching /\ Answer
  <1> SUFFICES ASSUME Init PROVE Searching /\ Answer
    OBVIOUS
  <1>0. TypeOK
    BY TypesInit
  <1>1. /\ query \in Query /\ turn = "forward" /\ prev = OnlySeen(query.a)
        /\ queue = <<[node |-> query.a, cr |-> 0]>>
        /\ current = [node |-> query.a, cr |-> 0] /\ todo = {} /\ path = <<>>
    BY DEF Init, Idle
  <1>2. query.a \in Node /\ query.b \in Node /\ Source = query.a /\ Target = query.b
    BY <1>1, BudgetType DEF Source, Target
  <1>3. \A m \in Node : prev[m] = IF m = query.a THEN Seed ELSE NotSeen
    BY <1>1, <1>2, SeedTypes
  <1>4. Met = {query.a}
    BY <1>2, <1>3 DEF Met, Unseen, Seed, NotSeen
  <1>5. Searched(Start(query.a))
    <2> DEFINE T == Start(query.a)
    <2>1. T \in [Node -> Hops] /\ \A n \in Node : Crossings(T[n]) = 0 /\ Places(T)[n] = 1
      BY <1>2, StartFacts
    <2>2. Trail(T[query.a], query.a, query.a, prev, defs)
      BY <1>1, <1>2, StartFacts
    <2>3. Budget \in Nat
      BY <1>1, BudgetType
    <2>4. \A n \in Met : Trail(T[n], Source, n, prev, defs) /\ Crossings(T[n]) <= Budget
      BY <1>2, <1>4, <2>1, <2>2, <2>3
    <2>5. \A i \in DOMAIN queue : queue[i].cr = Crossings(T[queue[i].node])
      <3>1. DOMAIN queue = {1} /\ queue[1].node = query.a /\ queue[1].cr = 0
        BY <1>1
      <3> HIDE DEF T
      <3> QED
        BY <1>2, <2>1, <3>1
    <2>6. current.node = query.a
      BY <1>1
    <2> HIDE DEF T
    <2>7. Levels(Places(T), Met, queue, current.node, {}, Around(T))
      BY <1>1, <1>2, <1>4, <2>1, <2>6, LevelsStart
    <2>8. Searched(T)
      BY <1>1, <1>2, <1>3, <2>4, <2>5, <2>7 DEF Searched
    <2> QED
      BY <2>8 DEF T
  <1>6. query.a # query.b => Unseen(Target)
    BY <1>2, <1>3 DEF Unseen
  <1>7. Start(query.a) \in [Node -> Hops]
    BY <1>2, StartFacts
  <1> QED
    BY <1>1, <1>5, <1>6, <1>7 DEF Searching, Answer

\* A step that keeps the question keeps all that is asked of the graph.
LEMMA SameQuestion ==
    ASSUME UNCHANGED <<query, defs>>
    PROVE  /\ Budget' = Budget
           /\ SameFunction' <=> SameFunction
           /\ Generous' <=> Generous
           /\ Influences(query.b, query.a, defs)' <=> Influences(query.b, query.a, defs)
           /\ Influences(query.a, query.b, defs)' <=> Influences(query.a, query.b, defs)
           /\ \A n, cr : Neighbors(n, defs, cr)' = Neighbors(n, defs, cr)
  <1>1. SameFunction' <=> SameFunction
    BY DEF SameFunction
  <1>2. Budget' = Budget
    BY <1>1 DEF Budget
  <1>3. Generous' <=> Generous
    BY <1>1 DEF Generous
  <1>4. Influences(query.b, query.a, defs)' <=> Influences(query.b, query.a, defs)
    BY <1>2 DEF Influences
  <1>5. Influences(query.a, query.b, defs)' <=> Influences(query.a, query.b, defs)
    BY <1>2 DEF Influences
  <1>6. OneFunction' <=> OneFunction
    BY DEF OneFunction
  <1>7. \A n, cr : Neighbors(n, defs, cr)' = Neighbors(n, defs, cr)
    <2> SUFFICES ASSUME NEW n, NEW cr PROVE Neighbors(n, defs, cr)' = Neighbors(n, defs, cr)
      OBVIOUS
    <2>1. CrossingAllowed(cr)' <=> CrossingAllowed(cr)
      BY DEF CrossingAllowed
    <2>2. Successors(n, defs, cr)' = Successors(n, defs, cr)
      BY DEF Successors
    <2> QED
      BY <1>6, <2>1, <2>2 DEF Neighbors
  <1> QED
    BY <1>1, <1>2, <1>3, <1>4, <1>5, <1>7

LEMMA SameNodeStep ==
    ASSUME TypeOK, Searching, SameNode
    PROVE  Searching' /\ Answer'
  <1>1. /\ query.a = query.b /\ query' = query /\ defs' = defs /\ turn' = "over"
        /\ path' = <<HopTo(query.a, "seed")>>
    BY DEF SameNode, HopTo
  <1>2. query \in Query /\ query.a \in Node /\ defs \in Definitions
    BY BudgetType DEF TypeOK
  <1>3. path' \in Hops /\ Len(path') = 1 /\ Crossings(path') = 0
    BY <1>1, <1>2, FirstTrail
  <1>4. path'[1].node = query.a /\ path'[1].kind = "seed" /\ DOMAIN path' = {1}
    BY <1>1 DEF HopTo
  <1>5. Budget \in Nat /\ (Budget' = IF SameFunction' THEN 0 ELSE query'.depth)
    BY <1>2, BudgetType DEF Budget
  <1>6. PathIsDependence'
    <2>1. Crossings(path)' = 0 /\ Budget' = Budget
      BY <1>1, <1>3, SameQuestion DEF Crossings
    <2>2. (Crossings(path) <= IF SameFunction THEN 0 ELSE query.depth)'
      BY <1>5, <2>1
    <2> QED
      BY <1>1, <1>3, <1>4, <2>2 DEF PathIsDependence
  <1>7. ExactWhenGenerous'
    <2> SUFFICES ASSUME Generous
                 PROVE  /\ Found' /\ Influences(query.b, query.a, defs)
                        /\ path'[1].node = query.a
                        /\ ~(Len(path') > 1)
      BY <1>1, SameQuestion DEF ExactWhenGenerous
    <2>1. query.a \in Within(query.a, 0, defs, Budget)
      BY <1>2, WithinFacts
    <2>2. query.a \in Within(query.a, Cardinality(Node), defs, Budget)
      BY <1>2, <2>1, BudgetType, WithinGrows
    <2>3. Found'
      BY <1>1 DEF Found
    <2> QED
      BY <1>1, <1>3, <1>4, <2>2, <2>3 DEF Influences
  <1> QED
    BY <1>1, <1>3, <1>6, <1>7 DEF Searching, Answer, Hops

LEMMA ExpandStep ==
    ASSUME TypeOK, Searching, Expand
    PROVE  Searching' /\ Answer'
  <1>1. /\ query' = query /\ defs' = defs /\ turn' = turn /\ prev' = prev /\ path' = path
        /\ turn # "over" /\ query.a # query.b /\ todo = {} /\ queue # <<>>
        /\ current' = Head(queue) /\ queue' = Tail(queue)
        /\ todo' = Neighbors(current'.node, defs, current'.cr)
    BY DEF Expand
  <1>2. PICK T \in [Node -> Hops] : Searched(T)
    BY <1>1 DEF Searching
  <1>3. /\ queue \in Seq(Entry) /\ Head(queue) = queue[1] /\ 1 \in DOMAIN queue
        /\ DOMAIN queue' \subseteq Nat
        /\ \A i \in DOMAIN queue' : queue'[i] = queue[i + 1] /\ i + 1 \in DOMAIN queue
    BY <1>1, HeadTailProperties DEF TypeOK
  <1>4. Met \in SUBSET Node /\ current.node \in Node /\ Places(T) \in [Node -> Nat]
    BY <1>1, MetType
  <1>5. Source' = Source /\ Met' = Met /\ Target' = Target /\ \A n : Unseen(n)' <=> Unseen(n)
    BY <1>1 DEF Source, Met, Target, Unseen
  <1>6. Levels(Places(T), Met, queue, current.node, {}, Around(T))
    BY <1>1, <1>2 DEF Searched
  <1>7. queue[1].node \in Met /\ queue[1].cr = Crossings(T[queue[1].node])
    BY <1>2, <1>3, <1>6 DEF Searched, Levels
  <1>8. Around(T)' = Around(T)
    BY <1>1, SameQuestion DEF Around
  <1>9. Around(T)[queue[1].node] = todo'
    BY <1>1, <1>3, <1>4, <1>7 DEF Around
  <1>10. Levels(Places(T), Met', queue', current'.node, todo', Around(T)')
    <2>1. Levels(Places(T), Met, Tail(queue), Head(queue).node, Around(T)[Head(queue).node], Around(T))
      BY <1>1, <1>3, <1>4, <1>6, LevelsExpand
    <2> QED
      BY <1>1, <1>3, <1>5, <1>8, <1>9, <2>1
  <1>11. \A i \in DOMAIN queue' : queue'[i].cr = Crossings(T[queue'[i].node])
    BY <1>2, <1>3 DEF Searched
  <1>12. todo' = Neighbors(current.node, defs, current.cr)'
    <2>1. \A n, cr : Neighbors(n, defs, cr)' = Neighbors(n, defs, cr)
      BY <1>1, SameQuestion
    <2> QED
      BY <1>1, <2>1 DEF Neighbors, Successors, OneFunction, CrossingAllowed
  <1>13. Searched(T)'
    <2>1. prev'[Source'] = Seed
          /\ \A n \in Met' : Trail(T[n], Source', n, prev', defs') /\ Crossings(T[n]) <= Budget'
      BY <1>1, <1>2, <1>5, SameQuestion DEF Searched
    <2>2. current'.node \in Met' /\ current'.cr = Crossings(T[current'.node])
      BY <1>1, <1>3, <1>5, <1>7
    <2> QED
      BY <1>10, <1>11, <1>12, <2>1, <2>2 DEF Searched
  <1> QED
    BY <1>1, <1>5, <1>13, SameQuestion DEF Searching, Answer

LEMMA SkipStep ==
    ASSUME TypeOK, Searching, turn # "over", NEW e \in InPlace, SkipSeen(e)
    PROVE  Searching' /\ Answer'
  <1>1. /\ query' = query /\ defs' = defs /\ turn' = turn /\ prev' = prev /\ path' = path
        /\ queue' = queue /\ current' = current /\ todo' = todo \ {e} /\ ~Unseen(e.node)
        /\ e \in todo
    BY DEF SkipSeen, InPlace
  <1>2. PICK T \in [Node -> Hops] : Searched(T)
    BY DEF Searching
  <1>3. Source' = Source /\ Met' = Met /\ Target' = Target /\ \A n : Unseen(n)' <=> Unseen(n)
    BY <1>1 DEF Source, Met, Target, Unseen
  <1>4. Met \in SUBSET Node /\ current.node \in Node /\ Places(T) \in [Node -> Nat]
    BY MetType
  <1>5. Around(T)' = Around(T)
    BY <1>1, SameQuestion DEF Around
  <1>6. e.node \in Met /\ queue \in Seq(Entry)
    BY <1>1 DEF TypeOK, Edge, Met
  <1>7. Levels(Places(T), Met', queue', current'.node, todo', Around(T)')
    <2>1. Levels(Places(T), Met, queue, current.node, todo, Around(T))
      BY <1>2 DEF Searched
    <2>2. Levels(Places(T), Met, queue, current.node, todo \ {e}, Around(T))
      BY <1>1, <1>4, <1>6, <2>1, LevelsSkip
    <2> QED
      BY <1>1, <1>3, <1>5, <2>2
  <1>8. Neighbors(current.node, defs, current.cr)' = Neighbors(current.node, defs, current.cr)
    BY <1>1 DEF Neighbors, Successors, OneFunction, CrossingAllowed
  <1>9. Searched(T)'
    <2>1. prev'[Source'] = Seed
          /\ \A n \in Met' : Trail(T[n], Source', n, prev', defs') /\ Crossings(T[n]) <= Budget'
      BY <1>1, <1>2, <1>3, SameQuestion DEF Searched
    <2>2. current'.node \in Met' /\ current'.cr = Crossings(T[current'.node])
      BY <1>1, <1>2, <1>3 DEF Searched
    <2>3. todo' \subseteq Neighbors(current.node, defs, current.cr)'
      BY <1>1, <1>2, <1>8 DEF Searched
    <2>4. \A i \in DOMAIN queue' : queue'[i].cr = Crossings(T[queue'[i].node])
      BY <1>1, <1>2 DEF Searched
    <2> QED
      BY <1>7, <2>1, <2>2, <2>3, <2>4 DEF Searched
  <1>10. query.a # query.b
    BY <1>1 DEF Searching
  <1> QED
    BY <1>1, <1>3, <1>9, <1>10, SameQuestion DEF Searching, Answer

\* A neighbour that is met for the first time: the trail to it.
LEMMA NextTrail ==
    ASSUME TypeOK, turn # "over", NEW T \in [Node -> Hops], Searched(T),
           NEW e \in InPlace, Unseen(e.node)
    PROVE  LET s == Append(T[current.node], HopTo(e.node, e.kind))
               p == [prev EXCEPT ![e.node] = Via(current.node, e.kind)]
           IN  /\ s \in Hops /\ Len(s) = Places(T)[current.node] + 1
               /\ Trail(s, Source, e.node, p, defs)
               /\ Crossings(s) = e.cr /\ e.cr \in Nat /\ e.cr <= Budget
               /\ \A n \in Met : Trail(T[n], Source, n, p, defs)
               /\ e \in todo /\ e.node \in Node /\ current.node \in Met
  <1> DEFINE t == T[current.node]
             h == HopTo(e.node, e.kind)
  <1>1. e \in todo /\ e \in Neighbors(current.node, defs, current.cr)
    BY DEF Searched, InPlace
  <1>2. current.node \in Met /\ current.cr = Crossings(t)
    BY <1>1 DEF Searched
  <1>3. /\ e.node \in Node /\ e.kind \in EdgeKind /\ e.node \in Targets(current.node, e.kind, defs)
        /\ e.cr = current.cr + (IF Crosses(e.kind) THEN 1 ELSE 0)
        /\ Crosses(e.kind) => ~OneFunction /\ current.cr < query.depth
        /\ current.cr \in Nat /\ current.node \in Node
    BY <1>1, MetType, NeighborEdge DEF TypeOK
  <1>4. t \in Hops /\ h \in Hop /\ h.kind = e.kind
    BY <1>3 DEF Hop, HopTo
  <1>5. Append(t, h) \in Hops /\ Len(Append(t, h)) = Len(t) + 1
    BY <1>4, HopsFacts
  <1>6. Crossings(Append(t, h)) = Crossings(t) + IF Crosses(e.kind) THEN 1 ELSE 0
    BY <1>4, CrossingsFacts
  <1>7. Crossings(t) <= Budget /\ Trail(t, Source, current.node, prev, defs)
    BY <1>2 DEF Searched
  <1>8. e.cr \in Nat /\ e.cr <= Budget
    <2>1. query \in Query /\ Budget \in Nat
      BY BudgetType DEF TypeOK
    <2>2. CASE Crosses(e.kind)
      <3>1. Budget = query.depth /\ query.depth \in Nat
        BY <1>3, <2>1, <2>2, BudgetType DEF OneFunction, SameFunction, Budget
      <3> QED
        BY <1>3, <2>2, <3>1
    <2>3. CASE ~Crosses(e.kind)
      BY <1>2, <1>3, <1>7, <2>1, <2>3
    <2> QED
      BY <2>2, <2>3
  <1>9. prev \in Predecessors /\ prev[e.node] = NotSeen /\ Source \in Node
    BY MetType DEF TypeOK, Unseen
  <1>10. Trail(Append(t, h), Source, e.node, [prev EXCEPT ![e.node] = Via(current.node, e.kind)], defs)
    BY <1>3, <1>4, <1>7, <1>9, TrailExtended
  <1>11. \A n \in Met : Trail(T[n], Source, n, [prev EXCEPT ![e.node] = Via(current.node, e.kind)], defs)
    <2> SUFFICES ASSUME NEW n \in Met
                 PROVE  Trail(T[n], Source, n, [prev EXCEPT ![e.node] = Via(current.node, e.kind)], defs)
      OBVIOUS
    <2>1. Trail(T[n], Source, n, prev, defs) /\ n \in Node /\ T[n] \in Hops
      BY DEF Searched, Met
    <2> QED
      BY <1>3, <1>9, <2>1, TrailKept
  <1>12. Places(T)[current.node] = Len(t)
    BY <1>3 DEF Places
  <1> QED
    BY <1>1, <1>2, <1>3, <1>5, <1>6, <1>8, <1>10, <1>11, <1>12

LEMMA DiscoverStep ==
    ASSUME TypeOK, Searching, turn # "over", NEW e \in InPlace, Discover(e)
    PROVE  Searching' /\ Answer'
  <1>1. /\ query' = query /\ defs' = defs /\ turn' = turn /\ path' = path
        /\ current' = current /\ todo' = todo \ {e} /\ Unseen(e.node) /\ e.node # Target
        /\ prev' = [prev EXCEPT ![e.node] = Via(current.node, e.kind)]
        /\ queue' = Append(queue, [node |-> e.node, cr |-> e.cr])
    BY DEF Discover, Waiting
  <1>2. PICK T \in [Node -> Hops] : Searched(T)
    BY DEF Searching
  <1>3. PICK s : s = Append(T[current.node], HopTo(e.node, e.kind))
    OBVIOUS
  <1>4. PICK U : U = [T EXCEPT ![e.node] = s]
    OBVIOUS
  <1>5. /\ s \in Hops /\ Len(s) = Places(T)[current.node] + 1
        /\ Trail(s, Source, e.node, prev', defs)
        /\ Crossings(s) = e.cr /\ e.cr \in Nat /\ e.cr <= Budget
        /\ \A n \in Met : Trail(T[n], Source, n, prev', defs)
        /\ e \in todo /\ e.node \in Node /\ current.node \in Met
    BY <1>1, <1>2, <1>3, NextTrail
  <1>6. U \in [Node -> Hops] /\ U[e.node] = s /\ \A n \in Node : n # e.node => U[n] = T[n]
    BY <1>4, <1>5
  <1>7. /\ Met \in SUBSET Node /\ Source \in Node /\ Target \in Node
        /\ Places(T) \in [Node -> Nat] /\ Places(U) \in [Node -> Nat]
        /\ \A n \in Node : n \notin Met <=> prev[n] = NotSeen
    BY <1>6, MetType
  <1>8. e.node \notin Met
    BY <1>1 DEF Met
  <1>9. /\ prev' \in Predecessors /\ prev'[e.node] = Via(current.node, e.kind)
        /\ \A n \in Node : n # e.node => prev'[n] = prev[n]
    BY <1>1, <1>5, TypesStep DEF TypeOK, Predecessors, Next
  <1>10. Source' = Source /\ Target' = Target /\ Met' = Met \cup {e.node}
    <2>1. \A n \in Node : prev'[n] = NotSeen <=> n \notin Met /\ n # e.node
      BY <1>7, <1>9, ViaSeen
    <2>2. Met' = Met \cup {e.node}
      BY <1>5, <1>7, <2>1 DEF Met, Unseen
    <2> QED
      BY <1>1, <2>2 DEF Source, Target
  <1>11. prev'[Source'] = Seed
    <2>1. Source \in Met
      BY <1>2, <1>7 DEF Searched, Seed, NotSeen
    <2> QED
      BY <1>2, <1>7, <1>8, <1>9, <1>10, <2>1 DEF Searched
  <1>12. \A n \in Met' : Trail(U[n], Source', n, prev', defs') /\ Crossings(U[n]) <= Budget'
    <2>1. Budget' = Budget
      BY <1>1, SameQuestion
    <2>2. Trail(U[e.node], Source', e.node, prev', defs') /\ Crossings(U[e.node]) <= Budget'
      BY <1>1, <1>5, <1>6, <1>10, <2>1
    <2>3. ASSUME NEW n \in Met
          PROVE  Trail(U[n], Source', n, prev', defs') /\ Crossings(U[n]) <= Budget'
      <3>1. U[n] = T[n] /\ Crossings(T[n]) <= Budget
        BY <1>2, <1>6, <1>7, <1>8 DEF Searched
      <3> QED
        BY <1>1, <1>5, <1>10, <2>1, <3>1
    <2> QED
      BY <1>10, <2>2, <2>3
  <1>13. queue \in Seq(Entry) /\ [node |-> e.node, cr |-> e.cr] \in Entry
    BY <1>5 DEF TypeOK, Entry
  <1>14. Levels(Places(T), Met, queue, current.node, todo, Around(T))
    BY <1>2 DEF Searched
  <1>15. \A i \in DOMAIN queue' : queue'[i].cr = Crossings(U[queue'[i].node])
    <2> DEFINE x == [node |-> e.node, cr |-> e.cr]
    <2>1. /\ DOMAIN queue' = 1..(Len(queue) + 1) /\ DOMAIN queue = 1..Len(queue)
          /\ Len(queue) \in Nat /\ queue'[Len(queue) + 1] = x
          /\ \A i \in DOMAIN queue : queue'[i] = queue[i]
      BY <1>1, <1>13
    <2>2. x.node = e.node /\ x.cr = e.cr
      OBVIOUS
    <2>3. ASSUME NEW i \in DOMAIN queue PROVE queue'[i].cr = Crossings(U[queue'[i].node])
      <3>1. queue[i].node \in Met /\ queue[i].cr = Crossings(T[queue[i].node])
        BY <1>2, <1>14 DEF Searched, Levels
      <3>2. U[queue[i].node] = T[queue[i].node]
        BY <1>6, <1>7, <1>8, <3>1
      <3> QED
        BY <2>1, <3>1, <3>2
    <2> HIDE DEF x
    <2>4. queue'[Len(queue) + 1].cr = Crossings(U[queue'[Len(queue) + 1].node])
      BY <1>5, <1>6, <2>1, <2>2
    <2> QED
      BY <2>1, <2>3, <2>4
  <1>16. current'.node \in Met' /\ current'.cr = Crossings(U[current'.node])
    <2>1. current.cr = Crossings(T[current.node])
      BY <1>2, <1>5 DEF Searched
    <2>2. U[current.node] = T[current.node]
      BY <1>5, <1>6, <1>7, <1>8
    <2> QED
      BY <1>1, <1>5, <1>10, <2>1, <2>2
  <1>17. todo' \subseteq Neighbors(current.node, defs, current.cr)'
    <2>1. Neighbors(current.node, defs, current.cr)' = Neighbors(current.node, defs, current.cr)
      BY <1>1 DEF Neighbors, Successors, OneFunction, CrossingAllowed
    <2> QED
      BY <1>1, <1>2, <2>1 DEF Searched
  <1>18. Levels(Places(U), Met', queue', current'.node, todo', Around(U)')
    <2>1. Places(U)[e.node] = Places(T)[current.node] + 1
      BY <1>5, <1>6 DEF Places
    <2>2. \A n \in Met : Places(U)[n] = Places(T)[n]
      BY <1>6, <1>7, <1>8 DEF Places
    <2>3. \A n \in Met : Around(U)'[n] = Around(T)[n]
      <3> SUFFICES ASSUME NEW n \in Met PROVE Around(U)'[n] = Around(T)[n]
        OBVIOUS
      <3>1. n \in Node /\ U[n] = T[n]
        BY <1>6, <1>7, <1>8
      <3>2. Around(U)'[n] = Neighbors(n, defs, Crossings(U[n]))'
        BY <3>1 DEF Around
      <3>3. \A cr : Neighbors(n, defs, cr)' = Neighbors(n, defs, cr)
        BY <1>1, SameQuestion
      <3>4. Around(T)[n] = Neighbors(n, defs, Crossings(T[n]))
        BY <3>1 DEF Around
      <3>5. PICK cr : cr = Crossings(T[n])
        OBVIOUS
      <3> QED
        BY <3>1, <3>2, <3>3, <3>4, <3>5
    <2>4. PICK nc : nc = Around(U)'
      OBVIOUS
    <2>5. PICK x : x = [node |-> e.node, cr |-> e.cr]
      OBVIOUS
    <2>6. x \in Entry /\ x.node = e.node
      BY <1>13, <2>5
    <2>7. Levels(Places(U), Met \cup {e.node}, Append(queue, x), current.node, todo \ {e}, nc)
      BY <1>5, <1>7, <1>8, <1>13, <1>14, <2>1, <2>2, <2>3, <2>4, <2>6, LevelsDiscover
    <2> QED
      BY <1>1, <1>10, <2>4, <2>5, <2>7
  <1>19. Searched(U)'
    BY <1>11, <1>12, <1>15, <1>16, <1>17, <1>18 DEF Searched
  <1>20. query.a # query.b
    BY <1>5 DEF Searching
  <1>21. Unseen(Target)'
    <2>1. Unseen(Target)
      BY <1>20 DEF Searching
    <2> QED
      BY <1>1, <1>7, <1>9, <1>10, <2>1 DEF Unseen
  <1> QED
    BY <1>1, <1>6, <1>19, <1>20, <1>21, SameQuestion DEF Searching, Answer

\* With a budget that cannot run out, the neighbours are all that is one hop away.
LEMMA AroundCovers ==
    ASSUME TypeOK, turn # "over", Generous, NEW T \in [Node -> Hops], Searched(T)
    PROVE  /\ Source \in Met /\ Places(T)[Source] = 1
           /\ \A n \in Met : \A m \in Onward(n, defs) : \E e \in Around(T)[n] : e.node = m
  <1>1. Source \in Met
    BY MetType DEF Searched, Seed, NotSeen
  <1>2. Places(T)[Source] = 1
    <2>1. Trail(T[Source], Source, Source, prev, defs) /\ T[Source] \in Hops
      BY <1>1 DEF Searched, Met
    <2> QED
      BY <2>1, MetType, TrailToStart DEF Places
  <1>3. ASSUME NEW n \in Met
        PROVE  \A m \in Onward(n, defs) : \E e \in Around(T)[n] : e.node = m
    <2>1. n \in Node /\ T[n] \in Hops /\ Trail(T[n], Source, n, prev, defs)
      BY DEF Met, Searched
    <2>2. Crossings(T[n]) \in Nat /\ Crossings(T[n]) < Len(T[n])
      BY <2>1, CrossingsFacts DEF Trail
    <2>3. Len(T[n]) <= Cardinality(Node) /\ Cardinality(Node) \in Nat /\ Len(T[n]) \in Nat
      BY <2>1, TrailIsShort, HopsFacts, FiniteAssumption, FS_CardinalityType
    <2>4. Crossings(T[n]) < Cardinality(Node)
      BY <2>2, <2>3
    <2>5. Around(T)[n] = Neighbors(n, defs, Crossings(T[n]))
      BY <2>1 DEF Around
    <2> QED
      BY <2>1, <2>2, <2>4, <2>5, OnwardNeighbors DEF TypeOK
  <1> QED
    BY <1>1, <1>2, <1>3

LEMMA FoundStep ==
    ASSUME TypeOK, Searching, turn # "over", NEW e \in InPlace, FoundTarget(e)
    PROVE  Searching' /\ Answer'
  <1>1. /\ query' = query /\ defs' = defs /\ turn' = "over"
        /\ Unseen(e.node) /\ e.node = Target
        /\ prev' = [prev EXCEPT ![e.node] = Via(current.node, e.kind)]
        /\ path' = Chain(prev')
    BY DEF FoundTarget
  <1>2. PICK T \in [Node -> Hops] : Searched(T)
    BY DEF Searching
  <1>3. PICK s : s = Append(T[current.node], HopTo(e.node, e.kind))
    OBVIOUS
  <1>4. /\ s \in Hops /\ Len(s) = Places(T)[current.node] + 1
        /\ Trail(s, Source, Target, prev', defs)
        /\ Crossings(s) <= Budget /\ e \in todo /\ current.node \in Met
    BY <1>1, <1>2, <1>3, NextTrail
  <1>5. /\ Met \in SUBSET Node /\ Source \in Node /\ Target \in Node
        /\ Places(T) \in [Node -> Nat] /\ Target \notin Met
    BY <1>1, MetType DEF Met
  <1>6. path' = s
    <2>1. PICK p : p = prev'
      OBVIOUS
    <2>2. p \in Predecessors
      BY <2>1, TypesStep DEF TypeOK, Next
    <2> QED
      BY <1>1, <1>4, <1>5, <2>1, <2>2, ChainIsTrail
  <1>7. query.a # query.b
    BY <1>4 DEF Searching
  <1>8. {Source, Target} = {query.a, query.b} /\ turn \in {"forward", "backward"}
    BY DEF Source, Target, TypeOK
  <1>9. Len(s) \in Nat \ {0} /\ DOMAIN s = 1..Len(s) /\ s \in Seq(Hop) /\ s # <<>>
    BY <1>4, HopsFacts DEF Hops
  <1>10. s[1].node = Source /\ s[1].kind = "seed" /\ s[Len(s)].node = Target
    BY <1>4 DEF Trail
  <1>11. Len(s) # 1
    BY <1>7, <1>8, <1>10
  <1>12. PathIsDependence'
    <2>1. (Crossings(path) <= IF SameFunction THEN 0 ELSE query.depth)'
      <3>1. Budget' = Budget
        BY <1>1, SameQuestion
      <3>2. Crossings(path)' = Crossings(s)
        BY <1>6 DEF Crossings
      <3> QED
        BY <1>4, <3>1, <3>2 DEF Budget
    <2>2. {path[1].node, path[Len(path)].node}' = {query.a, query.b}'
      BY <1>1, <1>6, <1>8, <1>10
    <2>3. (\A i \in 2..Len(path) : path[i].node \in Targets(path[i-1].node, path[i].kind, defs))'
      BY <1>1, <1>4, <1>6 DEF Trail
    <2>4. (\A i, j \in DOMAIN path : path[i].node = path[j].node => i = j)'
      BY <1>4, <1>6 DEF Trail
    <2> QED
      BY <1>6, <1>10, <2>1, <2>2, <2>3, <2>4 DEF PathIsDependence
  <1>13. ExactWhenGenerous'
    <2> SUFFICES ASSUME Generous
                 PROVE  /\ Influences(query.b, query.a, defs) \/ Influences(query.a, query.b, defs)
                        /\ Influences(query.b, query.a, defs) => s[1].node = query.a
                        /\ s[Len(s)].node \notin Within(s[1].node, Len(s) - 2, defs, Budget)
      <3>1. Budget' = Budget /\ (Generous' <=> Generous)
            /\ (Influences(query.b, query.a, defs)' <=> Influences(query.b, query.a, defs))
            /\ (Influences(query.a, query.b, defs)' <=> Influences(query.a, query.b, defs))
        BY <1>1, SameQuestion
      <3>2. Found' /\ query' = query
        BY <1>1, <1>6, <1>9 DEF Found
      <3> QED
        BY <1>1, <1>6, <3>1, <3>2 DEF ExactWhenGenerous
    <2>1. query \in Query /\ defs \in Definitions
      BY DEF TypeOK
    <2>2. Target \in Within(Source, Cardinality(Node), defs, Budget)
      <3>1. Target \in Within(Source, Len(s) - 1, defs, Budget)
        BY <1>4, <1>5, <2>1, TrailWithin
      <3>2. Len(s) <= Cardinality(Node)
        BY <1>4, TrailIsShort
      <3>3. Len(s) - 1 \in Nat /\ Cardinality(Node) \in Nat /\ Len(s) - 1 <= Cardinality(Node)
        BY <1>9, <2>1, <3>2, BudgetType
      <3> QED
        BY <1>5, <2>1, <3>1, <3>3, WithinGrows
    <2>3. Target \notin Within(Source, Len(s) - 2, defs, Budget)
      <3> DEFINE j == Len(s) - 2
      <3>1. j \in Nat /\ j < Places(T)[current.node]
        BY <1>4, <1>5, <1>9, <1>11
      <3>2. Levels(Places(T), Met, queue, current.node, todo, Around(T))
        BY <1>2 DEF Searched
      <3>3. /\ Source \in Met /\ Places(T)[Source] = 1
            /\ \A n \in Met : \A m \in Onward(n, defs) : \E d \in Around(T)[n] : d.node = m
        BY <1>2, AroundCovers
      <3> HIDE DEF j
      <3>4. \A m \in Within(Source, j, defs, Budget) : m \in Met
        BY <1>4, <1>5, <2>1, <3>1, <3>2, <3>3, LevelsCover
      <3> QED
        BY <1>5, <3>4 DEF j
    <2>4. CASE turn = "forward"
      <3>1. Source = query.a /\ Target = query.b
        BY <2>4 DEF Source, Target
      <3>2. Influences(query.b, query.a, defs)
        BY <2>2, <3>1 DEF Influences
      <3> QED
        BY <1>10, <2>3, <3>1, <3>2
    <2>5. CASE turn = "backward"
      <3>1. ~Influences(query.b, query.a, defs)
        BY <2>5 DEF Searching
      <3>2. Source = query.b /\ Target = query.a
        BY <2>5 DEF Source, Target
      <3>3. Influences(query.a, query.b, defs)
        BY <2>2, <3>2 DEF Influences
      <3> QED
        BY <1>10, <2>3, <3>1, <3>3
    <2> QED
      BY <1>8, <1>10, <2>3, <2>4, <2>5
  <1> QED
    BY <1>1, <1>6, <1>9, <1>12, <1>13 DEF Searching, Answer

\* A search that has run out has met all that its source influences.
LEMMA NothingLeft ==
    ASSUME TypeOK, Searching, Exhausted, Generous
    PROVE  /\ turn = "forward" => ~Influences(query.b, query.a, defs)
           /\ turn = "backward" => /\ ~Influences(query.b, query.a, defs)
                                   /\ ~Influences(query.a, query.b, defs)
  <1>1. turn # "over" /\ query.a # query.b /\ todo = {} /\ queue = <<>>
    BY DEF Exhausted
  <1>2. PICK T \in [Node -> Hops] : Searched(T)
    BY <1>1 DEF Searching
  <1>3. query \in Query /\ defs \in Definitions /\ Met \in SUBSET Node /\ Source \in Node
        /\ Cardinality(Node) \in Nat
    BY <1>1, MetType, BudgetType DEF TypeOK
  <1>4. Levels(Places(T), Met, <<>>, current.node, {}, Around(T))
    BY <1>1, <1>2 DEF Searched
  <1>5. /\ Source \in Met
        /\ \A n \in Met : \A m \in Onward(n, defs) : \E d \in Around(T)[n] : d.node = m
    BY <1>1, <1>2, AroundCovers
  <1>6. Within(Source, Cardinality(Node), defs, Budget) \subseteq Met
    BY <1>3, <1>4, <1>5, LevelsClosed
  <1>7. Target \notin Met
    BY <1>1 DEF Searching, Met
  <1>8. Target \notin Within(Source, Cardinality(Node), defs, Budget)
    BY <1>6, <1>7
  <1>9. turn = "forward" => ~Influences(query.b, query.a, defs)
    BY <1>8 DEF Source, Target, Influences
  <1>10. turn = "backward" => ~Influences(query.a, query.b, defs)
    BY <1>8 DEF Source, Target, Influences
  <1> QED
    BY <1>1, <1>9, <1>10 DEF Searching

LEMMA ExhaustedStep ==
    ASSUME TypeOK, Searching, Exhausted
    PROVE  Searching' /\ Answer'
  <1>1. /\ query' = query /\ defs' = defs /\ todo' = todo /\ path' = path
        /\ turn \in {"forward", "backward"} /\ query.a # query.b /\ todo = {}
        /\ current' = [node |-> query.a, cr |-> 0]
    BY DEF Exhausted, Idle, TypeOK
  <1>2. path = <<>>
    BY <1>1 DEF Searching
  <1>3. query \in Query /\ query.a \in Node /\ query.b \in Node /\ Budget \in Nat
    BY BudgetType DEF TypeOK
  <1>4. CASE turn = "forward"
    <2>1. /\ turn' = "backward" /\ prev' = OnlySeen(query.b)
          /\ queue' = <<[node |-> query.b, cr |-> 0]>>
      BY <1>4 DEF Exhausted
    <2>2. Source' = query.b /\ Target' = query.a
      BY <1>1, <2>1 DEF Source, Target
    <2>3. \A m \in Node : prev'[m] = IF m = query.b THEN Seed ELSE NotSeen
      BY <1>3, <2>1, SeedTypes
    <2>4. Met' = {query.b}
      BY <1>3, <2>3 DEF Met, Unseen, Seed, NotSeen
    <2> DEFINE S == Start(query.b)
    <2>5. PICK T : T = S
      OBVIOUS
    <2>6. /\ T \in [Node -> Hops] /\ \A n \in Node : Crossings(T[n]) = 0 /\ Places(T)[n] = 1
          /\ Trail(T[query.b], query.b, query.b, prev', defs)
      BY <1>3, <2>1, <2>5, StartFacts
    <2>7. Budget' = Budget
      BY <1>1, SameQuestion
    <2>8. \A n \in Met' : Trail(T[n], Source', n, prev', defs') /\ Crossings(T[n]) <= Budget'
      BY <1>1, <1>3, <2>2, <2>4, <2>6, <2>7
    <2>9. \A i \in DOMAIN queue' : queue'[i].cr = Crossings(T[queue'[i].node])
      <3>1. DOMAIN queue' = {1} /\ queue'[1].node = query.b /\ queue'[1].cr = 0
        BY <2>1
      <3> QED
        BY <1>3, <2>6, <3>1
    <2>10. current'.node = query.a
      BY <1>1
    <2>11. PICK nb : nb = Around(T)'
      OBVIOUS
    <2>12. Levels(Places(T), {query.b}, queue', query.a, {}, nb)
      BY <1>3, <2>1, <2>6, LevelsStart
    <2>13. Levels(Places(T), Met', queue', current'.node, todo', Around(T)')
      BY <1>1, <2>4, <2>10, <2>11, <2>12
    <2>14. Searched(T)'
      BY <1>1, <1>3, <2>2, <2>3, <2>8, <2>9, <2>13 DEF Searched
    <2>15. Unseen(Target)'
      BY <1>1, <1>3, <2>2, <2>3 DEF Unseen
    <2>16. Generous' => ~Influences(query.b, query.a, defs)'
      BY <1>1, <1>4, NothingLeft, SameQuestion
    <2> QED
      BY <1>1, <1>2, <2>1, <2>6, <2>14, <2>15, <2>16 DEF Searching, Answer
  <1>5. CASE turn = "backward"
    <2>1. turn' = "over" /\ path' = <<>> /\ ~Found'
      BY <1>1, <1>2, <1>5 DEF Exhausted, Found
    <2>2. Len(path') = 0
      BY <2>1
    <2>3. PathIsDependence'
      BY <2>1 DEF PathIsDependence
    <2>4. Generous' => /\ ~Influences(query.b, query.a, defs)'
                       /\ ~Influences(query.a, query.b, defs)'
      BY <1>1, <1>5, NothingLeft, SameQuestion
    <2>5. ExactWhenGenerous'
      BY <2>1, <2>2, <2>4 DEF ExactWhenGenerous
    <2> QED
      BY <2>1, <2>3, <2>5 DEF Searching, Answer
  <1> QED
    BY <1>1, <1>4, <1>5

LEMMA IInvStep == IInv /\ [Next]_vars => IInv'
  <1> SUFFICES ASSUME IInv, [Next]_vars PROVE IInv'
    OBVIOUS
  <1> USE DEF IInv
  <1>1. TypeOK'
    BY TypesStep
  <1>2. CASE SameNode
    BY <1>1, <1>2, SameNodeStep
  <1>3. CASE Expand
    BY <1>1, <1>3, ExpandStep
  <1>4. ASSUME NEW e \in InPlace, turn # "over", SkipSeen(e) \/ Discover(e) \/ FoundTarget(e)
        PROVE  IInv'
    BY <1>1, <1>4, SkipStep, DiscoverStep, FoundStep
  <1>5. CASE Exhausted
    BY <1>1, <1>5, ExhaustedStep
  <1>6. CASE UNCHANGED vars
    <2>1. (turn' = turn /\ path' = path /\ query' = query /\ defs' = defs)
          /\ prev' = prev /\ queue' = queue /\ current' = current /\ todo' = todo
      BY <1>6 DEF vars
    <2>2. Searching'
      BY <2>1 DEF Searching, Searched, Source, Target, Unseen, Met, Around, Influences, Budget,
                  SameFunction, Generous, Neighbors, Successors, OneFunction, CrossingAllowed
    <2>3. Answer'
      BY <2>1 DEF Answer, PathIsDependence, ExactWhenGenerous, Over, Found, SameFunction,
                  Generous, Influences, Budget
    <2> QED
      BY <1>1, <2>2, <2>3
  <1> QED
    BY <1>2, <1>3, <1>4, <1>5, <1>6 DEF Next, Answered

-----------------------------------------------------------------------------
\* The state of the search keeps its types, and what is returned is a sequence
\* of hops.
THEOREM PathsTypeCorrect == Spec => [](TypeOK /\ (turn = "over" => path \in Seq(Hop)))
  <1>1. Init => IInv
    BY TypesInit, SearchingInit DEF IInv
  <1>2. IInv => TypeOK /\ (turn = "over" => path \in Seq(Hop))
    BY DEF IInv, Answer
  <1> QED
    BY <1>1, <1>2, IInvStep, PTL DEF Spec

\* For every contract, pair of nodes and depth: the path that explain_dependence
\* returns runs over real dependences of the kinds it names, from one node of
\* the question to the other, without a repetition and within the budget.
THEOREM PathsAreDependences == Spec => []PathIsDependence
  <1>1. Init => IInv
    BY TypesInit, SearchingInit DEF IInv
  <1>2. IInv => PathIsDependence
    BY DEF IInv, Answer, PathIsDependence, Over
  <1> QED
    BY <1>1, <1>2, IInvStep, PTL DEF Spec

\* For every contract and every question whose budget cannot run out: the answer
\* is exact, in the direction asked for whenever there is one, and shortest.
THEOREM AnswersAreExact == Spec => []ExactWhenGenerous
  <1>1. Init => IInv
    BY TypesInit, SearchingInit DEF IInv
  <1>2. IInv => ExactWhenGenerous
    BY DEF IInv, Answer, ExactWhenGenerous, Over
  <1> QED
    BY <1>1, <1>2, IInvStep, PTL DEF Spec
=============================================================================
