-------------------------- MODULE CallOrderingProofs --------------------------
(***************************************************************************)
(* The ordering flag is exact for every function.  What the search has met *)
(* or will go to lies on a path from a call (OnPaths), so that a write met *)
(* is a write after a call.  What it has met wrote nothing and leads only  *)
(* to what is met or on the stack (Swept).  When the next search begins    *)
(* the stack is empty, so that what was met is a set of nodes that no edge *)
(* leaves and no write is in: the calls searched from are clear of writes  *)
(* for good (Searched).                                                    *)
(***************************************************************************)
EXTENDS CallOrdering, TLAPS

TypeOK ==
    /\ cfg \in Function
    /\ calls \in SUBSET cfg.external
    /\ seen \in SUBSET Node
    /\ stack \in SUBSET Node
    /\ answer \in {"open", "risk", "none"}

OnPaths == \A m \in seen \cup stack : \E n \in cfg.external : m \in Reach(n)

MetWrite == answer = "risk" => seen \cap cfg.writes # {}

Swept ==
    answer # "risk" =>
        \A m \in seen : m \notin cfg.writes /\ cfg.sons[m] \subseteq seen \cup stack

\* No edge leaves S.
Closed(S) == \A k \in S : cfg.sons[k] \subseteq S

\* No path from n leads to a write.
Clear(n) ==
    \E S \in SUBSET Node : cfg.sons[n] \subseteq S /\ Closed(S) /\ S \cap cfg.writes = {}

Searched ==
    answer # "risk" =>
        \A n \in cfg.external \ calls : cfg.sons[n] \subseteq seen \cup stack \/ Clear(n)

AllSearched == answer = "none" => calls = {} /\ stack = {}

IInv == TypeOK /\ OnPaths /\ MetWrite /\ Swept /\ Searched /\ AllSearched

-----------------------------------------------------------------------------
\* The graph is made of nodes.
LEMMA GraphType ==
    ASSUME cfg \in Function
    PROVE  /\ cfg.external \in SUBSET Node /\ cfg.writes \in SUBSET Node
           /\ \A n \in Node : cfg.sons[n] \in SUBSET Node
  BY DEF Function

\* The sons of a node are on a path from it, and so are the sons of what is.
LEMMA ReachSteps ==
    ASSUME cfg \in Function, NEW n \in Node
    PROVE  /\ cfg.sons[n] \subseteq Reach(n)
           /\ \A m \in Reach(n) : cfg.sons[m] \subseteq Reach(n)
  BY GraphType DEF Reach

\* A node that is clear of writes reaches none.
LEMMA ClearReach ==
    ASSUME NEW n \in Node, Clear(n)
    PROVE  Reach(n) \cap cfg.writes = {}
  BY DEF Clear, Closed, Reach

LEMMA InitInv == Init => IInv
  BY DEF Init, IInv, TypeOK, OnPaths, MetWrite, Swept, Searched, AllSearched

\* The function does not change.
LEMMA SameFunction ==
    ASSUME cfg' = cfg, NEW n
    PROVE  Reach(n)' = Reach(n) /\ Clear(n)' = Clear(n)
  BY DEF Reach, Clear, Closed

LEMMA SearchFromInv ==
    ASSUME IInv, NEW n \in calls, SearchFrom(n)
    PROVE  IInv'
  <1> USE DEF IInv
  <1>1. /\ answer = "open" /\ stack = {} /\ calls' = calls \ {n} /\ seen' = {}
        /\ stack' = cfg.sons[n] /\ cfg' = cfg /\ answer' = answer
    BY DEF SearchFrom, After
  <1>2. n \in cfg.external /\ n \in Node /\ cfg.sons[n] \in SUBSET Node
    BY GraphType DEF TypeOK
  <1>3. TypeOK'
    BY <1>1, <1>2 DEF TypeOK
  <1>4. OnPaths'
    BY <1>1, <1>2, ReachSteps, SameFunction DEF TypeOK, OnPaths
  <1>5. Searched'
    <2> SUFFICES ASSUME NEW c \in cfg.external \ calls'
                 PROVE  cfg.sons[c] \subseteq stack' \/ Clear(c)
      BY <1>1, SameFunction DEF Searched
    <2>1. CASE c = n
      BY <1>1, <2>1
    <2>2. CASE c # n /\ cfg.sons[c] \subseteq seen
      <3>1. Closed(seen) /\ seen \cap cfg.writes = {} /\ seen \in SUBSET Node
        BY <1>1 DEF Swept, Closed, TypeOK
      <3> QED
        BY <2>2, <3>1 DEF Clear
    <2> QED
      BY <1>1, <2>1, <2>2 DEF Searched
  <1> QED
    BY <1>1, <1>3, <1>4, <1>5 DEF MetWrite, Swept, AllSearched

\* A node that is met again leaves the stack.
LEMMA SkipInv ==
    ASSUME IInv, NEW n \in stack, Skip(n)
    PROVE  IInv'
  <1> USE DEF IInv
  <1>1. /\ n \in seen /\ stack' = stack \ {n} /\ answer = "open"
        /\ UNCHANGED <<cfg, calls, seen, answer>>
    BY DEF Skip, Met
  <1>2. seen' \cup stack' = seen \cup stack
    BY <1>1
  <1>3. OnPaths'
    BY <1>1, <1>2, SameFunction DEF OnPaths
  <1>4. Swept' /\ Searched'
    BY <1>1, <1>2, SameFunction DEF Swept, Searched
  <1> QED
    BY <1>1, <1>3, <1>4 DEF TypeOK, MetWrite, AllSearched

LEMMA MeetInv ==
    ASSUME IInv, NEW n \in stack, Meet(n)
    PROVE  IInv'
  <1> USE DEF IInv
  <1>1. answer = "open" /\ seen' = seen \cup {n} /\ cfg' = cfg /\ calls' = calls
    BY DEF Meet
  <1>2. n \in Node /\ cfg.sons[n] \in SUBSET Node
    BY GraphType DEF TypeOK
  <1>3. CASE n \in cfg.writes
    <2>1. answer' = "risk" /\ stack' = stack
      BY <1>3 DEF Meet
    <2>2. OnPaths'
      BY <1>1, <2>1, SameFunction DEF OnPaths
    <2> QED
      BY <1>1, <1>2, <1>3, <2>1, <2>2 DEF TypeOK, MetWrite, Swept, Searched, AllSearched
  <1>4. CASE n \notin cfg.writes
    <2>1. answer' = answer /\ stack' = (stack \ {n}) \cup cfg.sons[n]
      BY <1>4 DEF Meet
    <2>2. seen' \cup stack' = seen \cup stack \cup cfg.sons[n]
      BY <1>1, <2>1
    <2>3. OnPaths'
      <3>1. PICK c \in cfg.external : n \in Reach(c)
        BY DEF OnPaths
      <3>2. cfg.sons[n] \subseteq Reach(c)
        BY <3>1, ReachSteps, GraphType DEF TypeOK
      <3> QED
        BY <1>1, <2>2, <3>2, SameFunction DEF OnPaths
    <2>4. Swept'
      BY <1>1, <1>4, <2>1, <2>2 DEF Swept
    <2>5. Searched'
      BY <1>1, <2>1, <2>2, SameFunction DEF Searched
    <2> QED
      BY <1>1, <1>2, <2>1, <2>3, <2>4, <2>5 DEF TypeOK, MetWrite, AllSearched
  <1> QED
    BY <1>3, <1>4

LEMMA NextInv == IInv /\ [Next]_vars => IInv'
  <1> SUFFICES ASSUME IInv, [Next]_vars PROVE IInv'
    OBVIOUS
  <1>1. CASE NoWriteFound
    <2>1. answer' = "none" /\ answer = "open" /\ UNCHANGED <<cfg, calls, seen, stack>>
      BY <1>1 DEF NoWriteFound
    <2>2. OnPaths' /\ Searched'
      BY <2>1, SameFunction DEF IInv, OnPaths, Searched
    <2> QED
      BY <1>1, <2>1, <2>2
      DEF NoWriteFound, IInv, TypeOK, MetWrite, Swept, AllSearched
  <1>2. CASE UNCHANGED vars
    <2>1. OnPaths' /\ Searched'
      BY <1>2, SameFunction DEF vars, IInv, OnPaths, Searched
    <2> QED
      BY <1>2, <2>1 DEF vars, IInv, TypeOK, MetWrite, Swept, AllSearched
  <1> QED
    BY <1>1, <1>2, SearchFromInv, SkipInv, MeetInv DEF Next, Answered

-----------------------------------------------------------------------------
\* The checks-effects-interactions flag of patterns.py is exact on every CFG: it
\* is set if and only if a path leads from a call out to a write.
THEOREM OrderingFlagIsExact == Spec => []FlagIsExact
  <1>1. IInv => FlagIsExact
    <2> SUFFICES ASSUME IInv, answer # "open"
                 PROVE  answer = "risk" <=> \E n \in cfg.external : Reach(n) \cap cfg.writes # {}
      BY DEF FlagIsExact
    <2>1. CASE answer = "risk"
      BY <2>1 DEF IInv, MetWrite, OnPaths
    <2>2. CASE answer # "risk"
      <3> SUFFICES ASSUME NEW n \in cfg.external PROVE Reach(n) \cap cfg.writes = {}
        BY <2>2
      <3>1. n \in Node /\ calls = {} /\ stack = {}
        BY <2>2, GraphType DEF IInv, TypeOK, AllSearched
      <3>2. CASE Clear(n)
        BY <3>1, <3>2, ClearReach
      <3>3. CASE cfg.sons[n] \subseteq seen
        <4>1. Closed(seen) /\ seen \cap cfg.writes = {} /\ seen \in SUBSET Node
          BY <2>2, <3>1 DEF IInv, Swept, Closed, TypeOK
        <4> QED
          BY <3>1, <3>3, <4>1, ClearReach DEF Clear
      <3> QED
        BY <2>2, <3>1, <3>2, <3>3 DEF IInv, Searched
    <2> QED
      BY <2>1, <2>2
  <1> QED
    BY <1>1, InitInv, NextInv, PTL DEF Spec
=============================================================================
