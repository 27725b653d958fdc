--------------------------- MODULE DependenceSearch ---------------------------
(***************************************************************************)
(* What a backward slice is, whatever algorithm computes it: facts about   *)
(* what the criterion depends on are learnt, each from one that is known,  *)
(* until the known facts are closed under dependence; then they are the    *)
(* answer.  There is no worklist, no visited map and no order of           *)
(* statements; BackwardSlicer is shown to implement this specification.    *)
(*                                                                         *)
(* A fact is a node, or a variable with the call crossings spent to get to *)
(* it.  One that is known with some crossings is known with more.          *)
(***************************************************************************)
EXTENDS SlitherContract

CONSTANTS Request, MaxDepth, Seeds(_, _)   \* as in BackwardSlicer

VARIABLES
    question,  \* criterion and options
    known,     \* the facts learnt
    answered   \* the facts were returned

vars == <<question, known, answered>>

NodeFact(n) == <<"node", n, 0>>
VarFact(v, c) == <<"var", v, c>>

\* The variables of V, with c crossings or more.
Traced(V, c) == {VarFact(v, d) : v \in V, d \in c..MaxDepth}

Nodes(S) == {NodeFact(n) : n \in S}

\* The nodes of S and everything they read, with the whole budget.
Whole(S) == Nodes(S) \cup UNION {Traced(NodeReads(n), 0) : n \in S}

\* An operation and what it reads, with c crossings.
Operation(o, c) == Nodes({NodeOf(o)} \ Scaffolding) \cup Traced(Reads(o), c)

-----------------------------------------------------------------------------
(* Dependence.                                                             *)

\* Of a variable: on the operation that defines it ...
DefinitionOf(v, c) ==
    UNION {Traced(Reads(o), c) \cup Nodes(IF Kind(o) = "phi" THEN {} ELSE {NodeOf(o)}) :
             o \in {p \in DefSite(v, Home(v)) : ~IsEntryMerge(p)}}

\* ... on what its callee computes, when that is a call ...
ResultsOf(v, c) ==
    UNION {UNION {Operation(p, c + 1) : p \in ResultOps(Callee(o))} :
             o \in {q \in DefSite(v, Home(v)) : IsDescendable(q) /\ c < question.depth}}

\* ... and, when it is a formal parameter, on every callsite, on the guards that
\* protect the caller, and on the argument passed there.
IsTracedFormal(v, c) ==
    /\ \A o \in DefSite(v, Home(v)) : IsEntryMerge(o)
    /\ NameOf(v) \in Formals(Home(v))
    /\ c < question.depth

CallersOf(v, c) ==
    IF ~IsTracedFormal(v, c) THEN {}
    ELSE UNION {Nodes({NodeOf(o)}) \cup Whole(ModifierGuards[FnOfOp(o)])
                  \cup Traced({Actual(o, NameOf(v))} \ {NoVar}, c + 1) :
                    o \in Callsites[Home(v)]}

OfVariable(v, c) == DefinitionOf(v, c) \cup ResultsOf(v, c) \cup CallersOf(v, c)

\* Of a node: on the nodes it is control dependent on, on the writers of the
\* state it reads, and on what the contracts it calls return.
OfNode(n) ==
    Whole(GuardsOf(n) \ Scaffolding)
      \cup (IF question.rounds = 0 THEN {}
            ELSE UNION {Whole(WritersOf(sv)) : sv \in StateRead(n)})
      \cup (IF ~question.cross THEN {}
            ELSE UNION {Operation(p, 0) :
                   p \in UNION {ResultOps(Callee(o)) : o \in {q \in OpsOf[n] : Kind(q) = "external"}}})

\* What everything depends on: the guards of the criterion's function.
Protection == ModifierGuards[FnOf(question.node)]

Explained ==
    Whole(Protection)
      \cup (UNION {OfNode(n) : n \in {m \in Node : NodeFact(m) \in known}})
      \cup (UNION {OfVariable(x[1], x[2]) :
                     x \in {y \in Var \X (0..MaxDepth) : VarFact(y[1], y[2]) \in known}})

\* The question is about v where v belongs.
StartedAtHome(v) ==
    v \in Seeds(question.node, question.target) => Home(v) = FnOf(question.node)

\* The answer holds the protection and what each of its variables depends on.  A
\* node in it does not bring its state's writers, its external callees or the
\* reads of its guards: those have bounds and conditions of their own.  Nor does
\* an instance of a state variable that another function merges bring its
\* definition: it may be met where it has none.
Closed ==
    /\ Nodes(Protection) \subseteq known
    /\ \A n \in Node : NodeFact(n) \in known => Nodes(GuardsOf(n) \ Scaffolding) \subseteq known
    /\ \A v \in Var, c \in 0..MaxDepth :
          VarFact(v, c) \in known /\ StartedAtHome(v) =>
              /\ ReadAtHome(v) => DefinitionOf(v, c) \cup ResultsOf(v, c) \subseteq known
              /\ CallersOf(v, c) \subseteq known

-----------------------------------------------------------------------------
Init ==
    /\ question \in Request
    /\ known = Nodes({question.node} \ Scaffolding)
                 \cup Traced(Seeds(question.node, question.target), 0)
    /\ answered = FALSE

Learn ==
    /\ ~answered /\ UNCHANGED <<question, answered>>
    /\ known \subseteq known' /\ known' \subseteq known \cup Explained

Answer ==
    /\ ~answered /\ answered' = TRUE
    /\ Closed
    /\ UNCHANGED <<question, known>>

Next == Learn \/ Answer

Spec == Init /\ [][Next]_vars
=============================================================================
