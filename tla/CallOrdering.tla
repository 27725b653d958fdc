----------------------------- MODULE CallOrdering -----------------------------
(***************************************************************************)
(* patterns.py, `state_write_after_external_call': can a function write    *)
(* state after it has called out?  From each node that calls out, one      *)
(* depth-first search over the CFG, until one meets a write.               *)
(*                                                                         *)
(* The function is chosen at the start, among all of them over Node.  The  *)
(* stack is a set and the calls are taken in any order: which write is met *)
(* first does not matter to the answer.                                    *)
(***************************************************************************)
CONSTANT Node   \* CFG nodes

VARIABLES
    cfg,     \* the function
    calls,   \* the nodes that call out and were not searched from
    seen,    \* the nodes this search has met
    stack,   \* the nodes it goes to next
    answer   \* "open" until the function returns

vars == <<cfg, calls, seen, stack, answer>>

\* sons: the edges.  external: a node with a call or a transfer to another
\* contract.  writes: a node that writes state; writesResult: it does so after
\* its own call, as in `total = oracle.price()'.
Function ==
    {f \in [sons: [Node -> SUBSET Node], external: SUBSET Node,
            writes: SUBSET Node, writesResult: SUBSET Node] :
        f.writesResult \subseteq f.external \cap f.writes}

Init ==
    /\ cfg \in Function
    /\ calls = cfg.external
    /\ seen = {} /\ stack = {}
    /\ answer = "open"

\* (slip) The search begins with the call itself.
StartAtCall(n) == {n}

\* What comes after a call: the search begins with its successors.
After(n) == cfg.sons[n]

SearchFrom(n) ==
    /\ answer = "open" /\ stack = {}
    /\ calls' = calls \ {n}
    /\ seen' = {} /\ stack' = After(n)
    /\ UNCHANGED <<cfg, answer>>

Met(n) == n \in seen

Skip(n) ==
    /\ answer = "open" /\ Met(n)
    /\ stack' = stack \ {n}
    /\ UNCHANGED <<cfg, calls, seen, answer>>

Meet(n) ==
    /\ answer = "open" /\ ~Met(n)
    /\ seen' = seen \cup {n}
    /\ IF n \in cfg.writes
       THEN answer' = "risk" /\ UNCHANGED stack
       ELSE stack' = (stack \ {n}) \cup cfg.sons[n] /\ UNCHANGED answer
    /\ UNCHANGED <<cfg, calls>>

NoWriteFound ==
    /\ answer = "open" /\ stack = {} /\ calls = {}
    /\ answer' = "none"
    /\ UNCHANGED <<cfg, calls, seen, stack>>

Answered == answer # "open" /\ UNCHANGED vars

Next ==
    \/ \E n \in calls : SearchFrom(n)
    \/ \E n \in stack : Skip(n) \/ Meet(n)
    \/ NoWriteFound
    \/ Answered

Spec == Init /\ [][Next]_vars /\ WF_vars(Next)

-----------------------------------------------------------------------------
(* The reference: the paths of the CFG.                                    *)

\* What a path of at least one edge leads to from n: the least set that holds
\* its sons and theirs.
Reach(n) ==
    {m \in Node : \A S \in SUBSET Node :
        cfg.sons[n] \subseteq S /\ (\A k \in S : cfg.sons[k] \subseteq S) => m \in S}

\* The flag is exact: it is set if and only if a path of the function leads from
\* a call out to a node that writes state, a loop back to the call included,
\* although a search neither returns to what it has met nor begins with the call.
FlagIsExact ==
    answer # "open" =>
        (answer = "risk" <=> \E n \in cfg.external : Reach(n) \cap cfg.writes # {})

\* "True if a state write is reachable (intra-function) after an external call":
\* a statement that stores what its own call returns writes after the call.
OwnResultCounts == answer = "none" => cfg.writesResult = {}
=============================================================================
