--------------------------- MODULE DependencyPaths ---------------------------
(***************************************************************************)
(* graph.py and explain_dependence of mcp_server.py: does one node of a    *)
(* contract influence another, and along which path?  A breadth-first      *)
(* search over nodes, from one of them to the other and, when that finds   *)
(* nothing, back.  Within a function it follows data and control           *)
(* dependence; between functions also calls, callers and storage, each for *)
(* one crossing of a budget.                                               *)
(*                                                                         *)
(* One step handles one neighbour.  The neighbours of a node come by kind, *)
(* and in any order within a kind: two kinds are Python sets.              *)
(***************************************************************************)
EXTENDS SlitherContract, Sequences

CONSTANT Depths   \* the `depth' that may be asked for

ASSUME DepthsAssumption == Depths \subseteq Nat

VARIABLES
    query,   \* node_a, node_b, depth
    defs,    \* which real definition the search takes for a variable
    turn,    \* the search that runs: "forward", "backward", or "over"
    prev,    \* node -> its predecessor and the kind of the edge, NotSeen
    queue,   \* nodes to expand, each with the crossings spent to reach it
    current, \* the node that is expanded, with its crossings
    todo,    \* its neighbours that have not been looked at
    path     \* the path found

vars == <<query, defs, turn, prev, queue, current, todo, path>>

EdgeKind == {"data-dep", "control-dep", "callee", "storage-dep"}

Query == [a: Node, b: Node, depth: Depths]

\* In `seen', with no predecessor or with one.
NotSeen == [from |-> {}, kind |-> "none"]
Seed == [from |-> {}, kind |-> "seed"]
Via(n, kind) == [from |-> {n}, kind |-> kind]

-----------------------------------------------------------------------------
(* The edges.                                                              *)

\* What the merges that a variable of f goes through read, the variable included.
ThroughMerges(v, f) ==
    LET merges(V) == {o \in UNION {DefSite(w, f) : w \in V} : Kind(o) = "phi"}
        grow[i \in Nat] ==
          IF i = 0 THEN {v}
          ELSE LET prior == grow[i - 1] IN prior \cup UNION {Reads(o) : o \in merges(prior)}
    IN  grow[Cardinality(Op)]

\* The nodes of f that really define a variable.
RealDefinitions(v, f) ==
    {NodeOf(o) : o \in {p \in UNION {DefSite(w, f) : w \in ThroughMerges(v, f)} :
                          Kind(p) # "phi"}}

DefinitionsOf == [v \in Var |-> RealDefinitions(v, Home(v))]

\* _def_node returns the first one it meets: one of them, always the same.
Choices ==
    LET merged == {v \in Var : Cardinality(DefinitionsOf[v]) > 1}
        first  == {p \in [merged -> Node] : \A v \in merged : p[v] \in DefinitionsOf[v]}
    IN  {[v \in Var |-> IF v \in merged THEN {p[v]} ELSE DefinitionsOf[v]] : p \in first}

RealReads(n) == UNION {Reads(o) : o \in {p \in OpsOf[n] : Kind(p) # "phi"}}

\* data_dependencies and control_dependencies, with D the definitions taken.
DataDependencies(n, D) ==
    (UNION {D[v] : v \in {w \in RealReads(n) : Home(w) = FnOf(n)}}) \ {n}
ControlDependencies(n) == GuardsOf(n) \ {n}

\* Where a call of the node goes: the returns and state writes of its callees.
Descents(n) ==
    UNION {{m \in Node : FnOf(m) = Callee(o) /\ (TypeOf(m) = "return" \/ StateWritten(m) # {})} :
             o \in {p \in OpsOf[n] : IsDescendable(p)}}

\* _node_reads_formal: the value came from the callers.
ReadsFormal(n) == \E v \in NodeReads(n) : NameOf(v) \in Formals(FnOf(n))
Ascents(n) == IF ReadsFormal(n) THEN {NodeOf(o) : o \in Callsites[FnOf(n)]} ELSE {}

StorageWriters(n) == (UNION {WritersOf(sv) : sv \in StateRead(n)}) \ {n}

\* A neighbour, what it costs to get there, and the place of its kind in the loop.
Edges(N, kind, cr, place) == [node: N, kind: {kind}, cr: {cr}, place: {place}]

\* find_path.
Successors(n, D, cr) ==
    Edges(DataDependencies(n, D), "data-dep", cr, 1)
      \cup Edges(ControlDependencies(n), "control-dep", cr, 2)

CrossingAllowed(cr) == cr < query.depth

\* (slip) Every question goes through the search between functions.
NeverOneFunction == FALSE

\* explain_dependence: a question about one function stays in it.
OneFunction == FnOf(query.a) = FnOf(query.b)

\* _interproc_neighbors.
Neighbors(n, D, cr) ==
    Successors(n, D, cr)
      \cup IF ~OneFunction /\ CrossingAllowed(cr)
           THEN Edges(Descents(n), "callee", cr + 1, 3)
                  \cup Edges(Ascents(n), "callee", cr + 1, 4)
                  \cup Edges(StorageWriters(n), "storage-dep", cr + 1, 5)
           ELSE {}

-----------------------------------------------------------------------------
(* The search.                                                             *)

Source == IF turn = "forward" THEN query.a ELSE query.b
Target == IF turn = "forward" THEN query.b ELSE query.a

Unseen(n) == prev[n] = NotSeen
OnlySeen(n) == [m \in Node |-> IF m = n THEN Seed ELSE NotSeen]

Idle == [node |-> query.a, cr |-> 0]

Init ==
    /\ query \in Query
    /\ defs \in Choices
    /\ turn = "forward"
    /\ prev = OnlySeen(query.a)
    /\ queue = <<[node |-> query.a, cr |-> 0]>>
    /\ current = Idle /\ todo = {} /\ path = <<>>

\* The question is about one node.
SameNode ==
    /\ turn = "forward" /\ query.a = query.b
    /\ path' = <<[node |-> query.a, kind |-> "seed"]>>
    /\ turn' = "over"
    /\ UNCHANGED <<query, defs, prev, queue, current, todo>>

\* queue.popleft()
Expand ==
    /\ turn # "over" /\ query.a # query.b
    /\ todo = {} /\ queue # <<>>
    /\ current' = Head(queue)
    /\ queue' = Tail(queue)
    /\ todo' = Neighbors(current'.node, defs, current'.cr)
    /\ UNCHANGED <<query, defs, turn, prev, path>>

\* The neighbours that the loop may come to next.
InPlace == {e \in todo : \A d \in todo : e.place <= d.place}

SkipSeen(e) ==
    /\ ~Unseen(e.node)
    /\ todo' = todo \ {e}
    /\ UNCHANGED <<query, defs, turn, prev, queue, current, path>>

\* (slip) A node that is met goes before those that wait.
PutFirst(n, cr) == <<[node |-> n, cr |-> cr]>> \o queue

\* queue.append()
Waiting(n, cr) == Append(queue, [node |-> n, cr |-> cr])

Discover(e) ==
    /\ Unseen(e.node) /\ e.node # Target
    /\ prev' = [prev EXCEPT ![e.node] = Via(current.node, e.kind)]
    /\ queue' = Waiting(e.node, e.cr)
    /\ todo' = todo \ {e}
    /\ UNCHANGED <<query, defs, turn, current, path>>

\* _reconstruct: the predecessors of the target, back to the source.
Chain(p) ==
    LET back[i \in Nat] ==
          IF i = 0 THEN <<[node |-> Target, kind |-> p[Target].kind]>>
          ELSE LET sofar == back[i - 1]
               IN  IF p[sofar[1].node] = Seed THEN sofar
                   ELSE LET n == CHOOSE m \in p[sofar[1].node].from : TRUE
                        IN  <<[node |-> n, kind |-> p[n].kind]>> \o sofar
    IN  back[Cardinality(Node)]

FoundTarget(e) ==
    /\ Unseen(e.node) /\ e.node = Target
    /\ prev' = [prev EXCEPT ![e.node] = Via(current.node, e.kind)]
    /\ path' = Chain(prev')
    /\ turn' = "over"
    /\ UNCHANGED <<query, defs, queue, current, todo>>

\* Nothing is left to expand: the search the other way, or no path at all.
Exhausted ==
    /\ turn # "over" /\ query.a # query.b
    /\ todo = {} /\ queue = <<>>
    /\ IF turn = "forward"
       THEN /\ turn' = "backward"
            /\ prev' = OnlySeen(query.b)
            /\ queue' = <<[node |-> query.b, cr |-> 0]>>
       ELSE /\ turn' = "over"
            /\ UNCHANGED <<prev, queue>>
    /\ current' = Idle
    /\ UNCHANGED <<query, defs, todo, path>>

Answered == turn = "over" /\ UNCHANGED vars

Next ==
    \/ SameNode
    \/ Expand
    \/ \E e \in InPlace : turn # "over" /\ (SkipSeen(e) \/ Discover(e) \/ FoundTarget(e))
    \/ Exhausted
    \/ Answered

\* A sequential search.
Spec == Init /\ [][Next]_vars /\ WF_vars(Next)
=============================================================================
