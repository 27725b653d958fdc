---------------------- MODULE DependencyPathsProperties ----------------------
(***************************************************************************)
(* What explain_dependence promises: the path it returns is one of real    *)
(* dependences within the budget, and there is none shorter, or at all,    *)
(* when it returns none.                                                   *)
(***************************************************************************)
EXTENDS DependencyPaths

CONSTANTS NoName, MaxDepth, MaxRounds, XContractDepth

Over == turn = "over"
Found == path # <<>>
SameFunction == FnOf(query.a) = FnOf(query.b)

Crossings(p) == Cardinality({i \in DOMAIN p : p[i].kind \in {"callee", "storage-dep"}})

\* The edges of a kind, with the definitions D.
Targets(n, kind, D) ==
    CASE kind = "data-dep"    -> DataDependencies(n, D)
      [] kind = "control-dep" -> ControlDependencies(n)
      [] kind = "callee"      -> Descents(n) \cup Ascents(n)
      [] kind = "storage-dep" -> StorageWriters(n)

\* The path that is returned leads from one of the two nodes to the other, each
\* hop is a dependence of the kind it carries, it goes through no node twice,
\* and it does not cross more boundaries than the budget allows: none at all for
\* two nodes of one function.
PathIsDependence ==
    Over /\ Found =>
        /\ {path[1].node, path[Len(path)].node} = {query.a, query.b}
        /\ path[1].kind = "seed"
        /\ \A i \in 2..Len(path) : path[i].node \in Targets(path[i-1].node, path[i].kind, defs)
        /\ \A i, j \in DOMAIN path : path[i].node = path[j].node => i = j
        /\ Crossings(path) <= IF SameFunction THEN 0 ELSE query.depth

-----------------------------------------------------------------------------
(* The reference: what can be reached with which crossings, hop by hop.    *)

\* Crossings are not counted when they cannot run out.
Cost(budget) == IF budget < Cardinality(Node) THEN 1 ELSE 0

HopsFrom(S, D, budget) ==
    (UNION {{<<m, s[2]>> : m \in DataDependencies(s[1], D) \cup ControlDependencies(s[1])} :
              s \in S})
      \cup UNION {{<<m, s[2] + Cost(budget)>> :
                     m \in Targets(s[1], "callee", D) \cup StorageWriters(s[1])} :
                    s \in {r \in S : r[2] < budget}}

\* What can be reached from n within k hops and the budget.
Within(n, k, D, budget) ==
    LET grow[i \in Nat] ==
          IF i = 0 THEN [all |-> {<<n, 0>>}, new |-> {<<n, 0>>}]
          ELSE LET prior == grow[i - 1]
                   next  == HopsFrom(prior.new, D, budget) \ prior.all
               IN  [all |-> prior.all \cup next, new |-> next]
    IN  {s[1] : s \in grow[k].all}

Budget == IF SameFunction THEN 0 ELSE query.depth

Influences(m, n, D) == m \in Within(n, Cardinality(Node), D, Budget)

\* A budget that no path without a repetition can spend.
Generous == SameFunction \/ query.depth >= Cardinality(Node)

\* When the budget cannot run out the answer is exact: "not connected" means
\* that neither node influences the other, a path is returned in the direction
\* asked for whenever there is one, and there is none shorter.
ExactWhenGenerous ==
    Over /\ Generous =>
        /\ Found <=> Influences(query.b, query.a, defs) \/ Influences(query.a, query.b, defs)
        /\ Found /\ Influences(query.b, query.a, defs) => path[1].node = query.a
        /\ Len(path) > 1 =>
              path[Len(path)].node \notin Within(path[1].node, Len(path) - 2, defs, Budget)

-----------------------------------------------------------------------------
(* What the documents say and the code does not do.                        *)

\* "... or None if dst does not influence src within that budget."
CompleteWithinBudget ==
    Over /\ ~Found =>
        /\ ~Influences(query.b, query.a, defs)
        /\ ~Influences(query.a, query.b, defs)

\* "... or None if dst does not influence src", over the union PDG, threading
\* through merges: every definition that a merge merges influences what reads it.
EveryDefinitionCounts ==
    Over /\ ~Found /\ SameFunction =>
        /\ ~Influences(query.b, query.a, DefinitionsOf)
        /\ ~Influences(query.a, query.b, DefinitionsOf)

\* The backward slicer's reference, asked about the node the path starts from.
Slicer ==
    INSTANCE BackwardSlicerProperties WITH
        request <- [node |-> path[1].node, target |-> NoName, depth |-> query.depth,
                    rounds |-> 1, cross |-> FALSE],
        included <- {}, visited <- {}, work <- {}, notes <- {}, xcSeen <- {},
        xcUsed <- 0, pulled <- {}, stitched <- {}, round <- 0, stage <- "done"

\* "... so a path here is a path the slicer would also have followed": from what
\* its first node reads and defines, with the same budget.
FollowedBySlicer ==
    Over /\ Found /\ path[Len(path)].node \notin Scaffolding =>
        LET first == path[1].node
            last  == path[Len(path)].node
            asked == Slicer!CriterionFacts
                       \cup Slicer!VarFacts(NodeDefs(first), FnOf(first), 0)
        IN  Slicer!NodeFact(last) \in Slicer!LeastClosed(asked, [x \in Slicer!Fact |-> Slicer!DependsOn(x)])
=============================================================================
