------------------------------ MODULE SliceBudget ------------------------------
(***************************************************************************)
(* model.py, `Slice.to_json' and `_truncate_nodes': a slice that is longer *)
(* than the caller's cap is cut down to it, the guards excepted.  What the *)
(* cut returns is computed from the slice alone: the module states it as   *)
(* operators, and one step that applies them to every slice and cap.       *)
(***************************************************************************)
EXTENDS Integers, SequencesExt

CONSTANTS
    MaxLength,   \* bound on the nodes of a slice
    Caps         \* the `max_nodes' asked for

ASSUME BudgetAssumption == MaxLength \in Nat /\ Caps \subseteq Int

VARIABLES
    nodes,   \* the slice, in source order: the reason of each node
    cap,     \* max_nodes, or NoCap
    given,   \* the places of the nodes that are serialized
    note     \* truncated:<kept>-of-<total>-nodes, or NoNote

vars == <<nodes, cap, given, note>>

\* None: no slice is longer.
NoCap == MaxLength + 1

NoNote == <<>>
NotYet == <<0>>

\* _ALWAYS_KEEP_REASONS, and the reasons of supporting context.
KeepReason == {"criterion", "modifier-guard", "control-dep"}
SupportReason == {"data-dep", "callee", "storage-dep"}

Init ==
    /\ nodes \in UNION {[1..n -> KeepReason \cup SupportReason] : n \in 0..MaxLength}
    /\ cap \in Caps \cup {NoCap}
    /\ given = NotYet /\ note = NoNote

Places == [i \in DOMAIN nodes |-> i]

IsGuard(i) == nodes[i] \in KeepReason
Always == {i \in DOMAIN nodes : IsGuard(i)}
Fillable == DOMAIN nodes \ Always

\* The slice s[:n] of the list of the nodes at S.
First(S, n) == {i \in S : Cardinality({j \in S : j <= i}) <= n}

\* (slip) The support is counted on its own.
KeptByKind == Always \cup First(Fillable, cap)

\* The guards, and what the cap leaves for the nodes that come first.
Kept ==
    IF Cardinality(Always) >= cap THEN Always
    ELSE Always \cup First(Fillable, cap - Cardinality(Always))

\* The list of the nodes at S, in source order.
InOrder(S) ==
    CHOOSE s \in [1..Cardinality(S) -> S] : \A i, j \in DOMAIN s : i < j => s[i] < s[j]

\* (slip) As they were collected, guards first.
InKeptOrder == InOrder(Always) \o InOrder(Kept \ Always)

\* Source order again.
Ordered == InOrder(Kept)

OverCap == Len(nodes) > cap

Serialize ==
    /\ given = NotYet
    /\ IF OverCap
       THEN given' = Ordered /\ note' = <<Len(Ordered), Len(nodes)>>
       ELSE given' = Places /\ note' = NoNote
    /\ UNCHANGED <<nodes, cap>>

Serialized == given # NotYet /\ UNCHANGED vars

Next == Serialize \/ Serialized

Spec == Init /\ [][Next]_vars

-----------------------------------------------------------------------------
Done == given # NotYet

\* "A guard is never dropped", a cap below their number, zero or negative
\* included, and no node is made up, repeated or moved.
GuardsKeptInOrder ==
    Done =>
        /\ \A i \in DOMAIN nodes : IsGuard(i) => i \in ToSet(given)
        /\ ToSet(given) \subseteq DOMAIN nodes
        /\ \A i, j \in DOMAIN given : i < j => given[i] < given[j]

\* The cap is used up and, as far as the guards allow, not exceeded, whichever
\* of the two is larger; what is left out comes after all the support that is kept.
\* A slice with a node left out says so, and counts them.
CapIsSpent ==
    Done =>
        /\ IF OverCap
           THEN Len(given) = (IF Cardinality(Always) > cap THEN Cardinality(Always) ELSE cap)
           ELSE given = Places
        /\ \A i \in ToSet(given), j \in DOMAIN nodes \ ToSet(given) : IsGuard(i) \/ i < j
        /\ Len(given) < Len(nodes) => note = <<Len(given), Len(nodes)>>
=============================================================================
