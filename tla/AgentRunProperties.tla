-------------------------- MODULE AgentRunProperties --------------------------
(***************************************************************************)
(* What the agent tools promise: a verdict is returned only when it passes *)
(* every check, nothing runs that the operator did not allow, nothing is   *)
(* left on disk, and a call ends whatever the sub-agent does.              *)
(***************************************************************************)
EXTENDS AgentRun

\* A type for every variable; a call that has ended has a status, and no other.
AgentTypeOK ==
    /\ env \in Environment
    /\ version \in Version /\ call \in 0..MaxCalls
    /\ request \in Request
    /\ at \in Step /\ outcome \in Outcome
    /\ at = "idle" <=> call = 0
    /\ at = "ended" <=> outcome # "none"
    /\ facts \in Version
    /\ slices \in [NodeId -> Version \cup {Unsliced}]
    /\ homes \subseteq 1..call /\ cwds \subseteq 1..call
    /\ said \in {Nothing, Prose, Malformed} \cup Replies
    /\ exit \in Exit

-----------------------------------------------------------------------------
\* While the sub-agent runs, the operator has opted in, the call is no dry run,
\* the seed is complete, and its isolated home and working directory exist.
RunsIsolated ==
    at = "running" =>
        /\ env.shell /\ ~request.dry
        /\ call \in homes /\ call \in cwds
        /\ Sliced # {} /\ \A n \in Sliced : slices[n] # Unsliced

\* What a call puts on disk is gone when it returns, in whichever way the
\* sub-agent ended: no working directory is left, and no home that was filled.
\* A home outlives its call only when filling it raised.
NothingLeft ==
    /\ at \in {"ended", "checking"} => cwds = {}
    /\ at = "ended" /\ call \in homes => outcome = "raised" /\ exit = "none"

\* An invariant verdict that is returned has a disposition for every writer of
\* the seed and for no other node, and cites only nodes that a version of the
\* sources had at some moment of the call, even when the sub-agent and the user
\* go on between the seed and the check.  Anything less ends in a status.
VerdictEarned ==
    outcome = "verdict" =>
        /\ exit = "zero" /\ said \in Conforming
        /\ IsInvariantCheck =>
              /\ Writers(facts) # {}
              /\ said.status # "invariant-unknown" =>
                    DispositionedIn(said) = Writers(facts)
              /\ \A n \in said.cited : \E v \in facts..version : n \in Allowed(v)

\* A call ends, and its process with it, even when the sub-agent never does and
\* goes on talking until its time is over.
CallEnds == \A c \in 1..MaxCalls : call = c ~> at = "ended" \/ call # c

-----------------------------------------------------------------------------
(* What the documents say and the code does not do.                        *)

\* "The caller is responsible for cleanup": it cleans up what it was given.
HomeRemoved == at = "ended" => homes = {}

\* The seed's row of a writer holds the "backward slice of the write": the slice
\* is one of the write that was found, in the sources it was found in.
RowsOfOneVersion ==
    at = "seeded" => \A n \in Sliced : slices[n] = facts

\* "every writer in the complete set must get exactly one disposition"
OneDispositionEach ==
    outcome = "verdict" /\ IsInvariantCheck /\ said.status # "invariant-unknown" =>
        \A d, e \in said.dispositions : d[1] = e[1] => d = e

\* "or raise ValueError if node_id is not a delegatecall site"
SeededAtDelegatecall ==
    at = "seeded" /\ ~IsInvariantCheck =>
        request.node \in Engine[slices[request.node]].sites
=============================================================================
