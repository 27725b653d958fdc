---------------------------- MODULE AgentRunProofs ----------------------------
(***************************************************************************)
(* What the agent tools promise, for every engine, every sub-agent, every  *)
(* history of the sources and every number of calls.                       *)
(***************************************************************************)
EXTENDS AgentRunProperties, TLAPS

\* Nothing of the call is on disk before `starting'; its home is from `filling'
\* to `closing', its working directory while there may be a process.
Working == {"spawning", "running", "stopped"}
Housed == Working \cup {"filling", "launching", "closing"}
Unhoused == {"facts", "slicing", "seeded", "starting", "checking"}
BeforeExit == {"facts", "slicing", "seeded", "starting", "filling", "launching",
               "spawning", "running"}
Asked == Housed \cup {"starting", "checking"}

OnDisk ==
    /\ at \in Working => cwds = {call}
    /\ at \notin Working => cwds = {}
    /\ at \in Housed => call \in homes
    /\ at \in Unhoused => call \notin homes
    /\ at = "ended" /\ call \in homes => outcome = "raised" /\ exit = "none"

\* The way out of the sub-agent is known when it is stopped, and not before.
ExitKnown ==
    /\ at \in BeforeExit => exit = "none"
    /\ at \in {"stopped", "closing", "checking"} => exit # "none"
    /\ at = "checking" => exit = "zero" /\ said \notin {Nothing, Prose}

\* The seed is complete, of a version there was, before anyone is asked.
SeedComplete == Sliced # {} /\ \A n \in Sliced : slices[n] # Unsliced

Seeded ==
    /\ facts <= version
    /\ at \in Asked \cup {"seeded"} => SeedComplete
    /\ at \in Asked => env.shell /\ ~request.dry

AInv == AgentTypeOK /\ OnDisk /\ ExitKnown /\ Seeded /\ VerdictEarned

-----------------------------------------------------------------------------
LEMMA AgentInit ==
    Init => AInv
<1> SUFFICES ASSUME Init PROVE AInv
  OBVIOUS
<1>1. request \in Request
  <2>1. PICK n \in NodeId, x \in Name : TRUE
    BY EngineAssumption
  <2>2. [tool |-> "inspect_delegatecall", node |-> n, name |-> x, dry |-> TRUE] \in Request
    BY <2>1 DEF Request, Tool
  <2> QED  BY <2>2 DEF Init
<1>2. 0 \in Version /\ 0 \in 0..MaxCalls
  BY EngineAssumption
<1>3. AgentTypeOK
  BY <1>1, <1>2 DEF Init, AgentTypeOK, Step, Outcome, Exit
<1> QED
  BY <1>2, <1>3 DEF Init, AInv, OnDisk, Working, Housed, Unhoused, BeforeExit, Asked, ExitKnown,
                    Seeded, VerdictEarned

LEMMA AgentTypeNext ==
    ASSUME AgentTypeOK, ExitKnown, Next
    PROVE  AgentTypeOK'
<1> USE DEF AgentTypeOK, seedVars, diskVars, agentVars, Goto, Return, Step, Outcome, Exit
<1>1. CASE Edit
  BY <1>1 DEF Edit
<1>2. CASE Call
  BY <1>2, EngineAssumption DEF Call
<1>3. CASE ResolveFacts
  BY <1>3 DEF ResolveFacts
<1>4. ASSUME NEW n \in NodeId, SliceNode(n)
      PROVE  AgentTypeOK'
  BY <1>4 DEF SliceNode
<1>5. CASE BuildSeed \/ Gate
  BY <1>5 DEF BuildSeed, Gate
<1>6. CASE MakeHome
  BY <1>6, EngineAssumption DEF MakeHome
<1>7. CASE HomeFails \/ HomeFilled \/ KimiMissing \/ CwdFails
  BY <1>7 DEF HomeFails, HomeFilled, KimiMissing, CwdFails
<1>8. CASE MakeCwd
  BY <1>8, EngineAssumption DEF MakeCwd
<1>9. CASE Spawn \/ SpawnFails \/ TimeExpires
  BY <1>9 DEF Spawn, SpawnFails, TimeExpires
<1>10. CASE RemoveCwd
  BY <1>10 DEF RemoveCwd, CwdAfter
<1>11. CASE RemoveHome
  <2>1. Status \in {"unavailable", "timeout", "error", "raised", "checking"}
    BY <1>11 DEF RemoveHome, Status, ExitKnown
  <2> QED  BY <1>11, <2>1 DEF RemoveHome
<1>12. CASE RefuseVerdict \/ CheckEvidence \/ AcceptDelegatecall
  BY <1>12 DEF RefuseVerdict, CheckEvidence, AcceptDelegatecall
<1>13. CASE SubAgent
  BY <1>13 DEF SubAgent, Say, Exits
<1> QED  BY <1>1, <1>2, <1>3, <1>4, <1>5, <1>6, <1>7, <1>8, <1>9, <1>10, <1>11, <1>12, <1>13
         DEF Next, Tooling

\* What is on disk belongs to the call that runs, and is removed at its `finally'.
LEMMA OnDiskNext ==
    ASSUME AgentTypeOK, OnDisk, ExitKnown, Next
    PROVE  OnDisk'
<1> USE DEF OnDisk, Working, Housed, Unhoused, seedVars, diskVars, agentVars, Goto, Return
<1>1. CASE Edit
  BY <1>1 DEF Edit
<1>2. CASE Call
  <2>1. call + 1 \notin homes
    BY EngineAssumption DEF AgentTypeOK
  <2> QED  BY <1>2, <2>1 DEF Call
<1>3. CASE ResolveFacts
  BY <1>3 DEF ResolveFacts
<1>4. ASSUME NEW n \in NodeId, SliceNode(n)
      PROVE  OnDisk'
  BY <1>4 DEF SliceNode
<1>5. CASE BuildSeed \/ Gate
  BY <1>5 DEF BuildSeed, Gate
<1>6. CASE MakeHome
  BY <1>6 DEF MakeHome
<1>7. CASE HomeFails \/ HomeFilled \/ KimiMissing \/ CwdFails
  BY <1>7 DEF HomeFails, HomeFilled, KimiMissing, CwdFails, ExitKnown, BeforeExit
<1>8. CASE MakeCwd
  BY <1>8 DEF MakeCwd
<1>9. CASE Spawn \/ SpawnFails \/ TimeExpires
  BY <1>9 DEF Spawn, SpawnFails, TimeExpires
<1>10. CASE RemoveCwd
  BY <1>10 DEF RemoveCwd, CwdAfter
<1>11. CASE RemoveHome
  BY <1>11 DEF RemoveHome
<1>12. CASE RefuseVerdict \/ CheckEvidence \/ AcceptDelegatecall
  BY <1>12 DEF RefuseVerdict, CheckEvidence, AcceptDelegatecall
<1>13. CASE SubAgent
  BY <1>13 DEF SubAgent, Say, Exits
<1> QED  BY <1>1, <1>2, <1>3, <1>4, <1>5, <1>6, <1>7, <1>8, <1>9, <1>10, <1>11, <1>12, <1>13
         DEF Next, Tooling

LEMMA ExitKnownNext ==
    ASSUME AgentTypeOK, ExitKnown, Next
    PROVE  ExitKnown'
<1> USE DEF ExitKnown, BeforeExit, seedVars, diskVars, agentVars, Goto, Return
<1>1. CASE Edit \/ Call
  BY <1>1 DEF Edit, Call
<1>2. CASE ResolveFacts
  BY <1>2 DEF ResolveFacts
<1>3. ASSUME NEW n \in NodeId, SliceNode(n)
      PROVE  ExitKnown'
  BY <1>3 DEF SliceNode
<1>4. CASE BuildSeed \/ Gate
  BY <1>4 DEF BuildSeed, Gate
<1>5. CASE MakeHome \/ HomeFails \/ HomeFilled \/ KimiMissing \/ CwdFails \/ MakeCwd
  BY <1>5 DEF MakeHome, HomeFails, HomeFilled, KimiMissing, CwdFails, MakeCwd
<1>6. CASE Spawn \/ SpawnFails \/ TimeExpires \/ RemoveCwd
  BY <1>6 DEF Spawn, SpawnFails, TimeExpires, RemoveCwd
<1>7. CASE RemoveHome
  <2>1. Status = "checking" => exit = "zero" /\ said \notin {Nothing, Prose}
    BY <1>7 DEF RemoveHome, Status, AgentTypeOK, Exit
  <2> QED  BY <1>7, <2>1 DEF RemoveHome
<1>8. CASE RefuseVerdict \/ CheckEvidence \/ AcceptDelegatecall
  BY <1>8 DEF RefuseVerdict, CheckEvidence, AcceptDelegatecall
<1>9. CASE SubAgent
  BY <1>9 DEF SubAgent, Say, Exits
<1> QED  BY <1>1, <1>2, <1>3, <1>4, <1>5, <1>6, <1>7, <1>8, <1>9 DEF Next, Tooling

\* Once it is complete the seed does not change before the call ends.
LEMMA SeededNext ==
    ASSUME AgentTypeOK, Seeded, Next
    PROVE  Seeded'
<1> USE DEF Seeded, Asked, Working, Housed, seedVars, diskVars, agentVars, Goto, Return
<1>1. version \in Int /\ facts \in Int
  BY EngineAssumption DEF AgentTypeOK
<1>2. ASSUME UNCHANGED <<request, seedVars>>
      PROVE  SeedComplete' = SeedComplete
  BY <1>2 DEF SeedComplete, Sliced, Writers, IsInvariantCheck
<1>3. CASE Edit
  BY <1>1, <1>2, <1>3 DEF Edit
<1>4. CASE Call
  BY <1>4 DEF Call
<1>5. CASE ResolveFacts
  BY <1>1, <1>5 DEF ResolveFacts
<1>6. ASSUME NEW n \in NodeId, SliceNode(n)
      PROVE  Seeded'
  BY <1>6 DEF SliceNode
<1>7. CASE BuildSeed
  <2>1. Goto("slicing", "seeded") => SeedComplete
    BY <1>7 DEF BuildSeed, SeedComplete, Sliced
  <2> QED  BY <1>2, <1>7, <2>1 DEF BuildSeed
<1>8. CASE Gate
  BY <1>2, <1>8 DEF Gate, OptedIn
<1>9. CASE MakeHome \/ HomeFails \/ HomeFilled \/ KimiMissing \/ CwdFails \/ MakeCwd
  BY <1>2, <1>9 DEF MakeHome, HomeFails, HomeFilled, KimiMissing, CwdFails, MakeCwd
<1>10. CASE Spawn \/ SpawnFails \/ TimeExpires \/ RemoveCwd \/ RemoveHome
  BY <1>2, <1>10 DEF Spawn, SpawnFails, TimeExpires, RemoveCwd, RemoveHome
<1>11. CASE RefuseVerdict \/ CheckEvidence \/ AcceptDelegatecall
  BY <1>2, <1>11 DEF RefuseVerdict, CheckEvidence, AcceptDelegatecall
<1>12. CASE SubAgent
  BY <1>2, <1>12 DEF SubAgent, Say, Exits
<1> QED  BY <1>3, <1>4, <1>5, <1>6, <1>7, <1>8, <1>9, <1>10, <1>11, <1>12 DEF Next, Tooling

\* A verdict is returned by the two accepting statements only, and what it was
\* accepted for stays true while the sources go on.
LEMMA VerdictEarnedNext ==
    ASSUME AgentTypeOK, ExitKnown, Seeded, VerdictEarned, Next
    PROVE  VerdictEarned'
<1> SUFFICES ASSUME outcome' = "verdict" PROVE VerdictEarned'
  BY DEF VerdictEarned
<1>1. version \in Int /\ facts \in Int /\ facts <= version
  BY EngineAssumption DEF AgentTypeOK, Seeded
<1>2. CASE Edit
  <2>1. version' = version + 1 /\ UNCHANGED <<request, facts, said, exit, outcome>>
    BY <1>2 DEF Edit, seedVars, agentVars
  <2>2. facts..version \subseteq facts..version'
    BY <1>1, <2>1
  <2>3. \A n \in said.cited, v \in facts..version' : Allowed(v)' = Allowed(v)
    BY <2>1 DEF Allowed
  <2> QED  BY <2>1, <2>2, <2>3 DEF VerdictEarned, Conforming, IsInvariantCheck, Writers
<1>3. CASE CheckEvidence
  <2>1. /\ at = "checking" /\ Valid /\ IsInvariantCheck /\ Within(said, version)
        /\ said.status = "invariant-unknown" \/ Covers(said)
        /\ UNCHANGED <<version, request, facts, said, exit>>
    BY <1>3 DEF CheckEvidence, Return, Goto, seedVars, agentVars
  <2>2. exit = "zero" /\ said \in Conforming
    BY <2>1 DEF ExitKnown, Valid
  <2>3. Writers(facts) # {}
    BY <2>1 DEF Seeded, Asked, SeedComplete, Sliced
  <2>4. version \in facts..version
    BY <1>1
  <2>5. \A n \in said.cited : \E v \in facts..version : n \in Allowed(v)
    BY <2>1, <2>4 DEF Within
  <2> QED  BY <2>1, <2>2, <2>3, <2>5
           DEF VerdictEarned, Conforming, IsInvariantCheck, Writers, Covers, Allowed
<1>4. CASE AcceptDelegatecall
  BY <1>4 DEF AcceptDelegatecall, Return, Goto, seedVars, agentVars, Valid, ExitKnown,
              VerdictEarned, Conforming, IsInvariantCheck
<1>5. ASSUME at # "ended", outcome' = outcome \/ outcome' \in {"none", "raised", "error"}
      PROVE  FALSE
  BY <1>5 DEF AgentTypeOK
<1>6. CASE Call \/ ResolveFacts \/ (\E n \in NodeId : SliceNode(n)) \/ BuildSeed \/ Gate
  BY <1>5, <1>6 DEF Call, ResolveFacts, SliceNode, BuildSeed, Gate, Goto, Return
<1>7. CASE MakeHome \/ HomeFails \/ HomeFilled \/ KimiMissing \/ CwdFails \/ MakeCwd
  BY <1>5, <1>7 DEF MakeHome, HomeFails, HomeFilled, KimiMissing, CwdFails, MakeCwd, Goto, Return
<1>8. CASE Spawn \/ SpawnFails \/ TimeExpires \/ RemoveCwd \/ SubAgent
  BY <1>5, <1>8 DEF Spawn, SpawnFails, TimeExpires, RemoveCwd, SubAgent, Say, Exits, Goto
<1>9. CASE RemoveHome
  <2>1. Status # "verdict"
    BY <1>9 DEF RemoveHome, Status, ExitKnown, AgentTypeOK, Exit
  <2> QED  BY <1>5, <1>9, <2>1 DEF RemoveHome, Goto, Return
<1>10. CASE RefuseVerdict
  BY <1>10 DEF RefuseVerdict, Return
<1> QED  BY <1>2, <1>3, <1>4, <1>6, <1>7, <1>8, <1>9, <1>10 DEF Next, Tooling

LEMMA AgentInvariant ==
    Spec => []AInv
<1>1. AInv /\ [Next]_vars => AInv'
  <2> SUFFICES ASSUME AInv, [Next]_vars PROVE AInv'
    OBVIOUS
  <2>1. CASE Next
    BY <2>1, AgentTypeNext, OnDiskNext, ExitKnownNext, SeededNext, VerdictEarnedNext DEF AInv
  <2>2. CASE UNCHANGED vars
    BY <2>2 DEF vars, AInv, AgentTypeOK, OnDisk, ExitKnown, Seeded, SeedComplete, Sliced,
                IsInvariantCheck, Writers, VerdictEarned, Conforming, Allowed
  <2> QED  BY <2>1, <2>2
<1> QED  BY <1>1, AgentInit, PTL DEF Spec

-----------------------------------------------------------------------------
(* The theorems.                                                           *)

\* Every variable keeps its type, and a call that has ended has a status.
THEOREM AgentTypeCorrect ==
    Spec => []AgentTypeOK
<1>1. AInv => AgentTypeOK
  BY DEF AInv
<1> QED  BY <1>1, AgentInvariant, PTL

\* The sub-agent never runs without consent, a complete seed and its two
\* directories.
THEOREM SubAgentIsolated ==
    Spec => []RunsIsolated
<1>1. AInv => RunsIsolated
  BY DEF AInv, RunsIsolated, OnDisk, Seeded, SeedComplete, Asked, Housed, Working
<1> QED  BY <1>1, AgentInvariant, PTL

\* run_kimi's and its caller's `finally' leave nothing behind.
THEOREM NothingLeftBehind ==
    Spec => []NothingLeft
<1>1. AInv => NothingLeft
  BY DEF AInv, NothingLeft, OnDisk, Working
<1> QED  BY <1>1, AgentInvariant, PTL

\* A verdict that is returned passed every check that fails closed.
THEOREM VerdictsAreEarned ==
    Spec => []VerdictEarned
<1>1. AInv => VerdictEarned
  BY DEF AInv
<1> QED  BY <1>1, AgentInvariant, PTL
=============================================================================
