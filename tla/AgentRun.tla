------------------------------- MODULE AgentRun -------------------------------
(***************************************************************************)
(* agent/: the two tools that drive a sub-agent (inspect_delegatecall and  *)
(* check_state_invariant), from the call to what it returns.               *)
(*                                                                         *)
(*   facts -> slicing -> seeded -> starting -> filling -> launching ->     *)
(*   spawning -> running -> stopped -> closing -> checking -> ended        *)
(*                                                                         *)
(* The engine is asked for facts four times in one call (the writer set,   *)
(* each writer's slice, the nodes a finding may cite), and each time it    *)
(* resolves the project anew.  Between any two steps the user may edit the *)
(* sources, so each answer is that of some version of them, and versions   *)
(* only go forward.  A step may fail on its way out to the file system or  *)
(* to the compiler, with an exception that neither tool handles.           *)
(***************************************************************************)
EXTENDS Integers

CONSTANTS
    NodeId,      \* node ids
    Name,        \* names of state variables
    Version,     \* versions of the sources, 0 first
    Engine,      \* what the engine answers, for each version
    Synthetic,   \* nodes of `slitherConstructor*' functions
    Replies,     \* the objects the sub-agent may end with
    MaxCalls     \* bound on the calls made

\* compiles: a version with an error has no facts.  declared: the state
\* variables of the contract; the engine refuses any other.  nodes: the node ids
\* there are; sites: those of them that are delegatecalls; slice: the nodes of a
\* node's backward slice.
EngineFacts ==
    [compiles: BOOLEAN, declared: SUBSET Name, nodes: SUBSET NodeId,
     sites: SUBSET NodeId, slice: [NodeId -> SUBSET NodeId],
     writers: [Name -> SUBSET NodeId], readers: [Name -> SUBSET NodeId]]

ASSUME EngineAssumption ==
    /\ Version \subseteq Nat /\ 0 \in Version
    /\ \A v \in Version : 0..v \subseteq Version
    /\ Engine \in [Version -> EngineFacts]
    /\ NodeId # {} /\ Name # {} /\ Synthetic \subseteq NodeId
    /\ MaxCalls \in Nat

Tool == {"inspect_delegatecall", "check_state_invariant"}

\* The dispositions of INVARIANT_VERDICT_SCHEMA.
Disposition == {"holds", "violates", "underconstrained"}

\* A verdict of check_state_invariant.  cited: every node its findings name, as
\* the writer or in the evidence.
InvariantVerdict ==
    [form: {"verdict"}, status: {"checked", "invariant-unknown", "partial"},
     dispositions: SUBSET (NodeId \X Disposition), cited: SUBSET NodeId]

\* A verdict of inspect_delegatecall: no disposition is asked for.
DelegatecallVerdict ==
    [form: {"verdict"}, status: {"resolved", "unresolved", "partial"},
     dispositions: {{}}, cited: SUBSET NodeId]

\* What else the last assistant message may be: there is none, it is no JSON
\* object, or an object that the schema refuses.
Deviation(form) == [form |-> form, status |-> "", dispositions |-> {}, cited |-> {}]
Nothing == Deviation("nothing")
Prose == Deviation("prose")
Malformed == Deviation("malformed")

ASSUME ReplyAssumption == Replies \subseteq InvariantVerdict \cup DelegatecallVerdict

VARIABLES
    env,       \* the environment of the server: opted in, timeout, `kimi', extra
    version,   \* the sources as they are
    call,      \* how many calls have been made
    request,   \* the call that runs: tool, what it names, dry run
    at,        \* the statement of it that runs
    facts,     \* the version its facts are of
    slices,    \* for each node, the version its slice in the seed is of, or Unsliced
    homes,     \* the temporary Kimi homes on disk, by call
    cwds,      \* the temporary working directories on disk, by call
    said,      \* the last assistant message
    exit,      \* how the sub-agent ended
    outcome    \* the status returned

vars == <<env, version, call, request, at, facts, slices, homes, cwds,
          said, exit, outcome>>
diskVars == <<homes, cwds>>
agentVars == <<said, exit>>
seedVars == <<facts, slices>>

\* No version.
Unsliced == -1

Request == [tool: Tool, node: NodeId, name: Name, dry: BOOLEAN]

Step == {"idle", "facts", "slicing", "seeded", "starting", "filling", "launching",
         "spawning", "running", "stopped", "closing", "checking", "ended"}

\* "raised": an exception leaves the tool.
Outcome == {"none", "raised", "error", "no-writers", "dry-run", "blocked",
            "unavailable", "timeout", "verdict"}

Exit == {"none", "zero", "login", "nonzero", "expired", "no-kimi", "os-error"}

Environment == [shell: BOOLEAN, timeout: BOOLEAN, kimi: BOOLEAN, extra: BOOLEAN]

-----------------------------------------------------------------------------
(* The facts of one version.                                               *)

IsInvariantCheck == request.tool = "check_state_invariant"

\* The writers of the variable that a caller can trigger (_real_writer).
Writers(v) == Engine[v].writers[request.name] \ Synthetic

\* _allowed_node_ids: the writers and readers of every state variable.
Allowed(v) ==
    UNION {Engine[v].writers[x] \cup Engine[v].readers[x] : x \in Engine[v].declared}

\* The nodes whose slices the seed holds.
Sliced == IF IsInvariantCheck THEN Writers(facts) ELSE {request.node}

Init ==
    /\ env \in Environment
    /\ version = 0 /\ call = 0
    /\ request = CHOOSE r \in Request : TRUE
    /\ at = "idle" /\ outcome = "none"
    /\ facts = 0 /\ slices = [n \in NodeId |-> Unsliced]
    /\ homes = {} /\ cwds = {}
    /\ said = Nothing /\ exit = "none"

\* The user edits the sources.
Edit ==
    /\ version + 1 \in Version
    /\ version' = version + 1
    /\ UNCHANGED <<env, call, request, at, seedVars, diskVars, agentVars, outcome>>

\* Statement a is over, and b is next.
Goto(a, b) == at = a /\ at' = b

\* The call returns (or raises) at statement a.
Return(a, status) == Goto(a, "ended") /\ outcome' = status

-----------------------------------------------------------------------------
(* The seed.                                                               *)

Call ==
    /\ at \in {"idle", "ended"} /\ call < MaxCalls
    /\ call' = call + 1
    /\ request' \in Request
    /\ at' = "facts" /\ outcome' = "none"
    /\ slices' = [n \in NodeId |-> Unsliced]
    /\ said' = Nothing /\ exit' = "none"
    /\ UNCHANGED <<env, version, facts, diskVars>>

\* _get_slicer, and for an invariant the writer set.
ResolveFacts ==
    /\ facts' = version
    /\ IF ~Engine[version].compiles
       THEN Return("facts", "raised")
       ELSE IF IsInvariantCheck /\ request.name \notin Engine[version].declared
       THEN Return("facts", "error")
       ELSE Goto("facts", "slicing") /\ UNCHANGED outcome
    /\ UNCHANGED <<env, version, call, request, slices, diskVars, agentVars>>

\* slice_from_impl resolves the project and the node id again.
SliceNode(n) ==
    /\ n \in Sliced /\ slices[n] = Unsliced
    /\ IF ~Engine[version].compiles
       THEN Return("slicing", "raised") /\ UNCHANGED slices
       ELSE IF n \notin Engine[version].nodes
       THEN Return("slicing", "error") /\ UNCHANGED slices
       ELSE /\ Goto("slicing", "slicing")
            /\ slices' = [slices EXCEPT ![n] = version]
            /\ UNCHANGED outcome
    /\ UNCHANGED <<env, version, call, request, facts, diskVars, agentVars>>

\* build_seed takes the first delegatecall among the calls of the whole slice.
DelegatecallSliced ==
    LET seen == Engine[slices[request.node]]
    IN  seen.slice[request.node] \cap seen.sites # {}

\* The seed is complete, unless there is nothing to seed.
BuildSeed ==
    /\ \A n \in Sliced : slices[n] # Unsliced
    /\ IF IsInvariantCheck /\ Sliced = {}
       THEN Return("slicing", "no-writers")
       ELSE IF ~IsInvariantCheck /\ ~DelegatecallSliced
       THEN Return("slicing", "error")
       ELSE Goto("slicing", "seeded") /\ UNCHANGED outcome
    /\ UNCHANGED <<env, version, call, request, seedVars, diskVars, agentVars>>

\* (slip) The gate is asked only of the invariant check.
OptedInForgotten == env.shell \/ ~IsInvariantCheck

\* SLITHER_SLICER_AGENT_ALLOW_SHELL=1
OptedIn == env.shell

\* A dry run returns the seed, and without the operator's consent so does the
\* gate; a limit that is no number raises.
Gate ==
    /\ IF request.dry       THEN Return("seeded", "dry-run")
       ELSE IF ~OptedIn     THEN Return("seeded", "blocked")
       ELSE IF ~env.timeout THEN Return("seeded", "raised")
       ELSE Goto("seeded", "starting") /\ UNCHANGED outcome
    /\ UNCHANGED <<env, version, call, request, seedVars, diskVars, agentVars>>

-----------------------------------------------------------------------------
(* write_kimi_home and run_kimi.                                           *)

\* mkdtemp makes the home, and the rest of write_kimi_home fills it.
MakeHome ==
    /\ Goto("starting", "filling")
    /\ homes' = homes \cup {call}
    /\ UNCHANGED <<env, version, call, request, seedVars, cwds, agentVars, outcome>>

\* A file cannot be made, read or copied.  The caller's `try' has not begun.
HomeFails ==
    /\ at \in {"starting", "filling"}
    /\ Return(at, "raised")
    /\ UNCHANGED <<env, version, call, request, seedVars, diskVars, agentVars>>

HomeFilled ==
    /\ Goto("filling", "launching")
    /\ UNCHANGED <<env, version, call, request, seedVars, diskVars, agentVars, outcome>>

\* _require_kimi raises before anything is started ...
KimiMissing ==
    /\ ~env.kimi /\ Goto("launching", "closing")
    /\ exit' = "no-kimi"
    /\ UNCHANGED <<env, version, call, request, seedVars, diskVars, said, outcome>>

\* ... or the throwaway working directory cannot be made, or is made.
CwdFails ==
    /\ env.kimi /\ Goto("launching", "closing")
    /\ exit' = "os-error"
    /\ UNCHANGED <<env, version, call, request, seedVars, diskVars, said, outcome>>

MakeCwd ==
    /\ env.kimi /\ Goto("launching", "spawning")
    /\ cwds' = cwds \cup {call}
    /\ UNCHANGED <<env, version, call, request, seedVars, homes, agentVars, outcome>>

Spawn ==
    /\ Goto("spawning", "running")
    /\ UNCHANGED <<env, version, call, request, seedVars, diskVars, agentVars, outcome>>

\* The process cannot be started.
SpawnFails ==
    /\ Goto("spawning", "stopped")
    /\ exit' = "os-error"
    /\ UNCHANGED <<env, version, call, request, seedVars, diskVars, said, outcome>>

\* The verdicts that conform to the schema of the tool.
Conforming ==
    IF IsInvariantCheck THEN InvariantVerdict ELSE DelegatecallVerdict

\* The sub-agent says something; the last assistant message counts.
Say(reply) ==
    /\ Goto("running", "running")
    /\ said' = reply
    /\ UNCHANGED <<env, version, call, request, seedVars, diskVars, exit, outcome>>

Exits(code) ==
    /\ code \in {"zero", "login", "nonzero"}
    /\ Goto("running", "stopped")
    /\ exit' = code
    /\ UNCHANGED <<env, version, call, request, seedVars, diskVars, said, outcome>>

\* (slip) No time limit is passed.
UnlimitedTime == FALSE

LimitedTime == TRUE

\* subprocess.run kills the process when its time is over.
TimeExpires ==
    /\ LimitedTime /\ Goto("running", "stopped")
    /\ exit' = "expired"
    /\ UNCHANGED <<env, version, call, request, seedVars, diskVars, said, outcome>>

\* (slip) The directory is removed only when the sub-agent ended by itself.
CwdAfterExit == IF exit = "expired" THEN cwds ELSE cwds \ {call}

\* run_kimi's `finally'.
CwdAfter == cwds \ {call}

RemoveCwd ==
    /\ Goto("stopped", "closing")
    /\ cwds' = CwdAfter
    /\ UNCHANGED <<env, version, call, request, seedVars, homes, agentVars, outcome>>

\* What the handlers make of the way the sub-agent ended, and of its last words:
\* each clause of the `except' chain, "checking" when a JSON object was found.
Status ==
    CASE exit \in {"no-kimi", "login"}  -> "unavailable"
      [] exit = "expired"               -> "timeout"
      [] exit = "nonzero"               -> "error"
      [] exit = "os-error"              -> "raised"
      [] exit = "zero"                  ->
            IF said \in {Nothing, Prose} THEN "error" ELSE "checking"

\* The caller's `finally' removes the home whatever happened.
RemoveHome ==
    /\ at = "closing"
    /\ homes' = homes \ {call}
    /\ IF Status = "checking" THEN Goto("closing", "checking") /\ UNCHANGED outcome
                              ELSE Return("closing", Status)
    /\ UNCHANGED <<env, version, call, request, seedVars, cwds, agentVars>>

-----------------------------------------------------------------------------
(* The checks that fail closed.                                            *)

\* validate_verdict; without the `agent' extra nothing is valid.
Valid == env.extra /\ said \in Conforming

DispositionedIn(verdict) == {d[1] : d \in verdict.dispositions}

\* (slip) Only missing writers are looked for.
CoversAtLeast(verdict) == Writers(facts) \subseteq DispositionedIn(verdict)

\* assert_writer_coverage, which "invariant-unknown" is excused from.
Covers(verdict) == DispositionedIn(verdict) = Writers(facts)

\* assert_evidence_within_writer_set, against the sources as they are now.
Within(verdict, v) == verdict.cited \subseteq Allowed(v)

RefuseVerdict ==
    /\ \/ ~Valid
       \/ IsInvariantCheck /\ said.status # "invariant-unknown" /\ ~Covers(said)
    /\ Return("checking", "error")
    /\ UNCHANGED <<env, version, call, request, seedVars, diskVars, agentVars>>

\* The containment check resolves the project once more; the exception of an
\* unknown contract is not a VerdictError.
CheckEvidence ==
    /\ Valid /\ IsInvariantCheck
    /\ said.status = "invariant-unknown" \/ Covers(said)
    /\ Return("checking", IF ~Engine[version].compiles       THEN "raised"
                          ELSE IF Within(said, version) THEN "verdict"
                          ELSE "error")
    /\ UNCHANGED <<env, version, call, request, seedVars, diskVars, agentVars>>

AcceptDelegatecall ==
    /\ Valid /\ ~IsInvariantCheck
    /\ Return("checking", "verdict")
    /\ UNCHANGED <<env, version, call, request, seedVars, diskVars, agentVars>>

-----------------------------------------------------------------------------
SubAgent ==
    \/ \E reply \in Replies \cup {Prose, Malformed} : Say(reply)
    \/ \E code \in Exit : Exits(code)

\* What the tool itself does, the wait for the sub-agent included.
Tooling ==
    \/ ResolveFacts \/ (\E n \in NodeId : SliceNode(n)) \/ BuildSeed \/ Gate
    \/ MakeHome \/ HomeFails \/ HomeFilled
    \/ KimiMissing \/ CwdFails \/ MakeCwd \/ Spawn \/ SpawnFails
    \/ TimeExpires \/ RemoveCwd \/ RemoveHome
    \/ RefuseVerdict \/ CheckEvidence \/ AcceptDelegatecall

Next == Edit \/ Call \/ Tooling \/ SubAgent

\* The tool runs on, and its clock does; nothing makes the sub-agent end, the
\* user edit or a client call.
Spec == Init /\ [][Next]_vars /\ WF_vars(Tooling)
=============================================================================
