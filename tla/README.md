# slither-slicer in TLA+

slither-slicer computes program slices of Solidity contracts on top of Slither: given a
criterion (a statement, possibly a variable), the statements it depends on (backward) or
influences (forward), across functions, storage and contracts. An auditor or an LLM agent
reads the slice *instead of* the code, so what the slice leaves out matters as much as what
it holds. This directory specifies the slicer, and the server and agent tools around it, in
TLA+, model-checks them with TLC and proves their main promises with TLAPS. Paths below are
relative to `src/src/slither_slicer/`.

## The system

| component | code | state | operations |
|---|---|---|---|
| Compiled contract, PDG queries | `pdg.py`, `dependence/data.py`, `dependence/storage.py`, `interproc.py` | none that changes: caches of pure functions of a compiled contract | definition and use of an SSA variable, guards of a node, writers of a state variable, callsites, call resolution |
| Control dependence | `dependence/control.py` | post-dominator sets, updated in place | `control_parents` |
| Backward slicer | `slicer.py` | the slice with a reason per node, visited map, worklist, notes, cross-contract budget, stitched variables | `backward` |
| Forward slicer | `slicer.py` | the same object | `forward` |
| Dependency paths | `graph.py` | BFS queue, predecessors | `find_path`, `find_path_interproc` |
| Slicer facade, access catalog | `__init__.py`, `catalog/access.py` | none | guardedness, `access_control_of` |
| Patterns | `patterns.py` | the stack of one search | the checks-effects-interactions flag |
| Sinks, sources, criteria, calls | `catalog/`, `criteria.py`, `calls.py` | none | which criteria there are |
| MCP server | `mcp_server.py` | `_SLICERS`: project -> (compilation, snapshot of the sources) | the tools |
| Spans, truncation | `model.py` | byte cache of the sources | `SourceRef.from_node`, `to_json` |
| Agent tools | `agent/` | temporary directories, the sub-agent's process | `inspect_delegatecall`, `check_state_invariant` |
| Loader, CLI, prompts, rendering | `loader.py`, `cli.py`, `agent/prompts.py`, `render.py` | none of interest | compile, print |

How they interact: the facade and the catalogs make criteria; the slicer asks the PDG
queries and pulls control dependence through `PDG.guards_of`; the MCP server holds a facade
per project and recompiles when the sources change; the agent tools call the MCP server's
functions several times around one run of a sub-agent.

What is hard here:

* **The order of the worklist.** `guards_of` is a Python set, iterated in hash order, and
  pushes from it decide what is popped first. A variable can be met deep in a call chain
  before it is met near the criterion. Every property of the slice has to hold in every
  order.
* **Interacting budgets.** Call crossings are counted per trace, cross-contract descents
  per slice, storage rounds per slice; each of them interrupts some dependence and should
  leave a note.
* **Nested fixpoints.** Data dependence is drained, one scan adds guards, the drain starts
  again; around this come modifier guards, cross-contract descents and storage rounds. A
  node brought in by the last of these must be closed under the first.
* **In-place fixpoints and hash order** in `control.py`, including `max()` of a set.
* **Edits of the sources** between scanning, compiling, slicing and reading bytes (MCP
  server, agent tools): saved, moved, restored, removed and created files, and versions that
  do not compile.
* **Failures and time limits** (agent tools): a step may raise between the moment something
  is put on disk and the `try` that removes it; the sub-agent may never end.

What makes each component correct:

* control dependence: the guards are those of the path definition; a `require` guards all
  that follows it; the walk ends;
* backward slicer: nothing the criterion depends on is missing without a note, nothing
  unrelated is in, the strongest reason wins, it returns;
* forward slicer: the dual, with implicit flows, and modifier guards closed under data
  dependence;
* dependency paths: a path is found iff there is one within the budget, and it is one the
  slicer follows;
* access control: a guarded function has guards to show, and what they compare the caller
  with is traced;
* patterns and truncation: the flag is exact; a cut slice keeps its guards and its order;
* MCP server and spans: no slice describes sources that are no longer there, and offsets
  are applied to the bytes that were compiled;
* agent tools: a verdict is returned only if every check passed against the facts the agent
  was given; nothing temporary is left behind.

## Modules

```
SlitherContract                        the compiled contract and the queries
  BackwardSlicer                       _Slicer.backward
    BackwardSlicerProperties           what a backward slice promises
      BackwardSlicerRefinement         ... implements DependenceSearch
      BackwardSlicerProofs             theorems, of the refinement and AccessControl too
    ForwardSlicer                      _Slicer.forward
      ForwardSlicerProperties          (with BackwardSlicerProperties)
        ForwardSlicerProofs            theorems (with BackwardSlicerProofs)
    AccessControl                      access_control_of, catalog/access.py
      AccessControlProperties          (with BackwardSlicerProperties)
  DependenceSearch                     a backward slice, whatever computes it
  DependencyPaths                      graph.py, explain_dependence
    DependencyPathsProperties          the reference: what is reached, hop by hop
      DependencyPathsProofs            theorems
ControlDependence                      control_parents
  ControlDependenceProperties          control dependence by its definition
    ControlDependenceProofs            theorems
ProjectCache                           project cache, byte cache, an editor
  ProjectCacheProperties               history variables and promises
    ProjectCacheProofs                 theorems
AgentRun                               both agent tools, sub-agent, editor
  AgentRunProperties
    AgentRunProofs                     theorems
CallOrdering                           state_write_after_external_call
  CallOrderingProofs                   theorem
SliceBudget                            Slice.to_json, _truncate_nodes
  SliceBudgetProofs                    theorems
MCContracts                            three contracts, for TLC
MC<module>                             one per module checked
```

The three slicing modules share one state, as the code shares one class: `ForwardSlicer` and
`AccessControl` extend `BackwardSlicer`, use its drain (`Pop`), and have initial states and
statements of their own. A definition marked `(slip)` is a plausible mistake in the one
after it (an off-by-one in the budget, a missing scan, a directory that is only removed on
the good path, ...). No specification uses it; put in the place of the right one, it makes a
property fail, which shows that the property depends on the code being right. The last
section of a properties module holds what a document says and the code does not do.

**SlitherContract.** A contract is one constant record: functions, CFG nodes, SSA
operations and SSA variables with the attributes the code reads. Operations of Slither are
reduced to the five kinds the slicer treats differently. The queries are named after the
functions they stand for (`DefSite` for `PDG.def_site`, `Callsites` for `callsites_of`,
`WritersOf` for the storage index, `ResultOps` for the loop in `_descend_backward`, ...).
Assumptions on the contract (single assignment, arguments belong to the caller, a formal's
merge writes no state, a formal has instances in its own function only, guards are local to
a function, entry points and placeholders hold nothing but merges) are named; TLC evaluates
them on the contracts of the runs. `ReadsAcrossFunctions` says what a function reads of
another one's SSA form: the entry merge of a formal reads the actuals of the callers, and a
merge of a state variable the instances that other functions leave behind. `ReadAtHome`
picks the variables that this does not concern.

**BackwardSlicer.** One action per branch of the loop in `_run_backward_data`
(`SkipVisited`, `Ascend`, `StopAtBoundary`, `ThreadPhi`, `FollowDefinition`, `EnterCallee`,
`CalleeTooDeep`), one for `_control_closure_step`, and one per statement of `backward`
(`IncludeModifierGuards`, `CrossContractStep` / `NoCrossContract`, `StorageClosureStep`,
`Finish`); `stage` says which statement is next, and a statement runs when the slice is
saturated, as in `_saturate_backward`. An action holds all its call does: `Ascend` includes
every callsite, pulls the callers' modifier guards, notes assembly and pushes the actuals.
`Seeds` and `Resolvable` model how a criterion is resolved.

Abstractions: the worklist is a set and any entry may be popped (the code pops the last; a
second copy of an entry is popped to no effect, so one is kept). In a cross-contract step
the calls met before the budget is spent are any subset of the right size, since the order
of inclusion is not kept. In a storage round a writer of two variables is listed under
either. `cross-contract-ambiguous`, `-no-impl` and `-unresolved` are one note. The metadata
of `_collect_metadata` and `_finish` is a function of the final slice and is left out,
except for the notes. A global (`msg.sender`) is one SSA variable, as in a function's reads;
a criterion that names one is left out.

**DependenceSearch** says what a backward slice is without a worklist, a visited map or an
order of statements: facts (a node; a variable with the crossings spent to get to it) are
learnt, each from a known one, and returned when they are closed. **BackwardSlicerRefinement**
maps the engine to it: a node is known when it is in the slice, a variable when it was
processed, or is on the worklist, with at most its crossings, in whichever function it is
looked up. What has conditions of its own in the code (state writers, external callees, what a
guard reads) may be learnt but is no part of `Closed`; neither is the definition of a variable
that may be looked up outside its function (below).

**ForwardSlicer.** `TaintUses` is one iteration of `_run_forward_data` with both descents;
`ImplicitStep`, `ForwardControl`, `ForwardModifierGuards` and `ForwardFinish` are the
statements of `forward`; the drain over the modifier guards is `Pop` on the visited map that
the forward pass has filled, as in the code.

**AccessControl.** `StopsCaller`, `ChecksIdentity` and `RestrictsCaller` are the predicates
of `catalog/access.py` over what a node does (`Checks`); `AccessInit` is
`access_control_of` up to its saturation: guards and checks included by hand, no criterion.
A node that checks or reads the caller does so in an operation that is no merge
(`ChecksAreStatements`).

**ControlDependence.** `_post_dominators` is a sweep of steps, one per node, each updating
the sets in place; `_immediate_post_dominators` is an operator of the final sets;
`control_parents` takes an edge of a branch and climbs one step at a time. The CFG and the
nodes that may abort are chosen in the initial state: every graph over the nodes is
checked. `WellFormed` says what Slither's graphs are like: nothing jumps to the entry
point, and every loop can be left.

**DependencyPaths.** Both searches of `graph.py` and the two questions `explain_dependence`
asks of them. One step handles one neighbour; neighbours come by kind, and in any order
within a kind, because two kinds are Python sets. `defs` is the definition `_def_node` takes
where a merge has several: one of them, always the same.

**ProjectCache.** A request scans the files one by one, compares the snapshot, compiles file
by file, stores, and quotes file by file (`StatBytes`, `ReadBytes`); the editor saves,
creates, removes, moves and restores files between any two of these steps. The content of a
file is the number of the edit that wrote it, which is also the time it gets, unless the
editor restores an old one or works within a tick of the clock (`Restore`).
`ProjectCacheProperties` adds three history variables: the contents each file had `during`
the request, whether the times of the files are `honest`, and the files that were created
behind a snapshot (`late`). One project, one request at a time; the byte cache is not
bounded to its 64 entries, since an entry that is dropped is read again under the same key.

**AgentRun.** One action per statement of a tool that can fail or take time, with `at` as the
program counter. The engine is a function from versions of the sources to facts, and each call
of it (the writer set, each slice, the nodes a finding may cite) is answered from the version
there is at that moment. The sub-agent may say anything, any number of times, and end in any
way or never. `Status` is the `except` chain of the tools. Related variables and caveats of a
seed are text and left out. A finding may cite nodes of any version of the sources there was
during the call, since the check resolves the project again. Two things always succeed in the
model and need not in the code: removing a directory (`rmtree(ignore_errors=True)`), and
killing the sub-agent at its time limit, where `subprocess.run` kills the direct child only
and then waits for its pipes, which a grandchild may hold open. `NothingLeft` and `CallEnds`
say nothing about either.

**CallOrdering** and **SliceBudget** are small: a depth-first search whose stack is a set,
since its order does not matter to the answer, and one step that cuts a slice to a cap. A list
of nodes is the set of their places in the slice until it is returned (`InOrder`), which keeps
what the code says with slices and comprehensions free of recursion: `fillable[:n]` is `First`.

## Runs

| run | instance | distinct states | shows |
|---|---|---|---|
| `backward_slice` | Vault, depth <= 2, up to two storage rounds, one external descent | 261 169 | what a backward slice promises, and that it is returned, for every criterion and all options |
| `refinement` | Vault, depth <= 1, one round, one descent | 67 834 | the engine implements `DependenceSearch` |
| `forward_slice` | Relay, depth <= 2, one descent | 28 596 | what a forward slice promises, and that it is returned |
| `access_control` | Relay, the default depth 1 | 561 | every function's guard context |
| `control_dependence` | every CFG of 4 nodes, out-degree <= 2, at most one node that may abort | 250 879 | the guards are right and the computation ends |
| `dependency_paths` | Vault, every pair of nodes, depth 1 and 40 | 100 456 | a path is one of dependences; exact when the budget cannot run out |
| `project_cache` | 2 files, 3 edits, any number of requests | 3 268 388 | no stale slice and no stale bytes |
| `agent_run` | 3 versions of a contract, 11 verdicts, 2 calls | 156 411 | isolation, cleanup, checked verdicts, every call ends |
| `call_ordering` | every CFG of 3 nodes with every choice of calls and writes | 789 165 | the flag is exact |
| `slice_budget` | every slice of up to 4 nodes, caps -1 to 4 and none | 21 770 | what a cut keeps |
| `guards_followed` | Small, depth <= 1 | | **violated**: a guard already in the slice is not followed |
| `path_budget` | Small, depth 1 | | **violated**: a path within the budget is missed |

`MCContracts` writes its contracts as Solidity. **Vault** has a chain of three internal calls
(so that depth 1 and 2 both end in the middle of it), a callee reached from two sides of the
chain that also writes state, recursion (`fact`), a loop with a merge, a modifier that calls
an internal function, a function that writes two state variables and is control dependent on a
`require`, inline assembly, an imprecise access and merges of state variables over functions.
Its external calls have all three outcomes: `sync` makes one that resolves and one that does
not, in either order, and the callee of the first makes another, which is over the budget of
one. Every action fires, each variable of the chain is reachable with several crossings, and
every criterion of the contract (node, source variable, SSA instance) is an initial state.
Depth 2 is the least at which a variable can be processed twice with different crossings. The
first round of stitching brings in new writers, guards and external calls, the second the
writers of what those read; one descent is the code's own default. **Small** has what Vault
leaves out: a loop condition that also defines a variable, and a node that is reached over a
call before it is reached without one. **Relay** is for the forward slicer: one argument
passed for two formals, two tainted arguments of one external call, nested branches, a branch
around the criterion, a variable that is tainted on the way forward and read by a modifier
guard, a modifier that merges the instances of a state variable, checks of the caller in a
modifier, in a function the modifier calls, in the body, and in an internal function on an
argument.

The visited map is keyed by variable alone, so an instance of a state variable that is met
where another function merges it, and has no definition there, counts as processed
(`RealDefinitionsReached`, below). `DefinitionsFollowed`, `CalleesEntered` and `Closed` are
therefore stated for the variables that are met in their own function only (`MetAtHome`):
all but the instances of state variables that another function's merge reads, and, for a
criterion on an ENTRYPOINT node, what the merges there read of another function. A slice that
meets such instances is held to the promise for everything else. `CallersEntered` needs only
the second exception, `CheckedArgumentsTraced` none; `UsesFollowed` and `CalleesTainted` ask
that the criterion starts from variables of its own function (`LocalTaint`).

Four nodes are enough for nested branches, a diamond, a loop with an exit in the middle and a
branch one side of which aborts; three, for a search that meets a node twice, a loop back to
the call and a write that is reached from one of two calls only. In `dependency_paths` depth
40 is more than there are nodes, so no path without a repetition can spend it, and depth 1
is spent by the first crossing. In `project_cache` two files are the least for which a count
hides an exchange and one latest time hides another, and three edits allow for one before
the compilation, one during it and one before the next request. One size is enough because a
key with two of them can only tell more contents apart; the proof is for any number of files,
sizes and edits. In `agent_run` the first edit moves a writer to another function and the
second does not compile; the verdicts cover too few writers, too many, one twice, and cite
what only one version has. Two calls show what one leaves to the next. Four nodes make both
guards and support exceed a cap, meet it and stay below it.

**Deadlock** is checked in all runs but `agent_run`: between two calls an idle tool waits for
a client that need not come, and calls and edits are bounded. Where a computation is over,
an action that changes nothing (`Terminating`, `Answered`, `Serialized`) says so.

**Fairness.** The slicers, control dependence, path search and call ordering are each one
thread that blocks on nothing, so each takes a step as long as there is one:
`WF_vars(Next)`; no action needs fairness of its own. In `AgentRun` only the tool runs on
(`WF_vars(Tooling)`), and its clock with it: the limit of `subprocess.run` is the tool's.
Nothing makes the sub-agent end or speak, the user edit or a client call, and `CallEnds`
holds without it. `ProjectCache`, `SliceBudget`, `DependenceSearch` and the refinement state
safety only and have none.

## Where the documents and the code disagree

Two have a run:

* `slicer.py:467`: the reads of a guard are followed only if the guard is new to the slice.
  In `while (i++ < n)` the condition node enters as the definition of `i`, and `n` is lost
  (`GuardsFollowed`, run `guards_followed`).
* `graph.py:228`: the search between functions marks a node as seen whatever the crossings
  spent. Reached first over a short path that costs a crossing, it is not expanded again
  from a longer one that costs none (`CompleteWithinBudget`, run `path_budget`).

The others are stated by a definition in the properties module of their component that no
run checks, since the code does not keep them:

| definition | line | what happens |
|---|---|---|
| `AscentLimitNoted` | `slicer.py:312` | an ascent with the budget spent returns silently; the docstring and the README's "Known limitations" promise a note |
| `RealDefinitionsReached` | `slicer.py:280` | the visited map is keyed by variable alone: an instance pushed with the wrong function by an entry merge of a state variable is marked as visited there, and skipped where it is defined |
| `ExternalCallsHandled` | `slicer.py:184` | no cross-contract step after storage stitching: external calls of the writers it brings in are neither entered nor noted |
| `ExternalArgumentsTainted` | `slicer.py:409` | an external call counts as seen after its first tainted argument; the formals of the others are not tainted |
| `GuardedStatementsIncluded` | `slicer.py:353` | a branch that `_forward_control` adds after the last implicit step does not bring in what it guards |
| `GuardedDefinitionsTainted` | `slicer.py:450` | a guarded statement that is in the slice already is skipped, and what else it defines is not tainted |
| `ModifierDependencesResolved` | `slicer.py:355` | the drain over the modifier guards uses the forward visited map: a variable tainted on the way forward is not traced back |
| `EveryDefinitionCounts` | `graph.py:91` | past a merge only the first real definition counts |
| `FollowedBySlicer` | `graph.py:195` | the path search pays a crossing for storage and descends from every operation of a node, so a path need not be one the slicer follows |
| `ByteAccurate` | `model.py:34` | bytes are read when a slice is built: after a save the offsets of the old compilation cut the new text |
| `HomeRemoved` | `agent/kimi_config.py:112` | a failure while the home is filled leaves it on disk: the caller was never given its path |
| `RowsOfOneVersion` | `agent/tools.py:201` | each writer's slice resolves the project again: an edit mixes versions in one seed |
| `OneDispositionEach` | `agent/schema.py:239` | coverage compares sets: two contradictory dispositions of a writer pass |
| `SeededAtDelegatecall` | `agent/tools.py:85` | any delegatecall of the slice is taken, so a node that only depends on one is accepted |
| `OwnResultCounts` | `patterns.py:60` | `total = oracle.price()` writes after its own call and is not flagged |

Two more are exceptions in properties that do hold. A file moved over another, restored, or
written twice within a tick of the clock keeps or gets a time that is not the latest, and the
old compilation is served (`mcp_server.py:74`; the condition `honest`). A source that is
created behind a snapshot, compiled and removed again leaves the recorded count and time
right, and stays in the answers (the condition on `late` in `CurrentSources`).

Seen on the way, without a definition: seeds of guards, modifiers and writers restart the
crossing budget, so that a slice can cross more than `depth` boundaries; a join node that
holds nothing but a merge of a state variable is included as `callee` although merges are
said never to be emitted; `storage_writers` omits writers that are in the slice for another
reason.

## Proofs

**`ControlDependenceProofs`**, for graphs of every size: `PostDominatorsAreExact` (the sweeps
compute exactly the post-dominators), `SetsOnlyShrink`, `ControlTypeCorrect`,
`ClosestIsTheImmediate`, `ParentsAreControlDependence`, `AbortsAreGuards`. There are three
arguments, one per loop:

* The sweeps. The sets never lose a true post-dominator (`Sound`), the nodes passed by a
  sweep without a change satisfy their equation (`Settled`), and every set contains what the
  next visit makes of it (`Shrinking`). A post-dominator is defined without paths, by a set of
  points that is left through it alone, so that no induction over paths is needed. This part
  uses neither that the exit is reachable nor that all nodes are.
* The choice by size. The strict post-dominators of a node form a chain, since every node can
  reach the exit, and one that post-dominates another has the smaller set. So the largest set
  belongs to the immediate post-dominator alone: the code's `max()` of a Python set has no tie
  to break in hash order. That the exit can be reached is
  needed here and in what follows; `WellFormed` states it.
* The walks. The runner is post-dominated by the point where its walk ends and post-dominates
  the edge the walk started from (`WalkSound`), so that what is recorded is control dependence;
  what depends on an edge that was taken is recorded or lies ahead of the runner
  (`WalkComplete`), so that nothing is missed. A `require` then guards what follows it: a set
  that is closed under guards and leaves the node out cannot hold up the way past it, and that
  way leads to everything that follows.

**`BackwardSlicerProofs`**, for every contract, criterion and budget:

* `TypeCorrect` and `ReasonsStrengthen`: `TypeOK` is inductive, and from it no step weakens a
  reason, forgets a cheaper visit or takes back a note.
* `NothingIsLeftDangling`, `EveryDefinitionIsFollowed`, `EveryCalleeIsEntered`,
  `EveryCallerIsEntered`: nothing a slice depends on is lost on the worklist, in any order
  of popping. The argument has two halves. An entry leaves the worklist only when its
  variable has been processed with at least as much budget (`WorkKept`), so what is reached
  stays reached (`ReachedStable`); this is where the comparison with the lowest crossings is
  needed. And a step that records a visit, or gives a node a reason that seeds its reads,
  pushes all that it should (`VisitedByPop`, `WholeSeeded`). The strengthening is
  `WorkIsLocal`: an entry of a variable that is met at home carries the function the variable
  belongs to, which makes the definition found the only one (`OneDefinition`). Every push
  keeps to this (`PushesAtHome`), for what it reads of elsewhere are instances that are not
  read at home; that every formal is (`FormalsReadAtHome`) is why the ascent to the callers
  holds for all of them.
* `NoGuardIsDropped`, `EveryWriterIsStitched`: what is returned is closed. The strengthening
  is that the slice is saturated and has nothing left to stitch from the moment stitching
  ends (`ReturnedSaturated`), that the modifier guards are in with their reason once the
  first stage is left (`ModifierGuardsIn`), and that the writers of a stitched variable are
  in as soon as it is (`PulledIn`).
* `ExternalCallsAreHandled`: when the descents are over, every external call of the slice has
  been entered or is noted, and what is over the budget is so because calls that were entered
  spent it all. The strengthening is that a call that counts as seen was entered,
  with its results in the slice, or noted (`SeenHandled`), and that the stage is left only
  with nothing unseen or the limit noted (`CrossedSettled`), and that the budget spent is the
  number of calls entered (`UsedByEntered`); it needs that the slice is
  saturated at that moment and does not change in the step.
* `NothingUnrelated`: the converse of all these. The reference is the least set of facts that
  holds the criterion and is closed under dependence; TLC computes it by expansion
  (`LeastClosed`), and the proof first shows that the expansion computes it
  (`LeastClosedIsLeast`, by a well-founded minimum over the finitely many facts left to find).
  The invariant (`SoundInv`) says of *every* closed set `D`, the least one included, that what
  is in the slice or on the worklist is in `D`: each step is then shown to add only what one
  dependence from a known fact gives.

The same module, the refinement: `BackwardImplementsSearch`, for every criterion. Each action
is shown to add only what a known fact explains: the fact that explains it is the entry it
pops, the node whose guard it includes, the node whose state it stitches, or the protection of
the criterion's function. For `Finish` the theorems above say that what is returned is
`Closed`.

The same module, the guard context: `AccessTypeCorrect`, `GuardIsShown`, `ArgumentsAreTraced`,
`NoCheckIsDropped`, `NoCheckDangles`, `OnlyGuardsInContext`. But for its start and its end, a
step of this computation is a step of the backward slicer, so the lemmas above apply, and what
has to be proved is that a start made by hand leaves the same things true: what it includes
stays (`StartKept`), what that reads is followed with the whole budget (`StartReached`), every
formal that is processed has been ascended from (`AscendedFrom`), and what is returned is
saturated (`AccessSaturated`). `GuardIsShown` also needs that a modifier which restricts the
caller has a guard to show (`RestrictingModifierGuards`). `ArgumentsAreTraced` holds for every
contract, with whatever merges of state variables: it is about arguments, and a formal is read
at home.

**`ForwardSlicerProofs`**: `ForwardTypeCorrect`, `EveryUseIsFollowed`,
`EveryTaintedCalleeIsEntered`, `GuardedStatementsTaint`, `EveryBranchIsClosed`,
`NothingUninfluenced`. Only the steps of the tainting stage can disturb the promises about what
is followed (`TaintingSteps`); there the argument
is that of the backward slicer along uses: entries leave only when processed
(`TaintedWorkKept`, `TaintReachedStable`), and taint stays in the function it belongs to
(`TaintIsLocal`), formals of callees included. That a branch is closed follows from the
saturation, once it is known that the criterion is in the slice from the start
(`CriterionIn`). That nothing else is in the slice needs two closed sets at once
(`ForwardSound`): what the criterion influences while the slice is being tainted, and the
modifier guards with their data dependence for the drain that comes last.

**`CallOrderingProofs`**: `OrderingFlagIsExact`, for every function. What the search has met or
will go to is on a path from a call (`OnPaths`); what it has met wrote nothing and leads only
to what is met or on the stack (`Swept`); so the calls searched from are clear of writes
for good (`Searched`). What a path leads to is the least set closed under sons (`Reach`), as
for the slices.

**`DependencyPathsProofs`**, for every contract, question, depth and choice of definitions:
`PathsTypeCorrect`, `PathsAreDependences`, `AnswersAreExact`. The inductive invariant says of a
running search that there is a trail to every node that was met (`Searched`): a path of
dependences without a repetition, within the budget, over the predecessors that were recorded.

* The path. `_reconstruct` walks the predecessors back from the target; its result is the
  trail to it (`ChainIsTrail`), because a trail is no longer than there are nodes.
* Shortest. The trails' lengths are the levels of a breadth-first search (`Levels`): what waits
  in the queue is sorted, spans at most two levels from that of the node being expanded, and
  what is expanded has all its neighbours met, one level on at most. A node that is put first in
  the queue instead of last breaks this (`LevelsDiscover`).
* Exact. The reference is what can be reached hop by hop (`Within`). A trail is one way to reach
  a node (`TrailWithin`); conversely, below the level that is being expanded, what is reached in
  `k` hops has been met with at most as many (`LevelsCover`), and an empty queue means that
  nothing is left to reach (`LevelsClosed`). This is where the budget
  comes in: that all neighbours of a node were met holds for the crossings of its own trail, and
  only when these cannot run out is it every dependence (`OnwardNeighbors`). `path_budget` shows
  what happens otherwise.

What the recursive functions in it compute is shown without induction over a formula: the
numbers at which a recursive function has been built, or a fact about it holds, are a set; a set
that holds 0 and with each number the next is `Nat` (`AllNumbers`, from the least
number that is missing), and so the defining equation has a solution (`Iteration`).

**`SliceBudgetProofs`**, for slices of any length and every cap: `GuardsAlwaysKept`,
`CapAlwaysSpent`. Places can be listed in order (`OrderExists`: without the last one they can,
and it goes to the end), and such a list has each of them once (`InOrderFacts`); the first `n`
places of a set are `n` or all of them, and come before the rest (`FirstFacts`). So what is
kept has as many places as the cap, or as the guards.

**`ProjectCacheProofs`**, for any number of files, sizes and edits: `CacheTypeCorrect`,
`CompilationNeverStale`, `SourcesAreCurrent`, `BytesAreCurrent`. As long as the times are
honest, the time of a file is a stamp of its content (`Stamped`), and nothing is newer than
the clock (`InTime`). So a compilation is right for every file whose stamp its snapshot
covers (`RightFor`): an edit while the compiler runs gets a stamp the snapshot does not
cover. A cached compilation is served only when the counts agree; every file counted now is
one it holds, and it holds no more than its snapshot counted unless a file was created
behind one, so it holds no file that is gone. The byte cache is right because a key that a
file still has was never the key of another content.

**`AgentRunProofs`**, for every engine, sub-agent, history of the sources and number of
calls: `AgentTypeCorrect`, `SubAgentIsolated`, `NothingLeftBehind`, `VerdictsAreEarned`. The
invariant says what is on disk at each statement (`OnDisk`), that the way the sub-agent ended
is known when it is stopped and not before (`ExitKnown`), and that the seed is complete and
the operator was asked before anything is started (`Seeded`).

The proofs assume what the modules' named assumptions say and nothing else. For the slicers:
`ContractAssumption` (the contract's type), `FiniteAssumption` (finitely many functions,
nodes, operations and variables), `NullAssumption`, `NameAssumption`, `BoundsAssumption`,
`StaticSingleAssignment`, `CallsResolved`, `FormalsAreLocal`, `FormalsAreScoped`,
`ReadsAcrossFunctions` and `ScaffoldingMerges` (the entry point of a function and a
placeholder hold nothing but merges). For access control also `ChecksAreStatements` and
`DefaultAllowed`. For dependency paths `ContractAssumption`, `FiniteAssumption` and
`DepthsAssumption` (a depth is a natural number). `SizeAssumption` for control dependence, no
assumption for call ordering, `BudgetAssumption` for the cut of a slice (the caps are
integers, negative ones included), `CacheAssumption` for the project cache, `EngineAssumption`
for the agent tools. `ChecksAssumption`, `ReplyAssumption` and `GuardsLocal` are not used in a
proof; the last is why `ControlClosure` may push the reads of a guard with the guard's own
function where the code pushes them with that of the node it guards.

Every invariant and every action property that a passing run checks is stated by a theorem, and
so is the refinement. Only model-checked is liveness (`Termination` of both slicers, `WalkEnds`,
`CallEnds`), which needs ENABLED and fairness.

## Not modelled

* `loader.py`: compiles through subprocesses and Slither; nothing of its own to keep right
  between two calls. What a compilation reads, and when, is in `ProjectCache`.
* `cli.py`, `render.py`, `agent/prompts.py`, `to_source`: text.
* `criteria.py`, `calls.py`, the sink and source catalogs: plain data and stateless matches on
  SlithIR classes and names. Which criteria they make is part of the domains of requests.
* `audit_overview` and the MCP tools that format what the engine returns.
* `readers_of`, which feeds a listing only; the search for an interface's implementer, which
  is part of the contract (the callee of an external call).
