# Verification of coder_eval

coder_eval runs coding agents on tasks, grades what they leave behind and writes one
row (`task.json`) per task. This directory holds TLA+ models of it: the run of a task
and the row it leaves, the six agents, the container and its egress, the simulated
dialog, a batch and its resume, detached grading, the permission windows, the early
stop, and the rules that resolve, count, match, score and publish. TLC checks the models
on small instances; TLAPS proves the theorems listed below for every value of the
constants.

Paths below are relative to `src/coder_eval/` of the repository, those that start with
`docs/` to its root.

## Inventory

| component | state it keeps | operations | what is hard | what makes it correct |
|---|---|---|---|---|
| Orchestrator (`orchestrator.py`) | the row being built (`self.result`), `_execution_complete`, `_grading_failure`, the agent, the sandbox | `run()`: setup, pre_run, watched evaluation (turn, retries, grading, diagnostics), post_run, cleanup, finalization | a cancellation or the task deadline can land on every await; handlers overlap; failures of grading must not replace failures of the run | one status that agrees with what happened, one record per turn, always torn down, always a row |
| Result row (`models/results.py`, `models/enums.py`) | `task.json` | seeding a re-grade, `has_execution_failure`, atomic replacement | facts of the execution and verdicts of grading live in the same record | a fact is never overturned by a grade |
| Batch and resume (`orchestration/batch.py`, `run_summary_rebuild.py`) | the rows and files of a run directory, `run.json` | `partition_for_resume`, `clear_rerun_artifacts`, `run_batch`, summary, refresh | siblings raise, are cancelled or are killed; what a crash left decides what the next command does | nothing executed twice, a summary that is true, scores of the own files |
| Detached grading (`orchestration/regrade.py`, `cli/evaluate_command.py`) | the row, its pre-grade backup, the copy | resolve, key check, copy or adopt, grade on the host or in a container, write back, incident | any step may fail, the answer key may be edited, passes repeat | verdict of this key on this workspace, or the row as it was |
| Success checker and judges (`evaluation/`, `criteria/agent_judge.py`, `llm_judge.py`) | results so far, a judge's copy and process | `check_all_async`, `run_sub_agent`, `submit_verdict` | threads that a cancellation does not stop; a judge that answers twice or never | one result per criterion, in order; nothing left behind |
| Agent turn bookkeeping (`agent.py`) | `pending_turn`, iteration counter | `_begin_turn`, `_end_turn_ok`, the failure kernels, `discard_pending_turn` | two independent reasons undo the iteration bump | each record is recovered once, a retried turn keeps its number |
| Agents (`agents/*.py`) | a process, thread or session; the tree of events | `communicate`, `kill_sync`, `stop` | hosts that outlive a call, linger, die or speak late; two deadline designs | one contract for six implementations |
| Watchdog (`agents/watchdog.py`) | timer thread, `fired` flag | start, fire (kill, then post a cancellation), exit | preemptive thread against the loop | a deadline that fired is what the row says |
| Retry (`errors/`) | attempt counter | `execute_with_retry`, `categorize_error`, back-off | cancellation during back-off, rules that overlap | bounded attempts, no lost record, permanent failures are not retried |
| Permission windows (`fs_permissions.py`) | a process-wide registry of applied modes | `set_permissions`, push, pop, `restore_all` | worker threads, cancellation in the middle of a push, overlapping runs, exit handlers and signals | hidden while any window is open, restored when all are closed and at exit |
| Early stop (`orchestration/early_stop.py`) | latched verdicts, call counter, stop info | events in, `should_stop` out | parallel calls, calls that never resolve, retries on the same counters | a stop agrees with the gate the run is graded by |
| Container and egress (`isolation/`, `egress_proxy.py`, `cli/run_task_internal_command.py`) | container, network, sidecar, handshake files, heartbeat, staging tree | run, stream, kill, grading handshake, result parsing | cancellation at every await, a host or container that dies alone, an older image | nothing outlives its run, a published row was earned |
| User simulation (`simulation/`, dialog loop of `orchestrator.py`) | the dialog, its budget, the telemetry | opener, reply, stop decision, checks per turn and at the end | a failure between two halves of a round; several reasons to stop | one account of the dialog, one stop reason, a verdict of the last state |
| Event stream, timing (`streaming/`, `timing.py`) | events of a turn | reduction to a `TurnRecord` | overlapping tools, sub-agents, windows at both ends | every instant is booked once |
| Configuration and tasks (`orchestration/config_merge.py`, `experiment.py`, `task_loader.py`, ...) | layers, lineage, the list of runs | merge, overrides, datasets, fan-out, filters | exclusive fields, a file that fails half-way | the last layer wins and the lineage says which; every task is run or named |
| Sandbox, recorded tools (`sandbox.py`, `invocation_log.py`, `argv_match.py`) | the task's directory, its owner; the log | setup, adopt, shims, preserve, cleanup; record, match, count | partial set-up, re-use, an agent that can reach the log | the tree that was promised, removed by its owner only; a guard is never passed by a log that is not whole |
| Criteria (`criteria/*.py`) | none | scores from files, commands, the trajectory | windows on long lines, parts that cannot be evaluated | full marks only for what is demanded; live verdicts are not taken back |
| Costs (`pricing.py`, `litellm_cost.py`) | rate card | join, lookup, totals | iterations joined whole or not at all, models without a price | what is said to be spent is what was spent, as far as it is known |
| Published reports (`reports/`, `stats.py`, folding in `experiment.py`) | tables | run summary, variants, suites, JUnit, exit code | each counts the same rows by itself | one account of the rows |
| Logging, Harbor export, similarity scoring, evalboard, LiteLLM hook, images | files | formatting, arithmetic | none of it concurrent | not modelled |

How they interact: the CLI resolves tasks into a list and gives it to `run_batch`, which
runs one `Orchestrator` (or one `DockerRunner`) per row under a semaphore on one event
loop. The orchestrator calls the agent through `execute_with_retry`
inside a permission window, the agent reports events to callbacks (collector,
early-stop watcher), the task watchdog is a thread that kills the agent's process and
cancels the orchestrator's asyncio task. A container runs the same orchestrator behind
the entry point and speaks to its host by files: the staged inputs, the heartbeat, the grading
request, `task.json`. All runs of a process share the permission registry. Commands on
one run directory communicate through its files alone.

## The modules

| module | models | composed of |
|---|---|---|
| `TaskRow` | the row reduced to the fields its lifecycle reads and writes, and the functions on it: `has_execution_failure`, `_owes_a_grade`, the seed of a re-grade, the gate, the final score | – |
| `TaskRun` | one `Orchestrator.run()`, `execute_with_retry`, the watchdog's thread, cancellation from outside | extends `TaskRow` |
| `RowLedger` | abstract: what a row promises under any commands | – |
| `RunLifecycle` | a run directory under `run`, `execute`, `--resume`, `evaluate` and killed processes | extends `TaskRun`, implements `RowLedger` |
| `PermissionStack` | `fs_permissions`: windows, worker threads, registry, exit and signal handlers | – |
| `EarlyStop` | `EarlyStopWatcher` and the gate of a run it cut | – |
| `AgentTurn` | what the agents share: the base class, the event tree, the deadline and the cancellations of a call | – |
| `ClaudeTurn`, `CodexTurn`, `DelegateTurn`, `AntigravityTurn` | `communicate()` of one agent each, with its host | extend `AgentTurn` |
| `CliTurn` | the control OpenCode and Pi share, and the events of each | extends `AgentTurn` |
| `TurnContract` | abstract: what any agent promises of one call | – |
| `AgentTurns` | one agent of the six, called again and again | extends the six, implements `TurnContract` |
| `Container` | one dispatch: `DockerRunner.run`, `egress_scope` and proxy, entry point | – |
| `Dialog` | `_simulation_dialog_loop`, the simulator, and what `run()` makes of its end | – |
| `Batch` | a run directory of several tasks under a sequence of commands | – |
| `Checker` | one pass of the success checker with its judges | – |
| `GradePass` | detached grading passes over one row | extends `Checker` |
| `ConfigLayers`, `TaskList`, `TurnTime`, `CliLog`, `SandboxTree`, `RetryPlan`, `Costs`, `CommandText`, `FileCriteria`, `Published` | ten families of rules | – |
| `Rules` | nine of the ten, with what is assumed of their constants | instantiates all but `CliLog` |
| `MCRules` | the cases of the ten in one instance | extends `Rules`, instantiates `CliLog` |
| `MCTaskRun`, `MCPermissionStack`, `MCEarlyStop`, `MCAgentTurns`, `MCDialog`, `MCBatch`, `MCGrading` | the instances for TLC | extend the module they instantiate |
| `RunLifecycle_proofs` (with the theorems of `TaskRun`), `PermissionStack_proofs`, `Rules_proofs` (of `EarlyStop` and `Rules`), `AgentTurns_proofs`, `Container_proofs`, `Dialog_proofs`, `Batch_proofs` (with the list of runs of `TaskList`, which a batch starts from), `GradePass_proofs` (with the criteria of `CommandText`) | the theorems | extend the module they are about |

Everywhere an action is the code from one await to the next, because on one event loop
nothing else runs in between; where a thread can step in between two statements, the
code between them is split.

### TaskRun

The coroutine is a program counter over the awaits of `run()`. An action is everything
from one await to the next, because on one event loop nothing else runs in between:

| `pc` | suspended in |
|---|---|
| `setup`, `start`, `prerun` | `_setup` (reference staging, sandbox, routing), `agent.start`, `_run_pre_run_commands` |
| `window`, `unwind` | entering and leaving `sandbox.set_permissions` around the conversation |
| `talk`, `backoff` | `agent.communicate`; the sleep between two attempts |
| `grade`, `diag` | `_check_criteria`; the diagnostics after a terminal agent failure |
| `leave`, `verdict` | no await: the watchdog's `__exit__`, and the handlers of `run()`. They are labels because the timer is a thread and may step between them |
| `postrun`, `stop`, `clean` | `_run_post_run_commands`, `agent.stop`, the sandbox part of `_cleanup` (`_finalize_result` follows without suspending) |

`res` is `self.result`; `report` is the file at `report_path`; `exc` the exception on its
way to the handlers; `timer`, `cancel` and `interrupts` are the watchdog's thread, a
requested cancellation of the asyncio task, and how often somebody else asked for one.
A cancellation is requested only while the coroutine is suspended (a loop callback
does it) and is raised by that await: `At(label)` is an await that comes back,
`CancelAt(label)` one that raises `CancelledError`. `TimerKills` calls `kill_sync`,
`TimerPosts` hands the cancellation to the loop, `LoopCancels` is the callback. `captured`
is the only history variable: every turn record the agent produced.

`mode` tells the five ways an orchestrator is started apart: `run`, `execute`, a
re-grade that adopts the workspace (`regrade`), one that works on a copy (`copy`), and a
directory no run left (`bare`).

### RunLifecycle

`Work` is a step of `TaskRun` with the row at `report_path`; `Execute`, `Resume` and
`Evaluate` are the commands, with the guards of `partition_for_resume` and
`_owes_a_grade`; `WorkspaceRefused` a pass that fails before it has an orchestrator;
`Settle` is what the command does with the result (`write_grading_incident`,
`_report_and_exit`, `_write_back`); `Kill` ends the process between any two steps,
where `path_utils.write_text_atomic` leaves the old file. `LedgerKept` is the refinement:
`RowLedger` instantiated with the stage, the failure, the trajectory and the incidents
read off the row.

### PermissionStack

`co[w]` is the coroutine of a window, `worker[w]` the thread of `asyncio.to_thread`.
`PushOne` and `PopOne` are one iteration of the loops in `_push_all`/`_pop_all`, atomic
under the registry's lock; `Pushed`, `Leave`, `Unwound` and `Cancel` the awaits of
`set_permissions` and of its shielded joins. `Signal`, `RestoreOne` and `Chain` are the
signal handler: it runs on the loop's thread, so coroutines wait and workers do not.

### EarlyStop

`Dispatch` is a `ToolStart`, `Resolve` a resolved `ToolEnd`, `CloseOrphans` the
unresolved ends an attempt that ends emits; `EvaluateInFlight` and `EvaluateResolved` are
`_evaluate_impl` without and with latching, `FailStop` and `PassStop` its tests on `_ceiling`
and `_floor` with both deferrals, `RunsOut` the decision budget. The agent polls
`should_stop` between messages, so calls of one message are dispatched in parallel and
calls may follow a stop. `ArmedGate` is `armed_criteria_passed` on the whole trajectory.

### AgentTurn, the six agents, TurnContract

`AgentTurn` holds what `Agent` gives all of them (`_begin_turn`, `_end_turn_ok`, the failure
kernels, `discard_pending_turn`), the tree of events a collector builds, and the two ways a
call is cut: the timer thread (`Fire`, `OnTimeout`, `PostCancel`) and a cancellation from
outside (`Interrupt`). The timer is split at every statement an agent's code can see between
two reads of `flag`. Each agent's module is its `communicate()`:

| module | the host, and what the agent does about it |
|---|---|
| `ClaudeTurn` | one CLI per turn, killed by the timer; the flag is read after the stream and after the end of the tree |
| `CodexTurn` | a thread in an app server; a pump of notifications; interrupt by request |
| `DelegateTurn` | a Node host that outlives the call; requests and drain tasks; a crash or a timeout ends the host |
| `CliTurn` (OpenCode and Pi) | one CLI per turn that may die, linger after its end or print late; cut, drain, reap |
| `AntigravityTurn` | an in-process session; shell tools go to the background |

A tool is unseen, open, or closed as ok, error or unresolved; messages, texts and tokens are
left out. `TurnContract` is the abstract agent: it knows whether a call is live, the
`AgentStart` and `AgentEnd`, the parked record and the counted turns, and its actions are what
an agent may do to them. `AgentTurns` picks one of the six (or the no-op agent), calls it again
after every outcome the orchestrator calls it again after, and maps it to `TurnContract`
(`ContractKept`). Where an agent deviates, the contract has an action named for it
(`Overrun`, `Unready`, `Tear`).

### Container

`h` is the coroutine of `DockerRunner.run`: its awaits in order, `egress_scope` around the
inner ones, and the exception on its way. `Cut(p, to)` is a cancellation of the await `p`,
and `to` the handler it reaches; `env.cuts` remembers which awaits were cut, because the
exceptions of the properties are named by them. `box` is `run_task_internal_command` in the container,
`watch` the task that serves the grading request, `d` what the daemon holds, `fs` the files that
both sides read. `HostDies` ends the host at any step; `Reap` is the container's
watchdog on a heartbeat that nobody writes any more, `SidecarStops` the proxy's own.

### Dialog

The coroutine again, with `exc` and `finally` as in Python: `Opener`, `AgentTurn`, `TurnCheck`,
`Gate` (the stop decision and the solicitation), `UserSpeaks`, `EndDialog`, `Finally`, and
`Verdict`, which is what `run()` makes of it. The state keeps the records, the user's
utterances, the last vector with the usage of its judges, and the telemetry. Tokens are counted in
calls, so a budget of 3 is three utterances and turns. `AgentFails` is any end of
`execute_with_retry` but a record; how it retries is in `TaskRun`.

### Batch

A row is its category, whether it has a score, whether the agent started, and two
identities: the execution that wrote it and the executions whose files its grade could see.
That is enough to tell whose work a score is. `place[t]` is where the command has a task, `res[t]` its
`TaskResult`. A host task's files are copied out at its end, a container's are in the run directory
as they are written (`Visible`), which is what a kill between two tasks leaves behind.
`TaskRaises`, `ContainerFails` and `RefuseUnconfined` are the failures of one task;
`Interrupt` cancels the batch and `Kill` ends the process; `OrphanEnds` is a container that
outlived it.

### Checker and GradePass

`Checker` is one `check_all_async`: the criterion at hand, the results so far, and the judge
at work, with its private copy (a worker thread that `asyncio.to_thread` cannot stop), its process
and what it submitted. `Cancel` may come twice at every await. `GradePass` puts the passes of
`evaluate` and `run --resume` around it: `Resolve` (with the check of the answer key), `BackUp`,
`Branch` (host or container), `PrepareSandbox`, `StageReference`, `Grade`, `CleanUp`, `Persist`,
`Stamp`, `WriteBack`, `RefreshSummary`, and `RecordIncident` for whatever fails. `Edit` changes
the key at any moment. A record says which pass graded it, with which version of the key, and
which version it names.

### The rules

A state of these modules is one case and how far its evaluation has come. Each is small, and
`MCRules` checks them in one instance, as disjuncts over the same three variables.

| module | code | what is compared |
|---|---|---|
| `ConfigLayers` | `config_merge.py`, `overrides.py`, the inlining of prompts | the merge, leaf by leaf, with the last layer that speaks; the lineage with the value's source |
| `TaskList` | `task_loader.py`, `experiment.py`, planning of `run_command.py` | the list with the files, rows, variants and replicates it must cover |
| `TurnTime` | `streaming/collector.py`, `timing.py` | the four buckets of a turn with its ticks, one by one |
| `CliLog` | `invocation_log.py`, `argv_match.py`, `criteria/cli_called.py` | the count of a pattern with the meaning of the calls, in every spelling |
| `SandboxTree` | `sandbox.py` | the directory with its configuration, and its removal with its owner |
| `RetryPlan` | `errors/` | what is retried with what the error says for certain |
| `Costs` | `litellm_cost.py`, `pricing.py`, the totals of `orchestrator.py` | the bill with the calls that were made |
| `CommandText` | `command_executed.py`, `skill_triggered.py`, `commands_efficiency.py` | windows with what they must not cut in two, and with each other; spellings with their script; live verdicts with the final score |
| `FileCriteria` | the criteria over files and commands | full marks with what the criterion demands |
| `Published` | folding and aggregates, `run_helpers.py`, `reports/` | the tables with each other |

## Runs

| run | properties | bounds, and why they are enough |
|---|---|---|
| `run_deadline` | `RowTold`, `IterationStable`, `FactKept`, `DeadlineHolds`, `Terminates` | 2 attempts (one retry is where the slot, the number and the record are shared), 2 post_run commands, six kinds of prior row: ungraded with and without the turn cap, cut and failed, crashed, timed out, failed while grading; the deadline at any step, an SDK that may absorb it; 37 444 states |
| `run_cancelled` | `CancellationSeen`, `TornDown` | 3 attempts, all five modes, permission windows, one cancellation at every await: a second one is covered by the theorem; 11 249 states |
| `life_commands` | `DirectoryKept`, `LedgerKept`, `PassesRespectRow` | three commands: one to execute, one to fail or grade, one to grade again; one kill; the deadline on; 1.8 million states |
| `early_stop` | `LatchFaithful`, `TimeoutsTrue`, `StopsAgreeWithGate` | three criteria, which are a signal that stops on pass, a signal of double weight that needs success and a forbidden call; gates of 40 and 100 percent; three calls, so that two can be in flight after one is decided; one crashed attempt, which leaves orphans; 156 290 states |
| `perm_windows` | `ModesHold`, `RestoredAtExit` | a window, one nested in it and one that overlaps both, because leaving the innermost of two cannot tell "the enclosing" from "the original"; two paths (a list may be half done), two cancellations (a join can be abandoned), two refused chmods, one SIGINT; 139 177 states |
| `agent_turns` | `CallsKeptApart`, `ContractKept`, `ResultsStand`, `TurnEnds` | each agent with a cap of one model call and a timeout, and with neither; two calls, so that the second meets what the first left; two tools, one of them a shell command; one entry without a model call; 617 272 states |
| `container` | `CleanedUp`, `ResultsEarned`, `NothingHangs` | every dispatch (execute, graded, regrade; with and without egress; image of this contract or another); two cuts, because the second hits the clean-up of the first; one fault; the host may die; 102 098 states |
| `dialog` | `DialogTold`, `StopsOnce` | every valid configuration; one turn or three, which is a first, a middle and a last; a budget of three calls and a run limit of two records, and neither; one partial record; 132 888 states |
| `batch` | `DirectoryTrue`, `NothingPaidTwice`, `BatchEnds` | two tasks, one in a container; one slot or two; a task that is refused in its slot, a task without criteria; three commands, one kill or interrupt, one fault; 458 063 states |
| `grading` | `RowTrue`, `PassLeavesNothing`, `PassEnds` | vectors that pair each kind of criterion with another; two passes, because the second must not overwrite the first one's backup; two verdict calls, two cancellations, one edit, one fault; 413 025 states |
| `rules` | one property per family, e.g. `ConfigResolved`, `GuardHonest`, `CostsTold` | the cases `MCRules` lists: at least two values of everything a rule distinguishes, and lists up to three; 2.37 million states |
| `v_execute_rate` | `RatesAgree` | the cases of `Published`; refuted, see Findings |

Every property of a passing run has a mutant of the code's logic that violates it under
the same bounds (`PROJECT.json`, "mutants"). Many modules hold more such operators than are
listed there, each after the definition it would replace: a clean-up that is skipped
(`TeardownCut`), a sweep that is not (`SweptAll`), a value taken too early (`CodexLeaveScored`)
or too late (`StopDecisionLate`), an order swapped (`GreedySwitch`, `KeptLast`). They document
what the properties tell apart.

Bounds are guards of the actions and constants of the modules: `MaxAttempts` is the
program's own retry limit; the others (`MaxInterrupts`, `MaxCommands`, `MaxKills`, `MaxCancels`,
`MaxRefusals`, `MaxSignals`, `MaxCalls`, `MaxCrashes`, `MaxSteps`, `MaxNoise`, `MaxCuts`,
`MaxFaults`, `MaxPartials`, `MaxPasses`, `MaxEdits`) only keep the instances finite.

### Fairness

- `TaskRun` (`Terminates`): the event loop runs what is ready and the timer
  thread is scheduled; awaits of the harness itself (setup, window, back-off, post_run with
  its own timeout, teardown) come back; a turn whose process was killed ends, and a
  cancellation that is pending is raised. Nothing is assumed of a turn that is not killed,
  nor of a checker: both may hang for ever, which is what the watchdog is for. The one case
  left is an SDK that absorbs the deadline's single cancellation; `CancellationSpent`
  names it, and the property excludes nothing else.
- `AgentTurns` (`TurnEnds`): bounded code between two awaits runs (`Goes`) and so does the timer
  thread (`Clock`). What a model or a CLI does next is left free.
- `Container` (`NothingHangs`): the host's coroutine proceeds unless it dies, the proxy's switch
  answers, and the two watchdogs on the heartbeat act. The agent in the container may hang for ever;
  its own deadline is `TaskRun`'s.
- `Batch` (`BatchEnds`): the work of a command goes on, because every run of a task ends
  (`Terminates`, `NothingHangs`).
- `GradePass` (`PassEnds`): worker threads end, and a judge's turn ends by its own timeout.

## Proofs

All theorems hold for every value of the constants that the modules' named assumptions
allow (`ConstantsAssumption`, `LifecycleAssumption`, `PermissionsAssumption`, `ConfigAssumption`,
`AgentTurnAssumption`, `ContainerAssumption`, `DialogAssumption`, `BatchAssumption`,
`CheckerAssumption`, `GradePassAssumption`, `RulesAssumption`): counters are natural numbers, windows and tools
finite sets, configurations members of the space they are taken from, and what the program validates of
its own inputs. A premise beyond these is named in the table. TLC evaluates every assumption on the
instances it checks.

`RulesAssumption` says of the rules' inputs: an experiment has a variant (`validate_variants`), replicates and trials are at
least one; a caller of a retry allows an attempt; costs and rates are not
negative, and a turn without a usage has no cost, which is a field of it; the strings and patterns of a criterion
are finitely many, and its type is one of the known; search windows overlap by half their length at most (2000 and 256 in the
code), and the lines of a text end one after the other; a batch has finitely many rows, each of a variant that is
listed. One part, `ConfigsPlain`, is a default and not a validation: no template writes into a virtual environment or `node_modules`,
which the ignore patterns leave out unless a task re-includes them (`_should_ignore_template_file`).

| theorem | of | argument |
|---|---|---|
| `TypeCorrect` | `TaskRun` | `TypeOK` is inductive |
| `ExecutionFailureKept` | `FactKept` | see below |
| `DeadlineRespected` | `DeadlineHolds` | from `TypeOK`: only `Verdict` leaves "verdict", and each of its branches under a fired deadline writes an execution fact |
| `CancellationNeverLost` | `CancellationSeen` | invariant `EndInv`: a cancellation that was asked for is pending at a real await, on its way as `exc`, held in `interrupt`, or the outcome. Needs that nothing kills the agent, hence no `task_timeout` |
| `TearDownComplete` | `TornDown` without `task_timeout` | the same invariant: no cancellation can arrive in the teardown, so it runs to its end |
| `RetryKeepsNumber` | `IterationStable` | invariant `TurnNumbered`: the bump of the turn in progress is outstanding exactly while it talks |
| `RowTellsRun` | `RowTold`, undisturbed and without windows | invariant `RowInv`, see below |
| `DirectoryStays` | `DirectoryKept` | invariant `KeptInv`, see below; for every number of commands, kills and cancellations from outside, adopted workspaces and copied ones |
| `PostRunStays` | `PostRunNotRepeated`, the half of `PassesRespectRow` about post_run | the same invariant, action by action |
| `PassesLeaveRow` | `PassesRespectRow`, undisturbed | invariant `DirInv`, see below |
| `DirectoryImplementsLedger` | `LedgerKept`, undisturbed | the same invariant gives `RowMoves`, the four things a step can do to a row; each maps to a step of `RowLedger` or a stutter (`LedgerStep`) |
| `AtExitRestores` | `RestoredAtExit`, without signals, or with SIGINT and no path listed twice | invariant `Honest`: a path without an entry has its original mode, and an entry knows the mode from before every window; with interrupts `Restoring`, see below |
| `WindowsHold` | `ModesHold` for windows of one mode, as in every call of `Sandbox.set_permissions` | invariant `StackInv`, see below |
| `LatchHolds` | `LatchFaithful` | calls are only added, and only open ones change (`CallsContinue`), so counts grow (`CountGrows`, by cardinality of subsets) and a decided verdict is stable (`VerdictStable`) |
| `TimeoutsHold` | `TimeoutsTrue` | invariant `SeenAllEnded`: the collector holds every call that ended, orphans included |
| `StopsAgree` | `StopsAgreeWithGate` | the latches above, and bounds on the weights of the criteria, see below |
| `TasksStayAccounted` | `TasksAccounted` | invariant `PlanInv`, see below; for every number of files, rows, variants and replicates |
| `RetriesStaySound` | `RetriesSound` | invariant `RetryInv`, see below; for every set of components and of caps |
| `TreeStaysAsPromised` | `TreeAsPromised` | invariant `TreeInv`, see below; for every list of sources |
| `ConfigStaysResolved` | `ConfigResolved` | invariant `ConfigInv`, see below; for every assignment of leaves to layers |
| `TimeStaysAccounted` | `TurnAccounted` | invariant `TimeInv`, see below; for turns of any length and number of calls |
| `CostsStayTold` | `CostsTold` | invariants of the join and of the rate card, see below; for logs and rate cards of any size |
| `CriteriaStayHonest` | `CriterionHonest` | type by type, see below; for criteria of any size |
| `ReportsStayHonest` | `ReportsHonest` | stage by stage, see below; for batches of any size |
| `CommandsStaySeen` | `CommandsSeen` | invariant `TextInv`, see below; for every cap and overlap, every text, script, criterion and number of commands |
| `EveryAgentKeepsContract` | `ContractKept` | invariant `IInv`, and thirteen moves, see below |
| `EveryCallKeptApart`, `EveryResultStands` | `CallsKeptApart`, `ResultsStand` | the same invariant; `ResultsStand` action by action |
| `DialogAccountedFor`, `StopReasonTrue` | `DialogTold`, `StopsOnce` | invariant `DialogInv`, see below |
| `DispatchCleansUp` | `CleanedUp` | invariant `ContainerInv`, see below; for every number of cuts and faults |
| `DispatchEarnsResult` | `ResultsEarned` | the same invariant |
| `DirectoryAgrees` | `DirectoryTrue` | invariant `BatchInv`, see below; for every set of tasks, every number of commands, kills and faults |
| `PaidOnce` | `NothingPaidTwice` | the same invariant, action by action |
| `VerdictReachesRow`, `PassCleansUp` | `RowTrue`, `PassLeavesNothing` | invariant `PassInv`, see below |

`FactKept` is not inductive: `Verdict` replaces the status when no exception is on its way,
and `_record_error` of a grading error could replace a recorded fact. The strengthening
`FailureGuarded` says where a recorded failure can be before the teardown: at "grade" only
with a run limit noted (it is raised right after), at "diag", "leave" and "verdict" only with an exception
that will be handled as a failure; and that a run which inherits an `ERROR` never carries
the grading phase. Each group of actions has a lemma, each action a step.

`CleanedUp` and `ResultsEarned` speak of the end of a dispatch; `ContainerInv` says what holds
at every await before it: which exceptions can be in flight there (`ExcTrue`), what of container,
network and sidecar already exists and what is already gone (`Nothing`, `TornTrue`), which row lies in the run
directory (`RowKept`), that modes that were widened are on record and by whom (`ModesTrue`), that the
handshake is in order (`AskTrue`), and that a refusal the row may name was asked for in the
grading phase (`LogTrue`). The cuts are remembered as a set, so the cases where the code does skip a
clean-up are facts of the state and not of a path.

`DirectoryTrue` speaks of the directory between commands; `BatchInv` adds what holds
inside one: the places a task can be in, phase by phase (`PhaseTrue`), what a row can be (`RowSound`),
that a result in memory is the row or an error that is only there (`ResultsTrue`), that only rows that owe a
grade wait for one (`OwedOnly`), and that the files a queued execution will see are its own (`OwnFiles`).

`RowTold` and the properties of a directory speak of a row that a run wrote. What holds on the way is
`PassInv`, which says where the parts of that row are before: a cancellation is the watchdog's and comes
out as its timeout (`CutByWatchdog`); a verdict follows the gate its run calls for from "postrun" on
(`VerdictTrue`); the facts a re-grade is seeded with stay until it fails (`RegradeTrue`, `PostTrue`); a failure of
the agent is on its way as an exception or already an error with diagnostics (`AgentFailureTrue`); and, for
the turn records, that those the agent produced are the ones on the row followed by the one in the slot or just returned
(`TurnsTrue`, the one part that needs a driver without permission windows). `DirInv` joins it with the
row, the backup and the first row of the directory, for the two kinds of run that can be at work
(`Executing`, `Regrading`); an action then either leaves the row or makes of it one of the things
`RowMoves` lists.

`RowTold`, `PassesRespectRow` and `LedgerKept` are proved for *undisturbed* directories (`Undisturbed`): nobody
cancels a run from outside, and no `evaluate` copies the workspace, as in `run_deadline` and `life_commands`. TLC finds
the premise needed: a run that is cancelled from outside writes a row
without a verdict, and a re-grade that is, one that records the cancellation in place of the verdict it was
given; a copied workspace runs `pre_run` again, whose failure is an `ERROR` of the pass; and a deadline that
fires inside a closing window takes the record of its turn with it.

What the next command relies on needs no premise. `KeptInv` keeps of the above what a disturbed run still
knows: it has scored nothing before it leaves the loop, nor ever if it is cancelled, and what it scored follows its
gate (`GateTrue`); gate and turn cap are the prior row's, and a re-grade that neither failed nor was cancelled ends
without a grading error (`HandedOn`); commands the prior row tells of do not run (`PostTrue`); and
a run that returned was not cancelled (`ReturnsUncut`). TLC checks it with one cancellation, one kill, copied
workspaces and windows (1.5 million states) as it checks the smaller instances.

`ModesHold` speaks of paths that an open window covers; windows overlap, and pushes and pops of two of them
interleave path by path. `StackInv` ties the registry to the windows: the registry holds a mode of a path for each
push that still waits for its pop (`Debt`, compared by cardinality in `Counted`, hence the finite set of
windows), and no other unless a chmod was refused; so a path of an open body has a mode applied, and one of
windows that have all left has none. One mode for all windows is a premise of the property itself
(`Shielded`): an exit pops whatever is innermost, so of two windows of different modes that overlap without being nested, the
one that leaves first uncovers its own mode.

With an interrupt `Honest` fails for a while: `restore_all` has emptied the registry and not yet restored the
disk. `Restoring` replaces it, for a process with one window so far (`LoneInv`): a path is in its original mode unless
the registry or the handler still holds that mode, and neither holds a path the worker has yet to push, so
that the push finds the original. The two premises are needed: after a SIGTERM the worker goes on and
nothing restores again, and of a path listed twice the second push finds the mode of the first.

The refinement of `TurnContract` is one over six agents of some ninety actions. They are not proved one by one
against the contract: thirteen *moves* say what a step may do to the books (the counters of the `Agent` object,
the ends of the tree, how the call stands), each action is shown to be a move, and each move to keep the
books (`BooksTrue`) and to map to a step of the contract or a stutter. What the moves need of the
rest is in the other parts of `IInv`: what the timer and the flag may be while a call is live
(`TimerTrue`), that a call begins with nothing from the last one (`Blank`), whose calls and tools are on the
tree (`CallsTrue`), what a cut has left (`CutTrue`), whose prompt the host works on (`HostTrue`), where a
cancellation is (`CancelTrue`), and what a result rests on (`ResultTrue`).

`DialogInv` says what is not yet on the row in the middle of a dialog: the utterance that is pending until a turn
takes it (`SpeechTrue`), the reason that will be recorded (`ReasonTrue`, `EndsTrue`), and the judge
calls since the last vector (`ChecksTrue`). Utterances are counted by positions of records: that a record
appended, or partial records of a failed attempt, keep the account are lemmas on sequences (`SpokenMore`).

`GradePass_proofs` first shows the checker sound on its own (`CheckerInv`: the results are those of the criteria so
far, a verdict is one that was submitted and valid, a judge's copy exists where one is at work). `PassInv` adds
where the pass is (`PlaceTrue`), that the first backup is the record of the execution
(`BackupTrue`), what row and summary are at each step (`RowAt`), which key was staged (`KeyTrue`) and what an exit means (`ExitTrue`).

`RetryInv` says where an operation is between two attempts: every failure so far was told once, and a
delay is one of the policy of the failure at hand, within policy and cap. It rests on lemmas about
the rules, which are lists where the first match decides: that the word decides that comes first (`SaidByFirstRule`), hence
that nothing another attempt cannot mend is retried (`PermanentIsFinal`), that an unnamed hitch of a sandbox
is (`SandboxHitchRetried`), and that every delay is between five seconds and 81 minutes (`DelayBounded`).

`TreeInv` says of a directory, step by step of its set-up, whose it is and whether it is there (`TreeOwned`), what is
published (`TreePublished`), that of the sources so far the last that writes a file has its way
(`TreeSourced`), when the recorder and the executable bits are in place (`TreeRecorded`,
`TreeExecutable`), and where an environment may be half made (`TreeWhole`): only while it is being made, or
in a target of the caller whose set-up failed and makes it again.

Sums. Weights, costs, marks, scores and times are summed over finite sets. The library's inductions take an
operator as a parameter, so `FiniteSetInduction` speaks of a set of subsets in place of a predicate (one that
holds `{}` and is closed under adding an element holds the whole set). It rests on minimal elements of the
strict subset ordering (`WFMin`), and so does the existence of a sum (`IsSumExists`). From it follow once what all the rules
need: a sum splits over a union (`SumUnion`), over the fibres of a function (`SumFibres`) and over the sizes of
disjoint sets (`SumOfSizes`), grows with its terms (`SumMonotone`), and equals its bound only if every
term does (`SumAtMost`: why full marks mean that every part is full).

A stop agrees with the gate (`WatchInv`): of a run that was cut for failures there is a set of criteria whose
verdict is a failure for good and without which the rest does not reach the gate (`FailsForGood`); weights
only grow with the set, so it is lost at every later moment (`GateIsLost`).

`ConfigInv`. The merge of a layer is one or two *pieces*, eight in all. Of every leaf the invariant says which piece stands: the
last that sets it with none after it that clears it (`Stands`); of its entry in the lineage the last that touched
it (`Touches`); of a list what the pieces so far have appended (`Pile`); of the pair of prompts that one source is left (`OneSource`), and
what inlining and overrides make of it (`PairInlined`, `PairFinal`). It says the same of the twin, whose overrides are
the variant's. That the last layer which decides is the piece that stands is then a fact
about sets of layers (`StandsDecides`, `DecidesLast`).

`TimeInv`: the windows of the messages tile what has passed since the first output, up to the mark (`Tiled`); messages
of the same bounds share one window. The ticks in which no tool ran are partitioned by the windows, the head and the tail; a
group of messages gets as its net time what its window has of them, however the shares are rounded (`NetGroup`,
`NetSum`), so the four buckets add up to the turn (`BucketsAre`).

Costs: `BillInv` says that every turn is what the plan makes of it, up to the next to be credited; that an iteration is
joined as a whole is an argument on its first turn, which takes the bill, and its others, which
take nothing (`JoinIsWhole`). `RatesInv`: a price that was given is still the price, since a batch that clashes leaves nothing.

Criteria: of each type one lemma says that full marks are given exactly for what is demanded, that a score is
a mark and that what is missing is none (`FileContainsFair` ... `ReferenceComparisonFair`); `CheckInv` adds what the wrapper makes of a checker that raises.

Reports: `ReportInv` says of each table that it is what the rows say, `NoBonus` compares a batch with the same batch after
one more crash (a mean of its tasks, each the mean of its replicates), `BestWins` is about the
order of the variants, and `ReportInvSuffices` puts exit code, JUnit and gates side by side.

`PlanInv` of the list of runs: a file the resolution is done with has no run or all of its runs (`Settled`), and the
buffer of the one in progress holds exactly the runs of the rows and variants reached so far (`Filling`). Two facts
about the last step carry the rest. The order by replicate, file and variant is total on what is kept, so the counts of
what is ahead are each number once and the sort is a permutation (`AheadPlaces`, `InterleavedOrders`). And tags are
matched by task id: a run whose own tags do not pass is kept if another file has a task of that id, but then both files
have its first replicate for the first variant, and the command is refused (`KeptByTags`).

`TextInv` of the criteria that read commands. While a text is scanned (`Scanned`), every line behind the mark is covered:
what is short, or the line of which is, lies in one window or in the one being filled. The windows have starts of their own and
none reaches past the start of the second after it (`Sparse`), since two steps of a cut line are no less than the cap; so
no place is in more than two of them and the leading one (`FewShare`). What is joined behind the flag of a wrapper is the script
(`SpelledAlike`; the recursive function that joins is unique by the least number where two would differ), and a live verdict is what
all commands so far decide, which more of them do not change (`VerdictStays`).

Only model-checked:

- the liveness properties (`Terminates`, `TurnEnds`, `NothingHangs`, `BatchEnds`, `PassEnds`), out of the prover's reach;
- `GuardHonest`, one of the ten families: it tokenises spellings and scans tokens with recursive operators and folds, whose
  definitions the provers cannot expand;
- what the premises in the table leave out: `PermissionStack` after a signal, teardown under a `task_timeout`.
  Of disturbed directories nothing is left: what is not proved of them does not hold there.

## Findings

| run | what the code does | what it says |
|---|---|---|
| `v_execute_rate` | `aggregate_results` counts a variant's measured tasks after a crashed row's score became 0.0: an `execute` with one crash has no pass rate as a run and 0.0 as a variant (`orchestration/experiment.py:963`) | "where no row produced a verdict has no rate at all"; "Both now route through nothing_was_measured" (`models/experiment.py:286`) |

Statements of the code or its documentation that the models do not keep either. Those that are
definitions are marked "No run" in their modules; TLC finds the behaviour when one is added to a cfg.

| statement | what happens | definition |
|---|---|---|
| "INTERRUPT-PROOF" (`orchestrator.py:574`) | the watchdog's cancellation can arrive in `_cleanup`, one await after the block that guards against it: agent or sandbox left, no `task.json` (`orchestrator.py:594`) | `TornDown` with a `task_timeout` |
| "a detached grade may not overturn an execution fact" (`orchestrator.py:459`) | a re-grade that is cancelled persists its seeded row, status FAILURE, over a TIMEOUT or ERROR (`orchestrator.py:1200`) | `FactKept` with an interrupt |
| "and exactly once" (`docs/TASK_DEFINITION_GUIDE.md:1713`) | a failed grading pass has run post_run but records nothing, the next pass runs it again (`orchestrator.py:3077`) | `PostRunOnce` |
| "mathematically guaranteed to fail" (`docs/TASK_DEFINITION_GUIDE.md:444`) | a fail-stop for an expired `decide_within` may end a run that passes its gate (`orchestration/early_stop.py:431`) | `FailStopFinal` |
| the hazard named at `fs_permissions.py:146` | `restore_all` chmods outside the lock; a push in between records the restricted mode as the original (`fs_permissions.py:189`) | `RestoredAtExit` with a signal and two windows |
| "a CancelledError delivered to the CALLER during this same await -- still propagates" (`agents/delegate_agent.py:719`) | `_cancel_drain_tasks` awaits with a suppressed `CancelledError`, the caller's included | `CallerCancelPropagates` |
| "The host removes the sidecar and the network on every path" (`docs/DOCKER_ISOLATION.md:96`) | the network cannot be removed while a container that was not killed hangs on it (`isolation/docker_runner.py:763`, `isolation/egress.py:523`) | `NetworkGone` |
| "the row is stamped `graded_on_host`" (`docs/USER_GUIDE.md:45`) | `--resume` stamps the result in memory after the row was written (`cli/run_command.py:891`); a later pass in a container keeps a stamp that is there (`orchestrator.py:755`) | `HostStampTrue` |
| of a judge call without a price: "RunSummary.cost_complete reports false" (`orchestration/batch.py:82`) | `_cost_complete` looks at the turns' usage only (`run_record.py:30`) | `JudgeGapTold` |

### Seen while modelling

Part of the models' behaviour, or of the code next to them. One run:

- A run interrupted by Ctrl-C persists the default status `FAILURE` with no criteria, although
  `models/enums.py` describes `FAILURE` as "criteria checked, did not pass". `RowTold`
  is therefore checked without outside cancellations.
- A record that `communicate` has returned is lost if the deadline lands in the chmod that
  closes the window (`orchestrator.py:2075`): `RowTold` is checked with a driver that
  has no window.
- An SDK that absorbs the deadline's cancellation leaves a retry with no deadline
  (`errors/executor.py:105`, `agents/watchdog.py:4`): the exception in `Terminates`.
- SIGTERM in the middle of a push ends the process with a path at mode 000: the handler
  restores, the worker goes on, nothing restores again (`fs_permissions.py:211`). `perm_windows`
  has SIGINT only.
- A second cancellation abandons the join of the worker (`fs_permissions.py:323`); the mode
  is then restored at exit only: the exception in `ModesHold`.
- `evaluate` on a copied workspace whose pre_run fails writes an execution ERROR over the
  prior verdict (`cli/evaluate_command.py:540`, against `docs/USER_GUIDE.md:199`);
  `life_commands` leaves the mode `copy` out for that reason.
- A task that crashes under `execute` and is graded by `--resume` can get a score; `run`
  leaves the same crash at 0.0.
- A stop that counts a parallel call in flight as passed can end a run as `criterion_passed`
  that its gate fails; `PassStopHolds` is stated for rounds with no other call in flight,
  and for the default gate of 100.
- `create_error_context` is given the iteration as the attempt (`orchestrator.py:907`, `:966`, `:979`).

Agents:

- A Claude turn whose set-up fails ends a tree that never started; a timer between the finalization of the tree
  and the second look at the flag raises a timeout with a clean end and nothing parked.
- A cancellation of Delegate's reaping leaves the turn without an `AgentEnd`.
- Codex's timer only marks the turn, where `docs/HARNESS_PARITY.md:16` speaks of a cooperative interrupt.
- The cancellation a watchdog posts may arrive after its turn has ended, in whatever the task awaits by then.

Container and egress:

- A second cancellation at the closing of the log skips the kill, one at the last await skips the restoring
  of the modes, and one inside the widening leaves modes that nobody recorded
  (`isolation/docker_runner.py:781`, `:804`, `:732`): the exceptions in `CleanedUp`.
- Stopping the heartbeat and the grading watch suppresses `CancelledError`, a caller's included.
- `_validate_extra_mount` says "Mode is REQUIRED" and defaults to read-only.

Dialog:

- A judge whose last check raised leaves a plain result, and the usage of earlier checks is gone
  (the exception in `NothingLost`).
- A crash after a check per turn leaves that check's vector and score on the ERROR row.
- A simulator that fails is an error of the dialog, and the check at its end may still make the
  row a SUCCESS. In mode `both` that check may fail after `criteria_passed` stopped the dialog.
- A cancellation inside `simulator.stop` leaves its scratch directory.

Batch:

- A row interrupted by Ctrl-C is FAILURE with score 0.0, so `--resume` counts it as complete
  (`docs/USER_GUIDE.md:108`).
- Errors that only the command knew vanish from `run.json` when `evaluate` or `rebuild` refreshes it.
- A fresh command into a directory that exists leaves old rows, which count as complete after a kill, and
  old files, which its own criteria can see (`mixed` names these tasks).
- Containers that outlive a kill are assumed to end before the next command clears their task.

Grading:

- The key may be edited between the check and the staging (`orchestration/regrade.py:532`,
  `orchestrator.py:1447`): the exception in `RowTrue`.
- A cancelled checker thread goes on (`evaluation/checker.py:205`); a second cancellation skips the removal
  of a judge's copy (`evaluation/sub_agent.py:179`); a cancelled set-up leaves the copy
  (`cli/evaluate_command.py:466`).
- A judge that times out after it submitted a verdict scores 0.

Rules:

- A recorder that can write neither the log nor its note loses the call; a log that is removed and begun anew
  is a whole log. `GuardHonest` excludes both.
- A failed set-up in a directory that stays leaves half an environment, which a later adoption finds.
- `_reject_escaped` (`sandbox.py:1286`) turns a symlink that the agent made into an ERROR of the run.
- A rate limit error with a billing text is retried by its type.
- A plugin's price under a qualified spelling is never looked up; negative token counts pass `_coerce_int`.
- A label file that cannot be decoded vanishes from the confusion matrix.
- `-D agent.system_prompt_file` is not inlined; the template sources of the default experiment are dropped
  though its docstring says they are added; dataset sampling without a seed draws other rows on `--resume`.
- `per_replicate_scores` is shorter than the replicates when some are ungraded; JUnit shows rows as
  skipped for which `run` exits with 1; under `execute` a crashed variant can win over an ungraded one
  (against `orchestration/experiment.py:910`).

## Not modelled

- Logging and telemetry, Harbor export, similarity scoring, evalboard, the LiteLLM hook, the images:
  formatting, arithmetic and I/O with no state of their own that others act on.
- Of `TaskRun`: telemetry backfill, heartbeat and log files. They change nothing
  any modelled decision reads.
- Of `PermissionStack`: paths that do not exist, non-strict windows, a second signal inside
  the handler.
- Of `EarlyStop`: patterns and tool names (a call is of a kind), pass thresholds other than
  1, the partial record of a crashed attempt, reused tool ids, and which criterion a stop
  is attributed to.
- Of the agents: prompts, texts, tokens, the hosts' configuration, the registry; a
  `build_turn_record` that raises on the clean path. A tool id is used once.
- Of `Container`: the text of the docker command and of the image build, times, the bytes a tunnel relays,
  host matching, a quarantine move that fails.
- Of `Batch`: skipped files (in `TaskList`) and metadata. Of `GradePass`: two concurrent passes over one row,
  the preservation of a graded copy. Of `Checker`: prompts and the form of verdict files.
- Of the sandbox: running commands, path checks. Of the criteria: the System One judge.
- Of the resolution: file formats, the fingerprint of an experiment. Of the reports: HTML, Markdown, statistics.
- A task's post_run commands have their own timeouts, but nothing bounds their sum (`orchestrator.py:577`): times are not modelled.

## Plan

Done, in this order: the row and one run of a task; its lifecycle and the ledger it
implements; permission windows; early stop; the six agents under one contract; the container
with its egress; the dialog; the batch; detached grading with the checker and its judges; ten
families of rules; the proofs of the run and its row, of the lifecycle and the ledger it implements,
of the permission windows and the exit handler, of the latches, of the six agents under their contract,
of a dispatch, of a dialog, of a batch and the list of its runs, of a grading pass, of the retries, of a task's directory and its configuration,
of the time of a turn, of costs, of the criteria, of what is published, and of the agreement of a stop with its gate.

Left, most important first:

1. Tool ids that an SDK uses again in a retry: identities of calls as a constant of `EarlyStop` and `TurnTime`
   (`streaming/collector.py:80`).
2. Two passes over one row at the same time, and a pass while `--resume` runs.
3. `Batch` over the rows of `RunLifecycle` in place of their categories, once its instance is small enough.
