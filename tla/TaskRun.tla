------------------------------ MODULE TaskRun ------------------------------
(***************************************************************************)
(* One Orchestrator.run(): the coroutine that sets a task up, talks to the *)
(* agent (with retries), grades, tears down and writes task.json; the      *)
(* timer thread of its task watchdog; and whoever cancels the asyncio task *)
(* from outside.                                                           *)
(*                                                                         *)
(* The coroutine runs to its next suspension without another coroutine or  *)
(* callback in between, so an action is everything from one await to the   *)
(* next, and `pc' names the await it is suspended at.  The timer thread is *)
(* preemptive: "leave" and "verdict" are no awaits, but the thread may     *)
(* step there, between timer.cancel() and the read of `fired'.  A          *)
(* cancellation is requested by a callback of the loop, hence only while   *)
(* the coroutine is suspended, and is then what the await raises.          *)
(***************************************************************************)
EXTENDS TaskRow

CONSTANTS
  MaxAttempts,      \* communicate attempts execute_with_retry makes
  NPostRun,         \* post_run commands of the task
  TaskTimeout,      \* a task_timeout is configured
  EnforcesWindows,  \* the sandbox driver applies the permission window
  SwallowsCancel,   \* the agent's SDK may absorb the cancellation that follows
                    \* a kill, and end the turn some other way
  MaxInterrupts,    \* bound: cancellations from outside (Ctrl-C, a batch
                    \* abort, a late turn watchdog)
  Modes,            \* the ways this orchestrator may be started
  Priors            \* rows a re-grade may be given

ASSUME ConstantsAssumption ==
  /\ MaxAttempts \in Nat \ {0}
  /\ NPostRun \in Nat
  /\ MaxInterrupts \in Nat
  /\ TaskTimeout \in BOOLEAN
  /\ EnforcesWindows \in BOOLEAN
  /\ SwallowsCancel \in BOOLEAN
  /\ Modes \subseteq {"run", "execute", "regrade", "copy", "bare"}
  /\ Priors \subseteq Row

VARIABLES
  mode,        \* run, execute; regrade (adopted workspace), copy (a copied
               \* one), bare (a directory that no run left)
  prior,       \* prior_result, NoRow when the mode has none
  pc,
  res,         \* self.result
  report,      \* the task.json at report_path
  written,     \* this run persisted its row
  exc,         \* the exception on its way to run()'s handlers
  gfail,       \* _grading_failure is set
  complete,    \* _execution_complete
  success,     \* what the evaluation returned
  interrupt,   \* teardown_interrupt
  outcome,     \* how run() ended
  timer,       \* the watchdog's timer thread
  cancel,      \* a cancellation of the asyncio task is requested
  interrupts,  \* cancellations from outside so far
  agent,       \* the agent object and its turn bookkeeping
  attempt,     \* attempts execute_with_retry has started
  command,     \* post_run commands started
  sandbox,
  returned,    \* the record communicate() returned, until it is appended
  captured     \* history variable: every turn record the agent produced

runVars    == <<mode, prior>>
resultVars == <<res, report, written, gfail, complete, success>>
flowVars   == <<exc, interrupt, outcome>>
watchVars  == <<timer, cancel, interrupts>>
talkVars   == <<agent, attempt, returned, captured>>
tearVars   == <<command, sandbox>>
vars == <<runVars, pc, resultVars, flowVars, watchVars, talkVars, tearVars>>

Grades    == mode # "execute"
HasPrior  == mode \in {"regrade", "copy"}
HasAgent  == mode \in {"run", "execute"}
Adopted   == mode = "regrade"
Inherited == HasPrior /\ HasExecutionFailure(prior)

Fired == timer \in {"firing", "killed", "posted", "done"}

\* The coroutine is suspended in a real await.  A permission window of a
\* driver that enforces none, and the clean-up of a sandbox that was never
\* made, suspend nowhere.
Suspended ==
  \/ pc \in {"setup", "start", "prerun", "talk", "backoff", "grade", "diag",
             "postrun", "stop"}
  \/ pc \in {"window", "unwind"} /\ EnforcesWindows
  \/ pc = "clean" /\ sandbox # "none"

At(label) == pc = label /\ ~ (cancel /\ Suspended)
CancelAt(label) == pc = label /\ cancel /\ Suspended /\ cancel' = FALSE

-----------------------------------------------------------------------------
(* What the handlers write on the result. *)

Fact(r, status) == [r EXCEPT !.status = status, !.phase = "execution"]

\* Mutant: the vector is left as it was.
NotEvaluatedSilently(r) == r

\* _record_post_failure_not_evaluated
NotEvaluated(r) == [r EXCEPT !.diag = "skipped"]

\* Mutant: a grading error overrides the failure of the run itself.
GradingFailedOver(r) ==
  IF Inherited
    THEN [r EXCEPT !.status = prior.status, !.history = @ + 1]
    ELSE [r EXCEPT !.status = "ERROR",
                   !.phase = IF complete THEN "grading" ELSE "execution"]

\* _handle_grading_error: an execution fact, inherited or of this run, keeps
\* the status and the incident goes to the history.
GradingFailed(r) ==
  IF Inherited
    THEN [r EXCEPT !.status = prior.status, !.history = @ + 1]
  ELSE IF HasExecutionFailure(r)
    THEN [r EXCEPT !.history = @ + 1]
  ELSE [r EXCEPT !.status = "ERROR",
                 !.phase = IF complete THEN "grading" ELSE "execution"]

\* Mutants: the turn cap before success, a fact that is not inherited.
TerminalStatusCapFirst ==
  IF Inherited THEN prior.status
  ELSE IF ~ Grades THEN "NOT_GRADED"
  ELSE IF res.maxTurns THEN "MAX_TURNS_EXHAUSTED"
  ELSE IF success THEN "SUCCESS"
  ELSE "FAILURE"
TerminalStatusFresh ==
  IF success THEN "SUCCESS"
  ELSE IF res.maxTurns THEN "MAX_TURNS_EXHAUSTED"
  ELSE "FAILURE"

\* _terminal_status, in the code's order.
TerminalStatus ==
  IF Inherited THEN prior.status
  ELSE IF success THEN "SUCCESS"
  ELSE IF ~ Grades THEN "NOT_GRADED"
  ELSE IF res.maxTurns THEN "MAX_TURNS_EXHAUSTED"
  ELSE "FAILURE"

\* The agent's turn bookkeeping.  `bumped' is _iteration_was_incremented.
Agents == [state : {"none", "starting", "up", "stopped"}, pending : Turn,
           iteration : Nat, bumped : BOOLEAN, killed : BOOLEAN]
NoAgent == [state |-> "none", pending |-> NoTurn, iteration |-> 0,
            bumped |-> FALSE, killed |-> FALSE]
BeginTurn(a) == [a EXCEPT !.pending = NoTurn, !.iteration = @ + 1, !.bumped = TRUE]
EndTurnOk(a) == [a EXCEPT !.bumped = FALSE]

\* Mutants: only a parked record undoes the bump; each reason undoes it.
DiscardParked(a) ==
  [a EXCEPT !.pending = NoTurn, !.bumped = FALSE,
            !.iteration = IF a.pending # NoTurn THEN @ - 1 ELSE @]
DiscardTwice(a) ==
  [a EXCEPT !.pending = NoTurn, !.bumped = FALSE,
            !.iteration = @ - (IF a.bumped THEN 1 ELSE 0) - (IF a.pending # NoTurn THEN 1 ELSE 0)]

DiscardPending(a) ==
  [a EXCEPT !.pending = NoTurn, !.bumped = FALSE,
            !.iteration = IF (a.bumped \/ a.pending # NoTurn) /\ @ > 0 THEN @ - 1 ELSE @]

NewTurn(crashed) == [no |-> Len(prior.turns) + Len(captured) + 1, crashed |-> crashed]

\* Mutant: the slot is discarded unread.
DrainedAway(r, a) == r

\* Reading pending_turn onto the result, then discarding the slot.
Drained(r, a) ==
  IF a.pending = NoTurn THEN r ELSE [r EXCEPT !.turns = Append(@, a.pending)]

-----------------------------------------------------------------------------
(* Starting, setting up, pre_run. *)

Init ==
  /\ mode = "bare" /\ prior = NoRow /\ pc = "idle"
  /\ res = FreshRow /\ report = NoRow /\ written = FALSE
  /\ exc = "none" /\ gfail = FALSE /\ complete = FALSE /\ success = FALSE
  /\ interrupt = "none" /\ outcome = "none"
  /\ timer = "off" /\ cancel = FALSE /\ interrupts = 0
  /\ agent = NoAgent /\ attempt = 0 /\ command = 0
  /\ sandbox = "none" /\ returned = NoTurn /\ captured = << >>

\* A new Orchestrator, its result seeded from the row it grades, if any.
Begin(m, p) ==
  /\ pc = "idle"
  /\ m \in Modes
  /\ mode' = m /\ prior' = p
  /\ pc' = "setup"
  /\ res' = IF m \in {"regrade", "copy"} THEN Seeded(p) ELSE FreshRow
  /\ written' = FALSE /\ exc' = "none" /\ gfail' = FALSE
  /\ complete' = (m \in {"regrade", "copy"})
  /\ success' = FALSE /\ interrupt' = "none" /\ outcome' = "none"
  /\ timer' = "off" /\ cancel' = FALSE
  /\ agent' = NoAgent /\ attempt' = 0 /\ command' = 0
  /\ sandbox' = IF m \in {"run", "execute"} THEN "none" ELSE "live"
  /\ returned' = NoTurn /\ captured' = << >>
  /\ UNCHANGED interrupts

\* An exception that skips the watched evaluation altogether.
AbortSetup(e) ==
  /\ exc' = IF HasPrior /\ e = "error" /\ pc = "setup" THEN "grading" ELSE e
  /\ pc' = "verdict"

Watched == timer' = IF TaskTimeout THEN "armed" ELSE "off"

\* The step into the evaluation loop: an agentless pass grades at once.
EnterLoop ==
  /\ Watched
  /\ IF HasAgent
       THEN /\ res' = [res EXCEPT !.count = 1]
            /\ pc' = "window"
            /\ UNCHANGED complete
       ELSE /\ res' = IF HasPrior THEN res ELSE [res EXCEPT !.count = 1]
            /\ complete' = TRUE
            /\ pc' = "grade"

SetupSandbox ==
  /\ At("setup")
  /\ IF HasAgent
       THEN /\ sandbox' = "live"
            /\ agent' = [agent EXCEPT !.state = "starting"]
            /\ pc' = "start"
            /\ UNCHANGED <<res, complete, timer>>
       ELSE /\ IF Adopted THEN EnterLoop
                          ELSE pc' = "prerun" /\ UNCHANGED <<res, complete, timer>>
            /\ UNCHANGED <<sandbox, agent>>
  /\ UNCHANGED <<runVars, report, written, gfail, success, flowVars, cancel,
                 interrupts, attempt, returned, captured, command>>

\* Reference staging, sandbox.setup (retries exhausted), routing.
SetupFails ==
  /\ At("setup")
  /\ AbortSetup("error")
  /\ \E s \in {sandbox, "live"} : sandbox' = s
  /\ UNCHANGED <<runVars, resultVars, interrupt, outcome, watchVars, talkVars, command>>

StartAgent ==
  /\ At("start")
  /\ agent' = [agent EXCEPT !.state = "up"]
  /\ pc' = "prerun"
  /\ UNCHANGED <<runVars, resultVars, flowVars, watchVars, attempt, returned,
                 captured, tearVars>>

StartAgentFails ==
  /\ At("start")
  /\ AbortSetup("error")
  /\ UNCHANGED <<runVars, resultVars, interrupt, outcome, watchVars, talkVars, tearVars>>

PreRun ==
  /\ At("prerun")
  /\ EnterLoop
  /\ UNCHANGED <<runVars, report, written, gfail, success, flowVars, cancel,
                 interrupts, talkVars, tearVars>>

\* A fail_on_error command that fails.
PreRunFails ==
  /\ At("prerun")
  /\ AbortSetup("error")
  /\ UNCHANGED <<runVars, resultVars, interrupt, outcome, watchVars, talkVars, tearVars>>

SetupCancelled ==
  /\ \E label \in {"setup", "start", "prerun"} : CancelAt(label)
  /\ AbortSetup("cancel")
  /\ \E s \in {sandbox} \cup (IF pc = "setup" THEN {"live"} ELSE {}) : sandbox' = s
  /\ UNCHANGED <<runVars, resultVars, interrupt, outcome, timer, interrupts,
                 talkVars, command>>

-----------------------------------------------------------------------------
(* Talking to the agent: _communicate_with_retry inside its permission     *)
(* window, and the handlers of _run_evaluation_with_failure_evidence.      *)

\* Leaving the loop by a cancellation: a deadline that fired makes it a
\* timeout, with a vector saying that nothing was evaluated.
EvidenceOfCancel ==
  /\ pc' = "leave"
  /\ exc' = IF Fired THEN "timeout" ELSE "cancel"
  /\ res' = IF Fired THEN NotEvaluated(res) ELSE res

OpenWindow ==
  /\ At("window")
  /\ pc' = "talk"
  /\ attempt' = 1
  /\ agent' = [BeginTurn(agent) EXCEPT !.killed = FALSE]
  /\ UNCHANGED <<runVars, resultVars, flowVars, watchVars, returned, captured, tearVars>>

\* strict: a chmod that is refused raises.
WindowRefused ==
  /\ At("window") /\ EnforcesWindows
  /\ exc' = "error"
  /\ pc' = "leave"
  /\ UNCHANGED <<runVars, resultVars, interrupt, outcome, watchVars, talkVars, tearVars>>

TurnReturns ==
  /\ At("talk")
  /\ returned' = NewTurn(FALSE)
  /\ captured' = Append(captured, NewTurn(FALSE))
  /\ agent' = EndTurnOk(agent)
  /\ pc' = "unwind"
  /\ UNCHANGED <<runVars, resultVars, flowVars, watchVars, attempt, tearVars>>

\* AgentCrashError or TurnTimeoutError.  The agent parks what it captured of
\* the turn, which may be nothing; on_attempt_error reads and discards the
\* slot whether or not the attempt is retried.  A turn timeout is never
\* retried, a crash only if its message is of a retryable category.
TurnFails(e, parked, retry) ==
  /\ At("talk")
  /\ retry => e = "crash" /\ attempt < MaxAttempts
  /\ LET a == [agent EXCEPT !.pending = IF parked THEN NewTurn(TRUE) ELSE NoTurn]
     IN  /\ res' = Drained(res, a)
         /\ agent' = DiscardPending(a)
  /\ captured' = IF parked THEN Append(captured, NewTurn(TRUE)) ELSE captured
  /\ IF retry THEN pc' = "backoff" /\ UNCHANGED exc
              ELSE pc' = "unwind" /\ exc' = e
  /\ UNCHANGED <<runVars, report, written, gfail, complete, success, interrupt,
                 outcome, watchVars, attempt, returned, tearVars>>

\* The agent parks the cut turn and lets the cancellation through.
TurnCancelled(parked) ==
  /\ CancelAt("talk")
  /\ agent' = IF parked THEN [agent EXCEPT !.pending = NewTurn(TRUE)] ELSE agent
  /\ captured' = IF parked THEN Append(captured, NewTurn(TRUE)) ELSE captured
  /\ exc' = "cancel"
  /\ pc' = "unwind"
  /\ UNCHANGED <<runVars, resultVars, interrupt, outcome, timer, interrupts,
                 attempt, returned, tearVars>>

TurnSwallowsCancel ==
  /\ CancelAt("talk") /\ SwallowsCancel /\ agent.killed
  /\ UNCHANGED <<runVars, pc, resultVars, flowVars, timer, interrupts, talkVars, tearVars>>

\* Seconds of sleep: the timer thread, once it is running, has long asked
\* for the cancellation by then.
BackoffElapses ==
  /\ At("backoff")
  /\ timer \notin {"firing", "killed", "posted"}
  /\ pc' = "talk"
  /\ attempt' = attempt + 1
  /\ agent' = [BeginTurn(agent) EXCEPT !.killed = FALSE]
  /\ UNCHANGED <<runVars, resultVars, flowVars, watchVars, returned, captured, tearVars>>

BackoffCancelled ==
  /\ CancelAt("backoff")
  /\ exc' = "cancel"
  /\ pc' = "unwind"
  /\ UNCHANGED <<runVars, resultVars, interrupt, outcome, timer, interrupts,
                 talkVars, tearVars>>

\* The record that came back, and the facts of the run it tells: appended,
\* recorded, and a run limit it breaks noted, before anything is graded.
Absorb(exhausted, early, overBudget) ==
  LET appended == [res EXCEPT !.turns = Append(@, returned),
                              !.early = early,
                              !.maxTurns = @ \/ exhausted]
  IN  /\ complete' = TRUE
      /\ res' = IF overBudget THEN Fact(appended, "BUDGET_EXCEEDED") ELSE appended
      /\ exc' = IF overBudget /\ ~ Grades THEN "budget" ELSE "none"
      /\ pc' = IF Grades THEN "grade" ELSE "leave"

\* A terminal agent failure is recorded, then whatever criteria can still be
\* read off the workspace are evaluated as diagnostics.  With no such
\* criterion the vector is written without suspending.
Evidence ==
  /\ UNCHANGED <<complete, exc>>
  /\ \/ /\ Grades
        /\ res' = Fact(res, "ERROR")
        /\ pc' = "diag"
     \/ /\ res' = [Fact(res, "ERROR") EXCEPT !.diag = IF Grades THEN "checked" ELSE @]
        /\ pc' = "leave"

\* The window closes, and what the attempt ended with goes on: only now is
\* the returned record appended.
CloseWindow ==
  /\ At("unwind")
  /\ CASE exc = "none" ->
            \E exhausted, early, overBudget \in BOOLEAN :
              /\ early => Grades
              /\ Absorb(exhausted, early, overBudget)
       [] exc = "cancel" -> EvidenceOfCancel /\ UNCHANGED complete
       [] OTHER -> Evidence
  /\ UNCHANGED <<runVars, report, written, gfail, success, interrupt, outcome,
                 watchVars, talkVars, tearVars>>

WindowCancelled ==
  /\ \E label \in {"window", "unwind"} : CancelAt(label)
  /\ EvidenceOfCancel
  /\ UNCHANGED <<runVars, report, written, gfail, complete, success, interrupt,
                 outcome, timer, interrupts, talkVars, tearVars>>

-----------------------------------------------------------------------------
(* Grading. *)

\* A run limit found after the turn is raised only here, after the criteria.
LimitNoted == HasAgent /\ res.status = "BUDGET_EXCEEDED"

Grade(v) ==
  /\ At("grade")
  /\ v \in Vectors \ {"none"}
  /\ res' = [res EXCEPT !.crit = v, !.score = IF HasAgent THEN "some" ELSE @]
  /\ success' = GatePassed(res.early, v)
  /\ exc' = IF LimitNoted THEN "budget" ELSE "none"
  /\ pc' = "leave"
  /\ UNCHANGED <<runVars, report, written, gfail, complete, interrupt, outcome,
                 watchVars, talkVars, tearVars>>

\* "grading": a checker or the gate raised, the gate with the vector already
\* recorded.  "error": the reference changed under the agent, which is no
\* GradingError.
GradeFails(e, v) ==
  /\ At("grade")
  /\ e = "error" => HasAgent /\ v = "none"
  /\ res' = [res EXCEPT !.crit = v]
  /\ exc' = e
  /\ pc' = "leave"
  /\ UNCHANGED <<runVars, report, written, gfail, complete, success, interrupt,
                 outcome, watchVars, talkVars, tearVars>>

GradeCancelled ==
  /\ CancelAt("grade")
  /\ EvidenceOfCancel
  /\ UNCHANGED <<runVars, report, written, gfail, complete, success, interrupt,
                 outcome, timer, interrupts, talkVars, tearVars>>

DiagChecked ==
  /\ At("diag")
  /\ res' = [res EXCEPT !.diag = "checked"]
  /\ pc' = "leave"
  /\ UNCHANGED <<runVars, report, written, gfail, complete, success, flowVars,
                 watchVars, talkVars, tearVars>>

DiagFails ==
  /\ At("diag")
  /\ res' = NotEvaluated(GradingFailed(res))
  /\ gfail' = TRUE
  /\ pc' = "leave"
  /\ UNCHANGED <<runVars, report, written, complete, success, flowVars,
                 watchVars, talkVars, tearVars>>

\* A deadline that cuts the diagnostics keeps the failure they are about.
DiagCancelled ==
  /\ CancelAt("diag")
  /\ res' = IF Fired THEN NotEvaluated(res) ELSE res
  /\ exc' = IF Fired THEN exc ELSE "cancel"
  /\ pc' = "leave"
  /\ UNCHANGED <<runVars, report, written, gfail, complete, success, interrupt,
                 outcome, timer, interrupts, talkVars, tearVars>>

-----------------------------------------------------------------------------
(* The end of the watched block and run()'s handlers. *)

\* A grading error under a deadline that fired is recorded as both, then
\* raised as the timeout.  timer.cancel() stops a timer that has not fired,
\* unless its thread is already past looking.
LeaveWatch ==
  /\ pc = "leave"
  /\ LET both == exc = "grading" /\ Fired
     IN  /\ exc' = IF both THEN "timeout" ELSE exc
         /\ res' = IF both /\ ~ HasPrior THEN GradingFailed(Fact(res, "TIMEOUT")) ELSE res
         /\ gfail' = (gfail \/ (both /\ ~ HasPrior))
  /\ \/ timer' = IF timer = "armed" THEN "off" ELSE timer
     \/ timer = "armed" /\ timer' = "late"
  /\ pc' = "verdict"
  /\ UNCHANGED <<runVars, report, written, complete, success, interrupt, outcome,
                 cancel, interrupts, talkVars, tearVars>>

\* Mutant: the agent is left to the sandbox clean-up.
TearDownAtOnce == "clean"

\* Where the teardown starts.  A post_run the prior row already has results
\* of, or one that belongs to a later grade, is skipped.
TearDown == IF agent.state = "none" THEN "clean" ELSE "stop"
PostRunDue ==
  /\ Grades /\ NPostRun > 0 /\ sandbox = "live"
  /\ ~ (HasPrior /\ prior.post > 0)

\* Mutants: the deadline of a re-grade stays a timeout; only an exception
\* tells of the deadline.
RaisedBare == IF exc = "none" /\ Fired THEN "timeout" ELSE exc
RaisedAsIs == IF HasPrior /\ exc = "timeout" THEN "grading" ELSE exc

\* What reaches the handlers: an unnoticed deadline counts, and a re-grade
\* turns every exception of its attempt into a grading error.
Raised ==
  LET e == IF exc = "none" /\ Fired THEN "timeout" ELSE exc
  IN  IF HasPrior /\ e = "timeout" THEN "grading" ELSE e

Verdict ==
  /\ pc = "verdict"
  /\ exc' = Raised
  /\ pc' = IF PostRunDue THEN "postrun" ELSE TearDown
  /\ CASE Raised = "none" ->
            res' = [res EXCEPT !.status = TerminalStatus] /\ UNCHANGED <<gfail, agent>>
       [] Raised = "cancel" -> UNCHANGED <<res, gfail, agent>>
       [] Raised = "grading" ->
            res' = GradingFailed(res) /\ gfail' = TRUE /\ UNCHANGED agent
       [] Raised = "timeout" ->
            /\ res' = Drained(Fact(res, "TIMEOUT"), agent)
            /\ agent' = IF agent.pending = NoTurn THEN agent ELSE DiscardPending(agent)
            /\ UNCHANGED gfail
       [] Raised = "budget" ->
            res' = Fact(res, "BUDGET_EXCEEDED") /\ UNCHANGED <<gfail, agent>>
       [] OTHER -> res' = Fact(res, "ERROR") /\ UNCHANGED <<gfail, agent>>
  /\ UNCHANGED <<runVars, report, written, complete, success, interrupt, outcome,
                 watchVars, attempt, returned, captured, tearVars>>

-----------------------------------------------------------------------------
(* Teardown: post_run, _cleanup, _finalize_result. *)

\* A command that fails or times out has a result like any other.
PostRun ==
  /\ At("postrun")
  /\ command' = command + 1
  /\ res' = [res EXCEPT !.post = @ + 1]
  /\ pc' = IF command + 1 < NPostRun THEN "postrun" ELSE TearDown
  /\ UNCHANGED <<runVars, report, written, gfail, complete, success, flowVars,
                 watchVars, talkVars, sandbox>>

\* The loop refuses to spawn the command (RuntimeError).
PostRunRaises ==
  /\ At("postrun")
  /\ pc' = TearDown
  /\ IF HasPrior
       THEN res' = GradingFailed(res) /\ gfail' = TRUE /\ UNCHANGED interrupt
       ELSE interrupt' = "error" /\ UNCHANGED <<res, gfail>>
  /\ UNCHANGED <<runVars, report, written, complete, success, exc, outcome,
                 watchVars, talkVars, tearVars>>

\* Mutant: the cancellation ends with the command it cut.
PostRunCancelAbsorbed ==
  /\ CancelAt("postrun")
  /\ pc' = TearDown
  /\ UNCHANGED <<runVars, resultVars, flowVars, timer, interrupts, talkVars, tearVars>>

PostRunCancelled ==
  /\ CancelAt("postrun")
  /\ interrupt' = "cancel"
  /\ pc' = TearDown
  /\ UNCHANGED <<runVars, resultVars, exc, outcome, timer, interrupts, talkVars, tearVars>>

StopAgent ==
  /\ At("stop")
  /\ agent' = [agent EXCEPT !.state = "stopped", !.pending = NoTurn]
  /\ pc' = "clean"
  /\ UNCHANGED <<runVars, resultVars, flowVars, watchVars, attempt, returned,
                 captured, tearVars>>

\* _cleanup swallows exceptions, not cancellations: what is left of the
\* teardown, the row included, is skipped.
CleanupCancelled ==
  /\ \E label \in {"stop", "clean"} : CancelAt(label)
  /\ outcome' = "cancelled"
  /\ pc' = "done"
  /\ UNCHANGED <<runVars, resultVars, exc, interrupt, timer, interrupts, talkVars, tearVars>>

\* The clean-up's last await, then the row: a re-grade that failed leaves
\* the record of the run it graded alone.
Finalize ==
  /\ At("clean")
  /\ sandbox' = IF sandbox = "live" /\ ~ Adopted THEN "cleaned" ELSE sandbox
  /\ res' = [res EXCEPT !.score = FinalScore(Grades, res.crit)]
  /\ written' = ~ (HasPrior /\ gfail)
  /\ report' = IF written' THEN res' ELSE report
  /\ outcome' = IF interrupt = "cancel" \/ (interrupt = "none" /\ exc = "cancel")
                  THEN "cancelled"
                ELSE IF interrupt = "error" THEN "raised"
                ELSE IF HasPrior /\ gfail THEN "grading" ELSE "returned"
  /\ pc' = "done"
  /\ UNCHANGED <<runVars, gfail, complete, success, exc, interrupt, watchVars,
                 talkVars, command>>

-----------------------------------------------------------------------------
(* The timer thread and the loop's callbacks. *)

Running == pc \notin {"idle", "done"}

TimerFires ==
  /\ Running /\ timer \in {"armed", "late"}
  /\ timer' = "firing"
  /\ UNCHANGED <<runVars, pc, resultVars, flowVars, cancel, interrupts, talkVars, tearVars>>

\* on_timeout: kill_sync on the agent, which ends a turn in flight.
TimerKills ==
  /\ Running /\ timer = "firing"
  /\ timer' = "killed"
  /\ agent' = [agent EXCEPT !.killed = (pc = "talk")]
  /\ UNCHANGED <<runVars, pc, resultVars, flowVars, cancel, interrupts, attempt,
                 returned, captured, tearVars>>

TimerPosts ==
  /\ Running /\ timer = "killed"
  /\ timer' = "posted"
  /\ UNCHANGED <<runVars, pc, resultVars, flowVars, cancel, interrupts, talkVars, tearVars>>

\* Mutant: the callback finds no task to cancel.
LoopForgets ==
  /\ Suspended /\ timer = "posted"
  /\ timer' = "done"
  /\ UNCHANGED <<runVars, pc, resultVars, flowVars, cancel, interrupts, talkVars, tearVars>>

LoopCancels ==
  /\ Suspended /\ timer = "posted"
  /\ timer' = "done"
  /\ cancel' = TRUE
  /\ UNCHANGED <<runVars, pc, resultVars, flowVars, interrupts, talkVars, tearVars>>

Interrupt ==
  /\ Suspended /\ ~ cancel /\ interrupts < MaxInterrupts
  /\ cancel' = TRUE
  /\ interrupts' = interrupts + 1
  /\ UNCHANGED <<runVars, pc, resultVars, flowVars, timer, talkVars, tearVars>>

-----------------------------------------------------------------------------
Thread == TimerFires \/ TimerKills \/ TimerPosts \/ LoopCancels

SetUp == SetupSandbox \/ SetupFails \/ StartAgent \/ StartAgentFails
           \/ PreRun \/ PreRunFails \/ SetupCancelled

Talk ==
  \/ OpenWindow \/ WindowRefused \/ TurnReturns
  \/ \E e \in {"crash", "turnTimeout"}, parked, retry \in BOOLEAN : TurnFails(e, parked, retry)
  \/ \E parked \in BOOLEAN : TurnCancelled(parked)
  \/ TurnSwallowsCancel \/ BackoffElapses \/ BackoffCancelled
  \/ CloseWindow \/ WindowCancelled

Judge ==
  \/ \E v \in Vectors : Grade(v)
  \/ \E e \in {"grading", "error"}, v \in Vectors : GradeFails(e, v)
  \/ GradeCancelled \/ DiagChecked \/ DiagFails \/ DiagCancelled

End == LeaveWatch \/ Verdict \/ PostRun \/ PostRunRaises \/ PostRunCancelled
         \/ StopAgent \/ CleanupCancelled \/ Finalize

Step == SetUp \/ Talk \/ Judge \/ End \/ Thread \/ Interrupt

\* A single run, on its own.
Start(m, p) ==
  /\ Begin(m, p)
  /\ report' = IF m = "regrade" THEN p ELSE NoRow

Finished == pc = "done" /\ UNCHANGED vars

Next ==
  \/ \E m \in Modes \cap {"run", "execute", "bare"} : Start(m, NoRow)
  \/ \E m \in Modes \cap {"regrade", "copy"}, p \in Priors : Start(m, p)
  \/ Step
  \/ Finished

Spec == Init /\ [][Next]_vars

(* Fairness: the loop runs what is ready, the timer thread is scheduled,   *)
(* and every await of the harness itself comes back.  An agent's turn and  *)
(* a checker may hang for ever; a turn whose process was killed ends.      *)
TurnEnds ==
  \/ TurnReturns
  \/ \E e \in {"crash", "turnTimeout"}, parked, retry \in BOOLEAN : TurnFails(e, parked, retry)
Fairness ==
  /\ WF_vars(\E m \in Modes, p \in Priors \cup {NoRow} : Start(m, p))
  /\ WF_vars(SetUp) /\ WF_vars(End) /\ WF_vars(Thread)
  /\ WF_vars(OpenWindow \/ BackoffElapses \/ CloseWindow)
  /\ WF_vars(agent.killed /\ TurnEnds)
  /\ WF_vars(\E parked \in BOOLEAN : TurnCancelled(parked))
  /\ WF_vars(BackoffCancelled \/ WindowCancelled \/ GradeCancelled \/ DiagCancelled)
FairSpec == Spec /\ Fairness

-----------------------------------------------------------------------------
(* Properties. *)

Labels == {"idle", "setup", "start", "prerun", "window", "talk", "backoff",
           "unwind", "grade", "diag", "leave", "verdict", "postrun", "stop",
           "clean", "done"}
Exceptions == {"none", "cancel", "timeout", "crash", "turnTimeout", "error",
               "grading", "budget"}

RunTyped ==
  /\ mode \in {"run", "execute", "regrade", "copy", "bare"}
  /\ prior \in Row
ResultTyped ==
  /\ res \in Row /\ report \in Row
  /\ written \in BOOLEAN /\ gfail \in BOOLEAN /\ complete \in BOOLEAN
  /\ success \in BOOLEAN
FlowTyped ==
  /\ pc \in Labels /\ exc \in Exceptions
  /\ interrupt \in {"none", "cancel", "error"}
  /\ outcome \in {"none", "returned", "cancelled", "raised", "grading"}
WatchTyped ==
  /\ timer \in {"off", "armed", "late", "firing", "killed", "posted", "done"}
  /\ cancel \in BOOLEAN /\ interrupts \in Nat
TalkTyped ==
  /\ agent \in Agents /\ attempt \in Nat
  /\ returned \in Turn /\ captured \in Seq(Turn)
TearTyped == command \in Nat /\ sandbox \in {"none", "live", "cleaned"}

\* Every variable stays in its domain (all of Orchestrator.run).
TypeOK ==
  /\ RunTyped /\ ResultTyped /\ FlowTyped /\ WatchTyped /\ TalkTyped /\ TearTyped

\* A persisted verdict rests on a criteria vector, and SUCCESS on one that
\* passed the gate of the run it judges (_terminal_status, _select_gate; the
\* enum calls FAILURE "criteria checked, did not pass").
VerdictBacked ==
  pc = "done" /\ written /\ report.status \in {"SUCCESS", "FAILURE", "MAX_TURNS_EXHAUSTED"}
    => /\ report.crit # "none"
       /\ report.status = "SUCCESS" <=> GatePassed(report.early, report.crit)

\* The persisted trajectory is the prior one followed by every record the
\* agent produced, each once and in order, whichever of the retry hook, the
\* happy path and _drain_killed_turn recovered it.
TurnsAccounted ==
  pc = "done" /\ written => report.turns = prior.turns \o captured

\* A retried turn keeps its iteration number, also when the partial record
\* of the failed one could not be built (discard_pending_turn).
IterationStable ==
  /\ pc = "talk" => agent.iteration = 1
  /\ pc = "backoff" => agent.iteration = 0

\* Within a run nothing downgrades an execution failure once recorded: not a
\* grading error, a diagnostics failure, nor the handlers that run later.
FactKept ==
  [][Running /\ HasExecutionFailure(res) => HasExecutionFailure(res')]_vars

\* A re-grade hands on the execution fact of the row it grades unchanged.
InheritedFactKept ==
  pc = "done" /\ written /\ Inherited => report.status = prior.status

\* A deadline that fired before the verdict excludes every graded status.
DeadlineHolds ==
  [][pc = "verdict" /\ pc' # "verdict" /\ Fired /\ exc # "cancel"
       => res'.status \in ExecutionFacts]_vars

\* An agent failure under a grading command leaves a diagnostics vector, and
\* never a scored one (_run_evaluation_with_failure_evidence).
DiagnosticsKept ==
  pc = "done" /\ written /\ mode = "run" /\ exc \in {"crash", "turnTimeout"}
    => report.diag # "none" /\ report.crit = "none" /\ report.status = "ERROR"

\* A run nobody cancelled ends torn down: its row on disk unless it is a
\* re-grade that failed, its agent stopped, its sandbox released (run()'s
\* finally, which calls itself interrupt-proof).
TornDown ==
  pc = "done" /\ interrupts = 0 =>
    /\ written \/ (HasPrior /\ gfail)
    /\ agent.state \in {"none", "stopped"}
    /\ Adopted \/ sandbox # "live"

\* A cancellation from outside is never absorbed: run() does not return.
CancellationSeen ==
  pc = "done" /\ interrupts > 0 /\ ~ TaskTimeout => outcome \in {"cancelled", "raised"}

\* With a task_timeout a started run ends, however the agent or a checker
\* hangs; only an SDK that absorbs the one cancellation of the deadline keeps
\* it (TimeoutWatchdog: kill, then cancel).
CancellationSpent == pc \in {"talk", "backoff"} /\ timer = "done" /\ ~ cancel
Terminates == pc = "talk" ~> (pc = "done" \/ CancellationSpent)

\* The row that a run leaves tells what happened in it: a verdict with its
\* vector, every turn once, the diagnostics of an agent failure, and the
\* execution fact of the row it grades.
RowTold == VerdictBacked /\ TurnsAccounted /\ DiagnosticsKept /\ InheritedFactKept
=============================================================================
