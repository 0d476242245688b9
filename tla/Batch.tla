-------------------------------- MODULE Batch --------------------------------
(***************************************************************************)
(* A run directory that holds several tasks, under a sequence of commands: *)
(* `run' and `execute', fresh or with --resume, `evaluate' on one row and  *)
(* `report --rebuild'.  A command partitions the rows it finds, clears     *)
(* what it will run again, grades what is only executed, runs the rest     *)
(* under a semaphore, and writes run.json.  One task raises, is cancelled  *)
(* or leaves nothing while its siblings run; the process is interrupted or *)
(* killed at any step.                                                     *)
(*                                                                         *)
(* A row is reduced to its category, whether it is scored, whether the     *)
(* agent started, and which executions it stands for: the one that wrote   *)
(* it, and those whose files the grade could see.                          *)
(***************************************************************************)
EXTENDS Naturals, FiniteSets

CONSTANTS
  Tasks,        \* the resolved tasks
  Docker,       \* those with sandbox.driver: docker (DIRECT_WRITE: files appear as the agent writes them)
  Setups,       \* [loose: tasks that ask for llm_only without a container, empty: tasks with no
                \* success_criteria, slots: max_parallel]
  MaxCommands,  \* bound: commands on the directory
  MaxKills,     \* bound: interrupts and killed processes
  MaxFaults     \* bound: crashes, stray cancellations, refused clean-ups

ASSUME BatchAssumption ==
  /\ IsFiniteSet(Tasks) /\ Docker \subseteq Tasks
  /\ Setups \subseteq [loose : SUBSET (Tasks \ Docker), empty : SUBSET Tasks, slots : Nat \ {0}]
  /\ MaxCommands \in Nat /\ MaxKills \in Nat /\ MaxFaults \in Nat

VARIABLES
  setup,    \* the configuration of the batch
  row,      \* <task>/task.json
  files,    \* the executions that left files in the task's artifacts directory
  agents,   \* executions of the task's agent so far
  orphans,  \* containers that outlive a killed host
  cmd,      \* the command: [kind, grade, phase, exit]
  place,    \* where the command has each task
  res,      \* the command's TaskResult of each task
  summary,  \* run.json: the result of each task it lists
  env,      \* the bounds used up
  mixed     \* history variable: tasks whose directory was reused, or could not be cleared

disk == <<row, files, agents, orphans, mixed>>
vars == <<setup, disk, cmd, place, res, summary, env>>

Categories == {"absent", "succeeded", "failed", "error", "ungraded"}   \* FinalStatus.category

Row == [cat : Categories, scored : BOOLEAN, started : BOOLEAN,
        grading : BOOLEAN,                     \* error_phase = "grading"
        broke : BOOLEAN,                       \* has_execution_failure
        agent : Nat, seen : SUBSET Nat]

NoRow == [cat |-> "absent", scored |-> FALSE, started |-> FALSE, grading |-> FALSE,
          broke |-> FALSE, agent |-> 0, seen |-> {}]

\* _create_error_task_result: it lives in memory only.
ErrorResult == [NoRow EXCEPT !.cat = "error", !.broke = TRUE]

\* A result and whether it is the task's row.
OnDisk(r) == [row |-> r, disk |-> TRUE]
InMemory  == [row |-> ErrorResult, disk |-> FALSE]
NoResult  == [row |-> NoRow, disk |-> FALSE]

Phases == {"idle", "clear", "grade", "run", "dying", "refresh"}
Places == {"out", "clear", "grade", "queue", "publish", "save", "done"}

\* A list of results, of some of the tasks.
Listing(s) == \E S \in SUBSET Tasks : s \in [S -> [row : Row, disk : BOOLEAN]]

TypeOK ==
  /\ setup \in Setups
  /\ row \in [Tasks -> Row]
  /\ agents \in [Tasks -> Nat] /\ files \in [Tasks -> SUBSET Nat]
  /\ orphans \subseteq Docker /\ mixed \subseteq Tasks
  /\ cmd \in [kind : {"none", "fresh", "resume", "evaluate", "rebuild"}, grade : BOOLEAN,
              phase : Phases, exit : {"none", "ok", "failed", "refused", "killed"}]
  /\ place \in [Tasks -> Places]
  /\ res \in [Tasks -> [row : Row, disk : BOOLEAN]]
  /\ Listing(summary)
  /\ env \in [commands : 0..MaxCommands, kills : 0..MaxKills, faults : 0..MaxFaults]

Init ==
  /\ setup \in Setups
  /\ row = [t \in Tasks |-> NoRow]
  /\ files = [t \in Tasks |-> {}] /\ agents = [t \in Tasks |-> 0]
  /\ orphans = {} /\ mixed = {}
  /\ cmd = [kind |-> "none", grade |-> FALSE, phase |-> "idle", exit |-> "none"]
  /\ place = [t \in Tasks |-> "out"] /\ res = [t \in Tasks |-> NoResult]
  /\ summary = << >>
  /\ env = [commands |-> 0, kills |-> 0, faults |-> 0]

\* The command is over; what it held in memory is gone.
Over(exit) ==
  /\ cmd' = [cmd EXCEPT !.phase = "idle", !.exit = exit]
  /\ place' = [t \in Tasks |-> "out"] /\ res' = [t \in Tasks |-> NoResult]

In(p)    == cmd.phase = p
Enter(p) == cmd' = [cmd EXCEPT !.phase = p]
Fault    == env.faults < MaxFaults /\ env' = [env EXCEPT !.faults = @ + 1]
None(ps) == \A t \in Tasks : place[t] \notin ps
Put(t, p, r) == place' = [place EXCEPT ![t] = p] /\ res' = [res EXCEPT ![t] = r]

-----------------------------------------------------------------------------
(* Partition.                                                              *)

\* _owes_a_grade
OwesAGrade(r) == r.grading \/ (~ r.scored /\ (r.cat = "ungraded" \/ r.started))

\* Mutant: what has no score is run again.
PartitionByScore(r, grade) == IF ~ r.scored THEN "clear" ELSE "done"

\* partition_for_resume: where a resumed command puts a task.
Partition(r, grade) ==
  IF r = NoRow THEN "clear" ELSE IF grade /\ OwesAGrade(r) THEN "grade" ELSE "done"

\* One command at a time.  A container that outlives a killed host goes on
\* writing to the directory; the next command is started after it has ended.
Command(kind, grade, phase) ==
  /\ In("idle") /\ env.commands < MaxCommands /\ orphans = {}
  /\ env' = [env EXCEPT !.commands = @ + 1]
  /\ cmd' = [kind |-> kind, grade |-> grade, phase |-> phase, exit |-> "none"]

\* A command without --resume runs every task, over whatever is there.
Fresh(grade) ==
  /\ Command("fresh", grade, "grade")
  /\ place' = [t \in Tasks |-> "queue"] /\ res' = [t \in Tasks |-> NoResult]
  /\ mixed' = mixed \cup {t \in Tasks : row[t] # NoRow \/ files[t] # {}}
  /\ UNCHANGED <<setup, row, files, agents, orphans, summary>>

Resume(grade) ==
  /\ Command("resume", grade, "clear")
  /\ place' = [t \in Tasks |-> Partition(row[t], grade)]
  /\ res' = [t \in Tasks |-> IF place'[t] = "done" THEN OnDisk(row[t]) ELSE NoResult]
  /\ UNCHANGED <<setup, disk, summary>>

\* Mutant: what an earlier run left stays.
NotCleared(t) == files[t]

\* clear_rerun_artifacts: what lies there is of a run that never finished.
Cleared(t) == {}

\* rmtree(ignore_errors=True): files of another owner stay, silently.
ClearRerunArtifacts(t) ==
  /\ In("clear") /\ place[t] = "clear"
  /\ place' = [place EXCEPT ![t] = "queue"]
  /\ \/ files' = [files EXCEPT ![t] = Cleared(t)] /\ UNCHANGED <<env, mixed>>
     \/ files[t] # {} /\ Fault /\ mixed' = mixed \cup {t} /\ UNCHANGED files
  /\ UNCHANGED <<setup, row, agents, orphans, cmd, res, summary>>

\* _reject_empty_criteria_under_grade, for the tasks in place p.
Empty(p) == cmd.grade /\ \E t \in setup.empty : place[t] = p

Refuse(phase, p) ==
  /\ In(phase) /\ Empty(p)
  /\ Over("refused")
  /\ UNCHANGED <<setup, disk, summary, env>>

Proceed(from, left, to, p) ==
  /\ In(from) /\ None(left) /\ ~ Empty(p)
  /\ Enter(to)
  /\ UNCHANGED <<setup, disk, place, res, summary, env>>

-----------------------------------------------------------------------------
(* Grading what is only executed, one row after the other.                 *)

\* What a re-grade makes of a row: an execution failure stays, with a score.
Graded(r, verdict, seen) ==
  [r EXCEPT !.cat = IF r.broke THEN @ ELSE verdict, !.scored = TRUE, !.grading = FALSE, !.seen = seen]

\* Mutant: a row that could not be graded is left out.
UngradedLeftOut(t) == NoResult

\* The row as it was read: a row that cannot be graded stays in run.json.
Ungraded(t) == OnDisk(row[t])

\* _grade_resumed_tasks, one task: graded; a grading error, recorded as an
\* incident of an unchanged row; refused before grading, always so when the
\* workspace is gone.
GradeResumedTask(t) ==
  /\ In("grade") /\ place[t] = "grade"
  /\ \/ /\ files[t] # {}
        /\ \E v \in {"succeeded", "failed"} :
             row' = [row EXCEPT ![t] = Graded(@, v, files[t])] /\ Put(t, "done", OnDisk(row'[t]))
        /\ UNCHANGED env
     \/ Put(t, "done", Ungraded(t)) /\ UNCHANGED row /\ IF files[t] = {} THEN UNCHANGED env ELSE Fault
  /\ UNCHANGED <<setup, files, agents, orphans, cmd, summary, mixed>>

-----------------------------------------------------------------------------
(* run_batch.                                                              *)

\* Mutant: a task that raised keeps its slot.
ActiveOrRaised ==
  {t \in Tasks : place[t] \in {"publish", "save"} \/ res[t] = InMemory}

\* The tasks that hold a slot of the semaphore.
Active == {t \in Tasks : place[t] \in {"publish", "save"}}

\* The semaphore lets the task in; its agent starts.
StartTask(t) ==
  /\ In("run") /\ place[t] = "queue" /\ t \notin setup.loose
  /\ Cardinality(Active) < setup.slots
  /\ agents' = [agents EXCEPT ![t] = @ + 1]
  /\ files' = IF t \in Docker THEN [files EXCEPT ![t] = @ \cup {agents'[t]}] ELSE files
  /\ place' = [place EXCEPT ![t] = IF t \in Docker THEN "save" ELSE "publish"]
  /\ UNCHANGED <<setup, row, orphans, cmd, res, summary, env, mixed>>

\* llm_only without a container is refused inside the slot.
RefuseUnconfined(t) ==
  /\ In("run") /\ place[t] = "queue" /\ t \in setup.loose
  /\ Cardinality(Active) < setup.slots
  /\ Put(t, "done", InMemory)
  /\ UNCHANGED <<setup, disk, cmd, summary, env>>

\* Sandbox.cleanup: a sandbox outside the run directory is moved there.
Publish(t) ==
  /\ place[t] = "publish" /\ (In("run") \/ In("dying"))
  /\ files' = [files EXCEPT ![t] = {agents[t]}]
  /\ place' = [place EXCEPT ![t] = "save"]
  /\ UNCHANGED <<setup, row, agents, orphans, cmd, res, summary, env, mixed>>

Executed(t) == [NoRow EXCEPT !.started = TRUE, !.agent = agents[t]]

\* A sandbox of its own holds the files of this execution only.
Visible(t) == IF t \in Docker THEN files[t] ELSE {agents[t]}

\* The rows a run of the task finalizes: graded, broken off, or its grading failed.
Finalized(t, grade) ==
  LET r == IF grade THEN [Executed(t) EXCEPT !.scored = TRUE, !.seen = Visible(t)] ELSE Executed(t)
  IN  {[r EXCEPT !.cat = "error", !.broke = TRUE]}
      \cup IF grade THEN {[r EXCEPT !.cat = "succeeded"], [r EXCEPT !.cat = "failed"],
                          [r EXCEPT !.cat = "error", !.grading = TRUE]}
           ELSE {[r EXCEPT !.cat = "ungraded"]}

\* The row is saved; a cancellation of nobody's asking may still escape the
\* task afterwards, and what gather() then returns is no result.
SaveRow(t) ==
  /\ In("run") /\ place[t] = "save"
  /\ \E r \in Finalized(t, cmd.grade) :
       /\ row' = [row EXCEPT ![t] = r]
       /\ \/ Put(t, "done", OnDisk(r)) /\ UNCHANGED env
          \/ Put(t, "done", InMemory) /\ Fault
  /\ UNCHANGED <<setup, files, agents, orphans, cmd, summary, mixed>>

\* Mutant: the exception of a task takes its result with it.
FailedTaskLost == NoResult

\* What run_batch makes of a task that raised.
FailedTask == InMemory

\* An Exception that no orchestrator finalized.
TaskRaises(t) ==
  /\ In("run") /\ t \in Active /\ Fault
  /\ Put(t, "done", FailedTask)
  /\ UNCHANGED <<setup, disk, cmd, summary>>

\* The image cannot be built, or the container leaves nothing: a synthetic
\* row, where there is none.
ContainerFails(t) ==
  /\ In("run") /\ t \in Active \cap Docker /\ Fault
  /\ row' = [row EXCEPT ![t] = IF @ = NoRow THEN [ErrorResult EXCEPT !.agent = agents[t]] ELSE @]
  /\ Put(t, "done", FailedTask)
  /\ UNCHANGED <<setup, files, agents, orphans, cmd, summary, mixed>>

\* The exit code: failures, errors, and under run a row without a grade.
Exit(grade) ==
  LET listed == {res[t].row.cat : t \in {u \in Tasks : res[u] # NoResult}}
  IN  IF listed \cap {"failed", "error"} # {} \/ (grade /\ "ungraded" \in listed) THEN "failed" ELSE "ok"

\* build_run_summary over prior and new results, write_run_summary.
Summarize ==
  /\ In("run") /\ None({"queue", "publish", "save"})
  /\ summary' = [t \in {u \in Tasks : res[u] # NoResult} |-> res[t]]
  /\ Over(Exit(cmd.grade))
  /\ UNCHANGED <<setup, disk, env>>

-----------------------------------------------------------------------------
(* The other commands.                                                     *)

\* evaluate <task dir>: _write_back of a verdict.
Evaluate(t) ==
  /\ row[t] # NoRow /\ files[t] # {} /\ t \notin setup.empty
  /\ Command("evaluate", TRUE, "refresh")
  /\ \E v \in {"succeeded", "failed"} : row' = [row EXCEPT ![t] = Graded(@, v, files[t])]
  /\ UNCHANGED <<setup, files, agents, orphans, place, res, summary, mixed>>

\* report --rebuild: refused where there is no row.
Rebuild ==
  /\ Command("rebuild", FALSE, "refresh") /\ \E t \in Tasks : row[t] # NoRow
  /\ UNCHANGED <<setup, disk, place, res, summary>>

\* Mutant: the tasks that run.json lists are refreshed.
RecoveredListed == [t \in {u \in DOMAIN summary : row[u] # NoRow} |-> OnDisk(row[t])]

\* recover_task_results
Recovered == [t \in {u \in Tasks : row[u] # NoRow} |-> OnDisk(row[t])]

\* rebuild_run_summary; evaluate does so only where a run.json is.
Refresh ==
  /\ In("refresh")
  /\ summary' = IF cmd.kind = "evaluate" /\ summary = << >> THEN summary ELSE Recovered
  /\ Over("ok")
  /\ UNCHANGED <<setup, disk, env>>

-----------------------------------------------------------------------------
(* Interrupts and kills.                                                   *)

Busy == ~ In("idle")
Cut  == Busy /\ env.kills < MaxKills /\ env' = [env EXCEPT !.kills = @ + 1]

\* A cancelled pass keeps the status it began with, FAILURE, and where it
\* grades a score of 0.0.
Cancelled(r) ==
  [r EXCEPT !.cat = "failed", !.broke = FALSE, !.grading = FALSE, !.scored = cmd.grade, !.seen = {}]

\* Ctrl-C cancels every task; those in a slot still tear down and finalize.
\* So does the grade in place it hits, unless that was yet to begin.
Interrupt ==
  /\ Cut /\ cmd.phase \in {"grade", "run"}
  /\ Enter("dying")
  /\ \/ UNCHANGED row
     \/ \E t \in Tasks \ Docker :
          place[t] = "grade" /\ files[t] # {} /\ row' = [row EXCEPT ![t] = Cancelled(@)]
  /\ UNCHANGED <<setup, files, agents, orphans, place, res, summary, mixed>>

\* The host stops a cancelled container, which then leaves no row.
FinalizeCancelled(t) ==
  /\ In("dying") /\ place[t] = "save"
  /\ row' = IF t \in Docker THEN row ELSE [row EXCEPT ![t] = Cancelled(Executed(t))]
  /\ place' = [place EXCEPT ![t] = "out"]
  /\ UNCHANGED <<setup, files, agents, orphans, cmd, res, summary, env, mixed>>

Die ==
  /\ In("dying") /\ Active = {}
  /\ Over("killed")
  /\ UNCHANGED <<setup, disk, summary, env>>

\* SIGKILL: rows and run.json are replaced atomically, so the old ones stay.
Kill ==
  /\ Cut
  /\ Over("killed")
  /\ orphans' = Active \cap Docker
  /\ UNCHANGED <<setup, row, files, agents, summary, mixed>>

\* A container notices that its host is gone, or finalizes the row first.
OrphanEnds(t) ==
  /\ t \in orphans
  /\ orphans' = orphans \ {t}
  /\ row' \in {row} \cup {[row EXCEPT ![t] = r] : r \in Finalized(t, cmd.grade)}
  /\ UNCHANGED <<setup, files, agents, cmd, place, res, summary, env, mixed>>

-----------------------------------------------------------------------------
\* The work of the command at hand.
Work ==
  \/ \E t \in Tasks :
       \/ ClearRerunArtifacts(t) \/ GradeResumedTask(t) \/ StartTask(t) \/ RefuseUnconfined(t)
       \/ Publish(t) \/ SaveRow(t) \/ TaskRaises(t) \/ ContainerFails(t) \/ FinalizeCancelled(t)
  \/ (None({"clear"}) /\ Refuse("clear", "grade")) \/ (None({"grade"}) /\ Refuse("grade", "queue"))
  \/ Proceed("clear", {"clear"}, "grade", "grade") \/ Proceed("grade", {"grade"}, "run", "queue")
  \/ Summarize \/ Refresh \/ Die

Next ==
  \/ \E g \in BOOLEAN : Fresh(g) \/ Resume(g)
  \/ \E t \in Tasks : Evaluate(t)
  \/ Rebuild \/ Work \/ Interrupt \/ Kill
  \/ \E t \in Tasks : OrphanEnds(t)

\* Every run of a task ends (TaskRun, Container), and asyncio resumes it.
Spec == Init /\ [][Next]_vars /\ WF_vars(Work)

-----------------------------------------------------------------------------
(* Properties.                                                             *)

\* run.json is true of the run: once a command has come back, it lists every
\* task the command resolved, an entry is the row on disk or the error that
\* only the command knew, and exit code 0 of `run' means that every task was
\* graded and succeeded, those of earlier commands included (run_batch folds
\* raised results and prior results in; "one bad row neither aborts the
\* resume nor vanishes from run.json").
SummaryTrue ==
  TypeOK /\ (In("idle") /\ cmd.exit \in {"ok", "failed"} =>
    /\ cmd.kind \in {"fresh", "resume"} => DOMAIN summary = Tasks
    /\ cmd.kind = "rebuild" => \A t \in Tasks : row[t] # NoRow => t \in DOMAIN summary
    /\ \A t \in DOMAIN summary : summary[t].disk => summary[t].row = row[t] /\ row[t] # NoRow
    /\ cmd.kind \in {"fresh", "resume"} /\ cmd.grade /\ cmd.exit = "ok" =>
         \A t \in Tasks : row[t].cat = "succeeded" /\ row[t].scored)

\* A score is computed on the files of the execution it is the score of, as
\* long as no command ran over the directory without --resume and every
\* clean-up succeeded: leftovers of a killed run satisfy no criterion of the
\* next one (clear_rerun_artifacts; MOVE_ON_WRITE).
ScoresOwnFiles ==
  \A t \in Tasks \ mixed : row[t].scored => row[t].seen \subseteq {row[t].agent}

\* --resume executes no agent whose run was finalized, and touches no row that
\* has a grade: what was paid for is not paid for again (partition_for_resume).
NothingPaidTwice ==
  [][Busy /\ cmd.kind = "resume" =>
       \A t \in Tasks :
         /\ agents'[t] # agents[t] => row[t] = NoRow
         /\ row'[t] # row[t] => ~ row[t].scored \/ row[t].grading]_vars

\* Every command ends, whichever of its tasks fail: a failing task gives its
\* slot back and its siblings go on.
BatchEnds == Busy ~> ~ Busy

\* What a run directory says between commands: run.json agrees with the rows,
\* and every score with the files of its own execution.
DirectoryTrue == SummaryTrue /\ ScoresOwnFiles
=============================================================================
