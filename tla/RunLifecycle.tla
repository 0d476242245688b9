---------------------------- MODULE RunLifecycle ----------------------------
(***************************************************************************)
(* A task's run directory under a sequence of commands.  `run' and         *)
(* `execute' (also with --resume, when the row is missing) execute the     *)
(* task; `run --resume' grades in place a row that owes a grade;           *)
(* `evaluate' grades into a directory of its own and writes the verdict    *)
(* back.  Each of them drives one Orchestrator.run(), the steps of         *)
(* TaskRun; the process may be killed at any of them.                      *)
(***************************************************************************)
EXTENDS TaskRun

CONSTANTS
  MaxCommands,   \* bound: commands that work on the directory
  MaxKills       \* bound: processes killed

ASSUME LifecycleAssumption == MaxCommands \in Nat /\ MaxKills \in Nat

VARIABLES
  row,        \* <run_dir>/task.json
  backup,     \* <run_dir>/task.execute.json
  how,        \* the command at work
  commands,
  kills,
  first,      \* history variable: the row the execution wrote
  postRan     \* history variable: post_run commands that were run

dirVars == <<row, backup, how, commands, kills, first, postRan>>
allVars == <<vars, dirVars>>

InitDir ==
  /\ Init
  /\ row = NoRow /\ backup = NoRow /\ how = "none" /\ commands = 0
  /\ kills = 0 /\ first = NoRow /\ postRan = 0

InPlace == how # "evaluate"

\* Mutant: every pass backs up.
BackedUpAgain(b, r) == r

\* back_up_pre_grade_record: once, before anything grades.
BackedUp(b, r) == IF b = NoRow THEN r ELSE b

\* write_grading_incident
WithIncident(r) == [r EXCEPT !.history = @ + 1]

Command(c) ==
  /\ pc = "idle" /\ commands < MaxCommands
  /\ commands' = commands + 1
  /\ how' = c

\* partition_for_resume: only a missing row is executed (again).
Execute(m) ==
  /\ Command(m) /\ row = NoRow
  /\ Begin(m, NoRow)
  /\ report' = NoRow
  /\ UNCHANGED <<row, backup, kills, first, postRan>>

Resume ==
  /\ Command("resume") /\ row # NoRow /\ OwesAGrade(row)
  /\ Begin("regrade", row)
  /\ report' = row
  /\ backup' = BackedUp(backup, row)
  /\ UNCHANGED <<row, kills, first, postRan>>

Evaluate(m) ==
  /\ Command("evaluate") /\ row # NoRow
  /\ Begin(m, row)
  /\ report' = NoRow
  /\ backup' = BackedUp(backup, row)
  /\ UNCHANGED <<row, kills, first, postRan>>

\* The workspace cannot be adopted or copied: a grading error before there
\* is an orchestrator.
WorkspaceRefused ==
  /\ \/ Command("resume") /\ OwesAGrade(row)
     \/ Command("evaluate")
  /\ row # NoRow
  /\ backup' = BackedUp(backup, row)
  /\ row' = WithIncident(row)
  /\ UNCHANGED <<vars, kills, first, postRan>>

Work ==
  /\ Step
  /\ row' = IF InPlace THEN report' ELSE row
  /\ first' = IF first = NoRow THEN row' ELSE first
  /\ postRan' = IF pc = "postrun" /\ command' > command THEN postRan + 1 ELSE postRan
  /\ UNCHANGED <<backup, how, commands, kills>>

\* What evaluate makes of the row it computed: _report_and_exit.  An
\* execution failure of the pass itself goes back at once; otherwise a
\* criteria vector of the wrong length stops it.
WriteBack ==
  IF HasExecutionFailure(res) /\ ~ Inherited THEN res
  ELSE IF res.crit = "none" THEN row
  ELSE res

Settle ==
  /\ pc = "done"
  /\ pc' = "idle"
  /\ row' = IF outcome = "grading" THEN WithIncident(prior)
            ELSE IF how = "evaluate" /\ outcome = "returned" THEN WriteBack
            ELSE row
  /\ UNCHANGED <<runVars, resultVars, flowVars, watchVars, talkVars, tearVars,
                 backup, how, commands, kills, first, postRan>>

\* task.json is replaced atomically, so a killed process leaves the old one.
Kill ==
  /\ pc # "idle" /\ kills < MaxKills
  /\ kills' = kills + 1
  /\ pc' = "idle"
  /\ UNCHANGED <<runVars, resultVars, flowVars, watchVars, talkVars, tearVars,
                 row, backup, how, commands, first, postRan>>

Idle == pc = "idle" /\ commands = MaxCommands /\ UNCHANGED allVars

NextDir ==
  \/ \E m \in Modes \cap {"run", "execute"} : Execute(m)
  \/ Resume
  \/ \E m \in Modes \cap {"regrade", "copy"} : Evaluate(m)
  \/ WorkspaceRefused \/ Work \/ Settle \/ Kill \/ Idle

SpecDir == InitDir /\ [][NextDir]_allVars

-----------------------------------------------------------------------------
(* What the row promises: RowLedger. *)

Stage ==
  CASE row = NoRow -> "absent"
    [] HasExecutionFailure(row) -> "failed"
    [] GradingError(row) -> "errored"
    [] row.status = "NOT_GRADED" -> "ungraded"
    [] OTHER -> "graded"

Ledger == INSTANCE RowLedger WITH
  Turns     <- Turn,
  Failures  <- ExecutionFacts,
  stage     <- Stage,
  fact      <- IF Stage = "failed" THEN row.status ELSE "none",
  turns     <- row.turns,
  incidents <- row.history + (IF Stage = "errored" THEN 1 ELSE 0)

\* Whatever commands work on a run directory, and wherever they are killed,
\* its row keeps to RowLedger: one trajectory, execution failures final, a
\* failed grading pass adding exactly one incident and nothing else, a
\* grading error moved to the history when a later pass grades the row.
LedgerKept == Ledger!Spec

\* A row with a criteria vector and no error carries the verdict of the gate
\* its execution calls for, whichever of run, execute + evaluate and --resume
\* graded it: the early stop and the turn cap survive every re-grade.
GradedByRule ==
  row.crit # "none" /\ row.status \notin ExecutionFacts =>
    row.status = (IF GatePassed(first.early, row.crit) THEN "SUCCESS"
                  ELSE IF first.maxTurns THEN "MAX_TURNS_EXHAUSTED"
                  ELSE "FAILURE")

\* task.execute.json is the row the execution wrote, never a graded one that
\* a later pass found (back_up_pre_grade_record, "Written once").
BackupIsFirst == backup # NoRow => backup = first

\* A grading resume that went through leaves nothing to grade: the next
\* --resume does not pay for the same row again (_owes_a_grade).
ResumeSettles ==
  pc = "done" /\ how = "resume" /\ outcome = "returned" => ~ OwesAGrade(row)

\* Once the row records post_run results no later pass runs the commands
\* again, and every later row still says so (_skip_post_run).
PostRunNotRepeated ==
  [][row.post > 0 => postRan' = postRan /\ row'.post = row.post]_allVars

\* "each command runs exactly once, in the grading phase" (_skip_post_run).
\* No run: the code does not keep it (README).
PostRunOnce == postRan <= NPostRun

\* A pass that graded nothing leaves the verdict of the row alone.
FailedGradeKeepsVerdict ==
  [][row # NoRow /\ row' # row /\ row'.crit = "none" => row'.status = row.status]_allVars

\* Between commands the directory stays what the next one takes it for: the
\* row is graded by one rule, the backup is the execution's row, and a resume
\* that went through leaves nothing to grade.
DirectoryKept == GradedByRule /\ BackupIsFirst /\ ResumeSettles

\* No pass undoes what the row says: its post_run commands do not run again,
\* and a pass that graded nothing leaves its verdict.
PassesRespectRow == PostRunNotRepeated /\ FailedGradeKeepsVerdict
=============================================================================
