------------------------------- MODULE GradePass -------------------------------
(***************************************************************************)
(* Grading passes over one row that was executed before: `evaluate' on the *)
(* run directory, in place or on a copy, and `run --resume'; on the host,  *)
(* or in a container of the task's image.  A pass looks for the workspace, *)
(* checks that the answer key is the one of the run, keeps the record it   *)
(* found, stages the key, lets Checker grade, and writes the verdict to    *)
(* the row and to run.json.  The key may be edited at any time; a step may *)
(* fail, the pass may be cancelled.                                        *)
(*                                                                         *)
(* A record is reduced to the pass that graded it (0: none did), the       *)
(* version of the key it was graded with, the version it names, and where  *)
(* it was graded and claims to have been.                                  *)
(***************************************************************************)
EXTENDS Checker

CONSTANTS
  Docker,      \* sandbox.driver: docker
  Passes,      \* the options of the passes that may be started
  MaxPasses,   \* bound: passes over the row
  MaxEdits,    \* bound: edits of the reference directory
  MaxFaults    \* bound: steps that fail

ASSUME GradePassAssumption ==
  /\ Docker \in BOOLEAN
  /\ Passes \subseteq [resume : BOOLEAN,    \* run --resume; evaluate otherwise
                       host : BOOLEAN,      \* --allow-host-grading
                       inPlace : BOOLEAN,
                       inside : BOOLEAN]    \* evaluate's own run directory lies inside the run
  /\ \A p \in Passes : p.resume => p.inPlace
  /\ MaxPasses \in Nat /\ MaxEdits \in Nat /\ MaxFaults \in Nat

VARIABLES
  pass,    \* the options of the pass, and at: where it is
  row,     \* task.json
  backup,  \* task.execute.json
  sumry,   \* the row's entry in run.json
  mem,     \* the EvaluationResult of the pass
  tree,    \* the version of the reference directory
  staged,  \* the version the pass staged
  work,    \* the graded workspace
  tmp,     \* temporary directories of the pass
  exit,    \* how the last pass ended
  ledger,  \* history: passes and edits so far, the last edit's pass, faults, the prior record
  hit      \* history: where a cancellation met the pass

gradeVars == <<pass, row, backup, sumry, mem, tree, staged, work, tmp, exit, ledger, hit>>
vars == <<checkerVars, gradeVars>>

Record == [by : Nat, key : Nat, digest : Nat, hostStamp : BOOLEAN, onHost : BOOLEAN, incidents : Nat]
Executed == [by |-> 0, key |-> 0, digest |-> 0, hostStamp |-> FALSE, onHost |-> FALSE, incidents |-> 0]
NoPass == [resume |-> FALSE, host |-> FALSE, inPlace |-> TRUE, inside |-> FALSE]
Places == {"over", "resolve", "backup", "branch", "container", "fold", "sandbox", "stage", "check",
           "cleanup", "persist", "stamp", "write", "refresh", "incident"}

TypeOK ==
  /\ CheckerTypeOK
  /\ pass.at \in Places
  /\ {row, sumry, mem, ledger.prior} \subseteq Record /\ (backup = << >> \/ backup[1] \in Record)
  /\ work \in {"asrun", "touched", "gone"} /\ tmp \subseteq {"copy", "staging", "scratch"}
  /\ exit \in {"none", "graded", "refused", "incident", "cancelled"}

Init ==
  /\ CheckerInit
  /\ pass = [opt |-> NoPass, at |-> "over"]
  /\ row = Executed /\ sumry = Executed /\ mem = Executed /\ backup = << >>
  /\ tree = 0 /\ staged = 0 /\ work = "asrun" /\ tmp = {} /\ exit = "none"
  /\ ledger = [passes |-> 0, edits |-> 0, faults |-> 0, raced |-> FALSE, prior |-> Executed]
  /\ hit = "nowhere"

In(p) == pass.at = p
Go(p) == pass' = [pass EXCEPT !.at = p]
Opt   == pass.opt
Fault == ledger.faults < MaxFaults /\ ledger' = [ledger EXCEPT !.faults = @ + 1]
Over(how) == Go("over") /\ exit' = how

\* The answer key may be edited at any time.  An edit between the last look at
\* it and its staging is one that no pass can see.
Edit ==
  /\ ledger.edits < MaxEdits /\ tree' = tree + 1
  /\ ledger' = [ledger EXCEPT !.edits = @ + 1,
                  !.raced = @ \/ pass.at \in {"backup", "branch", "sandbox", "stage"}]
  /\ UNCHANGED <<checkerVars, pass, row, backup, sumry, mem, staged, work, tmp, exit, hit>>

Start ==
  /\ In("over") /\ ledger.passes < MaxPasses
  /\ \E p \in Passes : pass' = [opt |-> p, at |-> "resolve"]
  /\ ledger' = [ledger EXCEPT !.passes = @ + 1, !.prior = row]
  /\ exit' = "none" /\ hit' = "nowhere" /\ mem' = Executed /\ tmp' = {}
  /\ UNCHANGED <<checkerVars, row, backup, sumry, tree, staged, work>>

\* Mutant: the key is not looked at.
KeyUnread == TRUE

\* verify_reference_unchanged: the tree's digest against the one of the row.
KeyUnchanged == tree = row.digest

Refuse ==
  /\ Over("refused")
  /\ UNCHANGED <<checkerVars, row, backup, sumry, mem, tree, staged, work, tmp, hit>>

\* _resolve_run_dir_or_work_dir, or the head of _grade_resumed_tasks: the
\* untrusted commands, the workspace and, in evaluate, the key.
Resolve ==
  /\ In("resolve")
  /\ \/ Refuse /\ (Fault \/ (~ Opt.resume /\ ~ KeyUnchanged /\ UNCHANGED ledger))
     \/ /\ Opt.resume \/ KeyUnchanged
        /\ Go("backup")
        /\ UNCHANGED <<checkerVars, row, backup, sumry, mem, tree, staged, work, tmp, exit, ledger, hit>>

\* Mutant: the record of the latest execution or grade is kept.
KeptLast == <<row>>

\* back_up_pre_grade_record: once.
Kept == IF backup = << >> THEN <<row>> ELSE backup

BackUp ==
  /\ In("backup")
  /\ backup' = Kept /\ Go("branch")
  /\ UNCHANGED <<checkerVars, row, sumry, mem, tree, staged, work, tmp, exit, ledger, hit>>

\* regrade_in_place and its sibling branch in run_evaluation: to a container,
\* refused (grading_sandbox_config), or to a sandbox here; the key is looked
\* at again when the grade is in place.
Branch ==
  /\ In("branch")
  /\ \/ /\ Docker /\ ~ Opt.host /\ Opt.inPlace
        /\ Go("container") /\ tmp' = {"scratch"} /\ UNCHANGED exit
     \/ /\ (Docker /\ ~ Opt.host /\ ~ Opt.inPlace) \/ (~ (Docker /\ ~ Opt.host) /\ Opt.inPlace /\ ~ KeyUnchanged)
        /\ Over("refused") /\ UNCHANGED tmp
     \/ /\ ~ (Docker /\ ~ Opt.host) /\ (Opt.inPlace => KeyUnchanged)
        /\ Go("sandbox") /\ UNCHANGED <<tmp, exit>>
  /\ UNCHANGED <<checkerVars, row, backup, sumry, mem, tree, staged, work, ledger, hit>>

-----------------------------------------------------------------------------
(* On the host.                                                            *)

\* Sandbox.adopt, or Sandbox.setup with the workspace as its first template:
\* one that fails removes what it made itself.
PrepareSandbox ==
  /\ In("sandbox")
  /\ \/ /\ tmp' = IF Opt.inPlace THEN {} ELSE {"copy"}
        /\ Go("stage") /\ UNCHANGED ledger
     \/ Fault /\ Go("incident") /\ UNCHANGED tmp
  /\ UNCHANGED <<checkerVars, row, backup, sumry, mem, tree, staged, work, exit, hit>>

\* _stage_reference: a private copy, whose digest the row will name.
StageReference ==
  /\ In("stage")
  /\ staged' = tree /\ tmp' = tmp \cup {"staging"}
  /\ mem' = [ledger.prior EXCEPT !.digest = tree]
  /\ Begin /\ Go("check")
  /\ UNCHANGED <<row, backup, sumry, tree, work, exit, ledger, hit>>

\* Checker grades; in place its criteria may write to the workspace.
Grade ==
  /\ In("check") /\ chk \notin Returned
  /\ CheckerNext
  /\ work' \in {work} \cup IF Opt.inPlace /\ chk = "thread" THEN {"touched"} ELSE {}
  /\ hit' = IF cancels' > cancels THEN "check" ELSE hit
  /\ UNCHANGED <<pass, row, backup, sumry, mem, tree, staged, tmp, exit, ledger>>

\* The end of Orchestrator.run: a vector becomes the verdict; a cancelled pass
\* keeps the FAILURE it began with, which counts as graded.
Graded ==
  /\ In("check") /\ chk \in Returned
  /\ mem' = [mem EXCEPT !.by = IF chk = "raised" THEN @ ELSE ledger.passes,
                        !.key = IF chk = "raised" THEN @ ELSE staged, !.onHost = Docker]
  /\ Go("cleanup")
  /\ UNCHANGED <<checkerVars, row, backup, sumry, tree, staged, work, tmp, exit, ledger, hit>>

\* Mutant: an adopted sandbox is removed like one of its own.
OwnedAnyway == IF Opt.inPlace THEN {"workspace"} ELSE {"copy"}

\* What cleanup() may remove: _cleanup_on_exit is set only for a directory
\* that setup() made.
Owned == IF Opt.inPlace THEN {} ELSE {"copy"}

\* _cleanup: the staged key, then the sandbox; a copy is moved to the pass's
\* artifacts or removed, and removed where the move fails.
CleanUp ==
  /\ In("cleanup")
  /\ work' = IF "workspace" \in Owned THEN "gone" ELSE work
  /\ tmp' = (tmp \ {"staging"}) \ Owned
  /\ Go(IF chk = "raised" THEN "incident" ELSE "persist")
  /\ UNCHANGED <<checkerVars, row, backup, sumry, mem, tree, staged, exit, ledger, hit>>

\* _finalize_result: task.json of the pass's run directory, which is the row
\* itself under --resume.
Persist ==
  /\ In("persist")
  /\ row' = IF Opt.resume THEN mem ELSE row
  /\ IF chk = "cancelled" THEN Over("cancelled") ELSE Go("stamp") /\ UNCHANGED exit
  /\ UNCHANGED <<checkerVars, backup, sumry, mem, tree, staged, work, tmp, ledger, hit>>

\* stamp_host_grading, on the result in memory.
Stamp ==
  /\ In("stamp")
  /\ mem' = [mem EXCEPT !.hostStamp = @ \/ Docker]
  /\ Go(IF Opt.resume THEN "refresh" ELSE "write")
  /\ UNCHANGED <<checkerVars, row, backup, sumry, tree, staged, work, tmp, exit, ledger, hit>>

-----------------------------------------------------------------------------
(* In a container.                                                         *)

\* DockerRunner with grade_workspace: the container gets a copy of the key,
\* checks it and grades; it answers with a record, with the incident of a
\* failed attempt, or not at all.  The scratch directory goes in every case,
\* its logs are kept.
GradeInContainer ==
  /\ In("container")
  /\ work' \in {work, "touched"}
  /\ \/ KeyUnchanged /\ Go("fold") /\ UNCHANGED <<tmp, exit, ledger>>
        /\ mem' = [row EXCEPT !.by = ledger.passes, !.key = tree, !.onHost = FALSE]
     \/ Fault /\ Go("incident") /\ tmp' = {} /\ UNCHANGED <<mem, exit>>
     \/ (Fault \/ (~ KeyUnchanged /\ UNCHANGED ledger)) /\ Over("refused") /\ tmp' = {} /\ UNCHANGED mem
  /\ UNCHANGED <<checkerVars, row, backup, sumry, tree, staged, hit>>

\* _fold_back_container_grade: mandatory for the record; a write that fails
\* refuses the pass.
FoldBack ==
  /\ In("fold") /\ tmp' = {}
  /\ \/ /\ row' = IF Opt.resume THEN mem ELSE row
        /\ Go(IF Opt.resume THEN "refresh" ELSE "write") /\ UNCHANGED <<exit, ledger>>
     \/ Fault /\ Over("refused") /\ UNCHANGED row
  /\ UNCHANGED <<checkerVars, backup, sumry, mem, tree, staged, work, hit>>

-----------------------------------------------------------------------------
(* What becomes of the verdict.                                            *)

\* _write_back: the row, or a warning.
WriteBack ==
  /\ In("write")
  /\ \/ row' = mem /\ Go("refresh") /\ UNCHANGED <<exit, ledger>>
     \/ Fault /\ Over("graded") /\ UNCHANGED row
  /\ UNCHANGED <<checkerVars, backup, sumry, mem, tree, staged, work, tmp, hit>>

\* Mutant: the incident is added to what the pass made of the row.
IncidentOver == [mem EXCEPT !.incidents = @ + 1]

\* write_grading_incident: the prior row with one more incident.
Incident == [ledger.prior EXCEPT !.incidents = @ + 1]

RecordIncident ==
  /\ In("incident")
  /\ row' = Incident /\ Go("refresh")
  /\ mem' = row'
  /\ UNCHANGED <<checkerVars, backup, sumry, tree, staged, work, tmp, exit, ledger, hit>>

\* evaluate rebuilds run.json from the rows, unless its own record would count
\* as one; resume writes it from the results in memory.
Refreshed == Opt.resume \/ ~ Opt.inside

RefreshSummary ==
  /\ In("refresh")
  /\ sumry' = IF Opt.resume THEN mem ELSE IF Refreshed THEN row ELSE sumry
  /\ Over(IF mem.incidents > ledger.prior.incidents THEN "incident" ELSE "graded")
  /\ UNCHANGED <<checkerVars, row, backup, mem, tree, staged, work, tmp, ledger, hit>>

\* A cancellation outside of Checker: the set-up thread goes on and its copy
\* stays; the scratch directory goes with its `with'.
CancelPass ==
  /\ pass.at \in {"sandbox", "container"} /\ MaxCancels > 0
  /\ tmp' = IF In("sandbox") /\ ~ Opt.inPlace THEN {"copy"} ELSE {}
  /\ Over("cancelled") /\ hit' = pass.at
  /\ UNCHANGED <<checkerVars, row, backup, sumry, mem, tree, staged, work, ledger>>

Proceed ==
  \/ Resolve \/ BackUp \/ Branch \/ PrepareSandbox \/ StageReference \/ Graded \/ CleanUp \/ Persist
  \/ Stamp \/ GradeInContainer \/ FoldBack \/ WriteBack \/ RecordIncident \/ RefreshSummary

\* A sub-agent may go on talking; the rest of a pass moves.
Moves == Proceed \/ (Grade /\ CheckerWork)

LateCopy(part) == In("over") /\ CopyEnds(part) /\ UNCHANGED gradeVars

Next ==
  \/ Start \/ Edit \/ Proceed \/ Grade \/ CancelPass
  \/ \E part \in {"work", "ref"} : LateCopy(part)

\* Every thread ends, and every judge has a turn timeout.
Spec == Init /\ [][Next]_vars /\ WF_vars(Moves)

-----------------------------------------------------------------------------
(* Properties.                                                             *)

\* A pass that is over, and was not cancelled: a verdict of it is in the row,
\* unless the write failed and the pass said so; without a verdict the row is
\* what it was, but for an incident.  Behind a graded row lies the record of
\* the execution, and the verdict was computed with the key of the run, which
\* the row still names, unless the key was edited in the moment between the
\* last look at it and its staging (_write_back, write_grading_incident,
\* back_up_pre_grade_record: "a second grade must not overwrite the ORIGINAL
\* execute record"; verify_reference_unchanged).
RowTrue ==
  /\ TypeOK /\ VectorTrue
  /\ In("over") /\ exit = "graded" =>
       row.by = ledger.passes \/ (row = ledger.prior /\ ledger.faults > 0)
  /\ In("over") /\ exit \in {"refused", "incident"} =>
       [row EXCEPT !.incidents = 0] = [ledger.prior EXCEPT !.incidents = 0]
  /\ row.by # 0 => backup # << >> /\ backup[1].by = 0
  /\ ~ ledger.raced => row.key = 0 /\ row.digest = 0
  /\ In("over") /\ exit \in {"graded", "incident"} /\ ~ Opt.resume /\ ~ Opt.inside /\ row # ledger.prior =>
       sumry = row

\* The workspace of the run is never moved or removed, and a pass on a copy
\* leaves it as the run left it; when a pass is over its temporary directories
\* are gone, the judges' too, and no judge is alive (adopt: "an adopted
\* directory belongs to the caller").  A copy made by a set-up that a
\* cancellation left alone stays.
PassLeavesNothing ==
  /\ JudgeLeavesNothing
  /\ work # "gone"
  /\ In("over") /\ hit # "sandbox" => tmp = {}

\* Every pass ends.
PassEnds == ~ In("over") ~> In("over")

\* USER_GUIDE: a docker row graded on the host "is stamped graded_on_host",
\* and "a container-graded row carries no graded_on_host stamp".
\* No run: the code does not keep it (README).
HostStampTrue == In("over") /\ exit = "graded" => row.hostStamp = row.onHost
=============================================================================
