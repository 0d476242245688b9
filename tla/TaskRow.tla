------------------------------ MODULE TaskRow ------------------------------
(***************************************************************************)
(* The row a task leaves behind (task.json, EvaluationResult) reduced to   *)
(* the fields its lifecycle reads and writes: the terminal status and the  *)
(* phase of the error behind it, the score and the criteria vector, the    *)
(* recorded turns, and the facts a detached grade inherits.                *)
(*                                                                         *)
(* Free text, timestamps, token counts and the per-criterion scores are    *)
(* left out.  Of the criteria vector only what a gate can tell is kept:    *)
(*   "none"   no criterion was scored,                                     *)
(*   "pass"   every gating criterion met its threshold (so the armed       *)
(*            subset did, too),                                            *)
(*   "armed"  the armed subset passes its gate, the full set does not,     *)
(*   "fail"   neither gate passes.                                         *)
(***************************************************************************)
EXTENDS Naturals, Sequences

\* TOKEN_BUDGET_EXCEEDED and COST_BUDGET_EXCEEDED are written by the same
\* code, on the same path, and are one status here.
FinalStatus ==
  {"SUCCESS", "FAILURE", "NOT_GRADED", "ERROR", "BUILD_FAILED", "TIMEOUT",
   "MAX_TURNS_EXHAUSTED", "BUDGET_EXCEEDED"}

\* How the agent phase ended, as opposed to what grading decided.
ExecutionFacts == {"ERROR", "BUILD_FAILED", "TIMEOUT", "BUDGET_EXCEEDED"}

Vectors == {"none", "pass", "armed", "fail"}

\* A turn record.  The number identifies the turn: it is never compared for
\* order, only for being the same turn.
Turn   == [no : Nat, crashed : BOOLEAN]
NoTurn == [no |-> 0, crashed |-> TRUE]

Row ==
  [status   : FinalStatus \cup {"absent"},
   phase    : {"none", "execution", "grading"},      \* error_phase
   score    : {"none", "zero", "some"},              \* weighted_score: None, 0.0 of an empty vector, computed
   crit     : Vectors,                               \* success_criteria_results
   diag     : {"none", "skipped", "checked"},        \* post_failure_criteria_results
   turns    : Seq(Turn),                             \* iterations
   count    : Nat,                                   \* iteration_count
   maxTurns : BOOLEAN,                               \* max_turns_exhausted
   early    : BOOLEAN,                               \* early_stop is not None
   post     : Nat,                                   \* len(post_run_results)
   history  : Nat]                                   \* len(error_history)

\* What Orchestrator.run starts from.  The status is the default a run that
\* reaches no verdict keeps.
FreshRow ==
  [status |-> "FAILURE", phase |-> "none", score |-> "none", crit |-> "none",
   diag |-> "none", turns |-> << >>, count |-> 0, maxTurns |-> FALSE,
   early |-> FALSE, post |-> 0, history |-> 0]

\* No task.json on disk.
NoRow == [FreshRow EXCEPT !.status = "absent"]

GradingError(r) == r.status = "ERROR" /\ r.phase = "grading"

HasExecutionFailure(r) == r.status \in ExecutionFacts /\ ~ GradingError(r)

\* The gate is chosen by whether the early-stop watcher cut the run.
GatePassed(early, crit) == crit = "pass" \/ (early /\ crit = "armed")

\* Mutant: any row that was executed is graded again.
OwesAGradeAgain(r) == GradingError(r) \/ r.count > 0

\* Whether --resume under a grading command still owes the row a grade.
OwesAGrade(r) ==
  \/ GradingError(r)
  \/ /\ r.score = "none"
     /\ r.crit = "none"
     /\ r.status = "NOT_GRADED" \/ r.count > 0

\* What a re-grade takes over as it is.
Inheriting(p) ==
  [FreshRow EXCEPT
     !.turns    = p.turns,
     !.count    = IF p.count # 0 THEN p.count ELSE Len(p.turns),
     !.maxTurns = p.maxTurns,
     !.early    = p.early,
     !.post     = p.post,
     !.phase    = p.phase,
     !.history  = p.history]

\* Mutants: a seed that drops a fact of the prior row.
SeededUngated(p)   == [Inheriting(p) EXCEPT !.early = FALSE]
SeededUnposted(p)  == [Inheriting(p) EXCEPT !.post = 0]
SeededSilent(p)    == [Inheriting(p) EXCEPT !.turns = << >>]
SeededForgetful(p) == [Inheriting(p) EXCEPT !.phase = IF GradingError(p) THEN "none" ELSE @]

\* A re-grade starts from the facts of the run it grades; status, score and
\* criteria are what it recomputes.  A grading error of the prior row moves
\* to the history, which leaves the error fields to this pass.
Seeded(p) ==
  IF GradingError(p)
    THEN [Inheriting(p) EXCEPT !.phase = "none", !.history = @ + 1]
    ELSE Inheriting(p)

\* The score written at finalization: None when nothing was graded, 0.0 for
\* an empty vector.
FinalScore(grade, crit) ==
  IF ~ grade THEN "none" ELSE IF crit = "none" THEN "zero" ELSE "some"
=============================================================================
