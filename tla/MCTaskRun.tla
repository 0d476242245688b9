----------------------------- MODULE MCTaskRun -----------------------------
(* Instances of TaskRun: the rows a re-grade is given. *)
EXTENDS TaskRun

Executed == [FreshRow EXCEPT !.turns = <<[no |-> 1, crashed |-> FALSE]>>, !.count = 1]

\* What execute leaves, with and without the turn cap hit; a row cut by early
\* stop and failed; one an agent crash, a deadline and a failed grade ended.
PriorRows ==
  { [Executed EXCEPT !.status = "NOT_GRADED"],
    [Executed EXCEPT !.status = "NOT_GRADED", !.maxTurns = TRUE],
    [Executed EXCEPT !.status = "FAILURE", !.early = TRUE, !.crit = "fail", !.score = "some", !.post = 1],
    [Executed EXCEPT !.status = "ERROR", !.phase = "execution", !.turns = <<[no |-> 1, crashed |-> TRUE]>>,
                     !.diag = "checked", !.score = "zero", !.post = 1],
    [Executed EXCEPT !.status = "TIMEOUT", !.phase = "execution"],
    [Executed EXCEPT !.status = "ERROR", !.phase = "grading", !.score = "zero", !.post = 1] }
=============================================================================
