----------------------------- MODULE RowLedger -----------------------------
(***************************************************************************)
(* What a task's row promises its readers, whatever sequence of run,       *)
(* execute, --resume and evaluate worked on it.  A row is written once     *)
(* with the trajectory of the one execution behind it.  After that a pass  *)
(* either grades it or fails to; a graded row may be graded again, an      *)
(* execution failure is final, and a failed pass leaves nothing but one    *)
(* more incident.                                                          *)
(***************************************************************************)
EXTENDS Naturals, Sequences

CONSTANTS Turns, Failures

VARIABLES
  stage,      \* absent; ungraded, failed, errored (grading raised), graded
  fact,       \* the execution failure of a failed row, "none" of the others
  turns,      \* the recorded trajectory
  incidents   \* grading passes that failed, as far as the row records them

vars == <<stage, fact, turns, incidents>>

Init == stage = "absent" /\ fact = "none" /\ turns = << >> /\ incidents = 0

Execute ==
  /\ stage = "absent"
  /\ \/ stage' \in {"ungraded", "errored", "graded"} /\ fact' = "none"
     \/ stage' = "failed" /\ fact' \in Failures
  /\ turns' \in Seq(Turns)
  /\ incidents' \in Nat

Judge ==
  /\ stage \in {"ungraded", "errored", "graded"}
  /\ stage' = "graded"
  /\ UNCHANGED <<fact, turns, incidents>>

GradeFails ==
  /\ stage # "absent"
  /\ incidents' = incidents + 1
  /\ UNCHANGED <<stage, fact, turns>>

Next == Execute \/ Judge \/ GradeFails

Spec == Init /\ [][Next]_vars
=============================================================================
