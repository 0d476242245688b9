---------------------------- MODULE MCEarlyStop ----------------------------
(* Two signals, one of them a command that must succeed and stops the run   *)
(* when it passes, and a call that must not be made.                        *)
EXTENDS EarlyStop

Criteria == {"load", "deploy", "ban"}

Weights   == [c \in Criteria |-> IF c = "deploy" THEN 2 ELSE 1]
Minima    == [c \in Criteria |-> IF c = "ban" THEN 0 ELSE 1]
Maxima    == [c \in Criteria |-> IF c = "ban" THEN 0 ELSE NoLimit]
Deadlines == [c \in Criteria |-> CASE c = "load" -> 2 [] c = "deploy" -> 3 [] OTHER -> NoLimit]
Counts    == [c \in Criteria |-> {c}]
CallKinds == Criteria \cup {"other"}
=============================================================================
