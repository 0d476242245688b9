------------------------------- MODULE MCBatch -------------------------------
(* Two tasks for TLC, one in a container and one on the host: both in       *)
(* parallel; one after the other with a host task that is refused in its    *)
(* slot; with a host task that has no criteria.                             *)
EXTENDS Batch

CONSTANTS d, h

TwoTasks == {d, h}
OneDocker == {d}

SetupsHere ==
  {[loose |-> {}, empty |-> {}, slots |-> 2],
   [loose |-> {h}, empty |-> {}, slots |-> 1],
   [loose |-> {}, empty |-> {h}, slots |-> 1]}
=============================================================================
