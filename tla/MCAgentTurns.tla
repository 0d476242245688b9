---------------------------- MODULE MCAgentTurns ----------------------------
(***************************************************************************)
(* Instance of AgentTurns: every agent, once with a cap and a timeout and  *)
(* once without either; a run of two calls, so that the second follows a   *)
(* failed or a returned one.  One of the two tools is a shell command.     *)
(***************************************************************************)
EXTENDS AgentTurns

MCConfigs == {[kind |-> k, cap |-> 1, timed |-> TRUE] : k \in Agents}
             \cup {[kind |-> k, cap |-> 0, timed |-> FALSE] : k \in Agents}
=============================================================================
