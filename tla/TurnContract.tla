---------------------------- MODULE TurnContract ----------------------------
(***************************************************************************)
(* What any agent promises the orchestrator of one communicate(): at most  *)
(* one AgentEnd, whose status agrees with how the call ended; a record     *)
(* parked only by a call that raised; a turn counted only if it returned.  *)
(* The exceptions the code has are actions of their own.                   *)
(***************************************************************************)
EXTENDS Naturals

VARIABLES
  live,     \* a call is being made
  started,  \* its AgentStart is out
  end,      \* the status of its AgentEnd, or "none"
  outcome,  \* how the last call ended
  parked,   \* pending_turn
  counted   \* the turns that count

cvars == <<live, started, end, outcome, parked, counted>>

CleanStatus == {"COMPLETED", "MAX_TURNS_EXHAUSTED", "STOPPED_EARLY"}

Init ==
  /\ ~ live /\ ~ started
  /\ end = "none" /\ outcome = "none" /\ parked = "none"
  /\ counted = 0

\* A call begins, with its AgentStart or before it.
Begin ==
  /\ ~ live /\ parked = "none"
  /\ live' = TRUE /\ started' \in BOOLEAN
  /\ end' = "none" /\ outcome' = "none" /\ parked' = "none"
  /\ UNCHANGED counted

Start ==
  /\ live /\ ~ started
  /\ started' = TRUE
  /\ UNCHANGED <<live, end, outcome, parked, counted>>

Return(e) ==
  /\ e \in CleanStatus
  /\ live' = FALSE /\ outcome' = "returned" /\ end' = e
  /\ parked' = "none" /\ counted' = counted + 1

\* The turn ends and its record is returned.
Finish ==
  /\ live /\ started /\ end = "none"
  /\ \E e \in CleanStatus : Return(e)
  /\ UNCHANGED started

\* A call that awaits nothing.
Instant ==
  /\ ~ live /\ parked = "none"
  /\ started' = TRUE
  /\ Return("COMPLETED")

\* The turn fails and its record is parked, if it can be built.
Fail ==
  /\ live /\ started /\ end = "none"
  /\ outcome' \in {"timeout", "crash", "cancelled"}
  /\ end' = IF outcome' = "timeout" THEN "TIMEOUT" ELSE "CRASHED"
  /\ parked' \in {"none", "partial"}
  /\ live' = FALSE
  /\ UNCHANGED <<started, counted>>

\* Claude's `finally' closes the events before the call is decided.
Close ==
  /\ live /\ started /\ end = "none"
  /\ \/ end' \in CleanStatus /\ UNCHANGED parked
     \/ end' = "TIMEOUT" /\ parked' \in {"none", "partial"}
  /\ UNCHANGED <<live, started, outcome, counted>>

Decide ==
  /\ live /\ end # "none"
  /\ \/ Return(end)
     \/ end = "TIMEOUT" /\ outcome' = "timeout" /\ live' = FALSE /\ UNCHANGED <<end, parked, counted>>
  /\ UNCHANGED started

\* Exception: Claude's timer marks the turn after its events were closed.
Overrun ==
  /\ live /\ end \in CleanStatus
  /\ outcome' = "timeout" /\ live' = FALSE
  /\ UNCHANGED <<started, end, parked, counted>>

\* Exception: Claude's and Codex's setup fails, Claude's without an AgentStart.
Unready ==
  /\ ~ live /\ parked = "none"
  /\ started' \in BOOLEAN
  /\ end' = "CRASHED" /\ outcome' = "crash" /\ parked' \in {"none", "partial"}
  /\ UNCHANGED <<live, counted>>

\* Exception: Delegate's host cannot be spawned, so no turn begins.
Refuse ==
  /\ live /\ ~ started
  /\ outcome' \in {"refused", "cancelled"} /\ live' = FALSE
  /\ UNCHANGED <<started, end, parked, counted>>

\* Exception: Delegate's last handler is itself cancelled.
Tear ==
  /\ live /\ started /\ end = "none"
  /\ outcome' = "cancelled" /\ live' = FALSE
  /\ UNCHANGED <<started, end, parked, counted>>

\* The caller discards what a failed call left.
Discard ==
  /\ ~ live /\ outcome # "returned"
  /\ started' = FALSE /\ end' = "none" /\ parked' = "none"
  /\ UNCHANGED <<live, outcome, counted>>

Next == Begin \/ Start \/ Finish \/ Instant \/ Fail \/ Close \/ Decide \/ Overrun \/ Unready \/ Refuse
        \/ Tear \/ Discard

Spec == Init /\ [][Next]_cvars
=============================================================================
