-------------------------- MODULE AntigravityTurn ---------------------------
(***************************************************************************)
(* AntigravityAgent.communicate: a conversation held open between calls,   *)
(* its steps drained until the model is idle.  A shell command it left in  *)
(* the background is polled for, by draining again, until the poll's own   *)
(* deadline (timed) or its cycle cap, here MaxNoise.  A watchdog thread    *)
(* only marks the turn.                                                    *)
(***************************************************************************)
EXTENDS AgentTurn

AgyEndedCleanly == turn.stopped \/ turn.capped

\* has_orphaned_tool_call: only an ACTIVE shell command can be in the
\* background.
Backgrounded(tr) == \E t \in Shell : tr.tool[t] = "open"

Foreground == OpenTools \ Shell

AgyBegin ==
  /\ Is("antigravity") /\ MayCall
  /\ Enter(TRUE, Started(TRUE))
  /\ host' = [NewHost EXCEPT !.up = TRUE, !.busy = TRUE, !.owner = calls + 1]
  /\ pc' = "drain"

-----------------------------------------------------------------------------
(* process_step. *)

\* A step of the model, perhaps with a tool call: the first since the last
\* usage opens a call.  The model goes on when its foreground tools are done.
AgyModelStep(S) ==
  /\ S \subseteq Unseen /\ Cardinality(S) <= 1
  /\ \/ host.stage = "call" /\ S # {}
     \/ host.stage = "idle" /\ Foreground = {} /\ host.call < MaxSteps
  /\ LET opens == host.stage = "idle"
     IN  /\ host' = [host EXCEPT !.stage = "call", !.call = IF opens THEN @ + 1 ELSE @]
         /\ turn' = [turn EXCEPT !.inCall = TRUE, !.calls = IF turn.inCall THEN @ ELSE @ + 1,
                                 !.of = [t \in Tools |-> IF t \in S THEN host'.call ELSE @[t]]]
  /\ tree' = Opened(tree, S)

\* The step of a tool is done.
AgyToolDone(t, mark) ==
  /\ tree.tool[t] = "open"
  /\ tree' = With(tree, t, mark)
  /\ UNCHANGED <<turn, host>>

\* _book_new_usage: the cumulative usage has grown, which ends the call, or
\* is all that was seen of one.
AgyUsage ==
  /\ \/ host.stage = "call"
     \/ host.stage = "idle" /\ Foreground = {} /\ host.call < MaxSteps
  /\ host' = [host EXCEPT !.stage = "idle", !.call = IF host.stage = "call" THEN @ ELSE @ + 1]
  /\ turn' = [turn EXCEPT !.inCall = FALSE, !.calls = IF turn.inCall THEN @ ELSE @ + 1]
  /\ UNCHANGED tree

AgyStep ==
  \/ \E S \in SUBSET Tools : AgyModelStep(S)
  \/ \E t \in Tools, mark \in {"ok", "error"} : AgyToolDone(t, mark)
  \/ AgyUsage

\* _drain: one step.
AgyRead ==
  /\ At("antigravity", "drain") /\ host.busy
  /\ AgyStep
  /\ pc' = "check"
  /\ UNCHANGED <<cfg, agent, clk, last, calls, good>>

\* Behind it: the cooperative stop, then the cap.
AgyCheck ==
  /\ At("antigravity", "check")
  /\ \E stop \in BOOLEAN :
       LET cut == stop \/ Over(turn.calls)
       IN  /\ turn' = [turn EXCEPT !.stopped = stop, !.capped = cut /\ ~ stop]
           /\ pc' = IF cut THEN "cancel" ELSE "drain"
  /\ UNCHANGED <<cfg, agent, tree, host, clk, last, calls, good>>

\* The model goes idle.  The poll loop's guard follows.
AgyIdles ==
  /\ At("antigravity", "drain")
  /\ host.stage = "idle" /\ Foreground = {}
  /\ \E expired \in BOOLEAN :
       /\ expired => cfg.timed
       /\ pc' = IF ~ turn.flag /\ ~ expired /\ Backgrounded(tree) /\ turn.noise < MaxNoise THEN "poll" ELSE "leave"
  /\ turn' = [turn EXCEPT !.noise = IF pc' = "poll" THEN @ + 1 ELSE @]
  /\ UNCHANGED <<cfg, agent, tree, host, clk, last, calls, good>>

\* One sleep of the poll: then the deadline, the cooperative stop, or another
\* drain.
AgyPoll ==
  /\ At("antigravity", "poll")
  /\ \E stop, expired \in BOOLEAN :
       LET gives == turn.flag \/ expired
       IN  /\ expired => cfg.timed
           /\ turn' = [turn EXCEPT !.stopped = stop /\ ~ gives]
           /\ pc' = IF gives THEN "leave" ELSE IF stop THEN "cancel" ELSE "drain"
  /\ UNCHANGED <<cfg, agent, tree, host, clk, last, calls, good>>

-----------------------------------------------------------------------------
(* The ways out. *)

\* A deliberate cut: the server-side cancel, whose failure is ignored.
AgyCancels ==
  /\ At("antigravity", "cancel")
  /\ \E b \in BOOLEAN : host' = [host EXCEPT !.busy = @ /\ b]
  /\ pc' = "leave"
  /\ UNCHANGED <<cfg, agent, tree, turn, clk, last, calls, good>>

\* send or receive_steps raises; one raised behind a deliberate stop is
\* ignored.
AgyFails ==
  /\ At("antigravity", "drain")
  /\ IF turn.flag THEN Raises(tree, "timeout") ELSE Raises(tree, "crash")
  /\ UNCHANGED <<turn, host>>

AgyCancelled ==
  /\ Is("antigravity") /\ pc \in {"drain", "poll", "cancel"}
  /\ Cancelled(tree, turn.flag)
  /\ UNCHANGED <<turn, host>>

\* Mutant: a marked turn that got its cut is returned.
AgyLeaveUnmarked ==
  /\ At("antigravity", "leave")
  /\ IF turn.flag /\ ~ AgyEndedCleanly THEN Raises(tree, "timeout")
     ELSE Returns(tree, IF turn.stopped THEN "STOPPED_EARLY"
                        ELSE IF turn.capped THEN "MAX_TURNS_EXHAUSTED" ELSE "COMPLETED")
  /\ UNCHANGED <<turn, host>>

\* Behind the watchdog block: the mark, or the record.
AgyLeave ==
  /\ At("antigravity", "leave")
  /\ IF turn.flag THEN Raises(tree, "timeout")
     ELSE Returns(tree, IF turn.stopped THEN "STOPPED_EARLY"
                        ELSE IF turn.capped THEN "MAX_TURNS_EXHAUSTED" ELSE "COMPLETED")
  /\ UNCHANGED <<turn, host>>

AgyGoes == AgyCheck \/ AgyPoll \/ AgyCancels \/ AgyCancelled \/ AgyLeave

AgyNext == AgyBegin \/ AgyRead \/ AgyIdles \/ AgyFails \/ AgyGoes
=============================================================================
