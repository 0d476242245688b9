---------------------------- MODULE DelegateTurn ----------------------------
(***************************************************************************)
(* DelegateAgent.communicate: a Node host that outlives the call.  A clean *)
(* turn leaves it running; every cut and failure kills it, and the next    *)
(* call spawns another.  There is no watchdog thread: the deadline bounds  *)
(* each read.  The host works on the last command it got, and writes a     *)
(* model call's text, then its usage frame, then its tools one by one.     *)
(***************************************************************************)
EXTENDS AgentTurn

HostDead(h) == [h EXCEPT !.up = FALSE, !.busy = FALSE]

\* The `send' command.  A host still busy with an older one goes on with it.
Sent(h, n) == IF h.up /\ h.busy THEN h
              ELSE [NewHost EXCEPT !.up = h.up, !.busy = h.up, !.owner = n]

\* communicate on a live host.
DelegateBegin ==
  /\ Is("delegate") /\ MayCall /\ host.up
  /\ Enter(FALSE, Started(TRUE))
  /\ host' = Sent(host, calls + 1)
  /\ pc' = "read"

\* Without one: the drain tasks of the old host are cancelled and awaited.
DelegateRespawns ==
  /\ Is("delegate") /\ MayCall /\ ~ host.up
  /\ calls' = calls + 1
  /\ last' = "none"
  /\ tree' = NewTree /\ turn' = NewTurn
  /\ pc' = "drainTasks"
  /\ UNCHANGED <<cfg, agent, host, clk, good>>

\* _cancel_drain_tasks suppresses any CancelledError of these awaits, one
\* meant for the caller too.
DelegateDrainTasks ==
  /\ At("delegate", "drainTasks")
  /\ clk' = [clk EXCEPT !.eaten = @ \/ clk.cancel, !.cancel = FALSE]
  /\ pc' = "spawn"
  /\ UNCHANGED <<cfg, agent, tree, turn, host, last, calls, good>>

\* _spawn_and_init, up to the host's init_ok; then the turn begins.
DelegateSpawned ==
  /\ At("delegate", "spawn")
  /\ agent' = Begun
  /\ tree' = Started(TRUE)
  /\ host' = Sent([host EXCEPT !.up = TRUE], calls)
  /\ clk' = [clk EXCEPT !.late = FALSE]
  /\ pc' = "read"
  /\ UNCHANGED <<cfg, turn, last, calls, good>>

\* No answer in time, an error frame, a closed stream, a failing spawn: the
\* call ends before _begin_turn.
DelegateRefused ==
  /\ At("delegate", "spawn")
  /\ Throws(tree, agent, "refused", clk.cancel)
  /\ UNCHANGED <<turn, host>>

\* A cancellation there leaves the new host as it is.
DelegateSpawnCancelled ==
  /\ At("delegate", "spawn") /\ clk.cancel
  /\ Throws(tree, agent, "cancelled", FALSE)
  /\ \E b \in BOOLEAN : host' = [host EXCEPT !.up = b]
  /\ UNCHANGED turn

-----------------------------------------------------------------------------
(* The frames. *)

\* on_text: a thinking or message event; the first of a call opens it.
DelegateText ==
  /\ host.stage # "text" /\ ~ HasOpen(tree) /\ host.call < MaxSteps
  /\ host' = [host EXCEPT !.stage = "text", !.call = @ + 1]
  /\ turn' = [turn EXCEPT !.inCall = TRUE, !.calls = IF turn.inCall THEN @ ELSE @ + 1]
  /\ UNCHANGED tree

\* on_usage_frame: it ends the text of its call, or is the first sign of a
\* call that streamed none.
DelegateUsage ==
  /\ ~ HasOpen(tree)
  /\ host.stage = "text" \/ host.call < MaxSteps
  /\ host' = [host EXCEPT !.call = IF host.stage = "text" THEN @ ELSE @ + 1, !.stage = "tools"]
  /\ turn' = [turn EXCEPT !.inCall = FALSE, !.calls = IF turn.inCall THEN @ ELSE @ + 1]
  /\ UNCHANGED tree

\* on_tool_event and _handle_tool_call.
DelegateToolCall(t) ==
  /\ host.stage = "tools" /\ ~ HasOpen(tree) /\ t \in Unseen
  /\ tree' = Opened(tree, {t})
  /\ turn' = [turn EXCEPT !.inCall = FALSE, !.of[t] = host.call]
  /\ UNCHANGED host

\* _handle_tool_result, also for a tool the SDK could not resolve, whose call
\* it never announced.
DelegateToolResult(t, mark) ==
  /\ host.stage = "tools"
  /\ tree.tool[t] = "open" \/ (tree.tool[t] = "unseen" /\ ~ HasOpen(tree))
  /\ tree' = With(tree, t, mark)
  /\ turn' = [turn EXCEPT !.inCall = FALSE, !.of[t] = host.call]
  /\ UNCHANGED host

DelegateFrame ==
  \/ DelegateText \/ DelegateUsage
  \/ \E t \in Tools : DelegateToolCall(t)
  \/ \E t \in Tools, mark \in {"ok", "error"} : DelegateToolResult(t, mark)

\* One frame, before the deadline.
DelegateRead ==
  /\ At("delegate", "read") /\ ~ clk.late /\ host.up /\ host.busy
  /\ DelegateFrame
  /\ pc' = "check"
  /\ UNCHANGED <<cfg, agent, clk, last, calls, good>>

\* _handle_result: the host's own call count, when it reports one, replaces
\* the live one, and the turn ends with the host alive.
DelegateResult ==
  /\ At("delegate", "read") /\ ~ clk.late /\ host.up /\ host.busy
  /\ host.stage = "tools" /\ ~ HasOpen(tree)
  /\ host' = [host EXCEPT !.busy = FALSE]
  /\ \E reported \in {turn.calls, host.call} : turn' = [turn EXCEPT !.calls = reported, !.result = "success"]
  /\ Returns(tree, "COMPLETED")

\* The force-kill drops the handle at once and awaits the exit.
DelegateReaps(why) ==
  /\ turn' = [turn EXCEPT !.why = why]
  /\ host' = HostDead(host)
  /\ pc' = "reap"
  /\ UNCHANGED <<cfg, agent, tree, clk, last, calls, good>>

\* Behind a frame: the cap, then the cooperative stop.
DelegateCheck ==
  /\ At("delegate", "check")
  /\ \E stop \in BOOLEAN :
       LET capped == Over(turn.calls)
           cut    == capped \/ stop
       IN  /\ turn' = [turn EXCEPT !.capped = capped, !.stopped = stop /\ ~ capped,
                                   !.why = IF cut THEN "cut" ELSE @]
           /\ host' = IF cut THEN HostDead(host) ELSE host
           /\ pc' = IF cut THEN "reap" ELSE "read"
  /\ UNCHANGED <<cfg, agent, tree, clk, last, calls, good>>

-----------------------------------------------------------------------------
(* The ways out. *)

\* The deadline has passed, before or during the read.
DelegateLate == At("delegate", "read") /\ clk.late /\ DelegateReaps("timeout")

\* Mutant: a failed turn's host is kept for the next call.
DelegateCrashKeepsHost ==
  /\ At("delegate", "read") /\ host.busy
  /\ Raises(tree, "crash")
  /\ UNCHANGED <<turn, host>>

\* An error frame, or a stream that closed: the host is abandoned.
DelegateCrashes == At("delegate", "read") /\ DelegateReaps("crash")

\* An exception of the send or of a handler.
DelegateFails == At("delegate", "read") /\ DelegateReaps("error")

\* _crash_turn, _timeout_turn, or the record of a cut turn.
DelegateReaped ==
  /\ At("delegate", "reap")
  /\ CASE turn.why = "cut" -> Returns(tree, IF turn.stopped THEN "STOPPED_EARLY" ELSE "MAX_TURNS_EXHAUSTED")
       [] turn.why = "timeout" -> Raises(tree, "timeout")
       [] OTHER -> Raises(tree, "crash")
  /\ UNCHANGED <<turn, host>>

\* A cancellation is finalized, except inside the last handler, where the
\* reap of the host is awaited outside the try block.
DelegateCancelled ==
  /\ Is("delegate") /\ pc \in {"read", "reap"}
  /\ IF pc = "reap" /\ turn.why = "error"
       THEN clk.cancel /\ Throws(tree, agent, "cancelled", FALSE)
       ELSE Cancelled(tree, FALSE)
  /\ UNCHANGED <<turn, host>>

DelegateGoes == DelegateDrainTasks \/ DelegateSpawned \/ DelegateCheck \/ DelegateLate \/ DelegateReaped
                \/ DelegateCancelled \/ DelegateSpawnCancelled

DelegateNext ==
  \/ DelegateBegin \/ DelegateRespawns \/ DelegateRefused
  \/ DelegateRead \/ DelegateResult \/ DelegateCrashes \/ DelegateFails
  \/ DelegateGoes
=============================================================================
