----------------------------- MODULE ClaudeTurn ----------------------------
(***************************************************************************)
(* ClaudeCodeAgent.communicate: one CLI process per turn, its message      *)
(* stream, and a watchdog thread that marks the turn and kills the CLI.    *)
(* The CLI asks the model only once every tool result of its last call is  *)
(* in.                                                                     *)
(***************************************************************************)
EXTENDS AgentTurn

\* _timed_out: the flag or the wall clock.
ClaudeTimedOut == turn.flag \/ clk.late

\* communicate, up to the first await.  A failing setup raises before the
\* AgentStart.
ClaudeBegin ==
  /\ Is("claude") /\ MayCall
  /\ Enter(TRUE, Started(FALSE))
  /\ host' = [NewHost EXCEPT !.up = TRUE, !.busy = TRUE, !.owner = calls + 1]
  /\ pc' = "pump"

ClaudeSetupFails ==
  /\ Is("claude") /\ MayCall
  /\ \E kept \in BOOLEAN :
       agent' = [Begun EXCEPT !.pending = IF kept THEN "partial" ELSE "none"]
  /\ tree' = Closed(NewTree, "CRASHED")
  /\ turn' = NewTurn
  /\ clk' = [clk EXCEPT !.timer = "off", !.stray = @ \/ clk.timer \in {"firing", "flagged"}]
  /\ calls' = calls + 1
  /\ last' = "crash"
  /\ pc' = "failed"
  /\ UNCHANGED <<cfg, host, good>>

-----------------------------------------------------------------------------
(* The messages. *)

\* on_assistant_message: a new id opens an inner turn, and only ids of the
\* main thread count against the cap.
ClaudeAssistant(main, new, S) ==
  /\ turn.result = "none"
  /\ S \subseteq Unseen
  /\ IF new
       THEN IF main THEN ~ HasOpen(tree) /\ host.call < MaxSteps ELSE HasOpen(tree) /\ turn.noise < MaxNoise
       ELSE main /\ host.call > 0 /\ S # {}
  /\ tree' = [Opened(tree, S) EXCEPT !.step = TRUE]
  /\ host' = [host EXCEPT !.call = IF main /\ new THEN @ + 1 ELSE @]
  /\ turn' = [turn EXCEPT !.calls = IF main /\ new THEN @ + 1 ELSE @,
                          !.of = [t \in Tools |-> IF t \in S THEN host'.call ELSE @[t]],
                          !.noise = IF main THEN @ ELSE @ + 1]

\* on_user_message: the last result of a tool wins.
ClaudeToolResult(t, mark) ==
  /\ turn.result = "none"
  /\ tree.tool[t] \in {"open", "ok", "error"} \ {mark}
  /\ tree.tool[t] # "open" => turn.noise < MaxNoise
  /\ tree' = With(tree, t, mark)
  /\ turn' = [turn EXCEPT !.noise = IF tree.tool[t] = "open" THEN @ ELSE @ + 1]
  /\ UNCHANGED host

\* on_result_message.
ClaudeResult(kind) ==
  /\ turn.result = "none"
  /\ turn' = [turn EXCEPT !.result = kind]
  /\ UNCHANGED <<tree, host>>

ClaudeMessage ==
  \/ \E main, new \in BOOLEAN, S \in SUBSET Tools : ClaudeAssistant(main, new, S)
  \/ \E t \in Tools, mark \in {"ok", "error"} : ClaudeToolResult(t, mark)
  \/ \E kind \in {"success", "error", "error_max_turns"} : ClaudeResult(kind)

\* _pump_messages: one message, before the deadline.
ClaudeRead ==
  /\ At("claude", "pump") /\ ~ clk.late
  /\ host.busy
  /\ ClaudeMessage
  /\ pc' = "check"
  /\ UNCHANGED <<cfg, agent, clk, last, calls, good>>

\* A message that arrives after the deadline is not dispatched.
ClaudeReadLate ==
  /\ At("claude", "pump") /\ clk.late
  /\ host.busy
  /\ turn' = [turn EXCEPT !.flag = TRUE]
  /\ pc' = "leave"
  /\ UNCHANGED <<cfg, agent, tree, host, clk, last, calls, good>>

\* Mutant: the cap cuts the turn when its last call begins.
ClaudeCheckEarly ==
  /\ At("claude", "check")
  /\ \E stop \in BOOLEAN :
       LET capped == cfg.cap > 0 /\ turn.calls >= cfg.cap
       IN  /\ turn' = [turn EXCEPT !.capped = capped, !.stopped = stop /\ ~ capped]
           /\ host' = IF capped \/ stop THEN [host EXCEPT !.up = FALSE, !.busy = FALSE] ELSE host
           /\ pc' = IF capped \/ stop THEN "leave" ELSE "pump"
  /\ UNCHANGED <<cfg, agent, tree, clk, last, calls, good>>

\* Behind the dispatch: the cap, then the cooperative stop, each kills the
\* CLI and leaves the loop.
ClaudeCheck ==
  /\ At("claude", "check")
  /\ \E stop \in BOOLEAN :
       LET capped == Over(turn.calls)
       IN  /\ turn' = [turn EXCEPT !.capped = capped, !.stopped = stop /\ ~ capped]
           /\ host' = IF capped \/ stop THEN [host EXCEPT !.up = FALSE, !.busy = FALSE] ELSE host
           /\ pc' = IF capped \/ stop THEN "leave" ELSE "pump"
  /\ UNCHANGED <<cfg, agent, tree, clk, last, calls, good>>

\* The stream ends by itself.
ClaudeStreamEnds ==
  /\ At("claude", "pump")
  /\ ~ host.up \/ turn.result # "none"
  /\ host' = [host EXCEPT !.up = FALSE, !.busy = FALSE]
  /\ pc' = "leave"
  /\ UNCHANGED <<cfg, agent, tree, turn, clk, last, calls, good>>

\* A cancelled SDK scope may eat the timer's cancellation; the kill then ends
\* the stream.
ClaudeSwallows ==
  /\ At("claude", "pump") /\ clk.cancel /\ turn.flag /\ ~ clk.asked
  /\ clk' = [clk EXCEPT !.cancel = FALSE]
  /\ UNCHANGED <<cfg, pc, agent, tree, turn, host, last, calls, good>>

-----------------------------------------------------------------------------
(* The ways out. *)

ClaudeCancelled ==
  /\ At("claude", "pump")
  /\ Cancelled(tree, ClaudeTimedOut)
  /\ UNCHANGED <<turn, host>>

\* A ProcessError, or an exception of the SDK: a timeout, the CLI's own
\* max-turns result, or a crash.
ClaudeFails ==
  /\ At("claude", "pump")
  /\ host' = [host EXCEPT !.up = FALSE, !.busy = FALSE]
  /\ IF ~ ClaudeTimedOut /\ turn.result = "error_max_turns"
       THEN pc' = "leave" /\ UNCHANGED <<cfg, agent, tree, clk, last, calls, good>>
       ELSE Raises(tree, IF ClaudeTimedOut THEN "timeout" ELSE "crash")
  /\ UNCHANGED turn

\* The end status of a turn that did not raise.
ClaudeEnd ==
  IF turn.stopped THEN "STOPPED_EARLY"
  ELSE IF turn.capped \/ turn.result = "error_max_turns" THEN "MAX_TURNS_EXHAUSTED"
  ELSE "COMPLETED"

\* The watchdog block is left, and the `finally' finalizes by the flag.
ClaudeFinalize ==
  /\ At("claude", "leave")
  /\ tree' = Closed(tree, IF turn.flag THEN "TIMEOUT" ELSE ClaudeEnd)
  /\ IF turn.flag
       THEN \E kept \in BOOLEAN : agent' = Parked(kept)
       ELSE UNCHANGED agent
  /\ clk' = Disarmed
  /\ pc' = "close"
  /\ UNCHANGED <<cfg, turn, host, last, calls, good>>

\* Mutant: the flag is not read again.
ClaudeExitAlways ==
  /\ At("claude", "close")
  /\ agent' = EndedOk
  /\ last' = "returned"
  /\ pc' = "idle"
  /\ good' = good + 1
  /\ UNCHANGED <<cfg, tree, turn, host, clk, calls>>

\* The flag is read once more: it decides between the record and the raise.
ClaudeExit ==
  /\ At("claude", "close")
  /\ IF turn.flag
       THEN Throws(tree, agent, "timeout", clk.cancel)
       ELSE /\ agent' = EndedOk
            /\ last' = "returned"
            /\ pc' = "idle"
            /\ good' = good + 1
            /\ UNCHANGED <<cfg, tree, clk, calls>>
  /\ UNCHANGED <<turn, host>>

ClaudeGoes == ClaudeCheck \/ ClaudeStreamEnds \/ ClaudeCancelled \/ ClaudeFinalize \/ ClaudeExit

ClaudeNext == ClaudeBegin \/ ClaudeSetupFails \/ ClaudeRead \/ ClaudeReadLate \/ ClaudeSwallows
              \/ ClaudeFails \/ ClaudeGoes
=============================================================================
