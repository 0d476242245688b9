----------------------------- MODULE CodexTurn -----------------------------
(***************************************************************************)
(* CodexAgent._communicate_turn: one thread of an app-server, its          *)
(* notifications read on a worker thread, and a watchdog thread that only  *)
(* marks the turn.  A model call runs from its first item to its           *)
(* tokenUsage; its tools finish in between.  A call that ran tools is      *)
(* followed by the next one at once, for the model gets their results.     *)
(***************************************************************************)
EXTENDS AgentTurn

EndedCleanly == turn.stopped \/ turn.capped

CodexBegin ==
  /\ Is("codex") /\ MayCall
  /\ Enter(TRUE, Started(TRUE))
  /\ host' = [NewHost EXCEPT !.up = TRUE, !.busy = TRUE, !.owner = calls + 1]
  /\ pc' = "read"

\* thread_start or thread.turn raises.
CodexSetupFails ==
  /\ Is("codex") /\ MayCall
  /\ \E step, kept \in BOOLEAN :
       /\ tree' = Closed(Started(step), "CRASHED")
       /\ agent' = [Begun EXCEPT !.pending = IF kept THEN "partial" ELSE "none"]
  /\ turn' = NewTurn
  /\ clk' = [clk EXCEPT !.timer = "off", !.stray = @ \/ clk.timer \in {"firing", "flagged"}]
  /\ calls' = calls + 1
  /\ last' = "crash"
  /\ pc' = "failed"
  /\ UNCHANGED <<cfg, host, good>>

-----------------------------------------------------------------------------
(* The notifications. *)

\* The server works on the call it is in, or begins the next one.
ServerCall == IF host.stage = "call" THEN host.call ELSE host.call + 1

\* _open_api_call.
CodexOpensCall == [turn EXCEPT !.calls = @ + 1, !.inCall = TRUE, !.ran = FALSE]

\* on_item_started: any item of the model opens a call; a tool item is traced.
CodexItemStarted(S) ==
  /\ S \subseteq Unseen /\ Cardinality(S) <= 1
  /\ host.stage = "call" => S # {}
  /\ ServerCall <= MaxSteps
  /\ host' = [host EXCEPT !.stage = "call", !.call = ServerCall]
  /\ LET opened == IF turn.inCall THEN turn ELSE CodexOpensCall
     IN  turn' = [opened EXCEPT !.ran = @ \/ S # {}, !.of = [t \in Tools |-> IF t \in S THEN ServerCall ELSE @[t]]]
  /\ tree' = Opened(tree, S)

\* on_item_completed; an Agent item may have spawned a child thread.
CodexItemCompleted(t, mark) ==
  /\ tree.tool[t] = "open"
  /\ tree' = With(tree, t, mark)
  /\ \E child \in BOOLEAN : turn' = [turn EXCEPT !.spawned = @ \/ child]
  /\ UNCHANGED host

\* on_token_usage_updated.
CodexTokenUsage ==
  /\ host.stage = "call" /\ ~ HasOpen(tree)
  /\ host' = IF turn.ran THEN [host EXCEPT !.call = @ + 1] ELSE [host EXCEPT !.stage = "idle"]
  /\ turn' = IF turn.ran THEN CodexOpensCall ELSE [turn EXCEPT !.inCall = FALSE]
  /\ UNCHANGED tree

CodexNotification ==
  \/ \E S \in SUBSET Tools : CodexItemStarted(S)
  \/ \E t \in Tools, mark \in {"ok", "error"} : CodexItemCompleted(t, mark)
  \/ CodexTokenUsage

\* _run_turn_with_streaming: one notification.
CodexRead ==
  /\ At("codex", "read") /\ host.busy
  /\ CodexNotification
  /\ pc' = "check"
  /\ UNCHANGED <<cfg, agent, clk, last, calls, good>>

\* on_turn_completed; without it the stream may just end.
CodexStreamEnds ==
  /\ At("codex", "read")
  /\ \E result \in {"none", "success", "failed"} :
       /\ ~ host.busy => result = "none"
       /\ turn' = [turn EXCEPT !.result = result]
  /\ host' = [host EXCEPT !.busy = FALSE]
  /\ pc' = "drained"
  /\ UNCHANGED <<cfg, agent, tree, clk, last, calls, good>>

\* Behind the dispatch: the cooperative stop, then the cap.  The interrupt of
\* the server's turn may fail.
CodexCheck ==
  /\ At("codex", "check")
  /\ \E stop \in BOOLEAN :
       LET cut == stop \/ Over(turn.calls)
       IN  /\ turn' = [turn EXCEPT !.stopped = stop, !.capped = cut /\ ~ stop]
           /\ pc' = IF cut THEN "drained" ELSE "read"
           /\ IF cut THEN \E b \in BOOLEAN : host' = [host EXCEPT !.busy = @ /\ b] ELSE UNCHANGED host
  /\ UNCHANGED <<cfg, agent, tree, clk, last, calls, good>>

-----------------------------------------------------------------------------
(* The ways out. *)

\* The inner handler of an exception.
CodexHandles(tr) ==
  IF turn.flag THEN Raises(tr, "timeout")
  ELSE IF EndedCleanly
       THEN tree' = tr /\ pc' = "leave" /\ UNCHANGED <<cfg, agent, clk, last, calls, good>>
       ELSE Raises(tr, "crash")

\* The read raises: the `finally' of the pump closes the orphans first.
CodexReadFails ==
  /\ At("codex", "read")
  /\ host' = [host EXCEPT !.up = FALSE]
  /\ CodexHandles(Swept(tree))
  /\ UNCHANGED turn

\* The pump is over: orphans are closed, a turn without its turn/completed
\* raises, and the children of one that was not stopped are recovered.
CodexDrain ==
  /\ At("codex", "drained")
  /\ \/ turn.result = "none" /\ ~ EndedCleanly /\ CodexHandles(Swept(tree))
     \/ CodexHandles(Swept(tree))    \* rebuilding the transcript raises
     \/ /\ turn.result # "none" \/ EndedCleanly
        /\ tree' = Swept(tree)
        /\ pc' = IF turn.spawned /\ ~ turn.stopped THEN "recover" ELSE "leave"
        /\ UNCHANGED <<cfg, agent, clk, last, calls, good>>
  /\ UNCHANGED <<turn, host>>

\* _recover_subagent_tool_calls: the calls a child's rollout file shows.
CodexRecover ==
  /\ At("codex", "recover")
  /\ \E S \in SUBSET Unseen : tree' = [tree EXCEPT !.tool = [t \in Tools |-> IF t \in S THEN "ok" ELSE @[t]]]
  /\ pc' = "leave"
  /\ UNCHANGED <<cfg, agent, turn, host, clk, last, calls, good>>

\* Mutant: a cancellation behind a cut is ignored like an exception.
CodexCancelledIgnored ==
  /\ Is("codex") /\ pc \in {"read", "recover"}
  /\ IF turn.capped /\ clk.cancel
       THEN /\ pc' = "leave" /\ clk' = [clk EXCEPT !.cancel = FALSE]
            /\ UNCHANGED <<cfg, agent, tree, last, calls, good>>
       ELSE Cancelled(Swept(tree), turn.flag)
  /\ UNCHANGED <<turn, host>>

CodexCancelled ==
  /\ Is("codex") /\ pc \in {"read", "recover"}
  /\ Cancelled(Swept(tree), turn.flag)
  /\ UNCHANGED <<turn, host>>

\* Mutant: a turn the provider gave up is scored.
CodexLeaveScored ==
  /\ At("codex", "leave")
  /\ IF turn.flag THEN Raises(tree, "timeout")
     ELSE Returns(tree, IF turn.stopped THEN "STOPPED_EARLY"
                        ELSE IF turn.capped THEN "MAX_TURNS_EXHAUSTED" ELSE "COMPLETED")
  /\ UNCHANGED <<turn, host>>

\* Behind the watchdog block.
CodexLeave ==
  /\ At("codex", "leave")
  /\ IF turn.flag THEN Raises(tree, "timeout")
     ELSE IF turn.result = "failed" /\ ~ EndedCleanly THEN Raises(tree, "crash")
     ELSE Returns(tree, IF turn.stopped THEN "STOPPED_EARLY"
                        ELSE IF turn.capped THEN "MAX_TURNS_EXHAUSTED" ELSE "COMPLETED")
  /\ UNCHANGED <<turn, host>>

CodexGoes == CodexCheck \/ CodexDrain \/ CodexRecover \/ CodexCancelled \/ CodexLeave

CodexNext == CodexBegin \/ CodexSetupFails \/ CodexRead \/ CodexStreamEnds \/ CodexReadFails \/ CodexGoes
=============================================================================
