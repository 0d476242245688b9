------------------------------- MODULE CliTurn ------------------------------
(***************************************************************************)
(* OpenCodeAgent and PiAgent.  The control their communicate() have in     *)
(* common: a CLI process for each call, its event lines read against its   *)
(* exit and an inline deadline, a kill behind a cut, and a settlement that *)
(* waits for the exit.  No timer thread.  These steps are parameterised by *)
(* the agent's kind; the events of each agent and its verdict on a CLI     *)
(* that exited follow.                                                     *)
(***************************************************************************)
EXTENDS AgentTurn

CONSTANT RequireTokenTelemetry   \* config.require_token_telemetry

ASSUME RequireTokenTelemetry \in BOOLEAN

Cut == turn.stopped \/ turn.capped

\* The `finally': a CLI that still runs is killed, with no await.
Reaped == [host EXCEPT !.up = FALSE, !.busy = FALSE]

\* The start of the agent and the spawn, or its failure.
CliBegin(k) ==
  /\ Is(k) /\ MayCall
  /\ Enter(FALSE, Started(FALSE))
  /\ host' = NewHost
  /\ pc' = "spawn"

CliSpawned(k) ==
  /\ At(k, "spawn")
  /\ host' = [NewHost EXCEPT !.up = TRUE, !.busy = TRUE, !.owner = calls]
  /\ pc' = "read"
  /\ UNCHANGED <<cfg, agent, tree, turn, clk, last, calls, good>>

\* Behind the line: the cap, then the cooperative stop; each awaits a kill.
CliCheck(k) ==
  /\ At(k, "check")
  /\ \E stop \in BOOLEAN :
       LET capped == Over(turn.calls)
       IN  /\ turn' = [turn EXCEPT !.capped = capped, !.stopped = stop /\ ~ capped]
           /\ pc' = IF capped \/ stop THEN "kill" ELSE "read"
  /\ UNCHANGED <<cfg, agent, tree, host, clk, last, calls, good>>

\* kill: TERM, the grace, KILL, and the sweep of the process groups.
CliKilled(k) ==
  /\ At(k, "kill")
  /\ \E code \in {"zero", "other"} : host' = [Reaped EXCEPT !.code = code]
  /\ CASE turn.why = "timeout" -> Raises(tree, "timeout")
       [] turn.why = "crash"   -> Raises(tree, "crash")
       [] OTHER -> pc' = "settle" /\ UNCHANGED <<cfg, agent, tree, clk, last, calls, good>>
  /\ UNCHANGED turn

\* The CLI exits by itself.
CliExits(k) ==
  /\ Is(k) /\ pc \in {"read", "check", "settle"} /\ host.up
  /\ \E code \in {"zero", "other"} : host' = [Reaped EXCEPT !.code = code]
  /\ UNCHANGED <<cfg, pc, agent, tree, turn, clk, last, calls, good>>

\* The stream ends: at the exit, or before it; a server child that holds the
\* pipe open past the exit costs one bounded drain.
CliStreamEnds(k) ==
  /\ At(k, "read")
  /\ host' = [host EXCEPT !.busy = FALSE]
  /\ pc' = "settle"
  /\ UNCHANGED <<cfg, agent, tree, turn, clk, last, calls, good>>

\* Mutant: the deadline does not bound the wait for the exit.
CliLateReading(k) ==
  /\ At(k, "read") /\ clk.late
  /\ turn' = [turn EXCEPT !.why = "timeout"]
  /\ pc' = "kill"
  /\ UNCHANGED <<cfg, agent, tree, host, clk, last, calls, good>>

\* _timeout_turn, from the loop or from the wait for the exit.
CliLate(k) ==
  /\ Is(k) /\ clk.late
  /\ pc = "read" \/ (pc = "settle" /\ host.up)
  /\ turn' = [turn EXCEPT !.why = "timeout"]
  /\ pc' = "kill"
  /\ UNCHANGED <<cfg, agent, tree, host, clk, last, calls, good>>

\* Without a deadline the exit is waited for only so long.
CliLingers(k) ==
  /\ At(k, "settle") /\ ~ cfg.timed /\ host.up
  /\ turn' = [turn EXCEPT !.why = "crash"]
  /\ pc' = "kill"
  /\ UNCHANGED <<cfg, agent, tree, host, clk, last, calls, good>>

\* The CLI has exited and the agent's own rule decides.
CliSettles(k, Crash) ==
  /\ At(k, "settle") /\ ~ host.up
  /\ IF Crash THEN Raises(tree, "crash")
     ELSE Returns(tree, IF turn.stopped THEN "STOPPED_EARLY"
                        ELSE IF turn.capped THEN "MAX_TURNS_EXHAUSTED" ELSE "COMPLETED")
  /\ UNCHANGED <<turn, host>>

\* A spawn, a read or a handler raises.
CliFails(k) ==
  /\ Is(k) /\ pc \in {"spawn", "read"}
  /\ Raises(tree, "crash")
  /\ host' = Reaped
  /\ UNCHANGED turn

\* Mutant: the clean-up at the exit is left out.
CliCancelledUnreaped(k) ==
  /\ Is(k) /\ pc \in {"spawn", "read", "kill", "settle"}
  /\ Cancelled(tree, FALSE)
  /\ UNCHANGED <<turn, host>>

\* A cancellation at any await; it is never a timeout here.
CliCancelled(k) ==
  /\ Is(k) /\ pc \in {"spawn", "read", "kill", "settle"}
  /\ Cancelled(tree, FALSE)
  /\ host' = Reaped
  /\ UNCHANGED turn

CliGoes(k) == CliSpawned(k) \/ CliCheck(k) \/ CliKilled(k) \/ CliLate(k) \/ CliLingers(k)
              \/ CliCancelled(k)

-----------------------------------------------------------------------------
(* OpenCode: an inner turn is a step, from step_start to step_finish, and  *)
(* a tool is reported once it is finished.  An error event crashes the     *)
(* turn whatever else happened.                                            *)

\* on_step_start: the cap counts these.
OpenCodeStepStart ==
  /\ host.stage = "idle" /\ ~ HasOpen(tree) /\ host.call < MaxSteps
  /\ host' = [host EXCEPT !.stage = "call", !.call = @ + 1]
  /\ turn' = [turn EXCEPT !.calls = @ + 1, !.seen = TRUE]
  /\ tree' = [tree EXCEPT !.step = TRUE]

\* on_tool_use with a state that is not terminal leaves the tool open; any
\* terminal one closes it, opening it first if it is new.
OpenCodeToolUse(t, mark) ==
  /\ host.stage = "call"
  /\ tree.tool[t] = "open" \/ (tree.tool[t] = "unseen")
  /\ mark = "open" => tree.tool[t] = "unseen"
  /\ tree' = With(tree, t, mark)
  /\ turn' = [turn EXCEPT !.of[t] = host.call, !.seen = TRUE]
  /\ UNCHANGED host

\* on_step_finish, with or without usable token counts.
OpenCodeStepFinish(tokens) ==
  /\ host.stage = "call" /\ ~ HasOpen(tree)
  /\ host' = [host EXCEPT !.stage = "idle"]
  /\ turn' = [turn EXCEPT !.ran = @ \/ tokens, !.inCall = TRUE, !.seen = TRUE]
  /\ tree' = [tree EXCEPT !.step = FALSE]

\* on_error.
OpenCodeError ==
  /\ ~ turn.error
  /\ turn' = [turn EXCEPT !.error = TRUE, !.seen = TRUE]
  /\ UNCHANGED <<tree, host>>

OpenCodeEvent ==
  \/ OpenCodeStepStart \/ OpenCodeError
  \/ \E t \in Tools, mark \in {"open", "ok", "error"} : OpenCodeToolUse(t, mark)
  \/ \E tokens \in BOOLEAN : OpenCodeStepFinish(tokens)

OpenCodeRead ==
  /\ At("opencode", "read") /\ ~ clk.late /\ host.busy
  /\ OpenCodeEvent
  /\ pc' = "check"
  /\ UNCHANGED <<cfg, agent, clk, last, calls, good>>

\* _settle_turn: a structured error; an exit code that no cut explains; a
\* clean exit with nothing recognized, or with steps and no tokens.
OpenCodeCrashes ==
  \/ turn.error
  \/ /\ ~ Cut
     /\ \/ host.code = "other"
        \/ ~ turn.seen
        \/ turn.inCall /\ ~ turn.ran /\ RequireTokenTelemetry

OpenCodeCommunicate ==
  \/ CliBegin("opencode") \/ CliStreamEnds("opencode")
  \/ CliFails("opencode") \/ CliExits("opencode") \/ OpenCodeRead

OpenCodeSettles == CliSettles("opencode", OpenCodeCrashes)

OpenCodeGoes == CliGoes("opencode") \/ OpenCodeSettles

OpenCodeNext == OpenCodeCommunicate \/ OpenCodeGoes

-----------------------------------------------------------------------------
(* Pi: an inner turn runs from turn_start to turn_end.  Pi retries a       *)
(* provider error on its own, so a turn_start may follow one that never    *)
(* ended, and a later good turn_end clears the error.                      *)

\* on_turn_start: a dangling inner turn is closed first.
PiTurnStart ==
  /\ ~ HasOpen(tree) /\ host.call < MaxSteps
  /\ host' = [host EXCEPT !.stage = "call", !.call = @ + 1]
  /\ turn' = [turn EXCEPT !.calls = @ + 1, !.seen = TRUE]
  /\ tree' = [tree EXCEPT !.step = TRUE]

\* on_tool_execution_start; a second start of an open tool changes nothing.
PiToolStart(t) ==
  /\ host.stage = "call" /\ t \in Unseen
  /\ tree' = Opened(tree, {t})
  /\ turn' = [turn EXCEPT !.of[t] = host.call, !.seen = TRUE]
  /\ UNCHANGED host

\* on_tool_execution_end.
PiToolEnd(t, mark) ==
  /\ tree.tool[t] = "open"
  /\ tree' = With(tree, t, mark)
  /\ turn' = [turn EXCEPT !.seen = TRUE]
  /\ UNCHANGED host

\* on_turn_end: the error is the last inner turn's.
PiTurnEnd(error) ==
  /\ host.stage = "call" /\ ~ HasOpen(tree)
  /\ host' = [host EXCEPT !.stage = "idle"]
  /\ turn' = [turn EXCEPT !.error = error, !.seen = TRUE]
  /\ tree' = [tree EXCEPT !.step = FALSE]

PiEvent ==
  \/ PiTurnStart
  \/ \E t \in Tools : PiToolStart(t)
  \/ \E t \in Tools, mark \in {"ok", "error"} : PiToolEnd(t, mark)
  \/ \E error \in BOOLEAN : PiTurnEnd(error)

PiRead ==
  /\ At("pi", "read") /\ ~ clk.late /\ host.busy
  /\ PiEvent
  /\ pc' = "check"
  /\ UNCHANGED <<cfg, agent, clk, last, calls, good>>

\* _settle_turn: no arm applies to a turn that was cut.
PiCrashes == ~ Cut /\ (turn.error \/ host.code = "other" \/ ~ turn.seen)

PiCommunicate ==
  \/ CliBegin("pi") \/ CliStreamEnds("pi")
  \/ CliFails("pi") \/ CliExits("pi") \/ PiRead

PiSettles == CliSettles("pi", PiCrashes)

PiGoes == CliGoes("pi") \/ PiSettles

PiNext == PiCommunicate \/ PiGoes
=============================================================================
