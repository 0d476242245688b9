----------------------------- MODULE AgentTurns -----------------------------
(***************************************************************************)
(* Every agent under one contract: the run picks one of them, calls it     *)
(* again and again as the orchestrator does, and may interrupt it.         *)
(***************************************************************************)
EXTENDS ClaudeTurn, CodexTurn, DelegateTurn, CliTurn, AntigravityTurn

\* NoOpAgent.communicate: a clean, empty turn with no await.
NoopTurn ==
  /\ Is("none") /\ MayCall
  /\ tree' = Closed(Started(TRUE), "COMPLETED")
  /\ agent' = [Begun EXCEPT !.bumped = FALSE]
  /\ turn' = NewTurn
  /\ last' = "returned"
  /\ calls' = calls + 1 /\ good' = good + 1
  /\ UNCHANGED <<cfg, pc, host, clk>>

Goes == ClaudeGoes \/ CodexGoes \/ DelegateGoes \/ OpenCodeGoes \/ PiGoes \/ AgyGoes

Next ==
  \/ ClaudeNext \/ CodexNext \/ DelegateNext \/ OpenCodeNext \/ PiNext \/ AgyNext \/ NoopTurn
  \/ Discard \/ Interrupt \/ Clock

\* Bounded code between two awaits runs, and so does the timer thread.  What
\* a model or a CLI does next is left free.
Spec == Init /\ [][Next]_vars /\ WF_vars(Goes) /\ WF_vars(Clock)

-----------------------------------------------------------------------------
TypeOK ==
  /\ cfg \in Configs
  /\ pc \in {"idle", "failed", "pump", "check", "leave", "close", "read", "drained", "recover",
             "drainTasks", "spawn", "reap", "kill", "settle", "drain", "poll", "cancel"}
  /\ agent \in [iteration : 0..MaxCalls, bumped : BOOLEAN, pending : {"none", "partial"}]
  /\ tree.tool \in [Tools -> Marks]
  /\ tree.end \in CleanEnds \cup {"none", "TIMEOUT", "CRASHED"}
  /\ turn.calls \in 0..(MaxSteps + 1)
  /\ host.call \in 0..(MaxSteps + 1)
  /\ last \in Outcomes
  /\ good \in 0..calls

\* Every agent keeps the contract the orchestrator relies on: one AgentEnd,
\* its status, the parked record, and the counted turns.
Contract == INSTANCE TurnContract WITH
  live <- ~ Idle, started <- tree.start, end <- tree.end,
  outcome <- last, parked <- agent.pending, counted <- good

ContractKept == Contract!Spec

\* Between calls the iteration equals the turns that returned: whatever the
\* failed calls left, discard_pending_turn rolls back exactly once.  A turn
\* cut at max_turns is cut right when the model begins the call after it,
\* and every foreground tool of the calls under the cap has its result.
TurnsBooked ==
  /\ TypeOK
  /\ pc = "idle" => agent.iteration = good
  /\ turn.capped =>
       /\ turn.calls = cfg.cap + 1 /\ host.call = cfg.cap + 1
       /\ \A t \in Tools : turn.of[t] \in 1..cfg.cap /\ ~ (Is("antigravity") /\ t \in Shell)
            => tree.tool[t] \in {"ok", "error"}

\* What comes back as a result was earned: a turn whose provider gave up,
\* whose CLI died or said nothing is returned only if the harness had cut it
\* on purpose, and a turn the timer has marked by its end is not returned.
\* And a tool that has its result keeps it: the sweeps of the orphans, of
\* which a turn may run several, only touch open tools.
ResultsStand ==
  [][/\ last = "none" /\ last' = "returned" =>
          /\ ~ turn.flag
          /\ ~ turn.stopped /\ ~ turn.capped =>
               /\ Is("codex") => turn.result = "success"
               /\ cfg.kind \in {"opencode", "pi"} => host.code = "zero" /\ turn.seen
     /\ \A t \in Tools : tree.tool[t] \in {"ok", "error"} /\ tree'.tool[t] # "unseen"
          => tree'.tool[t] \in {"ok", "error"}]_vars

\* A turn reads the work of its own prompt, never what a host still does for
\* an earlier one; a CLI does not outlive its call, and Delegate's host does
\* not outlive a crash or a timeout.
OwnHost ==
  /\ pc \in {"pump", "read", "drain"} /\ host.busy => host.owner = calls
  /\ Idle => /\ cfg.kind \in {"opencode", "pi"} => ~ host.up
             /\ Is("delegate") /\ last \in {"crash", "timeout"} => ~ host.up

\* A cancellation from outside that was delivered ends the call as cancelled
\* or timed out; only Delegate's await of its drain tasks loses one.
CancellationHeld ==
  Idle /\ clk.asked /\ ~ clk.cancel => last \in {"cancelled", "timeout"} \/ clk.eaten

\* Delegate's comment on that await: a caller's cancellation propagates.
\* No run: the code does not keep it (README).
CallerCancelPropagates == Idle /\ clk.asked /\ ~ clk.cancel => last \in {"cancelled", "timeout"}

\* With a turn timeout every call ends.
TurnEnds == cfg.timed /\ ~ Idle ~> Idle

\* What a call leaves behind for the next one: the counted turns, a host that
\* only ever works for its own prompt, and a cancellation that was heard.
CallsKeptApart == TurnsBooked /\ OwnHost /\ CancellationHeld
=============================================================================
