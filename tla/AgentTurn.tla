----------------------------- MODULE AgentTurn -----------------------------
(***************************************************************************)
(* What every agent's communicate() shares: the Agent base class with its  *)
(* failure kernels, the event tree a turn emits, the deadline and the      *)
(* cancellations that can cut it.  Each agent extends this module with its *)
(* own stream loop.                                                        *)
(*                                                                         *)
(* An action is the code between two awaits.  Where the ThreadedWatchdog's *)
(* timer thread can act between two reads of one flag, the code between    *)
(* them is split as well.  Texts, tokens and costs are left out.           *)
(***************************************************************************)
EXTENDS Naturals, FiniteSets

CONSTANTS
  Configs,    \* which agent runs, its max_turns (0 for None), whether a timeout is set
  Tools,      \* ids of the tool calls of one turn
  Shell,      \* those that run a command, which Antigravity may put in the background
  MaxCalls,   \* bound: communicate() calls of one agent
  MaxSteps,   \* bound: main-thread model calls of one turn
  MaxNoise    \* bound: stream entries that carry no model call

Agents == {"claude", "codex", "delegate", "opencode", "pi", "antigravity", "none"}

ASSUME AgentTurnAssumption ==
  /\ Configs \subseteq [kind : Agents, cap : Nat, timed : BOOLEAN]
  /\ IsFiniteSet(Tools) /\ Shell \subseteq Tools
  /\ MaxCalls \in Nat /\ MaxSteps \in Nat /\ MaxNoise \in Nat

VARIABLES
  cfg,     \* the configuration of this run
  pc,      \* where communicate() is suspended
  agent,   \* the Agent object: iteration, bump flag, pending_turn, state
  tree,    \* the events of the turn, as its EventCollector holds them
  turn,    \* the per-turn state object
  host,    \* the process, thread or session that does the model's work
  clk,     \* the timer thread, the deadline, the task's cancellation
  last,    \* how the last communicate() ended
  calls,   \* communicate() calls so far
  good     \* history: those that returned a record

vars == <<cfg, pc, agent, tree, turn, host, clk, last, calls, good>>

CleanEnds == {"COMPLETED", "MAX_TURNS_EXHAUSTED", "STOPPED_EARLY"}
Outcomes  == {"none", "returned", "timeout", "crash", "cancelled", "refused"}
Marks     == {"unseen", "open", "ok", "error", "unresolved"}

NewTree == [start |-> FALSE, step |-> FALSE, end |-> "none", tool |-> [t \in Tools |-> "unseen"]]
NewTurn == [flag |-> FALSE, stopped |-> FALSE, capped |-> FALSE,
            calls |-> 0, inCall |-> FALSE, ran |-> FALSE, spawned |-> FALSE, why |-> "none",
            result |-> "none", error |-> FALSE, seen |-> FALSE,
            of |-> [t \in Tools |-> 0], noise |-> 0]
NewHost == [up |-> FALSE, busy |-> FALSE, owner |-> 0, call |-> 0, stage |-> "idle", code |-> "none"]

Idle    == pc \in {"idle", "failed"}
Is(k)   == cfg.kind = k
At(k, l) == Is(k) /\ pc = l

-----------------------------------------------------------------------------
(* The event tree. *)

With(tr, t, mark)    == [tr EXCEPT !.tool[t] = mark]
Opened(tr, S)        == [tr EXCEPT !.tool = [t \in Tools |-> IF t \in S THEN "open" ELSE @[t]]]
HasOpen(tr)          == \E t \in Tools : tr.tool[t] = "open"
Unseen               == {t \in Tools : tree.tool[t] = "unseen"}
OpenTools            == {t \in Tools : tree.tool[t] = "open"}

\* Mutant: the sweep does not look at what was closed.
SweptAll(tr) == [tr EXCEPT !.tool = [t \in Tools |-> IF @[t] # "unseen" THEN "unresolved" ELSE @[t]]]

\* The orphans are closed as unresolved.
Swept(tr) == [tr EXCEPT !.tool = [t \in Tools |-> IF @[t] = "open" THEN "unresolved" ELSE @[t]]]

\* finalize: orphans, the open inner turn, and the one AgentEnd.
Closed(tr, status) == [Swept(tr) EXCEPT !.step = FALSE, !.end = status]

-----------------------------------------------------------------------------
(* Agent: the bookkeeping around one communicate(). *)

\* _begin_turn.
Begun == [agent EXCEPT !.pending = "none", !.iteration = @ + 1, !.bumped = TRUE]

\* _end_turn_ok.
EndedOk == [agent EXCEPT !.bumped = FALSE]

\* The crash tail: _capture_partial_turn keeps the record, unless building it
\* raises.
Parked(kept) == [agent EXCEPT !.pending = IF kept THEN "partial" ELSE "none"]

Over(c)      == cfg.cap > 0 /\ c > cfg.cap
Disarmed     == [clk EXCEPT !.timer = IF @ = "armed" THEN "off" ELSE @, !.late = FALSE]

\* communicate() returns a record built from tr with its end event.
Returns(tr, status) ==
  /\ tree' = Closed(tr, status)
  /\ agent' = EndedOk
  /\ last' = "returned"
  /\ pc' = "idle"
  /\ clk' = Disarmed
  /\ good' = good + 1
  /\ UNCHANGED <<cfg, calls>>

EndOf(how) == IF how = "timeout" THEN "TIMEOUT" ELSE "CRASHED"

\* communicate() raises, with the tree and the agent it leaves behind.
Throws(tr, ag, how, cancel) ==
  /\ tree' = tr
  /\ agent' = ag
  /\ last' = how
  /\ pc' = "failed"
  /\ clk' = [Disarmed EXCEPT !.cancel = cancel]
  /\ UNCHANGED <<cfg, calls, good>>

\* The kernels _finalize_and_raise_timeout and _finalize_and_raise_crash.
Raises(tr, how) ==
  \E kept \in BOOLEAN : Throws(Closed(tr, EndOf(how)), Parked(kept), how, clk.cancel)

\* A CancelledError arrives at an await: a timeout if the turn is marked so,
\* otherwise _finalize_external_cancel and the re-raise.
Cancelled(tr, timedOut) ==
  /\ clk.cancel
  /\ LET how == IF timedOut THEN "timeout" ELSE "cancelled"
     IN  \E kept \in BOOLEAN : Throws(Closed(tr, EndOf(how)), Parked(kept), how, FALSE)

\* Mutant: the counter is rolled back by the slot alone.
DiscardByPending ==
  /\ pc = "failed"
  /\ agent' = [agent EXCEPT !.pending = "none", !.bumped = FALSE,
                            !.iteration = IF agent.pending # "none" THEN @ - 1 ELSE @]
  /\ pc' = "idle"
  /\ tree' = NewTree /\ turn' = NewTurn
  /\ UNCHANGED <<cfg, host, clk, last, calls, good>>

\* Mutant: the flag and the slot are rolled back one by one.
DiscardTwice ==
  /\ pc = "failed"
  /\ agent' = [agent EXCEPT !.pending = "none", !.bumped = FALSE,
                            !.iteration = @ - (IF agent.bumped THEN 1 ELSE 0)
                                            - (IF agent.pending # "none" THEN 1 ELSE 0)]
  /\ pc' = "idle"
  /\ tree' = NewTree /\ turn' = NewTurn
  /\ UNCHANGED <<cfg, host, clk, last, calls, good>>

\* discard_pending_turn, which the caller runs after every failed call.
Discard ==
  /\ pc = "failed"
  /\ agent' = [agent EXCEPT !.pending = "none", !.bumped = FALSE,
                            !.iteration = IF agent.bumped \/ agent.pending # "none" THEN @ - 1 ELSE @]
  /\ pc' = "idle"
  /\ tree' = NewTree /\ turn' = NewTurn
  /\ UNCHANGED <<cfg, host, clk, last, calls, good>>

\* The caller goes on after a turn that returned and retries one that
\* crashed; a timeout and a cancellation end the run.
MayCall == pc = "idle" /\ last \in {"none", "returned", "crash", "refused"} /\ calls < MaxCalls

\* The state of a turn whose stream is about to open.
Enter(armed, tr) ==
  /\ agent' = Begun
  /\ tree' = tr
  /\ turn' = NewTurn
  /\ clk' = [clk EXCEPT !.timer = IF armed /\ cfg.timed THEN "armed" ELSE "off", !.late = FALSE,
                        !.stray = @ \/ clk.timer \in {"firing", "flagged"}]
  /\ calls' = calls + 1
  /\ last' = "none"
  /\ UNCHANGED <<cfg, good>>

Started(step) == [NewTree EXCEPT !.start = TRUE, !.step = step]

-----------------------------------------------------------------------------
(* The deadline, the timer thread of ThreadedWatchdog, and cancellation. *)

TimePasses ==
  /\ cfg.timed /\ ~ Idle /\ ~ clk.late
  /\ clk' = [clk EXCEPT !.late = TRUE]
  /\ UNCHANGED <<cfg, pc, agent, tree, turn, host, last, calls, good>>

\* _fire, up to the callback: from here __exit__ can no longer stop it.
Fire ==
  /\ clk.timer = "armed" /\ clk.late
  /\ clk' = [clk EXCEPT !.timer = "firing"]
  /\ UNCHANGED <<cfg, pc, agent, tree, turn, host, last, calls, good>>

\* on_timeout: it marks the turn; Claude's also kills the CLI of that turn.
OnTimeout ==
  /\ clk.timer = "firing"
  /\ clk' = [clk EXCEPT !.timer = "flagged"]
  /\ turn' = [turn EXCEPT !.flag = TRUE]
  /\ host' = IF Is("claude") THEN [host EXCEPT !.up = FALSE, !.busy = FALSE] ELSE host
  /\ UNCHANGED <<cfg, pc, agent, tree, last, calls, good>>

\* call_soon_threadsafe(task.cancel), whatever the task is doing by then.
PostCancel ==
  /\ \/ clk.timer = "flagged" /\ clk' = [clk EXCEPT !.timer = "off", !.cancel = TRUE]
     \/ clk.stray /\ clk' = [clk EXCEPT !.stray = FALSE, !.cancel = TRUE]
  /\ UNCHANGED <<cfg, pc, agent, tree, turn, host, last, calls, good>>

\* The task's own watchdog or a Ctrl-C: kill_sync, perhaps, and a cancel.
Interrupt ==
  /\ ~ Idle /\ ~ clk.asked
  /\ clk' = [clk EXCEPT !.asked = TRUE, !.cancel = TRUE]
  /\ \/ UNCHANGED host
     \/ host' = IF Is("antigravity") THEN host ELSE [host EXCEPT !.up = FALSE, !.busy = FALSE, !.code = "other"]
  /\ UNCHANGED <<cfg, pc, agent, tree, turn, last, calls, good>>

Clock == TimePasses \/ Fire \/ OnTimeout \/ PostCancel

Init ==
  /\ cfg \in Configs
  /\ pc = "idle"
  /\ agent = [iteration |-> 0, bumped |-> FALSE, pending |-> "none"]
  /\ tree = NewTree
  /\ turn = NewTurn
  /\ host = [NewHost EXCEPT !.up = Is("delegate")]   \* its start() spawns the host
  /\ clk = [timer |-> "off", late |-> FALSE, cancel |-> FALSE, asked |-> FALSE, stray |-> FALSE, eaten |-> FALSE]
  /\ last = "none"
  /\ calls = 0 /\ good = 0
=============================================================================
