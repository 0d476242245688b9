-------------------------- MODULE AgentTurns_proofs --------------------------
(***************************************************************************)
(* Proofs about AgentTurns, for any configurations, any set of tools and   *)
(* any bounds: every agent keeps TurnContract, what comes back as a result *)
(* was earned, and a call leaves nothing to the next one that is not its.  *)
(*                                                                         *)
(* Every action is shown to be one of thirteen moves on the books (the     *)
(* Agent object, the ends of the event tree, how the call stands) and to   *)
(* keep what is known of the stream, the counters, the host and the clock. *)
(* Most actions are of a few kinds: a message is read, the caps are looked *)
(* at, the stream is left, a call ends by a kernel, a call is entered.     *)
(* From the moves alone follow the books and the contract.                 *)
(***************************************************************************)
EXTENDS AgentTurns, TLAPS

-----------------------------------------------------------------------------
(* The invariant, in parts. *)

AgentType == [iteration : Nat, bumped : BOOLEAN, pending : {"none", "partial"}]
TreeType  == [start : BOOLEAN, step : BOOLEAN,
              end : CleanEnds \cup {"none", "TIMEOUT", "CRASHED"}, tool : [Tools -> Marks]]
TurnType  == [flag : BOOLEAN, stopped : BOOLEAN, capped : BOOLEAN,
              calls : Nat, inCall : BOOLEAN, ran : BOOLEAN, spawned : BOOLEAN,
              why : {"none", "cut", "timeout", "crash", "error"},
              result : {"none", "success", "failed", "error", "error_max_turns"},
              error : BOOLEAN, seen : BOOLEAN, of : [Tools -> Nat], noise : Nat]
HostType  == [up : BOOLEAN, busy : BOOLEAN, owner : Nat, call : Nat,
              stage : {"idle", "call", "text", "tools"}, code : {"none", "zero", "other"}]
ClockType == [timer : {"off", "armed", "firing", "flagged"}, late : BOOLEAN, cancel : BOOLEAN,
              asked : BOOLEAN, stray : BOOLEAN, eaten : BOOLEAN]

\* Where an agent of one kind can be suspended.
PlacesOf(k) ==
  CASE k = "claude"            -> {"pump", "check", "leave", "close"}
    [] k = "codex"             -> {"read", "check", "drained", "recover", "leave"}
    [] k = "delegate"          -> {"drainTasks", "spawn", "read", "check", "reap"}
    [] k \in {"opencode", "pi"} -> {"spawn", "read", "check", "kill", "settle"}
    [] k = "antigravity"       -> {"drain", "check", "poll", "cancel", "leave"}
    [] OTHER                   -> {}

Typed ==
  /\ cfg \in Configs
  /\ pc \in {"idle", "failed"} \cup PlacesOf(cfg.kind)
  /\ agent \in AgentType /\ tree \in TreeType /\ turn \in TurnType
  /\ host \in HostType /\ clk \in ClockType
  /\ last \in Outcomes
  /\ calls \in 0 .. MaxCalls /\ good \in 0 .. calls

\* Delegate has no turn yet while it gets itself a host.
Early == Is("delegate") /\ pc \in {"drainTasks", "spawn"}

\* The books of the Agent object, and the events, at each place.
BooksTrue ==
  /\ pc = "idle" =>
       agent.iteration = good /\ ~ agent.bumped /\ agent.pending = "none"
  /\ pc = "failed" =>
       /\ agent.iteration = IF agent.bumped \/ agent.pending # "none" THEN good + 1 ELSE good
       /\ good < calls /\ last \in {"timeout", "crash", "cancelled", "refused"}
  /\ ~ Idle => last = "none" /\ good < calls
  /\ Early =>
       /\ agent.iteration = good /\ ~ agent.bumped /\ agent.pending = "none"
       /\ ~ tree.start /\ tree.end = "none"
  /\ ~ Idle /\ ~ Early => agent.iteration = good + 1 /\ agent.bumped /\ tree.start
  /\ ~ Idle /\ pc # "close" => tree.end = "none" /\ agent.pending = "none"
  /\ pc = "close" => \/ tree.end \in CleanEnds /\ agent.pending = "none"
                     \/ tree.end = "TIMEOUT" /\ turn.flag

\* Only three agents have a timer thread.
TimerTrue ==
  cfg.kind \in {"delegate", "opencode", "pi", "none"} =>
    clk.timer = "off" /\ ~ clk.stray /\ ~ turn.flag

\* The stream is open.
Open == pc \in {"pump", "read", "check", "drain", "poll"}

\* What the agent takes for an open model call is what its host is doing.
Linked ==
  /\ Is("codex") => /\ turn.inCall <=> host.stage = "call"
                    /\ turn.ran => host.call <= MaxSteps
                    /\ ~ turn.inCall => ~ HasOpen(tree)
  /\ Is("delegate") => (turn.inCall <=> host.stage = "text")
  /\ Is("antigravity") => (turn.inCall <=> host.stage = "call")

\* A tool of the model that still runs belongs to the call in progress; a
\* command in the background may be of an earlier one.
ToolsTrue ==
  \A t \in Tools :
    /\ tree.tool[t] # "unresolved"
    /\ turn.of[t] > 0 => tree.tool[t] # "unseen"
    /\ tree.tool[t] = "open" /\ ~ (Is("antigravity") /\ t \in Shell) => turn.of[t] = host.call

\* Before the stream opens, nothing has been seen.
Blank ==
  pc \in {"spawn", "drainTasks"} => turn = NewTurn /\ \A t \in Tools : tree.tool[t] = "unseen"

\* While the stream is open the counter is the model's, and at the cap at most.
CallsTrue ==
  Open => /\ turn.calls = host.call
          /\ cfg.cap > 0 => turn.calls <= (IF pc = "check" THEN cfg.cap + 1 ELSE cfg.cap)
          /\ ~ turn.capped
          /\ Linked /\ ToolsTrue

\* What TurnsBooked says of a turn that was cut, and the bounds.
CutTrue ==
  /\ turn.calls <= MaxSteps + 1 /\ host.call <= MaxSteps + 1
  /\ turn.capped =>
       /\ turn.calls = cfg.cap + 1 /\ host.call = cfg.cap + 1
       /\ \A t \in Tools : turn.of[t] \in 1 .. cfg.cap /\ ~ (Is("antigravity") /\ t \in Shell)
            => tree.tool[t] \in {"ok", "error"}

Cli == cfg.kind \in {"opencode", "pi"}

\* The host works for this call or not at all; what a call leaves of it.
HostTrue ==
  /\ Open /\ host.busy => host.owner = calls
  /\ Cli => /\ Idle => ~ host.up
            /\ pc \in {"read", "check", "kill", "settle"} => host.up \/ host.code \in {"zero", "other"}
  /\ Is("delegate") =>
       /\ host.busy => host.up
       /\ Early => ~ host.busy
       /\ pc = "reap" => ~ host.up
       /\ Idle /\ last \in {"crash", "timeout"} => ~ host.up
       /\ Idle /\ last \in {"none", "returned", "crash", "refused"} => ~ host.busy

\* A cancellation that was delivered ended its call, or was eaten.
CancelTrue ==
  clk.asked /\ ~ clk.cancel /\ ~ clk.eaten => Idle /\ last \in {"cancelled", "timeout"}

\* Codex gets past its pump with a result, or because the harness cut it.
ResultTrue ==
  Is("codex") =>
    /\ turn.result \in {"none", "success", "failed"}
    /\ pc \in {"recover", "leave"} /\ ~ EndedCleanly => turn.result # "none"

IInv ==
  /\ Typed /\ BooksTrue /\ TimerTrue /\ Blank /\ CallsTrue /\ CutTrue
  /\ HostTrue /\ CancelTrue /\ ResultTrue
-----------------------------------------------------------------------------
(* The records the actions are built from. *)

\* What the sweep of the orphans does to a tree (EventCollector.finalize).
Sweeps(tr, tq) ==
  /\ tq.start = tr.start
  /\ \A t \in Tools : tq.tool[t] = IF tr.tool[t] = "open" THEN "unresolved" ELSE tr.tool[t]

\* A sweep closes the orphans and leaves results alone.
LEMMA SweptTree ==
  ASSUME NEW tr \in TreeType
  PROVE  Swept(tr) \in TreeType /\ Sweeps(tr, Swept(tr)) /\ Swept(tr).end = tr.end
  BY DEF TreeType, Swept, Sweeps, Marks

\* A finalization sweeps and ends the tree.
LEMMA ClosedTree ==
  ASSUME NEW tr \in TreeType, NEW status \in CleanEnds \cup {"TIMEOUT", "CRASHED"}
  PROVE  Closed(tr, status) \in TreeType /\ Sweeps(tr, Closed(tr, status))
         /\ Closed(tr, status).end = status
<1>1. Swept(tr) \in TreeType /\ Sweeps(tr, Swept(tr))
  BY SweptTree
<1> QED
  BY <1>1 DEF Closed, TreeType, Sweeps

\* A new turn has seen no tool and ended nothing.
LEMMA NewRecords ==
  /\ NewTree \in TreeType /\ ~ NewTree.start /\ NewTree.end = "none"
  /\ \A t \in Tools : NewTree.tool[t] = "unseen"
  /\ NewTurn \in TurnType /\ ~ NewTurn.flag /\ ~ NewTurn.capped /\ ~ NewTurn.inCall /\ ~ NewTurn.ran
  /\ NewTurn.calls = 0 /\ NewTurn.result = "none" /\ \A t \in Tools : NewTurn.of[t] = 0
  /\ NewHost \in HostType /\ ~ NewHost.up /\ ~ NewHost.busy /\ NewHost.call = 0 /\ NewHost.stage = "idle"
  BY DEF NewTree, NewTurn, NewHost, TreeType, TurnType, HostType, Marks

\* A tree that has started is otherwise new.
LEMMA StartedTree ==
  ASSUME NEW step \in BOOLEAN
  PROVE  /\ Started(step) \in TreeType /\ Started(step).start /\ Started(step).end = "none"
         /\ \A t \in Tools : Started(step).tool[t] = "unseen"
  BY DEF Started, NewTree, TreeType, Marks

\* Opening and closing tools is all an event does to them.
LEMMA OpenedTree ==
  ASSUME NEW tr \in TreeType, NEW S
  PROVE  /\ Opened(tr, S) \in TreeType
         /\ Opened(tr, S).start = tr.start /\ Opened(tr, S).end = tr.end
         /\ \A t \in Tools : Opened(tr, S).tool[t] = IF t \in S THEN "open" ELSE tr.tool[t]
  BY DEF Opened, TreeType, Marks

\* An event on one tool leaves the others alone.
LEMMA WithTree ==
  ASSUME NEW tr \in TreeType, NEW t \in Tools, NEW mark \in Marks
  PROVE  /\ With(tr, t, mark) \in TreeType
         /\ With(tr, t, mark).start = tr.start /\ With(tr, t, mark).end = tr.end
         /\ \A u \in Tools : With(tr, t, mark).tool[u] = IF u = t THEN mark ELSE tr.tool[u]
  BY DEF With, TreeType

\* What the kernels make of the Agent object (Agent._begin_turn, _end_turn_ok
\* and _capture_partial_turn).
LEMMA AgentRecords ==
  ASSUME agent \in AgentType
  PROVE  /\ Begun \in AgentType /\ Begun.iteration = agent.iteration + 1
         /\ Begun.bumped /\ Begun.pending = "none"
         /\ EndedOk \in AgentType /\ EndedOk.iteration = agent.iteration
         /\ ~ EndedOk.bumped /\ EndedOk.pending = agent.pending
         /\ \A kept \in BOOLEAN :
              /\ Parked(kept) \in AgentType /\ Parked(kept).iteration = agent.iteration
              /\ Parked(kept).bumped = agent.bumped
<1>1. /\ Begun \in AgentType /\ Begun.iteration = agent.iteration + 1
      /\ Begun.bumped /\ Begun.pending = "none"
  <2>1. agent.iteration \in Nat /\ DOMAIN agent = {"iteration", "bumped", "pending"}
    BY DEF AgentType
  <2>2. Begun.iteration = agent.iteration + 1 /\ Begun.bumped /\ Begun.pending = "none"
    BY <2>1 DEF Begun
  <2>3. Begun \in AgentType
    <3> DEFINE a == [agent EXCEPT !.pending = "none"]
               n == agent.iteration + 1
               b == [a EXCEPT !.iteration = n]
    <3>1. a \in AgentType /\ a.iteration = agent.iteration /\ n \in Nat
      BY <2>1 DEF AgentType
    <3>2. b \in AgentType
      <4> HIDE DEF a, n
      <4> QED
        BY <3>1 DEF AgentType
    <3>3. Begun = [b EXCEPT !.bumped = TRUE]
      BY <3>1 DEF Begun
    <3> QED
      <4> HIDE DEF b
      <4> QED
        BY <3>2, <3>3 DEF AgentType
  <2> QED
    BY <2>2, <2>3
<1>2. /\ EndedOk \in AgentType /\ EndedOk.iteration = agent.iteration
      /\ ~ EndedOk.bumped /\ EndedOk.pending = agent.pending
  BY DEF AgentType, EndedOk
<1>3. ASSUME NEW kept \in BOOLEAN
      PROVE  /\ Parked(kept) \in AgentType /\ Parked(kept).iteration = agent.iteration
             /\ Parked(kept).bumped = agent.bumped
  BY DEF AgentType, Parked
<1> QED
  BY <1>1, <1>2, <1>3

\* Leaving the watchdog block stops a timer that has not fired.
LEMMA DisarmedClock ==
  ASSUME clk \in ClockType
  PROVE  /\ Disarmed \in ClockType
         /\ Disarmed.timer = (IF clk.timer = "armed" THEN "off" ELSE clk.timer)
         /\ Disarmed.cancel = clk.cancel /\ Disarmed.asked = clk.asked
         /\ Disarmed.stray = clk.stray /\ Disarmed.eaten = clk.eaten
  BY DEF ClockType, Disarmed

\* The places of each agent.
LEMMA PlacesAre ==
  /\ cfg.kind = "claude" => PlacesOf(cfg.kind) = {"pump", "check", "leave", "close"}
  /\ cfg.kind = "codex" => PlacesOf(cfg.kind) = {"read", "check", "drained", "recover", "leave"}
  /\ cfg.kind = "delegate" => PlacesOf(cfg.kind) = {"drainTasks", "spawn", "read", "check", "reap"}
  /\ cfg.kind \in {"opencode", "pi"} => PlacesOf(cfg.kind) = {"spawn", "read", "check", "kill", "settle"}
  /\ cfg.kind = "antigravity" => PlacesOf(cfg.kind) = {"drain", "check", "poll", "cancel", "leave"}
  /\ cfg.kind = "none" => PlacesOf(cfg.kind) = {}
  BY DEF PlacesOf

\* A host that starts on a call.
LEMMA FreshHost ==
  ASSUME NEW n \in Nat, NEW up \in BOOLEAN, NEW busy \in BOOLEAN
  PROVE  LET q == [NewHost EXCEPT !.up = up, !.busy = busy, !.owner = n]
         IN  /\ q \in HostType /\ q.call = 0 /\ q.stage = "idle" /\ q.owner = n
             /\ q.up = up /\ q.busy = busy
  BY DEF NewHost, HostType

\* A call of the model that Codex opens.
LEMMA OpensCall ==
  ASSUME turn \in TurnType
  PROVE  /\ CodexOpensCall \in TurnType /\ CodexOpensCall.calls = turn.calls + 1 /\ CodexOpensCall.of = turn.of
         /\ CodexOpensCall.inCall /\ ~ CodexOpensCall.ran /\ CodexOpensCall.flag = turn.flag
         /\ CodexOpensCall.capped = turn.capped /\ CodexOpensCall.result = turn.result
<1> DEFINE n == turn.calls + 1
<1>1. n \in Nat
  BY DEF TurnType
<1>2. CodexOpensCall = [turn EXCEPT !.calls = n, !.inCall = TRUE, !.ran = FALSE]
  BY DEF CodexOpensCall
<1> HIDE DEF n
<1>3. /\ CodexOpensCall \in TurnType /\ CodexOpensCall.calls = n /\ CodexOpensCall.of = turn.of
      /\ CodexOpensCall.inCall /\ ~ CodexOpensCall.ran /\ CodexOpensCall.flag = turn.flag
      /\ CodexOpensCall.capped = turn.capped /\ CodexOpensCall.result = turn.result
  BY <1>1, <1>2 DEF TurnType
<1> QED
  BY <1>3 DEF n

\* A call that the model begins and its CLI announces.
LEMMA NextCall ==
  ASSUME turn \in TurnType, host \in HostType
  PROVE  /\ LET h == [host EXCEPT !.stage = "call", !.call = @ + 1]
            IN  /\ h \in HostType /\ h.call = host.call + 1 /\ h.up = host.up /\ h.busy = host.busy
                /\ h.owner = host.owner /\ h.code = host.code
         /\ LET u == [turn EXCEPT !.calls = @ + 1, !.seen = TRUE]
            IN  /\ u \in TurnType /\ u.calls = turn.calls + 1 /\ u.of = turn.of
                /\ u.flag = turn.flag /\ u.capped = turn.capped
<1> DEFINE m == host.call + 1
           n == turn.calls + 1
           h == [host EXCEPT !.stage = "call", !.call = m]
           u == [turn EXCEPT !.calls = n, !.seen = TRUE]
<1>1. m \in Nat /\ n \in Nat
  BY DEF TurnType, HostType
<1>2. /\ h \in HostType /\ h.call = m /\ h.up = host.up /\ h.busy = host.busy
      /\ h.owner = host.owner /\ h.code = host.code
  <2> HIDE DEF m
  <2> QED
    BY <1>1 DEF HostType
<1>3. /\ u \in TurnType /\ u.calls = n /\ u.of = turn.of
      /\ u.flag = turn.flag /\ u.capped = turn.capped
  <2> HIDE DEF n
  <2> QED
    BY <1>1 DEF TurnType
<1> QED
  BY <1>2, <1>3

-----------------------------------------------------------------------------
(* What a step can do to the books: the agent, the ends of the tree, how    *)
(* the call stands.  Every action is one of these moves.                    *)

LivePlaces == PlacesOf(cfg.kind)

\* The call goes on, or stays as it is.
MStay ==
  /\ UNCHANGED <<cfg, agent, last, calls, good>>
  /\ tree'.start = tree.start /\ tree'.end = tree.end
  /\ turn.flag => turn'.flag
  /\ \/ pc' = pc
     \/ /\ ~ Idle /\ pc # "close"
        /\ pc' \in LivePlaces \ {"close"}
        /\ Early <=> Early'

\* A call begins with its turn.
MEnter ==
  /\ MayCall
  /\ pc' \in LivePlaces \ {"close"} /\ ~ Early'
  /\ agent' = Begun
  /\ tree'.start /\ tree'.end = "none"
  /\ last' = "none" /\ calls' = calls + 1 /\ UNCHANGED <<cfg, good>>

\* A call begins without one.
MRespawn ==
  /\ MayCall /\ pc' \in LivePlaces /\ Early'
  /\ ~ tree'.start /\ tree'.end = "none"
  /\ last' = "none" /\ calls' = calls + 1 /\ UNCHANGED <<cfg, agent, good>>

\* And gets it.
MSpawned ==
  /\ Early /\ pc' \in LivePlaces \ {"close"} /\ ~ Early'
  /\ agent' = Begun
  /\ tree'.start /\ tree'.end = "none"
  /\ UNCHANGED <<cfg, last, calls, good>>

\* communicate returns.
MReturn ==
  /\ ~ Idle /\ ~ Early /\ pc # "close" /\ pc' = "idle"
  /\ tree'.start = tree.start /\ tree'.end \in CleanEnds
  /\ agent' = EndedOk
  /\ last' = "returned" /\ good' = good + 1 /\ UNCHANGED <<cfg, calls>>

\* communicate raises.
MRaise ==
  /\ ~ Idle /\ ~ Early /\ pc # "close" /\ pc' = "failed"
  /\ last' \in {"timeout", "crash", "cancelled"}
  /\ tree'.start = tree.start /\ tree'.end = EndOf(last')
  /\ \E kept \in BOOLEAN : agent' = Parked(kept)
  /\ UNCHANGED <<cfg, calls, good>>

\* Claude closes its events, and decides.
MClose ==
  /\ Is("claude") /\ ~ Idle /\ pc # "close" /\ pc' = "close"
  /\ tree'.start = tree.start
  /\ UNCHANGED <<cfg, last, calls, good>>
  /\ \/ tree'.end \in CleanEnds /\ UNCHANGED agent
     \/ tree'.end = "TIMEOUT" /\ turn'.flag /\ \E kept \in BOOLEAN : agent' = Parked(kept)

MExit ==
  /\ pc = "close" /\ UNCHANGED <<cfg, tree, calls>>
  /\ IF turn.flag
       THEN pc' = "failed" /\ last' = "timeout" /\ UNCHANGED <<agent, good>>
       ELSE pc' = "idle" /\ last' = "returned" /\ agent' = EndedOk /\ good' = good + 1

\* A set-up fails.
MSetup ==
  /\ MayCall /\ pc' = "failed" /\ last' = "crash"
  /\ agent' \in AgentType
  /\ agent'.iteration = agent.iteration + 1 /\ agent'.bumped
  /\ tree'.end = "CRASHED" /\ tree'.start \in BOOLEAN
  /\ calls' = calls + 1 /\ UNCHANGED <<cfg, good>>

\* Delegate's host is refused.
MRefuse ==
  /\ Early /\ pc' = "failed" /\ last' \in {"refused", "cancelled"}
  /\ UNCHANGED <<cfg, agent, tree, calls, good>>

\* Delegate's last handler is cancelled.
MTear ==
  /\ ~ Idle /\ ~ Early /\ pc # "close" /\ pc' = "failed" /\ last' = "cancelled"
  /\ UNCHANGED <<cfg, agent, tree, calls, good>>

Moves == \/ MStay \/ MEnter \/ MRespawn \/ MSpawned \/ MReturn \/ MRaise \/ MClose \/ MExit
         \/ MSetup \/ MRefuse \/ MTear \/ NoopTurn \/ Discard

\* What ResultsStand says of a step.
Stands ==
  /\ last = "none" /\ last' = "returned" =>
       /\ ~ turn.flag
       /\ ~ turn.stopped /\ ~ turn.capped =>
            /\ Is("codex") => turn.result = "success"
            /\ cfg.kind \in {"opencode", "pi"} => host.code = "zero" /\ turn.seen
  /\ \A t \in Tools : tree.tool[t] \in {"ok", "error"} /\ tree'.tool[t] # "unseen"
       => tree'.tool[t] \in {"ok", "error"}

\* What a step must show.
Good == /\ Moves
        /\ tree' \in TreeType /\ turn' \in TurnType /\ host' \in HostType /\ clk' \in ClockType
        /\ TimerTrue' /\ Blank' /\ CallsTrue' /\ CutTrue'
        /\ HostTrue' /\ CancelTrue' /\ ResultTrue' /\ Stands
-----------------------------------------------------------------------------
(* Kinds of steps. *)

\* The count of the model's calls is left as it is.
SameCount ==
  host'.call = host.call /\ turn'.calls = turn.calls /\ turn'.of = turn.of /\ turn'.capped = turn.capped

\* No tool loses its result.
ResultsKept ==
  \A t \in Tools : tree.tool[t] \in {"ok", "error"} => tree'.tool[t] \in {"ok", "error"}

\* The records a step leaves.
DataTyped == tree' \in TreeType /\ turn' \in TurnType /\ host' \in HostType /\ clk' \in ClockType

\* What is known of the constants and the configuration.
KindFacts ==
  /\ cfg.kind \in Agents /\ cfg.cap \in Nat /\ cfg.timed \in BOOLEAN
  /\ MaxCalls \in Nat /\ MaxSteps \in Nat /\ MaxNoise \in Nat

\* The configuration is one of Configs.
LEMMA Kinds == Typed => KindFacts
  BY AgentTurnAssumption DEF Typed, KindFacts

\* A message of the model is dispatched.
Reads ==
  /\ pc \in {"pump", "read", "drain"} /\ pc' = "check"
  /\ UNCHANGED <<cfg, agent, clk, last, calls, good>>
  /\ tree' \in TreeType /\ tree'.start = tree.start /\ tree'.end = tree.end
  /\ turn' \in TurnType /\ turn'.flag = turn.flag /\ turn'.capped = turn.capped
  /\ Is("codex") => turn'.result = turn.result
  /\ host' \in HostType /\ host'.up = host.up /\ host'.busy = host.busy
  /\ host'.owner = host.owner /\ host'.code = host.code
  /\ turn'.calls = host'.call /\ turn'.calls \in {turn.calls, turn.calls + 1}
  /\ host'.call <= MaxSteps + 1
  /\ Linked'
  /\ \A t \in Tools :
       \/ tree'.tool[t] = tree.tool[t] /\ turn'.of[t] = turn.of[t]
       \/ /\ tree'.tool[t] \in {"open", "ok", "error"} /\ turn'.of[t] = host'.call
          /\ tree.tool[t] \in {"ok", "error"} => tree'.tool[t] \in {"ok", "error"}
       \/ tree.tool[t] # "unseen" /\ tree'.tool[t] \in {"ok", "error"} /\ turn'.of[t] = turn.of[t]
  /\ \/ host'.call = host.call
     \/ \A t \in Tools : tree.tool[t] = "open" => Is("antigravity") /\ t \in Shell

\* A message leaves the books in order.
LEMMA ReadGood ==
  ASSUME IInv, Reads
  PROVE  Good
<1> USE DEF Reads
<1>1. Typed /\ BooksTrue /\ TimerTrue /\ CallsTrue /\ CutTrue /\ HostTrue /\ CancelTrue /\ ResultTrue
  BY DEF IInv
<1>2. KindFacts
  BY <1>1, Kinds
<1>3. cfg' = cfg /\ Open /\ ~ Idle /\ ~ Early /\ ~ Early' /\ ~ Idle'
  BY <1>1, <1>2, PlacesAre DEF Open, Idle, Early, Typed, KindFacts, Is, Agents
<1>4. turn.calls \in Nat /\ turn'.calls \in Nat /\ turn.calls = host.call /\ host'.call \in Nat /\ ~ turn.capped
      /\ (cfg.cap > 0 => turn.calls <= cfg.cap)
  BY <1>1, <1>3 DEF CallsTrue, Typed, TurnType, HostType
<1>5. ToolsTrue'
  <2> SUFFICES ASSUME NEW t \in Tools
               PROVE  /\ tree'.tool[t] # "unresolved"
                      /\ turn'.of[t] > 0 => tree'.tool[t] # "unseen"
                      /\ tree'.tool[t] = "open" /\ ~ (cfg'.kind = "antigravity" /\ t \in Shell)
                           => turn'.of[t] = host'.call
    BY DEF ToolsTrue, Is
  <2>1. /\ tree.tool[t] # "unresolved"
        /\ turn.of[t] > 0 => tree.tool[t] # "unseen"
        /\ tree.tool[t] = "open" /\ ~ (cfg.kind = "antigravity" /\ t \in Shell) => turn.of[t] = host.call
    BY <1>1, <1>3 DEF CallsTrue, ToolsTrue, Is
  <2> QED
    BY <2>1, <1>3 DEF Is
<1>6. CallsTrue'
  BY <1>2, <1>3, <1>4, <1>5 DEF CallsTrue, KindFacts
<1>7. CutTrue'
  BY <1>4 DEF CutTrue
<1>8. Moves
  <2>1. pc' \in LivePlaces \ {"close"}
    BY <1>1, <1>2, PlacesAre DEF Typed, KindFacts, Agents, LivePlaces
  <2> QED
    BY <1>3, <2>1 DEF Moves, MStay
<1>9. HostTrue'
  <2>1. (Open /\ host.busy => host.owner = calls)'
    BY <1>1, <1>3 DEF HostTrue
  <2>2. (Cli => /\ Idle => ~ host.up
                /\ pc \in {"read", "check", "kill", "settle"} => host.up \/ host.code \in {"zero", "other"})'
    BY <1>1, <1>2, <1>3, PlacesAre DEF HostTrue, Cli, Typed, Idle
  <2>3. ~ (pc = "reap")'
    OBVIOUS
  <2> QED
    BY <1>1, <1>3, <2>1, <2>2, <2>3 DEF HostTrue, Is
<1>10. TimerTrue' /\ CancelTrue' /\ ResultTrue' /\ Blank'
  BY <1>1, <1>3 DEF TimerTrue, CancelTrue, ResultTrue, Blank, Idle, Is
<1>11. Stands
  <2>1. last' = last
    OBVIOUS
  <2> QED
    BY <2>1 DEF Stands
<1> QED
  BY <1>1, <1>6, <1>7, <1>8, <1>9, <1>10, <1>11 DEF Good, Typed

\* The caps are looked at behind a message.
Checks ==
  /\ pc = "check" /\ pc' \in LivePlaces \ {"close", "check", "spawn", "drainTasks"}
  /\ Is("codex") => pc' \in {"read", "drained"}
  /\ UNCHANGED <<cfg, agent, tree, clk, last, calls, good>>
  /\ turn' \in TurnType /\ turn'.flag = turn.flag /\ turn'.calls = turn.calls /\ turn'.of = turn.of
  /\ turn'.inCall = turn.inCall /\ turn'.ran = turn.ran /\ turn'.result = turn.result
  /\ turn'.capped => Over(turn.calls)
  /\ Open' => ~ turn'.capped /\ ~ Over(turn.calls)
  /\ host' \in HostType /\ host'.call = host.call /\ host'.stage = host.stage
  /\ HostTrue'

\* A check leaves the books in order: a turn over its cap is cut as its call
\* begins, when no foreground tool of an earlier call is open.
LEMMA CheckGood ==
  ASSUME IInv, Checks
  PROVE  Good
<1> USE DEF Checks
<1>1. Typed /\ BooksTrue /\ TimerTrue /\ CallsTrue /\ CutTrue /\ HostTrue /\ CancelTrue /\ ResultTrue
  BY DEF IInv
<1>2. KindFacts
  BY <1>1, Kinds
<1>3. cfg' = cfg /\ tree' = tree /\ Open /\ ~ Idle /\ ~ Early /\ ~ Early' /\ ~ Idle'
  BY <1>1, <1>2, PlacesAre DEF Open, Idle, Early, Typed, KindFacts, Is, Agents, LivePlaces
<1>4. /\ turn.calls \in Nat /\ turn.calls = host.call /\ host.call \in Nat
      /\ (cfg.cap > 0 => turn.calls <= cfg.cap + 1)
      /\ Linked /\ ToolsTrue
  BY <1>1, <1>3 DEF CallsTrue, Typed, TurnType, HostType
<1>5. CallsTrue'
  <2>1. Linked' /\ ToolsTrue'
    BY <1>3, <1>4 DEF Linked, ToolsTrue, HasOpen, Is
  <2>2. Open' => (cfg.cap > 0 => turn'.calls <= cfg.cap) /\ pc' # "check"
    BY <1>2, <1>4 DEF Over, KindFacts, LivePlaces
  <2> QED
    BY <1>3, <1>4, <2>1, <2>2 DEF CallsTrue
<1>6. CutTrue'
  <2>1. turn'.calls <= MaxSteps + 1 /\ host'.call <= MaxSteps + 1
    BY <1>1, <1>3 DEF CutTrue
  <2>2. ASSUME turn'.capped
        PROVE  turn'.calls = cfg.cap + 1 /\ host'.call = cfg.cap + 1
    BY <1>2, <1>4, <2>2 DEF Over, KindFacts
  <2>3. ASSUME turn'.capped, NEW t \in Tools, turn.of[t] \in 1 .. cfg.cap,
               ~ (Is("antigravity") /\ t \in Shell)
        PROVE  tree.tool[t] \in {"ok", "error"}
    <3>1. turn.of[t] # host.call /\ turn.of[t] > 0
      BY <1>2, <2>2, <2>3 DEF KindFacts
    <3>2. tree.tool[t] \notin {"unseen", "open", "unresolved"}
      BY <1>4, <2>3, <3>1 DEF ToolsTrue
    <3> QED
      BY <1>1, <3>2 DEF Typed, TreeType, Marks
  <2> QED
    BY <1>3, <2>1, <2>2, <2>3 DEF CutTrue, Is
<1>7. Moves
  <2>1. pc' \in LivePlaces \ {"close"}
    BY PlacesAre DEF LivePlaces, Is
  <2> QED
    BY <1>3, <2>1 DEF Moves, MStay
<1>8. TimerTrue' /\ CancelTrue' /\ Blank'
  BY <1>1, <1>3 DEF TimerTrue, CancelTrue, Blank, Idle, Is
<1>9. ResultTrue'
  BY <1>1, <1>3 DEF ResultTrue, Is
<1>10. Stands
  <2>1. last' = last
    OBVIOUS
  <2> QED
    BY <1>3, <2>1 DEF Stands
<1> QED
  BY <1>1, <1>3, <1>5, <1>6, <1>7, <1>8, <1>9, <1>10 DEF Good, Typed

\* The stream is left, or never opened, and the call goes on.
Passes ==
  /\ ~ Idle /\ ~ Early /\ pc # "close"
  /\ pc' \in LivePlaces \ {"close", "pump", "read", "check", "drain", "poll", "spawn", "drainTasks"}
  /\ UNCHANGED <<cfg, agent, clk, last, calls, good>>
  /\ DataTyped
  /\ tree'.start = tree.start /\ tree'.end = tree.end
  /\ ResultsKept /\ SameCount
  /\ turn.flag => turn'.flag
  /\ turn'.flag => turn.flag \/ Is("claude")
  /\ HostTrue' /\ ResultTrue'

\* Such a step leaves the books in order.
LEMMA PassGood ==
  ASSUME IInv, Passes
  PROVE  Good
<1> USE DEF Passes
<1>1. Typed /\ BooksTrue /\ TimerTrue /\ CutTrue /\ CancelTrue
  BY DEF IInv
<1>2. ~ Early' /\ ~ Idle' /\ ~ Open'
  BY <1>1, Kinds, PlacesAre DEF Early, Open, Idle, LivePlaces, KindFacts, Agents
<1>3. Blank' /\ CallsTrue'
  BY <1>2 DEF Blank, CallsTrue
<1>4. CutTrue'
  BY <1>1 DEF CutTrue, SameCount, ResultsKept, Is
<1>5. Moves
  BY <1>2 DEF Moves, MStay
<1>6. TimerTrue' /\ CancelTrue'
  BY <1>1 DEF TimerTrue, CancelTrue, DataTyped, TurnType, Is, Typed
<1>7. Stands
  <2>1. last' = last
    OBVIOUS
  <2> QED
    BY <2>1 DEF Stands, ResultsKept
<1> QED
  BY <1>3, <1>4, <1>5, <1>6, <1>7 DEF Good, DataTyped

\* A step beside the call: nothing that is counted moves.
Stills ==
  /\ \/ pc' = pc
     \/ Is("antigravity") /\ pc \in {"drain", "poll"} /\ pc' \in {"drain", "poll"}
  /\ UNCHANGED <<cfg, agent, tree, last, calls, good>>
  /\ DataTyped /\ SameCount
  /\ turn.flag => turn'.flag
  /\ turn'.inCall = turn.inCall /\ turn'.ran = turn.ran /\ turn'.result = turn.result
  /\ turn'.stopped = turn.stopped \/ Is("antigravity")
  /\ turn' = turn \/ cfg.kind \in {"claude", "codex", "antigravity"}
  /\ host'.stage = host.stage
  /\ TimerTrue' /\ HostTrue' /\ CancelTrue'

\* It leaves the books in order.
LEMMA StillGood ==
  ASSUME IInv, Stills
  PROVE  Good
<1> USE DEF Stills
<1>1. Typed /\ BooksTrue /\ Blank /\ CallsTrue /\ CutTrue /\ ResultTrue
  BY DEF IInv
<1>2. KindFacts
  BY <1>1, Kinds
<1>3. cfg' = cfg /\ tree' = tree /\ (Idle' <=> Idle) /\ (Early' <=> Early) /\ (Open' <=> Open)
  BY DEF Idle, Early, Open, Is
<1>4. CallsTrue'
  BY <1>1, <1>3 DEF CallsTrue, SameCount, Linked, ToolsTrue, HasOpen, Is
<1>5. CutTrue'
  BY <1>1, <1>3 DEF CutTrue, SameCount, Is
<1>6. Blank'
  BY <1>1, <1>2, <1>3, PlacesAre DEF Blank, Typed
<1>7. ResultTrue'
  BY <1>1, <1>3 DEF ResultTrue, SameCount, EndedCleanly, Is
<1>8. Moves
  BY <1>1, <1>3, PlacesAre DEF Moves, MStay, LivePlaces, Idle, Is
<1>9. Stands
  <2>1. last' = last
    OBVIOUS
  <2> QED
    BY <1>3, <2>1 DEF Stands
<1> QED
  BY <1>4, <1>5, <1>6, <1>7, <1>8, <1>9 DEF Good, DataTyped

\* What a call leaves when it ends: a tree that was swept and closed.
Ends(tr) ==
  /\ ~ Idle /\ ~ Early /\ pc # "close"
  /\ tr \in TreeType /\ tr.start = tree.start
  /\ \A t \in Tools : tree.tool[t] \in {"ok", "error"} => tr.tool[t] \in {"ok", "error"}
  /\ turn' \in TurnType /\ turn'.flag = turn.flag
  /\ Is("codex") => turn'.result = turn.result
  /\ host' \in HostType /\ SameCount
  /\ HostTrue'

\* Closing the events keeps every result.
LEMMA ClosedKeeps ==
  ASSUME NEW tr, Ends(tr), NEW status \in CleanEnds \cup {"TIMEOUT", "CRASHED"}
  PROVE  /\ Closed(tr, status) \in TreeType /\ Closed(tr, status).end = status
         /\ Closed(tr, status).start = tree.start
         /\ \A t \in Tools : tree.tool[t] \in {"ok", "error"} => Closed(tr, status).tool[t] \in {"ok", "error"}
<1>1. /\ Closed(tr, status) \in TreeType /\ Sweeps(tr, Closed(tr, status))
      /\ Closed(tr, status).end = status
  BY ClosedTree DEF Ends
<1> HIDE DEF Ends
<1> QED
  BY <1>1 DEF Ends, Sweeps

\* A call that raises leaves the books in order.
LEMMA ThrowGood ==
  ASSUME IInv, NEW tr, Ends(tr), NEW how \in {"timeout", "crash", "cancelled"}, NEW kept \in BOOLEAN,
         NEW c \in BOOLEAN, c = clk.cancel \/ how \in {"timeout", "cancelled"},
         Throws(Closed(tr, EndOf(how)), Parked(kept), how, c)
  PROVE  Good
<1>1. Typed /\ BooksTrue /\ TimerTrue /\ CutTrue /\ CancelTrue /\ ResultTrue
  BY DEF IInv
<1>2. EndOf(how) \in CleanEnds \cup {"TIMEOUT", "CRASHED"}
  BY DEF EndOf
<1>3. /\ tree' \in TreeType /\ tree'.end = EndOf(how) /\ tree'.start = tree.start /\ ResultsKept
  BY <1>2, ClosedKeeps DEF Throws, ResultsKept
<1>4. /\ agent' = Parked(kept) /\ last' = how /\ pc' = "failed" /\ UNCHANGED <<cfg, calls, good>>
      /\ clk' = [Disarmed EXCEPT !.cancel = c]
  BY DEF Throws
<1>5. /\ clk' \in ClockType /\ clk'.cancel = c /\ clk'.asked = clk.asked /\ clk'.eaten = clk.eaten
      /\ clk'.stray = clk.stray /\ (clk.timer = "off" => clk'.timer = "off")
  <2>1. /\ Disarmed \in ClockType
        /\ Disarmed.timer = (IF clk.timer = "armed" THEN "off" ELSE clk.timer)
        /\ Disarmed.asked = clk.asked /\ Disarmed.stray = clk.stray /\ Disarmed.eaten = clk.eaten
    BY <1>1, DisarmedClock DEF Typed
  <2> QED
    BY <1>4, <2>1 DEF ClockType
<1>6. ~ Open' /\ ~ Early' /\ Idle'
  BY <1>4 DEF Open, Early, Idle
<1>7. Moves
  BY <1>3, <1>4 DEF Moves, MRaise, Ends
<1>8. TimerTrue' /\ CancelTrue'
  BY <1>1, <1>4, <1>5, <1>6 DEF TimerTrue, CancelTrue, Ends, TurnType, ClockType, Typed
<1>9. Blank' /\ CallsTrue'
  BY <1>4, <1>6 DEF Blank, CallsTrue
<1>10. CutTrue'
  BY <1>1, <1>3, <1>4 DEF CutTrue, Ends, SameCount, ResultsKept, Is
<1>11. ResultTrue'
  BY <1>1, <1>4 DEF ResultTrue, Ends, Is
<1>12. Stands
  BY <1>3, <1>4 DEF Stands, ResultsKept
<1> QED
  BY <1>3, <1>5, <1>7, <1>8, <1>9, <1>10, <1>11, <1>12 DEF Good, Ends

\* A call that is failed by its kernel leaves the books in order.
LEMMA RaiseGood ==
  ASSUME IInv, NEW tr, Ends(tr), NEW how \in {"timeout", "crash"}, Raises(tr, how)
  PROVE  Good
<1>1. PICK kept \in BOOLEAN : Throws(Closed(tr, EndOf(how)), Parked(kept), how, clk.cancel)
  BY DEF Raises
<1>2. clk.cancel \in BOOLEAN
  BY DEF IInv, Typed, ClockType
<1> QED
  BY <1>1, <1>2, ThrowGood

\* So does one that is cancelled.
LEMMA CancelGood ==
  ASSUME IInv, NEW tr, Ends(tr), NEW timedOut \in BOOLEAN, Cancelled(tr, timedOut)
  PROVE  Good
<1> DEFINE how == IF timedOut THEN "timeout" ELSE "cancelled"
<1>1. PICK kept \in BOOLEAN : Throws(Closed(tr, EndOf(how)), Parked(kept), how, FALSE)
  BY DEF Cancelled
<1>2. how \in {"timeout", "cancelled"}
  OBVIOUS
<1> HIDE DEF how
<1> QED
  BY <1>1, <1>2, ThrowGood

\* A call that returns leaves the books in order, if its turn was earned.
LEMMA ReturnGood ==
  ASSUME IInv, NEW tr, Ends(tr), NEW status \in CleanEnds, Returns(tr, status),
         ~ turn.flag,
         ~ turn.stopped /\ ~ turn.capped =>
           /\ Is("codex") => turn.result = "success"
           /\ cfg.kind \in {"opencode", "pi"} => host.code = "zero" /\ turn.seen,
         clk.asked /\ ~ clk.cancel => clk.eaten
  PROVE  Good
<1>1. Typed /\ BooksTrue /\ TimerTrue /\ CutTrue /\ CancelTrue /\ ResultTrue
  BY DEF IInv
<1>3. /\ tree' \in TreeType /\ tree'.end = status /\ tree'.start = tree.start /\ ResultsKept
  BY ClosedKeeps DEF Returns, ResultsKept
<1>4. /\ agent' = EndedOk /\ last' = "returned" /\ pc' = "idle" /\ UNCHANGED <<cfg, calls>>
      /\ clk' = Disarmed /\ good' = good + 1
  BY DEF Returns
<1>5. /\ clk' \in ClockType /\ clk'.cancel = clk.cancel /\ clk'.asked = clk.asked /\ clk'.eaten = clk.eaten
      /\ clk'.stray = clk.stray /\ (clk.timer = "off" => clk'.timer = "off")
  BY <1>1, <1>4, DisarmedClock DEF Typed
<1>6. ~ Open' /\ ~ Early' /\ Idle'
  BY <1>4 DEF Open, Early, Idle
<1>7. Moves
  BY <1>3, <1>4 DEF Moves, MReturn, Ends
<1>8. TimerTrue' /\ CancelTrue'
  BY <1>1, <1>4, <1>5, <1>6 DEF TimerTrue, CancelTrue, Ends, TurnType, ClockType, Typed
<1>9. Blank' /\ CallsTrue'
  BY <1>4, <1>6 DEF Blank, CallsTrue
<1>10. CutTrue'
  BY <1>1, <1>3, <1>4 DEF CutTrue, Ends, SameCount, ResultsKept, Is
<1>11. ResultTrue'
  BY <1>1, <1>4 DEF ResultTrue, Ends, Is
<1>12. Stands
  BY <1>3, <1>4 DEF Stands, ResultsKept
<1> QED
  BY <1>3, <1>5, <1>7, <1>8, <1>9, <1>10, <1>11, <1>12 DEF Good, Ends

\* A call that begins with its turn finds the books in order.
LEMMA EnterGood ==
  ASSUME IInv, MayCall, NEW armed \in BOOLEAN, NEW step \in BOOLEAN, Enter(armed, Started(step)),
         armed => cfg.kind \in {"claude", "codex", "antigravity"},
         host' \in HostType, host'.call = 0, host'.stage = "idle",
         pc' \in LivePlaces \cap {"pump", "read", "drain", "spawn"}, ~ (Is("delegate") /\ pc' = "spawn"),
         HostTrue'
  PROVE  Good
<1>1. Typed /\ BooksTrue /\ TimerTrue /\ CancelTrue
  BY DEF IInv
<1>2. KindFacts
  BY <1>1, Kinds
<1>3. /\ agent' = Begun /\ tree' = Started(step) /\ turn' = NewTurn /\ calls' = calls + 1
      /\ last' = "none" /\ cfg' = cfg /\ good' = good
  BY DEF Enter
<1>4. /\ clk' \in ClockType /\ clk'.cancel = clk.cancel /\ clk'.asked = clk.asked /\ clk'.eaten = clk.eaten
      /\ (clk.timer = "off" /\ ~ clk.stray /\ ~ armed => clk'.timer = "off" /\ ~ clk'.stray)
  BY <1>1, <1>2 DEF Enter, Typed, ClockType, KindFacts
<1>5. /\ tree' \in TreeType /\ tree'.start /\ tree'.end = "none"
      /\ \A t \in Tools : tree'.tool[t] = "unseen"
  BY <1>3, StartedTree
<1>6. /\ turn' \in TurnType /\ ~ turn'.flag /\ ~ turn'.capped /\ ~ turn'.inCall /\ ~ turn'.ran
      /\ turn'.calls = 0 /\ turn'.result = "none" /\ \A t \in Tools : turn'.of[t] = 0
  BY <1>3, NewRecords
<1>7. Idle /\ ~ Early' /\ ~ Idle' /\ pc' # "close" /\ pc' # "check" /\ pc' \notin {"recover", "leave"}
  BY <1>3 DEF MayCall, Idle, Early, Is
<1>8. Moves
  BY <1>3, <1>5, <1>7 DEF Moves, MEnter
<1>9. TimerTrue' /\ CancelTrue'
  <2>1. clk.asked /\ ~ clk.cancel /\ ~ clk.eaten => FALSE
    BY <1>1 DEF CancelTrue, MayCall
  <2>2. cfg.kind \in {"delegate", "opencode", "pi", "none"} => ~ armed
    OBVIOUS
  <2> QED
    BY <1>1, <1>3, <1>4, <1>6, <2>1, <2>2 DEF TimerTrue, CancelTrue
<1>10. Blank'
  BY <1>3, <1>5 DEF Blank
<1>11. CallsTrue'
  BY <1>2, <1>3, <1>5, <1>6, <1>7 DEF CallsTrue, Linked, ToolsTrue, HasOpen, Is, KindFacts
<1>12. CutTrue'
  BY <1>2, <1>6 DEF CutTrue, KindFacts
<1>13. ResultTrue'
  BY <1>6, <1>7 DEF ResultTrue, Is
<1>14. Stands
  BY <1>3, <1>5 DEF Stands
<1> QED
  BY <1>4, <1>5, <1>6, <1>8, <1>9, <1>10, <1>11, <1>12, <1>13, <1>14 DEF Good

\* A set-up that fails leaves the books in order.
LEMMA SetupGood ==
  ASSUME IInv, MayCall, NEW kept \in BOOLEAN, NEW tr \in {NewTree, Started(TRUE), Started(FALSE)},
         agent' = [Begun EXCEPT !.pending = IF kept THEN "partial" ELSE "none"],
         tree' = Closed(tr, "CRASHED"), turn' = NewTurn,
         clk' = [clk EXCEPT !.timer = "off", !.stray = @ \/ clk.timer \in {"firing", "flagged"}],
         calls' = calls + 1, last' = "crash", pc' = "failed",
         cfg' = cfg, host' = host, good' = good, cfg.kind \in {"claude", "codex"}
  PROVE  Good
<1>1. Typed /\ BooksTrue /\ TimerTrue /\ CancelTrue /\ CutTrue
  BY DEF IInv
<1>2. KindFacts
  BY <1>1, Kinds
<1>4. /\ clk' \in ClockType /\ clk'.cancel = clk.cancel /\ clk'.asked = clk.asked /\ clk'.eaten = clk.eaten
  BY <1>1 DEF Typed, ClockType
<1>5. /\ tree' \in TreeType /\ tree'.end = "CRASHED"
      /\ \A t \in Tools : tree'.tool[t] = "unseen"
  <2>1. tr \in TreeType /\ \A t \in Tools : tr.tool[t] = "unseen"
    BY StartedTree, NewRecords
  <2> QED
    BY <2>1, ClosedTree DEF Sweeps
<1>6. /\ turn' \in TurnType /\ ~ turn'.flag /\ ~ turn'.capped
      /\ turn'.calls = 0 /\ turn'.result = "none" /\ \A t \in Tools : turn'.of[t] = 0
  BY NewRecords
<1>7. Idle /\ Idle' /\ ~ Open'
  BY DEF MayCall, Idle, Open
<1>8. agent' \in AgentType /\ agent'.iteration = agent.iteration + 1 /\ agent'.bumped
  <2>1. Begun \in AgentType /\ Begun.iteration = agent.iteration + 1 /\ Begun.bumped
    BY <1>1, AgentRecords DEF Typed
  <2> QED
    BY <2>1 DEF AgentType
<1>9. Moves
  BY <1>5, <1>8 DEF Moves, MSetup, TreeType
<1>10. TimerTrue' /\ CancelTrue'
  <2>1. clk.asked /\ ~ clk.cancel /\ ~ clk.eaten => FALSE
    BY <1>1 DEF CancelTrue, MayCall
  <2> QED
    BY <1>1, <1>4, <1>6, <2>1 DEF TimerTrue, CancelTrue
<1>11. Blank' /\ CallsTrue' /\ ResultTrue'
  BY <1>6, <1>7 DEF Blank, CallsTrue, ResultTrue, Is
<1>12. CutTrue'
  BY <1>1, <1>2, <1>6 DEF CutTrue, KindFacts
<1>13. HostTrue'
  BY <1>7 DEF HostTrue, Cli, Is
<1>14. Stands
  BY <1>5 DEF Stands
<1> QED
  BY <1>1, <1>4, <1>5, <1>6, <1>9, <1>10, <1>11, <1>12, <1>13, <1>14 DEF Good, Typed
-----------------------------------------------------------------------------
(* Antigravity. *)

\* A call begins on the conversation.
LEMMA AgyBeginGood == ASSUME IInv, AgyBegin PROVE Good
<1>1. Typed
  BY DEF IInv
<1>2. MayCall /\ Enter(TRUE, Started(TRUE)) /\ Is("antigravity") /\ cfg' = cfg /\ calls' = calls + 1 /\ last' = "none"
  BY DEF AgyBegin, Enter
<1>3. /\ host' \in HostType /\ host'.call = 0 /\ host'.stage = "idle" /\ host'.owner = calls'
  <2>1. calls + 1 \in Nat
    BY <1>1, Kinds DEF Typed, KindFacts
  <2> QED
    BY <1>2, <2>1, FreshHost DEF AgyBegin
<1>4. HostTrue'
  BY <1>2, <1>3 DEF HostTrue, Cli, Is
<1>5. pc' \in LivePlaces \cap {"pump", "read", "drain", "spawn"}
  BY <1>2, PlacesAre DEF AgyBegin, LivePlaces, Is
<1> QED
  BY <1>2, <1>3, <1>4, <1>5, EnterGood DEF Is

\* A step of the model opens a call, or belongs to the one that is open.
LEMMA AgyReadGood == ASSUME IInv, AgyRead PROVE Good
<1>1. Typed /\ CallsTrue /\ CutTrue
  BY DEF IInv
<1>2. /\ Is("antigravity") /\ pc = "drain" /\ pc' = "check" /\ UNCHANGED <<cfg, agent, clk, last, calls, good>>
  BY DEF AgyRead, At
<1>3. /\ turn.calls = host.call /\ host.call \in Nat /\ turn.calls \in Nat
      /\ turn \in TurnType /\ host \in HostType /\ tree \in TreeType
      /\ host.call <= MaxSteps + 1 /\ (turn.inCall <=> host.stage = "call")
      /\ turn.inCall \in BOOLEAN
  BY <1>1, <1>2 DEF CallsTrue, CutTrue, Linked, Open, Typed, HostType, TurnType
<1>4. MaxSteps \in Nat
  BY <1>1, Kinds DEF KindFacts
<1> DEFINE m == IF turn.inCall THEN host.call ELSE host.call + 1
<1>5. m \in Nat
  BY <1>3
<1>6. ASSUME host.stage = "call" \/ (Foreground = {} /\ host.call < MaxSteps)
      PROVE  /\ m \in {host.call, host.call + 1} /\ m <= MaxSteps + 1
             /\ m = host.call \/ \A t \in Tools : tree.tool[t] = "open" => t \in Shell
  BY <1>3, <1>4, <1>6 DEF Foreground, OpenTools
<1>7. ASSUME NEW S \in SUBSET Tools, AgyModelStep(S)
      PROVE  Reads
  <2>1. host' = [host EXCEPT !.stage = "call", !.call = m]
    BY <1>3, <1>7 DEF AgyModelStep
  <2>2. /\ host' \in HostType /\ host'.call = m /\ host'.up = host.up /\ host'.busy = host.busy
        /\ host'.owner = host.owner /\ host'.code = host.code /\ host'.stage = "call"
    <3> HIDE DEF m
    <3> QED
      BY <1>3, <1>5, <2>1 DEF HostType
  <2> DEFINE f == [t \in Tools |-> IF t \in S THEN m ELSE turn.of[t]]
  <2>3. f \in [Tools -> Nat]
    <3> HIDE DEF m
    <3> QED
      BY <1>3, <1>5 DEF TurnType
  <2>4. turn' = [turn EXCEPT !.inCall = TRUE, !.calls = m, !.of = f]
    BY <1>3, <1>7, <2>2 DEF AgyModelStep, TurnType
  <2>5. /\ turn' \in TurnType /\ turn'.calls = m /\ turn'.of = f /\ turn'.inCall
        /\ turn'.flag = turn.flag /\ turn'.capped = turn.capped
    <3> HIDE DEF m, f
    <3> QED
      BY <1>3, <1>5, <2>3, <2>4 DEF TurnType
  <2>6. /\ tree' \in TreeType /\ tree'.start = tree.start /\ tree'.end = tree.end
        /\ \A t \in Tools : tree'.tool[t] = IF t \in S THEN "open" ELSE tree.tool[t]
    BY <1>3, <1>7, OpenedTree DEF AgyModelStep
  <2>7. /\ m \in {host.call, host.call + 1} /\ m <= MaxSteps + 1
        /\ m = host.call \/ \A t \in Tools : tree.tool[t] = "open" => t \in Shell
    <3>1. host.stage = "call" \/ (Foreground = {} /\ host.call < MaxSteps)
      BY <1>7 DEF AgyModelStep
    <3> QED
      BY <1>6, <3>1
  <2>8. \A t \in S : tree.tool[t] = "unseen"
    BY <1>7 DEF AgyModelStep, Unseen
  <2>9. Linked'
    BY <1>2, <2>2, <2>5 DEF Linked, Is
  <2> HIDE DEF m
  <2> QED
    BY <1>2, <1>3, <2>2, <2>5, <2>6, <2>7, <2>8, <2>9 DEF Reads, Is
<1>8. ASSUME NEW t \in Tools, NEW mark \in {"ok", "error"}, AgyToolDone(t, mark)
      PROVE  Reads
  <2>1. mark \in Marks
    BY DEF Marks
  <2>2. /\ tree' \in TreeType /\ tree'.start = tree.start /\ tree'.end = tree.end
        /\ \A u \in Tools : tree'.tool[u] = IF u = t THEN mark ELSE tree.tool[u]
    BY <1>3, <1>8, <2>1, WithTree DEF AgyToolDone
  <2>3. turn' = turn /\ host' = host /\ tree.tool[t] = "open"
    BY <1>8 DEF AgyToolDone
  <2>4. Linked'
    BY <1>2, <1>3, <2>3 DEF Linked, Is
  <2> QED
    BY <1>2, <1>3, <2>2, <2>3, <2>4 DEF Reads, Is
<1>9. ASSUME AgyUsage
      PROVE  Reads
  <2>1. host' = [host EXCEPT !.stage = "idle", !.call = m] /\ turn' = [turn EXCEPT !.inCall = FALSE, !.calls = m]
    BY <1>3, <1>9 DEF AgyUsage
  <2>2. /\ host' \in HostType /\ host'.call = m /\ host'.up = host.up /\ host'.busy = host.busy
        /\ host'.owner = host.owner /\ host'.code = host.code /\ host'.stage = "idle"
        /\ turn' \in TurnType /\ turn'.calls = m /\ turn'.of = turn.of /\ ~ turn'.inCall
        /\ turn'.flag = turn.flag /\ turn'.capped = turn.capped
    <3> HIDE DEF m
    <3> QED
      BY <1>3, <1>5, <2>1 DEF HostType, TurnType
  <2>3. /\ m \in {host.call, host.call + 1} /\ m <= MaxSteps + 1
        /\ m = host.call \/ \A t \in Tools : tree.tool[t] = "open" => t \in Shell
    <3>1. host.stage = "call" \/ (Foreground = {} /\ host.call < MaxSteps)
      BY <1>9 DEF AgyUsage
    <3> QED
      BY <1>6, <3>1
  <2>4. tree' = tree
    BY <1>9 DEF AgyUsage
  <2>5. Linked'
    BY <1>2, <2>2 DEF Linked, Is
  <2> HIDE DEF m
  <2> QED
    BY <1>2, <1>3, <2>2, <2>3, <2>4, <2>5 DEF Reads, Is
<1> QED
  BY <1>7, <1>8, <1>9, ReadGood DEF AgyRead, AgyStep

\* The cooperative stop and the cap behind a step.
LEMMA AgyCheckGood == ASSUME IInv, AgyCheck PROVE Good
<1>1. Typed /\ HostTrue
  BY DEF IInv
<1>2. PICK stop \in BOOLEAN :
       LET cut == stop \/ Over(turn.calls)
       IN  /\ turn' = [turn EXCEPT !.stopped = stop, !.capped = cut /\ ~ stop]
           /\ pc' = IF cut THEN "cancel" ELSE "drain"
  BY DEF AgyCheck
<1>3. Is("antigravity") /\ pc = "check" /\ UNCHANGED <<cfg, agent, tree, host, clk, last, calls, good>>
  BY DEF AgyCheck, At
<1>4. Over(turn.calls) \in BOOLEAN
  BY DEF Over
<1>5. /\ turn' \in TurnType /\ turn'.flag = turn.flag /\ turn'.calls = turn.calls /\ turn'.of = turn.of
      /\ turn'.inCall = turn.inCall /\ turn'.ran = turn.ran /\ turn'.result = turn.result
      /\ (turn'.capped => Over(turn.calls))
  BY <1>1, <1>2, <1>4 DEF Typed, TurnType
<1>6. pc' \in {"cancel", "drain"} /\ (Open' => ~ Over(turn.calls))
  BY <1>2 DEF Open
<1>7. HostTrue'
  BY <1>1, <1>3, <1>6 DEF HostTrue, Open, Cli, Is
<1>8. pc' \in LivePlaces \ {"close", "check", "spawn", "drainTasks"}
  BY <1>3, <1>6, PlacesAre DEF LivePlaces, Is
<1> QED
  BY <1>1, <1>3, <1>5, <1>6, <1>7, <1>8, CheckGood DEF Checks, Is, Typed

\* The drain is over: the turn is left, or looks for its background commands.
LEMMA AgyGoesOnGood ==
  ASSUME IInv, Is("antigravity"), pc \in {"drain", "poll", "cancel"},
         \/ pc' \in {"leave", "cancel"}
         \/ pc # "cancel" /\ pc' \in {"poll", "drain"},
         UNCHANGED <<cfg, agent, tree, clk, last, calls, good>>,
         turn' \in TurnType, turn'.flag = turn.flag, turn'.inCall = turn.inCall, turn'.ran = turn.ran,
         turn'.result = turn.result,
         host' \in HostType, host'.stage = host.stage, host'.owner = host.owner, host'.busy => host.busy, SameCount
  PROVE  Good
<1>1. Typed /\ HostTrue /\ TimerTrue /\ CancelTrue
  BY DEF IInv
<1>2. HostTrue' /\ ResultTrue'
  BY <1>1 DEF HostTrue, ResultTrue, Open, Cli, Is
<1>3. CASE pc' \in {"leave", "cancel"}
  <2>1. pc' \in LivePlaces \ {"close", "pump", "read", "check", "drain", "poll", "spawn", "drainTasks"}
    BY <1>3, PlacesAre DEF LivePlaces, Is
  <2> QED
    BY <1>1, <1>2, <2>1, PassGood DEF Passes, DataTyped, ResultsKept, Typed, Idle, Early, Is
<1>4. CASE pc # "cancel" /\ pc' \in {"poll", "drain"}
  <2>1. TimerTrue' /\ CancelTrue'
    BY <1>1, <1>4 DEF TimerTrue, CancelTrue, Is, Idle
  <2> QED
    BY <1>1, <1>2, <1>4, <2>1, StillGood DEF Stills, DataTyped, Typed, Is
<1> QED
  BY <1>3, <1>4

\* The model goes idle.
LEMMA AgyIdlesGood == ASSUME IInv, AgyIdles PROVE Good
<1>1. host \in HostType /\ turn \in TurnType
  BY DEF IInv, Typed
<1>2. /\ turn' \in TurnType /\ turn'.flag = turn.flag /\ turn'.calls = turn.calls /\ turn'.of = turn.of
      /\ turn'.capped = turn.capped /\ turn'.inCall = turn.inCall /\ turn'.ran = turn.ran
      /\ turn'.result = turn.result
  <2> DEFINE n == IF pc' = "poll" THEN turn.noise + 1 ELSE turn.noise
  <2>1. n \in Nat
    BY <1>1 DEF TurnType
  <2>2. turn' = [turn EXCEPT !.noise = n]
    BY <1>1 DEF AgyIdles
  <2> HIDE DEF n
  <2> QED
    BY <1>1, <2>1, <2>2 DEF TurnType
<1>3. pc' \in {"poll", "leave"} /\ UNCHANGED <<cfg, agent, tree, host, clk, last, calls, good>>
  BY DEF AgyIdles
<1> QED
  BY <1>1, <1>2, <1>3, AgyGoesOnGood DEF AgyIdles, At, SameCount

\* One sleep of the poll.
LEMMA AgyPollGood == ASSUME IInv, AgyPoll PROVE Good
<1>1. host \in HostType /\ turn \in TurnType
  BY DEF IInv, Typed
<1>2. PICK stop \in BOOLEAN, expired \in BOOLEAN :
        /\ turn' = [turn EXCEPT !.stopped = stop /\ ~ (turn.flag \/ expired)]
        /\ pc' = IF turn.flag \/ expired THEN "leave" ELSE IF stop THEN "cancel" ELSE "drain"
  BY DEF AgyPoll
<1>3. /\ turn' \in TurnType /\ turn'.flag = turn.flag /\ turn'.calls = turn.calls /\ turn'.of = turn.of
      /\ turn'.capped = turn.capped /\ turn'.inCall = turn.inCall /\ turn'.ran = turn.ran
      /\ turn'.result = turn.result
  <2>1. (stop /\ ~ (turn.flag \/ expired)) \in BOOLEAN
    OBVIOUS
  <2> QED
    BY <1>1, <1>2, <2>1 DEF TurnType
<1>4. pc' \in {"leave", "cancel", "drain"} /\ UNCHANGED <<cfg, agent, tree, host, clk, last, calls, good>>
  BY <1>2 DEF AgyPoll
<1> QED
  BY <1>1, <1>3, <1>4, AgyGoesOnGood DEF AgyPoll, At, SameCount

\* The server-side cancel of a cut turn.
LEMMA AgyCancelsGood == ASSUME IInv, AgyCancels PROVE Good
<1>1. host \in HostType /\ turn \in TurnType
  BY DEF IInv, Typed
<1>2. PICK b \in BOOLEAN : host' = [host EXCEPT !.busy = @ /\ b]
  BY DEF AgyCancels
<1>3. /\ host' \in HostType /\ host'.stage = host.stage /\ host'.owner = host.owner /\ host'.call = host.call
      /\ (host'.busy => host.busy)
  BY <1>1, <1>2 DEF HostType
<1> QED
  BY <1>1, <1>3, AgyGoesOnGood DEF AgyCancels, At, SameCount

\* An exception ends the call as a timeout or a crash.
LEMMA AgyFailsGood == ASSUME IInv, AgyFails PROVE Good
<1>1. Typed /\ HostTrue
  BY DEF IInv
<1>2. Is("antigravity") /\ pc = "drain" /\ turn' = turn /\ host' = host
  BY DEF AgyFails, At
<1>3. PICK how \in {"timeout", "crash"} : Raises(tree, how)
  BY DEF AgyFails
<1>4. cfg' = cfg /\ pc' = "failed"
  BY <1>3 DEF Raises, Throws
<1>5. HostTrue'
  BY <1>2, <1>4 DEF HostTrue, Open, Cli, Is
<1>6. Ends(tree)
  BY <1>1, <1>2, <1>5 DEF Ends, SameCount, Typed, Is, Idle, Early
<1> QED
  BY <1>3, <1>6, RaiseGood

\* A cancellation ends the call.
LEMMA AgyCancelledGood == ASSUME IInv, AgyCancelled PROVE Good
<1>1. Typed /\ HostTrue
  BY DEF IInv
<1>2. Is("antigravity") /\ pc \in {"drain", "poll", "cancel"} /\ Cancelled(tree, turn.flag) /\ turn' = turn /\ host' = host
  BY DEF AgyCancelled
<1>3. cfg' = cfg /\ pc' = "failed"
  BY <1>2 DEF Cancelled, Throws
<1>4. HostTrue'
  BY <1>2, <1>3 DEF HostTrue, Open, Cli, Is
<1>5. Ends(tree) /\ turn.flag \in BOOLEAN
  BY <1>1, <1>2, <1>4 DEF Ends, SameCount, Typed, Is, Idle, Early, TurnType
<1> QED
  BY <1>2, <1>5, CancelGood

\* A marked turn is not returned, whatever cut it.
LEMMA AgyLeaveGood == ASSUME IInv, AgyLeave PROVE Good
<1>1. Typed /\ HostTrue /\ CancelTrue
  BY DEF IInv
<1>2. Is("antigravity") /\ pc = "leave" /\ turn' = turn /\ host' = host
  BY DEF AgyLeave, At
<1>3. cfg' = cfg /\ pc' \in {"idle", "failed"}
  BY DEF AgyLeave, Raises, Throws, Returns
<1>4. HostTrue'
  BY <1>2, <1>3 DEF HostTrue, Open, Cli, Is
<1>5. Ends(tree)
  BY <1>1, <1>2, <1>4 DEF Ends, SameCount, Typed, Is, Idle, Early
<1>6. CASE turn.flag
  BY <1>5, <1>6, RaiseGood DEF AgyLeave
<1>7. CASE ~ turn.flag
  <2>1. PICK status \in CleanEnds : Returns(tree, status)
    BY <1>7 DEF AgyLeave, CleanEnds
  <2>2. clk.asked /\ ~ clk.cancel => clk.eaten
    BY <1>1, <1>2 DEF CancelTrue, Idle
  <2> QED
    BY <1>2, <1>5, <1>7, <2>1, <2>2, ReturnGood DEF Is
<1> QED
  BY <1>6, <1>7
-----------------------------------------------------------------------------
(* Claude. *)

\* A call begins: the watchdog is armed and the CLI works for this call.
LEMMA ClaudeBeginGood == ASSUME IInv, ClaudeBegin PROVE Good
<1>1. Typed
  BY DEF IInv
<1>2. MayCall /\ Enter(TRUE, Started(FALSE)) /\ Is("claude") /\ cfg' = cfg /\ calls' = calls + 1 /\ last' = "none"
  BY DEF ClaudeBegin, Enter
<1>3. /\ host' \in HostType /\ host'.call = 0 /\ host'.stage = "idle" /\ host'.owner = calls'
  <2>1. calls + 1 \in Nat
    BY <1>1, Kinds DEF Typed, KindFacts
  <2> QED
    BY <1>2, <2>1, FreshHost DEF ClaudeBegin
<1>4. HostTrue'
  BY <1>2, <1>3 DEF HostTrue, Cli, Is
<1>5. pc' \in LivePlaces \cap {"pump", "read", "drain", "spawn"}
  BY <1>2, PlacesAre DEF ClaudeBegin, LivePlaces, Is
<1> QED
  BY <1>2, <1>3, <1>4, <1>5, EnterGood DEF Is

\* Its set-up may fail before the AgentStart.
LEMMA ClaudeSetupFailsGood == ASSUME IInv, ClaudeSetupFails PROVE Good
<1>1. PICK kept \in BOOLEAN : agent' = [Begun EXCEPT !.pending = IF kept THEN "partial" ELSE "none"]
  BY DEF ClaudeSetupFails
<1>2. NewTree \in {NewTree, Started(TRUE), Started(FALSE)}
  OBVIOUS
<1> QED
  BY <1>1, <1>2, SetupGood DEF ClaudeSetupFails, Is

\* An assistant message opens a call of the model, or belongs to the one that
\* is open, or to a subagent of it.
LEMMA ClaudeAssistantReads ==
  ASSUME IInv, ClaudeRead, NEW main \in BOOLEAN, NEW new \in BOOLEAN, NEW S \in SUBSET Tools,
         ClaudeAssistant(main, new, S)
  PROVE  Reads
<1>1. Typed /\ CallsTrue /\ CutTrue
  BY DEF IInv
<1>2. /\ Is("claude") /\ pc = "pump" /\ pc' = "check" /\ UNCHANGED <<cfg, agent, clk, last, calls, good>>
  BY DEF ClaudeRead, At
<1>3. turn.calls = host.call /\ host.call \in Nat /\ turn \in TurnType /\ host \in HostType /\ host.call <= MaxSteps + 1
  BY <1>1, <1>2 DEF CallsTrue, Open, Typed, HostType, CutTrue
<1>4. /\ host' \in HostType /\ host'.up = host.up /\ host'.busy = host.busy
      /\ host'.owner = host.owner /\ host'.code = host.code /\ host'.stage = host.stage
      /\ host'.call = IF main /\ new THEN host.call + 1 ELSE host.call
  BY <1>3 DEF ClaudeAssistant, HostType
<1>5. host'.call \in Nat
  BY <1>4 DEF HostType
<1>6. /\ turn' \in TurnType /\ turn'.flag = turn.flag /\ turn'.capped = turn.capped
      /\ turn'.calls = (IF main /\ new THEN turn.calls + 1 ELSE turn.calls)
      /\ turn'.of = [t \in Tools |-> IF t \in S THEN host'.call ELSE turn.of[t]]
  <2> DEFINE c == IF main /\ new THEN turn.calls + 1 ELSE turn.calls
             f == [t \in Tools |-> IF t \in S THEN host'.call ELSE turn.of[t]]
             n == IF main THEN turn.noise ELSE turn.noise + 1
  <2>1. c \in Nat /\ n \in Nat
    BY <1>3 DEF TurnType
  <2>2. f \in [Tools -> Nat]
    BY <1>3, <1>5 DEF TurnType
  <2>3. turn' = [turn EXCEPT !.calls = c, !.of = f, !.noise = n]
    BY <1>3 DEF ClaudeAssistant, TurnType
  <2> HIDE DEF c, f, n
  <2>4. turn' \in TurnType /\ turn'.flag = turn.flag /\ turn'.capped = turn.capped
        /\ turn'.calls = c /\ turn'.of = f
    BY <1>3, <2>1, <2>2, <2>3 DEF TurnType
  <2> QED
    BY <2>4 DEF c, f
<1>7. /\ tree' \in TreeType /\ tree'.start = tree.start /\ tree'.end = tree.end
      /\ \A t \in Tools : tree'.tool[t] = IF t \in S THEN "open" ELSE tree.tool[t]
  <2>1. /\ Opened(tree, S) \in TreeType
        /\ Opened(tree, S).start = tree.start /\ Opened(tree, S).end = tree.end
        /\ \A t \in Tools : Opened(tree, S).tool[t] = IF t \in S THEN "open" ELSE tree.tool[t]
    BY <1>1, OpenedTree DEF Typed
  <2>2. tree' = [Opened(tree, S) EXCEPT !.step = TRUE]
    BY DEF ClaudeAssistant
  <2> QED
    BY <2>1, <2>2 DEF TreeType
<1>8. \A t \in S : tree.tool[t] = "unseen"
  BY DEF ClaudeAssistant, Unseen
<1>9. main /\ new => host.call < MaxSteps /\ \A t \in Tools : tree.tool[t] # "open"
  BY DEF ClaudeAssistant, HasOpen
<1>10. host'.call <= MaxSteps + 1
  BY <1>1, <1>3, <1>4, <1>9, Kinds DEF KindFacts
<1>11. Linked'
  BY <1>2 DEF Linked, Is
<1> QED
  BY <1>2, <1>3, <1>4, <1>6, <1>7, <1>8, <1>9, <1>10, <1>11 DEF Reads, Is

\* A message is dispatched.
LEMMA ClaudeReadGood == ASSUME IInv, ClaudeRead PROVE Good
<1>1. Typed /\ CallsTrue /\ CutTrue
  BY DEF IInv
<1>2. /\ Is("claude") /\ pc = "pump" /\ pc' = "check" /\ UNCHANGED <<cfg, agent, clk, last, calls, good>>
  BY DEF ClaudeRead, At
<1>3. turn.calls = host.call /\ host.call \in Nat /\ turn \in TurnType /\ host \in HostType /\ host.call <= MaxSteps + 1
  BY <1>1, <1>2 DEF CallsTrue, Open, Typed, HostType, CutTrue
<1>4. Linked'
  BY <1>2 DEF Linked, Is
<1>5. ASSUME NEW main \in BOOLEAN, NEW new \in BOOLEAN, NEW S \in SUBSET Tools, ClaudeAssistant(main, new, S)
      PROVE  Reads
  BY <1>5, ClaudeAssistantReads
<1>6. ASSUME NEW t \in Tools, NEW mark \in {"ok", "error"}, ClaudeToolResult(t, mark)
      PROVE  Reads
  <2>1. /\ tree' \in TreeType /\ tree'.start = tree.start /\ tree'.end = tree.end
        /\ \A u \in Tools : tree'.tool[u] = IF u = t THEN mark ELSE tree.tool[u]
    <3>1. mark \in Marks
      BY DEF Marks
    <3> QED
      BY <1>1, <1>6, <3>1, WithTree DEF ClaudeToolResult, Typed
  <2>2. /\ turn' \in TurnType /\ turn'.flag = turn.flag /\ turn'.capped = turn.capped
        /\ turn'.calls = turn.calls /\ turn'.of = turn.of
    BY <1>3, <1>6 DEF ClaudeToolResult, TurnType
  <2>3. host' = host /\ tree.tool[t] # "unseen"
    BY <1>6 DEF ClaudeToolResult
  <2> QED
    BY <1>2, <1>3, <1>4, <2>1, <2>2, <2>3 DEF Reads, Is
<1>7. ASSUME NEW kind \in {"success", "error", "error_max_turns"}, ClaudeResult(kind)
      PROVE  Reads
  <2>1. /\ turn' \in TurnType /\ turn'.flag = turn.flag /\ turn'.capped = turn.capped
        /\ turn'.calls = turn.calls /\ turn'.of = turn.of /\ tree' = tree /\ host' = host
    BY <1>3, <1>7 DEF ClaudeResult, TurnType
  <2> QED
    BY <1>1, <1>2, <1>3, <1>4, <2>1 DEF Reads, Is, Typed
<1> QED
  BY <1>5, <1>6, <1>7, ReadGood DEF ClaudeRead, ClaudeMessage

\* A message behind the deadline marks the turn and is dropped.
LEMMA ClaudeReadLateGood == ASSUME IInv, ClaudeReadLate PROVE Good
<1>1. Typed /\ HostTrue
  BY DEF IInv
<1>2. /\ Is("claude") /\ pc = "pump" /\ pc' = "leave" /\ UNCHANGED <<cfg, agent, tree, host, clk, last, calls, good>>
      /\ turn' = [turn EXCEPT !.flag = TRUE]
  BY DEF ClaudeReadLate, At
<1>3. HostTrue' /\ ResultTrue'
  BY <1>1, <1>2 DEF HostTrue, ResultTrue, Open, Cli, Early, Is
<1> QED
  BY <1>1, <1>2, <1>3, PassGood, PlacesAre
     DEF Passes, DataTyped, ResultsKept, SameCount, LivePlaces, Early, Idle, Is, Typed, TurnType

\* The cap and the cooperative stop behind a message.
LEMMA ClaudeCheckGood == ASSUME IInv, ClaudeCheck PROVE Good
<1>1. Typed /\ HostTrue
  BY DEF IInv
<1>2. PICK stop \in BOOLEAN :
        LET capped == Over(turn.calls)
        IN  /\ turn' = [turn EXCEPT !.capped = capped, !.stopped = stop /\ ~ capped]
            /\ host' = IF capped \/ stop THEN [host EXCEPT !.up = FALSE, !.busy = FALSE] ELSE host
            /\ pc' = IF capped \/ stop THEN "leave" ELSE "pump"
  BY DEF ClaudeCheck
<1>3. Is("claude") /\ pc = "check" /\ UNCHANGED <<cfg, agent, tree, clk, last, calls, good>>
  BY DEF ClaudeCheck, At
<1>4. Over(turn.calls) \in BOOLEAN
  BY DEF Over
<1>5. /\ turn' \in TurnType /\ turn'.flag = turn.flag /\ turn'.calls = turn.calls /\ turn'.of = turn.of
      /\ turn'.inCall = turn.inCall /\ turn'.ran = turn.ran /\ turn'.result = turn.result
      /\ turn'.capped = Over(turn.calls)
  BY <1>1, <1>2, <1>4 DEF Typed, TurnType
<1>6. /\ host' \in HostType /\ host'.call = host.call /\ host'.stage = host.stage
      /\ host'.owner = host.owner /\ (host'.busy => host.busy)
  BY <1>1, <1>2 DEF Typed, HostType
<1>7. pc' \in {"leave", "pump"} /\ (Open' => ~ Over(turn.calls))
  BY <1>2 DEF Open
<1>8. HostTrue'
  BY <1>1, <1>3, <1>6 DEF HostTrue, Open, Cli, Is
<1>9. pc' \in LivePlaces \ {"close", "check", "spawn", "drainTasks"}
  BY <1>3, <1>7, PlacesAre DEF LivePlaces, Is
<1> QED
  BY <1>3, <1>5, <1>6, <1>7, <1>8, <1>9, CheckGood DEF Checks, Is

\* The stream ends by itself.
LEMMA ClaudeStreamEndsGood == ASSUME IInv, ClaudeStreamEnds PROVE Good
<1>1. Typed /\ HostTrue
  BY DEF IInv
<1>2. /\ Is("claude") /\ pc = "pump" /\ pc' = "leave" /\ UNCHANGED <<cfg, agent, tree, turn, clk, last, calls, good>>
      /\ host' = [host EXCEPT !.up = FALSE, !.busy = FALSE]
  BY DEF ClaudeStreamEnds, At
<1>3. host' \in HostType /\ host'.call = host.call
  BY <1>1, <1>2 DEF Typed, HostType
<1>4. HostTrue' /\ ResultTrue'
  BY <1>1, <1>2 DEF HostTrue, ResultTrue, Open, Cli, Early, Is
<1> QED
  BY <1>1, <1>2, <1>3, <1>4, PassGood, PlacesAre
     DEF Passes, DataTyped, ResultsKept, SameCount, LivePlaces, Early, Idle, Is, Typed

\* The SDK eats the cancellation of the timer, never one from outside.
LEMMA ClaudeSwallowsGood == ASSUME IInv, ClaudeSwallows PROVE Good
<1>1. Typed /\ HostTrue /\ TimerTrue
  BY DEF IInv
<1>2. /\ Is("claude") /\ UNCHANGED <<cfg, pc, agent, tree, turn, host, last, calls, good>> /\ ~ clk.asked
      /\ clk' = [clk EXCEPT !.cancel = FALSE]
  BY DEF ClaudeSwallows, At
<1>3. clk' \in ClockType /\ clk'.asked = clk.asked
  BY <1>1, <1>2 DEF Typed, ClockType
<1>4. HostTrue' /\ TimerTrue' /\ CancelTrue'
  BY <1>1, <1>2, <1>3 DEF HostTrue, TimerTrue, CancelTrue, Open, Cli, Early, Is, Idle
<1> QED
  BY <1>1, <1>2, <1>3, <1>4, StillGood DEF Stills, DataTyped, SameCount, Typed, Is

\* A cancellation ends the call as a timeout or as cancelled.
LEMMA ClaudeCancelledGood == ASSUME IInv, ClaudeCancelled PROVE Good
<1>1. Typed /\ HostTrue
  BY DEF IInv
<1>2. Is("claude") /\ pc = "pump" /\ Cancelled(tree, ClaudeTimedOut) /\ turn' = turn /\ host' = host
  BY DEF ClaudeCancelled, At
<1>3. cfg' = cfg /\ pc' = "failed" /\ last' \in {"timeout", "cancelled"} /\ calls' = calls
  BY <1>2 DEF Cancelled, Throws
<1>4. ClaudeTimedOut \in BOOLEAN
  BY <1>1 DEF ClaudeTimedOut, Typed, TurnType, ClockType
<1>5. HostTrue'
  BY <1>2, <1>3 DEF HostTrue, Open, Cli, Is
<1>6. Ends(tree)
  BY <1>1, <1>2, <1>5 DEF Ends, SameCount, Typed, Is, Idle, Early
<1> QED
  BY <1>2, <1>4, <1>6, CancelGood

\* An exception of the SDK is the CLI's own cap, a timeout or a crash.
LEMMA ClaudeFailsGood == ASSUME IInv, ClaudeFails PROVE Good
<1>1. Typed /\ HostTrue
  BY DEF IInv
<1>2. Is("claude") /\ pc = "pump" /\ turn' = turn /\ host' = [host EXCEPT !.up = FALSE, !.busy = FALSE]
  BY DEF ClaudeFails, At
<1>3. host' \in HostType /\ host'.call = host.call
  BY <1>1, <1>2 DEF Typed, HostType
<1>4. CASE ~ ClaudeTimedOut /\ turn.result = "error_max_turns"
  <2>1. pc' = "leave" /\ UNCHANGED <<cfg, agent, tree, clk, last, calls, good>>
    BY <1>4 DEF ClaudeFails
  <2>2. HostTrue' /\ ResultTrue'
    BY <1>2, <2>1 DEF HostTrue, ResultTrue, Open, Cli, Is
  <2> QED
    BY <1>1, <1>2, <1>3, <2>1, <2>2, PassGood, PlacesAre
       DEF Passes, DataTyped, ResultsKept, SameCount, LivePlaces, Early, Idle, Is, Typed
<1>5. CASE ~ (~ ClaudeTimedOut /\ turn.result = "error_max_turns")
  <2>1. PICK how \in {"timeout", "crash"} : Raises(tree, how)
    BY <1>5 DEF ClaudeFails
  <2>2. cfg' = cfg /\ pc' = "failed"
    BY <2>1 DEF Raises, Throws
  <2>3. HostTrue'
    BY <1>2, <2>2 DEF HostTrue, Open, Cli, Is
  <2>4. Ends(tree)
    BY <1>1, <1>2, <1>3, <2>3 DEF Ends, SameCount, Typed, Is, Idle, Early
  <2> QED
    BY <2>1, <2>4, RaiseGood
<1> QED
  BY <1>4, <1>5

\* The events are closed by the flag as it is then.
LEMMA ClaudeFinalizeGood == ASSUME IInv, ClaudeFinalize PROVE Good
<1>1. Typed /\ BooksTrue /\ TimerTrue /\ CutTrue /\ HostTrue /\ CancelTrue
  BY DEF IInv
<1>2. /\ Is("claude") /\ pc = "leave" /\ pc' = "close" /\ UNCHANGED <<cfg, turn, host, last, calls, good>>
      /\ tree' = Closed(tree, IF turn.flag THEN "TIMEOUT" ELSE ClaudeEnd) /\ clk' = Disarmed
  BY DEF ClaudeFinalize, At
<1>3. ClaudeEnd \in CleanEnds
  BY DEF ClaudeEnd, CleanEnds
<1>4. /\ tree' \in TreeType /\ tree'.start = tree.start
      /\ tree'.end = (IF turn.flag THEN "TIMEOUT" ELSE ClaudeEnd)
      /\ \A t \in Tools : tree'.tool[t] = IF tree.tool[t] = "open" THEN "unresolved" ELSE tree.tool[t]
  BY <1>1, <1>2, <1>3, ClosedTree DEF Typed, Sweeps
<1>5. /\ clk' \in ClockType /\ clk'.cancel = clk.cancel /\ clk'.asked = clk.asked /\ clk'.eaten = clk.eaten
  BY <1>1, <1>2, DisarmedClock DEF Typed
<1>6. ~ Idle /\ ~ Idle' /\ ~ Open' /\ ~ Early
  BY <1>2 DEF Idle, Open, Early, Is
<1>7. Moves
  <2>1. \/ tree'.end \in CleanEnds /\ UNCHANGED agent
        \/ tree'.end = "TIMEOUT" /\ turn'.flag /\ \E kept \in BOOLEAN : agent' = Parked(kept)
    BY <1>2, <1>3, <1>4 DEF ClaudeFinalize
  <2> QED
    BY <1>2, <1>4, <1>6, <2>1 DEF Moves, MClose
<1>8. TimerTrue' /\ CancelTrue' /\ Blank' /\ CallsTrue' /\ HostTrue' /\ ResultTrue'
  BY <1>1, <1>2, <1>5, <1>6 DEF TimerTrue, CancelTrue, Blank, CallsTrue, HostTrue, ResultTrue, Cli, Is
<1>9. CutTrue'
  BY <1>1, <1>2, <1>4 DEF CutTrue, Is
<1>10. Stands
  BY <1>2, <1>4 DEF Stands
<1> QED
  BY <1>1, <1>2, <1>4, <1>5, <1>7, <1>8, <1>9, <1>10 DEF Good, Typed

\* The flag, read once more, decides: a marked turn is not returned.
LEMMA ClaudeExitGood == ASSUME IInv, ClaudeExit PROVE Good
<1>1. Typed /\ BooksTrue /\ TimerTrue /\ CutTrue /\ HostTrue /\ CancelTrue
  BY DEF IInv
<1>2. Is("claude") /\ pc = "close" /\ turn' = turn /\ host' = host
  BY DEF ClaudeExit, At
<1>3. /\ UNCHANGED <<cfg, tree, calls>>
      /\ IF turn.flag
           THEN pc' = "failed" /\ last' = "timeout" /\ UNCHANGED <<agent, good>>
           ELSE pc' = "idle" /\ last' = "returned" /\ agent' = EndedOk /\ good' = good + 1
  BY DEF ClaudeExit, Throws
<1>4. /\ clk' \in ClockType /\ clk'.cancel = clk.cancel /\ clk'.asked = clk.asked /\ clk'.eaten = clk.eaten
  <2>1. CASE turn.flag
    <3>1. clk' = [Disarmed EXCEPT !.cancel = clk.cancel]
      BY <2>1 DEF ClaudeExit, Throws
    <3> QED
      BY <1>1, <3>1, DisarmedClock DEF Typed, ClockType
  <2>2. CASE ~ turn.flag
    BY <1>1, <2>2 DEF ClaudeExit, Typed
  <2> QED
    BY <2>1, <2>2
<1>5. ~ Idle /\ Idle' /\ ~ Open'
  BY <1>2, <1>3 DEF Idle, Open
<1>6. Moves
  BY <1>2, <1>3 DEF Moves, MExit
<1>7. TimerTrue' /\ CancelTrue' /\ Blank' /\ CallsTrue' /\ HostTrue' /\ ResultTrue'
  BY <1>1, <1>2, <1>3, <1>4, <1>5 DEF TimerTrue, CancelTrue, Blank, CallsTrue, HostTrue, ResultTrue, Cli, Is
<1>8. CutTrue'
  BY <1>1, <1>2, <1>3 DEF CutTrue, Is
<1>9. Stands
  BY <1>2, <1>3 DEF Stands, Is
<1> QED
  BY <1>1, <1>2, <1>3, <1>4, <1>6, <1>7, <1>8, <1>9 DEF Good, Typed
-----------------------------------------------------------------------------
(* OpenCode and Pi. *)

\* The two agents with a CLI for each call.
Clis == {"opencode", "pi"}

\* A call begins without a CLI.
LEMMA CliBeginGood == ASSUME IInv, NEW k \in Clis, CliBegin(k) PROVE Good
<1>1. Typed
  BY DEF IInv
<1>2. MayCall /\ Enter(FALSE, Started(FALSE)) /\ Is(k) /\ cfg' = cfg /\ calls' = calls + 1 /\ last' = "none" /\ host' = NewHost
  BY DEF CliBegin, Enter
<1>3. HostTrue'
  BY <1>2, NewRecords DEF CliBegin, HostTrue, Cli, Is, Idle, Clis
<1>4. pc' \in LivePlaces \cap {"pump", "read", "drain", "spawn"} /\ ~ Is("delegate")
  BY <1>2, PlacesAre DEF CliBegin, LivePlaces, Is, Clis
<1> QED
  BY <1>2, <1>3, <1>4, NewRecords, EnterGood

\* The CLI is spawned for this call.
LEMMA CliSpawnedGood == ASSUME IInv, NEW k \in Clis, CliSpawned(k) PROVE Good
<1>1. Typed /\ BooksTrue /\ TimerTrue /\ Blank /\ CancelTrue
  BY DEF IInv
<1>2. /\ cfg.kind \in Clis /\ pc = "spawn" /\ pc' = "read"
      /\ UNCHANGED <<cfg, agent, tree, turn, clk, last, calls, good>>
      /\ host' = [NewHost EXCEPT !.up = TRUE, !.busy = TRUE, !.owner = calls]
  BY DEF CliSpawned, At, Is
<1>3. KindFacts
  BY <1>1, Kinds
<1>4. /\ host' \in HostType /\ host'.call = 0 /\ host'.stage = "idle" /\ host'.owner = calls' /\ host'.up
  <2>1. calls \in Nat
    BY <1>1, <1>3 DEF Typed, KindFacts
  <2> QED
    BY <1>2, <2>1, FreshHost
<1>5. /\ turn' \in TurnType /\ turn' = NewTurn /\ ~ turn'.capped /\ turn'.calls = 0
      /\ \A t \in Tools : turn'.of[t] = 0 /\ tree'.tool[t] = "unseen"
  BY <1>1, <1>2, NewRecords DEF Blank
<1>6. ~ Idle /\ ~ Idle' /\ ~ Early /\ ~ Early' /\ Open'
  BY <1>2 DEF Idle, Early, Is, Open, Clis
<1>7. Moves
  <2>1. pc' \in LivePlaces \ {"close"}
    BY <1>2, PlacesAre DEF LivePlaces, Clis
  <2> QED
    BY <1>2, <1>6, <2>1 DEF Moves, MStay
<1>8. TimerTrue' /\ CancelTrue' /\ Blank'
  BY <1>1, <1>2, <1>6 DEF TimerTrue, CancelTrue, Blank
<1>9. CallsTrue'
  BY <1>2, <1>3, <1>4, <1>5 DEF CallsTrue, Linked, ToolsTrue, Is, Clis, KindFacts
<1>10. CutTrue'
  BY <1>3, <1>4, <1>5 DEF CutTrue, KindFacts
<1>11. HostTrue' /\ ResultTrue'
  BY <1>2, <1>4, <1>6 DEF HostTrue, ResultTrue, Cli, Is, Clis
<1>12. Stands
  BY <1>2 DEF Stands
<1> QED
  BY <1>1, <1>2, <1>4, <1>5, <1>7, <1>8, <1>9, <1>10, <1>11, <1>12 DEF Good, Typed

\* The cap and the cooperative stop behind a line.
LEMMA CliCheckGood == ASSUME IInv, NEW k \in Clis, CliCheck(k) PROVE Good
<1>1. Typed /\ HostTrue
  BY DEF IInv
<1>2. PICK stop \in BOOLEAN :
       LET capped == Over(turn.calls)
       IN  /\ turn' = [turn EXCEPT !.capped = capped, !.stopped = stop /\ ~ capped]
           /\ pc' = IF capped \/ stop THEN "kill" ELSE "read"
  BY DEF CliCheck
<1>3. cfg.kind \in Clis /\ pc = "check" /\ UNCHANGED <<cfg, agent, tree, host, clk, last, calls, good>>
  BY DEF CliCheck, At, Is
<1>4. Over(turn.calls) \in BOOLEAN
  BY DEF Over
<1>5. /\ turn' \in TurnType /\ turn'.flag = turn.flag /\ turn'.calls = turn.calls /\ turn'.of = turn.of
      /\ turn'.inCall = turn.inCall /\ turn'.ran = turn.ran /\ turn'.result = turn.result
      /\ turn'.capped = Over(turn.calls)
  BY <1>1, <1>2, <1>4 DEF Typed, TurnType
<1>6. pc' \in {"kill", "read"} /\ (Open' => ~ Over(turn.calls))
  BY <1>2 DEF Open
<1>7. HostTrue'
  BY <1>1, <1>3, <1>6 DEF HostTrue, Open, Cli, Is, Clis, Idle
<1>8. pc' \in LivePlaces \ {"close", "check", "spawn", "drainTasks"}
  BY <1>3, <1>6, PlacesAre DEF LivePlaces, Clis
<1> QED
  BY <1>1, <1>3, <1>5, <1>6, <1>7, <1>8, CheckGood DEF Checks, Is, Clis, Typed

\* What a killed or exited CLI leaves.
LEMMA ReapedHost ==
  ASSUME Typed
  PROVE  /\ Reaped \in HostType /\ Reaped.call = host.call /\ Reaped.stage = host.stage
         /\ ~ Reaped.up /\ ~ Reaped.busy
         /\ \A code \in {"zero", "other"} :
              LET h == [Reaped EXCEPT !.code = code]
              IN  /\ h \in HostType /\ h.call = host.call /\ h.stage = host.stage
                  /\ ~ h.up /\ ~ h.busy /\ h.code = code
<1>1. /\ Reaped \in HostType /\ Reaped.call = host.call /\ Reaped.stage = host.stage
      /\ ~ Reaped.up /\ ~ Reaped.busy
  BY DEF Reaped, Typed, HostType
<1> QED
  BY <1>1 DEF HostType

\* A killed CLI has exited.
LEMMA CliKilledGood == ASSUME IInv, NEW k \in Clis, CliKilled(k) PROVE Good
<1>1. Typed /\ HostTrue
  BY DEF IInv
<1>2. cfg.kind \in Clis /\ pc = "kill" /\ turn' = turn
  BY DEF CliKilled, At, Is
<1>3. PICK code \in {"zero", "other"} : host' = [Reaped EXCEPT !.code = code]
  BY DEF CliKilled
<1>4. host' \in HostType /\ host'.call = host.call /\ ~ host'.up /\ ~ host'.busy /\ host'.code = code
  BY <1>1, <1>3, ReapedHost
<1>5. ~ Idle /\ ~ Early
  BY <1>2 DEF Idle, Early, Is, Clis
<1>6. ASSUME Raises(tree, "timeout") \/ Raises(tree, "crash")
      PROVE  Good
  <2>1. cfg' = cfg /\ pc' = "failed"
    BY <1>6 DEF Raises, Throws
  <2>2. HostTrue'
    BY <1>2, <1>4, <2>1 DEF HostTrue, Open, Cli, Is, Clis
  <2>3. Ends(tree)
    BY <1>1, <1>2, <1>4, <1>5, <2>2 DEF Ends, SameCount, Typed, Is
  <2> QED
    BY <1>6, <2>3, RaiseGood
<1>7. CASE pc' = "settle" /\ UNCHANGED <<cfg, agent, tree, clk, last, calls, good>>
  <2>1. HostTrue' /\ ResultTrue'
    BY <1>2, <1>3, <1>4, <1>7 DEF HostTrue, ResultTrue, Open, Cli, Is, Clis, Idle
  <2>2. pc' \in LivePlaces \ {"close", "pump", "read", "check", "drain", "poll", "spawn", "drainTasks"}
    BY <1>2, <1>7, PlacesAre DEF LivePlaces, Clis
  <2> QED
    BY <1>1, <1>2, <1>4, <1>5, <1>7, <2>1, <2>2, PassGood DEF Passes, DataTyped, ResultsKept, SameCount, Typed
<1>8. \/ Raises(tree, "timeout") \/ Raises(tree, "crash")
      \/ pc' = "settle" /\ UNCHANGED <<cfg, agent, tree, clk, last, calls, good>>
  BY DEF CliKilled
<1> QED
  BY <1>6, <1>7, <1>8

\* A CLI exits by itself.
LEMMA CliExitsGood == ASSUME IInv, NEW k \in Clis, CliExits(k) PROVE Good
<1>1. Typed /\ HostTrue /\ TimerTrue /\ CancelTrue
  BY DEF IInv
<1>2. /\ cfg.kind \in Clis /\ pc \in {"read", "check", "settle"}
      /\ UNCHANGED <<cfg, pc, agent, tree, turn, clk, last, calls, good>>
  BY DEF CliExits, Is
<1>3. PICK code \in {"zero", "other"} : host' = [Reaped EXCEPT !.code = code]
  BY DEF CliExits
<1>4. /\ host' \in HostType /\ host'.call = host.call /\ host'.stage = host.stage /\ ~ host'.up /\ ~ host'.busy
      /\ host'.code = code
  BY <1>1, <1>3, ReapedHost
<1>5. HostTrue' /\ TimerTrue' /\ CancelTrue'
  BY <1>1, <1>2, <1>3, <1>4 DEF HostTrue, TimerTrue, CancelTrue, Open, Cli, Is, Clis, Idle
<1> QED
  BY <1>1, <1>2, <1>4, <1>5, StillGood DEF Stills, DataTyped, SameCount, Typed

\* A step that leaves the stream, or waits on, and changes no book.
LEMMA CliPassesGood ==
  ASSUME IInv, cfg.kind \in Clis, pc \in {"read", "settle"}, pc' \in {"kill", "settle"},
         UNCHANGED <<cfg, agent, tree, clk, last, calls, good>>,
         turn' \in TurnType, turn'.flag = turn.flag,
         host' \in HostType, host'.up = host.up, host'.code = host.code, SameCount
  PROVE  Good
<1>1. Typed /\ HostTrue
  BY DEF IInv
<1>2. HostTrue' /\ ResultTrue'
  BY <1>1 DEF HostTrue, ResultTrue, Open, Cli, Is, Clis, Idle
<1>3. pc' \in LivePlaces \ {"close", "pump", "read", "check", "drain", "poll", "spawn", "drainTasks"}
  BY PlacesAre DEF LivePlaces, Clis
<1> QED
  BY <1>1, <1>2, <1>3, PassGood DEF Passes, DataTyped, ResultsKept, Typed, Idle, Early, Is, Clis

\* Its stream ends.
LEMMA CliStreamEndsGood == ASSUME IInv, NEW k \in Clis, CliStreamEnds(k) PROVE Good
<1>1. host \in HostType /\ turn \in TurnType
  BY DEF IInv, Typed
<1>2. /\ host' \in HostType /\ host'.up = host.up /\ host'.code = host.code /\ host'.call = host.call
  BY <1>1 DEF CliStreamEnds, HostType
<1> QED
  BY <1>1, <1>2, CliPassesGood DEF CliStreamEnds, At, Is, SameCount

\* The deadline passes.
LEMMA CliLateGood == ASSUME IInv, NEW k \in Clis, CliLate(k) PROVE Good
<1>1. host \in HostType /\ turn \in TurnType
  BY DEF IInv, Typed
<1>2. /\ turn' \in TurnType /\ turn'.flag = turn.flag /\ turn'.calls = turn.calls /\ turn'.of = turn.of
      /\ turn'.capped = turn.capped
  BY <1>1 DEF CliLate, TurnType
<1> QED
  BY <1>1, <1>2, CliPassesGood DEF CliLate, Is, SameCount

\* Without a deadline the exit is waited for only so long.
LEMMA CliLingersGood == ASSUME IInv, NEW k \in Clis, CliLingers(k) PROVE Good
<1>1. host \in HostType /\ turn \in TurnType
  BY DEF IInv, Typed
<1>2. /\ turn' \in TurnType /\ turn'.flag = turn.flag /\ turn'.calls = turn.calls /\ turn'.of = turn.of
      /\ turn'.capped = turn.capped
  BY <1>1 DEF CliLingers, TurnType
<1> QED
  BY <1>1, <1>2, CliPassesGood DEF CliLingers, At, Is, SameCount

\* The verdict on a CLI that exited, for either agent's rule.
LEMMA CliSettlesGood ==
  ASSUME IInv, NEW k \in Clis, NEW Crash, CliSettles(k, Crash),
         ~ Crash /\ ~ turn.stopped /\ ~ turn.capped => host.code # "other" /\ turn.seen
  PROVE  Good
<1>1. Typed /\ HostTrue /\ TimerTrue /\ CancelTrue
  BY DEF IInv
<1>2. cfg.kind \in Clis /\ pc = "settle" /\ turn' = turn /\ host' = host /\ ~ host.up
  BY DEF CliSettles, At, Is
<1>3. cfg' = cfg /\ pc' \in {"idle", "failed"}
  BY DEF CliSettles, Raises, Throws, Returns
<1>4. HostTrue'
  BY <1>2, <1>3 DEF HostTrue, Open, Cli, Is, Clis
<1>5. Ends(tree)
  BY <1>1, <1>2, <1>4 DEF Ends, SameCount, Typed, Is, Idle, Early, Clis
<1>6. CASE Crash
  BY <1>5, <1>6, RaiseGood DEF CliSettles
<1>7. CASE ~ Crash
  <2>1. PICK status \in CleanEnds : Returns(tree, status)
    BY <1>7 DEF CliSettles, CleanEnds
  <2>2. ~ turn.stopped /\ ~ turn.capped => host.code = "zero" /\ turn.seen
    BY <1>1, <1>2, <1>7 DEF HostTrue, Cli, Clis
  <2>3. clk.asked /\ ~ clk.cancel => clk.eaten
    BY <1>1, <1>2 DEF CancelTrue, Idle
  <2>4. ~ turn.flag
    BY <1>1, <1>2 DEF TimerTrue, Clis
  <2> QED
    BY <1>2, <1>5, <2>1, <2>2, <2>3, <2>4, ReturnGood DEF Is, Clis
<1> QED
  BY <1>6, <1>7

\* An exception kills the CLI and crashes the turn.
LEMMA CliFailsGood == ASSUME IInv, NEW k \in Clis, CliFails(k) PROVE Good
<1>1. Typed
  BY DEF IInv
<1>2. cfg.kind \in Clis /\ pc \in {"spawn", "read"} /\ Raises(tree, "crash") /\ turn' = turn /\ host' = Reaped
  BY DEF CliFails, Is
<1>3. cfg' = cfg /\ pc' = "failed"
  BY <1>2 DEF Raises, Throws
<1>4. host' \in HostType /\ host'.call = host.call /\ ~ host'.up /\ ~ host'.busy
  BY <1>1, <1>2, ReapedHost
<1>5. HostTrue'
  BY <1>2, <1>3, <1>4 DEF HostTrue, Open, Cli, Is, Clis
<1>6. Ends(tree)
  BY <1>1, <1>2, <1>4, <1>5 DEF Ends, SameCount, Typed, Is, Idle, Early, Clis
<1> QED
  BY <1>2, <1>6, RaiseGood

\* A cancellation kills the CLI.
LEMMA CliCancelledGood == ASSUME IInv, NEW k \in Clis, CliCancelled(k) PROVE Good
<1>1. Typed
  BY DEF IInv
<1>2. /\ cfg.kind \in Clis /\ pc \in {"spawn", "read", "kill", "settle"} /\ Cancelled(tree, FALSE)
      /\ turn' = turn /\ host' = Reaped
  BY DEF CliCancelled, Is
<1>3. cfg' = cfg /\ pc' = "failed"
  BY <1>2 DEF Cancelled, Throws
<1>4. host' \in HostType /\ host'.call = host.call /\ ~ host'.up /\ ~ host'.busy
  BY <1>1, <1>2, ReapedHost
<1>5. HostTrue'
  BY <1>2, <1>3, <1>4 DEF HostTrue, Open, Cli, Is, Clis
<1>6. Ends(tree)
  BY <1>1, <1>2, <1>4, <1>5 DEF Ends, SameCount, Typed, Is, Idle, Early, Clis
<1> QED
  BY <1>2, <1>6, CancelGood

\* An event of OpenCode: it opens a call, or belongs to the one that is open.
LEMMA OpenCodeReadGood == ASSUME IInv, OpenCodeRead PROVE Good
<1>1. Typed /\ CallsTrue /\ CutTrue
  BY DEF IInv
<1>2. /\ Is("opencode") /\ pc = "read" /\ pc' = "check" /\ UNCHANGED <<cfg, agent, clk, last, calls, good>>
  BY DEF OpenCodeRead, At
<1>3. /\ turn.calls = host.call /\ host.call \in Nat /\ turn.calls \in Nat
      /\ turn \in TurnType /\ host \in HostType /\ tree \in TreeType
      /\ host.call <= MaxSteps + 1
  BY <1>1, <1>2 DEF CallsTrue, CutTrue, Open, Typed, HostType
<1>4. Linked' /\ MaxSteps \in Nat
  BY <1>1, <1>2, Kinds DEF Linked, Is, KindFacts
<1>5. CASE OpenCodeStepStart
  <2>1. host.call < MaxSteps /\ \A t \in Tools : tree.tool[t] # "open"
    BY <1>5 DEF OpenCodeStepStart, HasOpen
  <2>2. /\ host' \in HostType /\ host'.up = host.up /\ host'.busy = host.busy
        /\ host'.owner = host.owner /\ host'.code = host.code /\ host'.call = host.call + 1
    BY <1>3, <1>5, NextCall DEF OpenCodeStepStart
  <2>3. /\ turn' \in TurnType /\ turn'.flag = turn.flag /\ turn'.capped = turn.capped
        /\ turn'.calls = turn.calls + 1 /\ turn'.of = turn.of
    BY <1>3, <1>5, NextCall DEF OpenCodeStepStart
  <2>4. tree' \in TreeType /\ tree'.start = tree.start /\ tree'.end = tree.end /\ tree'.tool = tree.tool
    BY <1>3, <1>5 DEF OpenCodeStepStart, TreeType
  <2>5. host'.call <= MaxSteps + 1
    BY <1>3, <1>4, <2>1, <2>2
  <2> QED
    BY <1>2, <1>3, <1>4, <2>1, <2>2, <2>3, <2>4, <2>5, ReadGood DEF Reads, Is
<1>6. CASE OpenCodeError
  <2>1. /\ turn' \in TurnType /\ turn'.flag = turn.flag /\ turn'.capped = turn.capped
        /\ turn'.calls = turn.calls /\ turn'.of = turn.of /\ tree' = tree /\ host' = host
    BY <1>3, <1>6 DEF OpenCodeError, TurnType
  <2> QED
    BY <1>2, <1>3, <1>4, <2>1, ReadGood DEF Reads, Is
<1>7. ASSUME NEW t \in Tools, NEW mark \in {"open", "ok", "error"}, OpenCodeToolUse(t, mark)
      PROVE  Good
  <2>1. mark \in Marks
    BY DEF Marks
  <2>2. /\ tree' \in TreeType /\ tree'.start = tree.start /\ tree'.end = tree.end
        /\ \A u \in Tools : tree'.tool[u] = IF u = t THEN mark ELSE tree.tool[u]
    BY <1>3, <1>7, <2>1, WithTree DEF OpenCodeToolUse
  <2>3. /\ turn' \in TurnType /\ turn'.flag = turn.flag /\ turn'.capped = turn.capped
        /\ turn'.calls = turn.calls /\ turn'.of = [turn.of EXCEPT ![t] = host.call]
    BY <1>3, <1>7 DEF OpenCodeToolUse, TurnType
  <2>4. \A u \in Tools : turn'.of[u] = IF u = t THEN host.call ELSE turn.of[u]
    BY <1>3, <2>3 DEF TurnType
  <2>5. host' = host /\ tree.tool[t] \in {"open", "unseen"}
    BY <1>7 DEF OpenCodeToolUse
  <2> QED
    BY <1>2, <1>3, <1>4, <2>2, <2>3, <2>4, <2>5, ReadGood DEF Reads, Is
<1>8. ASSUME NEW tokens \in BOOLEAN, OpenCodeStepFinish(tokens)
      PROVE  Good
  <2>1. /\ host' \in HostType /\ host'.up = host.up /\ host'.busy = host.busy
        /\ host'.owner = host.owner /\ host'.code = host.code /\ host'.call = host.call
    BY <1>3, <1>8 DEF OpenCodeStepFinish, HostType
  <2>2. /\ turn' \in TurnType /\ turn'.flag = turn.flag /\ turn'.capped = turn.capped
        /\ turn'.calls = turn.calls /\ turn'.of = turn.of
    BY <1>3, <1>8 DEF OpenCodeStepFinish, TurnType
  <2>3. tree' \in TreeType /\ tree'.start = tree.start /\ tree'.end = tree.end /\ tree'.tool = tree.tool
    BY <1>3, <1>8 DEF OpenCodeStepFinish, TreeType
  <2> QED
    BY <1>2, <1>3, <1>4, <2>1, <2>2, <2>3, ReadGood DEF Reads, Is
<1> QED
  BY <1>5, <1>6, <1>7, <1>8 DEF OpenCodeRead, OpenCodeEvent

\* OpenCode's rule lets no failed CLI pass.
LEMMA OpenCodeSettlesGood == ASSUME IInv, OpenCodeSettles PROVE Good
<1>1. ~ OpenCodeCrashes /\ ~ turn.stopped /\ ~ turn.capped => host.code # "other" /\ turn.seen
  BY DEF OpenCodeCrashes, Cut
<1>2. "opencode" \in Clis
  BY DEF Clis
<1> QED
  BY <1>1, <1>2, CliSettlesGood DEF OpenCodeSettles

\* An event of Pi: it opens a call, or belongs to the one that is open.
LEMMA PiReadGood == ASSUME IInv, PiRead PROVE Good
<1>1. Typed /\ CallsTrue /\ CutTrue
  BY DEF IInv
<1>2. /\ Is("pi") /\ pc = "read" /\ pc' = "check" /\ UNCHANGED <<cfg, agent, clk, last, calls, good>>
  BY DEF PiRead, At
<1>3. /\ turn.calls = host.call /\ host.call \in Nat /\ turn.calls \in Nat
      /\ turn \in TurnType /\ host \in HostType /\ tree \in TreeType
      /\ host.call <= MaxSteps + 1
  BY <1>1, <1>2 DEF CallsTrue, CutTrue, Open, Typed, HostType
<1>4. Linked' /\ MaxSteps \in Nat
  BY <1>1, <1>2, Kinds DEF Linked, Is, KindFacts
<1>5. CASE PiTurnStart
  <2>1. host.call < MaxSteps /\ \A t \in Tools : tree.tool[t] # "open"
    BY <1>5 DEF PiTurnStart, HasOpen
  <2>2. /\ host' \in HostType /\ host'.up = host.up /\ host'.busy = host.busy
        /\ host'.owner = host.owner /\ host'.code = host.code /\ host'.call = host.call + 1
    BY <1>3, <1>5, NextCall DEF PiTurnStart
  <2>3. /\ turn' \in TurnType /\ turn'.flag = turn.flag /\ turn'.capped = turn.capped
        /\ turn'.calls = turn.calls + 1 /\ turn'.of = turn.of
    BY <1>3, <1>5, NextCall DEF PiTurnStart
  <2>4. tree' \in TreeType /\ tree'.start = tree.start /\ tree'.end = tree.end /\ tree'.tool = tree.tool
    BY <1>3, <1>5 DEF PiTurnStart, TreeType
  <2>5. host'.call <= MaxSteps + 1
    BY <1>3, <1>4, <2>1, <2>2
  <2> QED
    BY <1>2, <1>3, <1>4, <2>1, <2>2, <2>3, <2>4, <2>5, ReadGood DEF Reads, Is
<1>6. ASSUME NEW t \in Tools, PiToolStart(t)
      PROVE  Good
  <2>1. /\ tree' \in TreeType /\ tree'.start = tree.start /\ tree'.end = tree.end
        /\ \A u \in Tools : tree'.tool[u] = IF u \in {t} THEN "open" ELSE tree.tool[u]
    BY <1>3, <1>6, OpenedTree DEF PiToolStart
  <2>2. /\ turn' \in TurnType /\ turn'.flag = turn.flag /\ turn'.capped = turn.capped
        /\ turn'.calls = turn.calls /\ turn'.of = [turn.of EXCEPT ![t] = host.call]
    BY <1>3, <1>6 DEF PiToolStart, TurnType
  <2>3. \A u \in Tools : turn'.of[u] = IF u = t THEN host.call ELSE turn.of[u]
    BY <1>3, <2>2 DEF TurnType
  <2>4. host' = host /\ tree.tool[t] = "unseen"
    BY <1>6 DEF PiToolStart, Unseen
  <2> QED
    BY <1>2, <1>3, <1>4, <2>1, <2>2, <2>3, <2>4, ReadGood DEF Reads, Is
<1>7. ASSUME NEW t \in Tools, NEW mark \in {"ok", "error"}, PiToolEnd(t, mark)
      PROVE  Good
  <2>1. mark \in Marks
    BY DEF Marks
  <2>2. /\ tree' \in TreeType /\ tree'.start = tree.start /\ tree'.end = tree.end
        /\ \A u \in Tools : tree'.tool[u] = IF u = t THEN mark ELSE tree.tool[u]
    BY <1>3, <1>7, <2>1, WithTree DEF PiToolEnd
  <2>3. /\ turn' \in TurnType /\ turn'.flag = turn.flag /\ turn'.capped = turn.capped
        /\ turn'.calls = turn.calls /\ turn'.of = turn.of
    BY <1>3, <1>7 DEF PiToolEnd, TurnType
  <2>4. host' = host /\ tree.tool[t] = "open"
    BY <1>7 DEF PiToolEnd
  <2> QED
    BY <1>2, <1>3, <1>4, <2>2, <2>3, <2>4, ReadGood DEF Reads, Is
<1>8. ASSUME NEW error \in BOOLEAN, PiTurnEnd(error)
      PROVE  Good
  <2>1. /\ host' \in HostType /\ host'.up = host.up /\ host'.busy = host.busy
        /\ host'.owner = host.owner /\ host'.code = host.code /\ host'.call = host.call
    BY <1>3, <1>8 DEF PiTurnEnd, HostType
  <2>2. /\ turn' \in TurnType /\ turn'.flag = turn.flag /\ turn'.capped = turn.capped
        /\ turn'.calls = turn.calls /\ turn'.of = turn.of
    BY <1>3, <1>8 DEF PiTurnEnd, TurnType
  <2>3. tree' \in TreeType /\ tree'.start = tree.start /\ tree'.end = tree.end /\ tree'.tool = tree.tool
    BY <1>3, <1>8 DEF PiTurnEnd, TreeType
  <2> QED
    BY <1>2, <1>3, <1>4, <2>1, <2>2, <2>3, ReadGood DEF Reads, Is
<1> QED
  BY <1>5, <1>6, <1>7, <1>8 DEF PiRead, PiEvent

\* Pi's rule lets no failed CLI pass.
LEMMA PiSettlesGood == ASSUME IInv, PiSettles PROVE Good
<1>1. ~ PiCrashes /\ ~ turn.stopped /\ ~ turn.capped => host.code # "other" /\ turn.seen
  BY DEF PiCrashes, Cut
<1>2. "pi" \in Clis
  BY DEF Clis
<1> QED
  BY <1>1, <1>2, CliSettlesGood DEF PiSettles
-----------------------------------------------------------------------------
(* What happens beside the calls and between them. *)

\* The agent that does nothing.
LEMMA NoopTurnGood == ASSUME IInv, NoopTurn PROVE Good
<1>1. Typed /\ TimerTrue /\ HostTrue /\ CancelTrue /\ CutTrue
  BY DEF IInv
<1>2. /\ Is("none") /\ MayCall /\ tree' = Closed(Started(TRUE), "COMPLETED") /\ turn' = NewTurn
      /\ last' = "returned" /\ calls' = calls + 1 /\ UNCHANGED <<cfg, pc, host, clk>>
  BY DEF NoopTurn
<1>3. KindFacts
  BY <1>1, Kinds
<1>4. tree' \in TreeType /\ \A t \in Tools : tree'.tool[t] = "unseen"
  <2>1. Started(TRUE) \in TreeType /\ \A t \in Tools : Started(TRUE).tool[t] = "unseen"
    BY StartedTree
  <2>2. "COMPLETED" \in CleanEnds \cup {"TIMEOUT", "CRASHED"}
    BY DEF CleanEnds
  <2>3. tree' \in TreeType /\ Sweeps(Started(TRUE), tree')
    BY <1>2, <2>1, <2>2, ClosedTree
  <2> QED
    BY <2>1, <2>3 DEF Sweeps
<1>5. Idle' /\ ~ Open'
  BY <1>2 DEF Idle, Open, MayCall
<1>6. TimerTrue' /\ Blank' /\ CallsTrue' /\ ResultTrue' /\ HostTrue'
  BY <1>1, <1>2, <1>4, <1>5, NewRecords DEF TimerTrue, Blank, CallsTrue, ResultTrue, HostTrue, Cli, Is
<1>7. CancelTrue'
  BY <1>1, <1>2 DEF CancelTrue, MayCall
<1>8. CutTrue'
  <2>1. turn'.calls = 0 /\ ~ turn'.capped
    BY <1>2, NewRecords
  <2>2. host' = host /\ host.call <= MaxSteps + 1 /\ MaxSteps \in Nat
    BY <1>1, <1>2, <1>3 DEF CutTrue, KindFacts
  <2> QED
    BY <2>1, <2>2 DEF CutTrue
<1>9. Stands
  BY <1>1, <1>2, <1>4 DEF Stands, TimerTrue, Is
<1> QED
  BY <1>1, <1>2, <1>4, <1>6, <1>7, <1>8, <1>9, NewRecords DEF Good, Moves, Typed

\* The caller discards what a failed call left.
LEMMA DiscardGood == ASSUME IInv, Discard PROVE Good
<1>1. Typed /\ TimerTrue /\ HostTrue /\ CancelTrue /\ CutTrue
  BY DEF IInv
<1>2. /\ pc = "failed" /\ pc' = "idle" /\ tree' = NewTree /\ turn' = NewTurn
      /\ UNCHANGED <<cfg, host, clk, last, calls, good>>
  BY DEF Discard
<1>3. KindFacts
  BY <1>1, Kinds
<1>4. Idle' /\ Idle /\ ~ Open' /\ ~ Early /\ ~ Early'
  BY <1>2 DEF Idle, Open, Early
<1>5. TimerTrue' /\ Blank' /\ CallsTrue' /\ ResultTrue' /\ CancelTrue'
  BY <1>1, <1>2, <1>4, NewRecords DEF TimerTrue, Blank, CallsTrue, ResultTrue, CancelTrue, Is
<1>6. HostTrue'
  BY <1>1, <1>2, <1>4 DEF HostTrue, Cli, Is
<1>7. CutTrue'
  BY <1>1, <1>2, <1>3, NewRecords DEF CutTrue, KindFacts
<1>8. Stands
  BY <1>2, NewRecords DEF Stands
<1> QED
  BY <1>1, <1>2, <1>5, <1>6, <1>7, <1>8, NewRecords DEF Good, Moves, Typed

\* A kill and a cancellation from outside leave the books alone.
LEMMA InterruptGood == ASSUME IInv, Interrupt PROVE Good
<1>1. Typed /\ TimerTrue /\ HostTrue
  BY DEF IInv
<1>2. /\ ~ Idle /\ clk' = [clk EXCEPT !.asked = TRUE, !.cancel = TRUE]
      /\ UNCHANGED <<cfg, pc, agent, tree, turn, last, calls, good>>
  BY DEF Interrupt
<1>3. /\ clk' \in ClockType /\ clk'.cancel /\ clk'.timer = clk.timer /\ clk'.stray = clk.stray
  BY <1>1, <1>2 DEF Typed, ClockType
<1>4. /\ host' \in HostType /\ host'.call = host.call /\ host'.stage = host.stage /\ host'.owner = host.owner
      /\ \/ host' = host
         \/ ~ host'.up /\ ~ host'.busy /\ host'.code = "other"
  <2>1. \/ host' = host
        \/ host' = [host EXCEPT !.up = FALSE, !.busy = FALSE, !.code = "other"]
    BY DEF Interrupt
  <2> QED
    BY <1>1, <2>1 DEF Typed, HostType
<1>5. HostTrue'
  BY <1>1, <1>2, <1>4 DEF HostTrue, Cli, Is, Open, Early, Idle
<1>6. TimerTrue' /\ CancelTrue'
  BY <1>1, <1>2, <1>3 DEF TimerTrue, CancelTrue
<1> QED
  BY <1>1, <1>2, <1>3, <1>4, <1>5, <1>6, StillGood DEF Stills, DataTyped, SameCount, Typed

\* So does the timer thread, whenever it acts.
LEMMA ClockGood == ASSUME IInv, Clock PROVE Good
<1>1. Typed /\ TimerTrue /\ HostTrue /\ CancelTrue
  BY DEF IInv
<1>2. ASSUME TimePasses \/ Fire \/ PostCancel
      PROVE  Good
  <2>1. UNCHANGED <<cfg, pc, agent, tree, turn, host, last, calls, good>>
    BY <1>2 DEF TimePasses, Fire, PostCancel
  <2>2. /\ clk' \in ClockType /\ clk'.asked = clk.asked /\ clk'.eaten = clk.eaten
        /\ (clk.cancel => clk'.cancel)
        /\ (clk.timer = "off" /\ ~ clk.stray => clk'.timer = "off" /\ ~ clk'.stray)
    BY <1>1, <1>2 DEF TimePasses, Fire, PostCancel, Typed, ClockType
  <2>3. HostTrue'
    BY <1>1, <2>1 DEF HostTrue, Cli, Is, Open, Early, Idle
  <2>4. TimerTrue' /\ CancelTrue'
    BY <1>1, <2>1, <2>2 DEF TimerTrue, CancelTrue, Idle
  <2> QED
    BY <1>1, <2>1, <2>2, <2>3, <2>4, StillGood DEF Stills, DataTyped, SameCount, Typed
<1>3. ASSUME OnTimeout
      PROVE  Good
  <2>1. /\ clk.timer = "firing" /\ clk' = [clk EXCEPT !.timer = "flagged"] /\ turn' = [turn EXCEPT !.flag = TRUE]
        /\ UNCHANGED <<cfg, pc, agent, tree, last, calls, good>>
    BY <1>3 DEF OnTimeout
  <2>2. cfg.kind \in {"claude", "codex", "antigravity"}
    BY <1>1, <2>1, Kinds DEF TimerTrue, KindFacts, Agents
  <2>3. clk' \in ClockType /\ clk'.asked = clk.asked /\ clk'.eaten = clk.eaten /\ clk'.cancel = clk.cancel
    BY <1>1, <2>1 DEF Typed, ClockType
  <2>4. /\ turn' \in TurnType /\ turn'.flag /\ turn'.calls = turn.calls /\ turn'.of = turn.of
        /\ turn'.capped = turn.capped /\ turn'.inCall = turn.inCall /\ turn'.ran = turn.ran
        /\ turn'.result = turn.result /\ turn'.stopped = turn.stopped
    BY <1>1, <2>1 DEF Typed, TurnType
  <2>5. /\ host' \in HostType /\ host'.call = host.call /\ host'.stage = host.stage /\ host'.owner = host.owner
        /\ (host'.busy => host.busy)
    BY <1>1, <1>3 DEF OnTimeout, Typed, HostType
  <2>6. HostTrue'
    BY <1>1, <2>1, <2>2, <2>5 DEF HostTrue, Cli, Is, Open
  <2>7. TimerTrue' /\ CancelTrue'
    BY <1>1, <2>1, <2>2, <2>3 DEF TimerTrue, CancelTrue, Idle
  <2> QED
    BY <1>1, <2>1, <2>2, <2>3, <2>4, <2>5, <2>6, <2>7, StillGood DEF Stills, DataTyped, SameCount, Typed
<1> QED
  BY <1>2, <1>3 DEF Clock
-----------------------------------------------------------------------------
(* Codex. *)

\* A call begins: the watchdog is armed and the server works for this call.
LEMMA CodexBeginGood == ASSUME IInv, CodexBegin PROVE Good
<1>1. Typed
  BY DEF IInv
<1>2. MayCall /\ Enter(TRUE, Started(TRUE)) /\ Is("codex") /\ cfg' = cfg /\ calls' = calls + 1 /\ last' = "none"
  BY DEF CodexBegin, Enter
<1>3. /\ host' \in HostType /\ host'.call = 0 /\ host'.stage = "idle" /\ host'.owner = calls'
  <2>1. calls + 1 \in Nat
    BY <1>1, Kinds DEF Typed, KindFacts
  <2> QED
    BY <1>2, <2>1, FreshHost DEF CodexBegin
<1>4. HostTrue'
  BY <1>2, <1>3 DEF HostTrue, Cli, Is
<1>5. pc' \in LivePlaces \cap {"pump", "read", "drain", "spawn"}
  BY <1>2, PlacesAre DEF CodexBegin, LivePlaces, Is
<1> QED
  BY <1>2, <1>3, <1>4, <1>5, EnterGood DEF Is

\* Its set-up may fail behind the AgentStart.
LEMMA CodexSetupFailsGood == ASSUME IInv, CodexSetupFails PROVE Good
<1>1. PICK step \in BOOLEAN, kept \in BOOLEAN :
        /\ tree' = Closed(Started(step), "CRASHED")
        /\ agent' = [Begun EXCEPT !.pending = IF kept THEN "partial" ELSE "none"]
  BY DEF CodexSetupFails
<1>2. Started(step) \in {NewTree, Started(TRUE), Started(FALSE)}
  OBVIOUS
<1> QED
  BY <1>1, <1>2, SetupGood DEF CodexSetupFails, Is

\* An item opens a call of the model, or belongs to the one that is open.
LEMMA CodexItemStartedReads ==
  ASSUME IInv, CodexRead, NEW S \in SUBSET Tools, CodexItemStarted(S)
  PROVE  Reads
<1>1. Typed /\ CallsTrue /\ CutTrue
  BY DEF IInv
<1>2. /\ Is("codex") /\ pc = "read" /\ pc' = "check" /\ UNCHANGED <<cfg, agent, clk, last, calls, good>>
  BY DEF CodexRead, At
<1>3. /\ turn.calls = host.call /\ host.call \in Nat /\ turn \in TurnType /\ host \in HostType
      /\ (turn.inCall <=> host.stage = "call") /\ turn.inCall \in BOOLEAN /\ turn.ran \in BOOLEAN
      /\ (~ turn.inCall => ~ HasOpen(tree))
  BY <1>1, <1>2 DEF CallsTrue, Linked, Open, Typed, HostType, TurnType
<1>4. ServerCall \in Nat /\ ServerCall <= MaxSteps /\ ServerCall = IF turn.inCall THEN turn.calls ELSE turn.calls + 1
  BY <1>3 DEF ServerCall, CodexItemStarted
<1>5. /\ host' \in HostType /\ host'.up = host.up /\ host'.busy = host.busy
      /\ host'.owner = host.owner /\ host'.code = host.code /\ host'.stage = "call"
      /\ host'.call = ServerCall
  BY <1>3, <1>4 DEF CodexItemStarted, HostType
<1> DEFINE f == [t \in Tools |-> IF t \in S THEN ServerCall ELSE turn.of[t]]
           r == turn.ran \/ S # {}
<1>6. f \in [Tools -> Nat] /\ r \in BOOLEAN
  BY <1>3, <1>4 DEF TurnType
<1>7. /\ turn' \in TurnType /\ turn'.flag = turn.flag /\ turn'.capped = turn.capped /\ turn'.result = turn.result
      /\ turn'.calls = ServerCall /\ turn'.inCall /\ turn'.of = f
  <2>1. CASE turn.inCall
    <3>1. turn' = [turn EXCEPT !.ran = r, !.of = f]
      BY <1>3, <2>1 DEF CodexItemStarted, TurnType
    <3> HIDE DEF f, r
    <3> QED
      BY <1>3, <1>4, <1>6, <2>1, <3>1 DEF TurnType
  <2>2. CASE ~ turn.inCall
    <3> DEFINE s == S # {}
    <3>1. turn' = [CodexOpensCall EXCEPT !.ran = s, !.of = f]
      BY <1>3, <2>2 DEF CodexItemStarted, CodexOpensCall, TurnType
    <3>2. /\ CodexOpensCall \in TurnType /\ CodexOpensCall.calls = turn.calls + 1 /\ CodexOpensCall.inCall
          /\ CodexOpensCall.flag = turn.flag /\ CodexOpensCall.capped = turn.capped
          /\ CodexOpensCall.result = turn.result
      BY <1>3, OpensCall
    <3>3. s \in BOOLEAN
      OBVIOUS
    <3> HIDE DEF f, r, s
    <3> QED
      BY <1>3, <1>4, <1>6, <2>2, <3>1, <3>2, <3>3 DEF TurnType
  <2> QED
    BY <2>1, <2>2
<1>8. /\ tree' \in TreeType /\ tree'.start = tree.start /\ tree'.end = tree.end
      /\ \A t \in Tools : tree'.tool[t] = IF t \in S THEN "open" ELSE tree.tool[t]
  BY <1>1, OpenedTree DEF Typed, CodexItemStarted
<1>9. \A t \in S : tree.tool[t] = "unseen"
  BY DEF CodexItemStarted, Unseen
<1>10. ~ turn.inCall => \A t \in Tools : tree.tool[t] # "open"
  BY <1>3 DEF HasOpen
<1>11. MaxSteps \in Nat
  BY <1>1, Kinds DEF KindFacts
<1>12. Linked'
  BY <1>2, <1>4, <1>5, <1>7 DEF Linked, Is
<1>13. /\ turn'.calls = host'.call /\ turn'.calls \in {turn.calls, turn.calls + 1}
       /\ host'.call <= MaxSteps + 1
       /\ host'.call = host.call \/ ~ turn.inCall
  BY <1>3, <1>4, <1>5, <1>7, <1>11
<1> QED
  BY <1>2, <1>5, <1>7, <1>8, <1>9, <1>10, <1>12, <1>13 DEF Reads, Is

\* A notification is dispatched.
LEMMA CodexReadGood == ASSUME IInv, CodexRead PROVE Good
<1>1. Typed /\ CallsTrue /\ CutTrue
  BY DEF IInv
<1>2. /\ Is("codex") /\ pc = "read" /\ pc' = "check" /\ UNCHANGED <<cfg, agent, clk, last, calls, good>>
  BY DEF CodexRead, At
<1>3. /\ turn.calls = host.call /\ host.call \in Nat /\ turn \in TurnType /\ host \in HostType
      /\ (turn.inCall <=> host.stage = "call") /\ turn.inCall \in BOOLEAN /\ turn.ran \in BOOLEAN
      /\ (~ turn.inCall => ~ HasOpen(tree)) /\ host.call <= MaxSteps + 1
      /\ (turn.ran => host.call <= MaxSteps)
  BY <1>1, <1>2 DEF CallsTrue, CutTrue, Linked, Open, Typed, HostType, TurnType
<1>4. MaxSteps \in Nat
  BY <1>1, Kinds DEF KindFacts
<1>5. ASSUME NEW S \in SUBSET Tools, CodexItemStarted(S)
      PROVE  Reads
  BY <1>5, CodexItemStartedReads
<1>6. ASSUME NEW t \in Tools, NEW mark \in {"ok", "error"}, CodexItemCompleted(t, mark)
      PROVE  Reads
  <2>1. mark \in Marks
    BY DEF Marks
  <2>2. /\ tree' \in TreeType /\ tree'.start = tree.start /\ tree'.end = tree.end
        /\ \A u \in Tools : tree'.tool[u] = IF u = t THEN mark ELSE tree.tool[u]
    BY <1>1, <1>6, <2>1, WithTree DEF CodexItemCompleted, Typed
  <2>3. /\ turn' \in TurnType /\ turn'.flag = turn.flag /\ turn'.capped = turn.capped
        /\ turn'.calls = turn.calls /\ turn'.of = turn.of /\ turn'.inCall = turn.inCall
        /\ turn'.ran = turn.ran /\ turn'.result = turn.result
    <3>1. PICK child \in BOOLEAN : turn' = [turn EXCEPT !.spawned = @ \/ child]
      BY <1>6 DEF CodexItemCompleted
    <3>2. (turn.spawned \/ child) \in BOOLEAN
      BY <1>3 DEF TurnType
    <3> QED
      BY <1>3, <3>1, <3>2 DEF TurnType
  <2>4. host' = host /\ tree.tool[t] = "open"
    BY <1>6 DEF CodexItemCompleted
  <2>5. Linked'
    BY <1>2, <1>3, <2>2, <2>3, <2>4 DEF Linked, Is, HasOpen
  <2> QED
    BY <1>2, <1>3, <2>2, <2>3, <2>4, <2>5 DEF Reads, Is
<1>7. ASSUME CodexTokenUsage
      PROVE  Reads
  <2>1. tree' = tree /\ \A t \in Tools : tree.tool[t] # "open"
    BY <1>7 DEF CodexTokenUsage, HasOpen
  <2>2. CASE turn.ran
    <3>1. /\ host' \in HostType /\ host'.up = host.up /\ host'.busy = host.busy
          /\ host'.owner = host.owner /\ host'.code = host.code /\ host'.stage = "call"
          /\ host'.call = host.call + 1
      BY <1>3, <1>7, <2>2 DEF CodexTokenUsage, HostType
    <3>2. /\ turn' \in TurnType /\ turn'.flag = turn.flag /\ turn'.capped = turn.capped
          /\ turn'.calls = turn.calls + 1 /\ turn'.of = turn.of /\ turn'.inCall
          /\ ~ turn'.ran /\ turn'.result = turn.result
      BY <1>3, <1>7, <2>2, OpensCall DEF CodexTokenUsage
    <3>3. Linked'
      BY <1>2, <3>1, <3>2 DEF Linked, Is
    <3>4. host'.call <= MaxSteps + 1
      BY <1>3, <1>4, <2>2, <3>1
    <3> QED
      BY <1>1, <1>2, <1>3, <2>1, <3>1, <3>2, <3>3, <3>4 DEF Reads, Is, Typed
  <2>3. CASE ~ turn.ran
    <3>1. /\ host' \in HostType /\ host'.up = host.up /\ host'.busy = host.busy
          /\ host'.owner = host.owner /\ host'.code = host.code /\ host'.stage = "idle"
          /\ host'.call = host.call
      BY <1>3, <1>7, <2>3 DEF CodexTokenUsage, HostType
    <3>2. /\ turn' \in TurnType /\ turn'.flag = turn.flag /\ turn'.capped = turn.capped
          /\ turn'.calls = turn.calls /\ turn'.of = turn.of /\ ~ turn'.inCall
          /\ turn'.ran = turn.ran /\ turn'.result = turn.result
      BY <1>3, <1>7, <2>3 DEF CodexTokenUsage, TurnType
    <3>3. Linked'
      BY <1>2, <2>1, <2>3, <3>1, <3>2 DEF Linked, Is, HasOpen
    <3> QED
      BY <1>1, <1>2, <1>3, <2>1, <3>1, <3>2, <3>3 DEF Reads, Is, Typed
  <2> QED
    BY <2>2, <2>3
<1> QED
  BY <1>5, <1>6, <1>7, ReadGood DEF CodexRead, CodexNotification

\* The stream ends, with a turn/completed or without.
LEMMA CodexStreamEndsGood == ASSUME IInv, CodexStreamEnds PROVE Good
<1>1. Typed /\ HostTrue
  BY DEF IInv
<1>2. /\ Is("codex") /\ pc = "read" /\ pc' = "drained" /\ UNCHANGED <<cfg, agent, tree, clk, last, calls, good>>
      /\ host' = [host EXCEPT !.busy = FALSE]
  BY DEF CodexStreamEnds, At
<1>3. PICK result \in {"none", "success", "failed"} : turn' = [turn EXCEPT !.result = result]
  BY DEF CodexStreamEnds
<1>4. host' \in HostType /\ host'.call = host.call
  BY <1>1, <1>2 DEF Typed, HostType
<1>5. /\ turn' \in TurnType /\ turn'.flag = turn.flag /\ turn'.capped = turn.capped
      /\ turn'.calls = turn.calls /\ turn'.of = turn.of /\ turn'.result = result
  BY <1>1, <1>3 DEF Typed, TurnType
<1>6. HostTrue' /\ ResultTrue'
  BY <1>2, <1>5 DEF HostTrue, ResultTrue, Open, Cli, Is
<1> QED
  BY <1>1, <1>2, <1>4, <1>5, <1>6, PassGood, PlacesAre
     DEF Passes, DataTyped, ResultsKept, SameCount, LivePlaces, Early, Idle, Is, Typed

\* The cooperative stop and the cap behind a notification.
LEMMA CodexCheckGood == ASSUME IInv, CodexCheck PROVE Good
<1>1. Typed /\ HostTrue
  BY DEF IInv
<1>2. PICK stop \in BOOLEAN :
       LET cut == stop \/ Over(turn.calls)
       IN  /\ turn' = [turn EXCEPT !.stopped = stop, !.capped = cut /\ ~ stop]
           /\ pc' = IF cut THEN "drained" ELSE "read"
           /\ IF cut THEN \E b \in BOOLEAN : host' = [host EXCEPT !.busy = @ /\ b] ELSE UNCHANGED host
  BY DEF CodexCheck
<1>3. Is("codex") /\ pc = "check" /\ UNCHANGED <<cfg, agent, tree, clk, last, calls, good>>
  BY DEF CodexCheck, At
<1>4. Over(turn.calls) \in BOOLEAN
  BY DEF Over
<1>5. /\ turn' \in TurnType /\ turn'.flag = turn.flag /\ turn'.calls = turn.calls /\ turn'.of = turn.of
      /\ turn'.inCall = turn.inCall /\ turn'.ran = turn.ran /\ turn'.result = turn.result
      /\ (turn'.capped => Over(turn.calls))
  BY <1>1, <1>2, <1>4 DEF Typed, TurnType
<1>6. /\ host' \in HostType /\ host'.call = host.call /\ host'.stage = host.stage
      /\ host'.owner = host.owner /\ (host'.busy => host.busy)
  <2>1. CASE host' = host
    BY <1>1, <2>1 DEF Typed
  <2>2. ASSUME NEW b \in BOOLEAN, host' = [host EXCEPT !.busy = @ /\ b]
        PROVE  /\ host' \in HostType /\ host'.call = host.call /\ host'.stage = host.stage
               /\ host'.owner = host.owner /\ (host'.busy => host.busy)
    BY <1>1, <2>2 DEF Typed, HostType
  <2> QED
    BY <1>2, <2>1, <2>2
<1>7. pc' \in {"drained", "read"} /\ (Open' => ~ Over(turn.calls))
  BY <1>2 DEF Open
<1>8. HostTrue'
  BY <1>1, <1>3, <1>6 DEF HostTrue, Open, Cli, Is
<1>9. pc' \in LivePlaces \ {"close", "check", "spawn", "drainTasks"}
  BY <1>3, <1>7, PlacesAre DEF LivePlaces, Is
<1> QED
  BY <1>3, <1>5, <1>6, <1>7, <1>8, <1>9, CheckGood DEF Checks, Is

\* An exception of the pump.
LEMMA CodexHandlesGood ==
  ASSUME IInv, Is("codex"), pc \in {"read", "drained"}, CodexHandles(Swept(tree)),
         turn' = turn, host' \in HostType, host'.call = host.call, host'.busy = host.busy
  PROVE  Good
<1>1. Typed /\ HostTrue /\ ResultTrue
  BY DEF IInv
<1>2. /\ Swept(tree) \in TreeType /\ Swept(tree).start = tree.start /\ Swept(tree).end = tree.end
      /\ \A t \in Tools : tree.tool[t] \in {"ok", "error"} => Swept(tree).tool[t] \in {"ok", "error"}
  BY <1>1, SweptTree DEF Typed, Sweeps
<1>3. ~ Idle /\ ~ Early /\ pc # "close"
  BY DEF Idle, Early, Is
<1>4. ASSUME NEW how \in {"timeout", "crash"}, Raises(Swept(tree), how)
      PROVE  Good
  <2>1. cfg' = cfg /\ pc' = "failed"
    BY <1>4 DEF Raises, Throws
  <2>2. HostTrue'
    BY <2>1 DEF HostTrue, Open, Cli, Is
  <2>3. Ends(Swept(tree))
    BY <1>1, <1>2, <1>3, <2>2 DEF Ends, SameCount, Typed
  <2> QED
    BY <1>4, <2>3, RaiseGood
<1>5. CASE EndedCleanly /\ tree' = Swept(tree) /\ pc' = "leave" /\ UNCHANGED <<cfg, agent, clk, last, calls, good>>
  <2>1. HostTrue' /\ ResultTrue'
    BY <1>1, <1>5 DEF HostTrue, ResultTrue, EndedCleanly, Open, Cli, Is
  <2>2. pc' \in LivePlaces \ {"close", "pump", "read", "check", "drain", "poll", "spawn", "drainTasks"}
    BY <1>5, PlacesAre DEF LivePlaces, Is
  <2> QED
    BY <1>1, <1>2, <1>3, <1>5, <2>1, <2>2, PassGood DEF Passes, DataTyped, ResultsKept, SameCount, Typed
<1> QED
  BY <1>4, <1>5 DEF CodexHandles

\* The read raises.
LEMMA CodexReadFailsGood == ASSUME IInv, CodexReadFails PROVE Good
<1>1. host \in HostType
  BY DEF IInv, Typed
<1>2. host' \in HostType /\ host'.call = host.call /\ host'.busy = host.busy
  BY <1>1 DEF CodexReadFails, HostType
<1> QED
  BY <1>2, CodexHandlesGood DEF CodexReadFails, At

\* The pump is over: a turn goes on only with a result, or because it was cut.
LEMMA CodexDrainGood == ASSUME IInv, CodexDrain PROVE Good
<1>1. Typed /\ HostTrue /\ ResultTrue
  BY DEF IInv
<1>2. Is("codex") /\ pc = "drained" /\ turn' = turn /\ host' = host
  BY DEF CodexDrain, At
<1>3. CASE CodexHandles(Swept(tree))
  BY <1>1, <1>2, <1>3, CodexHandlesGood DEF Typed
<1>4. CASE /\ turn.result # "none" \/ EndedCleanly
           /\ tree' = Swept(tree)
           /\ pc' = IF turn.spawned /\ ~ turn.stopped THEN "recover" ELSE "leave"
           /\ UNCHANGED <<cfg, agent, clk, last, calls, good>>
  <2>1. /\ Swept(tree) \in TreeType /\ Swept(tree).start = tree.start /\ Swept(tree).end = tree.end
        /\ \A t \in Tools : tree.tool[t] \in {"ok", "error"} => Swept(tree).tool[t] \in {"ok", "error"}
    BY <1>1, SweptTree DEF Typed, Sweeps
  <2>2. HostTrue' /\ ResultTrue'
    BY <1>1, <1>2, <1>4 DEF HostTrue, ResultTrue, EndedCleanly, Open, Cli, Is
  <2>3. pc' \in LivePlaces \ {"close", "pump", "read", "check", "drain", "poll", "spawn", "drainTasks"}
    BY <1>2, <1>4, PlacesAre DEF LivePlaces, Is
  <2> QED
    BY <1>1, <1>2, <1>4, <2>1, <2>2, <2>3, PassGood
       DEF Passes, DataTyped, ResultsKept, SameCount, Typed, Idle, Early, Is
<1> QED
  BY <1>3, <1>4 DEF CodexDrain

\* The calls of the children are added.
LEMMA CodexRecoverGood == ASSUME IInv, CodexRecover PROVE Good
<1>1. Typed /\ HostTrue /\ ResultTrue
  BY DEF IInv
<1>2. /\ Is("codex") /\ pc = "recover" /\ pc' = "leave" /\ UNCHANGED <<cfg, agent, turn, host, clk, last, calls, good>>
  BY DEF CodexRecover, At
<1>3. PICK S \in SUBSET Unseen : tree' = [tree EXCEPT !.tool = [t \in Tools |-> IF t \in S THEN "ok" ELSE @[t]]]
  BY DEF CodexRecover
<1>4. /\ tree' \in TreeType /\ tree'.start = tree.start /\ tree'.end = tree.end
      /\ \A t \in Tools : tree'.tool[t] = IF t \in S THEN "ok" ELSE tree.tool[t]
  BY <1>1, <1>3 DEF Typed, TreeType, Marks
<1>5. HostTrue' /\ ResultTrue'
  BY <1>1, <1>2 DEF HostTrue, ResultTrue, EndedCleanly, Open, Cli, Is
<1>6. pc' \in LivePlaces \ {"close", "pump", "read", "check", "drain", "poll", "spawn", "drainTasks"}
  BY <1>2, PlacesAre DEF LivePlaces, Is
<1> QED
  BY <1>1, <1>2, <1>4, <1>5, <1>6, PassGood
     DEF Passes, DataTyped, ResultsKept, SameCount, Typed, Idle, Early, Is

\* A cancellation ends the call whatever cut the turn.
LEMMA CodexCancelledGood == ASSUME IInv, CodexCancelled PROVE Good
<1>1. Typed /\ HostTrue
  BY DEF IInv
<1>2. Is("codex") /\ pc \in {"read", "recover"} /\ Cancelled(Swept(tree), turn.flag) /\ turn' = turn /\ host' = host
  BY DEF CodexCancelled
<1>3. cfg' = cfg /\ pc' = "failed"
  BY <1>2 DEF Cancelled, Throws
<1>4. /\ Swept(tree) \in TreeType /\ Swept(tree).start = tree.start
      /\ \A t \in Tools : tree.tool[t] \in {"ok", "error"} => Swept(tree).tool[t] \in {"ok", "error"}
  BY <1>1, SweptTree DEF Typed, Sweeps
<1>5. HostTrue'
  BY <1>2, <1>3 DEF HostTrue, Open, Cli, Is
<1>6. Ends(Swept(tree)) /\ turn.flag \in BOOLEAN
  BY <1>1, <1>2, <1>4, <1>5 DEF Ends, SameCount, Typed, Is, Idle, Early, TurnType
<1> QED
  BY <1>2, <1>6, CancelGood

\* A turn its provider gave up is not returned.
LEMMA CodexLeaveGood == ASSUME IInv, CodexLeave PROVE Good
<1>1. Typed /\ HostTrue /\ ResultTrue /\ CancelTrue
  BY DEF IInv
<1>2. Is("codex") /\ pc = "leave" /\ turn' = turn /\ host' = host
  BY DEF CodexLeave, At
<1>3. cfg' = cfg /\ pc' \in {"idle", "failed"}
  BY DEF CodexLeave, Raises, Throws, Returns
<1>4. HostTrue'
  BY <1>2, <1>3 DEF HostTrue, Open, Cli, Is
<1>5. Ends(tree)
  BY <1>1, <1>2, <1>4 DEF Ends, SameCount, Typed, Is, Idle, Early
<1>6. ASSUME NEW how \in {"timeout", "crash"}, Raises(tree, how)
      PROVE  Good
  BY <1>5, <1>6, RaiseGood
<1>7. ASSUME NEW status \in CleanEnds, Returns(tree, status), ~ turn.flag,
             ~ (turn.result = "failed" /\ ~ EndedCleanly)
      PROVE  Good
  <2>1. ~ turn.stopped /\ ~ turn.capped => turn.result = "success"
    BY <1>1, <1>2, <1>7 DEF ResultTrue, EndedCleanly
  <2>2. clk.asked /\ ~ clk.cancel => clk.eaten
    BY <1>1, <1>2 DEF CancelTrue, Idle
  <2> QED
    BY <1>2, <1>5, <1>7, <2>1, <2>2, ReturnGood DEF Is
<1> QED
  BY <1>6, <1>7 DEF CodexLeave, CleanEnds
-----------------------------------------------------------------------------
(* Delegate. *)

\* A call on a host that is not busy starts it on this call's prompt.
LEMMA SentHost ==
  ASSUME NEW h \in HostType, NEW n \in Nat, ~ h.busy
  PROVE  /\ Sent(h, n) \in HostType /\ Sent(h, n).call = 0 /\ Sent(h, n).stage = "idle"
         /\ Sent(h, n).up = h.up /\ Sent(h, n).busy = h.up /\ Sent(h, n).owner = n
<1> DEFINE s == [NewHost EXCEPT !.up = h.up, !.busy = h.up, !.owner = n]
<1>1. h.up \in BOOLEAN
  BY DEF HostType
<1>2. /\ s \in HostType /\ s.call = 0 /\ s.stage = "idle" /\ s.owner = n
      /\ s.up = h.up /\ s.busy = h.up
  <2> DEFINE b == h.up
  <2>1. b \in BOOLEAN
    BY <1>1
  <2> HIDE DEF b
  <2>2. LET q == [NewHost EXCEPT !.up = b, !.busy = b, !.owner = n]
        IN  /\ q \in HostType /\ q.call = 0 /\ q.stage = "idle" /\ q.owner = n
            /\ q.up = b /\ q.busy = b
    BY <2>1 DEF NewHost, HostType
  <2> QED
    BY <2>2 DEF b
<1>3. Sent(h, n) = s
  BY DEF Sent
<1> HIDE DEF s
<1> QED
  BY <1>2, <1>3

\* A call begins on a live host, which is not busy.
LEMMA DelegateBeginGood == ASSUME IInv, DelegateBegin PROVE Good
<1>1. Typed /\ HostTrue
  BY DEF IInv
<1>2. /\ MayCall /\ Enter(FALSE, Started(TRUE)) /\ Is("delegate") /\ host.up /\ cfg' = cfg /\ calls' = calls + 1
      /\ last' = "none" /\ host' = Sent(host, calls + 1) /\ pc' = "read"
  BY DEF DelegateBegin, Enter
<1>3. ~ host.busy
  BY <1>1, <1>2 DEF HostTrue, MayCall, Idle
<1>4. /\ host' \in HostType /\ host'.call = 0 /\ host'.stage = "idle" /\ host'.owner = calls' /\ host'.up
  <2>1. calls + 1 \in Nat
    BY <1>1, Kinds DEF Typed, KindFacts
  <2> QED
    BY <1>1, <1>2, <1>3, <2>1, SentHost DEF Typed
<1>5. HostTrue'
  BY <1>2, <1>4 DEF HostTrue, Cli, Is, Early, Idle
<1>6. pc' \in LivePlaces \cap {"pump", "read", "drain", "spawn"} /\ pc' # "spawn"
  BY <1>2, PlacesAre DEF LivePlaces, Is
<1> QED
  BY <1>2, <1>4, <1>5, <1>6, EnterGood

\* A call begins without a host.
LEMMA DelegateRespawnsGood == ASSUME IInv, DelegateRespawns PROVE Good
<1>1. Typed /\ BooksTrue /\ TimerTrue /\ HostTrue /\ CancelTrue /\ CutTrue
  BY DEF IInv
<1>2. /\ Is("delegate") /\ MayCall /\ ~ host.up /\ calls' = calls + 1 /\ last' = "none" /\ tree' = NewTree
      /\ turn' = NewTurn /\ pc' = "drainTasks" /\ UNCHANGED <<cfg, agent, host, clk, good>>
  BY DEF DelegateRespawns
<1>3. KindFacts
  BY <1>1, Kinds
<1>4. ~ Open' /\ Early' /\ ~ Idle' /\ Idle
  BY <1>2 DEF Open, Early, Is, Idle, MayCall
<1>5. Moves
  <2>1. pc' \in LivePlaces
    BY <1>2, PlacesAre DEF LivePlaces, Is
  <2> QED
    BY <1>2, <1>4, <2>1, NewRecords DEF Moves, MRespawn
<1>6. TimerTrue' /\ Blank' /\ CallsTrue' /\ ResultTrue'
  BY <1>1, <1>2, <1>4, NewRecords DEF TimerTrue, Blank, CallsTrue, ResultTrue, Is
<1>7. CancelTrue'
  BY <1>1, <1>2 DEF CancelTrue, MayCall
<1>8. HostTrue'
  BY <1>1, <1>2, <1>4 DEF HostTrue, Cli, Is
<1>9. CutTrue'
  BY <1>1, <1>2, <1>3, NewRecords DEF CutTrue, KindFacts
<1>10. Stands
  BY <1>2, NewRecords DEF Stands
<1> QED
  BY <1>1, <1>2, <1>5, <1>6, <1>7, <1>8, <1>9, <1>10, NewRecords DEF Good, Typed

\* The await of the drain tasks loses a cancellation, and only it does.
LEMMA DelegateDrainTasksGood == ASSUME IInv, DelegateDrainTasks PROVE Good
<1>1. Typed /\ BooksTrue /\ TimerTrue /\ HostTrue /\ CancelTrue /\ CutTrue /\ Blank /\ ResultTrue
  BY DEF IInv
<1>2. /\ Is("delegate") /\ pc = "drainTasks" /\ clk' = [clk EXCEPT !.eaten = @ \/ clk.cancel, !.cancel = FALSE]
      /\ pc' = "spawn" /\ UNCHANGED <<cfg, agent, tree, turn, host, last, calls, good>>
  BY DEF DelegateDrainTasks, At
<1>3. /\ clk' \in ClockType /\ clk'.asked = clk.asked /\ clk'.timer = clk.timer /\ clk'.stray = clk.stray
      /\ (clk'.eaten <=> clk.eaten \/ clk.cancel)
  <2>1. (clk.eaten \/ clk.cancel) \in BOOLEAN
    BY <1>1 DEF Typed, ClockType
  <2> QED
    BY <1>1, <1>2, <2>1 DEF Typed, ClockType
<1>4. ~ Open' /\ Early' /\ Early /\ ~ Idle' /\ ~ Idle
  BY <1>2 DEF Open, Early, Is, Idle
<1>5. Moves
  <2>1. pc' \in LivePlaces \ {"close"}
    BY <1>2, PlacesAre DEF LivePlaces, Is
  <2> QED
    BY <1>2, <1>4, <2>1 DEF Moves, MStay
<1>6. TimerTrue' /\ Blank' /\ CallsTrue' /\ ResultTrue' /\ CancelTrue'
  BY <1>1, <1>2, <1>3, <1>4 DEF TimerTrue, Blank, CallsTrue, ResultTrue, CancelTrue, Is
<1>7. HostTrue'
  BY <1>1, <1>2, <1>4 DEF HostTrue, Cli, Is
<1>8. CutTrue'
  BY <1>1, <1>2 DEF CutTrue, Is
<1>9. Stands
  BY <1>2 DEF Stands
<1> QED
  BY <1>1, <1>2, <1>3, <1>5, <1>6, <1>7, <1>8, <1>9 DEF Good, Typed

\* The turn begins behind the new host.
LEMMA DelegateSpawnedGood == ASSUME IInv, DelegateSpawned PROVE Good
<1>1. Typed /\ BooksTrue /\ TimerTrue /\ HostTrue /\ CancelTrue /\ CutTrue /\ Blank /\ ResultTrue
  BY DEF IInv
<1>2. /\ Is("delegate") /\ pc = "spawn" /\ agent' = Begun /\ tree' = Started(TRUE) /\ pc' = "read"
      /\ host' = Sent([host EXCEPT !.up = TRUE], calls) /\ clk' = [clk EXCEPT !.late = FALSE]
      /\ UNCHANGED <<cfg, turn, last, calls, good>>
  BY DEF DelegateSpawned, At
<1>3. KindFacts
  BY <1>1, Kinds
<1>4. ~ Early' /\ Early /\ ~ Idle' /\ ~ Idle
  BY <1>2 DEF Early, Is, Idle
<1>5. /\ host' \in HostType /\ host'.call = 0 /\ host'.stage = "idle" /\ host'.owner = calls /\ host'.up
  <2> DEFINE h == [host EXCEPT !.up = TRUE]
  <2>1. h \in HostType /\ ~ h.busy /\ h.up
    BY <1>1, <1>2, <1>4 DEF Typed, HostType, HostTrue
  <2>2. calls \in Nat
    BY <1>1, <1>3 DEF Typed, KindFacts
  <2> HIDE DEF h
  <2>3. /\ Sent(h, calls) \in HostType /\ Sent(h, calls).call = 0 /\ Sent(h, calls).stage = "idle"
        /\ Sent(h, calls).owner = calls /\ Sent(h, calls).up
    BY <2>1, <2>2, SentHost
  <2> QED
    BY <1>2, <2>3 DEF h
<1>6. /\ clk' \in ClockType /\ clk'.asked = clk.asked /\ clk'.timer = clk.timer /\ clk'.stray = clk.stray
      /\ clk'.eaten = clk.eaten /\ clk'.cancel = clk.cancel
  BY <1>1, <1>2 DEF Typed, ClockType
<1>7. /\ turn' \in TurnType /\ turn' = NewTurn /\ ~ turn'.capped /\ turn'.calls = 0 /\ ~ turn'.inCall
      /\ tree' \in TreeType /\ tree'.start /\ tree'.end = "none"
      /\ \A t \in Tools : turn'.of[t] = 0 /\ tree'.tool[t] = "unseen"
  BY <1>1, <1>2, NewRecords, StartedTree DEF Blank
<1>8. Moves
  <2>1. pc' \in LivePlaces \ {"close"}
    BY <1>2, PlacesAre DEF LivePlaces, Is
  <2> QED
    BY <1>2, <1>4, <1>7, <2>1 DEF Moves, MSpawned
<1>9. TimerTrue' /\ Blank' /\ ResultTrue' /\ CancelTrue'
  BY <1>1, <1>2, <1>4, <1>6 DEF TimerTrue, Blank, ResultTrue, CancelTrue, Is
<1>10. CallsTrue'
  <2>1. Linked'
    BY <1>2, <1>5, <1>7 DEF Linked, Is
  <2>3. ToolsTrue'
    BY <1>7 DEF ToolsTrue
  <2>2. cfg'.cap > 0 => turn'.calls <= cfg'.cap
    BY <1>2, <1>3, <1>7 DEF KindFacts
  <2> QED
    BY <1>2, <1>5, <1>7, <2>1, <2>2, <2>3 DEF CallsTrue
<1>11. HostTrue'
  BY <1>2, <1>4, <1>5 DEF HostTrue, Cli, Is
<1>12. CutTrue'
  BY <1>3, <1>5, <1>7 DEF CutTrue, KindFacts
<1>13. Stands
  BY <1>2, <1>7 DEF Stands
<1> QED
  BY <1>5, <1>6, <1>7, <1>8, <1>9, <1>10, <1>11, <1>12, <1>13 DEF Good

\* What a call leaves that throws without closing its events.
LEMMA BareThrow ==
  ASSUME IInv, ~ Idle, NEW how \in {"refused", "cancelled"}, NEW c \in BOOLEAN,
         c = clk.cancel \/ how = "cancelled",
         Throws(tree, agent, how, c), Is("delegate"), turn' = turn,
         host' \in HostType, host'.call = host.call,
         host'.busy => host'.up /\ how = "cancelled",
         MRefuse \/ MTear
  PROVE  Good
<1>1. Typed /\ TimerTrue /\ CancelTrue /\ CutTrue
  BY DEF IInv
<1>2. /\ pc' = "failed" /\ last' = how /\ tree' = tree /\ UNCHANGED <<cfg, calls, good>>
      /\ clk' = [Disarmed EXCEPT !.cancel = c]
  BY DEF Throws
<1>3. /\ clk' \in ClockType /\ clk'.cancel = c /\ clk'.asked = clk.asked /\ clk'.eaten = clk.eaten
      /\ clk'.stray = clk.stray /\ (clk.timer = "off" => clk'.timer = "off")
  <2>1. /\ Disarmed \in ClockType
        /\ Disarmed.timer = (IF clk.timer = "armed" THEN "off" ELSE clk.timer)
        /\ Disarmed.asked = clk.asked /\ Disarmed.stray = clk.stray /\ Disarmed.eaten = clk.eaten
    BY <1>1, DisarmedClock DEF Typed
  <2> QED
    BY <1>2, <2>1 DEF ClockType
<1>4. Idle' /\ ~ Open' /\ ~ Early'
  BY <1>2 DEF Idle, Open, Early
<1>5. TimerTrue' /\ Blank' /\ CallsTrue' /\ ResultTrue' /\ CancelTrue'
  BY <1>1, <1>2, <1>3, <1>4 DEF TimerTrue, Blank, CallsTrue, ResultTrue, CancelTrue, Is
<1>6. HostTrue'
  BY <1>2, <1>4 DEF HostTrue, Cli, Is
<1>7. CutTrue'
  BY <1>1, <1>2 DEF CutTrue, Is
<1>8. Moves
  BY DEF Moves
<1>9. Stands
  BY <1>2 DEF Stands
<1> QED
  BY <1>1, <1>2, <1>3, <1>5, <1>6, <1>7, <1>8, <1>9 DEF Good, Typed

\* The host is refused: no turn has begun.
LEMMA DelegateRefusedGood == ASSUME IInv, DelegateRefused PROVE Good
<1>1. Typed /\ HostTrue
  BY DEF IInv
<1>2. Is("delegate") /\ pc = "spawn" /\ Throws(tree, agent, "refused", clk.cancel) /\ turn' = turn /\ host' = host
  BY DEF DelegateRefused, At
<1>3. Early /\ ~ Idle
  BY <1>2 DEF Early, Idle
<1>4. MRefuse
  BY <1>2, <1>3 DEF MRefuse, Throws
<1>5. ~ host.busy /\ host \in HostType /\ clk.cancel \in BOOLEAN
  BY <1>1, <1>2, <1>3 DEF HostTrue, Typed, ClockType
<1> QED
  BY <1>2, <1>3, <1>4, <1>5, BareThrow

\* A cancellation there ends the call before its turn.
LEMMA DelegateSpawnCancelledGood == ASSUME IInv, DelegateSpawnCancelled PROVE Good
<1>1. Typed /\ HostTrue
  BY DEF IInv
<1>2. Is("delegate") /\ pc = "spawn" /\ Throws(tree, agent, "cancelled", FALSE) /\ turn' = turn
  BY DEF DelegateSpawnCancelled, At
<1>3. PICK b \in BOOLEAN : host' = [host EXCEPT !.up = b]
  BY DEF DelegateSpawnCancelled
<1>4. Early /\ ~ Idle
  BY <1>2 DEF Early, Idle
<1>5. MRefuse
  BY <1>2, <1>4 DEF MRefuse, Throws
<1>6. host' \in HostType /\ host'.call = host.call /\ ~ host'.busy
  BY <1>1, <1>2, <1>3, <1>4 DEF HostTrue, Typed, HostType
<1> QED
  BY <1>2, <1>4, <1>5, <1>6, BareThrow

\* A frame opens a call of the model, or belongs to the one that is open.
LEMMA DelegateReadGood == ASSUME IInv, DelegateRead PROVE Good
<1>1. Typed /\ CallsTrue /\ CutTrue
  BY DEF IInv
<1>2. /\ Is("delegate") /\ pc = "read" /\ pc' = "check" /\ UNCHANGED <<cfg, agent, clk, last, calls, good>>
  BY DEF DelegateRead, At
<1>3. /\ turn.calls = host.call /\ host.call \in Nat /\ turn.calls \in Nat
      /\ turn \in TurnType /\ host \in HostType /\ tree \in TreeType
      /\ host.call <= MaxSteps + 1 /\ (turn.inCall <=> host.stage = "text")
      /\ turn.inCall \in BOOLEAN
  BY <1>1, <1>2 DEF CallsTrue, CutTrue, Linked, Open, Typed, HostType, TurnType
<1>4. MaxSteps \in Nat
  BY <1>1, Kinds DEF KindFacts
<1>5. ASSUME DelegateText \/ DelegateUsage
      PROVE  Reads
  <2> DEFINE m == IF turn.inCall THEN host.call ELSE host.call + 1
  <2>1. /\ tree' = tree /\ \A t \in Tools : tree.tool[t] # "open"
        /\ turn.inCall \/ host.call < MaxSteps
    BY <1>3, <1>5 DEF DelegateText, DelegateUsage, HasOpen
  <2>2. m \in Nat
    BY <1>3
  <2>3. CASE DelegateText
    <3>1. host' = [host EXCEPT !.stage = "text", !.call = m] /\ turn' = [turn EXCEPT !.inCall = TRUE, !.calls = m]
      BY <1>3, <2>3 DEF DelegateText
    <3>2. /\ host' \in HostType /\ host'.call = m /\ host'.up = host.up /\ host'.busy = host.busy
          /\ host'.owner = host.owner /\ host'.code = host.code /\ host'.stage = "text"
          /\ turn' \in TurnType /\ turn'.calls = m /\ turn'.of = turn.of /\ turn'.inCall
          /\ turn'.flag = turn.flag /\ turn'.capped = turn.capped
      <4> HIDE DEF m
      <4> QED
        BY <1>3, <2>2, <3>1 DEF HostType, TurnType
    <3>3. Linked'
      BY <1>2, <3>2 DEF Linked, Is
    <3>4. m \in {host.call, host.call + 1} /\ m <= MaxSteps + 1
      BY <1>3, <1>4, <2>1
    <3> HIDE DEF m
    <3> QED
      BY <1>2, <1>3, <2>1, <3>2, <3>3, <3>4 DEF Reads, Is
  <2>4. CASE DelegateUsage
    <3>1. host' = [host EXCEPT !.call = m, !.stage = "tools"] /\ turn' = [turn EXCEPT !.inCall = FALSE, !.calls = m]
      BY <1>3, <2>4 DEF DelegateUsage
    <3>2. /\ host' \in HostType /\ host'.call = m /\ host'.up = host.up /\ host'.busy = host.busy
          /\ host'.owner = host.owner /\ host'.code = host.code /\ host'.stage = "tools"
          /\ turn' \in TurnType /\ turn'.calls = m /\ turn'.of = turn.of /\ ~ turn'.inCall
          /\ turn'.flag = turn.flag /\ turn'.capped = turn.capped
      <4> HIDE DEF m
      <4> QED
        BY <1>3, <2>2, <3>1 DEF HostType, TurnType
    <3>3. Linked'
      BY <1>2, <3>2 DEF Linked, Is
    <3>4. m \in {host.call, host.call + 1} /\ m <= MaxSteps + 1
      BY <1>3, <1>4, <2>1
    <3> HIDE DEF m
    <3> QED
      BY <1>2, <1>3, <2>1, <3>2, <3>3, <3>4 DEF Reads, Is
  <2> QED
    BY <1>5, <2>3, <2>4
<1>6. ASSUME NEW t \in Tools,
             DelegateToolCall(t) \/ \E mark \in {"ok", "error"} : DelegateToolResult(t, mark)
      PROVE  Reads
  <2>1. PICK mark \in {"open", "ok", "error"} :
          /\ tree' \in TreeType /\ tree'.start = tree.start /\ tree'.end = tree.end
          /\ \A u \in Tools : tree'.tool[u] = IF u = t THEN mark ELSE tree.tool[u]
    <3>1. CASE DelegateToolCall(t)
      <4>1. /\ tree' \in TreeType /\ tree'.start = tree.start /\ tree'.end = tree.end
            /\ \A u \in Tools : tree'.tool[u] = IF u \in {t} THEN "open" ELSE tree.tool[u]
        BY <1>3, <3>1, OpenedTree DEF DelegateToolCall
      <4> QED
        BY <4>1
    <3>2. ASSUME NEW mark \in {"ok", "error"}, DelegateToolResult(t, mark)
          PROVE  /\ tree' \in TreeType /\ tree'.start = tree.start /\ tree'.end = tree.end
                 /\ \A u \in Tools : tree'.tool[u] = IF u = t THEN mark ELSE tree.tool[u]
      <4>1. mark \in Marks
        BY DEF Marks
      <4> QED
        BY <1>3, <3>2, <4>1, WithTree DEF DelegateToolResult
    <3> QED
      BY <1>6, <3>1, <3>2
  <2>2. turn' = [turn EXCEPT !.inCall = FALSE, !.of[t] = host.call] /\ host' = host /\ host.stage = "tools"
    BY <1>6 DEF DelegateToolCall, DelegateToolResult
  <2>3. /\ turn' \in TurnType /\ turn'.flag = turn.flag /\ turn'.capped = turn.capped /\ ~ turn'.inCall
        /\ turn'.calls = turn.calls /\ turn'.of = [turn.of EXCEPT ![t] = host.call]
    BY <1>3, <2>2 DEF TurnType
  <2>4. \A u \in Tools : turn'.of[u] = IF u = t THEN host.call ELSE turn.of[u]
    BY <1>3, <2>3 DEF TurnType
  <2>5. tree.tool[t] \in {"open", "unseen"}
    BY <1>6 DEF DelegateToolCall, DelegateToolResult, Unseen
  <2>6. Linked'
    BY <1>2, <2>2, <2>3 DEF Linked, Is
  <2> QED
    BY <1>2, <1>3, <2>1, <2>2, <2>3, <2>4, <2>5, <2>6 DEF Reads, Is
<1> QED
  BY <1>5, <1>6, ReadGood DEF DelegateRead, DelegateFrame

\* The host's own count is the counted one.
LEMMA DelegateResultGood == ASSUME IInv, DelegateResult PROVE Good
<1>1. Typed /\ HostTrue /\ TimerTrue /\ CancelTrue /\ CallsTrue
  BY DEF IInv
<1>2. /\ Is("delegate") /\ pc = "read" /\ host' = [host EXCEPT !.busy = FALSE] /\ Returns(tree, "COMPLETED")
  BY DEF DelegateResult, At
<1>3. PICK reported \in {turn.calls, host.call} : turn' = [turn EXCEPT !.calls = reported, !.result = "success"]
  BY DEF DelegateResult
<1>4. ~ Idle /\ ~ Early /\ ~ turn.flag /\ ~ turn.capped /\ reported = turn.calls
  BY <1>1, <1>2 DEF Idle, Early, Is, TimerTrue, CallsTrue, Open
<1>5. cfg' = cfg /\ pc' = "idle" /\ last' = "returned"
  BY <1>2 DEF Returns
<1>6. host' \in HostType /\ host'.call = host.call /\ ~ host'.busy
  BY <1>1, <1>2 DEF Typed, HostType
<1>7. /\ turn' \in TurnType /\ turn'.flag = turn.flag /\ turn'.capped = turn.capped
      /\ turn'.calls = turn.calls /\ turn'.of = turn.of
  BY <1>1, <1>3, <1>4 DEF Typed, TurnType
<1>8. HostTrue'
  BY <1>2, <1>5, <1>6 DEF HostTrue, Open, Cli, Is, Early, Idle
<1>9. Ends(tree)
  BY <1>1, <1>2, <1>4, <1>6, <1>7, <1>8 DEF Ends, SameCount, Typed, Is
<1>10. clk.asked /\ ~ clk.cancel => clk.eaten
  BY <1>1, <1>4 DEF CancelTrue
<1> QED
  BY <1>2, <1>4, <1>9, <1>10, ReturnGood DEF Is, CleanEnds

\* A host that was force-killed.
LEMMA DeadHost ==
  ASSUME host \in HostType
  PROVE  /\ HostDead(host) \in HostType /\ HostDead(host).call = host.call /\ HostDead(host).stage = host.stage
         /\ HostDead(host).owner = host.owner /\ ~ HostDead(host).up /\ ~ HostDead(host).busy
  BY DEF HostDead, HostType

\* The host is killed before its exit is awaited.
LEMMA DelegateReapsGood ==
  ASSUME IInv, Is("delegate"), pc = "read", NEW why \in {"timeout", "crash", "error"}, DelegateReaps(why)
  PROVE  Good
<1>1. Typed
  BY DEF IInv
<1>2. turn' = [turn EXCEPT !.why = why] /\ host' = HostDead(host) /\ pc' = "reap"
      /\ UNCHANGED <<cfg, agent, tree, clk, last, calls, good>>
  BY DEF DelegateReaps
<1>3. /\ turn' \in TurnType /\ turn'.flag = turn.flag /\ turn'.capped = turn.capped
      /\ turn'.calls = turn.calls /\ turn'.of = turn.of
  BY <1>1, <1>2 DEF Typed, TurnType
<1>4. host' \in HostType /\ host'.call = host.call /\ ~ host'.up /\ ~ host'.busy
  BY <1>1, <1>2, DeadHost DEF Typed
<1>5. HostTrue' /\ ResultTrue'
  BY <1>2, <1>4 DEF HostTrue, ResultTrue, Open, Cli, Is, Early, Idle
<1>6. pc' \in LivePlaces \ {"close", "pump", "read", "check", "drain", "poll", "spawn", "drainTasks"}
  BY <1>2, PlacesAre DEF LivePlaces, Is
<1> QED
  BY <1>1, <1>2, <1>3, <1>4, <1>5, <1>6, PassGood
     DEF Passes, DataTyped, ResultsKept, SameCount, Typed, Idle, Early, Is

\* The cap and the cooperative stop behind a frame.
LEMMA DelegateCheckGood == ASSUME IInv, DelegateCheck PROVE Good
<1>1. Typed /\ HostTrue
  BY DEF IInv
<1>2. PICK stop \in BOOLEAN :
        LET capped == Over(turn.calls)
            cut    == capped \/ stop
        IN  /\ turn' = [turn EXCEPT !.capped = capped, !.stopped = stop /\ ~ capped,
                                    !.why = IF cut THEN "cut" ELSE @]
            /\ host' = IF cut THEN HostDead(host) ELSE host
            /\ pc' = IF cut THEN "reap" ELSE "read"
  BY DEF DelegateCheck
<1>3. Is("delegate") /\ pc = "check" /\ UNCHANGED <<cfg, agent, tree, clk, last, calls, good>>
  BY DEF DelegateCheck, At
<1>4. Over(turn.calls) \in BOOLEAN
  BY DEF Over
<1>5. /\ turn' \in TurnType /\ turn'.flag = turn.flag /\ turn'.calls = turn.calls /\ turn'.of = turn.of
      /\ turn'.inCall = turn.inCall /\ turn'.ran = turn.ran /\ turn'.result = turn.result
      /\ turn'.capped = Over(turn.calls)
  BY <1>1, <1>2, <1>4 DEF Typed, TurnType
<1>6. /\ host' \in HostType /\ host'.call = host.call /\ host'.stage = host.stage /\ host'.owner = host.owner
      /\ (pc' = "read" => host' = host) /\ (pc' = "reap" => ~ host'.up /\ ~ host'.busy)
  BY <1>1, <1>2, DeadHost DEF Typed
<1>7. pc' \in {"reap", "read"} /\ (Open' => ~ Over(turn.calls))
  BY <1>2 DEF Open
<1>8. HostTrue'
  BY <1>1, <1>3, <1>6, <1>7 DEF HostTrue, Open, Cli, Is, Early, Idle
<1>9. pc' \in LivePlaces \ {"close", "check", "spawn", "drainTasks"}
  BY <1>3, <1>7, PlacesAre DEF LivePlaces, Is
<1> QED
  BY <1>3, <1>5, <1>6, <1>7, <1>8, <1>9, CheckGood DEF Checks, Is

\* The call ends behind the reap.
LEMMA DelegateReapedGood == ASSUME IInv, DelegateReaped PROVE Good
<1>1. Typed /\ HostTrue /\ TimerTrue /\ CancelTrue
  BY DEF IInv
<1>2. Is("delegate") /\ pc = "reap" /\ turn' = turn /\ host' = host
  BY DEF DelegateReaped, At
<1>3. ~ Idle /\ ~ Early /\ ~ turn.flag /\ ~ host.up /\ ~ host.busy
  BY <1>1, <1>2 DEF Idle, Early, Is, TimerTrue, HostTrue
<1>4. \/ turn.why = "cut" /\ Returns(tree, IF turn.stopped THEN "STOPPED_EARLY" ELSE "MAX_TURNS_EXHAUSTED")
      \/ Raises(tree, "timeout") \/ Raises(tree, "crash")
  BY DEF DelegateReaped
<1>5. cfg' = cfg /\ pc' \in {"idle", "failed"}
  BY <1>4 DEF Raises, Throws, Returns
<1>6. HostTrue'
  BY <1>2, <1>3, <1>5 DEF HostTrue, Open, Cli, Is, Early
<1>7. Ends(tree)
  BY <1>1, <1>2, <1>3, <1>6 DEF Ends, SameCount, Typed, Is
<1>8. ASSUME NEW status \in CleanEnds, Returns(tree, status)
      PROVE  Good
  <2>1. clk.asked /\ ~ clk.cancel => clk.eaten
    BY <1>1, <1>3 DEF CancelTrue
  <2> QED
    BY <1>2, <1>3, <1>7, <1>8, <2>1, ReturnGood DEF Is
<1> QED
  BY <1>4, <1>7, <1>8, RaiseGood DEF CleanEnds

\* A cancellation is finalized, except inside the last handler.
LEMMA DelegateCancelledGood == ASSUME IInv, DelegateCancelled PROVE Good
<1>1. Typed /\ HostTrue
  BY DEF IInv
<1>2. Is("delegate") /\ pc \in {"read", "reap"} /\ turn' = turn /\ host' = host
  BY DEF DelegateCancelled
<1>3. ~ Idle /\ ~ Early
  BY <1>2 DEF Idle, Early, Is
<1>4. CASE pc = "reap" /\ turn.why = "error"
  <2>1. Throws(tree, agent, "cancelled", FALSE)
    BY <1>4 DEF DelegateCancelled
  <2>2. MTear
    BY <1>3, <1>4, <2>1 DEF MTear, Throws
  <2>3. host \in HostType /\ (host.busy => host.up)
    BY <1>1, <1>2 DEF Typed, HostTrue
  <2> QED
    BY <1>2, <1>3, <2>1, <2>2, <2>3, BareThrow
<1>5. CASE ~ (pc = "reap" /\ turn.why = "error")
  <2>1. Cancelled(tree, FALSE)
    BY <1>5 DEF DelegateCancelled
  <2>2. cfg' = cfg /\ pc' = "failed" /\ last' = "cancelled"
    BY <2>1 DEF Cancelled, Throws
  <2>3. HostTrue'
    BY <1>1, <1>2, <2>2 DEF HostTrue, Open, Cli, Is, Early
  <2>4. Ends(tree)
    BY <1>1, <1>2, <1>3, <2>3 DEF Ends, SameCount, Typed, Is
  <2> QED
    BY <2>1, <2>4, CancelGood
<1> QED
  BY <1>4, <1>5
-----------------------------------------------------------------------------
(* Every step is a move, and every move keeps the books. *)

\* Every step of every agent leaves the books in order.
LEMMA NextGood == ASSUME IInv, Next PROVE Good
<1>1. CASE ClaudeNext
  BY <1>1, ClaudeBeginGood, ClaudeSetupFailsGood, ClaudeReadGood, ClaudeReadLateGood, ClaudeSwallowsGood,
     ClaudeFailsGood, ClaudeCheckGood, ClaudeStreamEndsGood, ClaudeCancelledGood, ClaudeFinalizeGood,
     ClaudeExitGood DEF ClaudeNext, ClaudeGoes
<1>2. CASE CodexNext
  BY <1>2, CodexBeginGood, CodexSetupFailsGood, CodexReadGood, CodexStreamEndsGood, CodexReadFailsGood,
     CodexCheckGood, CodexDrainGood, CodexRecoverGood, CodexCancelledGood, CodexLeaveGood
     DEF CodexNext, CodexGoes
<1>3. CASE DelegateNext
  BY <1>3, DelegateBeginGood, DelegateRespawnsGood, DelegateRefusedGood, DelegateReadGood, DelegateResultGood,
     DelegateReapsGood, DelegateDrainTasksGood, DelegateSpawnedGood, DelegateCheckGood, DelegateReapedGood,
     DelegateCancelledGood, DelegateSpawnCancelledGood
     DEF DelegateNext, DelegateGoes, DelegateCrashes, DelegateFails, DelegateLate, At
<1>4. ASSUME NEW k \in Clis,
             CliBegin(k) \/ CliStreamEnds(k) \/ CliFails(k) \/ CliExits(k) \/ CliGoes(k)
      PROVE  Good
  BY <1>4, CliBeginGood, CliStreamEndsGood, CliFailsGood, CliExitsGood, CliSpawnedGood, CliCheckGood,
     CliKilledGood, CliLateGood, CliLingersGood, CliCancelledGood DEF CliGoes
<1>5. CASE OpenCodeNext
  <2>1. "opencode" \in Clis
    BY DEF Clis
  <2> QED
    BY <1>4, <1>5, <2>1, OpenCodeReadGood, OpenCodeSettlesGood DEF OpenCodeNext, OpenCodeCommunicate, OpenCodeGoes
<1>6. CASE PiNext
  <2>1. "pi" \in Clis
    BY DEF Clis
  <2> QED
    BY <1>4, <1>6, <2>1, PiReadGood, PiSettlesGood DEF PiNext, PiCommunicate, PiGoes
<1>7. CASE AgyNext
  BY <1>7, AgyBeginGood, AgyReadGood, AgyIdlesGood, AgyFailsGood, AgyCheckGood, AgyPollGood, AgyCancelsGood,
     AgyCancelledGood, AgyLeaveGood DEF AgyNext, AgyGoes
<1> QED
  BY <1>1, <1>2, <1>3, <1>5, <1>6, <1>7, NoopTurnGood, DiscardGood, InterruptGood, ClockGood DEF Next

\* Every agent starts with its books in order.
LEMMA InitBooks == Init => IInv
<1> SUFFICES ASSUME Init PROVE IInv
  OBVIOUS
<1> USE DEF Init
<1>1. MaxCalls \in Nat /\ MaxSteps \in Nat /\ cfg.cap \in Nat /\ cfg.kind \in Agents
  BY AgentTurnAssumption
<1>2. Idle /\ ~ Early /\ ~ Open
  BY DEF Idle, Early, Open
<1>3. agent \in AgentType /\ clk \in ClockType
  BY DEF AgentType, ClockType
<1>4. host \in HostType /\ host.call = 0 /\ ~ host.busy /\ (host.up => Is("delegate"))
  BY DEF HostType, NewHost, Is
<1>5. Typed
  BY <1>1, <1>3, <1>4, NewRecords DEF Typed, Outcomes
<1>6. BooksTrue
  BY <1>2, NewRecords DEF BooksTrue
<1>7. TimerTrue /\ Blank /\ CallsTrue /\ CancelTrue /\ ResultTrue
  BY <1>2, NewRecords DEF TimerTrue, Blank, CallsTrue, CancelTrue, ResultTrue
<1>8. CutTrue
  BY <1>1, <1>4, NewRecords DEF CutTrue
<1>9. HostTrue
  BY <1>2, <1>4 DEF HostTrue, Cli, Is
<1> QED
  BY <1>5, <1>6, <1>7, <1>8, <1>9 DEF IInv

\* A move leaves typed variables, and the books of the Agent object agree
\* with the turns that returned.
LEMMA MovesKeepBooks ==
  ASSUME IInv, Good
  PROVE  IInv'
<1>1. Typed /\ BooksTrue
  BY DEF IInv
<1>2. KindFacts
  BY <1>1, Kinds
<1>3. Moves /\ tree' \in TreeType /\ turn' \in TurnType /\ host' \in HostType /\ clk' \in ClockType
  BY DEF Good
<1> DEFINE Rest == /\ cfg' \in Configs
                   /\ pc' \in {"idle", "failed"} \cup PlacesOf(cfg'.kind)
                   /\ agent' \in AgentType /\ last' \in Outcomes
                   /\ calls' \in 0 .. MaxCalls /\ good' \in 0 .. calls'
                   /\ BooksTrue'
<1>4. /\ cfg \in Configs /\ agent \in AgentType /\ last \in Outcomes
      /\ calls \in Nat /\ calls <= MaxCalls /\ good \in Nat /\ good <= calls /\ MaxCalls \in Nat
      /\ agent.iteration \in Nat
  BY <1>1, <1>2 DEF Typed, KindFacts, AgentType
<1>5. /\ Begun \in AgentType /\ Begun.iteration = agent.iteration + 1
      /\ Begun.bumped /\ Begun.pending = "none"
      /\ EndedOk \in AgentType /\ EndedOk.iteration = agent.iteration
      /\ ~ EndedOk.bumped /\ EndedOk.pending = agent.pending
      /\ \A kept \in BOOLEAN :
           /\ Parked(kept) \in AgentType /\ Parked(kept).iteration = agent.iteration
           /\ Parked(kept).bumped = agent.bumped
  BY <1>1, AgentRecords DEF Typed
<1>6. LivePlaces \cap {"idle", "failed"} = {} /\ LivePlaces = PlacesOf(cfg.kind)
  BY <1>2, PlacesAre DEF LivePlaces, KindFacts, Agents
<1>7. ASSUME MStay
      PROVE  Rest
  BY <1>1, <1>4, <1>6, <1>7 DEF MStay, Typed, BooksTrue, Idle, Early, Is
<1>8. ASSUME MEnter
      PROVE  Rest
  BY <1>1, <1>4, <1>5, <1>6, <1>8 DEF MEnter, MayCall, BooksTrue, Idle, Outcomes
<1>9. ASSUME MRespawn
      PROVE  Rest
  BY <1>1, <1>4, <1>5, <1>6, <1>9 DEF MRespawn, MayCall, BooksTrue, Idle, Early, Outcomes
<1>10. ASSUME MSpawned
      PROVE  Rest
  BY <1>1, <1>4, <1>5, <1>6, <1>10 DEF MSpawned, BooksTrue, Idle, Early
<1>11. ASSUME MReturn
      PROVE  Rest
  BY <1>1, <1>4, <1>5, <1>6, <1>11 DEF MReturn, BooksTrue, Idle, Early, Outcomes
<1>12. ASSUME MRaise
      PROVE  Rest
  BY <1>1, <1>4, <1>5, <1>6, <1>12 DEF MRaise, BooksTrue, Idle, Early, Outcomes, AgentType
<1>13. ASSUME MClose
      PROVE  Rest
  BY <1>1, <1>4, <1>5, <1>6, <1>13 DEF MClose, BooksTrue, Idle, Early, Is, PlacesOf
<1>14. ASSUME MExit
      PROVE  Rest
  BY <1>1, <1>4, <1>5, <1>6, <1>14 DEF MExit, BooksTrue, Idle, Early, Outcomes
<1>15. ASSUME MSetup
      PROVE  Rest
  BY <1>1, <1>4, <1>5, <1>6, <1>15 DEF MSetup, MayCall, BooksTrue, Idle, Early, Outcomes
<1>16. ASSUME MRefuse
      PROVE  Rest
  BY <1>1, <1>4, <1>5, <1>6, <1>16 DEF MRefuse, BooksTrue, Idle, Early, Outcomes
<1>17. ASSUME MTear
      PROVE  Rest
  BY <1>1, <1>4, <1>5, <1>6, <1>17 DEF MTear, BooksTrue, Idle, Early, Outcomes
<1>18. ASSUME NoopTurn
      PROVE  Rest
  <2>1. /\ agent' \in AgentType /\ agent'.iteration = agent.iteration + 1
        /\ ~ agent'.bumped /\ agent'.pending = "none"
    BY <1>5, <1>18 DEF NoopTurn, AgentType
  <2> QED
    BY <1>1, <1>4, <1>6, <1>18, <2>1 DEF NoopTurn, MayCall, BooksTrue, Idle, Early, Outcomes
<1>19. ASSUME Discard
      PROVE  Rest
  <2> DEFINE n == IF agent.bumped \/ agent.pending # "none" THEN agent.iteration - 1 ELSE agent.iteration
  <2>1. n = good
    BY <1>1, <1>4, <1>19 DEF Discard, BooksTrue
  <2>2. agent' = [agent EXCEPT !.pending = "none", !.bumped = FALSE, !.iteration = n]
    BY <1>19 DEF Discard
  <2>3. agent' \in AgentType /\ agent'.iteration = good /\ ~ agent'.bumped /\ agent'.pending = "none"
    <3> HIDE DEF n
    <3> QED
      BY <1>4, <2>1, <2>2 DEF AgentType
  <2> QED
    BY <1>1, <1>4, <1>6, <1>19, <2>3 DEF Discard, BooksTrue, Idle, Early
<1>20. Rest
  BY <1>3, <1>7, <1>8, <1>9, <1>10, <1>11, <1>12, <1>13, <1>14, <1>15, <1>16, <1>17, <1>18, <1>19 DEF Moves
<1> QED
  BY <1>3, <1>20 DEF IInv, Typed, Good

\* A step of an agent keeps the invariant and stays within its move.
LEMMA StepKeeps ==
  ASSUME IInv, [Next]_vars
  PROVE  IInv' /\ (Good \/ UNCHANGED vars)
<1>1. CASE Next
  BY <1>1, NextGood, MovesKeepBooks
<1>2. CASE UNCHANGED vars
  BY <1>2 DEF vars, IInv, Typed, BooksTrue, TimerTrue, Blank, CallsTrue, CutTrue, HostTrue, CancelTrue,
       ResultTrue, Idle, Early, Is, Open, Linked, ToolsTrue, HasOpen, Cli, EndedCleanly
<1> QED
  BY <1>1, <1>2

\* The books of every agent are in order whatever it does, and whatever is
\* done to it.
LEMMA BooksInOrder == Spec => []IInv
<1>1. IInv /\ [Next]_vars => IInv'
  BY StepKeeps
<1> QED
  BY InitBooks, <1>1, PTL DEF Spec

-----------------------------------------------------------------------------
(* The contract. *)

\* Each move is a step that TurnContract allows.
LEMMA MoveIsStep ==
  ASSUME IInv, Good
  PROVE  [Contract!Next]_(Contract!cvars)
<1>1. Typed /\ BooksTrue
  BY DEF IInv
<1>2. KindFacts
  BY <1>1, Kinds
<1>3. Moves /\ tree' \in TreeType
  BY DEF Good
<1>4. /\ Begun.pending = "none" /\ EndedOk.pending = agent.pending
      /\ \A kept \in BOOLEAN : Parked(kept).pending \in {"none", "partial"}
  BY <1>1, AgentRecords DEF Typed, AgentType
<1>5. LivePlaces \cap {"idle", "failed"} = {}
  BY <1>2, PlacesAre DEF LivePlaces, KindFacts, Agents
<1>6. agent.pending \in {"none", "partial"} /\ tree.start \in BOOLEAN /\ tree'.start \in BOOLEAN
  BY <1>1, <1>3 DEF Typed, AgentType, TreeType
<1>7. (Idle <=> pc \in {"idle", "failed"}) /\ (Idle' <=> pc' \in {"idle", "failed"})
  BY DEF Idle
<1>8. Idle \in BOOLEAN /\ Idle' \in BOOLEAN
  BY DEF Idle
<1>9. Contract!CleanStatus = CleanEnds
  BY DEF Contract!CleanStatus, CleanEnds
<1>10. ASSUME MStay PROVE UNCHANGED Contract!cvars
  BY <1>5, <1>7, <1>8, <1>10 DEF MStay, Contract!cvars
<1>11. ASSUME MEnter PROVE Contract!Begin
  BY <1>1, <1>4, <1>5, <1>6, <1>7, <1>8, <1>11 DEF MEnter, MayCall, BooksTrue, Contract!Begin
<1>12. ASSUME MRespawn PROVE Contract!Begin
  BY <1>1, <1>4, <1>5, <1>6, <1>7, <1>8, <1>12 DEF MRespawn, MayCall, BooksTrue, Contract!Begin
<1>13. ASSUME MSpawned PROVE Contract!Start
  BY <1>1, <1>4, <1>5, <1>6, <1>7, <1>8, <1>13 DEF MSpawned, BooksTrue, Early, Contract!Start
<1>14. ASSUME MReturn PROVE Contract!Finish
  BY <1>1, <1>4, <1>5, <1>6, <1>7, <1>8, <1>9, <1>14
     DEF MReturn, BooksTrue, Contract!Finish, Contract!Return
<1>15. ASSUME MRaise PROVE Contract!Fail
  BY <1>1, <1>4, <1>5, <1>6, <1>7, <1>8, <1>15 DEF MRaise, EndOf, BooksTrue, Contract!Fail
<1>16. ASSUME MClose PROVE Contract!Close
  BY <1>1, <1>4, <1>5, <1>6, <1>7, <1>8, <1>9, <1>16
     DEF MClose, BooksTrue, Early, Is, Contract!Close
<1>17. ASSUME MExit PROVE Contract!Decide \/ Contract!Overrun
  BY <1>1, <1>4, <1>5, <1>6, <1>7, <1>8, <1>9, <1>17
     DEF MExit, BooksTrue, Early, CleanEnds, Contract!Decide, Contract!Overrun, Contract!Return
<1>18. ASSUME MSetup PROVE Contract!Unready
  BY <1>1, <1>4, <1>5, <1>6, <1>7, <1>8, <1>18 DEF MSetup, MayCall, BooksTrue, AgentType, Contract!Unready
<1>19. ASSUME MRefuse PROVE Contract!Refuse
  BY <1>1, <1>4, <1>5, <1>6, <1>7, <1>8, <1>19 DEF MRefuse, BooksTrue, Early, Contract!Refuse
<1>20. ASSUME MTear PROVE Contract!Tear
  BY <1>1, <1>4, <1>5, <1>6, <1>7, <1>8, <1>20 DEF MTear, BooksTrue, Contract!Tear
<1>21. ASSUME NoopTurn PROVE Contract!Instant
  <2>1. tree'.start /\ tree'.end = "COMPLETED"
    <3>1. Started(TRUE) \in TreeType /\ Started(TRUE).start
      BY StartedTree
    <3>2. "COMPLETED" \in CleanEnds \cup {"TIMEOUT", "CRASHED"}
      BY DEF CleanEnds
    <3> QED
      BY <1>21, <3>1, <3>2, ClosedTree DEF NoopTurn, Sweeps
  <2>2. agent'.pending = "none"
    <3>1. Begun \in AgentType
      BY <1>1, AgentRecords DEF Typed
    <3> QED
      BY <1>4, <1>21, <3>1 DEF NoopTurn, AgentType
  <2> QED
    BY <1>1, <1>6, <1>7, <1>8, <1>9, <1>21, <2>1, <2>2
       DEF NoopTurn, MayCall, BooksTrue, CleanEnds, Contract!Instant, Contract!Return
<1>22. ASSUME Discard PROVE Contract!Discard
  <2>1. agent'.pending = "none"
    BY <1>1, <1>22 DEF Discard, Typed, AgentType
  <2>2. ~ tree'.start /\ tree'.end = "none"
    BY <1>22, NewRecords DEF Discard
  <2> QED
    BY <1>1, <1>6, <1>7, <1>8, <1>22, <2>1, <2>2 DEF Discard, BooksTrue, Contract!Discard
<1> QED
  BY <1>3, <1>10, <1>11, <1>12, <1>13, <1>14, <1>15, <1>16, <1>17, <1>18, <1>19, <1>20, <1>21, <1>22
     DEF Moves, Contract!Next

\* Every agent keeps the contract the orchestrator relies on.
THEOREM EveryAgentKeepsContract == Spec => ContractKept
<1>1. Init => Contract!Init
  BY NewRecords DEF Init, Idle, TreeType, Contract!Init
<1>2. IInv /\ [Next]_vars => [Contract!Next]_(Contract!cvars)
  <2> SUFFICES ASSUME IInv, [Next]_vars
               PROVE  [Contract!Next]_(Contract!cvars)
    OBVIOUS
  <2>1. CASE Good
    BY <2>1, MoveIsStep
  <2>2. CASE UNCHANGED vars
    BY <2>2 DEF vars, Idle, Contract!cvars
  <2> QED
    BY <2>1, <2>2, StepKeeps
<1> QED
  BY <1>1, <1>2, BooksInOrder, PTL DEF Spec, ContractKept, Contract!Spec

-----------------------------------------------------------------------------
(* What the runs check. *)

\* What a call leaves behind for the next one.
THEOREM EveryCallKeptApart == Spec => []CallsKeptApart
<1>1. IInv => CallsKeptApart
  <2> SUFFICES ASSUME IInv PROVE CallsKeptApart
    OBVIOUS
  <2>1. Typed /\ BooksTrue /\ CallsTrue /\ CutTrue /\ HostTrue /\ CancelTrue
    BY DEF IInv
  <2>2. KindFacts
    BY <2>1, Kinds
  <2>3. agent.iteration \in 0 .. MaxCalls
    BY <2>1, <2>2 DEF Typed, BooksTrue, Idle, KindFacts, AgentType
  <2>4. agent \in [iteration : 0 .. MaxCalls, bumped : BOOLEAN, pending : {"none", "partial"}]
    BY <2>1, <2>3 DEF Typed, AgentType
  <2>5. pc \in {"idle", "failed", "pump", "check", "leave", "close", "read", "drained", "recover",
                "drainTasks", "spawn", "reap", "kill", "settle", "drain", "poll", "cancel"}
    BY <2>1, <2>2, PlacesAre DEF Typed, KindFacts, Agents
  <2>6. TypeOK
    BY <2>1, <2>2, <2>4, <2>5 DEF TypeOK, Typed, TreeType, TurnType, HostType, CutTrue, KindFacts
  <2>7. TurnsBooked
    BY <2>1, <2>6 DEF TurnsBooked, BooksTrue, CutTrue
  <2>8. OwnHost
    BY <2>1 DEF OwnHost, HostTrue, Open, Cli
  <2>9. CancellationHeld
    BY <2>1 DEF CancellationHeld, CancelTrue
  <2> QED
    BY <2>7, <2>8, <2>9 DEF CallsKeptApart
<1> QED
  BY <1>1, BooksInOrder, PTL

\* What comes back as a result was earned, and a tool keeps its result.
THEOREM EveryResultStands == Spec => ResultsStand
<1>1. IInv /\ [Next]_vars => [Stands]_vars
  BY StepKeeps DEF Good
<1>2. [Stands]_vars =>
        [/\ last = "none" /\ last' = "returned" =>
             /\ ~ turn.flag
             /\ ~ turn.stopped /\ ~ turn.capped =>
                  /\ Is("codex") => turn.result = "success"
                  /\ cfg.kind \in {"opencode", "pi"} => host.code = "zero" /\ turn.seen
         /\ \A t \in Tools : tree.tool[t] \in {"ok", "error"} /\ tree'.tool[t] # "unseen"
              => tree'.tool[t] \in {"ok", "error"}]_vars
  BY DEF Stands
<1> QED
  BY <1>1, <1>2, BooksInOrder, PTL DEF Spec, ResultsStand
=============================================================================
