----------------------------- MODULE EarlyStop -----------------------------
(***************************************************************************)
(* EarlyStopWatcher: the callback on an agent's event stream that may cut  *)
(* a turn once its armed criteria are decided, and the gate a cut run is   *)
(* then judged by.                                                         *)
(*                                                                         *)
(* An armed criterion counts the tool calls that match it.  A              *)
(* command_executed criterion wants at least MinCount of them, and at most *)
(* MaxCount if that is set; skill_triggered is the case MinCount = 1 for   *)
(* the expected skill and MaxCount = 0 for any other.  Patterns, tool      *)
(* names and timestamps are left out: a call is of a kind, and each        *)
(* criterion matches some kinds.                                           *)
(***************************************************************************)
EXTENDS Naturals, Sequences, FiniteSets, FiniteSetsExt

CONSTANTS
  Armed,          \* the criteria with a stop_early block
  Weight, MinCount, MaxCount,
  NeedsSuccess,   \* criteria with require_success
  OnPassStop,     \* criteria with on_pass: stop
  DecideWithin,
  NoLimit,        \* no max_count, no decide_within
  Kinds,          \* kinds of tool call
  Matching,       \* the kinds a criterion counts
  Gates,          \* stop_early_gate_threshold, in percent
  MaxCalls,       \* bound: tool calls of the run
  MaxCrashes      \* bound: attempts that crash and are retried

ASSUME ConfigAssumption ==
  /\ Weight \in [Armed -> Nat \ {0}]
  /\ MinCount \in [Armed -> Nat]
  /\ NoLimit \notin Nat
  /\ MaxCount \in [Armed -> Nat \cup {NoLimit}]
  /\ \A c \in Armed : MaxCount[c] # NoLimit => MaxCount[c] >= MinCount[c]
  /\ DecideWithin \in [Armed -> (Nat \ {0}) \cup {NoLimit}]
  /\ NeedsSuccess \subseteq Armed /\ OnPassStop \subseteq Armed
  /\ Matching \in [Armed -> SUBSET Kinds]
  /\ Gates \subseteq 1..100
  /\ MaxCalls \in Nat /\ MaxCrashes \in Nat
  /\ IsFiniteSet(Armed)

VARIABLES
  gate,       \* the threshold of this task
  calls,      \* every tool call dispatched, over all attempts
  seen,       \* the calls in the watcher's collector, by position
  count,      \* _tool_call_index: calls that were resolved
  latched,    \* _latched
  expired,    \* _budget_expired
  info,       \* why the watcher fired, and which timeouts it counted as failed
  disarmed,
  crashes,
  over        \* the turn has ended

watcher == <<seen, count, latched, expired, info, disarmed>>
vars == <<gate, calls, watcher, crashes, over>>

Verdicts == {"undecided", "pass", "fail"}
Call     == [kind : Kinds, status : {"open", "success", "error", "unresolved"}]
NoStop   == [reason |-> "none", timed |-> {}]
Reasons  == {"none", "criterion_passed", "criterion_failed", "decision_budget_exceeded"}

-----------------------------------------------------------------------------
(* The criteria. *)

CanPass(c) == MaxCount[c] = NoLimit /\ MinCount[c] > 0
CanFail(c) == MaxCount[c] # NoLimit

PassTriggers == {c \in OnPassStop : CanPass(c)}
Budget(c)    == IF CanPass(c) THEN DecideWithin[c] ELSE NoLimit

\* How many of the calls at the positions S of cs the criterion counts.
MatchCount(c, cs, S) ==
  Cardinality({i \in S : /\ cs[i].kind \in Matching[c]
                         /\ c \in NeedsSuccess => cs[i].status = "success"})

LiveVerdict(c, cs, S) ==
  IF CanFail(c) /\ MatchCount(c, cs, S) > MaxCount[c] THEN "fail"
  ELSE IF CanPass(c) /\ MatchCount(c, cs, S) >= MinCount[c] THEN "pass"
  ELSE "undecided"

\* The score of a finished turn, against a pass_threshold of 1.
Met(c, cs) ==
  LET n == MatchCount(c, cs, DOMAIN cs)
  IN  n >= MinCount[c] /\ (MaxCount[c] # NoLimit => n <= MaxCount[c])

Worth(S) == FoldFunctionOnSet(+, 0, Weight, S)

Reaches(S, of) == 100 * Worth(S) >= gate * Worth(of)

\* armed_criteria_passed, the gate of a run that was stopped early.
ArmedGate(cs) == Reaches({c \in Armed : Met(c, cs)}, Armed)

-----------------------------------------------------------------------------
(* One round of the watcher over the calls at the positions S, `n' being   *)
(* the number of the round's call.                                         *)

Fresh(c) == latched[c] = "undecided"

RunsOut(c, cs, S, n) ==
  /\ Fresh(c)
  /\ LiveVerdict(c, cs, S) = "undecided"
  /\ Budget(c) # NoLimit
  /\ n >= Budget(c)

\* Mutant: the latch holds the reason in place of the verdict.
CollectNamedTimeouts(cs, S, n) ==
  [c \in Armed |-> IF ~ Fresh(c) THEN latched[c]
                   ELSE IF RunsOut(c, cs, S, n) THEN "decision_budget_exceeded"
                   ELSE LiveVerdict(c, cs, S)]

CollectVerdicts(cs, S, n) ==
  [c \in Armed |-> IF ~ Fresh(c) THEN latched[c]
                   ELSE IF RunsOut(c, cs, S, n) THEN "fail"
                   ELSE LiveVerdict(c, cs, S)]

\* Mutant: a timeout is latched like a failure of its own.
UnmarkedTimeouts(cs, S, n) == expired

\* What a resolved round adds to _budget_expired.
LatchedTimeouts(cs, S, n) == [c \in Armed |-> expired[c] \/ RunsOut(c, cs, S, n)]

\* Mutant: a timeout of a round in flight counts as a failure of its own.
DroveOnceLatched(c, v, lat, exp, n) == exp[c]

\* A fail that is a timeout: marked, or in flight and nothing else it could be.
BudgetDrove(c, v, lat, exp, n) ==
  \/ exp[c]
  \/ /\ v[c] = "fail" /\ lat[c] = "undecided"
     /\ Budget(c) # NoLimit /\ n >= Budget(c)
     /\ ~ CanFail(c)

Failed(v) == {c \in Armed : v[c] = "fail"}

Undecided(v) == {c \in Armed : v[c] = "undecided" /\ CanPass(c)}

\* Ceiling: what can no longer reach the gate, held back while a criterion
\* that may still pass is undecided.
FailStop(v) ==
  /\ Undecided(v) = {}
  /\ Failed(v) # {}
  /\ ~ Reaches(Armed \ Failed(v), Armed)

\* Mutant: siblings outside the subset are not waited for.
PassStopAtOnce(v) ==
  /\ PassTriggers # {}
  /\ Reaches({c \in PassTriggers : v[c] = "pass"}, PassTriggers)

\* Floor: what the on_pass: stop subset has already earned.
PassStop(v) ==
  /\ Undecided(v) \subseteq PassTriggers
  /\ PassTriggers # {}
  /\ Reaches({c \in PassTriggers : v[c] = "pass"}, PassTriggers)

Decision(v, lat, exp, n) ==
  LET timed == {c \in Failed(v) : BudgetDrove(c, v, lat, exp, n)}
  IN  IF FailStop(v)
        THEN [reason |-> IF Failed(v) = timed THEN "decision_budget_exceeded"
                                              ELSE "criterion_failed",
              timed  |-> timed]
      ELSE IF PassStop(v) THEN [reason |-> "criterion_passed", timed |-> timed]
      ELSE NoStop

\* On a ToolStart: the call is evaluated as if it had ended, nothing latched.
EvaluateInFlight(cs, i) ==
  LET n == count + 1
      v == CollectVerdicts(cs, seen \cup {i}, n)
  IN  /\ info' = Decision(v, latched, expired, n)
      /\ UNCHANGED <<seen, count, latched, expired, disarmed>>

\* On a resolved ToolEnd.
EvaluateResolved(cs, i) ==
  LET n == count + 1
      S == seen \cup {i}
      v == CollectVerdicts(cs, S, n)
  IN  /\ seen' = S
      /\ count' = n
      /\ latched' = v
      /\ expired' = LatchedTimeouts(cs, S, n)
      /\ info' = Decision(v, v, expired', n)
      /\ UNCHANGED disarmed

-----------------------------------------------------------------------------
(* The agent's events. *)

Watching == info = NoStop /\ ~ disarmed

Init ==
  /\ gate \in Gates
  /\ calls = << >> /\ seen = {} /\ count = 0
  /\ latched = [c \in Armed |-> "undecided"]
  /\ expired = [c \in Armed |-> FALSE]
  /\ info = NoStop /\ disarmed = FALSE
  /\ crashes = 0 /\ over = FALSE

\* A tool call goes out.  Calls of one message go out together, and the
\* agent polls should_stop between messages only, so some may follow a stop.
Dispatch(k) ==
  /\ ~ over /\ Len(calls) < MaxCalls
  /\ calls' = Append(calls, [kind |-> k, status |-> "open"])
  /\ IF Watching THEN EvaluateInFlight(calls', Len(calls')) ELSE UNCHANGED watcher
  /\ UNCHANGED <<gate, crashes, over>>

\* Its result comes back.
Resolve(i, s) ==
  /\ ~ over /\ calls[i].status = "open"
  /\ calls' = [calls EXCEPT ![i].status = s]
  /\ IF Watching THEN EvaluateResolved(calls', i) ELSE UNCHANGED watcher
  /\ UNCHANGED <<gate, crashes, over>>

\* A live_verdict raises: the watcher never looks again.
CheckerRaises ==
  /\ ~ over /\ Watching
  /\ \/ /\ Len(calls) < MaxCalls
        /\ \E k \in Kinds : calls' = Append(calls, [kind |-> k, status |-> "open"])
        /\ UNCHANGED <<seen, count>>
     \/ \E i \in DOMAIN calls, s \in {"success", "error"} :
          /\ calls[i].status = "open"
          /\ calls' = [calls EXCEPT ![i].status = s]
          /\ seen' = seen \cup {i}
          /\ count' = count + 1
  /\ disarmed' = TRUE
  /\ UNCHANGED <<gate, latched, expired, info, crashes, over>>

OpenCalls(cs) == {i \in DOMAIN cs : cs[i].status = "open"}

\* Mutant: an unresolved end is ignored altogether.
OrphansIgnored == UNCHANGED watcher

\* Unresolved ends: recorded by the collector, neither counted nor evaluated.
RecordOrphans ==
  /\ seen' = IF Watching THEN seen \cup OpenCalls(calls) ELSE seen
  /\ UNCHANGED <<count, latched, expired, info, disarmed>>

\* The end of an attempt closes the calls that have no result.
CloseOrphans ==
  /\ calls' = [i \in DOMAIN calls |->
                 IF i \in OpenCalls(calls) THEN [calls[i] EXCEPT !.status = "unresolved"]
                                           ELSE calls[i]]
  /\ RecordOrphans

\* A crash that is retried: the same watcher goes on.
AttemptCrashes ==
  /\ ~ over /\ crashes < MaxCrashes
  /\ crashes' = crashes + 1
  /\ CloseOrphans
  /\ UNCHANGED <<gate, over>>

\* The agent finishes, or polls should_stop and is cut.
TurnEnds ==
  /\ ~ over
  /\ over' = TRUE
  /\ CloseOrphans
  /\ UNCHANGED <<gate, crashes>>

Done == over /\ UNCHANGED vars

Next ==
  \/ \E k \in Kinds : Dispatch(k)
  \/ \E i \in DOMAIN calls, s \in {"success", "error"} : Resolve(i, s)
  \/ CheckerRaises \/ AttemptCrashes \/ TurnEnds \/ Done

Spec == Init /\ [][Next]_vars

-----------------------------------------------------------------------------
(* Properties. *)

\* Every variable stays in its domain (EarlyStopWatcher's fields).
TypeOK ==
  /\ gate \in Gates
  /\ calls \in Seq(Call)
  /\ seen \subseteq DOMAIN calls
  /\ count \in Nat
  /\ latched \in [Armed -> Verdicts]
  /\ expired \in [Armed -> BOOLEAN]
  /\ info \in [reason : Reasons, timed : SUBSET Armed]
  /\ disarmed \in BOOLEAN /\ crashes \in Nat /\ over \in BOOLEAN

\* A latched verdict that is no timeout is what the checker says of all calls
\* dispatched so far: over parallel calls, orphans and retried attempts, a
\* verdict that is never polled again never goes stale ("Verdict latching").
LatchFaithful ==
  \A c \in Armed : latched[c] # "undecided" /\ ~ expired[c] =>
    LiveVerdict(c, calls, DOMAIN calls) = latched[c]

\* A fail-stop that counts no timeout as failed is final: whatever the agent
\* still does before it is cut, the gate of the stopped run is lost ("the
\* gate is mathematically guaranteed to fail", _ceiling).
NativeFailStopFinal ==
  info.reason \in {"criterion_failed", "decision_budget_exceeded"} /\ info.timed = {}
    => ~ ArmedGate(calls)

\* A timeout that is latched while no other call is in flight is a true one:
\* counting the orphans of crashed attempts, the calls do not meet the
\* criterion (on_event: "the watcher would reduce a strictly smaller command
\* set than the authoritative check").
TimeoutsTrue ==
  [][\A c \in Armed : expired'[c] /\ ~ expired[c] /\ OpenCalls(calls') = {}
       => ~ Met(c, calls')]_vars

\* Under the default threshold a pass-stop with no other call in flight
\* ends a run the gate passes: no sibling's signal is cut off, no failure overlooked
\* (the floor rule and its deferral).  A criterion that can only fail but
\* needs calls to pass is the documented exception.
PassStopHolds ==
  [][info = NoStop /\ info'.reason = "criterion_passed" /\ gate = 100
       /\ (OpenCalls(calls) = {} \/ OpenCalls(calls') = {})
       /\ (\A c \in Armed : CanFail(c) => MinCount[c] = 0)
       => ArmedGate(calls')]_vars

\* "the gate is mathematically guaranteed to fail regardless of how the
\* trajectory continues", for a fail-stop of any reason.
\* No run: the code does not keep it (README).
FailStopFinal ==
  over /\ info.reason \in {"criterion_failed", "decision_budget_exceeded"}
    => ~ ArmedGate(calls)

\* A stop agrees with the gate that judges the stopped run: a fail-stop without
\* timeouts at every later moment, a pass-stop when it is made.
StopsAgreeWithGate == []NativeFailStopFinal /\ PassStopHolds
=============================================================================
