------------------------------ MODULE Rules_proofs ------------------------------
(***************************************************************************)
(* What the rules promise that decide on one thing at a time, for every    *)
(* case: the watcher of the criteria, for every configuration of criteria, *)
(* every number of calls and of retried attempts; the retries, for every   *)
(* mix of failures; the directory of a task and its configuration, for     *)
(* every list of sources and of layers; and what a turn's time is booked   *)
(* to, what a run has cost, what a criterion gives full marks for and what *)
(* a batch publishes, for turns, runs and batches of any size.             *)
(***************************************************************************)
EXTENDS Functions, EarlyStop, Rules, FiniteSetTheorems, WellFoundedInduction, TLAPS

-----------------------------------------------------------------------------
(* The watcher (EarlyStop).                                                *)

\* The call at position i counts for the criterion.
Counted(c, cs, i) ==
  /\ cs[i].kind \in Matching[c]
  /\ c \in NeedsSuccess => cs[i].status = "success"

\* later continues earlier: calls are only added and open ones only closed.
Continues(earlier, later) ==
  /\ DOMAIN earlier \subseteq DOMAIN later
  /\ \A i \in DOMAIN earlier :
       /\ later[i].kind = earlier[i].kind
       /\ earlier[i].status # "open" => later[i].status = earlier[i].status

\* The type of the watcher's state the two theorems rest on.
WatchTyped ==
  /\ calls \in Seq(Call)
  /\ seen \subseteq DOMAIN calls
  /\ latched \in [Armed -> Verdicts]
  /\ expired \in [Armed -> BOOLEAN]
  /\ count \in Nat

\* Until it fires or is disarmed, the collector holds what has ended.
SeenAllEnded == Watching => seen = DOMAIN calls \ OpenCalls(calls)

-----------------------------------------------------------------------------
\* A call that counts goes on counting: _live_verdict reads a trajectory that
\* only grows.
LEMMA CountGrows ==
  ASSUME NEW c \in Armed, NEW cs, NEW later \in Seq(Call),
         NEW S \in SUBSET DOMAIN cs, NEW T \in SUBSET DOMAIN later,
         Continues(cs, later), S \subseteq T
  PROVE  /\ MatchCount(c, cs, S) \in Nat
         /\ MatchCount(c, later, T) \in Nat
         /\ MatchCount(c, cs, S) <= MatchCount(c, later, T)
<1> DEFINE A == {i \in S : Counted(c, cs, i)}
           B == {i \in T : Counted(c, later, i)}
<1>1. IsFiniteSet(B)
  <2>1. PICK n \in Nat : DOMAIN later = 1..n
    OBVIOUS
  <2>2. IsFiniteSet(1..n)
    BY FS_Interval
  <2>3. B \subseteq 1..n
    BY <2>1
  <2> QED BY <2>2, <2>3, FS_Subset
<1>2. A \subseteq B
  BY DEF Continues, Counted
<1>3. IsFiniteSet(A) /\ Cardinality(A) <= Cardinality(B)
  BY <1>1, <1>2, FS_Subset
<1>4. Cardinality(A) \in Nat /\ Cardinality(B) \in Nat
  BY <1>1, <1>3, FS_CardinalityType
<1>5. MatchCount(c, cs, S) = Cardinality(A) /\ MatchCount(c, later, T) = Cardinality(B)
  BY DEF MatchCount, Counted
<1> QED BY <1>3, <1>4, <1>5

\* A decided verdict stays decided the same way: the argument for latching.
LEMMA VerdictStable ==
  ASSUME NEW c \in Armed, NEW cs, NEW later \in Seq(Call),
         NEW S \in SUBSET DOMAIN cs, NEW T \in SUBSET DOMAIN later,
         Continues(cs, later), S \subseteq T,
         LiveVerdict(c, cs, S) # "undecided"
  PROVE  LiveVerdict(c, later, T) = LiveVerdict(c, cs, S)
<1> DEFINE m == MatchCount(c, cs, S)
           n == MatchCount(c, later, T)
<1>1. m \in Nat /\ n \in Nat /\ m <= n
  BY CountGrows
<1>2. MinCount[c] \in Nat /\ (MaxCount[c] # NoLimit => MaxCount[c] \in Nat)
  BY ConfigAssumption
<1> HIDE DEF m, n
<1>3. LiveVerdict(c, cs, S) =
        IF CanFail(c) /\ m > MaxCount[c] THEN "fail"
        ELSE IF CanPass(c) /\ m >= MinCount[c] THEN "pass" ELSE "undecided"
  BY DEF LiveVerdict, m
<1>4. LiveVerdict(c, later, T) =
        IF CanFail(c) /\ n > MaxCount[c] THEN "fail"
        ELSE IF CanPass(c) /\ n >= MinCount[c] THEN "pass" ELSE "undecided"
  BY DEF LiveVerdict, n
<1>5. CASE CanFail(c) /\ m > MaxCount[c]
  BY <1>1, <1>2, <1>3, <1>4, <1>5 DEF CanFail
<1>6. CASE ~ (CanFail(c) /\ m > MaxCount[c])
  <2>1. CanPass(c) /\ m >= MinCount[c] /\ ~ CanFail(c)
    BY <1>3, <1>6 DEF CanPass, CanFail
  <2> QED BY <2>1, <1>1, <1>2, <1>3, <1>4
<1> QED BY <1>5, <1>6

-----------------------------------------------------------------------------
\* What an agent's events do to the calls.
LEMMA CallsContinue ==
  ASSUME WatchTyped, [Next]_vars
  PROVE  calls' \in Seq(Call) /\ Continues(calls, calls')
<1> USE DEF WatchTyped
<1>1. ASSUME NEW k \in Kinds, calls' = Append(calls, [kind |-> k, status |-> "open"])
      PROVE  calls' \in Seq(Call) /\ Continues(calls, calls')
  <2>1. [kind |-> k, status |-> "open"] \in Call
    BY DEF Call
  <2> QED BY <1>1, <2>1 DEF Continues
<1>2. ASSUME NEW i \in DOMAIN calls, NEW s \in {"success", "error"},
             calls[i].status = "open", calls' = [calls EXCEPT ![i].status = s]
      PROVE  calls' \in Seq(Call) /\ Continues(calls, calls')
  <2>1. calls[i] \in Call
    OBVIOUS
  <2>2. [calls[i] EXCEPT !.status = s] \in Call
    BY <2>1 DEF Call
  <2>3. calls' \in Seq(Call)
    BY <1>2, <2>2
  <2>4. DOMAIN calls' = DOMAIN calls /\ calls'[i] = [calls[i] EXCEPT !.status = s]
    BY <1>2
  <2>5. calls'[i].kind = calls[i].kind
    BY <2>1, <2>4 DEF Call
  <2> QED BY <1>2, <2>3, <2>4, <2>5 DEF Continues
<1>3. ASSUME CloseOrphans
      PROVE  calls' \in Seq(Call) /\ Continues(calls, calls')
  <2>1. calls' = [i \in DOMAIN calls |->
                    IF i \in OpenCalls(calls) THEN [calls[i] EXCEPT !.status = "unresolved"]
                                              ELSE calls[i]]
    BY <1>3 DEF CloseOrphans
  <2>2. ASSUME NEW i \in DOMAIN calls
        PROVE  /\ calls'[i] \in Call /\ calls'[i].kind = calls[i].kind
               /\ calls[i].status # "open" => calls'[i].status = calls[i].status
    <3>1. calls[i] \in Call
      OBVIOUS
    <3> QED BY <2>1, <3>1 DEF Call, OpenCalls
  <2>3. PICK n \in Nat : DOMAIN calls = 1..n
    OBVIOUS
  <2>4. calls' \in [1..n -> Call]
    BY <2>1, <2>2, <2>3
  <2>5. calls' \in Seq(Call)
    BY <2>4
  <2>6. DOMAIN calls' = DOMAIN calls
    BY <2>1
  <2> QED BY <2>2, <2>5, <2>6 DEF Continues
<1>4. ASSUME UNCHANGED calls
      PROVE  calls' \in Seq(Call) /\ Continues(calls, calls')
  BY <1>4 DEF Continues
<1>5. ASSUME NEW k \in Kinds, Dispatch(k)
      PROVE  calls' = Append(calls, [kind |-> k, status |-> "open"])
  BY <1>5 DEF Dispatch
<1>6. CASE CheckerRaises
  BY <1>1, <1>2, <1>6 DEF CheckerRaises
<1>7. CASE \E i \in DOMAIN calls, s \in {"success", "error"} : Resolve(i, s)
  BY <1>2, <1>7 DEF Resolve
<1>8. CASE AttemptCrashes \/ TurnEnds
  BY <1>3, <1>8 DEF AttemptCrashes, TurnEnds
<1>9. CASE Done \/ UNCHANGED vars
  BY <1>4, <1>9 DEF Done, vars
<1> QED BY <1>1, <1>5, <1>6, <1>7, <1>8, <1>9 DEF Next

\* The only step that latches anything is a resolved round of a watcher that
\* watches (_evaluate with latch).
LEMMA LatchedByResolve ==
  ASSUME WatchTyped, [Next]_vars
  PROVE  \/ UNCHANGED <<latched, expired>>
         \/ \E i \in DOMAIN calls :
              /\ Watching /\ EvaluateResolved(calls', i)
              /\ calls[i].status = "open" /\ calls'[i].status # "open"
              /\ DOMAIN calls' = DOMAIN calls
              /\ \A j \in DOMAIN calls \ {i} : calls'[j] = calls[j]
<1>1. CASE \E k \in Kinds : Dispatch(k)
  BY <1>1 DEF Dispatch, EvaluateInFlight, watcher
<1>2. CASE \E i \in DOMAIN calls, s \in {"success", "error"} : Resolve(i, s)
  <2>1. PICK i \in DOMAIN calls, s \in {"success", "error"} : Resolve(i, s)
    BY <1>2
  <2>2. calls[i].status = "open" /\ calls' = [calls EXCEPT ![i].status = s]
    BY <2>1 DEF Resolve
  <2>3. DOMAIN calls' = DOMAIN calls /\ \A j \in DOMAIN calls \ {i} : calls'[j] = calls[j]
    BY <2>2 DEF WatchTyped
  <2>4. calls'[i].status # "open"
    <3>1. calls[i] \in Call
      BY DEF WatchTyped
    <3> QED BY <2>2, <3>1 DEF Call, WatchTyped
  <2>5. CASE Watching
    BY <2>1, <2>2, <2>3, <2>4, <2>5 DEF Resolve
  <2>6. CASE ~ Watching
    BY <2>1, <2>6 DEF Resolve, watcher
  <2> QED BY <2>5, <2>6
<1>3. CASE CheckerRaises
  BY <1>3 DEF CheckerRaises
<1>4. CASE AttemptCrashes \/ TurnEnds
  BY <1>4 DEF AttemptCrashes, TurnEnds, CloseOrphans, RecordOrphans
<1>5. CASE Done \/ UNCHANGED vars
  BY <1>5 DEF Done, vars, watcher
<1> QED BY <1>1, <1>2, <1>3, <1>4, <1>5 DEF Next

\* A round that is resolved latches what it finds, and only where nothing is
\* latched yet.
LEMMA Rounds ==
  ASSUME WatchTyped, NEW c \in Armed, NEW i \in DOMAIN calls, EvaluateResolved(calls', i)
  PROVE  /\ seen' = seen \cup {i} /\ count' = count + 1
         /\ ~ Fresh(c) => latched'[c] = latched[c] /\ expired'[c] = expired[c]
         /\ Fresh(c) /\ ~ expired'[c] =>
              latched'[c] = LiveVerdict(c, calls', seen \cup {i})
         /\ expired'[c] /\ ~ expired[c] =>
              /\ LiveVerdict(c, calls', seen \cup {i}) = "undecided"
              /\ Budget(c) # NoLimit
<1>1. latched' = CollectVerdicts(calls', seen \cup {i}, count + 1)
  BY DEF EvaluateResolved
<1>2. expired' = LatchedTimeouts(calls', seen \cup {i}, count + 1)
  BY DEF EvaluateResolved
<1>3. latched'[c] = IF ~ Fresh(c) THEN latched[c]
                    ELSE IF RunsOut(c, calls', seen \cup {i}, count + 1) THEN "fail"
                    ELSE LiveVerdict(c, calls', seen \cup {i})
  BY <1>1 DEF CollectVerdicts
<1>4. expired'[c] = (expired[c] \/ RunsOut(c, calls', seen \cup {i}, count + 1))
  BY <1>2 DEF LatchedTimeouts
<1>5. seen' = seen \cup {i} /\ count' = count + 1
  BY DEF EvaluateResolved
<1>6. expired[c] \in BOOLEAN
  BY DEF WatchTyped
<1> QED BY <1>3, <1>4, <1>5, <1>6 DEF RunsOut, WatchTyped

LEMMA WatchTypedInit == Init => WatchTyped
BY DEF Init, WatchTyped, Verdicts, Call

LEMMA WatchTypedStep ==
  ASSUME WatchTyped, [Next]_vars
  PROVE  WatchTyped'
<1>1. calls' \in Seq(Call) /\ Continues(calls, calls')
  BY CallsContinue
<1>2. latched' \in [Armed -> Verdicts] /\ expired' \in [Armed -> BOOLEAN]
  <2>1. CASE UNCHANGED <<latched, expired>>
    BY <2>1 DEF WatchTyped
  <2>2. ASSUME NEW i \in DOMAIN calls, EvaluateResolved(calls', i)
        PROVE  latched' \in [Armed -> Verdicts] /\ expired' \in [Armed -> BOOLEAN]
    <3>1. latched' = CollectVerdicts(calls', seen \cup {i}, count + 1)
      BY <2>2 DEF EvaluateResolved
    <3>2. expired' = LatchedTimeouts(calls', seen \cup {i}, count + 1)
      BY <2>2 DEF EvaluateResolved
    <3>3. \A c \in Armed : LiveVerdict(c, calls', seen \cup {i}) \in Verdicts
      BY DEF LiveVerdict, Verdicts
    <3>4. latched' \in [Armed -> Verdicts]
      BY <3>1, <3>3 DEF CollectVerdicts, WatchTyped, Verdicts
    <3>5. expired' \in [Armed -> BOOLEAN]
      BY <3>2 DEF LatchedTimeouts, WatchTyped, RunsOut
    <3> QED BY <3>4, <3>5
  <2> QED BY <2>1, <2>2, LatchedByResolve
<1>3. seen' \subseteq DOMAIN calls' /\ count' \in Nat
  <2>1. seen \subseteq DOMAIN calls /\ DOMAIN calls \subseteq DOMAIN calls' /\ count \in Nat
    BY <1>1 DEF WatchTyped, Continues
  <2>2. CASE \E k \in Kinds : Dispatch(k)
    BY <2>1, <2>2 DEF Dispatch, EvaluateInFlight, watcher
  <2>3. CASE \E i \in DOMAIN calls, s \in {"success", "error"} : Resolve(i, s)
    BY <2>1, <2>3 DEF Resolve, EvaluateResolved, watcher
  <2>4. CASE CheckerRaises
    BY <2>1, <2>4 DEF CheckerRaises
  <2>5. CASE AttemptCrashes \/ TurnEnds
    BY <2>1, <2>5 DEF AttemptCrashes, TurnEnds, CloseOrphans, RecordOrphans, OpenCalls
  <2>6. CASE Done \/ UNCHANGED vars
    BY <2>1, <2>6 DEF Done, vars, watcher
  <2> QED BY <2>2, <2>3, <2>4, <2>5, <2>6 DEF Next
<1> QED BY <1>1, <1>2, <1>3 DEF WatchTyped

\* A latched verdict stays what the checker says of all calls so far, by
\* VerdictStable whether it was latched before or in this step.
LEMMA LatchStep ==
  ASSUME WatchTyped, LatchFaithful, [Next]_vars
  PROVE  LatchFaithful'
<1> SUFFICES ASSUME NEW c \in Armed, latched'[c] # "undecided", ~ expired'[c]
             PROVE  LiveVerdict(c, calls', DOMAIN calls') = latched'[c]
  BY DEF LatchFaithful
<1>1. calls' \in Seq(Call) /\ Continues(calls, calls') /\ DOMAIN calls \subseteq DOMAIN calls'
  BY CallsContinue DEF Continues
<1>2. CASE latched'[c] = latched[c] /\ expired'[c] = expired[c]
  <2>1. LiveVerdict(c, calls, DOMAIN calls) = latched[c]
    BY <1>2 DEF LatchFaithful
  <2> QED BY <2>1, <1>1, <1>2, VerdictStable
<1>3. ASSUME NEW i \in DOMAIN calls, EvaluateResolved(calls', i), Fresh(c)
      PROVE  LiveVerdict(c, calls', DOMAIN calls') = latched'[c]
  <2> DEFINE S == seen \cup {i}
  <2>1. latched'[c] = LiveVerdict(c, calls', S)
    BY <1>3, Rounds
  <2>2. S \subseteq DOMAIN calls'
    BY <1>1 DEF WatchTyped
  <2>3. Continues(calls', calls')
    BY DEF Continues
  <2> QED BY <2>1, <2>2, <2>3, <1>1, VerdictStable
<1>4. ASSUME NEW i \in DOMAIN calls, EvaluateResolved(calls', i), ~ Fresh(c)
      PROVE  latched'[c] = latched[c] /\ expired'[c] = expired[c]
  BY <1>4, Rounds
<1> QED BY <1>2, <1>3, <1>4, LatchedByResolve

\* What the watcher latches never goes stale ("Verdict latching"), over
\* parallel calls, calls without a result and retried attempts.
THEOREM LatchHolds == Spec => []LatchFaithful
<1>1. Init => WatchTyped /\ LatchFaithful
  BY WatchTypedInit DEF Init, LatchFaithful
<1>2. WatchTyped /\ LatchFaithful /\ [Next]_vars => (WatchTyped /\ LatchFaithful)'
  BY WatchTypedStep, LatchStep
<1> QED BY <1>1, <1>2, PTL DEF Spec

-----------------------------------------------------------------------------
\* on_event: the calls in the collector are those that ended, the orphans of
\* crashed attempts included.
LEMMA SeenAllEndedStep ==
  ASSUME WatchTyped, SeenAllEnded, [Next]_vars
  PROVE  SeenAllEnded'
<1>1. CASE \E k \in Kinds : Dispatch(k)
  <2>1. PICK k \in Kinds : Dispatch(k)
    BY <1>1
  <2>2. calls' = Append(calls, [kind |-> k, status |-> "open"])
    BY <2>1 DEF Dispatch
  <2>3. DOMAIN calls' \ OpenCalls(calls') = DOMAIN calls \ OpenCalls(calls)
    BY <2>2 DEF WatchTyped, OpenCalls
  <2>4. seen' = seen /\ (Watching' => Watching)
    BY <2>1 DEF Dispatch, EvaluateInFlight, watcher, Watching
  <2> QED BY <2>3, <2>4 DEF SeenAllEnded
<1>2. CASE \E i \in DOMAIN calls, s \in {"success", "error"} : Resolve(i, s)
  <2>1. PICK i \in DOMAIN calls, s \in {"success", "error"} : Resolve(i, s)
    BY <1>2
  <2>2. CASE ~ Watching
    BY <2>1, <2>2 DEF Resolve, watcher, Watching, SeenAllEnded
  <2>3. CASE Watching
    <3>1. calls[i].status = "open" /\ calls' = [calls EXCEPT ![i].status = s]
      BY <2>1 DEF Resolve
    <3>2. seen' = seen \cup {i}
      BY <2>1, <2>3 DEF Resolve, EvaluateResolved
    <3>3. calls[i] \in Call
      BY DEF WatchTyped
    <3>4. calls'[i].status # "open"
      BY <3>1, <3>3 DEF Call, WatchTyped
    <3>5. DOMAIN calls' = DOMAIN calls /\ \A j \in DOMAIN calls \ {i} : calls'[j] = calls[j]
      BY <3>1 DEF WatchTyped
    <3>6. OpenCalls(calls') = OpenCalls(calls) \ {i} /\ i \in OpenCalls(calls)
      BY <3>1, <3>4, <3>5 DEF OpenCalls
    <3> QED BY <2>3, <3>2, <3>5, <3>6 DEF SeenAllEnded, OpenCalls
  <2> QED BY <2>2, <2>3
<1>3. CASE CheckerRaises
  BY <1>3 DEF CheckerRaises, SeenAllEnded, Watching
<1>4. CASE AttemptCrashes \/ TurnEnds
  <2>1. CloseOrphans
    BY <1>4 DEF AttemptCrashes, TurnEnds
  <2>2. CASE ~ Watching
    BY <2>1, <2>2 DEF CloseOrphans, RecordOrphans, Watching, SeenAllEnded
  <2>3. CASE Watching
    <3>1. DOMAIN calls' = DOMAIN calls /\ OpenCalls(calls') = {}
      <4>1. calls' = [i \in DOMAIN calls |->
                        IF i \in OpenCalls(calls) THEN [calls[i] EXCEPT !.status = "unresolved"]
                                                  ELSE calls[i]]
        BY <2>1 DEF CloseOrphans
      <4>2. ASSUME NEW i \in DOMAIN calls
            PROVE  calls'[i].status # "open"
        <5>1. calls[i] \in Call
          BY DEF WatchTyped
        <5> QED BY <4>1, <5>1 DEF Call, OpenCalls
      <4>3. DOMAIN calls' = DOMAIN calls
        BY <4>1
      <4> QED BY <4>2, <4>3 DEF OpenCalls
    <3>2. seen' = seen \cup OpenCalls(calls)
      BY <2>1, <2>3 DEF CloseOrphans, RecordOrphans
    <3> QED BY <2>3, <3>1, <3>2 DEF SeenAllEnded, OpenCalls
  <2> QED BY <2>2, <2>3
<1>5. CASE Done \/ UNCHANGED vars
  BY <1>5 DEF Done, vars, watcher, SeenAllEnded, Watching
<1> QED BY <1>1, <1>2, <1>3, <1>4, <1>5 DEF Next

\* A timeout is latched over every call that has ended.
LEMMA TimeoutStep ==
  ASSUME WatchTyped, SeenAllEnded, [Next]_vars,
         NEW c \in Armed, expired'[c], ~ expired[c], OpenCalls(calls') = {}
  PROVE  ~ Met(c, calls')
<1>1. PICK i \in DOMAIN calls :
        /\ Watching /\ EvaluateResolved(calls', i)
        /\ calls[i].status = "open" /\ calls'[i].status # "open"
        /\ DOMAIN calls' = DOMAIN calls
        /\ \A j \in DOMAIN calls \ {i} : calls'[j] = calls[j]
  BY LatchedByResolve
<1>2. seen \cup {i} = DOMAIN calls'
  BY <1>1 DEF SeenAllEnded, OpenCalls
<1>3. LiveVerdict(c, calls', DOMAIN calls') = "undecided" /\ Budget(c) # NoLimit
  BY <1>1, <1>2, Rounds
<1>4. CanPass(c)
  BY <1>3 DEF Budget
<1> QED BY <1>3, <1>4 DEF LiveVerdict, CanPass, CanFail, Met

\* A timeout latched with no other call in flight is a true one, whatever
\* the criteria, however many attempts crashed before.
THEOREM TimeoutsHold == Spec => TimeoutsTrue
<1> DEFINE Truthful == \A c \in Armed : expired'[c] /\ ~ expired[c] /\ OpenCalls(calls') = {}
                                          => ~ Met(c, calls')
<1>1. Init => WatchTyped /\ SeenAllEnded
  BY WatchTypedInit DEF Init, SeenAllEnded, OpenCalls
<1>2. WatchTyped /\ SeenAllEnded /\ [Next]_vars => (WatchTyped /\ SeenAllEnded)'
  BY WatchTypedStep, SeenAllEndedStep
<1>3. WatchTyped /\ SeenAllEnded /\ [Next]_vars => [Truthful]_vars
  BY TimeoutStep
<1> HIDE DEF Truthful
<1>4. Spec => [][Truthful]_vars
  BY <1>1, <1>2, <1>3, PTL DEF Spec
<1> QED BY <1>4 DEF Truthful, TimeoutsTrue

-----------------------------------------------------------------------------
(* Retries (RetryPlan).                                                    *)

\* The first of a list of rules (_categorize_by_message: "order matters").
LEMMA FirstOfRules ==
  ASSUME NEW I \in SUBSET (1 .. 8), I # {}
  PROVE  \E x \in I : \A y \in I : x <= y
<1>1. CASE 1 \in I
  BY <1>1
<1>2. CASE 1 \notin I /\ 2 \in I
  BY <1>2
<1>3. CASE 1 \notin I /\ 2 \notin I /\ 3 \in I
  BY <1>3
<1>4. CASE 1 \notin I /\ 2 \notin I /\ 3 \notin I /\ 4 \in I
  BY <1>4
<1>5. CASE 1 \notin I /\ 2 \notin I /\ 3 \notin I /\ 4 \notin I /\ 5 \in I
  BY <1>5
<1>6. CASE 1 \notin I /\ 2 \notin I /\ 3 \notin I /\ 4 \notin I /\ 5 \notin I /\ 6 \in I
  BY <1>6
<1>7. CASE 1 \notin I /\ 2 \notin I /\ 3 \notin I /\ 4 \notin I /\ 5 \notin I /\ 6 \notin I /\ 7 \in I
  BY <1>7
<1>8. CASE 1 \notin I /\ 2 \notin I /\ 3 \notin I /\ 4 \notin I /\ 5 \notin I /\ 6 \notin I /\ 7 \notin I /\ 8 \in I
  BY <1>8
<1>9. PICK x \in I : x \in 1 .. 8
  OBVIOUS
<1>10. x = 1 \/ x = 2 \/ x = 3 \/ x = 4 \/ x = 5 \/ x = 6 \/ x = 7 \/ x = 8
  BY <1>9
<1> QED
  BY <1>1, <1>2, <1>3, <1>4, <1>5, <1>6, <1>7, <1>8, <1>9, <1>10

\* The first telling word of a message decides (_categorize_by_message).
LEMMA SaidByFirstRule ==
  ASSUME NEW e, NEW comp
  PROVE  \/ Retry!SaidAs(e, comp) = "none" /\ \A i \in 1 .. 8 : Retry!MessageRules[i].word \notin e.words
         \/ \E i \in 1 .. 8 :
              /\ Retry!MessageRules[i].word \in e.words
              /\ \A j \in 1 .. 8 : j < i => Retry!MessageRules[j].word \notin e.words
              /\ Retry!SaidAs(e, comp) = IF Retry!MessageRules[i].agentOnly /\ comp # "agent" THEN "none"
                                         ELSE Retry!MessageRules[i].gives
<1> DEFINE I == {i \in 1 .. 8 : Retry!MessageRules[i].word \in e.words}
           hit == Retry!SelectInSeq(Retry!MessageRules, LAMBDA r : r.word \in e.words)
<1>1. Len(Retry!MessageRules) = 8
  BY DEF Retry!MessageRules
<1>2. hit = IF I # {} THEN CHOOSE x \in I : \A y \in I : x <= y ELSE 0
  BY <1>1 DEF Retry!SelectInSeq, Retry!Min
<1>3. I # {} => \E x \in I : \A y \in I : x <= y
  BY FirstOfRules
<1>4. \/ hit = 0 /\ I = {}
      \/ hit \in I /\ \A y \in I : hit <= y
  BY <1>2, <1>3
<1>5. Retry!SaidAs(e, comp) =
        IF hit = 0 \/ (Retry!MessageRules[hit].agentOnly /\ comp # "agent") THEN "none"
        ELSE Retry!MessageRules[hit].gives
  BY DEF Retry!SaidAs, Retry!Nothing
<1> HIDE DEF hit
<1>6. CASE hit = 0 /\ I = {}
  BY <1>5, <1>6
<1>7. CASE hit \in I /\ \A y \in I : hit <= y
  BY <1>5, <1>7
<1> QED
  BY <1>4, <1>6, <1>7

\* What the rules say, and of whom.
LEMMA RulesAre ==
  /\ Retry!MessageRules[1] = [word |-> "auth",    gives |-> "AUTH",    agentOnly |-> FALSE]
  /\ Retry!MessageRules[2] = [word |-> "billing", gives |-> "BILLING", agentOnly |-> FALSE]
  /\ Retry!MessageRules[3] = [word |-> "rate",    gives |-> "RATE",    agentOnly |-> FALSE]
  /\ Retry!MessageRules[4] = [word |-> "timeout", gives |-> "TIMEOUT", agentOnly |-> TRUE]
  /\ Retry!MessageRules[5] = [word |-> "filter",  gives |-> "INVALID", agentOnly |-> FALSE]
  /\ Retry!MessageRules[6] = [word |-> "network", gives |-> "API",     agentOnly |-> TRUE]
  /\ Retry!MessageRules[7] = [word |-> "disk",    gives |-> "DISK",    agentOnly |-> FALSE]
  /\ Retry!MessageRules[8] = [word |-> "memory",  gives |-> "MEMORY",  agentOnly |-> FALSE]
BY DEF Retry!MessageRules

\* A message with a word of the account never gets past it.
LEMMA AccountFirst ==
  ASSUME NEW e, NEW comp, e.words \cap {"auth", "billing"} # {}
  PROVE  Retry!SaidAs(e, comp) \in {"AUTH", "BILLING"}
<1>1. PICK i \in 1 .. 8 :
              /\ Retry!MessageRules[i].word \in e.words
              /\ \A j \in 1 .. 8 : j < i => Retry!MessageRules[j].word \notin e.words
              /\ Retry!SaidAs(e, comp) = IF Retry!MessageRules[i].agentOnly /\ comp # "agent" THEN "none"
                                         ELSE Retry!MessageRules[i].gives
  BY SaidByFirstRule, RulesAre
<1>2. i \in {1, 2}
  BY <1>1, RulesAre
<1> QED
  BY <1>1, <1>2, RulesAre

\* Retries of a category (RETRY_CONFIG).
Retried == {"API", "RATE", "CRASH", "PACKAGE", "VENV", "SANDBOX", "TEMPLATE", "GIT"}
LEMMA PolicyIs ==
  ASSUME NEW c
  PROVE  /\ Retry!PolicyOf(c).retries \in 0 .. 5
         /\ c \notin Retried <=> Retry!PolicyOf(c).retries = 0
BY DEF Retry!PolicyOf, Retry!Policy, Retried

\* What another attempt cannot mend has no retries (categorize_error).
LEMMA PermanentIsFinal ==
  ASSUME NEW e \in Retry!Errors, NEW comp, Retry!Permanent(e)
  PROVE  Retry!Category(e, comp) \notin Retried
<1>1. CASE Retry!TypedAs(e, comp) # "none"
  <2>1. e.type # "rateLimit" /\ Retry!Category(e, comp) = Retry!TypedAs(e, comp)
    BY <1>1 DEF Retry!Permanent, Retry!Category, Retry!Nothing
  <2> QED
    BY <1>1, <2>1 DEF Retry!TypedAs, Retry!Nothing, Retried
<1>2. CASE Retry!TypedAs(e, comp) = "none"
  <2>1. e.words \cap {"auth", "billing"} # {}
    BY <1>2 DEF Retry!Permanent, Retry!TypedAs, Retry!Nothing
  <2>2. Retry!SaidAs(e, comp) \in {"AUTH", "BILLING"}
    BY <2>1, AccountFirst
  <2>3. Retry!Category(e, comp) = Retry!SaidAs(e, comp)
    BY <1>2, <2>2 DEF Retry!Category, Retry!Nothing
  <2> QED
    BY <2>2, <2>3 DEF Retried
<1> QED
  BY <1>1, <1>2

\* What a failure of a sandbox falls back to (_categorize_by_component).
LEMMA SandboxDefault ==
  ASSUME NEW e
  PROVE  Retry!OfComponent(e, "sandbox") \in {"VENV", "PACKAGE", "GIT", "TEMPLATE", "SANDBOX"}
<1> DEFINE rules == Retry!ComponentRules["sandbox"]
           I == {i \in 1 .. 4 : rules[i][1] \in e.words}
           hit == Retry!SelectInSeq(rules, LAMBDA r : r[1] \in e.words)
<1>1. /\ rules = << <<"venv", "VENV">>, <<"install", "PACKAGE">>, <<"git", "GIT">>, <<"template", "TEMPLATE">> >>
      /\ "sandbox" \in DOMAIN Retry!ComponentRules
  BY DEF Retry!ComponentRules
<1>2. /\ Len(rules) = 4
      /\ \A i \in 1 .. 4 : rules[i][2] \in {"VENV", "PACKAGE", "GIT", "TEMPLATE"}
  BY <1>1
<1> HIDE DEF rules
<1>3. hit = IF I # {} THEN CHOOSE x \in I : \A y \in I : x <= y ELSE 0
  BY <1>2 DEF Retry!SelectInSeq, Retry!Min
<1>4. I # {} => \E x \in I : \A y \in I : x <= y
  <2>1. I \in SUBSET (1 .. 8)
    OBVIOUS
  <2> QED
    BY <2>1, FirstOfRules
<1>5. hit \in 0 .. 4
  BY <1>3, <1>4
<1>6. Retry!OfComponent(e, "sandbox") = IF hit = 0 THEN Retry!Default(e, "sandbox") ELSE rules[hit][2]
  BY <1>1 DEF Retry!OfComponent, rules
<1> HIDE DEF hit
<1> QED
  BY <1>2, <1>5, <1>6 DEF Retry!Default

\* A failure of a sandbox with no more than a timeout or the network to its
\* name has retries (categorize_error).
LEMMA SandboxHitchRetried ==
  ASSUME NEW e \in Retry!Errors, ~ Retry!Permanent(e), e.words \cap Retry!Telling = {},
         ~ (e.type = "notFound" /\ "task" \in e.words)
  PROVE  Retry!Category(e, "sandbox") \in Retried
<1>1. Retry!TypedAs(e, "sandbox") \in {"none", "RATE"}
  BY DEF Retry!TypedAs, Retry!Permanent, Retry!Nothing, Retry!Errors, Retry!Types
<1>2. Retry!SaidAs(e, "sandbox") \in {"none", "RATE"}
  BY SaidByFirstRule, RulesAre DEF Retry!Telling
<1>3. Retry!OfComponent(e, "sandbox") \in {"VENV", "PACKAGE", "GIT", "TEMPLATE", "SANDBOX"}
  BY SandboxDefault
<1> QED
  BY <1>1, <1>2, <1>3 DEF Retry!Category, Retry!Nothing, Retried

\* The delays of the attempts that are tried again (compute_backoff).
LEMMA Powers ==
  /\ 2^0 = 1 /\ 2^1 = 2 /\ 2^2 = 4 /\ 2^3 = 8 /\ 2^4 = 16
  /\ 3^0 = 1 /\ 3^1 = 3
  /\ 4^0 = 1 /\ 4^1 = 4 /\ 4^2 = 16
  /\ 6^0 = 1 /\ 6^1 = 6 /\ 6^2 = 36 /\ 6^3 = 216 /\ 6^4 = 1296
OBVIOUS

\* In quarters of a second: from five seconds to the longest delay of a rate limit.
DelayFits(d) == d \in 20 .. 19440
LEMMA DelayBounded ==
  ASSUME NEW c, NEW k \in 0 .. 5, Retry!ShouldRetry(c, k)
  PROVE  DelayFits(Retry!Backoff(c, k))
<1>1. PICK p : p = Retry!PolicyOf(c)
  OBVIOUS
<1>2. Retry!Backoff(c, k) = (4 * p.delay * p.halves ^ k) \div 2 ^ k /\ k < p.retries
  BY <1>1 DEF Retry!Backoff, Retry!ShouldRetry
<1>3. \/ p.retries = 5 /\ p.delay = 60 /\ p.halves = 6
      \/ p.retries \in {2, 3} /\ p.delay = 5 /\ p.halves = 4
      \/ p.retries \in {2, 3} /\ p.delay = 10 /\ p.halves = 4
      \/ p.retries = 2 /\ p.delay = 5 /\ p.halves = 3
      \/ p.retries = 2 /\ p.delay = 10 /\ p.halves = 3
      \/ p.retries = 0
  BY <1>1 DEF Retry!PolicyOf, Retry!Policy
<1> DEFINE Good == Retry!Backoff(c, k) \in 20 .. 19440
<1> HIDE DEF Good
<1>4. ASSUME p.retries = 5 /\ p.delay = 60 /\ p.halves = 6 PROVE Good
  <2>1. k = 0 \/ k = 1 \/ k = 2 \/ k = 3 \/ k = 4
    BY <1>2, <1>4
  <2>2. k = 0 => Retry!Backoff(c, k) = 240
    BY <1>2, <1>4, Powers
  <2>3. k = 1 => Retry!Backoff(c, k) = 720
    BY <1>2, <1>4, Powers
  <2>4. k = 2 => Retry!Backoff(c, k) = 2160
    BY <1>2, <1>4, Powers
  <2>5. k = 3 => Retry!Backoff(c, k) = 6480
    BY <1>2, <1>4, Powers
  <2>6. k = 4 => Retry!Backoff(c, k) = 19440
    BY <1>2, <1>4, Powers
  <2> QED
    BY <2>1, <2>2, <2>3, <2>4, <2>5, <2>6 DEF Good
<1>5. ASSUME p.retries \in {2, 3} /\ p.delay = 5 /\ p.halves = 4 PROVE Good
  <2>1. k = 0 \/ k = 1 \/ k = 2
    BY <1>2, <1>5
  <2>2. k = 0 => Retry!Backoff(c, k) = 20
    BY <1>2, <1>5, Powers
  <2>3. k = 1 => Retry!Backoff(c, k) = 40
    BY <1>2, <1>5, Powers
  <2>4. k = 2 => Retry!Backoff(c, k) = 80
    BY <1>2, <1>5, Powers
  <2> QED
    BY <2>1, <2>2, <2>3, <2>4 DEF Good
<1>6. ASSUME p.retries \in {2, 3} /\ p.delay = 10 /\ p.halves = 4 PROVE Good
  <2>1. k = 0 \/ k = 1 \/ k = 2
    BY <1>2, <1>6
  <2>2. k = 0 => Retry!Backoff(c, k) = 40
    BY <1>2, <1>6, Powers
  <2>3. k = 1 => Retry!Backoff(c, k) = 80
    BY <1>2, <1>6, Powers
  <2>4. k = 2 => Retry!Backoff(c, k) = 160
    BY <1>2, <1>6, Powers
  <2> QED
    BY <2>1, <2>2, <2>3, <2>4 DEF Good
<1>7. ASSUME p.retries = 2 /\ p.delay = 5 /\ p.halves = 3 PROVE Good
  <2>1. k = 0 \/ k = 1
    BY <1>2, <1>7
  <2>2. k = 0 => Retry!Backoff(c, k) = 20
    BY <1>2, <1>7, Powers
  <2>3. k = 1 => Retry!Backoff(c, k) = 30
    BY <1>2, <1>7, Powers
  <2> QED
    BY <2>1, <2>2, <2>3 DEF Good
<1>8. ASSUME p.retries = 2 /\ p.delay = 10 /\ p.halves = 3 PROVE Good
  <2>1. k = 0 \/ k = 1
    BY <1>2, <1>8
  <2>2. k = 0 => Retry!Backoff(c, k) = 40
    BY <1>2, <1>8, Powers
  <2>3. k = 1 => Retry!Backoff(c, k) = 60
    BY <1>2, <1>8, Powers
  <2> QED
    BY <2>1, <2>2, <2>3 DEF Good
<1>9. p.retries # 0
  BY <1>2
<1>10. \/ p.retries = 5 /\ p.delay = 60 /\ p.halves = 6
       \/ p.retries \in {2, 3} /\ p.delay = 5 /\ p.halves = 4
       \/ p.retries \in {2, 3} /\ p.delay = 10 /\ p.halves = 4
       \/ p.retries = 2 /\ p.delay = 5 /\ p.halves = 3
       \/ p.retries = 2 /\ p.delay = 10 /\ p.halves = 3
  BY <1>3, <1>9
<1>11. Good
  BY <1>4, <1>5, <1>6, <1>7, <1>8, <1>10
<1> QED
  BY <1>11 DEF Good, DelayFits

\* Where an operation is: its attempts are within the policy of the failure at
\* hand and the cap, every failure was told, and a delay is that of its failure.
RetryTyped ==
  /\ case.cap \in Nat \ {0}
  /\ out \in [attempt : 0 .. 5, error : Retry!Errors \cup {Retry!NoError}, told : Nat,
              delay : [base : Nat, jitter : Nat]]
RetryPlaced ==
  /\ at \in {"calling", "failed", "sleeping", "done", "raised", "cancelled"}
  /\ out.attempt < case.cap
  /\ at \in {"failed", "sleeping", "raised"} => out.told = out.attempt + 1 /\ out.error \in Retry!Errors
  /\ at \in {"calling", "done"} => out.told = out.attempt
RetryPlanned ==
  at = "sleeping" => Retry!ShouldRetry(Retry!Chosen, out.attempt) /\ out.attempt + 1 < case.cap
RetryDelayed ==
  at = "sleeping" => /\ 20 <= out.delay.base /\ out.delay.base <= 19440
                     /\ out.delay.jitter * 4 <= out.delay.base
RetryEnded ==
  at = "raised" => ~ Retry!ShouldRetry(Retry!Chosen, out.attempt) \/ out.attempt + 1 >= case.cap
RetryInv == RetryTyped /\ RetryPlaced /\ RetryPlanned /\ RetryDelayed /\ RetryEnded

\* What the retries promise follows from where they are.
LEMMA RetriesAreSound ==
  ASSUME RetryInv
  PROVE  Retry!RetriesSound
<1> DEFINE e == out.error
           c == Retry!Chosen
<1> USE DEF RetryInv
<1>1. case.cap \in Nat /\ out.attempt \in 0 .. 5 /\ out.told \in Nat
  BY DEF RetryTyped
<1>2. out.delay.base \in Nat /\ out.delay.jitter \in Nat
  BY DEF RetryTyped
<1>3. ASSUME at = "sleeping" PROVE ~ Retry!Permanent(e)
  <2>1. Retry!ShouldRetry(c, out.attempt) /\ e \in Retry!Errors
    BY <1>3 DEF RetryPlaced, RetryPlanned
  <2>2. Retry!PolicyOf(c).retries # 0
    BY <1>1, <2>1, PolicyIs DEF Retry!ShouldRetry
  <2>3. Retry!Category(e, case.component) \in Retried
    BY <2>2, PolicyIs DEF Retry!Chosen
  <2> QED
    BY <2>1, <2>3, PermanentIsFinal
<1>4. ASSUME at = "raised", case.component = "sandbox", out.attempt = 0, case.cap > 1
      PROVE  Retry!Permanent(e) \/ e.words \cap Retry!Telling # {} \/ (e.type = "notFound" /\ "task" \in e.words)
  <2>1. ~ Retry!ShouldRetry(c, 0) /\ e \in Retry!Errors
    <3>1. ~ (out.attempt + 1 >= case.cap)
      BY <1>1, <1>4
    <3> QED
      BY <1>4, <3>1 DEF RetryPlaced, RetryEnded
  <2>2. Retry!PolicyOf(c).retries = 0
    BY <2>1, PolicyIs DEF Retry!ShouldRetry
  <2>3. Retry!Category(e, "sandbox") \notin Retried
    BY <1>4, <2>2, PolicyIs DEF Retry!Chosen
  <2> QED
    BY <2>1, <2>3, SandboxHitchRetried
<1>5. 4 * 5 = 20 /\ 4 * 4860 = 19440
  OBVIOUS
<1>6. at = "sleeping" => /\ 4 * 5 <= out.delay.base /\ out.delay.base <= 4 * 4860
                         /\ out.delay.jitter * 4 <= out.delay.base
  BY <1>2, <1>5 DEF RetryDelayed
<1>7. out.attempt <= 5
  BY <1>1
<1> HIDE DEF c
<1> QED
  BY <1>3, <1>4, <1>6, <1>7 DEF RetryPlaced, Retry!RetriesSound

\* However the failures of its attempts mix, an operation is tried at most six
\* times and as often as its caller allows; a breached limit, a missing prerequisite
\* or a refused account is not tried again, and a hitch of a sandbox is
\* (execute_with_retry, categorize_error, RETRY_CONFIG, compute_backoff).
THEOREM RetriesStaySound == Retry!Spec => []RetriesSound
<1>1. Retry!Init => RetryInv
  <2> SUFFICES ASSUME Retry!Init PROVE RetryInv
    OBVIOUS
  <2>1. Retry!NoDelay \in [base : Nat, jitter : Nat]
    BY DEF Retry!NoDelay
  <2>2. case.cap \in RetryCaps
    BY DEF Retry!Init
  <2>3. case.cap \in Nat \ {0}
    BY <2>2, RulesAssumption DEF CapsPlain
  <2>4. /\ out.attempt = 0 /\ out.told = 0 /\ at = "calling"
        /\ out \in [attempt : 0 .. 5, error : Retry!Errors \cup {Retry!NoError}, told : Nat,
                    delay : [base : Nat, jitter : Nat]]
    BY <2>1 DEF Retry!Init
  <2>5. out.attempt < case.cap
    BY <2>3, <2>4
  <2> QED
    BY <2>3, <2>4, <2>5 DEF RetryInv, RetryTyped, RetryPlaced, RetryPlanned, RetryDelayed, RetryEnded
<1>2. RetryInv /\ [Retry!Next]_(Retry!vars) => RetryInv'
  <2> SUFFICES ASSUME RetryInv, [Retry!Next]_(Retry!vars) PROVE RetryInv'
    OBVIOUS
  <2> USE DEF RetryInv
  <2>1. case.cap \in Nat /\ out.attempt \in 0 .. 5 /\ out.told \in Nat
    BY DEF RetryTyped
  <2>2. CASE UNCHANGED Retry!vars
    BY <2>2 DEF RetryTyped, RetryPlaced, RetryPlanned, RetryDelayed, RetryEnded, Retry!vars, Retry!Chosen
  <2>3. CASE Retry!Succeed \/ Retry!Cancelled
    BY <2>3 DEF RetryTyped, RetryPlaced, RetryPlanned, RetryDelayed, RetryEnded, Retry!Succeed, Retry!Cancelled
  <2>4. CASE Retry!OperationFails
    <3>1. PICK f \in Retry!Errors : out' = [out EXCEPT !.error = f, !.told = @ + 1]
      BY <2>4 DEF Retry!OperationFails
    <3>2. at = "calling" /\ at' = "failed" /\ case' = case
      BY <2>4 DEF Retry!OperationFails
    <3>3. RetryTyped'
      <4>1. out.told + 1 \in Nat /\ f \in Retry!Errors \cup {Retry!NoError}
        BY <2>1
      <4> QED
        BY <3>1, <3>2, <4>1 DEF RetryTyped
    <3>4. out'.attempt = out.attempt /\ out'.told = out.told + 1 /\ out'.error = f
      BY <3>1 DEF RetryTyped
    <3> QED
      BY <3>2, <3>3, <3>4 DEF RetryPlaced, RetryPlanned, RetryDelayed, RetryEnded
  <2>5. CASE Retry!GiveUp
    <3>1. at = "failed" /\ at' = "raised" /\ case' = case /\ out' = out
      BY <2>5 DEF Retry!GiveUp
    <3> QED
      BY <2>5, <3>1 DEF RetryTyped, RetryPlaced, RetryPlanned, RetryDelayed, RetryEnded, Retry!GiveUp, Retry!Chosen
  <2>6. CASE Retry!PlanRetry
    <3> DEFINE base == Retry!Backoff(Retry!Chosen, out.attempt)
    <3>1. base \in 20 .. 19440
      <4>1. Retry!ShouldRetry(Retry!Chosen, out.attempt)
        BY <2>6 DEF Retry!PlanRetry
      <4>2. DelayFits(base)
        BY <2>1, <4>1, DelayBounded
      <4> HIDE DEF base
      <4> QED
        BY <4>2 DEF DelayFits
    <3>2. PICK j \in {0, base \div 4} : out' = [out EXCEPT !.delay = [base |-> base, jitter |-> j]]
      BY <2>6 DEF Retry!PlanRetry
    <3>3. at = "failed" /\ at' = "sleeping" /\ case' = case /\ Retry!ShouldRetry(Retry!Chosen, out.attempt)
          /\ out.attempt + 1 < case.cap
      BY <2>6 DEF Retry!PlanRetry
    <3> HIDE DEF base
    <3>4. j \in Nat /\ base \in Nat /\ j * 4 <= base
      <4>1. base \in Nat /\ base \div 4 \in Nat /\ (base \div 4) * 4 <= base
        BY <3>1
      <4>2. j = 0 \/ j = base \div 4
        BY <3>2
      <4> QED
        BY <4>1, <4>2
    <3>5. RetryTyped'
      BY <3>2, <3>3, <3>4 DEF RetryTyped
    <3>6. out'.attempt = out.attempt /\ out'.told = out.told /\ out'.error = out.error
          /\ out'.delay = [base |-> base, jitter |-> j]
      BY <3>2 DEF RetryTyped
    <3>7. Retry!Chosen' = Retry!Chosen
      BY <3>3, <3>6 DEF Retry!Chosen
    <3>8. Retry!ShouldRetry(Retry!Chosen, out.attempt)'
      BY <3>3, <3>6, <3>7 DEF Retry!ShouldRetry
    <3>9. RetryDelayed'
      <4>1. out'.delay.base = base /\ out'.delay.jitter = j
        BY <3>6
      <4>2. 20 <= base /\ base <= 19440 /\ j * 4 <= base
        BY <3>1, <3>4
      <4> QED
        BY <4>1, <4>2 DEF RetryDelayed
    <3> QED
      BY <3>3, <3>5, <3>6, <3>8, <3>9 DEF RetryPlaced, RetryPlanned, RetryEnded
  <2>7. CASE Retry!Wake
    <3>1. at = "sleeping" /\ at' = "calling" /\ case' = case
      BY <2>7 DEF Retry!Wake
    <3> DEFINE n == Retry!PolicyOf(Retry!Chosen).retries
    <3>2. out.attempt < n /\ n \in 0 .. 5 /\ out.attempt + 1 < case.cap
      BY <3>1, PolicyIs DEF RetryPlanned, Retry!ShouldRetry
    <3> HIDE DEF n
    <3>3. out.attempt + 1 \in 0 .. 5
      BY <2>1, <3>2
    <3>4. Retry!NoDelay \in [base : Nat, jitter : Nat]
      BY DEF Retry!NoDelay
    <3>5. out' = [out EXCEPT !.attempt = @ + 1, !.error = Retry!NoError, !.delay = Retry!NoDelay]
      BY <2>7 DEF Retry!Wake
    <3>6. RetryTyped'
      BY <3>1, <3>3, <3>4, <3>5 DEF RetryTyped
    <3>7. out'.attempt = out.attempt + 1 /\ out'.told = out.told
      BY <3>5 DEF RetryTyped
    <3> QED
      BY <2>1, <3>1, <3>2, <3>6, <3>7 DEF RetryPlaced, RetryPlanned, RetryDelayed, RetryEnded
  <2> QED
    BY <2>2, <2>3, <2>4, <2>5, <2>6, <2>7 DEF Retry!Next
<1>3. RetryInv => RetriesSound
  BY RetriesAreSound DEF RetriesSound
<1> QED
  BY <1>1, <1>2, <1>3, PTL DEF Retry!Spec

-----------------------------------------------------------------------------
(* The directory of a task (SandboxTree).                                  *)

\* What a file of the directory may hold.
Texts == {"absent", "stale", "agent", "shim", "seeded", "calls", "half", "whole"}
         \cup {SandboxFrom[i] : i \in DOMAIN SandboxFrom}

\* What is known of a directory and of how it came to be.
Runs == [mode : Tree!Modes, tree : [Tree!Paths -> Texts], executable : SUBSET Tree!Paths, source : Nat \ {0},
         owned : BOOLEAN, exists : BOOLEAN, published : [Tree!Paths -> Texts], again : Nat]

\* The files a directory is told apart by.
LEMMA PathsAre ==
  /\ Tree!Paths = {"app", "data", "recorder/uip", "recorder/log", "recorder/old", "mocks/uip", "credentials", "venv", "node"}
  /\ Tree!Noise = {"venv", "node"} /\ Tree!Private = {"credentials"} /\ Tree!Mocks = {"mocks/uip"}
  /\ Tree!Recorder = {"recorder/uip", "recorder/log", "recorder/old"}
BY DEF Tree!Paths, Tree!Noise, Tree!Private, Tree!Mocks, Tree!Recorder

\* Writing some files leaves the rest of a run as it is.
LEMMA SetGives ==
  ASSUME NEW o \in Runs, NEW S, NEW v \in Texts
  PROVE  LET s == Tree!Set(o, S, v) IN
         /\ s \in Runs
         /\ s.mode = o.mode /\ s.executable = o.executable /\ s.source = o.source /\ s.owned = o.owned
         /\ s.exists = o.exists /\ s.published = o.published /\ s.again = o.again
         /\ \A p \in Tree!Paths : s.tree[p] = IF p \in S THEN v ELSE o.tree[p]
<1> DEFINE t == [p \in Tree!Paths |-> IF p \in S THEN v ELSE o.tree[p]]
<1>1. o.tree \in [Tree!Paths -> Texts]
  BY DEF Runs
<1>2. t \in [Tree!Paths -> Texts]
  BY <1>1
<1>3. Tree!Set(o, S, v) = [o EXCEPT !.tree = t]
  BY DEF Tree!Set
<1> HIDE DEF t
<1>4. [o EXCEPT !.tree = t].tree = t
  BY DEF Runs
<1>5. \A p \in Tree!Paths : t[p] = IF p \in S THEN v ELSE o.tree[p]
  BY DEF t
<1>6. [o EXCEPT !.tree = t] \in Runs
  BY <1>2 DEF Runs
<1> QED
  BY <1>3, <1>4, <1>5, <1>6 DEF Runs

\* What a directory may hold before the set-up.
LEMMA EmptyIs ==
  /\ Tree!Empty \in [Tree!Paths -> Texts]
  /\ \A p \in Tree!Paths : Tree!Empty[p] = "absent"
  /\ Tree!Found \subseteq [Tree!Paths -> Texts]
  /\ \A t \in Tree!Found : t["venv"] = "absent" /\ t["node"] = "absent"
<1>1. Tree!Empty = [p \in Tree!Paths |-> "absent"]
  BY DEF Tree!Empty, Tree!Absent
<1>2. /\ Tree!Empty \in [Tree!Paths -> Texts]
      /\ \A p \in Tree!Paths : Tree!Empty[p] = "absent"
  <2>1. "absent" \in Texts
    BY DEF Texts
  <2> QED
    BY <1>1, <2>1
<1>3. ASSUME NEW t \in Tree!Found
      PROVE  t \in [Tree!Paths -> Texts] /\ t["venv"] = "absent" /\ t["node"] = "absent"
  <2>1. \/ t = Tree!Empty
        \/ t = [Tree!Empty EXCEPT !["recorder/old"] = "stale", !["recorder/log"] = "stale", !["app"] = "stale"]
    BY DEF Tree!Found
  <2>2. "stale" \in Texts
    BY DEF Texts
  <2> QED
    BY <1>2, <2>1, <2>2, PathsAre
<1> QED
  BY <1>2, <1>3

\* Only a directory of its own is removed (cleanup).
LEMMA ClearedGives ==
  ASSUME NEW o \in Runs
  PROVE  LET c == Tree!Cleared(o) IN
         /\ c \in Runs
         /\ c.mode = o.mode /\ c.owned = o.owned /\ c.published = o.published
         /\ c.exists = (o.exists /\ ~ o.owned)
         /\ \A p \in Tree!Paths : c.tree[p] = IF o.owned THEN "absent" ELSE o.tree[p]
<1> DEFINE s == Tree!Set(o, Tree!Paths, "absent")
<1>1. /\ s \in Runs /\ s.mode = o.mode /\ s.owned = o.owned /\ s.published = o.published
      /\ \A p \in Tree!Paths : s.tree[p] = "absent"
  <2>1. "absent" \in Texts
    BY DEF Texts
  <2> QED
    BY <2>1, SetGives
<1>2. Tree!Cleared(o) = IF o.owned THEN [s EXCEPT !.exists = FALSE] ELSE o
  BY DEF Tree!Cleared, Tree!Absent
<1> HIDE DEF s
<1>3. [s EXCEPT !.exists = FALSE] \in Runs
  BY <1>1 DEF Runs
<1>4. CASE o.owned
  BY <1>1, <1>2, <1>3, <1>4 DEF Runs
<1>5. CASE ~ o.owned
  BY <1>2, <1>5 DEF Runs
<1> QED
  BY <1>4, <1>5

\* What a failure of the set-up leaves (_cleanup_partial_setup and adopt()).
Left(o, part) == IF o.mode = "adopt" THEN Tree!PartRemoved(o, part) ELSE Tree!Cleared(o)

\* A failed set-up leaves nothing of a temporary directory, and of an adopted
\* one everything but the part it was making.
LEMMA LeftGives ==
  ASSUME NEW o \in Runs, NEW part
  PROVE  LET l == Left(o, part) IN
         /\ l \in Runs
         /\ l.mode = o.mode /\ l.owned = o.owned /\ l.published = o.published
         /\ l.exists = (o.exists /\ (o.mode = "adopt" \/ ~ o.owned))
         /\ o.mode = "adopt" => \A p \in Tree!Paths : l.tree[p] = IF p = part THEN "absent" ELSE o.tree[p]
         /\ o.mode # "adopt" => \A p \in Tree!Paths : l.tree[p] = IF o.owned THEN "absent" ELSE o.tree[p]
<1>1. o.exists \in BOOLEAN /\ o.owned \in BOOLEAN
  BY DEF Runs
<1>2. CASE o.mode = "adopt"
  <2>1. Left(o, part) = Tree!Set(o, {part}, "absent")
    BY <1>2 DEF Left, Tree!PartRemoved, Tree!Absent
  <2>2. "absent" \in Texts
    BY DEF Texts
  <2> DEFINE s == Tree!Set(o, {part}, "absent")
  <2>3. /\ s \in Runs /\ s.mode = o.mode /\ s.owned = o.owned /\ s.published = o.published /\ s.exists = o.exists
        /\ \A p \in Tree!Paths : s.tree[p] = IF p \in {part} THEN "absent" ELSE o.tree[p]
    BY <2>2, SetGives
  <2> HIDE DEF s
  <2>4. \A p \in Tree!Paths : s.tree[p] = IF p = part THEN "absent" ELSE o.tree[p]
    BY <2>3
  <2> QED
    BY <1>1, <1>2, <2>1, <2>3, <2>4 DEF s
<1>3. CASE o.mode # "adopt"
  <2>1. Left(o, part) = Tree!Cleared(o)
    BY <1>3 DEF Left
  <2> QED
    BY <1>1, <1>3, <2>1, ClearedGives
<1> QED
  BY <1>2, <1>3

-----------------------------------------------------------------------------
\* Where the set-up and the run are: the directory is there, and nothing of it
\* is published yet.
Building == {"template", "recorders", "executable", "venv", "packages", "node", "ready", "worked"}

TreeTyped ==
  /\ out \in Runs
  /\ at \in Building \cup {"enter", "preserved", "ended", "failed"}
  /\ case.config \in SandboxConfigs
  /\ at = "enter" => out.source = 1

\* Who the directory belongs to, and whether it is there.
TreeOwned ==
  /\ out.mode # "temp" => ~ out.owned /\ (at # "enter" => out.exists)
  /\ out.mode = "temp" =>
       /\ at \in Building => out.owned /\ out.exists
       /\ at = "failed" => ~ out.exists
       /\ at = "preserved" => out.exists /\ (out.owned <=> out.published = Tree!Empty)
       /\ at = "ended" => (out.exists <=> out.published # Tree!Empty)

\* What is published, and that the agent worked before.
TreePublished ==
  /\ at \notin {"preserved", "ended"} => out.published = Tree!Empty
  /\ at = "worked" /\ out.mode # "adopt" => out.tree["app"] = "agent"
  /\ out.published # Tree!Empty =>
       /\ out.published["app"] = "agent"
       /\ Tree!Keeps = "captured" => out.published["credentials"] = "absent"

\* The sources before the n-th that write a file: the last of them has its way.
Before(p, n) == {i \in DOMAIN Tree!C.sources : i < n /\ p \in Tree!C.sources[i]}
LastOf(p, S) == S # {} => \E i \in S : out.tree[p] = SandboxFrom[i] /\ \A j \in S : j <= i
Provided == {"recorders", "executable", "venv", "packages", "node", "ready"}
TreeSourced ==
  out.mode # "adopt" =>
    /\ at = "template" => \A p \in Tree!Paths : LastOf(p, Before(p, out.source))
    /\ at \in Provided => \A p \in Tree!Paths \ Tree!Recorder : LastOf(p, Tree!Sourced(p))

\* The recorder and what can be executed, once each is made.
TreeRecorded ==
  at \in Provided \ {"recorders"} /\ out.mode # "adopt" /\ Tree!C.record =>
    /\ out.tree["recorder/uip"] = "shim" /\ out.tree["recorder/log"] = "seeded" /\ out.tree["recorder/old"] = "absent"
    /\ ~ (Tree!C.mocks /\ out.tree["mocks/uip"] # "absent")
TreeExecutable ==
  at \in {"venv", "packages", "node", "ready"} =>
    Tree!OnPath(out.tree) \cap Tree!Present(out.tree) \subseteq out.executable

\* An environment is missing or whole, except where it is being made and in a
\* target of the caller whose set-up failed, which makes it again.
Sound(text) == text \in {"absent", "whole"}
TreeWhole ==
  /\ ~ Tree!C.venv => Sound(out.tree["venv"])
  /\ ~ Tree!C.node => Sound(out.tree["node"])
  /\ out.mode = "adopt" => (at # "packages" => Sound(out.tree["venv"])) /\ Sound(out.tree["node"])
  /\ at \in {"node", "ready", "worked", "preserved", "ended"} => Sound(out.tree["venv"])
  /\ at \in {"ready", "worked", "preserved", "ended"} => Sound(out.tree["node"])
  /\ at \in {"node", "ready"} /\ Tree!C.venv /\ (Tree!C.packages \/ out.mode # "adopt") => out.tree["venv"] = "whole"
  /\ at = "ready" /\ Tree!C.node => out.tree["node"] = "whole"


\* A directory from set-up to clean-up.
TreeInv == /\ TreeTyped /\ TreeOwned /\ TreePublished /\ TreeSourced
           /\ TreeRecorded /\ TreeExecutable /\ TreeWhole

\* It holds before the set-up.
LEMMA TreeStarts ==
  ASSUME Tree!Init
  PROVE  TreeInv
<1>1. PICK mode \in Tree!Modes, t \in Tree!Found :
         /\ mode = "temp" => t = Tree!Empty
         /\ out = [mode |-> mode, tree |-> t, executable |-> {}, source |-> 1, owned |-> FALSE, exists |-> FALSE,
                   published |-> Tree!Empty, again |-> 0]
  BY DEF Tree!Init
<1>2. at = "enter" /\ case.config \in SandboxConfigs
  BY DEF Tree!Init
<1>3. out \in Runs
  BY <1>1, EmptyIs DEF Runs
<1>4. out.source = 1 /\ out.owned = FALSE /\ out.published = Tree!Empty /\ out.tree["venv"] = "absent" /\ out.tree["node"] = "absent"
  BY <1>1, EmptyIs
<1> QED
  BY <1>2, <1>3, <1>4 DEF TreeInv, TreeTyped, TreeOwned, TreePublished, TreeSourced, TreeRecorded, TreeExecutable,
    TreeWhole, Sound, Building, Provided

\* Within the set-up the directory stays whose it was, and unpublished.
LEMMA BuildKeeps ==
  ASSUME TreeInv, at \in Building \ {"worked"}, at' \in Building \ {"worked"}, case' = case,
         out' \in Runs, out'.mode = out.mode, out'.owned = out.owned, out'.exists = out.exists,
         out'.published = out.published
  PROVE  TreeTyped' /\ TreeOwned' /\ TreePublished'
BY DEF TreeInv, TreeTyped, TreeOwned, TreePublished, Building

\* A set-up that fails removes a directory of its own.
LEMMA FailKeeps ==
  ASSUME TreeInv, at \in Building, at' = "failed", case' = case,
         out' \in Runs, out'.mode = out.mode, out'.owned = out.owned, out'.published = out.published,
         out'.exists <=> (out.exists /\ (out.mode = "adopt" \/ ~ out.owned)),
         out.mode = "adopt" => Sound(out'.tree["venv"]) /\ Sound(out'.tree["node"]),
         ~ Tree!C.venv => Sound(out'.tree["venv"]),
         ~ Tree!C.node => Sound(out'.tree["node"])
  PROVE  TreeInv'
<1>1. Tree!C' = Tree!C
  BY DEF Tree!C
<1>2. TreeTyped' /\ TreeOwned' /\ TreePublished'
  BY DEF TreeInv, TreeTyped, TreeOwned, TreePublished, Building
<1>3. TreeSourced' /\ TreeRecorded' /\ TreeExecutable'
  BY DEF TreeSourced, TreeRecorded, TreeExecutable, Provided
<1>4. TreeWhole'
  BY <1>1 DEF TreeWhole, Sound
<1> QED
  BY <1>2, <1>3, <1>4 DEF TreeInv

\* A step of the set-up that fails after it left o (Fail).
LEMMA FailStep ==
  ASSUME TreeInv, at \in Building, case' = case,
         NEW o \in Runs, o.mode = out.mode, o.owned = out.owned, o.published = out.published, o.exists = out.exists,
         NEW part \in Tree!Paths, Tree!Fail(o, part),
         o.mode = "adopt" => \A q \in {"venv", "node"} \ {part} : Sound(o.tree[q]),
         ~ Tree!C.venv => Sound(o.tree["venv"]),
         ~ Tree!C.node => Sound(o.tree["node"])
  PROVE  TreeInv'
<1> DEFINE l == Left(o, part)
<1>1. at' = "failed" /\ out' = l
  BY DEF Tree!Fail, Tree!Goes, Left
<1>2. /\ l \in Runs /\ l.mode = o.mode /\ l.owned = o.owned /\ l.published = o.published
      /\ l.exists = (o.exists /\ (o.mode = "adopt" \/ ~ o.owned))
      /\ o.mode = "adopt" => \A p \in Tree!Paths : l.tree[p] = IF p = part THEN "absent" ELSE o.tree[p]
      /\ o.mode # "adopt" => \A p \in Tree!Paths : l.tree[p] = IF o.owned THEN "absent" ELSE o.tree[p]
  BY LeftGives
<1> HIDE DEF l
<1>3. o.mode = "adopt" => Sound(l.tree["venv"]) /\ Sound(l.tree["node"])
  BY <1>2, PathsAre DEF Sound
<1>4. ASSUME NEW q \in {"venv", "node"}, Sound(o.tree[q]) PROVE Sound(l.tree[q])
  BY <1>2, <1>4, PathsAre DEF Sound
<1> QED
  BY <1>1, <1>2, <1>3, <1>4, FailKeeps

\* Each step of set-up, run and clean-up keeps the invariant.
LEMMA EnterStep ==
  ASSUME TreeInv, Tree!Enter, ConfigsPlain
  PROVE  TreeInv'
<1>1. at = "enter" /\ case' = case /\ out' = [out EXCEPT !.owned = (out.mode = "temp"), !.exists = TRUE]
      /\ at' = IF out.mode = "adopt" THEN "executable" ELSE "template"
  BY DEF Tree!Enter, Tree!Goes
<1>2. out \in Runs /\ case.config \in SandboxConfigs /\ out.source = 1
  BY <1>1 DEF TreeInv, TreeTyped
<1>3. /\ out' \in Runs /\ out'.mode = out.mode /\ out'.tree = out.tree /\ out'.owned = (out.mode = "temp")
      /\ out'.exists = TRUE /\ out'.published = out.published /\ out'.source = out.source
  BY <1>1, <1>2 DEF Runs
<1>4. Tree!C' = Tree!C
  BY <1>1 DEF Tree!C
<1>5. TreeTyped' /\ TreeOwned' /\ TreePublished'
  BY <1>1, <1>2, <1>3 DEF TreeInv, TreeTyped, TreeOwned, TreePublished, Building
<1>6. TreeSourced'
  <2>1. ASSUME NEW p \in Tree!Paths PROVE Before(p, 1) = {}
    BY <1>2 DEF Before, ConfigsPlain, Tree!C
  <2> QED
    BY <1>1, <1>2, <1>3, <1>4, <2>1 DEF TreeSourced, LastOf, Before, Provided
<1>7. TreeRecorded' /\ TreeExecutable'
  BY <1>1, <1>3 DEF TreeRecorded, TreeExecutable, Provided
<1>8. TreeWhole'
  BY <1>1, <1>3, <1>4 DEF TreeInv, TreeWhole
<1> QED
  BY <1>5, <1>6, <1>7, <1>8 DEF TreeInv

\* A template source is written over those before it, or is refused.
LEMMA ApplySourceStep ==
  ASSUME TreeInv, Tree!ApplySource, ConfigsPlain
  PROVE  TreeInv'
<1>1. at = "template" /\ out.source <= Len(Tree!C.sources) /\ out \in Runs /\ case.config \in SandboxConfigs
  BY DEF Tree!ApplySource, TreeInv, TreeTyped
<1>2. CASE Tree!Fail(out, "app")
  <2>1. "app" \in Tree!Paths /\ case' = case
    BY <1>2, PathsAre DEF Tree!Fail, Tree!Goes
  <2>2. out.mode = "adopt" => Sound(out.tree["venv"]) /\ Sound(out.tree["node"])
    BY <1>1 DEF TreeInv, TreeWhole
  <2>3. (~ Tree!C.venv => Sound(out.tree["venv"])) /\ (~ Tree!C.node => Sound(out.tree["node"]))
    BY DEF TreeInv, TreeWhole
  <2>4. at \in Building
    BY <1>1 DEF Building
  <2> QED
    BY <1>1, <1>2, <2>1, <2>2, <2>3, <2>4, FailStep
<1>3. CASE Tree!Goes("template", [Tree!Set(out, Tree!C.sources[out.source], SandboxFrom[out.source]) EXCEPT !.source = @ + 1])
  <2> DEFINE n == out.source
             o == Tree!Set(out, Tree!C.sources[n], SandboxFrom[n])
  <2>1. n \in Nat \ {0} /\ Tree!C.sources \in Seq(SUBSET (Tree!Paths \ Tree!Noise))
        /\ DOMAIN Tree!C.sources \subseteq DOMAIN SandboxFrom
    BY <1>1 DEF ConfigsPlain, Runs, Tree!C
  <2>2. n \in DOMAIN Tree!C.sources
    BY <1>1, <2>1
  <2>3. SandboxFrom[n] \in Texts /\ Tree!C.sources[n] \subseteq Tree!Paths \ Tree!Noise
    BY <2>1, <2>2 DEF Texts
  <2>4. /\ o \in Runs /\ o.mode = out.mode /\ o.source = n /\ o.owned = out.owned
        /\ o.exists = out.exists /\ o.published = out.published
        /\ \A p \in Tree!Paths : o.tree[p] = IF p \in Tree!C.sources[n] THEN SandboxFrom[n] ELSE out.tree[p]
    BY <1>1, <2>3, SetGives
  <2> HIDE DEF o
  <2>5. at' = "template" /\ case' = case /\ out' = [o EXCEPT !.source = o.source + 1]
    BY <1>3 DEF Tree!Goes, o
  <2>6. /\ out' \in Runs /\ out'.mode = o.mode /\ out'.tree = o.tree /\ out'.owned = o.owned
        /\ out'.exists = o.exists /\ out'.published = o.published /\ out'.source = n + 1
    BY <2>1, <2>4, <2>5 DEF Runs
  <2>7. Tree!C' = Tree!C
    BY <2>5 DEF Tree!C
  <2>8. TreeTyped' /\ TreeOwned' /\ TreePublished'
    BY <1>1, <2>4, <2>5, <2>6, BuildKeeps DEF Building
  <2>9. TreeSourced'
    <3>1. SUFFICES ASSUME out.mode # "adopt", NEW p \in Tree!Paths PROVE LastOf(p, Before(p, out.source))'
      BY <2>4, <2>5, <2>6 DEF TreeSourced, Provided
    <3>2. LastOf(p, Before(p, n))
      BY <1>1, <3>1 DEF TreeInv, TreeSourced
    <3>3. Before(p, out.source)' = {i \in DOMAIN Tree!C.sources : i < n + 1 /\ p \in Tree!C.sources[i]}
      BY <2>6, <2>7 DEF Before
    <3>4. \A i \in DOMAIN Tree!C.sources : i \in Nat /\ (i < n + 1 <=> i < n \/ i = n)
      BY <2>1
    <3>5. CASE p \in Tree!C.sources[n]
      <4>1. n \in Before(p, out.source)' /\ out'.tree[p] = SandboxFrom[n]
        BY <2>1, <2>2, <2>4, <2>6, <3>3, <3>5
      <4>2. \A j \in Before(p, out.source)' : j <= n
        BY <2>1, <3>3, <3>4
      <4> QED
        BY <4>1, <4>2 DEF LastOf
    <3>6. CASE p \notin Tree!C.sources[n]
      <4>1. Before(p, out.source)' = Before(p, n)
        BY <3>3, <3>4, <3>6 DEF Before
      <4>2. out'.tree[p] = out.tree[p]
        BY <2>4, <2>6, <3>6
      <4> QED
        BY <3>2, <4>1, <4>2 DEF LastOf
    <3> QED
      BY <3>5, <3>6
  <2>10. TreeRecorded' /\ TreeExecutable'
    BY <2>5 DEF TreeRecorded, TreeExecutable, Provided
  <2>11. TreeWhole'
    <3>1. out'.tree["venv"] = out.tree["venv"] /\ out'.tree["node"] = out.tree["node"]
      BY <2>3, <2>4, <2>6, PathsAre
    <3> QED
      BY <1>1, <2>4, <2>5, <2>6, <2>7, <3>1 DEF TreeInv, TreeWhole
  <2> QED
    BY <2>8, <2>9, <2>10, <2>11 DEF TreeInv
<1> QED
  BY <1>2, <1>3 DEF Tree!ApplySource

LEMMA TemplateDoneStep ==
  ASSUME TreeInv, Tree!TemplateDone, ConfigsPlain
  PROVE  TreeInv'
<1>1. at = "template" /\ out.source > Len(Tree!C.sources) /\ at' = "recorders" /\ out' = out /\ case' = case
  BY DEF Tree!TemplateDone, Tree!Goes
<1>2. out \in Runs /\ case.config \in SandboxConfigs /\ Tree!C' = Tree!C
  BY <1>1 DEF TreeInv, TreeTyped, Tree!C
<1>3. TreeTyped' /\ TreeOwned' /\ TreePublished'
  BY <1>1, <1>2, BuildKeeps DEF Building
<1>4. ASSUME NEW p \in Tree!Paths PROVE Before(p, out.source) = Tree!Sourced(p)
  <2>1. out.source \in Nat /\ Tree!C.sources \in Seq(SUBSET (Tree!Paths \ Tree!Noise))
    BY <1>2 DEF ConfigsPlain, Runs, Tree!C
  <2>2. \A i \in DOMAIN Tree!C.sources : i < out.source
    BY <1>1, <2>1
  <2> QED
    BY <2>2 DEF Before, Tree!Sourced
<1>5. TreeSourced'
  BY <1>1, <1>2, <1>4 DEF TreeInv, TreeSourced, LastOf, Tree!Sourced, Provided
<1>6. TreeRecorded' /\ TreeExecutable'
  BY <1>1 DEF TreeRecorded, TreeExecutable, Provided
<1>7. TreeWhole'
  BY <1>1, <1>2 DEF TreeInv, TreeWhole
<1> QED
  BY <1>3, <1>5, <1>6, <1>7 DEF TreeInv

LEMMA GenerateRecordersStep ==
  ASSUME TreeInv, Tree!GenerateRecorders, ConfigsPlain
  PROVE  TreeInv'
<1>1. at = "recorders" /\ out \in Runs /\ case.config \in SandboxConfigs /\ case' = case
  BY DEF Tree!GenerateRecorders, Tree!Fail, Tree!Goes, TreeInv, TreeTyped
<1>2. Tree!C' = Tree!C
  BY <1>1 DEF Tree!C
<1>3. ASSUME NEW o \in Runs, at' = "executable", out' = o, o.mode = out.mode, o.owned = out.owned, o.exists = out.exists,
             o.published = out.published, \A p \in Tree!Paths \ Tree!Recorder : o.tree[p] = out.tree[p],
             Tree!C.record => /\ o.tree["recorder/uip"] = "shim" /\ o.tree["recorder/log"] = "seeded"
                              /\ o.tree["recorder/old"] = "absent" /\ ~ (Tree!C.mocks /\ o.tree["mocks/uip"] # "absent")
      PROVE  TreeInv'
  <2>1. TreeTyped' /\ TreeOwned' /\ TreePublished'
    BY <1>1, <1>3, BuildKeeps DEF Building
  <2>2. TreeSourced'
    BY <1>1, <1>2, <1>3 DEF TreeInv, TreeSourced, LastOf, Tree!Sourced, Provided
  <2>3. TreeRecorded'
    BY <1>2, <1>3 DEF TreeRecorded
  <2>4. TreeExecutable'
    BY <1>3 DEF TreeExecutable
  <2>5. TreeWhole'
    <3>1. out'.tree["venv"] = out.tree["venv"] /\ out'.tree["node"] = out.tree["node"]
      BY <1>3, PathsAre
    <3> QED
      BY <1>1, <1>2, <1>3, <3>1 DEF TreeInv, TreeWhole
  <2> QED
    BY <2>1, <2>2, <2>3, <2>4, <2>5 DEF TreeInv
<1>4. CASE ~ Tree!C.record /\ Tree!Goes("executable", out)
  BY <1>1, <1>3, <1>4 DEF Tree!Goes
<1>5. CASE Tree!Fail(out, "app")
  <2>1. "app" \in Tree!Paths /\ at \in Building
    BY <1>1, PathsAre DEF Building
  <2>2. out.mode = "adopt" => Sound(out.tree["venv"]) /\ Sound(out.tree["node"])
    BY <1>1 DEF TreeInv, TreeWhole
  <2>3. (~ Tree!C.venv => Sound(out.tree["venv"])) /\ (~ Tree!C.node => Sound(out.tree["node"]))
    BY DEF TreeInv, TreeWhole
  <2> QED
    BY <1>1, <1>5, <2>1, <2>2, <2>3, FailStep
<1>6. CASE Tree!C.record /\ ~ Tree!Clash /\ Tree!Goes("executable", Tree!Recorded(out))
  <2> DEFINE a == Tree!Set(out, Tree!Recorder, "absent")
             b == Tree!Set(a, {"recorder/uip"}, "shim")
             c == Tree!Set(b, {"recorder/log"}, "seeded")
  <2>1. "absent" \in Texts /\ "shim" \in Texts /\ "seeded" \in Texts
    BY DEF Texts
  <2>2. /\ a \in Runs /\ a.mode = out.mode /\ a.owned = out.owned /\ a.exists = out.exists /\ a.published = out.published
        /\ \A p \in Tree!Paths : a.tree[p] = IF p \in Tree!Recorder THEN "absent" ELSE out.tree[p]
    BY <1>1, <2>1, SetGives
  <2> HIDE DEF a
  <2>3. /\ b \in Runs /\ b.mode = out.mode /\ b.owned = out.owned /\ b.exists = out.exists /\ b.published = out.published
        /\ \A p \in Tree!Paths : b.tree[p] = IF p \in {"recorder/uip"} THEN "shim" ELSE a.tree[p]
    BY <2>1, <2>2, SetGives
  <2> HIDE DEF b
  <2>4. /\ c \in Runs /\ c.mode = out.mode /\ c.owned = out.owned /\ c.exists = out.exists /\ c.published = out.published
        /\ \A p \in Tree!Paths : c.tree[p] = IF p \in {"recorder/log"} THEN "seeded" ELSE b.tree[p]
    BY <2>1, <2>3, SetGives
  <2> HIDE DEF c
  <2>5. \A p \in Tree!Paths \ Tree!Recorder : c.tree[p] = out.tree[p]
    BY <2>2, <2>3, <2>4, PathsAre
  <2>6. c.tree["recorder/uip"] = "shim" /\ c.tree["recorder/log"] = "seeded" /\ c.tree["recorder/old"] = "absent"
    BY <2>2, <2>3, <2>4, PathsAre
  <2>7. ~ (Tree!C.mocks /\ c.tree["mocks/uip"] # "absent")
    BY <1>6, <2>5, PathsAre DEF Tree!Clash, Tree!Absent
  <2>8. at' = "executable" /\ out' = c
    BY <1>6 DEF Tree!Goes, Tree!Recorded, Tree!Absent, a, b, c
  <2> QED
    BY <1>3, <2>4, <2>5, <2>6, <2>7, <2>8
<1> QED
  BY <1>4, <1>5, <1>6 DEF Tree!GenerateRecorders

LEMMA MarkExecutableStep ==
  ASSUME TreeInv, Tree!MarkExecutable
  PROVE  TreeInv'
<1> DEFINE e == Tree!OnPath(out.tree) \cap Tree!Present(out.tree)
<1>1. at = "executable" /\ at' = "venv" /\ case' = case /\ out' = [out EXCEPT !.executable = e] /\ out \in Runs
  BY DEF Tree!MarkExecutable, Tree!Goes, TreeInv, TreeTyped
<1>2. e \subseteq Tree!Paths
  BY DEF Tree!Present
<1>3. Tree!C' = Tree!C
  BY <1>1 DEF Tree!C
<1>4. TreeExecutable'
  <2>1. out'.tree = out.tree /\ out'.executable = e
    BY <1>1 DEF Runs
  <2> QED
    BY <1>3, <2>1 DEF TreeExecutable, Tree!OnPath, Tree!Present
<1> HIDE DEF e
<1>5. /\ out' \in Runs /\ out'.mode = out.mode /\ out'.tree = out.tree /\ out'.owned = out.owned
      /\ out'.exists = out.exists /\ out'.published = out.published
  BY <1>1, <1>2 DEF Runs
<1>6. TreeTyped' /\ TreeOwned' /\ TreePublished'
  BY <1>1, <1>5, BuildKeeps DEF Building
<1>7. TreeSourced'
  BY <1>1, <1>3, <1>5 DEF TreeInv, TreeSourced, LastOf, Tree!Sourced, Provided
<1>8. TreeRecorded' /\ TreeWhole'
  BY <1>1, <1>3, <1>5 DEF TreeInv, TreeRecorded, TreeWhole, Provided
<1> QED
  BY <1>4, <1>6, <1>7, <1>8 DEF TreeInv

\* Making an environment leaves the task's own files as they are.
LEMMA ProvisionKeeps ==
  ASSUME TreeInv, ConfigsPlain, at \in {"venv", "packages", "node"}, at' \in {"packages", "node", "ready"}, case' = case,
         out' \in Runs, out'.mode = out.mode, out'.owned = out.owned, out'.exists = out.exists,
         out'.published = out.published, out'.executable = out.executable,
         \A p \in Tree!Paths \ Tree!Noise : out'.tree[p] = out.tree[p]
  PROVE  TreeTyped' /\ TreeOwned' /\ TreePublished' /\ TreeSourced' /\ TreeRecorded' /\ TreeExecutable'
<1>1. Tree!C' = Tree!C /\ case.config \in SandboxConfigs
  BY DEF Tree!C, TreeInv, TreeTyped
<1>2. TreeTyped' /\ TreeOwned' /\ TreePublished'
  BY BuildKeeps DEF Building
<1>3. TreeSourced'
  <2>1. SUFFICES ASSUME out.mode # "adopt", NEW p \in Tree!Paths \ Tree!Recorder PROVE LastOf(p, Tree!Sourced(p))'
    BY DEF TreeSourced
  <2>2. Tree!Sourced(p)' = Tree!Sourced(p)
    BY <1>1 DEF Tree!Sourced
  <2>3. CASE p \in Tree!Noise
    <3>1. Tree!Sourced(p) = {}
      BY <1>1, <2>3 DEF Tree!Sourced, ConfigsPlain, Tree!C
    <3> QED
      BY <2>2, <3>1 DEF LastOf
  <2>4. CASE p \notin Tree!Noise
    <3>1. LastOf(p, Tree!Sourced(p)) /\ out'.tree[p] = out.tree[p]
      BY <2>1, <2>4 DEF TreeInv, TreeSourced, Provided
    <3> QED
      BY <2>2, <3>1 DEF LastOf
  <2> QED
    BY <2>3, <2>4
<1>4. TreeRecorded'
  BY <1>1, PathsAre DEF TreeInv, TreeRecorded, Provided
<1>5. TreeExecutable'
  <2>1. Tree!OnPath(out'.tree) = Tree!OnPath(out.tree)
    BY DEF Tree!OnPath
  <2>2. Tree!OnPath(out.tree)' = Tree!OnPath(out.tree) /\ Tree!OnPath(out.tree) \cap Tree!Noise = {}
    BY <1>1, PathsAre DEF Tree!OnPath
  <2>3. Tree!OnPath(out.tree) \cap Tree!Present(out'.tree) \subseteq Tree!Present(out.tree)
    BY <2>2 DEF Tree!Present
  <2>4. Tree!Present(out.tree)' = Tree!Present(out'.tree)
    BY DEF Tree!Present
  <2> QED
    BY <2>2, <2>3, <2>4 DEF TreeInv, TreeExecutable
<1> QED
  BY <1>2, <1>3, <1>4, <1>5

\* One environment made, or half made.
LEMMA MadeGives ==
  ASSUME TreeTyped, NEW q \in {"venv", "node"}, NEW v \in {"half", "whole"}
  PROVE  LET o == Tree!Set(out, {q}, v) IN
         /\ o \in Runs /\ o.mode = out.mode /\ o.owned = out.owned /\ o.exists = out.exists
         /\ o.published = out.published /\ o.executable = out.executable
         /\ \A p \in Tree!Paths \ Tree!Noise : o.tree[p] = out.tree[p]
         /\ o.tree[q] = v /\ \A p \in {"venv", "node"} \ {q} : o.tree[p] = out.tree[p]
<1>1. v \in Texts /\ out \in Runs
  BY DEF Texts, TreeTyped
<1> DEFINE o == Tree!Set(out, {q}, v)
<1>2. /\ o \in Runs /\ o.mode = out.mode /\ o.owned = out.owned /\ o.exists = out.exists
      /\ o.published = out.published /\ o.executable = out.executable
      /\ \A p \in Tree!Paths : o.tree[p] = IF p \in {q} THEN v ELSE out.tree[p]
  BY <1>1, SetGives
<1> HIDE DEF o
<1>3. \A p \in Tree!Paths \ Tree!Noise : o.tree[p] = out.tree[p]
  BY <1>2, PathsAre
<1>4. o.tree[q] = v /\ \A p \in {"venv", "node"} \ {q} : o.tree[p] = out.tree[p]
  BY <1>2, PathsAre
<1> QED
  BY <1>2, <1>3, <1>4 DEF o

LEMMA SetupVenvStep ==
  ASSUME TreeInv, Tree!SetupVenv, ConfigsPlain
  PROVE  TreeInv'
<1>1. at = "venv" /\ out \in Runs /\ TreeTyped /\ at \in Building /\ case' = case
  BY DEF Tree!SetupVenv, Tree!Fail, Tree!Goes, TreeInv, TreeTyped, Building
<1>2. Tree!C' = Tree!C
  BY <1>1 DEF Tree!C
<1>3. CASE /\ ~ Tree!C.venv \/ (out.mode = "adopt" /\ (out.tree["venv"] # "absent" \/ ~ Tree!C.packages))
           /\ Tree!Goes("node", out)
  <2>1. at' = "node" /\ out' = out
    BY <1>3 DEF Tree!Goes
  <2>2. TreeTyped' /\ TreeOwned' /\ TreePublished' /\ TreeSourced' /\ TreeRecorded' /\ TreeExecutable'
    BY <1>1, <2>1, ProvisionKeeps
  <2>3. TreeWhole'
    BY <1>1, <1>2, <1>3, <2>1 DEF TreeInv, TreeWhole, Sound
  <2> QED
    BY <2>2, <2>3 DEF TreeInv
<1>4. CASE /\ Tree!C.venv
           /\ Tree!Goes(IF Tree!C.packages THEN "packages" ELSE "node",
                        Tree!Set(out, {"venv"}, IF Tree!C.packages THEN "half" ELSE "whole"))
  <2> DEFINE v == IF Tree!C.packages THEN "half" ELSE "whole"
             o == Tree!Set(out, {"venv"}, v)
  <2>1. v \in {"half", "whole"} /\ "venv" \in {"venv", "node"}
    OBVIOUS
  <2>2. v = IF Tree!C.packages THEN "half" ELSE "whole"
    OBVIOUS
  <2>3. at' = (IF Tree!C.packages THEN "packages" ELSE "node") /\ out' = o
    BY <1>4 DEF Tree!Goes
  <2> HIDE DEF v
  <2>4. /\ o \in Runs /\ o.mode = out.mode /\ o.owned = out.owned /\ o.exists = out.exists
        /\ o.published = out.published /\ o.executable = out.executable
        /\ \A p \in Tree!Paths \ Tree!Noise : o.tree[p] = out.tree[p]
        /\ o.tree["venv"] = v /\ \A p \in {"venv", "node"} \ {"venv"} : o.tree[p] = out.tree[p]
    BY <1>1, <2>1, MadeGives
  <2> HIDE DEF o
  <2>5. TreeTyped' /\ TreeOwned' /\ TreePublished' /\ TreeSourced' /\ TreeRecorded' /\ TreeExecutable'
    BY <1>1, <2>3, <2>4, ProvisionKeeps
  <2>6. out'.tree["node"] = out.tree["node"] /\ out'.tree["venv"] = v /\ out'.mode = out.mode
    BY <2>3, <2>4
  <2>7. TreeWhole'
    <3>1. CASE Tree!C.packages
      BY <1>1, <1>2, <1>4, <2>2, <2>3, <2>6, <3>1 DEF TreeInv, TreeWhole, Sound
    <3>2. CASE ~ Tree!C.packages
      BY <1>1, <1>2, <1>4, <2>2, <2>3, <2>6, <3>2 DEF TreeInv, TreeWhole, Sound
    <3> QED
      BY <3>1, <3>2
  <2> QED
    BY <2>5, <2>7 DEF TreeInv
<1>5. CASE Tree!C.venv /\ Tree!Fail(Tree!Set(out, {"venv"}, "half"), "venv")
  <2> DEFINE o == Tree!Set(out, {"venv"}, "half")
  <2>1. "half" \in {"half", "whole"} /\ "venv" \in {"venv", "node"} /\ "venv" \in Tree!Paths
    BY PathsAre
  <2>2. /\ o \in Runs /\ o.mode = out.mode /\ o.owned = out.owned /\ o.exists = out.exists
        /\ o.published = out.published
        /\ \A p \in {"venv", "node"} \ {"venv"} : o.tree[p] = out.tree[p]
    BY <1>1, <2>1, MadeGives
  <2>3. Tree!Fail(o, "venv")
    BY <1>5
  <2> HIDE DEF o
  <2>4. o.tree["node"] = out.tree["node"]
    BY <2>2
  <2>5. o.mode = "adopt" => \A q \in {"venv", "node"} \ {"venv"} : Sound(o.tree[q])
    BY <1>1, <2>2, <2>4 DEF TreeInv, TreeWhole
  <2>6. ~ Tree!C.node => Sound(o.tree["node"])
    BY <2>4 DEF TreeInv, TreeWhole
  <2> QED
    BY <1>1, <1>5, <2>1, <2>2, <2>3, <2>5, <2>6, FailStep
<1> QED
  BY <1>1, <1>3, <1>4, <1>5 DEF Tree!SetupVenv, Tree!Absent

LEMMA InstallPackagesStep ==
  ASSUME TreeInv, Tree!InstallPackages, ConfigsPlain
  PROVE  TreeInv'
<1>1. at = "packages" /\ out \in Runs /\ TreeTyped /\ at \in Building /\ case' = case
  BY DEF Tree!InstallPackages, Tree!Fail, Tree!Goes, TreeInv, TreeTyped, Building
<1>2. Tree!C' = Tree!C
  BY <1>1 DEF Tree!C
<1>3. CASE Tree!Goes("node", Tree!Set(out, {"venv"}, "whole"))
  <2> DEFINE o == Tree!Set(out, {"venv"}, "whole")
  <2>1. "whole" \in {"half", "whole"} /\ "venv" \in {"venv", "node"}
    OBVIOUS
  <2>2. at' = "node" /\ out' = o
    BY <1>3 DEF Tree!Goes
  <2>3. /\ o \in Runs /\ o.mode = out.mode /\ o.owned = out.owned /\ o.exists = out.exists
        /\ o.published = out.published /\ o.executable = out.executable
        /\ \A p \in Tree!Paths \ Tree!Noise : o.tree[p] = out.tree[p]
        /\ o.tree["venv"] = "whole" /\ \A p \in {"venv", "node"} \ {"venv"} : o.tree[p] = out.tree[p]
    BY <1>1, <2>1, MadeGives
  <2> HIDE DEF o
  <2>4. TreeTyped' /\ TreeOwned' /\ TreePublished' /\ TreeSourced' /\ TreeRecorded' /\ TreeExecutable'
    BY <1>1, <2>2, <2>3, ProvisionKeeps
  <2>5. out'.tree["node"] = out.tree["node"] /\ out'.tree["venv"] = "whole" /\ out'.mode = out.mode
    BY <2>2, <2>3
  <2>6. TreeWhole'
    BY <1>1, <1>2, <2>2, <2>5 DEF TreeInv, TreeWhole, Sound
  <2> QED
    BY <2>4, <2>6 DEF TreeInv
<1>4. CASE Tree!Fail(out, "venv")
  <2>1. out.mode = "adopt" => \A q \in {"venv", "node"} \ {"venv"} : Sound(out.tree[q])
    BY DEF TreeInv, TreeWhole
  <2>2. (~ Tree!C.venv => Sound(out.tree["venv"])) /\ (~ Tree!C.node => Sound(out.tree["node"])) /\ "venv" \in Tree!Paths
    BY PathsAre DEF TreeInv, TreeWhole
  <2> QED
    BY <1>1, <1>4, <2>1, <2>2, FailStep
<1> QED
  BY <1>3, <1>4 DEF Tree!InstallPackages

LEMMA InstallNodeStep ==
  ASSUME TreeInv, Tree!InstallNode, ConfigsPlain
  PROVE  TreeInv'
<1>1. at = "node" /\ out \in Runs /\ TreeTyped /\ at \in Building /\ case' = case
  BY DEF Tree!InstallNode, Tree!Fail, Tree!Goes, TreeInv, TreeTyped, Building
<1>2. Tree!C' = Tree!C
  BY <1>1 DEF Tree!C
<1>3. CASE (~ Tree!C.node \/ (out.mode = "adopt" /\ out.tree["node"] # "absent")) /\ Tree!Goes("ready", out)
  <2>1. at' = "ready" /\ out' = out
    BY <1>3 DEF Tree!Goes
  <2>2. TreeTyped' /\ TreeOwned' /\ TreePublished' /\ TreeSourced' /\ TreeRecorded' /\ TreeExecutable'
    BY <1>1, <2>1, ProvisionKeeps
  <2>3. TreeWhole'
    BY <1>1, <1>2, <1>3, <2>1 DEF TreeInv, TreeWhole, Sound
  <2> QED
    BY <2>2, <2>3 DEF TreeInv
<1>4. CASE Tree!Goes("ready", Tree!Set(out, {"node"}, "whole"))
  <2> DEFINE o == Tree!Set(out, {"node"}, "whole")
  <2>1. "whole" \in {"half", "whole"} /\ "node" \in {"venv", "node"}
    OBVIOUS
  <2>2. at' = "ready" /\ out' = o
    BY <1>4 DEF Tree!Goes
  <2>3. /\ o \in Runs /\ o.mode = out.mode /\ o.owned = out.owned /\ o.exists = out.exists
        /\ o.published = out.published /\ o.executable = out.executable
        /\ \A p \in Tree!Paths \ Tree!Noise : o.tree[p] = out.tree[p]
        /\ o.tree["node"] = "whole" /\ \A p \in {"venv", "node"} \ {"node"} : o.tree[p] = out.tree[p]
    BY <1>1, <2>1, MadeGives
  <2> HIDE DEF o
  <2>4. TreeTyped' /\ TreeOwned' /\ TreePublished' /\ TreeSourced' /\ TreeRecorded' /\ TreeExecutable'
    BY <1>1, <2>2, <2>3, ProvisionKeeps
  <2>5. out'.tree["venv"] = out.tree["venv"] /\ out'.tree["node"] = "whole" /\ out'.mode = out.mode
    BY <2>2, <2>3
  <2>6. TreeWhole'
    BY <1>1, <1>2, <2>2, <2>5 DEF TreeInv, TreeWhole, Sound
  <2> QED
    BY <2>4, <2>6 DEF TreeInv
<1>5. CASE Tree!C.node /\ Tree!Fail(Tree!Set(out, {"node"}, "half"), "node")
  <2> DEFINE o == Tree!Set(out, {"node"}, "half")
  <2>1. "half" \in {"half", "whole"} /\ "node" \in {"venv", "node"} /\ "node" \in Tree!Paths
    BY PathsAre
  <2>2. /\ o \in Runs /\ o.mode = out.mode /\ o.owned = out.owned /\ o.exists = out.exists
        /\ o.published = out.published
        /\ \A p \in {"venv", "node"} \ {"node"} : o.tree[p] = out.tree[p]
    BY <1>1, <2>1, MadeGives
  <2>3. Tree!Fail(o, "node")
    BY <1>5
  <2> HIDE DEF o
  <2>4. o.tree["venv"] = out.tree["venv"] /\ Sound(out.tree["venv"])
    BY <1>1, <2>2 DEF TreeInv, TreeWhole
  <2>5. o.mode = "adopt" => \A q \in {"venv", "node"} \ {"node"} : Sound(o.tree[q])
    BY <2>4
  <2> QED
    BY <1>1, <1>5, <2>1, <2>2, <2>3, <2>4, <2>5, FailStep
<1> QED
  BY <1>1, <1>3, <1>4, <1>5 DEF Tree!InstallNode, Tree!Absent

\* Past the set-up only the directory's end is at stake.
LEMMA PastKeeps ==
  ASSUME at' \in {"enter", "worked", "preserved", "ended", "failed"}
  PROVE  TreeSourced' /\ TreeRecorded' /\ TreeExecutable'
BY DEF TreeSourced, TreeRecorded, TreeExecutable, Provided

LEMMA WorkStep ==
  ASSUME TreeInv, Tree!Work
  PROVE  TreeInv'
<1>1. at = "ready" /\ at' = "worked" /\ case' = case /\ out \in Runs
  BY DEF Tree!Work, Tree!Goes, TreeInv, TreeTyped
<1>2. /\ out' \in Runs /\ out'.mode = out.mode /\ out'.owned = out.owned /\ out'.exists = out.exists
      /\ out'.published = out.published
      /\ out'.tree["venv"] = out.tree["venv"] /\ out'.tree["node"] = out.tree["node"]
      /\ out.mode # "adopt" => out'.tree["app"] = "agent"
  <2>1. CASE out.mode = "adopt"
    <3>1. out' = out
      BY <2>1 DEF Tree!Work, Tree!Goes
    <3> QED
      BY <1>1, <2>1, <3>1
  <2>2. CASE out.mode # "adopt"
    <3> DEFINE a == Tree!Set(out, {"app"}, "agent")
               b == Tree!Set(a, Tree!Private, "agent")
               c == Tree!Set(b, {"recorder/log"}, "calls")
    <3>1. "agent" \in Texts /\ "calls" \in Texts
      BY DEF Texts
    <3>2. /\ a \in Runs /\ a.mode = out.mode /\ a.owned = out.owned /\ a.exists = out.exists /\ a.published = out.published
          /\ \A p \in Tree!Paths : a.tree[p] = IF p \in {"app"} THEN "agent" ELSE out.tree[p]
      BY <1>1, <3>1, SetGives
    <3>3. out' = IF Tree!C.record THEN c ELSE b
      BY <2>2 DEF Tree!Work, Tree!Goes
    <3> HIDE DEF a
    <3>4. /\ b \in Runs /\ b.mode = out.mode /\ b.owned = out.owned /\ b.exists = out.exists /\ b.published = out.published
          /\ \A p \in Tree!Paths : b.tree[p] = IF p \in Tree!Private THEN "agent" ELSE a.tree[p]
      BY <3>1, <3>2, SetGives
    <3> HIDE DEF b
    <3>5. /\ c \in Runs /\ c.mode = out.mode /\ c.owned = out.owned /\ c.exists = out.exists /\ c.published = out.published
          /\ \A p \in Tree!Paths : c.tree[p] = IF p \in {"recorder/log"} THEN "calls" ELSE b.tree[p]
      BY <3>1, <3>4, SetGives
    <3> HIDE DEF c
    <3>6. b.tree["app"] = "agent" /\ b.tree["venv"] = out.tree["venv"] /\ b.tree["node"] = out.tree["node"]
      BY <3>2, <3>4, PathsAre
    <3>7. c.tree["app"] = "agent" /\ c.tree["venv"] = out.tree["venv"] /\ c.tree["node"] = out.tree["node"]
      BY <3>5, <3>6, PathsAre
    <3>8. CASE Tree!C.record
      BY <3>3, <3>5, <3>7, <3>8
    <3>9. CASE ~ Tree!C.record
      BY <3>3, <3>4, <3>6, <3>9
    <3> QED
      BY <3>8, <3>9
  <2> QED
    BY <2>1, <2>2
<1>3. Tree!C' = Tree!C
  BY <1>1 DEF Tree!C
<1>4. TreeTyped' /\ TreeOwned' /\ TreePublished'
  BY <1>1, <1>2 DEF TreeInv, TreeTyped, TreeOwned, TreePublished, Building
<1>5. TreeWhole'
  BY <1>1, <1>2, <1>3 DEF TreeInv, TreeWhole
<1> QED
  BY <1>1, <1>4, <1>5, PastKeeps DEF TreeInv

LEMMA PreserveStep ==
  ASSUME TreeInv, Tree!Preserve \/ Tree!AdoptedStays
  PROVE  TreeInv'
<1>1. at = "worked" /\ at' = "preserved" /\ case' = case /\ out \in Runs
  BY DEF Tree!Preserve, Tree!AdoptedStays, Tree!Goes, TreeInv, TreeTyped
<1>2. Tree!C' = Tree!C /\ (out.mode = "temp" => Tree!Keeps \in {"moved", "dropped"})
      /\ (out.mode # "temp" => Tree!Keeps \in {"captured", "inPlace"})
  BY <1>1 DEF Tree!C, Tree!Keeps
<1>3. /\ out.published = Tree!Empty /\ (out.mode # "temp" => ~ out.owned /\ out.exists)
      /\ out.mode = "temp" => out.owned /\ out.exists
      /\ Sound(out.tree["venv"]) /\ Sound(out.tree["node"])
      /\ out.mode # "adopt" => out.tree["app"] = "agent"
  BY <1>1 DEF TreeInv, TreeOwned, TreePublished, TreeWhole, Building
<1>4. "app" \in Tree!Paths /\ "credentials" \in Tree!Paths /\ Tree!Empty["app"] = "absent"
  BY PathsAre, EmptyIs
<1>5. /\ out' \in Runs /\ out'.mode = out.mode /\ out'.tree = out.tree /\ out'.exists = out.exists
      /\ \/ out'.published = Tree!Empty /\ out'.owned = out.owned
         \/ /\ out'.published["app"] = "agent"
            /\ Tree!Keeps = "captured" => out'.published["credentials"] = "absent"
            /\ out'.owned = FALSE
  <2>1. CASE out' = out
    BY <1>1, <1>3, <2>1
  <2>2. CASE out.mode # "adopt" /\ Tree!Keeps = "moved" /\ out' = [out EXCEPT !.published = out.tree, !.owned = FALSE]
    <3>1. out'.published = out.tree /\ out'.owned = FALSE
      BY <1>1, <2>2 DEF Runs
    <3>2. out' \in Runs /\ out'.mode = out.mode /\ out'.tree = out.tree /\ out'.exists = out.exists
      BY <1>1, <2>2 DEF Runs
    <3> QED
      BY <1>3, <2>2, <3>1, <3>2
  <2>3. CASE out.mode # "adopt" /\ Tree!Keeps = "captured" /\ out' = [out EXCEPT !.published = Tree!Captured(out.tree)]
    <3> DEFINE g == Tree!Captured(out.tree)
    <3>1. g = [p \in Tree!Paths |-> IF p \in Tree!Private \cup Tree!Noise THEN "absent" ELSE out.tree[p]]
      BY DEF Tree!Captured, Tree!Absent
    <3>2. g \in [Tree!Paths -> Texts] /\ g["app"] = "agent" /\ g["credentials"] = "absent"
      <4>1. out.tree \in [Tree!Paths -> Texts] /\ "absent" \in Texts
        BY <1>1 DEF Runs, Texts
      <4>2. g["app"] = out.tree["app"] /\ g["credentials"] = "absent"
        BY <1>4, <3>1, PathsAre
      <4> QED
        BY <1>3, <2>3, <3>1, <4>1, <4>2
    <3> HIDE DEF g
    <3>3. out' = [out EXCEPT !.published = g]
      BY <2>3 DEF g
    <3>4. out'.published = g /\ out'.owned = out.owned
      BY <1>1, <3>3 DEF Runs
    <3>5. out' \in Runs /\ out'.mode = out.mode /\ out'.tree = out.tree /\ out'.exists = out.exists
      BY <1>1, <3>2, <3>3 DEF Runs
    <3>6. out.owned = FALSE
      BY <1>1, <1>2, <1>3, <2>3 DEF Runs
    <3> QED
      BY <3>2, <3>4, <3>5, <3>6
  <2>4. CASE out.mode # "adopt" /\ Tree!Keeps = "inPlace" /\ out' = [out EXCEPT !.published = out.tree]
    <3>1. out'.published = out.tree /\ out'.owned = out.owned
      BY <1>1, <2>4 DEF Runs
    <3>2. out' \in Runs /\ out'.mode = out.mode /\ out'.tree = out.tree /\ out'.exists = out.exists
      BY <1>1, <2>4 DEF Runs
    <3>3. out.owned = FALSE
      BY <1>1, <1>2, <1>3, <2>4 DEF Runs
    <3> QED
      BY <1>3, <2>4, <3>1, <3>2, <3>3
  <2> QED
    BY <2>1, <2>2, <2>3, <2>4 DEF Tree!Preserve, Tree!AdoptedStays, Tree!Goes
<1>6. Tree!Keeps' = Tree!Keeps
  BY <1>2, <1>5 DEF Tree!Keeps
<1>7. TreeTyped'
  BY <1>1, <1>5 DEF TreeInv, TreeTyped
<1>8. TreeOwned' /\ TreePublished'
  BY <1>1, <1>3, <1>4, <1>5, <1>6 DEF TreeOwned, TreePublished, Building
<1>9. TreeWhole'
  BY <1>1, <1>2, <1>3, <1>5 DEF TreeInv, TreeWhole
<1> QED
  BY <1>1, <1>7, <1>8, <1>9, PastKeeps DEF TreeInv

LEMMA CleanupStep ==
  ASSUME TreeInv, Tree!Cleanup
  PROVE  TreeInv'
<1>1. at = "preserved" /\ at' = "ended" /\ case' = case /\ out' = Tree!Cleared(out) /\ out \in Runs
  BY DEF Tree!Cleanup, Tree!Goes, TreeInv, TreeTyped
<1>2. /\ out' \in Runs /\ out'.mode = out.mode /\ out'.owned = out.owned /\ out'.published = out.published
      /\ out'.exists = (out.exists /\ ~ out.owned)
      /\ \A p \in Tree!Paths : out'.tree[p] = IF out.owned THEN "absent" ELSE out.tree[p]
  BY <1>1, ClearedGives
<1>3. Tree!C' = Tree!C /\ Tree!Keeps' = Tree!Keeps
  BY <1>1, <1>2 DEF Tree!C, Tree!Keeps
<1>4. TreeTyped' /\ TreeOwned' /\ TreePublished'
  BY <1>1, <1>2, <1>3 DEF TreeInv, TreeTyped, TreeOwned, TreePublished, Building
<1>5. TreeWhole'
  <2>1. Sound(out.tree["venv"]) /\ Sound(out.tree["node"])
    BY <1>1 DEF TreeInv, TreeWhole
  <2>2. Sound(out'.tree["venv"]) /\ Sound(out'.tree["node"])
    BY <1>2, <2>1, PathsAre DEF Sound
  <2> QED
    BY <1>1, <2>2 DEF TreeWhole
<1> QED
  BY <1>1, <1>4, <1>5, PastKeeps DEF TreeInv

LEMMA UseAgainStep ==
  ASSUME TreeInv, Tree!UseAgain
  PROVE  TreeInv'
<1>1. out \in Runs /\ out.mode # "temp" /\ at' = "enter" /\ case' = case
  BY DEF Tree!UseAgain, Tree!Goes, TreeInv, TreeTyped
<1>2. PICK mode \in {"target", "adopt"} :
        /\ at = "ended" \/ (at = "failed" /\ mode = out.mode)
        /\ out' = [out EXCEPT !.mode = mode, !.source = 1, !.again = out.again + 1, !.executable = {}, !.published = Tree!Empty]
  BY DEF Tree!UseAgain, Tree!Goes
<1>3. /\ out' \in Runs /\ out'.mode = mode /\ out'.tree = out.tree /\ out'.owned = out.owned /\ out'.source = 1
      /\ out'.published = Tree!Empty
  <2>1. out.again + 1 \in Nat /\ mode \in Tree!Modes /\ Tree!Empty \in [Tree!Paths -> Texts]
    BY <1>1, EmptyIs DEF Runs, Tree!Modes
  <2>2. PICK n \in Nat, e \in [Tree!Paths -> Texts] :
          /\ e = Tree!Empty
          /\ out' = [out EXCEPT !.mode = mode, !.source = 1, !.again = n, !.executable = {}, !.published = e]
    BY <1>2, <2>1
  <2>3. out' \in Runs
    <3>1. out' = [mode |-> mode, tree |-> out.tree, executable |-> {}, source |-> 1, owned |-> out.owned,
                  exists |-> out.exists, published |-> e, again |-> n]
      BY <1>1, <2>2 DEF Runs
    <3>2. out.tree \in [Tree!Paths -> Texts] /\ out.owned \in BOOLEAN /\ out.exists \in BOOLEAN
      BY <1>1 DEF Runs
    <3> QED
      BY <2>1, <2>2, <3>1, <3>2 DEF Runs
  <2>4. out'.mode = mode /\ out'.tree = out.tree /\ out'.owned = out.owned /\ out'.source = 1 /\ out'.published = e
    BY <1>1, <2>2 DEF Runs
  <2> QED
    BY <2>2, <2>3, <2>4
<1>4. Tree!C' = Tree!C
  BY <1>1 DEF Tree!C
<1>5. TreeTyped' /\ TreeOwned' /\ TreePublished'
  BY <1>1, <1>2, <1>3 DEF TreeInv, TreeTyped, TreeOwned, TreePublished, Building
<1>6. TreeWhole'
  BY <1>1, <1>2, <1>3, <1>4 DEF TreeInv, TreeWhole
<1> QED
  BY <1>1, <1>5, <1>6, PastKeeps DEF TreeInv

\* What the directory promises follows from how it came to be.
LEMMA TreePromises ==
  ASSUME TreeInv
  PROVE  Tree!TreeAsPromised
<1>1. Tree!HandedOverWhole
  <2> SUFFICES ASSUME at = "ready" PROVE Tree!HandedOverWhole
    BY DEF Tree!HandedOverWhole
  <2>1. ASSUME out.mode # "adopt", NEW p \in Tree!Paths \ Tree!Recorder, Tree!Sourced(p) # {}
        PROVE  \E i \in Tree!Sourced(p) : out.tree[p] = SandboxFrom[i] /\ \A j \in Tree!Sourced(p) : j <= i
    BY <2>1 DEF TreeInv, TreeSourced, LastOf, Provided
  <2>2. ASSUME out.mode # "adopt", Tree!C.record
        PROVE  /\ {p \in Tree!Recorder : out.tree[p] = "stale" \/ out.tree[p] = "calls"} = {}
               /\ ~ (Tree!C.mocks /\ out.tree["mocks/uip"] # Tree!Absent)
               /\ out.tree[Tree!Shim] = "shim"
    BY <2>2, PathsAre DEF TreeInv, TreeRecorded, Provided, Tree!Absent, Tree!Shim
  <2>3. /\ Tree!OnPath(out.tree) \cap Tree!Present(out.tree) \subseteq out.executable
        /\ Tree!C.venv /\ (Tree!C.packages \/ out.mode # "adopt") => out.tree["venv"] = "whole"
        /\ Tree!C.node => out.tree["node"] = "whole"
    BY DEF TreeInv, TreeExecutable, TreeWhole
  <2> QED
    BY <2>1, <2>2, <2>3 DEF Tree!HandedOverWhole
<1>2. Tree!EndsAsOwned
  <2>1. \A p \in Tree!Private : p = "credentials"
    BY PathsAre
  <2> QED
    BY <2>1 DEF TreeInv, TreeOwned, TreePublished, Tree!EndsAsOwned, Tree!Absent
<1> QED
  BY <1>1, <1>2 DEF Tree!TreeAsPromised

\* The directory of a task is handed over as its configuration says and ends as
\* it is owned, whatever its sources, whichever step of the set-up fails, and
\* also when the caller's directory is used again (Sandbox.setup, adopt,
\* preserve_as, capture_as, cleanup).
THEOREM TreeStaysAsPromised == Tree!Spec => []TreeAsPromised
<1> USE RulesAssumption
<1>1. Tree!Init => TreeInv
  BY TreeStarts
<1>2. TreeInv /\ [Tree!Next]_(Tree!vars) => TreeInv'
  <2> SUFFICES ASSUME TreeInv, [Tree!Next]_(Tree!vars) PROVE TreeInv'
    OBVIOUS
  <2>1. CASE UNCHANGED Tree!vars
    <3>1. case' = case /\ at' = at /\ out' = out
      BY <2>1 DEF Tree!vars
    <3> QED
      BY <3>1 DEF TreeInv, TreeTyped, TreeOwned, TreePublished, TreeSourced, TreeRecorded, TreeExecutable, TreeWhole,
        LastOf, Before, Tree!Sourced, Tree!OnPath, Tree!Present, Tree!Keeps, Tree!C
  <2> QED
    BY <2>1, EnterStep, ApplySourceStep, TemplateDoneStep, GenerateRecordersStep, MarkExecutableStep, SetupVenvStep,
       InstallPackagesStep, InstallNodeStep, WorkStep, PreserveStep, CleanupStep, UseAgainStep DEF Tree!Next
<1>3. TreeInv => TreeAsPromised
  BY TreePromises DEF TreeAsPromised
<1> QED
  BY <1>1, <1>2, <1>3, PTL DEF Tree!Spec

-----------------------------------------------------------------------------
\* Induction over the subsets of a finite set, from the smaller to the larger.
LEMMA SubsetInduction ==
  ASSUME NEW S, IsFiniteSet(S), NEW T,
         \A A \in SUBSET S : (\A B \in SUBSET A : B # A => B \in T) => A \in T
  PROVE  SUBSET S \subseteq T
<1> SUFFICES ASSUME NEW X \in SUBSET S, X \notin T PROVE FALSE
  OBVIOUS
<1> DEFINE R == (SUBSET S) \ T
<1>1. R \subseteq FiniteSubsetsOf(S) /\ R # {}
  BY FS_FiniteSubsetsOfFinite
<1>w. IsWellFoundedOn(StrictSubsetOrdering(S), FiniteSubsetsOf(S))
  BY FS_StrictSubsetOrderingWellFounded
<1> HIDE DEF R
<1>2. PICK A \in R : \A y \in R : ~ (<<y, A>> \in StrictSubsetOrdering(S))
  BY <1>1, <1>w, WFMin
<1> USE DEF R
<1>3. \A B \in SUBSET A : B # A => B \in T
  <2> SUFFICES ASSUME NEW B \in SUBSET A, B # A, B \notin T PROVE FALSE
    OBVIOUS
  <2>1. B \in R
    BY <1>2
  <2>2. <<B, A>> \in StrictSubsetOrdering(S)
    BY <1>2 DEF StrictSubsetOrdering
  <2> QED BY <1>2, <2>1, <2>2
<1> QED BY <1>2, <1>3

\* Induction on a finite set, element by element; T holds the subsets that have
\* the property.
LEMMA FiniteSetInduction ==
  ASSUME NEW S, IsFiniteSet(S), NEW T, {} \in T,
         \A A \in SUBSET S : \A x \in S \ A : A \in T => A \cup {x} \in T
  PROVE  S \in T
<1>1. ASSUME NEW A \in SUBSET S, \A B \in SUBSET A : B # A => B \in T PROVE A \in T
  <2>1. CASE A = {}
    BY <2>1
  <2>2. CASE A # {}
    <3>1. PICK x : x \in A
      BY <2>2
    <3>2. A \ {x} \in T
      BY <3>1, <1>1
    <3>3. (A \ {x}) \cup {x} = A /\ A \ {x} \in SUBSET S /\ x \in S \ (A \ {x})
      BY <3>1
    <3> QED BY <3>2, <3>3
  <2> QED BY <2>1, <2>2
<1>2. SUBSET S \subseteq T
  BY <1>1, SubsetInduction
<1> QED BY <1>2

\* Induction on the natural numbers.
LEMMA NatInductionSet ==
  ASSUME NEW T, 0 \in T, \A n \in Nat : n \in T => n + 1 \in T
  PROVE  Nat \subseteq T
<1> SUFFICES ASSUME NEW n \in Nat, n \notin T PROVE FALSE
  OBVIOUS
<1> DEFINE G == {A \in SUBSET (0 .. n) : A # {} => \E i \in A : \A j \in A : i <= j}
<1>1. \A A \in SUBSET (0 .. n) : A \in G
  <2> TAKE A \in SUBSET (0 .. n)
  <2>0. IsFiniteSet(0 .. n)
    <3>1. 0 \in Int /\ n \in Int
      OBVIOUS
    <3> QED BY <3>1, FS_Interval
  <2>1. IsFiniteSet(A)
    BY <2>0, FS_Subset
  <2>2. {} \in G
    OBVIOUS
  <2>3. ASSUME NEW X \in SUBSET A, NEW x \in A \ X, X \in G PROVE X \cup {x} \in G
    <3>1. CASE X = {}
      BY <3>1
    <3>2. CASE X # {}
      <4>1. PICK i \in X : \A j \in X : i <= j
        BY <2>3, <3>2
      <4>2. CASE i <= x
        BY <4>1, <4>2
      <4>3. CASE x < i
        BY <4>1, <4>3
      <4> QED BY <4>2, <4>3
    <3> QED BY <3>1, <3>2
  <2> HIDE DEF G
  <2> QED BY <2>1, <2>2, <2>3, FiniteSetInduction
<1>2. {k \in 0 .. n : k \notin T} \in G
  BY <1>1
<1>3. PICK m \in 0 .. n : m \notin T /\ \A k \in 0 .. n : k \notin T => m <= k
  BY <1>2
<1>4. m # 0 /\ m - 1 \in Nat /\ m - 1 \notin T
  BY <1>3
<1> QED BY <1>3, <1>4

-----------------------------------------------------------------------------
Pick(s)        == CHOOSE x \in s : TRUE
IsSum(g, f, S) == g = [s \in SUBSET S |-> IF s = {} THEN 0 ELSE f[Pick(s)] + g[s \ {Pick(s)}]]
SumFn(f, S)    == CHOOSE g : IsSum(g, f, S)
Sum(f, S)      == FoldFunctionOnSet(+, 0, f, S)

LEMMA PickIn == ASSUME NEW s, s # {} PROVE Pick(s) \in s
  BY DEF Pick

LEMMA SumIsSumFn == ASSUME NEW f, NEW S PROVE Sum(f, S) = SumFn(f, S)[S]
  BY DEF Sum, SumFn, IsSum, Pick, FoldFunctionOnSet, MapThenFoldSet

LEMMA IsSumAt ==
  ASSUME NEW f, NEW S, NEW g, IsSum(g, f, S), NEW s \in SUBSET S
  PROVE  g[s] = IF s = {} THEN 0 ELSE f[Pick(s)] + g[s \ {Pick(s)}]
  BY DEF IsSum

LEMMA IsSumAgree ==
  ASSUME NEW f, NEW A, NEW B, IsFiniteSet(A), NEW g, NEW h, IsSum(g, f, A), IsSum(h, f, B),
         NEW s \in SUBSET A, s \in SUBSET B
  PROVE  g[s] = h[s]
<1> DEFINE T == {t \in SUBSET s : g[t] = h[t]}
<1>1. IsFiniteSet(s)
  BY FS_Subset
<1>2. ASSUME NEW t \in SUBSET s, \A u \in SUBSET t : u # t => u \in T PROVE t \in T
  <2>1. g[t] = (IF t = {} THEN 0 ELSE f[Pick(t)] + g[t \ {Pick(t)}])
    BY IsSumAt
  <2>2. h[t] = (IF t = {} THEN 0 ELSE f[Pick(t)] + h[t \ {Pick(t)}])
    BY IsSumAt
  <2>3. t # {} => t \ {Pick(t)} \in T
    BY <1>2, PickIn
  <2> QED BY <2>1, <2>2, <2>3
<1> HIDE DEF T
<1>3. s \in T
  BY <1>1, <1>2, SubsetInduction
<1> QED BY <1>3 DEF T

LEMMA IsSumExists ==
  ASSUME NEW f, NEW S, IsFiniteSet(S)
  PROVE  IsSum(SumFn(f, S), f, S)
<1> DEFINE T == {A \in SUBSET S : IsSum(SumFn(f, A), f, A)}
<1>1. ASSUME NEW A \in SUBSET S, \A B \in SUBSET A : B # A => B \in T PROVE A \in T
  <2> DEFINE F == [s \in SUBSET A |-> IF s = {} THEN 0 ELSE f[Pick(s)] + SumFn(f, s \ {Pick(s)})[s \ {Pick(s)}]]
  <2>1. ASSUME NEW s \in SUBSET A, s # {} PROVE F[s \ {Pick(s)}] = SumFn(f, s \ {Pick(s)})[s \ {Pick(s)}]
    <3> DEFINE w == s \ {Pick(s)}
    <3>1. w \in SUBSET A /\ w # A /\ IsFiniteSet(w)
      BY <2>1, PickIn, FS_Subset
    <3>2. IsSum(SumFn(f, w), f, w)
      BY <1>1, <3>1
    <3> HIDE DEF w
    <3>3. CASE w = {}
      <4>1. F[w] = 0
        BY <3>1, <3>3
      <4>2. SumFn(f, w)[w] = 0
        BY <3>2, <3>3, IsSumAt
      <4> QED BY <4>1, <4>2 DEF w
    <3>4. CASE w # {}
      <4> DEFINE v == w \ {Pick(w)}
      <4>1. F[w] = f[Pick(w)] + SumFn(f, v)[v]
        BY <3>1, <3>4
      <4>2. SumFn(f, w)[w] = f[Pick(w)] + SumFn(f, w)[v]
        BY <3>2, <3>4, IsSumAt
      <4>3. v \in SUBSET w /\ v \in SUBSET A /\ v # A
        BY <3>1, <3>4, PickIn
      <4>4. IsSum(SumFn(f, v), f, v)
        BY <4>3, <1>1
      <4> HIDE DEF v
      <4>5. SumFn(f, w)[v] = SumFn(f, v)[v]
        BY <4>3, <4>4, <3>1, <3>2, IsSumAgree
      <4> QED BY <4>1, <4>2, <4>5 DEF w
    <3> QED BY <3>3, <3>4
  <2>2. IsSum(F, f, A)
    <3>1. F = [s \in SUBSET A |-> IF s = {} THEN 0 ELSE f[Pick(s)] + F[s \ {Pick(s)}]]
      BY <2>1
    <3> QED BY <3>1 DEF IsSum
  <2> HIDE DEF F
  <2>3. IsSum(SumFn(f, A), f, A)
    BY <2>2 DEF SumFn
  <2> QED BY <2>3
<1> HIDE DEF T
<1>2. S \in T
  BY <1>1, SubsetInduction
<1> QED BY <1>2 DEF T

\* A sum over a finite set is nothing over the empty one, and the chosen element
\* more than the rest.
LEMMA SumStep ==
  ASSUME NEW f, NEW S, IsFiniteSet(S)
  PROVE  Sum(f, S) = IF S = {} THEN 0 ELSE f[Pick(S)] + Sum(f, S \ {Pick(S)})
<1>1. IsSum(SumFn(f, S), f, S)
  BY IsSumExists
<1>2. SumFn(f, S)[S] = IF S = {} THEN 0 ELSE f[Pick(S)] + SumFn(f, S)[S \ {Pick(S)}]
  BY <1>1, IsSumAt
<1>3. CASE S # {}
  <2> DEFINE w == S \ {Pick(S)}
  <2>1. w \in SUBSET S /\ IsFiniteSet(w)
    BY FS_Subset
  <2>2. IsSum(SumFn(f, w), f, w)
    BY <2>1, IsSumExists
  <2> HIDE DEF w
  <2>3. SumFn(f, S)[w] = SumFn(f, w)[w]
    BY <1>1, <2>1, <2>2, IsSumAgree
  <2> QED BY <1>2, <1>3, <2>3, SumIsSumFn DEF w
<1>4. CASE S = {}
  BY <1>2, <1>4, SumIsSumFn
<1> QED BY <1>3, <1>4

LEMMA SumEmpty == ASSUME NEW f PROVE Sum(f, {}) = 0
  BY SumStep, FS_EmptySet

LEMMA SumInt ==
  ASSUME NEW f, NEW S, IsFiniteSet(S), \A x \in S : f[x] \in Int
  PROVE  Sum(f, S) \in Int
<1> DEFINE T == {A \in SUBSET S : Sum(f, A) \in Int}
<1>1. ASSUME NEW A \in SUBSET S, \A B \in SUBSET A : B # A => B \in T PROVE A \in T
  <2>1. Sum(f, A) = IF A = {} THEN 0 ELSE f[Pick(A)] + Sum(f, A \ {Pick(A)})
    BY FS_Subset, SumStep
  <2>2. A # {} => Pick(A) \in S /\ A \ {Pick(A)} \in T
    BY <1>1, PickIn
  <2> QED BY <2>1, <2>2
<1> HIDE DEF T
<1>2. S \in T
  BY <1>1, SubsetInduction
<1> QED BY <1>2 DEF T

\* It does not matter which element is taken out.
LEMMA SumAny ==
  ASSUME NEW f, NEW S, IsFiniteSet(S), \A x \in S : f[x] \in Int, NEW x \in S
  PROVE  Sum(f, S) = f[x] + Sum(f, S \ {x})
<1> DEFINE T == {A \in SUBSET S : \A y \in A : Sum(f, A) = f[y] + Sum(f, A \ {y})}
<1>1. ASSUME NEW A \in SUBSET S, \A B \in SUBSET A : B # A => B \in T PROVE A \in T
  <2> SUFFICES ASSUME NEW y \in A PROVE Sum(f, A) = f[y] + Sum(f, A \ {y})
    OBVIOUS
  <2> DEFINE p == Pick(A)
  <2>1. p \in A
    BY PickIn
  <2>2. Sum(f, A) = f[p] + Sum(f, A \ {p})
    BY FS_Subset, SumStep
  <2> HIDE DEF p
  <2>3. CASE y = p
    BY <2>2, <2>3
  <2>4. CASE y # p
    <3>1. A \ {p} \in T /\ A \ {y} \in T /\ y \in A \ {p} /\ p \in A \ {y}
      BY <1>1, <2>1, <2>4
    <3>2. Sum(f, A \ {p}) = f[y] + Sum(f, (A \ {p}) \ {y})
      BY <3>1
    <3>3. Sum(f, A \ {y}) = f[p] + Sum(f, (A \ {y}) \ {p})
      BY <3>1
    <3>4. (A \ {p}) \ {y} = (A \ {y}) \ {p} 
      OBVIOUS
    <3>5. Sum(f, (A \ {y}) \ {p}) \in Int
      <4>1. (A \ {y}) \ {p} \in SUBSET S
        OBVIOUS
      <4> QED BY <4>1, FS_Subset, SumInt
    <3>6. f[y] \in Int /\ f[p] \in Int
      BY <2>1
    <3> DEFINE rest == Sum(f, (A \ {y}) \ {p})
    <3> HIDE DEF T
    <3>7. Sum(f, A \ {p}) = f[y] + rest /\ Sum(f, A \ {y}) = f[p] + rest /\ rest \in Int
      BY <3>2, <3>3, <3>4, <3>5
    <3> HIDE DEF rest
    <3> QED BY <2>2, <3>6, <3>7
  <2> QED BY <2>3, <2>4
<1> HIDE DEF T
<1>2. S \in T
  BY <1>1, SubsetInduction
<1> QED BY <1>2 DEF T

\* One element more.
LEMMA SumAdd ==
  ASSUME NEW f, NEW S, IsFiniteSet(S), NEW x, x \notin S, \A y \in S \cup {x} : f[y] \in Int
  PROVE  Sum(f, S \cup {x}) = Sum(f, S) + f[x]
<1>1. IsFiniteSet(S \cup {x}) /\ (S \cup {x}) \ {x} = S
  BY FS_AddElement
<1>2. Sum(f, S \cup {x}) = f[x] + Sum(f, S)
  BY <1>1, SumAny
<1>3. Sum(f, S) \in Int /\ f[x] \in Int
  BY SumInt
<1> QED BY <1>2, <1>3

\* The values on the set are all that counts.
LEMMA SumSame ==
  ASSUME NEW f, NEW g, NEW S, IsFiniteSet(S), \A x \in S : f[x] = g[x]
  PROVE  Sum(f, S) = Sum(g, S)
<1> DEFINE T == {A \in SUBSET S : Sum(f, A) = Sum(g, A)}
<1>1. ASSUME NEW A \in SUBSET S, \A B \in SUBSET A : B # A => B \in T PROVE A \in T
  <2>1. Sum(f, A) = IF A = {} THEN 0 ELSE f[Pick(A)] + Sum(f, A \ {Pick(A)})
    BY FS_Subset, SumStep
  <2>2. Sum(g, A) = IF A = {} THEN 0 ELSE g[Pick(A)] + Sum(g, A \ {Pick(A)})
    BY FS_Subset, SumStep
  <2>3. A # {} => Pick(A) \in S /\ A \ {Pick(A)} \in T
    BY <1>1, PickIn
  <2> QED BY <2>1, <2>2, <2>3
<1> HIDE DEF T
<1>2. S \in T
  BY <1>1, SubsetInduction
<1> QED BY <1>2 DEF T

\* Two sets that share nothing.
LEMMA SumUnion ==
  ASSUME NEW f, NEW S, NEW U, IsFiniteSet(S), IsFiniteSet(U), S \cap U = {},
         \A x \in S \cup U : f[x] \in Int
  PROVE  Sum(f, S \cup U) = Sum(f, S) + Sum(f, U)
<1> DEFINE T == {A \in SUBSET U : Sum(f, S \cup A) = Sum(f, S) + Sum(f, A)}
<1>1. {} \in T
  <2>1. Sum(f, S) \in Int
    BY SumInt
  <2>2. S \cup {} = S
    OBVIOUS
  <2> QED BY <2>1, <2>2, SumEmpty
<1>2. ASSUME NEW A \in SUBSET U, NEW x \in U \ A, A \in T PROVE A \cup {x} \in T
  <2>1. IsFiniteSet(A) /\ IsFiniteSet(S \cup A) /\ x \notin S \cup A
    BY FS_Subset, FS_Union
  <2>2. Sum(f, A \cup {x}) = Sum(f, A) + f[x]
    BY <2>1, SumAdd
  <2>3. Sum(f, (S \cup A) \cup {x}) = Sum(f, S \cup A) + f[x]
    BY <2>1, SumAdd
  <2>4. (S \cup A) \cup {x} = S \cup (A \cup {x})
    OBVIOUS
  <2>5. Sum(f, S) \in Int /\ Sum(f, A) \in Int /\ f[x] \in Int
    BY <2>1, SumInt
  <2>6. Sum(f, S \cup A) = Sum(f, S) + Sum(f, A)
    BY <1>2
  <2>7. Sum(f, S \cup (A \cup {x})) = Sum(f, S) + Sum(f, A \cup {x})
    <3> DEFINE s == Sum(f, S)  a == Sum(f, A)  v == f[x]
    <3>1. Sum(f, S \cup (A \cup {x})) = (s + a) + v /\ Sum(f, A \cup {x}) = a + v
      BY <2>2, <2>3, <2>4, <2>6
    <3>2. s \in Int /\ a \in Int /\ v \in Int
      BY <2>5
    <3> HIDE DEF s, a, v
    <3>3. (s + a) + v = s + (a + v)
      BY <3>2
    <3> QED BY <3>1, <3>3 DEF s
  <2>8. A \cup {x} \in SUBSET U
    BY <1>2
  <2> QED BY <2>7, <2>8
<1> HIDE DEF T
<1>3. U \in T
  BY <1>1, <1>2, FiniteSetInduction
<1> QED BY <1>3 DEF T

\* What is nowhere less sums to no less.
LEMMA SumMonotone ==
  ASSUME NEW f, NEW g, NEW S, IsFiniteSet(S), \A x \in S : f[x] \in Int /\ g[x] \in Int /\ f[x] <= g[x]
  PROVE  Sum(f, S) <= Sum(g, S)
<1> DEFINE T == {A \in SUBSET S : Sum(f, A) <= Sum(g, A)}
<1>1. {} \in T
  BY SumEmpty
<1>2. ASSUME NEW A \in SUBSET S, NEW x \in S \ A, A \in T PROVE A \cup {x} \in T
  <2>1. IsFiniteSet(A)
    BY FS_Subset
  <2>2. Sum(f, A \cup {x}) = Sum(f, A) + f[x]
    BY <2>1, SumAdd
  <2>3. Sum(g, A \cup {x}) = Sum(g, A) + g[x]
    BY <2>1, SumAdd
  <2>4. Sum(f, A) \in Int /\ Sum(g, A) \in Int
    BY <2>1, SumInt
  <2> QED BY <1>2, <2>2, <2>3, <2>4
<1> HIDE DEF T
<1>3. S \in T
  BY <1>1, <1>2, FiniteSetInduction
<1> QED BY <1>3 DEF T

\* A part of what is nowhere negative sums to no more than the whole, and to less
\* when what is left out weighs anything.
LEMMA SumSubset ==
  ASSUME NEW f, NEW S, IsFiniteSet(S), \A x \in S : f[x] \in Nat, NEW U \in SUBSET S
  PROVE  /\ Sum(f, U) \in Nat /\ Sum(f, S) \in Nat /\ Sum(f, U) <= Sum(f, S)
         /\ (\E x \in S \ U : f[x] > 0) => Sum(f, U) < Sum(f, S)
<1> DEFINE T == {A \in SUBSET S : Sum(f, A) \in Nat /\ ((\E x \in A : f[x] > 0) => Sum(f, A) > 0)}
<1>1. {} \in T
  BY SumEmpty
<1>2. ASSUME NEW A \in SUBSET S, NEW x \in S \ A, A \in T PROVE A \cup {x} \in T
  <2>1. Sum(f, A \cup {x}) = Sum(f, A) + f[x]
    <3>1. \A y \in A \cup {x} : f[y] \in Int
      OBVIOUS
    <3> QED BY <3>1, FS_Subset, SumAdd
  <2>2. Sum(f, A) \in Nat /\ f[x] \in Nat /\ A \cup {x} \in SUBSET S
    BY <1>2
  <2>3. Sum(f, A \cup {x}) \in Nat
    BY <2>1, <2>2
  <2>4. ASSUME NEW y \in A \cup {x}, f[y] > 0 PROVE Sum(f, A \cup {x}) > 0
    <3>1. CASE y = x
      BY <2>1, <2>2, <2>4, <3>1
    <3>2. CASE y \in A
      <4>1. Sum(f, A) > 0
        BY <1>2, <2>4, <3>2
      <4> QED BY <2>1, <2>2, <4>1
    <3> QED BY <3>1, <3>2
  <2> QED BY <2>2, <2>3, <2>4
<1>3. \A A \in SUBSET S : A \in T
  <2> TAKE A \in SUBSET S
  <2>1. IsFiniteSet(A)
    BY FS_Subset
  <2>2. \A X \in SUBSET A : \A x \in A \ X : X \in T => X \cup {x} \in T
    BY <1>2
  <2> HIDE DEF T
  <2> QED BY <1>1, <2>1, <2>2, FiniteSetInduction
<1> DEFINE R == S \ U
<1>4. Sum(f, S) = Sum(f, U) + Sum(f, R)
  <2>1. U \cup R = S /\ U \cap R = {} /\ IsFiniteSet(U) /\ IsFiniteSet(R)
    BY FS_Subset
  <2>2. \A x \in U \cup R : f[x] \in Int
    OBVIOUS
  <2> HIDE DEF R
  <2> QED BY <2>1, <2>2, SumUnion
<1>5. Sum(f, U) \in Nat /\ Sum(f, S) \in Nat /\ Sum(f, R) \in Nat /\ ((\E x \in R : f[x] > 0) => Sum(f, R) > 0)
  BY <1>3
<1> HIDE DEF T
<1> QED BY <1>4, <1>5

\* Nothing anywhere sums to nothing.
LEMMA SumZero ==
  ASSUME NEW f, NEW S, IsFiniteSet(S), \A x \in S : f[x] = 0
  PROVE  Sum(f, S) = 0
<1> DEFINE T == {A \in SUBSET S : Sum(f, A) = 0}
<1>1. {} \in T
  BY SumEmpty
<1>2. ASSUME NEW A \in SUBSET S, NEW x \in S \ A, A \in T PROVE A \cup {x} \in T
  <2>1. IsFiniteSet(A) /\ f[x] = 0 /\ Sum(f, A) = 0
    BY <1>2, FS_Subset
  <2>2. \A y \in A \cup {x} : f[y] \in Int
    <3>1. \A y \in A \cup {x} : f[y] = 0
      BY <1>2
    <3> QED BY <3>1
  <2>3. x \notin A
    BY <1>2
  <2>4. Sum(f, A \cup {x}) = Sum(f, A) + f[x]
    BY <2>1, <2>2, <2>3, SumAdd
  <2>5. A \cup {x} \in SUBSET S
    BY <1>2
  <2>6. Sum(f, A \cup {x}) = 0
    BY <2>1, <2>4
  <2> QED BY <2>5, <2>6
<1> HIDE DEF T
<1>3. S \in T
  BY <1>1, <1>2, FiniteSetInduction
<1> QED BY <1>3 DEF T

\* What is nowhere more than m sums to no more than m times the number of
\* elements, and to that only if it is m everywhere.
LEMMA SumAtMost ==
  ASSUME NEW f, NEW S, IsFiniteSet(S), NEW m \in Nat, \A x \in S : f[x] \in 0 .. m
  PROVE  /\ Sum(f, S) \in Nat /\ Cardinality(S) \in Nat /\ Sum(f, S) <= m * Cardinality(S)
         /\ Sum(f, S) = m * Cardinality(S) <=> \A x \in S : f[x] = m
<1> DEFINE T == {A \in SUBSET S : /\ Sum(f, A) \in Nat /\ Cardinality(A) \in Nat /\ Sum(f, A) <= m * Cardinality(A)
                                  /\ Sum(f, A) = m * Cardinality(A) <=> \A x \in A : f[x] = m}
<1>1. {} \in T
  <2>1. Cardinality({}) = 0 /\ Sum(f, {}) = 0
    BY SumEmpty, FS_EmptySet
  <2> QED BY <2>1
<1>2. ASSUME NEW A \in SUBSET S, NEW x \in S \ A, A \in T PROVE A \cup {x} \in T
  <2>1. IsFiniteSet(A) /\ x \notin A
    BY FS_Subset
  <2>2. \A y \in A \cup {x} : f[y] \in Int
    OBVIOUS
  <2>3. Sum(f, A \cup {x}) = Sum(f, A) + f[x]
    BY <2>1, <2>2, SumAdd
  <2>4. Cardinality(A \cup {x}) = Cardinality(A) + 1
    BY <2>1, FS_AddElement
  <2> DEFINE s == Sum(f, A)  n == Cardinality(A)
  <2>5. s \in Nat /\ n \in Nat /\ s <= m * n /\ (s = m * n <=> \A y \in A : f[y] = m)
    BY <1>2
  <2>6. m * (n + 1) = m * n + m /\ m * n \in Nat
    BY <2>5
  <2> HIDE DEF s, n, T
  <2>7. f[x] \in Nat /\ f[x] <= m
    OBVIOUS
  <2>8. s + f[x] \in Nat /\ n + 1 \in Nat /\ s + f[x] <= m * (n + 1)
        /\ (s + f[x] = m * (n + 1) <=> s = m * n /\ f[x] = m)
    <3> DEFINE mn == m * n
    <3> HIDE DEF mn
    <3>1. mn \in Nat /\ s \in Nat /\ s <= mn /\ m * (n + 1) = mn + m
      BY <2>5, <2>6 DEF mn
    <3> QED BY <2>5, <2>7, <3>1 DEF mn
  <2>9. (\A y \in A \cup {x} : f[y] = m) <=> (\A y \in A : f[y] = m) /\ f[x] = m
    OBVIOUS
  <2>10. Sum(f, A \cup {x}) = s + f[x] /\ Cardinality(A \cup {x}) = n + 1 /\ A \cup {x} \in SUBSET S
    BY <2>3, <2>4 DEF s, n
  <2> QED BY <2>5, <2>8, <2>9, <2>10 DEF T
<1> HIDE DEF T
<1>3. S \in T
  BY <1>1, <1>2, FiniteSetInduction
<1> QED BY <1>3 DEF T

\* Whole numbers divided, and what a share of m comes to.
LEMMA Division ==
  ASSUME NEW a \in Nat, NEW n \in Nat \ {0}
  PROVE  (a \div n) \in Nat /\ n * (a \div n) <= a /\ a < n * (a \div n) + n
  OBVIOUS

LEMMA FullShare ==
  ASSUME NEW m \in Nat, NEW a \in Nat, NEW n \in Nat \ {0}, a <= m * n
  PROVE  /\ (a \div n) \in 0 .. m
         /\ (a \div n) = m <=> a = m * n
<1> DEFINE q == a \div n
<1>1. q \in Nat /\ n * q <= a /\ a < n * q + n
  BY Division
<1> HIDE DEF q
<1>2. q <= m
  <2> SUFFICES ASSUME q >= m + 1 PROVE FALSE
    BY <1>1
  <2>1. n * q >= n * (m + 1)
    BY <1>1
  <2>2. n * (m + 1) = m * n + n
    OBVIOUS
  <2>3. m * n \in Nat /\ n * q \in Nat
    BY <1>1
  <2> QED BY <1>1, <2>1, <2>2, <2>3
<1>3. ASSUME q = m PROVE a = m * n
  BY <1>1, <1>3
<1>4. ASSUME a = m * n PROVE q = m
  <2> SUFFICES ASSUME q + 1 <= m PROVE FALSE
    BY <1>1, <1>2
  <2>1. n * (q + 1) <= n * m
    BY <1>1
  <2>2. n * (q + 1) = n * q + n /\ n * m = m * n /\ n * q \in Nat /\ m * n \in Nat
    BY <1>1
  <2> QED BY <1>1, <1>4, <2>1, <2>2
<1> QED BY <1>1, <1>2, <1>3, <1>4 DEF q

-----------------------------------------------------------------------------
\* A latched timeout is latched as a failure.
ExpiredFails == \A c \in Armed : expired[c] => latched[c] = "fail"

\* Why the gate of a run that was cut for failures without a timeout is lost:
\* what failed goes on failing, and the rest does not reach it.
FailsForGood ==
  info.reason \in {"criterion_failed", "decision_budget_exceeded"} /\ info.timed = {} =>
    \E F \in SUBSET Armed :
      /\ ~ Reaches(Armed \ F, Armed)
      /\ \A c \in F : LiveVerdict(c, calls, DOMAIN calls) = "fail"

WatchInv == WatchTyped /\ SeenAllEnded /\ LatchFaithful /\ ExpiredFails /\ FailsForGood /\ gate \in Gates

\* The worth of a part of the criteria is no more than that of the whole, and
\* less if anything is left out: every weight is positive.
LEMMA WorthGrows ==
  ASSUME NEW U \in SUBSET Armed, NEW S \in SUBSET U
  PROVE  /\ Worth(S) \in Nat /\ Worth(U) \in Nat /\ Worth(S) <= Worth(U)
         /\ S # U => Worth(S) < Worth(U)
<1>1. IsFiniteSet(U) /\ \A c \in U : Weight[c] \in Nat /\ Weight[c] > 0
  BY ConfigAssumption, FS_Subset
<1>2. Worth(S) = Sum(Weight, S) /\ Worth(U) = Sum(Weight, U)
  BY DEF Worth, Sum
<1>3. S # U => \E c \in U \ S : Weight[c] > 0
  BY <1>1
<1> QED BY <1>1, <1>2, <1>3, SumSubset

\* Under the default threshold nothing may be left out.
LEMMA AllReached ==
  ASSUME gate = 100, NEW U \in SUBSET Armed, NEW S \in SUBSET U
  PROVE  Reaches(S, U) <=> S = U
<1>1. Reaches(S, U) <=> 100 * Worth(S) >= 100 * Worth(U)
  BY DEF Reaches
<1> QED BY <1>1, WorthGrows

\* A part that reaches the gate takes what it belongs to with it.
LEMMA ReachGrows ==
  ASSUME gate \in Nat, NEW U \in SUBSET Armed, NEW S \in SUBSET U, Reaches(S, Armed)
  PROVE  Reaches(U, Armed)
<1> DEFINE g == gate * Worth(Armed)
<1>1. Worth(S) \in Nat /\ Worth(U) \in Nat /\ Worth(Armed) \in Nat /\ Worth(S) <= Worth(U)
  BY WorthGrows
<1>2. g \in Nat
  BY <1>1
<1>3. 100 * Worth(S) >= g
  BY DEF Reaches
<1>4. Reaches(U, Armed) <=> 100 * Worth(U) >= g
  BY DEF Reaches
<1> HIDE DEF g
<1> QED BY <1>1, <1>2, <1>3, <1>4

\* A criterion that has failed for all calls does not meet its demand.
LEMMA FailedIsUnmet ==
  ASSUME NEW c \in Armed, NEW cs, LiveVerdict(c, cs, DOMAIN cs) = "fail", MatchCount(c, cs, DOMAIN cs) \in Nat
  PROVE  ~ Met(c, cs)
<1>1. CanFail(c) /\ MatchCount(c, cs, DOMAIN cs) > MaxCount[c]
  BY DEF LiveVerdict
<1>2. MaxCount[c] \in Nat /\ MaxCount[c] # NoLimit
  BY <1>1, ConfigAssumption DEF CanFail
<1> QED BY <1>1, <1>2 DEF Met

LEMMA GateIsLost ==
  ASSUME WatchInv
  PROVE  NativeFailStopFinal
<1> SUFFICES ASSUME info.reason \in {"criterion_failed", "decision_budget_exceeded"}, info.timed = {}, ArmedGate(calls)
             PROVE  FALSE
  BY DEF NativeFailStopFinal
<1>1. PICK F \in SUBSET Armed :
        /\ ~ Reaches(Armed \ F, Armed)
        /\ \A c \in F : LiveVerdict(c, calls, DOMAIN calls) = "fail"
  BY DEF WatchInv, FailsForGood
<1> DEFINE M == {c \in Armed : Met(c, calls)}
<1>2. \A c \in F : ~ Met(c, calls)
  <2> TAKE c \in F
  <2>1. MatchCount(c, calls, DOMAIN calls) \in Nat
    BY CountGrows DEF WatchInv, WatchTyped, Continues
  <2> QED BY <1>1, <2>1, FailedIsUnmet
<1>3. M \in SUBSET (Armed \ F) /\ Reaches(M, Armed)
  BY <1>2 DEF ArmedGate
<1>4. gate \in Nat
  BY ConfigAssumption DEF WatchInv
<1> HIDE DEF M
<1> QED BY <1>1, <1>3, <1>4, ReachGrows

\* What a round collects of a criterion holds of all calls, as they are
\* afterwards, unless it is a timeout.
LEMMA CollectedIsTrue ==
  ASSUME WatchTyped, LatchFaithful, ExpiredFails, NEW cs \in Seq(Call), Continues(calls, cs),
         NEW S \in SUBSET DOMAIN cs, NEW n, NEW c \in Armed,
         CollectVerdicts(cs, S, n)[c] # "undecided", ~ expired[c], ~ RunsOut(c, cs, S, n)
  PROVE  LiveVerdict(c, cs, DOMAIN cs) = CollectVerdicts(cs, S, n)[c]
<1> DEFINE v == CollectVerdicts(cs, S, n)[c]
<1>1. v = IF ~ Fresh(c) THEN latched[c] ELSE LiveVerdict(c, cs, S)
  BY DEF CollectVerdicts
<1>2. CASE ~ Fresh(c)
  <2>1. LiveVerdict(c, calls, DOMAIN calls) = latched[c] /\ latched[c] # "undecided"
    BY <1>2 DEF LatchFaithful, Fresh
  <2>2. DOMAIN calls \subseteq DOMAIN cs
    BY DEF Continues
  <2> QED BY <1>1, <1>2, <2>1, <2>2, VerdictStable
<1>3. CASE Fresh(c)
  <2>1. LiveVerdict(c, cs, S) = v /\ v # "undecided"
    BY <1>1, <1>3
  <2>2. Continues(cs, cs)
    BY DEF Continues
  <2> HIDE DEF v
  <2>3. LiveVerdict(c, cs, DOMAIN cs) = v
    BY <2>1, <2>2, VerdictStable
  <2> QED BY <2>3 DEF v
<1> QED BY <1>2, <1>3

\* A pass-stop over all calls ends a run the gate passes.
LEMMA PassStopIsWhole ==
  ASSUME WatchInv, gate = 100, \A c \in Armed : CanFail(c) => MinCount[c] = 0,
         NEW cs \in Seq(Call), Continues(calls, cs), NEW n,
         PassStop(CollectVerdicts(cs, DOMAIN cs, n)), ~ FailStop(CollectVerdicts(cs, DOMAIN cs, n))
  PROVE  ArmedGate(cs)
<1> DEFINE v == CollectVerdicts(cs, DOMAIN cs, n)
<1> USE DEF WatchInv
<1>1. \A c \in Armed : v[c] = IF ~ Fresh(c) THEN latched[c]
                              ELSE IF RunsOut(c, cs, DOMAIN cs, n) THEN "fail"
                              ELSE LiveVerdict(c, cs, DOMAIN cs)
  BY DEF CollectVerdicts
<1>2. \A c \in Armed : v[c] \in {"undecided", "pass", "fail"}
  BY <1>1 DEF WatchTyped, Verdicts, LiveVerdict
<1>3. \A c \in Armed : v[c] # "undecided" /\ v[c] # "fail" => LiveVerdict(c, cs, DOMAIN cs) = v[c]
  <2> SUFFICES ASSUME NEW c \in Armed, v[c] # "undecided", v[c] # "fail" PROVE LiveVerdict(c, cs, DOMAIN cs) = v[c]
    OBVIOUS
  <2>1. ~ expired[c]
    <3>1. expired[c] => latched[c] = "fail"
      BY DEF ExpiredFails
    <3> QED BY <1>1, <3>1 DEF Fresh
  <2>2. ~ RunsOut(c, cs, DOMAIN cs, n)
    BY <1>1 DEF RunsOut, Fresh
  <2> QED BY <2>1, <2>2, CollectedIsTrue
<1>4. \A c \in Armed : Fresh(c) /\ v[c] = "undecided" => LiveVerdict(c, cs, DOMAIN cs) = "undecided"
  BY <1>1
<1>5. \A c \in Armed : ~ Fresh(c) => v[c] # "undecided"
  BY <1>1 DEF Fresh
<1> HIDE DEF v
<1>6. PassStop(v) /\ ~ FailStop(v)
  BY DEF v
<1>7. {c \in PassTriggers : v[c] = "pass"} = PassTriggers
  <2>1. PassTriggers \in SUBSET Armed
    BY ConfigAssumption DEF PassTriggers
  <2>2. Reaches({c \in PassTriggers : v[c] = "pass"}, PassTriggers)
    BY <1>6 DEF PassStop
  <2> QED BY <2>1, <2>2, AllReached
<1>8. Undecided(v) = {}
  BY <1>6, <1>7 DEF PassStop, Undecided
<1>9. Failed(v) = {}
  <2>1. Failed(v) # {} => Reaches(Armed \ Failed(v), Armed)
    BY <1>6, <1>8 DEF FailStop
  <2>2. Failed(v) \in SUBSET Armed
    BY DEF Failed
  <2>3. Reaches(Armed \ Failed(v), Armed) => Armed \ Failed(v) = Armed
    BY AllReached
  <2> QED BY <2>1, <2>2, <2>3
<1>10. ASSUME NEW c \in Armed PROVE Met(c, cs)
  <2> DEFINE m == MatchCount(c, cs, DOMAIN cs)
  <2>0. m \in Nat /\ MinCount[c] \in Nat /\ (MaxCount[c] # NoLimit => MaxCount[c] \in Nat)
    BY CountGrows, ConfigAssumption DEF Continues
  <2> HIDE DEF m
  <2>1. Met(c, cs) <=> m >= MinCount[c] /\ (MaxCount[c] # NoLimit => m <= MaxCount[c])
    BY DEF Met, m
  <2>2. LiveVerdict(c, cs, DOMAIN cs) =
          IF CanFail(c) /\ m > MaxCount[c] THEN "fail" ELSE IF CanPass(c) /\ m >= MinCount[c] THEN "pass" ELSE "undecided"
    BY DEF LiveVerdict, m
  <2>3. CASE v[c] = "pass"
    <3>1. CanPass(c) /\ m >= MinCount[c]
      BY <1>3, <2>2, <2>3
    <3> QED BY <2>1, <3>1 DEF CanPass
  <2>4. CASE v[c] = "undecided"
    <3>1. ~ CanPass(c)
      BY <1>8, <2>4 DEF Undecided
    <3>2. LiveVerdict(c, cs, DOMAIN cs) = "undecided"
      BY <1>4, <1>5, <2>4
    <3>3. CanFail(c) => ~ (m > MaxCount[c])
      BY <2>2, <3>2
    <3>4. MinCount[c] = 0
      BY <2>0, <3>1 DEF CanPass, CanFail
    <3> QED BY <2>0, <2>1, <3>3, <3>4 DEF CanFail
  <2>5. v[c] # "fail"
    BY <1>9 DEF Failed
  <2> QED BY <1>2, <2>3, <2>4, <2>5
<1>11. {c \in Armed : Met(c, cs)} = Armed
  BY <1>10
<1> QED BY <1>11, AllReached DEF ArmedGate

\* A fail-stop without a timeout, whenever it is made, is for failures that last.
LEMMA FailStopIsNative ==
  ASSUME WatchInv, NEW cs \in Seq(Call), Continues(calls, cs), NEW S \in SUBSET DOMAIN cs, NEW n,
         NEW exp, \A c \in Armed : expired[c] => exp[c],
         NEW lat,
         \A c \in Armed : RunsOut(c, cs, S, n) => exp[c] \/ lat[c] = "undecided",
         FailStop(CollectVerdicts(cs, S, n)),
         \A c \in Failed(CollectVerdicts(cs, S, n)) : ~ BudgetDrove(c, CollectVerdicts(cs, S, n), lat, exp, n)
  PROVE  \E F \in SUBSET Armed :
           /\ ~ Reaches(Armed \ F, Armed)
           /\ \A c \in F : LiveVerdict(c, cs, DOMAIN cs) = "fail"
<1> DEFINE v == CollectVerdicts(cs, S, n)
<1>1. ~ Reaches(Armed \ Failed(v), Armed) /\ Failed(v) \in SUBSET Armed
  BY DEF FailStop, Failed
<1>2. ASSUME NEW c \in Failed(v) PROVE LiveVerdict(c, cs, DOMAIN cs) = "fail"
  <2>1. v[c] = "fail" /\ c \in Armed
    BY DEF Failed
  <2>2. ~ expired[c]
    BY <2>1 DEF BudgetDrove
  <2>3. ~ RunsOut(c, cs, S, n)
    <3> SUFFICES ASSUME RunsOut(c, cs, S, n) PROVE FALSE
      OBVIOUS
    <3>1. Budget(c) # NoLimit /\ n >= Budget(c) /\ ~ CanFail(c)
      BY DEF RunsOut, Budget, CanPass, CanFail
    <3> QED BY <2>1, <3>1 DEF BudgetDrove
  <2> QED BY <2>1, <2>2, <2>3, CollectedIsTrue DEF WatchInv
<1> QED BY <1>1, <1>2

\* The watcher decides in a round only, over the calls it has seen and the one
\* the round is about; with no other call in flight these are all of them.
LEMMA DecidedByRound ==
  ASSUME WatchInv, [Next]_vars, info' # info
  PROVE  /\ info = NoStop
         /\ \E S \in SUBSET DOMAIN calls', n \in Nat : \E lat, exp :
              /\ info' = Decision(CollectVerdicts(calls', S, n), lat, exp, n)
              /\ \A c \in Armed : expired[c] => exp[c]
              /\ \A c \in Armed : RunsOut(c, calls', S, n) => exp[c] \/ lat[c] = "undecided"
              /\ OpenCalls(calls) = {} \/ OpenCalls(calls') = {} => S = DOMAIN calls'
<1> USE DEF WatchInv
<1>0. calls \in Seq(Call) /\ calls' \in Seq(Call) /\ Continues(calls, calls') /\ seen \subseteq DOMAIN calls
      /\ DOMAIN calls \subseteq DOMAIN calls' /\ count \in Nat
  BY CallsContinue DEF WatchTyped, Continues
<1>1. CASE \E k \in Kinds : Dispatch(k)
  <2>1. PICK k \in Kinds : Dispatch(k)
    BY <1>1
  <2>2. Watching /\ EvaluateInFlight(calls', Len(calls'))
    BY <2>1 DEF Dispatch, watcher
  <2> DEFINE S == seen \cup {Len(calls')}
  <2>3. calls' = Append(calls, [kind |-> k, status |-> "open"])
    BY <2>1 DEF Dispatch
  <2>4. Len(calls') \in DOMAIN calls' /\ DOMAIN calls' = DOMAIN calls \cup {Len(calls')}
        /\ calls'[Len(calls')].status = "open"
    <3>1. [kind |-> k, status |-> "open"].status = "open"
      OBVIOUS
    <3> QED BY <1>0, <2>3, <3>1
  <2>5. S \in SUBSET DOMAIN calls'
    BY <1>0, <2>4
  <2>6. OpenCalls(calls) = {} \/ OpenCalls(calls') = {} => S = DOMAIN calls'
    BY <2>2, <2>4 DEF SeenAllEnded, OpenCalls
  <2>7. info' = Decision(CollectVerdicts(calls', S, count + 1), latched, expired, count + 1)
    BY <2>2 DEF EvaluateInFlight
  <2>8. \A c \in Armed : RunsOut(c, calls', S, count + 1) => latched[c] = "undecided"
    BY DEF RunsOut, Fresh
  <2>9. info = NoStop /\ count + 1 \in Nat
    BY <1>0, <2>2 DEF Watching
  <2> HIDE DEF S
  <2> QED BY <2>5, <2>6, <2>7, <2>8, <2>9
<1>2. CASE \E i \in DOMAIN calls, s \in {"success", "error"} : Resolve(i, s)
  <2>1. PICK i \in DOMAIN calls, s \in {"success", "error"} : Resolve(i, s)
    BY <1>2
  <2>2. Watching /\ EvaluateResolved(calls', i)
    BY <2>1 DEF Resolve, watcher
  <2> DEFINE S == seen \cup {i}
  <2>3. calls[i].status = "open" /\ calls' = [calls EXCEPT ![i].status = s]
    BY <2>1 DEF Resolve
  <2>4. DOMAIN calls' = DOMAIN calls /\ \A j \in DOMAIN calls \ {i} : calls'[j] = calls[j]
    BY <1>0, <2>3
  <2>5. S \in SUBSET DOMAIN calls'
    BY <1>0, <2>4
  <2>6. OpenCalls(calls) = {} \/ OpenCalls(calls') = {} => S = DOMAIN calls'
    BY <2>2, <2>3, <2>4 DEF SeenAllEnded, OpenCalls
  <2> DEFINE lat == CollectVerdicts(calls', S, count + 1)
             exp == LatchedTimeouts(calls', S, count + 1)
  <2>7. info' = Decision(CollectVerdicts(calls', S, count + 1), lat, exp, count + 1)
    BY <2>2 DEF EvaluateResolved
  <2>8. \A c \in Armed : (expired[c] => exp[c]) /\ (RunsOut(c, calls', S, count + 1) => exp[c])
    BY DEF LatchedTimeouts
  <2>9. info = NoStop /\ count + 1 \in Nat
    BY <1>0, <2>2 DEF Watching
  <2> HIDE DEF S, lat, exp
  <2> QED BY <2>5, <2>6, <2>7, <2>8, <2>9
<1>3. CASE CheckerRaises
  BY <1>3 DEF CheckerRaises
<1>4. CASE AttemptCrashes \/ TurnEnds
  BY <1>4 DEF AttemptCrashes, TurnEnds, CloseOrphans, RecordOrphans
<1>5. CASE Done \/ UNCHANGED vars
  BY <1>5 DEF Done, vars, watcher
<1> QED BY <1>1, <1>2, <1>3, <1>4, <1>5 DEF Next

LEMMA FailsForGoodStep ==
  ASSUME WatchInv, [Next]_vars, gate' = gate
  PROVE  FailsForGood'
<1>0. calls' \in Seq(Call) /\ Continues(calls, calls') /\ DOMAIN calls \subseteq DOMAIN calls'
  BY CallsContinue DEF Continues, WatchInv
<1> SUFFICES ASSUME info'.reason \in {"criterion_failed", "decision_budget_exceeded"}, info'.timed = {}
             PROVE  \E F \in SUBSET Armed : /\ ~ Reaches(Armed \ F, Armed)
                                            /\ \A c \in F : LiveVerdict(c, calls', DOMAIN calls') = "fail"
  <2>1. ASSUME NEW F \in SUBSET Armed PROVE Reaches(Armed \ F, Armed)' <=> Reaches(Armed \ F, Armed)
    <3>1. Reaches(Armed \ F, Armed)' <=> 100 * Worth(Armed \ F) >= gate' * Worth(Armed)
      BY DEF Reaches
    <3>2. Reaches(Armed \ F, Armed) <=> 100 * Worth(Armed \ F) >= gate * Worth(Armed)
      BY DEF Reaches
    <3> QED BY <3>1, <3>2
  <2> QED BY <2>1 DEF FailsForGood
<1>1. CASE info' = info
  <2>1. PICK F \in SUBSET Armed : /\ ~ Reaches(Armed \ F, Armed)
                                  /\ \A c \in F : LiveVerdict(c, calls, DOMAIN calls) = "fail"
    BY <1>1 DEF WatchInv, FailsForGood
  <2>2. \A c \in F : LiveVerdict(c, calls', DOMAIN calls') = "fail"
    BY <1>0, <2>1, VerdictStable
  <2> QED BY <2>1, <2>2
<1>2. CASE info' # info
  <2>0. PICK S \in SUBSET DOMAIN calls', n \in Nat : \E lat, exp :
              /\ info' = Decision(CollectVerdicts(calls', S, n), lat, exp, n)
              /\ \A c \in Armed : expired[c] => exp[c]
              /\ \A c \in Armed : RunsOut(c, calls', S, n) => exp[c] \/ lat[c] = "undecided"
    BY <1>2, DecidedByRound
  <2>1. PICK lat, exp :
              /\ info' = Decision(CollectVerdicts(calls', S, n), lat, exp, n)
              /\ \A c \in Armed : expired[c] => exp[c]
              /\ \A c \in Armed : RunsOut(c, calls', S, n) => exp[c] \/ lat[c] = "undecided"
    BY <2>0
  <2> DEFINE v == CollectVerdicts(calls', S, n)
             timed == {c \in Failed(v) : BudgetDrove(c, v, lat, exp, n)}
  <2>2. info' = IF FailStop(v)
                  THEN [reason |-> IF Failed(v) = timed THEN "decision_budget_exceeded" ELSE "criterion_failed",
                        timed  |-> timed]
                ELSE IF PassStop(v) THEN [reason |-> "criterion_passed", timed |-> timed]
                ELSE NoStop
    BY <2>1 DEF Decision
  <2>3. FailStop(v) /\ timed = {}
    <3> HIDE DEF v, timed
    <3> QED BY <2>2 DEF NoStop
  <2> QED BY <1>0, <2>1, <2>3, FailStopIsNative
<1> QED BY <1>1, <1>2

LEMMA ExpiredFailsStep ==
  ASSUME WatchTyped, ExpiredFails, [Next]_vars
  PROVE  ExpiredFails'
<1>1. CASE UNCHANGED <<latched, expired>>
  BY <1>1 DEF ExpiredFails
<1>2. ASSUME NEW i \in DOMAIN calls, EvaluateResolved(calls', i), NEW c \in Armed, expired'[c]
      PROVE  latched'[c] = "fail"
  <2>1. latched'[c] = IF ~ Fresh(c) THEN latched[c]
                      ELSE IF RunsOut(c, calls', seen \cup {i}, count + 1) THEN "fail"
                      ELSE LiveVerdict(c, calls', seen \cup {i})
    BY <1>2 DEF EvaluateResolved, CollectVerdicts
  <2>2. expired[c] \/ RunsOut(c, calls', seen \cup {i}, count + 1)
    BY <1>2 DEF EvaluateResolved, LatchedTimeouts
  <2>3. expired[c] => latched[c] = "fail"
    BY DEF ExpiredFails
  <2> QED BY <2>1, <2>2, <2>3 DEF RunsOut, Fresh
<1> QED BY <1>1, <1>2, LatchedByResolve DEF ExpiredFails

LEMMA WatchInvStep ==
  ASSUME WatchInv, [Next]_vars
  PROVE  WatchInv'
<1>1. gate' = gate
  BY DEF Next, Dispatch, Resolve, CheckerRaises, AttemptCrashes, TurnEnds, Done, vars
<1>2. WatchTyped' /\ SeenAllEnded' /\ LatchFaithful' /\ ExpiredFails'
  BY WatchTypedStep, SeenAllEndedStep, LatchStep, ExpiredFailsStep DEF WatchInv
<1> QED BY <1>1, <1>2, FailsForGoodStep DEF WatchInv

\* A pass-stop with no other call in flight is one the gate agrees with.
LEMMA PassStopStep ==
  ASSUME WatchInv, [Next]_vars, info = NoStop, info'.reason = "criterion_passed", gate = 100,
         OpenCalls(calls) = {} \/ OpenCalls(calls') = {}, \A c \in Armed : CanFail(c) => MinCount[c] = 0
  PROVE  ArmedGate(calls')
<1>1. info' # info
  BY DEF NoStop
<1>20. PICK n \in Nat : \E lat, exp : info' = Decision(CollectVerdicts(calls', DOMAIN calls', n), lat, exp, n)
  BY <1>1, DecidedByRound
<1>2. PICK lat, exp : info' = Decision(CollectVerdicts(calls', DOMAIN calls', n), lat, exp, n)
  BY <1>20
<1> DEFINE v == CollectVerdicts(calls', DOMAIN calls', n)
<1>3. ~ FailStop(v) /\ PassStop(v)
  <2> DEFINE timed == {c \in Failed(v) : BudgetDrove(c, v, lat, exp, n)}
  <2>2. info' = IF FailStop(v)
                  THEN [reason |-> IF Failed(v) = timed THEN "decision_budget_exceeded" ELSE "criterion_failed",
                        timed  |-> timed]
                ELSE IF PassStop(v) THEN [reason |-> "criterion_passed", timed |-> timed]
                ELSE NoStop
    BY <1>2 DEF Decision
  <2> HIDE DEF v, timed
  <2> QED BY <2>2 DEF NoStop
<1>4. calls' \in Seq(Call) /\ Continues(calls, calls')
  BY CallsContinue DEF WatchInv
<1> QED BY <1>3, <1>4, PassStopIsWhole

\* A stop agrees with the gate that judges the stopped run, for every set of
\* criteria and weights and every gate: a fail-stop without a timeout at every
\* later moment, whatever the agent still does (_ceiling); under the default
\* gate a pass-stop with no other call in flight when it is made (the floor rule).
THEOREM StopsAgree == Spec => StopsAgreeWithGate
<1> DEFINE Agrees == info = NoStop /\ info'.reason = "criterion_passed" /\ gate = 100
                       /\ (OpenCalls(calls) = {} \/ OpenCalls(calls') = {})
                       /\ (\A c \in Armed : CanFail(c) => MinCount[c] = 0)
                       => ArmedGate(calls')
<1>1. Init => WatchInv
  <2> SUFFICES ASSUME Init PROVE WatchInv
    OBVIOUS
  <2>1. WatchTyped
    BY WatchTypedInit
  <2>2. SeenAllEnded
    BY DEF Init, SeenAllEnded, OpenCalls
  <2>3. LatchFaithful /\ ExpiredFails
    BY DEF Init, LatchFaithful, ExpiredFails
  <2>4. FailsForGood /\ gate \in Gates
    BY DEF Init, FailsForGood, NoStop
  <2> QED BY <2>1, <2>2, <2>3, <2>4 DEF WatchInv
<1>2. WatchInv /\ [Next]_vars => WatchInv'
  BY WatchInvStep
<1>3. WatchInv /\ [Next]_vars => [Agrees]_vars
  BY PassStopStep
<1>4. WatchInv => NativeFailStopFinal
  BY GateIsLost
<1> HIDE DEF Agrees
<1>5. Spec => []NativeFailStopFinal /\ [][Agrees]_vars
  BY <1>1, <1>2, <1>3, <1>4, PTL DEF Spec
<1> QED BY <1>5 DEF Agrees, StopsAgreeWithGate, PassStopHolds

-----------------------------------------------------------------------------
\* A finite set of numbers has a largest one.
LEMMA FiniteHasMax ==
  ASSUME NEW S, S \subseteq Int, IsFiniteSet(S), S # {}
  PROVE  \E m \in S : \A y \in S : m >= y
<1> DEFINE T == {A \in SUBSET S : A # {} => \E m \in A : \A y \in A : m >= y}
<1>1. ASSUME NEW A \in SUBSET S, NEW x \in S \ A, A \in T PROVE A \cup {x} \in T
  <2>1. CASE A = {}
    BY <2>1
  <2>2. CASE A # {}
    <3>1. PICK m \in A : \A y \in A : m >= y
      BY <1>1, <2>2
    <3>2. CASE m >= x
      BY <3>1, <3>2
    <3>3. CASE x > m
      BY <3>1, <3>3
    <3> QED BY <3>2, <3>3
  <2> QED BY <2>1, <2>2
<1>2. {} \in T
  OBVIOUS
<1> HIDE DEF T
<1>3. S \in T
  BY <1>1, <1>2, FiniteSetInduction
<1> QED BY <1>3 DEF T

-----------------------------------------------------------------------------
(* The money of a run (Costs).                                             *)

None == -1
\* A sum of costs is that of what was priced.
Priced(costs) == {x \in DOMAIN costs : costs[x] # None}
LEMMA SumCostsIs ==
  ASSUME NEW costs
  PROVE  Money!SumCosts(costs) = IF Priced(costs) = {} THEN None ELSE Sum(costs, Priced(costs))
BY DEF Money!SumCosts, Priced, None, Money!None, Sum, Money!FoldFunctionOnSet, FoldFunctionOnSet,
       MapThenFoldSet, Money!MapThenFoldSet

\* Costs that agree where they are priced have one sum.
LEMMA SumCostsSame ==
  ASSUME NEW a, NEW b, Priced(a) = Priced(b), IsFiniteSet(Priced(a)), \A x \in Priced(a) : a[x] = b[x]
  PROVE  Money!SumCosts(a) = Money!SumCosts(b)
BY SumCostsIs, SumSame

LEMMA SumCostsPrice ==
  ASSUME NEW a, IsFiniteSet(Priced(a)), \A x \in Priced(a) : a[x] \in Nat
  PROVE  /\ Money!SumCosts(a) \in Prices
         /\ Priced(a) # {} => Money!SumCosts(a) \in Nat
<1>1. Sum(a, Priced(a)) \in Nat
  BY SumSubset
<1> QED BY <1>1, SumCostsIs DEF Prices, None

\* The survivor of an iteration is one of its turns.
OfIteration(turns, it) == {i \in DOMAIN turns : turns[i].iteration = it}
LEMMA SurvivorIsOne ==
  ASSUME NEW turns \in Seq(Bills), NEW it, OfIteration(turns, it) # {}
  PROVE  Money!Survivor(turns, it) \in OfIteration(turns, it)
<1> DEFINE all == {i \in DOMAIN turns : turns[i].iteration = it}
           gen == {i \in all : turns[i].generated}
           S == IF gen # {} THEN gen ELSE all
<1>1. S # {} /\ S \subseteq all /\ S \subseteq Int
  BY DEF OfIteration
<1>2. IsFiniteSet(S)
  <2>1. IsFiniteSet(1 .. Len(turns)) /\ DOMAIN turns = 1 .. Len(turns)
    BY FS_Interval
  <2>2. S \subseteq 1 .. Len(turns)
    BY <1>1, <2>1
  <2> QED BY <2>1, <2>2, FS_Subset
<1>3. Money!Survivor(turns, it) = Money!Max(S)
  BY DEF Money!Survivor
<1> HIDE DEF S
<1>4. \E m \in S : \A y \in S : m >= y
  BY <1>1, <1>2, FiniteHasMax
<1>5. Money!Max(S) \in S
  BY <1>4 DEF Money!Max
<1> QED BY <1>1, <1>3, <1>5 DEF OfIteration

LEMMA SurvivorSame ==
  ASSUME NEW a \in Seq(Bills), NEW b \in Seq(Bills), DOMAIN a = DOMAIN b,
         \A i \in DOMAIN a : a[i].iteration = b[i].iteration /\ a[i].generated = b[i].generated, NEW it
  PROVE  Money!Survivor(a, it) = Money!Survivor(b, it)
<1>1. {i \in DOMAIN a : a[i].iteration = it} = {i \in DOMAIN b : b[i].iteration = it}
  OBVIOUS
<1>2. {i \in {j \in DOMAIN a : a[j].iteration = it} : a[i].generated}
      = {i \in {j \in DOMAIN b : b[j].iteration = it} : b[i].generated}
  OBVIOUS
<1> QED BY <1>1, <1>2 DEF Money!Survivor

\* What a turn becomes once its iteration is joined.
Becomes(i) ==
  LET t == case.turns[i]
  IN IF t.iteration \notin DOMAIN out.plan THEN t
     ELSE IF Money!Survivor(case.turns, t.iteration) # i THEN Money!SiblingZeroed(t)
     ELSE [t EXCEPT !.cost = out.plan[t.iteration], !.usage = IF @ = "none" THEN "empty" ELSE @]

\* How far the bill of a run has come: its turns are those of the case, up to the
\* next one credited, and the plan has what each joined iteration's calls cost.
BillTyped ==
  /\ DOMAIN out = {"records", "plan", "turns", "next", "row"}
  /\ case.turns \in Seq(Bills) /\ case.log \in Seq(LogLines)
  /\ at \in {"loading", "planning", "crediting", "adding", "done"}
  /\ out.records \subseteq DOMAIN case.log
  /\ out.turns \in Seq(Bills) /\ DOMAIN out.turns = DOMAIN case.turns
  /\ out.next \in Nat \ {0}
BillPlanned ==
  /\ at \in {"loading", "planning"} => out.next = 1 /\ DOMAIN out.plan = {}
  /\ \A it \in DOMAIN out.plan :
       /\ Money!Creditable(Money!Usable(it))
       /\ out.plan[it] = Money!SumCosts([i \in Money!Usable(it) |-> case.log[i].cost])
       /\ \A i \in Money!Mine : case.log[i].shape
BillCredited ==
  \A i \in DOMAIN case.turns :
    out.turns[i] = IF at \in {"adding", "done"} \/ i < out.next THEN Becomes(i) ELSE case.turns[i]
BillAdded ==
  at = "done" => /\ out.row.agent = Money!AgentCost(out.turns)
                 /\ out.row.complete = Money!CostComplete(out.turns)
BillInv == BillTyped /\ BillPlanned /\ BillCredited /\ BillAdded

\* The calls of an iteration that are paid for, and what they cost.
LEMMA UsablePaid ==
  ASSUME BillTyped, NEW it, Money!Creditable(Money!Usable(it))
  PROVE  LET costs == [i \in Money!Usable(it) |-> case.log[i].cost] IN
         /\ IsFiniteSet(Money!Usable(it)) /\ Priced(costs) = Money!Usable(it)
         /\ Money!SumCosts(costs) \in Nat
<1> DEFINE costs == [i \in Money!Usable(it) |-> case.log[i].cost]
<1>1. Money!Usable(it) \subseteq DOMAIN case.log
  BY DEF Money!Usable, Money!Mine, BillTyped
<1>2. IsFiniteSet(Money!Usable(it))
  <2>0. Len(case.log) \in Int /\ 1 \in Int /\ DOMAIN case.log = 1 .. Len(case.log)
    BY DEF BillTyped
  <2>1. IsFiniteSet(1 .. Len(case.log))
    BY <2>0, FS_Interval
  <2> QED BY <1>1, <2>0, <2>1, FS_Subset
<1>3. \A i \in Money!Usable(it) : case.log[i].cost \in Nat
  <2> TAKE i \in Money!Usable(it)
  <2>1. case.log[i] \in LogLines
    BY <1>1 DEF BillTyped
  <2>2. case.log[i].cost # None
    BY DEF Money!Creditable, None, Money!None
  <2> QED BY <2>1, <2>2 DEF LogLines, Prices, None
<1>4. Priced(costs) = Money!Usable(it) /\ Money!Usable(it) # {}
  BY <1>3 DEF Priced, None, Money!Creditable
<1>5. \A i \in Priced(costs) : costs[i] \in Nat
  BY <1>3, <1>4
<1> HIDE DEF costs
<1>6. Money!SumCosts(costs) \in Nat
  BY <1>2, <1>4, <1>5, SumCostsPrice
<1> QED BY <1>2, <1>4, <1>6 DEF costs

\* A joined turn is a turn, of its iteration, and if it is not the survivor it
\* has no price or none left.
LEMMA BecomesIs ==
  ASSUME BillTyped, BillPlanned, NEW i \in DOMAIN case.turns
  PROVE  /\ Becomes(i) \in Bills
         /\ Becomes(i).iteration = case.turns[i].iteration /\ Becomes(i).generated = case.turns[i].generated
<1> DEFINE t == case.turns[i]
<1>1. t \in Bills
  BY DEF BillTyped
<1>2. Money!SiblingZeroed(t) \in Bills /\ Money!SiblingZeroed(t).iteration = t.iteration /\ Money!SiblingZeroed(t).generated = t.generated
  BY <1>1 DEF Money!SiblingZeroed, Bills, Prices, None
<1>3. ASSUME t.iteration \in DOMAIN out.plan PROVE out.plan[t.iteration] \in Nat
  BY <1>3, UsablePaid DEF BillPlanned
<1>4. ASSUME NEW p \in Nat
      PROVE  LET s == [t EXCEPT !.cost = p, !.usage = IF @ = "none" THEN "empty" ELSE @]
             IN s \in Bills /\ s.iteration = t.iteration /\ s.generated = t.generated
  <2> DEFINE u == IF t.usage = "none" THEN "empty" ELSE t.usage
             s == [t EXCEPT !.cost = p, !.usage = u]
  <2>1. u \in {"empty", "tokens"}
    BY <1>1 DEF Bills, None
  <2> HIDE DEF u
  <2>2. s \in [iteration : Int, generated : BOOLEAN, usage : {"none", "empty", "tokens"}, cost : Prices] /\ s.usage = u
        /\ s.iteration = t.iteration /\ s.generated = t.generated
    BY <1>1, <2>1 DEF Bills, Prices, None
  <2>3. s \in Bills
    BY <2>1, <2>2 DEF Bills, None
  <2> QED BY <2>2, <2>3 DEF u
<1> HIDE DEF t
<1>5. Becomes(i) = IF t.iteration \notin DOMAIN out.plan THEN t
     ELSE IF Money!Survivor(case.turns, t.iteration) # i THEN Money!SiblingZeroed(t)
     ELSE [t EXCEPT !.cost = out.plan[t.iteration], !.usage = IF @ = "none" THEN "empty" ELSE @]
  BY DEF Becomes, t
<1>6. CASE t.iteration \notin DOMAIN out.plan
  BY <1>1, <1>5, <1>6 DEF t
<1>7. CASE t.iteration \in DOMAIN out.plan /\ Money!Survivor(case.turns, t.iteration) # i
  BY <1>2, <1>5, <1>7 DEF t
<1>8. CASE t.iteration \in DOMAIN out.plan /\ Money!Survivor(case.turns, t.iteration) = i
  BY <1>3, <1>4, <1>5, <1>8 DEF t
<1> QED BY <1>6, <1>7, <1>8

\* The turns keep their iterations, so the survivor stays who it was.
LEMMA TurnsStay ==
  ASSUME BillInv
  PROVE  /\ \A i \in DOMAIN case.turns : out.turns[i].iteration = case.turns[i].iteration
                                         /\ out.turns[i].generated = case.turns[i].generated
         /\ \A it : Money!Survivor(out.turns, it) = Money!Survivor(case.turns, it)
<1>1. \A i \in DOMAIN case.turns : out.turns[i].iteration = case.turns[i].iteration
                                   /\ out.turns[i].generated = case.turns[i].generated
  BY BecomesIs DEF BillInv, BillCredited
<1> QED BY <1>1, SurvivorSame DEF BillInv, BillTyped

\* The plan stays right while the calls and the plan stay.
LEMMA PlanStays ==
  ASSUME BillPlanned, case' = case, out'.records = out.records, out'.plan = out.plan,
         at' \notin {"loading", "planning"}
  PROVE  BillPlanned'
<1>1. Money!Mine' = Money!Mine
  BY DEF Money!Mine
<1>2. ASSUME NEW it
      PROVE  /\ Money!Usable(it)' = Money!Usable(it)
             /\ Money!Creditable(Money!Usable(it))' <=> Money!Creditable(Money!Usable(it))
             /\ [i \in Money!Usable(it) |-> case.log[i].cost]' = [i \in Money!Usable(it) |-> case.log[i].cost]
  BY <1>1 DEF Money!Usable, Money!Creditable
<1> QED BY <1>1, <1>2 DEF BillPlanned

LEMMA LoadStep ==
  ASSUME BillInv, Money!LoadRecords
  PROVE  BillInv'
<1>1. at = "loading" /\ at' = "planning" /\ case' = case
      /\ out' = [out EXCEPT !.records = {i \in DOMAIN case.log : case.log[i].loads}]
  BY DEF Money!LoadRecords
<1>2. DOMAIN out' = DOMAIN out /\ out'.plan = out.plan /\ out'.turns = out.turns /\ out'.next = out.next
      /\ out'.records = {i \in DOMAIN case.log : case.log[i].loads}
  BY <1>1 DEF BillInv, BillTyped
<1>3. BillTyped' /\ BillAdded'
  BY <1>1, <1>2 DEF BillInv, BillTyped, BillAdded
<1>4. BillPlanned'
  BY <1>1, <1>2 DEF BillInv, BillPlanned
<1>5. BillCredited'
  BY <1>1, <1>2 DEF BillInv, BillCredited, BillPlanned, BillTyped
<1> QED BY <1>3, <1>4, <1>5 DEF BillInv

LEMMA PlanStep ==
  ASSUME BillInv, Money!PlanJoin
  PROVE  BillInv'
<1> DEFINE its == {case.log[i].iteration : i \in Money!Mine}
           paid == {it \in its : Money!Creditable(Money!Usable(it))}
           plan == [it \in paid |-> Money!SumCosts([i \in Money!Usable(it) |-> case.log[i].cost])]
<1>1. at = "planning" /\ at' = "crediting" /\ case' = case /\ out' = [out EXCEPT !.plan = plan]
      /\ \A i \in Money!Mine : case.log[i].shape
  BY DEF Money!PlanJoin
<1>2. DOMAIN plan = paid /\ \A it \in paid : plan[it] = Money!SumCosts([i \in Money!Usable(it) |-> case.log[i].cost])
  OBVIOUS
<1>p. \A it \in paid : Money!Creditable(Money!Usable(it))
  OBVIOUS
<1> HIDE DEF plan
<1>3. DOMAIN out' = DOMAIN out /\ out'.plan = plan /\ out'.turns = out.turns /\ out'.next = out.next
      /\ out'.records = out.records
  BY <1>1 DEF BillInv, BillTyped
<1>4. BillTyped' /\ BillAdded'
  BY <1>1, <1>3 DEF BillInv, BillTyped, BillAdded
<1>5. /\ Money!Mine' = Money!Mine
      /\ \A it : Money!Usable(it)' = Money!Usable(it)
  BY <1>1, <1>3 DEF Money!Mine, Money!Usable
<1>6. BillPlanned'
  <2>1. ASSUME NEW it \in paid
        PROVE  /\ Money!Creditable(Money!Usable(it))'
               /\ Money!SumCosts([i \in Money!Usable(it) |-> case.log[i].cost])' = plan[it]
    <3>1. Money!Creditable(Money!Usable(it))' <=> Money!Creditable(Money!Usable(it))
      BY <1>1, <1>5 DEF Money!Creditable
    <3>2. [i \in Money!Usable(it) |-> case.log[i].cost]' = [i \in Money!Usable(it) |-> case.log[i].cost]
      BY <1>1, <1>5
    <3> QED BY <1>2, <1>p, <3>1, <3>2
  <2> QED BY <1>1, <1>2, <1>3, <1>5, <2>1 DEF BillPlanned
<1>7. BillCredited'
  BY <1>1, <1>3 DEF BillInv, BillCredited, BillPlanned, BillTyped
<1> QED BY <1>4, <1>6, <1>7 DEF BillInv

LEMMA KeepStep ==
  ASSUME BillInv, Money!KeepStatic
  PROVE  BillInv'
<1>1. at = "planning" /\ at' = "adding" /\ case' = case /\ out' = out
  BY DEF Money!KeepStatic
<1>2. DOMAIN out.plan = {} /\ out.next = 1
  BY <1>1 DEF BillInv, BillPlanned
<1>3. \A i \in DOMAIN case.turns : Becomes(i) = case.turns[i] /\ Becomes(i)' = Becomes(i)
  BY <1>1, <1>2 DEF Becomes, Money!SiblingZeroed
<1>4. BillTyped' /\ BillAdded' /\ BillPlanned'
  BY <1>1, <1>2 DEF BillInv, BillTyped, BillAdded, BillPlanned
<1>5. BillCredited'
  BY <1>1, <1>2, <1>3 DEF BillInv, BillCredited, BillTyped
<1> QED BY <1>4, <1>5 DEF BillInv

LEMMA CreditStep ==
  ASSUME BillInv, Money!CreditTurn
  PROVE  BillInv'
<1> DEFINE n == out.next
           new == Money!Credited(out.turns[n], n)
<1>1. at = "crediting" /\ at' = at /\ case' = case /\ n <= Len(out.turns)
      /\ out' = [out EXCEPT !.turns[n] = new, !.next = n + 1]
  BY DEF Money!CreditTurn
<1>2. DOMAIN out' = DOMAIN out /\ out'.plan = out.plan /\ out'.records = out.records /\ out'.row = out.row
      /\ out'.next = n + 1 /\ out'.turns = [out.turns EXCEPT ![n] = new]
  BY <1>1 DEF BillInv, BillTyped
<1>3. n \in DOMAIN out.turns /\ n \in DOMAIN case.turns /\ n \in Nat \ {0}
  BY <1>1 DEF BillInv, BillTyped
<1>4. out.turns[n] = case.turns[n]
  BY <1>1, <1>3 DEF BillInv, BillCredited
<1>5. \A it : Money!Survivor(out.turns, it) = Money!Survivor(case.turns, it)
  BY TurnsStay
<1>6. new = Becomes(n)
  BY <1>4, <1>5 DEF Money!Credited, Becomes
<1>7. new \in Bills
  BY <1>3, <1>6, BecomesIs DEF BillInv
<1> HIDE DEF new
<1>8. out'.turns \in Seq(Bills) /\ DOMAIN out'.turns = DOMAIN out.turns /\ out'.turns[n] = new
      /\ \A i \in DOMAIN out.turns : i # n => out'.turns[i] = out.turns[i]
  BY <1>2, <1>3, <1>7 DEF BillInv, BillTyped
<1>9. \A i \in DOMAIN case.turns : Becomes(i)' = Becomes(i)
  BY <1>1, <1>2 DEF Becomes, Money!SiblingZeroed
<1>10. BillTyped' /\ BillAdded'
  BY <1>1, <1>2, <1>3, <1>8 DEF BillInv, BillTyped, BillAdded
<1>11. BillPlanned'
  BY <1>1, <1>2, PlanStays DEF BillInv
<1>12. BillCredited'
  <2> SUFFICES ASSUME NEW i \in DOMAIN case.turns
               PROVE  out'.turns[i] = IF i < n + 1 THEN Becomes(i) ELSE case.turns[i]
    BY <1>1, <1>2, <1>9 DEF BillCredited
  <2>1. i \in DOMAIN out.turns /\ i \in Nat
    BY DEF BillInv, BillTyped
  <2>2. CASE i = n
    BY <1>3, <1>6, <1>8, <2>2
  <2>3. CASE i # n
    BY <1>1, <1>3, <1>8, <2>1, <2>3 DEF BillInv, BillCredited
  <2> QED BY <2>2, <2>3
<1> QED BY <1>10, <1>11, <1>12 DEF BillInv

LEMMA CreditedStep ==
  ASSUME BillInv, Money!AllCredited
  PROVE  BillInv'
<1>1. at = "crediting" /\ at' = "adding" /\ case' = case /\ out' = out /\ out.next > Len(out.turns)
  BY DEF Money!AllCredited
<1>2. \A i \in DOMAIN case.turns : i < out.next /\ Becomes(i)' = Becomes(i)
  BY <1>1 DEF Becomes, Money!SiblingZeroed, BillInv, BillTyped
<1>3. BillTyped' /\ BillAdded'
  BY <1>1 DEF BillInv, BillTyped, BillAdded
<1>p. BillPlanned'
  BY <1>1, PlanStays DEF BillInv
<1>4. BillCredited'
  BY <1>1, <1>2 DEF BillInv, BillCredited
<1> QED BY <1>3, <1>p, <1>4 DEF BillInv

LEMMA AddStep ==
  ASSUME BillInv, Money!AddUp
  PROVE  BillInv'
<1> DEFINE row == [agent |-> Money!AgentCost(out.turns),
                   total |-> Money!SumCosts(<<Money!AgentCost(out.turns), Money!JudgeCost>>),
                   complete |-> Money!CostComplete(out.turns)]
<1>1. at = "adding" /\ at' = "done" /\ case' = case /\ out' = [out EXCEPT !.row = row]
  BY DEF Money!AddUp
<1>2. DOMAIN out' = DOMAIN out /\ out'.plan = out.plan /\ out'.records = out.records /\ out'.row = row
      /\ out'.next = out.next /\ out'.turns = out.turns
  BY <1>1 DEF BillInv, BillTyped
<1>3. \A i \in DOMAIN case.turns : Becomes(i)' = Becomes(i)
  BY <1>1, <1>2 DEF Becomes, Money!SiblingZeroed
<1>4. BillTyped' /\ BillPlanned'
  BY <1>1, <1>2, PlanStays DEF BillInv, BillTyped
<1>5. BillCredited'
  BY <1>1, <1>2, <1>3 DEF BillInv, BillCredited
<1>6. row.agent = Money!AgentCost(out.turns) /\ row.complete = Money!CostComplete(out.turns)
  OBVIOUS
<1> HIDE DEF row
<1>7. BillAdded'
  BY <1>1, <1>2, <1>6 DEF BillAdded, Money!AgentCost, Money!CostComplete
<1> QED BY <1>4, <1>5, <1>7 DEF BillInv

\* The bill at its end: every iteration is joined whole or left alone, and the
\* agent's cost is the sum of its turns'.
LEMMA JoinIsWhole ==
  ASSUME BillInv, at = "done"
  PROVE  Money!JoinedWhole
<1> SUFFICES ASSUME NEW it \in {case.turns[i].iteration : i \in DOMAIN case.turns}
             PROVE  LET of == {i \in DOMAIN case.turns : case.turns[i].iteration = it}
                        logged == {i \in Money!Mine : case.log[i].iteration = it}
                    IN \/ \A i \in of : out.turns[i] = case.turns[i]
                       \/ /\ \A i \in Money!Mine : case.log[i].shape
                          /\ \A i \in logged : case.log[i].tokens => case.log[i].cost # None
                          /\ Money!SumCosts([i \in of |-> out.turns[i].cost]) = Money!SumCosts([i \in logged |-> case.log[i].cost])
  BY DEF Money!JoinedWhole, None, Money!None
<1> DEFINE of == {i \in DOMAIN case.turns : case.turns[i].iteration = it}
           logged == {i \in Money!Mine : case.log[i].iteration = it}
           turned == [i \in of |-> out.turns[i].cost]
           called == [i \in logged |-> case.log[i].cost]
           used == [i \in Money!Usable(it) |-> case.log[i].cost]
<1>1. \A i \in DOMAIN case.turns : out.turns[i] = Becomes(i)
  BY DEF BillInv, BillCredited
<1>2. CASE it \notin DOMAIN out.plan
  BY <1>1, <1>2 DEF Becomes
<1>3. CASE it \in DOMAIN out.plan
  <2>1. /\ Money!Creditable(Money!Usable(it)) /\ out.plan[it] = Money!SumCosts(used)
        /\ \A i \in Money!Mine : case.log[i].shape
    BY <1>3 DEF BillInv, BillPlanned
  <2>2. IsFiniteSet(Money!Usable(it)) /\ Priced(used) = Money!Usable(it) /\ Money!SumCosts(used) \in Nat
    BY <2>1, UsablePaid DEF BillInv
  <2>3. \A i \in logged : (case.log[i].cost # None \/ case.log[i].tokens) <=> i \in Money!Usable(it)
    BY DEF Money!Usable, None, Money!None
  <2>4. \A i \in Money!Usable(it) : case.log[i].cost # None /\ i \in logged
    BY <2>1 DEF Money!Creditable, Money!Usable, None, Money!None
  <2>5. \A i \in logged : case.log[i].tokens => case.log[i].cost # None
    BY <2>3, <2>4
  <2>6. Priced(called) = Money!Usable(it)
    BY <2>3, <2>4 DEF Priced
  <2>7. Money!SumCosts(called) = out.plan[it]
    <3>1. \A i \in Priced(called) : called[i] = used[i]
      BY <2>4, <2>6
    <3> HIDE DEF called, used
    <3> QED BY <2>1, <2>2, <2>6, <3>1, SumCostsSame
  <2> DEFINE s == Money!Survivor(case.turns, it)
  <2>8. s \in of
    <3>1. OfIteration(case.turns, it) # {}
      BY DEF OfIteration
    <3>2. s \in OfIteration(case.turns, it)
      BY <3>1, SurvivorIsOne DEF BillInv, BillTyped
    <3> QED BY <3>2 DEF OfIteration
  <2>9. turned[s] = out.plan[it] /\ out.plan[it] \in Nat
    <3>1. case.turns[s] \in Bills /\ case.turns[s].iteration = it
      BY <2>8 DEF BillInv, BillTyped
    <3>2. Becomes(s) = [case.turns[s] EXCEPT !.cost = out.plan[it], !.usage = IF @ = "none" THEN "empty" ELSE @]
      BY <1>3, <3>1 DEF Becomes
    <3>3. Becomes(s).cost = out.plan[it]
      BY <3>1, <3>2 DEF Bills, None
    <3> HIDE DEF s
    <3> QED BY <1>1, <2>1, <2>2, <2>8, <3>3
  <2>10. \A i \in of : i # s => turned[i] \in {None, 0}
    <3> SUFFICES ASSUME NEW i \in of, i # s PROVE turned[i] \in {None, 0}
      OBVIOUS
    <3>1. case.turns[i] \in Bills /\ case.turns[i].iteration = it
      BY DEF BillInv, BillTyped
    <3>2. Becomes(i) = Money!SiblingZeroed(case.turns[i])
      BY <1>3, <3>1 DEF Becomes
    <3>3. Becomes(i).cost \in {None, 0}
      BY <3>1, <3>2 DEF Money!SiblingZeroed, Bills, None
    <3> QED BY <1>1, <3>3
  <2>11. IsFiniteSet(of) /\ DOMAIN turned = of
    <3>0. Len(case.turns) \in Int /\ 1 \in Int /\ DOMAIN case.turns = 1 .. Len(case.turns)
      BY DEF BillInv, BillTyped
    <3>1. IsFiniteSet(1 .. Len(case.turns))
      BY <3>0, FS_Interval
    <3> QED BY <3>0, <3>1, FS_Subset
  <2> HIDE DEF s, of, turned
  <2>12. s \in Priced(turned) /\ IsFiniteSet(Priced(turned))
         /\ \A i \in Priced(turned) : turned[i] \in Int /\ (i # s => turned[i] = 0)
    <3>1. out.plan[it] # None
      BY <2>9 DEF None
    <3>2. Priced(turned) \subseteq of
      BY <2>11 DEF Priced
    <3> QED BY <2>8, <2>9, <2>10, <2>11, <3>1, <3>2, FS_Subset DEF Priced
  <2>13. Sum(turned, Priced(turned)) = turned[s] + Sum(turned, Priced(turned) \ {s})
    BY <2>12, SumAny
  <2>14. Sum(turned, Priced(turned) \ {s}) = 0
    <3>1. IsFiniteSet(Priced(turned) \ {s})
      BY <2>12, FS_Subset
    <3> QED BY <2>12, <3>1, SumZero
  <2>15. Money!SumCosts(turned) = out.plan[it]
    BY <2>9, <2>12, <2>13, <2>14, SumCostsIs
  <2> QED BY <2>1, <2>5, <2>7, <2>15 DEF of, turned
<1> QED BY <1>2, <1>3

LEMMA BillIsWhole ==
  ASSUME BillInv, at = "done"
  PROVE  Money!BillIsSum
<1> DEFINE all == [i \in DOMAIN out.turns |-> out.turns[i].cost]
           used == [i \in {j \in DOMAIN out.turns : out.turns[j].usage # "none"} |-> out.turns[i].cost]
<1>1. \A i \in DOMAIN out.turns : out.turns[i] \in Bills
  BY DEF BillInv, BillTyped
<1>2. Priced(all) = Priced(used)
  BY <1>1 DEF Priced, Bills, None
<1>3. \A i \in Priced(used) : all[i] = used[i]
  BY DEF Priced
<1>4. IsFiniteSet(Priced(all))
  <2>0. Len(out.turns) \in Int /\ 1 \in Int /\ DOMAIN out.turns = 1 .. Len(out.turns)
    BY DEF BillInv, BillTyped
  <2>1. IsFiniteSet(1 .. Len(out.turns))
    BY <2>0, FS_Interval
  <2>2. Priced(all) \subseteq 1 .. Len(out.turns)
    BY <2>0 DEF Priced
  <2> QED BY <2>1, <2>2, FS_Subset
<1> HIDE DEF all, used
<1>5. Money!SumCosts(all) = Money!SumCosts(used)
  BY <1>2, <1>3, <1>4, SumCostsSame
<1>6. out.row.agent = Money!SumCosts(used) /\ out.row.complete = Money!CostComplete(out.turns)
  BY DEF BillInv, BillAdded, Money!AgentCost, used
<1> QED BY <1>5, <1>6 DEF Money!BillIsSum, Money!CostComplete, all

\* The rate card: rates are prices, a batch is there whole, and a price that was
\* given is the price still.
RatesInv ==
  /\ DOMAIN out = {"registered", "seen"} /\ at = "open"
  /\ \A m \in DOMAIN out.registered :
       /\ out.registered[m] \in Nat
       /\ \E b \in CostBatches : m \in DOMAIN b /\ \A n \in DOMAIN b : n \in DOMAIN out.registered /\ out.registered[n] = b[n]
  /\ \A p \in out.seen : p[2] = None \/ p[2] = Money!Price(out.registered, p[1])

LEMMA MergedKeeps ==
  ASSUME NEW r, NEW b, NEW m, Money!Lookup(r, m) # None
  PROVE  Money!Lookup(Money!Merged(r, b), m) = Money!Lookup(r, m)
<1>1. CASE \E n \in DOMAIN b : Money!Lookup(r, n) \notin {None, b[n]}
  BY <1>1 DEF Money!Merged, None, Money!None
<1>2. CASE \A n \in DOMAIN b : Money!Lookup(r, n) \in {None, b[n]}
  <2> DEFINE new == [n \in DOMAIN r \cup DOMAIN b |-> IF n \in DOMAIN b THEN b[n] ELSE r[n]]
  <2>1. Money!Merged(r, b) = new
    BY <1>2 DEF Money!Merged, None, Money!None
  <2>2. Money!Lookup(new, m) = IF m \in DOMAIN b THEN b[m] ELSE Money!Lookup(r, m)
    BY DEF Money!Lookup
  <2> HIDE DEF new
  <2> QED BY <1>2, <2>1, <2>2
<1> QED BY <1>1, <1>2

LEMMA RegisterStep ==
  ASSUME MoneyPlain, RatesInv, Money!RegisterPricing
  PROVE  RatesInv'
<1>1. PICK batch \in CostBatches :
        out' = [registered |-> Money!Merged(out.registered, batch),
                seen |-> out.seen \cup {<<id, Money!Price(Money!Merged(out.registered, batch), id)>> : id \in CostSpellings}]
  BY DEF Money!RegisterPricing
<1> DEFINE r == out.registered
           new == Money!Merged(r, batch)
<1>2. at' = at /\ DOMAIN out' = {"registered", "seen"} /\ out'.registered = new
      /\ out'.seen = out.seen \cup {<<id, Money!Price(new, id)>> : id \in CostSpellings}
  BY <1>1 DEF Money!RegisterPricing
<1>3. ASSUME NEW m \in DOMAIN new
      PROVE  /\ new[m] \in Nat
             /\ \E b \in CostBatches : m \in DOMAIN b /\ \A n \in DOMAIN b : n \in DOMAIN new /\ new[n] = b[n]
  <2>1. CASE \E n \in DOMAIN batch : Money!Lookup(r, n) \notin {None, batch[n]}
    <3>1. new = r
      BY <2>1 DEF Money!Merged, None, Money!None
    <3> QED BY <3>1 DEF RatesInv
  <2>2. CASE \A n \in DOMAIN batch : Money!Lookup(r, n) \in {None, batch[n]}
    <3>1. new = [n \in DOMAIN r \cup DOMAIN batch |-> IF n \in DOMAIN batch THEN batch[n] ELSE r[n]]
      BY <2>2 DEF Money!Merged, None, Money!None
    <3> HIDE DEF new
    <3>2. \A n \in DOMAIN r : new[n] = r[n]
      <4> SUFFICES ASSUME NEW n \in DOMAIN r, n \in DOMAIN batch PROVE new[n] = r[n]
        BY <3>1
      <4>1. r[n] \in Nat /\ Money!Lookup(r, n) = r[n]
        BY DEF RatesInv, Money!Lookup
      <4>2. r[n] = batch[n]
        BY <2>2, <4>1 DEF None
      <4> QED BY <3>1, <4>2
    <3>3. CASE m \in DOMAIN batch
      <4>1. new[m] \in Nat
        BY <3>1, <3>3 DEF MoneyPlain
      <4> QED BY <3>1, <3>3, <4>1
    <3>4. CASE m \in DOMAIN r
      <4>1. r[m] \in Nat
        BY <3>4 DEF RatesInv
      <4>2. PICK b \in CostBatches : m \in DOMAIN b /\ \A n \in DOMAIN b : n \in DOMAIN r /\ r[n] = b[n]
        BY <3>4 DEF RatesInv
      <4>3. \A n \in DOMAIN b : n \in DOMAIN new /\ new[n] = b[n]
        BY <3>1, <3>2, <4>2
      <4> QED BY <3>2, <3>4, <4>1, <4>2, <4>3
    <3> QED BY <3>1, <3>3, <3>4
  <2> QED BY <2>1, <2>2
<1>4. ASSUME NEW p \in out'.seen
      PROVE  p[2] = None \/ p[2] = Money!Price(new, p[1])
  <2>1. CASE p \in out.seen
    <3>1. p[2] = None \/ p[2] = Money!Price(r, p[1])
      BY <2>1 DEF RatesInv
    <3>2. Money!Price(r, p[1]) # None => Money!Price(new, p[1]) = Money!Price(r, p[1])
      BY MergedKeeps DEF Money!Price, None, Money!None
    <3> QED BY <3>1, <3>2
  <2>2. CASE \E id \in CostSpellings : p = <<id, Money!Price(new, id)>>
    BY <2>2
  <2> QED BY <1>2, <2>1, <2>2
<1> QED BY <1>2, <1>3, <1>4 DEF RatesInv

LEMMA RatesAreStanding ==
  ASSUME RatesInv
  PROVE  Money!RatesStand
<1>1. ASSUME NEW p \in out.seen, NEW q \in out.seen, Money!Normalize(p[1]) = Money!Normalize(q[1])
      PROVE  p[2] = q[2] \/ None \in {p[2], q[2]}
  <2>1. Money!Price(out.registered, p[1]) = Money!Price(out.registered, q[1])
    BY <1>1 DEF Money!Price
  <2> QED BY <2>1 DEF RatesInv
<1> QED BY <1>1 DEF RatesInv, Money!RatesStand, None, Money!None

CostInv == \/ case.of = "costs" /\ BillInv
           \/ case.of = "rates" /\ RatesInv

LEMMA CostStarts ==
  ASSUME MoneyPlain, Money!Init
  PROVE  CostInv
<1>1. CASE /\ case \in [of : {"costs"}, turns : CostTurns, log : CostLogs, judges : CostJudges, status : CostStatuses]
           /\ at = "loading"
           /\ out = [records |-> {}, plan |-> [i \in {} |-> 0], turns |-> case.turns, next |-> 1, row |-> Money!NoRow]
  <2>1. case.of = "costs" /\ case.turns \in CostTurns /\ case.log \in CostLogs
    BY <1>1
  <2>2. BillTyped
    BY <1>1, <2>1 DEF BillTyped, MoneyPlain
  <2>3. BillPlanned /\ BillAdded
    BY <1>1 DEF BillPlanned, BillAdded
  <2>4. BillCredited
    BY <1>1, <2>2 DEF BillCredited, BillTyped
  <2> QED BY <2>1, <2>2, <2>3, <2>4 DEF CostInv, BillInv
<1>2. CASE /\ case = [of |-> "rates"] /\ at = "open"
           /\ out = [registered |-> [m \in {} |-> 0], seen |-> {}]
  BY <1>2 DEF CostInv, RatesInv
<1> QED BY <1>1, <1>2 DEF Money!Init

LEMMA CostStep ==
  ASSUME MoneyPlain, CostInv, [Money!Next]_(Money!vars)
  PROVE  CostInv'
<1>1. CASE case.of = "costs" /\ Money!Next
  <2>1. BillInv
    BY <1>1 DEF CostInv
  <2>2. case' = case
    BY <1>1 DEF Money!Next, Money!LoadRecords, Money!PlanJoin, Money!KeepStatic, Money!CreditTurn, Money!AllCredited, Money!AddUp
  <2>3. BillInv'
    BY <1>1, <2>1, LoadStep, PlanStep, KeepStep, CreditStep, CreditedStep, AddStep DEF Money!Next
  <2> QED BY <1>1, <2>2, <2>3 DEF CostInv
<1>2. CASE case.of = "rates" /\ Money!Next
  <2>1. RatesInv /\ Money!RegisterPricing
    BY <1>2 DEF CostInv, Money!Next
  <2>2. case' = case
    BY <2>1 DEF Money!RegisterPricing
  <2> QED BY <1>2, <2>1, <2>2, RegisterStep DEF CostInv
<1>3. CASE UNCHANGED Money!vars
  <2>1. case' = case /\ at' = at /\ out' = out
    BY <1>3 DEF Money!vars
  <2>2. BillPlanned => BillPlanned'
    BY <2>1 DEF BillPlanned, Money!Creditable, Money!Usable, Money!Mine
  <2>3. BillCredited => BillCredited'
    BY <2>1 DEF BillCredited, Becomes, Money!SiblingZeroed
  <2>4. BillTyped => BillTyped'
    BY <2>1 DEF BillTyped
  <2>5. BillAdded => BillAdded'
    BY <2>1 DEF BillAdded, Money!AgentCost, Money!CostComplete
  <2>6. RatesInv => RatesInv'
    BY <2>1 DEF RatesInv
  <2> QED BY <2>1, <2>2, <2>3, <2>4, <2>5, <2>6 DEF CostInv, BillInv
<1> QED BY <1>1, <1>2, <1>3 DEF CostInv

\* What a run is said to have cost is what its calls cost: an iteration is joined
\* whole, each call once, or left alone; the bill is the sum of its turns; and a
\* model keeps its price in every spelling, whatever batches are registered.  For
\* every list of turns, every log and every rate card
\* (_join_litellm_actual_cost, _aggregate_token_usage, register_pricing).
THEOREM CostsStayTold == Money!Spec => []CostsTold
<1>1. Money!Init => CostInv
  BY CostStarts, RulesAssumption
<1>2. CostInv /\ [Money!Next]_(Money!vars) => CostInv'
  BY CostStep, RulesAssumption
<1>3. CostInv => CostsTold
  BY JoinIsWhole, BillIsWhole, RatesAreStanding DEF CostInv, CostsTold, Money!CostsTold
<1> QED BY <1>1, <1>2, <1>3, PTL DEF Money!Spec

-----------------------------------------------------------------------------
(* The criteria that read the sandbox (FileCriteria).                      *)

Marks   == 0 .. 12

\* The cardinality of the instance is the cardinality.
LEMMA SandboxedCardinality == ASSUME NEW S PROVE Sandboxed!Cardinality(S) = Cardinality(S)
  BY DEF Sandboxed!Cardinality, Cardinality

\* A share of the marks, and all of them for the whole only.
LEMMA ShareGives ==
  ASSUME NEW n \in Nat, NEW d \in Nat \ {0}, n <= d
  PROVE  Sandboxed!Share(n, d) \in Marks /\ (Sandboxed!Share(n, d) = 12 <=> n = d)
<1>1. Sandboxed!Share(n, d) = (12 * n) \div d
  BY DEF Sandboxed!Share, Sandboxed!Full
<1>2. 12 * n \in Nat /\ 12 * n <= 12 * d
  OBVIOUS
<1>3. (12 * n) \div d \in 0 .. 12 /\ ((12 * n) \div d = 12 <=> 12 * n = 12 * d)
  BY <1>2, FullShare
<1> QED BY <1>1, <1>3 DEF Marks

\* A part of a finite set, in shares.
LEMMA PartGives ==
  ASSUME NEW S, IsFiniteSet(S), S # {}, NEW U \in SUBSET S
  PROVE  LET s == Sandboxed!Share(Cardinality(U), Cardinality(S)) IN s \in Marks /\ (s = 12 <=> U = S)
<1>1. IsFiniteSet(U) /\ Cardinality(U) \in Nat /\ Cardinality(S) \in Nat \ {0} /\ Cardinality(U) <= Cardinality(S)
      /\ (Cardinality(U) = Cardinality(S) => U = S)
  BY FS_Subset, FS_CardinalityType, FS_EmptySet
<1> QED BY <1>1, ShareGives

LEMMA SumOfMarks ==
  ASSUME NEW f, NEW S, IsFiniteSet(S), \A x \in S : f[x] \in 0 .. 12, NEW n, Cardinality(S) = n
  PROVE  /\ Sum(f, S) \in Nat /\ Sum(f, S) <= 12 * n
         /\ Sum(f, S) = 12 * n <=> \A x \in S : f[x] = 12
<1> DEFINE m == 12
<1>1. m \in Nat /\ \A x \in S : f[x] \in 0 .. m
  OBVIOUS
<1> HIDE DEF m
<1>2. /\ Sum(f, S) \in Nat /\ Sum(f, S) <= m * Cardinality(S)
      /\ Sum(f, S) = m * Cardinality(S) <=> \A x \in S : f[x] = m
  BY <1>1, SumAtMost
<1> QED BY <1>2 DEF m

\* A mean is full when every part is.
LEMMA MeanGives ==
  ASSUME NEW scores \in Seq(Marks), scores # << >>
  PROVE  Sandboxed!Mean(scores) \in Marks /\ (Sandboxed!Mean(scores) = 12 <=> \A i \in DOMAIN scores : scores[i] = 12)
<1> DEFINE n == Len(scores)
           s == Sum(scores, DOMAIN scores)
<1>1. Sandboxed!Mean(scores) = s \div n
  BY DEF Sandboxed!Mean, Sandboxed!FoldSeq, Sandboxed!FoldFunction, Sandboxed!FoldFunctionOnSet, Sandboxed!MapThenFoldSet,
         Sum, FoldFunctionOnSet, MapThenFoldSet
<1>2. n \in Nat \ {0} /\ DOMAIN scores = 1 .. n
  OBVIOUS
<1>3. IsFiniteSet(DOMAIN scores) /\ Cardinality(DOMAIN scores) = n
  <2>1. 1 \in Int /\ n \in Int /\ 1 <= n /\ n - 1 + 1 = n
    BY <1>2
  <2> QED BY <1>2, <2>1, FS_Interval
<1>4. \A i \in DOMAIN scores : scores[i] \in 0 .. 12
  BY DEF Marks
<1> HIDE DEF n
<1>5. s \in Nat /\ s <= 12 * n /\ (s = 12 * n <=> \A i \in DOMAIN scores : scores[i] = 12)
  BY <1>3, <1>4, SumOfMarks
<1> HIDE DEF s
<1>6. (s \div n) \in 0 .. 12 /\ (s \div n = 12 <=> s = 12 * n)
  BY <1>2, <1>5, FullShare
<1> QED BY <1>1, <1>5, <1>6 DEF Marks

LEMMA SameSequence ==
  ASSUME NEW s, NEW t, NEW S, s \in Seq(S), t \in Seq(S), Len(s) = Len(t), \A i \in 1 .. Len(s) : s[i] = t[i]
  PROVE  s = t
  OBVIOUS

LEMMA TwoInARow == ASSUME NEW S, NEW a \in S, NEW b \in S PROVE <<a>> \o <<b>> = <<a, b>>
<1>1. <<a>> \in Seq(S) /\ <<b>> \in Seq(S) /\ <<a, b>> \in Seq(S)
  OBVIOUS
<1>2. Len(<<a>>) = 1 /\ Len(<<b>>) = 1 /\ Len(<<a, b>>) = 2 /\ <<a>>[1] = a /\ <<b>>[1] = b /\ <<a, b>>[1] = a /\ <<a, b>>[2] = b
  OBVIOUS
<1>3. <<a>> \o <<b>> \in Seq(S) /\ Len(<<a>> \o <<b>>) = 2
  BY <1>1, <1>2
<1>4. (<<a>> \o <<b>>)[1] = a /\ (<<a>> \o <<b>>)[2] = b
  BY <1>1, <1>2
<1>5. \A i \in 1 .. 2 : (<<a>> \o <<b>>)[i] = <<a, b>>[i]
  BY <1>2, <1>4
<1> QED BY <1>1, <1>2, <1>3, <1>5, SameSequence

\* Includes and excludes.
LEMMA ActiveGives ==
  ASSUME NEW c, NEW f, IsFiniteSet(c.includes), IsFiniteSet(c.excludes)
  PROVE  /\ Sandboxed!Active(c, f) \in Seq(Marks)
         /\ Sandboxed!Active(c, f) = << >> <=> c.includes = {} /\ c.excludes = {}
         /\ (\A i \in DOMAIN Sandboxed!Active(c, f) : Sandboxed!Active(c, f)[i] = 12)
              <=> c.includes \subseteq f.words /\ c.excludes \cap f.words = {}
<1> DEFINE a == Sandboxed!IncludesScore(c, f)
           b == Sandboxed!ExcludesScore(c, f)
<1>1. c.includes # {} => a \in Marks /\ (a = 12 <=> c.includes \subseteq f.words)
  <2>1. c.includes \cap f.words \in SUBSET c.includes /\ (c.includes \cap f.words = c.includes <=> c.includes \subseteq f.words)
    OBVIOUS
  <2> DEFINE s == Sandboxed!Share(Cardinality(c.includes \cap f.words), Cardinality(c.includes))
  <2>2. c.includes # {} => s \in Marks /\ (s = 12 <=> c.includes \cap f.words = c.includes)
    BY <2>1, PartGives
  <2>3. a = s
    BY SandboxedCardinality DEF Sandboxed!IncludesScore
  <2> HIDE DEF a, s
  <2> QED BY <2>1, <2>2, <2>3
<1>2. c.excludes # {} => b \in Marks /\ (b = 12 <=> c.excludes \cap f.words = {})
  <2>1. c.excludes \ f.words \in SUBSET c.excludes /\ (c.excludes \ f.words = c.excludes <=> c.excludes \cap f.words = {})
    OBVIOUS
  <2> DEFINE s == Sandboxed!Share(Cardinality(c.excludes \ f.words), Cardinality(c.excludes))
  <2>2. c.excludes # {} => s \in Marks /\ (s = 12 <=> c.excludes \ f.words = c.excludes)
    BY <2>1, PartGives
  <2>3. b = s
    BY SandboxedCardinality DEF Sandboxed!ExcludesScore
  <2> HIDE DEF b, s
  <2> QED BY <2>1, <2>2, <2>3
<1>3. Sandboxed!Active(c, f) = (IF c.includes # {} THEN <<a>> ELSE << >>) \o (IF c.excludes # {} THEN <<b>> ELSE << >>)
  BY DEF Sandboxed!Active
<1> HIDE DEF a, b
<1>4. CASE c.includes = {} /\ c.excludes = {}
  <2>1. Sandboxed!Active(c, f) = << >>
    BY <1>3, <1>4
  <2> QED BY <1>4, <2>1
<1>5. CASE c.includes # {} /\ c.excludes = {}
  <2>1. Sandboxed!Active(c, f) = <<a>>
    BY <1>1, <1>3, <1>5
  <2> QED BY <1>1, <1>5, <2>1
<1>6. CASE c.includes = {} /\ c.excludes # {}
  <2>1. Sandboxed!Active(c, f) = <<b>>
    BY <1>2, <1>3, <1>6
  <2> QED BY <1>2, <1>6, <2>1
<1>7. CASE c.includes # {} /\ c.excludes # {}
  <2>0. Sandboxed!Active(c, f) = <<a>> \o <<b>>
    BY <1>3, <1>7
  <2>1. <<a>> \o <<b>> = <<a, b>>
    BY <1>1, <1>2, <1>7, TwoInARow
  <2>2. \A i \in DOMAIN <<a, b>> : i = 1 \/ i = 2
    OBVIOUS
  <2>3. (\A i \in DOMAIN <<a, b>> : <<a, b>>[i] = 12) <=> a = 12 /\ b = 12
    BY <2>2
  <2>4. <<a, b>> \in Seq(Marks) /\ <<a, b>> # << >>
    BY <1>1, <1>2, <1>7
  <2> QED BY <1>1, <1>2, <1>7, <2>0, <2>1, <2>3, <2>4
<1> QED BY <1>4, <1>5, <1>6, <1>7

LEMMA ConcatEmpty == ASSUME NEW S, NEW a \in Seq(S), NEW b \in Seq(S) PROVE a \o b = << >> <=> a = << >> /\ b = << >>
<1>1. Len(a) \in Nat /\ Len(b) \in Nat /\ a \o b \in Seq(S) /\ Len(a \o b) = Len(a) + Len(b)
  OBVIOUS
<1>2. (a = << >> <=> Len(a) = 0) /\ (b = << >> <=> Len(b) = 0) /\ (a \o b = << >> <=> Len(a \o b) = 0)
  BY <1>1
<1> QED BY <1>1, <1>2

\* Two sequences in a row are full when each of them is.
LEMMA AllInARow ==
  ASSUME NEW a \in Seq(Marks), NEW b \in Seq(Marks)
  PROVE  /\ a \o b \in Seq(Marks)
         /\ a \o b = << >> <=> a = << >> /\ b = << >>
         /\ (\A i \in DOMAIN (a \o b) : (a \o b)[i] = 12) <=> (\A i \in DOMAIN a : a[i] = 12) /\ (\A i \in DOMAIN b : b[i] = 12)
<1> DEFINE m == Len(a)
           n == Len(b)
           x == a \o b
<1>1. m \in Nat /\ n \in Nat /\ DOMAIN a = 1 .. m /\ DOMAIN b = 1 .. n
  OBVIOUS
<1>2. x \in Seq(Marks) /\ Len(x) = m + n /\ DOMAIN x = 1 .. m + n
  OBVIOUS
<1>3. /\ \A i \in 1 .. m : x[i] = a[i]
      /\ \A i \in 1 .. n : x[m + i] = b[i]
  OBVIOUS
<1>4. x = << >> <=> a = << >> /\ b = << >>
  BY ConcatEmpty
<1> HIDE DEF m, n, x
<1>5. \A i \in 1 .. m + n : i \in 1 .. m \/ \E j \in 1 .. n : i = m + j
  <2> TAKE i \in 1 .. m + n
  <2>1. CASE i <= m
    BY <1>1, <2>1
  <2>2. CASE i > m
    <3>1. i - m \in 1 .. n /\ i = m + (i - m)
      BY <1>1, <2>2
    <3> QED BY <3>1
  <2> QED BY <1>1, <2>1, <2>2
<1>6. (\A i \in 1 .. m + n : x[i] = 12) <=> (\A i \in 1 .. m : a[i] = 12) /\ (\A i \in 1 .. n : b[i] = 12)
  <2>1. (\A i \in 1 .. m : i \in 1 .. m + n) /\ \A i \in 1 .. n : m + i \in 1 .. m + n
    BY <1>1
  <2> QED BY <1>3, <1>5, <2>1
<1> QED BY <1>1, <1>2, <1>4, <1>6 DEF x

\* A count over a sequence, in shares.
LEMMA CountGives ==
  ASSUME NEW S, NEW seq \in Seq(S), seq # << >>, NEW U \in SUBSET DOMAIN seq
  PROVE  LET s == Sandboxed!Share(Sandboxed!Cardinality(U), Len(seq)) IN s \in Marks /\ (s = 12 <=> U = DOMAIN seq)
<1> DEFINE n == Len(seq)
<1>1. n \in Nat \ {0} /\ DOMAIN seq = 1 .. n /\ DOMAIN seq # {}
  OBVIOUS
<1> HIDE DEF n
<1>2. IsFiniteSet(1 .. n) /\ Cardinality(1 .. n) = n
  <2>1. 1 \in Int /\ n \in Int /\ 1 <= n /\ n - 1 + 1 = n
    BY <1>1
  <2> QED BY <2>1, FS_Interval
<1>3. IsFiniteSet(DOMAIN seq) /\ Cardinality(DOMAIN seq) = n
  BY <1>1, <1>2
<1>4. LET s == Sandboxed!Share(Cardinality(U), Cardinality(DOMAIN seq)) IN s \in Marks /\ (s = 12 <=> U = DOMAIN seq)
  BY <1>1, <1>3, PartGives
<1>5. Sandboxed!Cardinality(U) = Cardinality(U)
  BY SandboxedCardinality
<1> QED BY <1>3, <1>4, <1>5 DEF n

-----------------------------------------------------------------------------
\* A result that is fair on what is demanded, or an exception.
Fair(r, demanded) ==
  /\ r.raised = "none"
  /\ r.score \in Marks
  /\ r.score = 12 <=> demanded
  /\ r.error => r.score = 0
Raised(r, demanded) == r.raised = "other" /\ ~ demanded

LEMMA ScoreIs ==
  ASSUME NEW s
  PROVE  Sandboxed!Result(s, FALSE).raised = "none" /\ Sandboxed!Result(s, FALSE).score = s /\ ~ Sandboxed!Result(s, FALSE).error
  BY DEF Sandboxed!Result, Sandboxed!NoResult

LEMMA MissingIs == Sandboxed!Missing.raised = "none" /\ Sandboxed!Missing.score = 0
  BY DEF Sandboxed!Missing, Sandboxed!Result, Sandboxed!NoResult

LEMMA RaiseIs == ASSUME NEW k PROVE Sandboxed!Raise(k).raised = k
  BY DEF Sandboxed!Raise, Sandboxed!NoResult

\* A score that is full exactly when d.
LEMMA FairResult ==
  ASSUME NEW s \in Marks, NEW d, s = 12 <=> d
  PROVE  Fair(Sandboxed!Result(s, FALSE), d)
  BY ScoreIs DEF Fair

LEMMA FairAllOrNothing == ASSUME NEW d PROVE Fair(Sandboxed!Result(IF d THEN 12 ELSE 0, FALSE), d)
<1>1. (IF d THEN 12 ELSE 0) \in Marks /\ ((IF d THEN 12 ELSE 0) = 12 <=> d)
  BY DEF Marks
<1> DEFINE s == IF d THEN 12 ELSE 0
<1>2. s \in Marks /\ (s = 12 <=> d)
  BY <1>1
<1> HIDE DEF s
<1>3. Fair(Sandboxed!Result(s, FALSE), d)
  <2>1. Sandboxed!Result(s, FALSE).raised = "none" /\ Sandboxed!Result(s, FALSE).score = s /\ (Sandboxed!Result(s, FALSE).error => s = 0)
    BY <1>2, ScoreIs
  <2>2. Sandboxed!Result(s, FALSE).raised = "none" /\ Sandboxed!Result(s, FALSE).score \in Marks /\ (Sandboxed!Result(s, FALSE).error => Sandboxed!Result(s, FALSE).score = 0)
    BY <1>2, <2>1
  <2>3. Sandboxed!Result(s, FALSE).score = 12 <=> d
    BY <1>2, <2>1
  <2> QED BY <2>2, <2>3, Zenon DEF Fair
<1> QED BY <1>3 DEF s

LEMMA ZeroIsAMark == 0 \in Marks /\ 0 # 12
  BY DEF Marks

LEMMA FairMissing == ASSUME NEW d, ~ d PROVE Fair(Sandboxed!Missing, d)
  BY ZeroIsAMark, MissingIs, Zenon DEF Fair

\* Reading first: what cannot be read is not what was demanded.
LEMMA FairRead ==
  ASSUME NEW f, NEW r, NEW d, f.present /\ f.decodes => Fair(r, d), d => f.present /\ f.decodes
  PROVE  Fair(Sandboxed!Read(f, r), d) \/ Raised(Sandboxed!Read(f, r), d)
<1>1. CASE ~ f.present
  BY <1>1, FairMissing DEF Sandboxed!Read
<1>2. CASE f.present /\ ~ f.decodes
  BY <1>2, RaiseIs DEF Sandboxed!Read, Raised
<1>3. CASE f.present /\ f.decodes
  BY <1>3 DEF Sandboxed!Read
<1> QED BY <1>1, <1>2, <1>3

LEMMA FileExistsFair ==
  ASSUME NEW c, NEW f, c.type = "file_exists"
  PROVE  Fair(Sandboxed!FileExists(c, f), Sandboxed!Demanded(c, f))
  BY FairAllOrNothing DEF Sandboxed!FileExists, Sandboxed!Demanded, Sandboxed!Full

LEMMA FileContainsFair ==
  ASSUME NEW c, NEW f, c.type = "file_contains", IsFiniteSet(c.includes), IsFiniteSet(c.excludes)
  PROVE  LET r == Sandboxed!FileContains(c, f) IN Fair(r, Sandboxed!Demanded(c, f)) \/ Raised(r, Sandboxed!Demanded(c, f))
<1> DEFINE d == Sandboxed!Demanded(c, f)
           a == Sandboxed!Active(c, f)
           w == c.includes \subseteq f.words /\ c.excludes \cap f.words = {}
           s == IF a = << >> THEN 12 ELSE Sandboxed!Mean(a)
<1>1. d <=> f.present /\ f.decodes /\ w
  BY DEF Sandboxed!Demanded
<1>2. /\ a \in Seq(Marks)
      /\ a = << >> <=> c.includes = {} /\ c.excludes = {}
      /\ (\A i \in DOMAIN a : a[i] = 12) <=> w
  BY ActiveGives
<1>3. s \in Marks /\ (s = 12 <=> w)
  <2>1. CASE a = << >>
    <3>1. w
      BY <1>2, <2>1
    <3> HIDE DEF w, a
    <3> QED BY <2>1, <3>1 DEF Marks
  <2>2. CASE a # << >>
    <3> HIDE DEF w, a
    <3> QED BY <1>2, <2>2, MeanGives
  <2> QED BY <2>1, <2>2
<1>4. Sandboxed!FileContains(c, f) = Sandboxed!Read(f, Sandboxed!Result(s, FALSE))
  BY DEF Sandboxed!FileContains, Sandboxed!Full
<1> HIDE DEF d, s, w
<1>5. f.present /\ f.decodes => Fair(Sandboxed!Result(s, FALSE), d)
  BY <1>1, <1>3, FairResult
<1>6. LET r == Sandboxed!Read(f, Sandboxed!Result(s, FALSE)) IN Fair(r, d) \/ Raised(r, d)
  BY <1>1, <1>5, FairRead
<1> QED BY <1>4, <1>6 DEF d

LEMMA FileMatchesRegexFair ==
  ASSUME NEW c, NEW f, c.type = "file_matches_regex"
  PROVE  LET r == Sandboxed!FileMatchesRegex(c, f) IN Fair(r, Sandboxed!Demanded(c, f)) \/ Raised(r, Sandboxed!Demanded(c, f))
<1> DEFINE d == Sandboxed!Demanded(c, f)
           h == Sandboxed!Holds(c.pattern, f)
           q == IF ~ c.pattern.compiles THEN Sandboxed!Missing ELSE Sandboxed!Result(IF h THEN 12 ELSE 0, FALSE)
<1>1. d <=> f.present /\ f.decodes /\ h
  BY DEF Sandboxed!Demanded
<1>2. h => c.pattern.compiles
  BY DEF Sandboxed!Holds
<1>3. Sandboxed!FileMatchesRegex(c, f) = Sandboxed!Read(f, q)
  BY DEF Sandboxed!FileMatchesRegex, Sandboxed!Full
<1>4. Fair(q, h)
  <2>1. CASE ~ c.pattern.compiles
    BY <1>2, <2>1, FairMissing
  <2>2. CASE c.pattern.compiles
    <3>1. q = Sandboxed!Result(IF h THEN 12 ELSE 0, FALSE)
      BY <2>2
    <3> HIDE DEF h, q
    <3> QED BY <3>1, FairAllOrNothing
  <2> QED BY <2>1, <2>2
<1> HIDE DEF d, h, q
<1>5. f.present /\ f.decodes => Fair(q, d)
  BY <1>1, <1>4 DEF Fair
<1>6. LET r == Sandboxed!Read(f, q) IN Fair(r, d) \/ Raised(r, d)
  BY <1>1, <1>5, FairRead
<1> QED BY <1>3, <1>6 DEF d

LEMMA FileCheckFair ==
  ASSUME NEW c, NEW f, c.type = "file_check", IsFiniteSet(c.includes), IsFiniteSet(c.excludes), NEW S, c.patterns \in Seq(S)
  PROVE  LET r == Sandboxed!FileCheck(c, f) IN Fair(r, Sandboxed!Demanded(c, f)) \/ Raised(r, Sandboxed!Demanded(c, f))
<1> DEFINE d == Sandboxed!Demanded(c, f)
           a == Sandboxed!Active(c, f)
           w == c.includes \subseteq f.words /\ c.excludes \cap f.words = {}
           U == {i \in DOMAIN c.patterns : Sandboxed!Holds(c.patterns[i], f)}
           b == IF c.patterns # << >> THEN <<Sandboxed!PatternsScore(c, f)>> ELSE << >>
           all == \A i \in DOMAIN c.patterns : Sandboxed!Holds(c.patterns[i], f)
           empty == c.includes = {} /\ c.excludes = {} /\ c.patterns = << >>
           s == Sandboxed!Mean(a \o b)
<1>1. d <=> f.present /\ w /\ all /\ (~ empty => f.decodes)
  BY DEF Sandboxed!Demanded
<1>2. /\ a \in Seq(Marks)
      /\ a = << >> <=> c.includes = {} /\ c.excludes = {}
      /\ (\A i \in DOMAIN a : a[i] = 12) <=> w
  BY ActiveGives
<1>3. b \in Seq(Marks) /\ (b = << >> <=> c.patterns = << >>) /\ ((\A i \in DOMAIN b : b[i] = 12) <=> all)
  <2>1. CASE c.patterns = << >>
    <3>1. b = << >> /\ all
      BY <2>1
    <3> HIDE DEF b, all
    <3> QED BY <2>1, <3>1
  <2>2. CASE c.patterns # << >>
    <3> DEFINE p == Sandboxed!PatternsScore(c, f)
    <3>1. p = Sandboxed!Share(Sandboxed!Cardinality(U), Len(c.patterns))
      BY DEF Sandboxed!PatternsScore, Sandboxed!Count
    <3>2. U \in SUBSET DOMAIN c.patterns /\ (U = DOMAIN c.patterns <=> all)
      OBVIOUS
    <3>3. b = <<p>>
      BY <2>2
    <3> HIDE DEF U, all, p, b
    <3>4. p \in Marks /\ (p = 12 <=> U = DOMAIN c.patterns)
      BY <2>2, <3>1, <3>2, CountGives
    <3> QED BY <2>2, <3>2, <3>3, <3>4
  <2> QED BY <2>1, <2>2
<1>4. empty => w /\ all
  OBVIOUS
<1>5. Sandboxed!FileCheck(c, f) = IF f.present /\ empty THEN Sandboxed!Result(12, FALSE) ELSE Sandboxed!Read(f, Sandboxed!Result(s, FALSE))
  BY DEF Sandboxed!FileCheck, Sandboxed!Full
<1>6. empty <=> a = << >> /\ b = << >>
  BY <1>2, <1>3
<1> HIDE DEF d, a, b, w, all, empty
<1>7. CASE f.present /\ empty
  <2>1. d /\ 12 \in Marks
    BY <1>1, <1>4, <1>7 DEF Marks
  <2> QED BY <1>5, <1>7, <2>1, FairResult DEF d
<1>8. CASE ~ f.present /\ empty
  <2>1. Sandboxed!FileCheck(c, f) = Sandboxed!Missing /\ ~ d
    BY <1>1, <1>5, <1>8 DEF Sandboxed!Read
  <2> QED BY <2>1, FairMissing DEF d
<1>9. CASE ~ empty
  <2>1. /\ a \o b \in Seq(Marks) /\ a \o b # << >>
        /\ (\A i \in DOMAIN (a \o b) : (a \o b)[i] = 12) <=> w /\ all
    BY <1>2, <1>3, <1>6, <1>9, AllInARow
  <2>2. s \in Marks /\ (s = 12 <=> w /\ all)
    BY <2>1, MeanGives
  <2> HIDE DEF s
  <2>3. f.present /\ f.decodes => Fair(Sandboxed!Result(s, FALSE), d)
    BY <1>1, <2>2, FairResult
  <2>4. d => f.present /\ f.decodes
    BY <1>1, <1>9
  <2>5. LET r == Sandboxed!Read(f, Sandboxed!Result(s, FALSE)) IN Fair(r, d) \/ Raised(r, d)
    BY <2>3, <2>4, FairRead
  <2> QED BY <1>5, <1>9, <2>5 DEF d
<1> QED BY <1>7, <1>8, <1>9

LEMMA JsonCheckFair ==
  ASSUME NEW c, NEW f, c.type = "json_check", c.schema \in {"none", "holds", "fails", "missing", "malformed"},
         NEW S, c.assertions \in Seq(S)
  PROVE  LET r == Sandboxed!JsonCheck(c, f) IN Fair(r, Sandboxed!Demanded(c, f)) \/ Raised(r, Sandboxed!Demanded(c, f))
<1> DEFINE d == Sandboxed!Demanded(c, f)
           a == IF c.schema = "none" THEN << >> ELSE <<IF c.schema = "holds" THEN 12 ELSE 0>>
           U == {i \in DOMAIN c.assertions : c.assertions[i] = "holds"}
           p == Sandboxed!Share(Sandboxed!Cardinality(U), Len(c.assertions))
           b == IF c.assertions = << >> THEN << >> ELSE <<p>>
           w == c.schema \in {"none", "holds"}
           all == \A i \in DOMAIN c.assertions : c.assertions[i] = "holds"
           q == IF ~ f.json THEN Sandboxed!Missing
                ELSE IF a \o b = << >> THEN Sandboxed!Result(12, FALSE)
                ELSE IF a = <<0>> THEN Sandboxed!Result(0, FALSE)
                ELSE Sandboxed!Result(Sandboxed!Mean(a \o b), FALSE)
<1>1. d <=> f.present /\ f.decodes /\ f.json /\ w /\ all
  BY DEF Sandboxed!Demanded
<1>2. a \in Seq(Marks) /\ ((\A i \in DOMAIN a : a[i] = 12) <=> w) /\ (a = <<0>> => ~ w) /\ (a = << >> => w)
  <2>1. CASE c.schema = "none"
    <3>1. a = << >> /\ w
      BY <2>1
    <3> HIDE DEF a, w
    <3>2. << >> # <<0>>
      OBVIOUS
    <3> QED BY <3>1, <3>2
  <2>2. CASE c.schema = "holds"
    <3>1. a = <<12>> /\ w
      BY <2>2
    <3> HIDE DEF a, w
    <3> QED BY <3>1 DEF Marks
  <2>3. CASE c.schema \notin {"none", "holds"}
    <3>1. a = <<0>> /\ ~ w
      BY <2>3
    <3> HIDE DEF a, w
    <3>2. a \in Seq(Marks) /\ 1 \in DOMAIN a /\ a[1] = 0 /\ a # << >>
      BY <3>1 DEF Marks
    <3> QED BY <3>1, <3>2
  <2> QED BY <2>1, <2>2, <2>3
<1>3. b \in Seq(Marks) /\ ((\A i \in DOMAIN b : b[i] = 12) <=> all) /\ (b = << >> => all)
  <2>1. CASE c.assertions = << >>
    <3>1. b = << >> /\ all
      BY <2>1
    <3> HIDE DEF b, all
    <3> QED BY <2>1, <3>1
  <2>2. CASE c.assertions # << >>
    <3>2. U \in SUBSET DOMAIN c.assertions /\ (U = DOMAIN c.assertions <=> all)
      OBVIOUS
    <3>3. b = <<p>>
      BY <2>2
    <3> HIDE DEF U, all, b
    <3>4. p \in Marks /\ (p = 12 <=> U = DOMAIN c.assertions)
      BY <2>2, <3>2, CountGives
    <3> HIDE DEF p
    <3> QED BY <2>2, <3>2, <3>3, <3>4
  <2> QED BY <2>1, <2>2
<1>4. Sandboxed!JsonCheck(c, f) = Sandboxed!Read(f, q)
  BY DEF Sandboxed!JsonCheck, Sandboxed!Full, Sandboxed!Count
<1> HIDE DEF d, a, b, w, all, U, p
<1>5. Fair(q, f.json /\ w /\ all)
  <2> DEFINE e == f.json /\ w /\ all
  <2>1. CASE ~ f.json
    BY <2>1, FairMissing
  <2>2. CASE f.json /\ a \o b = << >>
    <3>1. e /\ 12 \in Marks /\ q = Sandboxed!Result(12, FALSE)
      BY <1>2, <1>3, <2>2, AllInARow DEF Marks
    <3> HIDE DEF e, q
    <3>2. Fair(q, e)
      BY <3>1, FairResult
    <3> QED BY <3>2 DEF e
  <2>3. CASE f.json /\ a \o b # << >> /\ a = <<0>>
    <3>1. ~ e
      BY <1>2, <2>3
    <3>2. q = Sandboxed!Result(0, FALSE)
      BY <2>3
    <3> HIDE DEF e, q
    <3>3. q.raised = "none" /\ q.score = 0
      BY <3>2, ScoreIs
    <3>4. q.score \in Marks /\ q.score # 12
      BY <3>3, ZeroIsAMark, Zenon
    <3>5. Fair(q, e)
      BY <3>1, <3>3, <3>4, Zenon DEF Fair
    <3> QED BY <3>5 DEF e
  <2>4. CASE f.json /\ a \o b # << >> /\ a # <<0>>
    <3>1. /\ a \o b \in Seq(Marks)
          /\ (\A i \in DOMAIN (a \o b) : (a \o b)[i] = 12) <=> w /\ all
      BY <1>2, <1>3, AllInARow
    <3>2. Sandboxed!Mean(a \o b) \in Marks /\ (Sandboxed!Mean(a \o b) = 12 <=> e)
      BY <2>4, <3>1, MeanGives
    <3>3. q = Sandboxed!Result(Sandboxed!Mean(a \o b), FALSE)
      BY <2>4
    <3> HIDE DEF e, q
    <3>4. Fair(q, e)
      <4>1. q.raised = "none" /\ q.score = Sandboxed!Mean(a \o b) /\ (q.error => Sandboxed!Mean(a \o b) = 0)
        BY <3>2, <3>3, ScoreIs
      <4>2. q.raised = "none" /\ q.score \in Marks /\ (q.error => q.score = 0)
        BY <3>2, <3>3, <4>1
      <4>3. q.score = 12 <=> e
        BY <3>2, <3>3, <4>1
      <4> QED BY <4>2, <4>3, Zenon DEF Fair
    <3> QED BY <3>4 DEF e
  <2> QED BY <2>1, <2>2, <2>3, <2>4
<1> HIDE DEF q
<1>6. f.present /\ f.decodes => Fair(q, d)
  BY <1>1, <1>5, Zenon DEF Fair
<1>7. LET r == Sandboxed!Read(f, q) IN Fair(r, d) \/ Raised(r, d)
  BY <1>1, <1>6, FairRead
<1> QED BY <1>4, <1>7 DEF d

LEMMA ClassificationMatchFair ==
  ASSUME NEW c, NEW f, c.type = "classification_match"
  PROVE  LET r == Sandboxed!ClassificationMatch(c, f) IN Fair(r, Sandboxed!Demanded(c, f)) \/ Raised(r, Sandboxed!Demanded(c, f))
<1> DEFINE d == Sandboxed!Demanded(c, f)
           e == Sandboxed!Observed(c, f) = Sandboxed!Canonical(c, c.expected)
           q == Sandboxed!Result(IF e THEN 12 ELSE 0, FALSE)
           r == Sandboxed!ClassificationMatch(c, f)
<1>1. d <=> ~ (f.present /\ ~ f.decodes) /\ e
  BY DEF Sandboxed!Demanded
<1>2. CASE f.present /\ ~ f.decodes
  <2>1. r = Sandboxed!Raise("other") /\ ~ d
    BY <1>1, <1>2 DEF Sandboxed!ClassificationMatch
  <2> HIDE DEF d, r
  <2>2. Raised(r, d)
    BY <2>1, RaiseIs DEF Raised
  <2> QED BY <2>2 DEF d, r
<1>3. CASE ~ (f.present /\ ~ f.decodes)
  <2>1. r = [q EXCEPT !.label = Sandboxed!Observed(c, f)]
    BY <1>3 DEF Sandboxed!ClassificationMatch, Sandboxed!Full
  <2>2. r.raised = q.raised /\ r.score = q.score /\ r.error = q.error
    BY <2>1 DEF Sandboxed!Result, Sandboxed!NoResult
  <2>3. d <=> e
    BY <1>1, <1>3
  <2> HIDE DEF e, r, d
  <2>4. Fair(q, e)
    BY FairAllOrNothing
  <2> HIDE DEF q
  <2>5. Fair(r, d)
    BY <2>2, <2>3, <2>4, Zenon DEF Fair
  <2> QED BY <2>5 DEF r, d
<1> QED BY <1>2, <1>3

LEMMA RunCommandFair ==
  ASSUME NEW c, NEW f, c.type = "run_command", case.outcome.first \in {"", "nan", "text", "below", "half", "above"}
  PROVE  Fair(Sandboxed!RunCommand(c, case.outcome), Sandboxed!Demanded(c, f))
<1> DEFINE o == case.outcome
           d == Sandboxed!Demanded(c, f)
           r == Sandboxed!RunCommand(c, o)
<1>1. CASE ~ c.fromStdout
  <2> DEFINE e == o.exit = "expected" /\ o.expected \in {"none", "matches"}
  <2>1. r = Sandboxed!Result(IF e THEN 12 ELSE 0, FALSE) /\ (d <=> e)
    BY <1>1 DEF Sandboxed!RunCommand, Sandboxed!Full, Sandboxed!Demanded
  <2> HIDE DEF e, r, d
  <2>2. Fair(r, e)
    BY <2>1, FairAllOrNothing
  <2>3. Fair(r, d)
    BY <2>1, <2>2, Zenon DEF Fair
  <2> QED BY <2>3 DEF r, d
<1>2. CASE c.fromStdout /\ (o.exit # "expected" \/ o.first \in {"", "nan", "text"})
  <2>1. r = Sandboxed!Missing /\ ~ d
    BY <1>2 DEF Sandboxed!RunCommand, Sandboxed!FromStdout, Sandboxed!Demanded
  <2> HIDE DEF r, d
  <2>2. Fair(r, d)
    <3>1. r.raised = "none" /\ r.score = 0
      BY <2>1, MissingIs
    <3>2. r.score \in Marks /\ r.score # 12
      BY <3>1, ZeroIsAMark, Zenon
    <3> QED BY <2>1, <3>1, <3>2, Zenon DEF Fair
  <2> QED BY <2>2 DEF r, d
<1>3. CASE c.fromStdout /\ o.exit = "expected" /\ o.first \in {"below", "half", "above"}
  <2> DEFINE s == CASE o.first = "below" -> 0 [] o.first = "half" -> 6 [] o.first = "above" -> 12
  <2>1. r = Sandboxed!Result(s, FALSE) /\ (d <=> o.first = "above")
    BY <1>3 DEF Sandboxed!RunCommand, Sandboxed!FromStdout, Sandboxed!Full, Sandboxed!Demanded
  <2>2. s \in Marks /\ (s = 12 <=> o.first = "above")
    <3>1. CASE o.first = "below"
      <4>1. s = 0
        BY <3>1
      <4> HIDE DEF s
      <4> QED BY <3>1, <4>1 DEF Marks
    <3>2. CASE o.first = "half"
      <4>1. s = 6
        BY <3>2
      <4> HIDE DEF s
      <4> QED BY <3>2, <4>1 DEF Marks
    <3>3. CASE o.first = "above"
      <4>1. s = 12
        BY <3>3
      <4> HIDE DEF s
      <4> QED BY <3>3, <4>1 DEF Marks
    <3> QED BY <1>3, <3>1, <3>2, <3>3
  <2> HIDE DEF s, r, d
  <2>3. s = 12 <=> d
    BY <2>1, <2>2
  <2>4. Fair(r, d)
    <3>1. r.raised = "none" /\ r.score = s /\ (r.error => s = 0)
      BY <2>1, <2>2, <2>3, ScoreIs
    <3>2. r.raised = "none" /\ r.score \in Marks /\ (r.error => r.score = 0)
      BY <2>1, <2>2, <2>3, <3>1
    <3>3. r.score = 12 <=> d
      BY <2>1, <2>2, <2>3, <3>1
    <3> QED BY <3>2, <3>3, Zenon DEF Fair
  <2> QED BY <2>4 DEF r, d
<1> QED BY <1>1, <1>2, <1>3

LEMMA UiPathEvalFair ==
  ASSUME NEW c, NEW f, c.type = "uipath_eval", IsFiniteSet(DOMAIN c.thresholds)
  PROVE  Fair(Sandboxed!UiPathEval(c, f, case.outcome), Sandboxed!Demanded(c, f))
<1> DEFINE o == case.outcome
           d == Sandboxed!Demanded(c, f)
           r == Sandboxed!UiPathEval(c, f, o)
           D == DOMAIN c.thresholds
           U == {m \in D : m \in DOMAIN Sandboxed!Metrics(c) /\ Sandboxed!Metrics(c)[m] >= c.thresholds[m]}
           ran == o.exit = "expected" /\ f.present /\ f.decodes /\ f.json
<1>1. d <=> ran /\ U = D
  BY DEF Sandboxed!Demanded
<1>2. r = IF ~ ran THEN Sandboxed!Result(0, FALSE)
          ELSE IF D = {} THEN Sandboxed!Result(12, FALSE)
          ELSE Sandboxed!Result(Sandboxed!Share(Sandboxed!Cardinality(U), Sandboxed!Cardinality(D)), FALSE)
  BY DEF Sandboxed!UiPathEval, Sandboxed!Full
<1>3. U \in SUBSET D
  OBVIOUS
<1> HIDE DEF d, r, U, ran
<1>4. CASE ~ ran
  <2>1. ~ d /\ 0 \in Marks
    BY <1>1, <1>4 DEF Marks
  <2>2. Fair(r, d)
    <3>1. r.raised = "none" /\ r.score = 0
      BY <1>2, <1>4, ScoreIs
    <3>2. r.score \in Marks /\ r.score # 12
      BY <3>1, ZeroIsAMark, Zenon
    <3> QED BY <2>1, <3>1, <3>2, Zenon DEF Fair
  <2> QED BY <2>2 DEF r, d
<1>5. CASE ran /\ D = {}
  <2>1. d /\ 12 \in Marks
    BY <1>1, <1>3, <1>5 DEF Marks
  <2>2. Fair(r, d)
    BY <1>2, <1>5, <2>1, FairResult
  <2> QED BY <2>2 DEF r, d
<1>6. CASE ran /\ D # {}
  <2> DEFINE s == Sandboxed!Share(Cardinality(U), Cardinality(D))
  <2>1. r = Sandboxed!Result(s, FALSE)
    BY <1>2, <1>6, SandboxedCardinality
  <2>2. s \in Marks /\ (s = 12 <=> U = D)
    BY <1>3, <1>6, PartGives
  <2> HIDE DEF s
  <2>3. s = 12 <=> d
    BY <1>1, <1>6, <2>2
  <2>4. Fair(r, d)
    BY <2>1, <2>2, <2>3, FairResult
  <2> QED BY <2>4 DEF r, d
<1> QED BY <1>4, <1>5, <1>6

\* The reference: a misuse is raised exactly when it is there to be wrong.
LEMMA ReferenceComparisonFair ==
  ASSUME NEW c, NEW f, c.type = "reference_comparison", c.similarity \in Marks \cup {-1}
  PROVE  LET r == Sandboxed!ReferenceComparison(c, f, case.reference)
         IN \/ Fair(r, Sandboxed!Demanded(c, f)) /\ case.reference \in {"none", "there"}
            \/ r.raised = "misuse" /\ case.reference \notin {"none", "there"}
<1> DEFINE d == Sandboxed!Demanded(c, f)
           r == Sandboxed!ReferenceComparison(c, f, case.reference)
           ok == f.present /\ f.decodes /\ c.similarity # -1
<1>1. d <=> case.reference = "there" /\ f.present /\ f.decodes /\ c.similarity = 12
  BY DEF Sandboxed!Demanded, Sandboxed!Full
<1>2. r = IF case.reference = "none" THEN Sandboxed!Missing
          ELSE IF case.reference # "there" THEN Sandboxed!Raise("misuse")
          ELSE IF ~ ok THEN Sandboxed!Missing ELSE Sandboxed!Result(c.similarity, FALSE)
  BY DEF Sandboxed!ReferenceComparison, Sandboxed!None
<1>3. ~ ok => ~ d
  BY <1>1
<1> HIDE DEF d, r
<1>4. CASE case.reference = "none" \/ (case.reference = "there" /\ ~ ok)
  <2>1. r = Sandboxed!Missing /\ ~ d
    BY <1>1, <1>2, <1>3, <1>4
  <2>2. Fair(r, d)
    BY <2>1, FairMissing
  <2> QED BY <1>4, <2>2 DEF r, d
<1>5. CASE case.reference \notin {"none", "there"}
  BY <1>2, <1>5, RaiseIs DEF r
<1>6. CASE case.reference = "there" /\ ok
  <2>1. r = Sandboxed!Result(c.similarity, FALSE) /\ c.similarity \in Marks /\ (c.similarity = 12 <=> d)
    BY <1>1, <1>2, <1>6
  <2>2. Fair(r, d)
    <3>1. r.raised = "none" /\ r.score = c.similarity /\ (r.error => c.similarity = 0)
      BY <2>1, ScoreIs
    <3>2. r.raised = "none" /\ r.score \in Marks /\ (r.error => r.score = 0)
      BY <2>1, <3>1
    <3>3. r.score = 12 <=> d
      BY <2>1, <3>1
    <3> QED BY <3>2, <3>3, Zenon DEF Fair
  <2> QED BY <1>6, <2>2 DEF r, d
<1> QED BY <1>4, <1>5, <1>6

-----------------------------------------------------------------------------
Result == Sandboxed!Checked(case.c, case.file)

\* What a checker gives: a fair result, its own failure, or the task's misuse.
Outcome(r, c, f) ==
  \/ Fair(r, Sandboxed!Demanded(c, f)) /\ (c.type = "reference_comparison" => case.reference \in {"none", "there"})
  \/ Raised(r, Sandboxed!Demanded(c, f)) /\ c.type # "reference_comparison"
  \/ r.raised = "misuse" /\ c.type = "reference_comparison" /\ case.reference \notin {"none", "there"}

CaseSane ==
  /\ case.c \in CheckedCriteria
  /\ case.outcome.first \in {"", "nan", "text", "below", "half", "above"}

LEMMA EveryCheckerIsFair ==
  ASSUME CriteriaPlain, CaseSane PROVE Outcome(Result, case.c, case.file)
<1> DEFINE c == case.c
           f == case.file
           t == c.type
           r == Result
<1>0. \/ t \in {"file_exists", "classification_match", "run_command"}
      \/ t = "file_matches_regex"
      \/ t = "file_contains" /\ IsFiniteSet(c.includes) /\ IsFiniteSet(c.excludes)
      \/ t = "file_check" /\ IsFiniteSet(c.includes) /\ IsFiniteSet(c.excludes) /\ ListOf(c.patterns)
      \/ t = "json_check" /\ c.schema \in {"none", "holds", "fails", "missing", "malformed"} /\ ListOf(c.assertions)
      \/ t = "reference_comparison" /\ c.similarity \in Marks \cup {-1}
      \/ t = "uipath_eval" /\ IsFiniteSet(DOMAIN c.thresholds)
  BY DEF CriteriaPlain, CaseSane, Marks
<1>1. CASE t = "file_exists"
  BY <1>1, FileExistsFair DEF Result, Sandboxed!Checked, Outcome
<1>2. CASE t = "file_contains"
  <2>1. r = Sandboxed!FileContains(c, f)
    BY <1>2 DEF Result, Sandboxed!Checked
  <2> QED BY <1>0, <1>2, <2>1, FileContainsFair DEF Outcome
<1>3. CASE t = "file_matches_regex"
  <2>1. r = Sandboxed!FileMatchesRegex(c, f)
    BY <1>3 DEF Result, Sandboxed!Checked
  <2> QED BY <1>3, <2>1, FileMatchesRegexFair DEF Outcome
<1>4. CASE t = "file_check"
  <2>1. r = Sandboxed!FileCheck(c, f)
    BY <1>4 DEF Result, Sandboxed!Checked
  <2>2. PICK S : c.patterns \in Seq(S)
    BY <1>0, <1>4 DEF ListOf
  <2> QED BY <1>0, <1>4, <2>1, <2>2, FileCheckFair DEF Outcome
<1>5. CASE t = "json_check"
  <2>1. r = Sandboxed!JsonCheck(c, f)
    BY <1>5 DEF Result, Sandboxed!Checked
  <2>2. PICK S : c.assertions \in Seq(S)
    BY <1>0, <1>5 DEF ListOf
  <2> QED BY <1>0, <1>5, <2>1, <2>2, JsonCheckFair DEF Outcome
<1>6. CASE t = "classification_match"
  <2>1. r = Sandboxed!ClassificationMatch(c, f)
    BY <1>6 DEF Result, Sandboxed!Checked
  <2> QED BY <1>6, <2>1, ClassificationMatchFair DEF Outcome
<1>7. CASE t = "reference_comparison"
  <2>1. r = Sandboxed!ReferenceComparison(c, f, case.reference)
    BY <1>7 DEF Result, Sandboxed!Checked
  <2> QED BY <1>0, <1>7, <2>1, ReferenceComparisonFair DEF Outcome
<1>8. CASE t = "run_command"
  <2>1. r = Sandboxed!RunCommand(c, case.outcome)
    BY <1>8 DEF Result, Sandboxed!Checked
  <2> QED BY <1>8, <2>1, RunCommandFair DEF Outcome, CaseSane
<1>9. CASE t = "uipath_eval"
  <2>1. r = Sandboxed!UiPathEval(c, f, case.outcome)
    BY <1>9 DEF Result, Sandboxed!Checked
  <2> QED BY <1>0, <1>9, <2>1, UiPathEvalFair DEF Outcome
<1> HIDE DEF c, f, t, r
<1> QED BY <1>0, <1>1, <1>2, <1>3, <1>4, <1>5, <1>6, <1>7, <1>8, <1>9

\* Two criteria that ask the same get the same.
LEMMA TheSameForTheSame ==
  ASSUME NEW c, NEW f, c.type = "file_check", c.patterns = << >>, f.decodes, IsFiniteSet(c.includes), IsFiniteSet(c.excludes)
  PROVE  Sandboxed!FileCheck(c, f).score = Sandboxed!FileContains(c, f).score
<1> DEFINE a == Sandboxed!Active(c, f)
<1>1. a \in Seq(Marks) /\ (a = << >> <=> c.includes = {} /\ c.excludes = {})
  BY ActiveGives
<1>2. a \o << >> = a
  BY <1>1
<1>3. Sandboxed!FileCheck(c, f) = IF f.present /\ a = << >> THEN Sandboxed!Result(12, FALSE)
                                  ELSE Sandboxed!Read(f, Sandboxed!Result(Sandboxed!Mean(a), FALSE))
  BY <1>1, <1>2 DEF Sandboxed!FileCheck, Sandboxed!Full
<1>4. Sandboxed!FileContains(c, f) = Sandboxed!Read(f, Sandboxed!Result(IF a = << >> THEN 12 ELSE Sandboxed!Mean(a), FALSE))
  BY DEF Sandboxed!FileContains, Sandboxed!Full
<1> HIDE DEF a
<1> QED BY <1>3, <1>4 DEF Sandboxed!Read

CheckInv ==
  case.of = "file" =>
    /\ CaseSane
    /\ \/ at = "checking"
       \/ at = "raised" /\ out = Result /\ out.raised # "none"
       \/ at = "scored" /\ ((out = Result /\ out.raised = "none") \/ (Result.raised \notin {"none", "misuse"} /\ out = Sandboxed!Missing))
       \/ at = "escalated" /\ Result.raised = "misuse"

LEMMA CheckInvHolds ==
  ASSUME CriteriaPlain
  PROVE  Sandboxed!Spec => []CheckInv
<1>1. Sandboxed!Init => CheckInv
  <2> SUFFICES ASSUME Sandboxed!Init PROVE CheckInv
    OBVIOUS
  <2>1. at = "checking"
    BY DEF Sandboxed!Init
  <2>2. PICK c \in CheckedCriteria :
          case \in [of : {"file"}, c : {c}, file : CheckedFiles, reference : Sandboxed!ReferencesFor(c), outcome : Sandboxed!OutcomesFor(c)]
    BY DEF Sandboxed!Init
  <2>3. case.c \in CheckedCriteria /\ case.outcome \in Sandboxed!OutcomesFor(c)
    BY <2>2
  <2>4. \A o \in Sandboxed!OutcomesFor(c) : o.first \in {"", "nan", "text", "below", "half", "above"}
    <3>1. Sandboxed!NoOutcome.first = ""
      BY DEF Sandboxed!NoOutcome
    <3>2. \A o \in Sandboxed!OutcomesFor(c) : o \in CheckedOutcomes \/ o = Sandboxed!NoOutcome
      BY DEF Sandboxed!OutcomesFor
    <3> QED BY <3>1, <3>2 DEF CriteriaPlain
  <2> QED BY <2>1, <2>3, <2>4 DEF CheckInv, CaseSane
<1>2. CheckInv /\ [Sandboxed!Next]_(Sandboxed!vars) => CheckInv'
  <2> SUFFICES ASSUME CheckInv, [Sandboxed!Next]_(Sandboxed!vars), case'.of = "file" PROVE CheckInv'
    BY DEF CheckInv
  <2>1. case' = case
    BY DEF Sandboxed!Next, Sandboxed!vars, Sandboxed!Check, Sandboxed!Escalate, Sandboxed!Capture
  <2>2. Result' = Result /\ CaseSane' /\ CaseSane
    BY <2>1 DEF Result, Sandboxed!Checked, CaseSane, CheckInv
  <2>3. CASE Sandboxed!Check
    <3>1. out' = Result /\ at' = IF out'.raised = "none" THEN "scored" ELSE "raised"
      BY <2>3 DEF Sandboxed!Check, Result
    <3>2. CASE out'.raised = "none"
      <4>1. at' = "scored" /\ out' = Result'
        BY <2>2, <3>1, <3>2
      <4>2. (CaseSane /\ at = "scored" /\ out = Result /\ out.raised = "none")'
        BY <2>2, <3>2, <4>1
      <4> QED BY <4>2 DEF CheckInv
    <3>3. CASE out'.raised # "none"
      <4>1. at' = "raised" /\ out' = Result'
        BY <2>2, <3>1, <3>3
      <4> QED BY <2>2, <3>3, <4>1 DEF CheckInv
    <3> QED BY <3>2, <3>3
  <2>4. CASE Sandboxed!Escalate
    <3>1. at = "raised" /\ out.raised = "misuse" /\ at' = "escalated"
      BY <2>4 DEF Sandboxed!Escalate
    <3>2. out = Result
      BY <2>1, <3>1 DEF CheckInv
    <3> QED BY <2>2, <3>1, <3>2 DEF CheckInv
  <2>5. CASE Sandboxed!Capture
    <3>1. at = "raised" /\ out.raised # "misuse" /\ at' = "scored" /\ out' = Sandboxed!Missing
      BY <2>5 DEF Sandboxed!Capture
    <3>2. out = Result /\ out.raised # "none"
      BY <2>1, <3>1 DEF CheckInv
    <3> QED BY <2>2, <3>1, <3>2 DEF CheckInv
  <2>6. CASE UNCHANGED Sandboxed!vars
    <3>1. at' = at /\ out' = out
      BY <2>6 DEF Sandboxed!vars
    <3> QED BY <2>1, <2>2, <3>1 DEF CheckInv
  <2> QED BY <2>3, <2>4, <2>5, <2>6 DEF Sandboxed!Next
<1> QED BY <1>1, <1>2, PTL DEF Sandboxed!Spec

LEMMA CheckInvSuffices == ASSUME CriteriaPlain, CheckInv PROVE CriterionHonest
<1> SUFFICES ASSUME case.of = "file" PROVE CriterionHonest
  BY DEF CriterionHonest, Sandboxed!CriterionHonest
<1> DEFINE c == case.c
           f == case.file
           d == Sandboxed!Demanded(c, f)
           bad == case.reference \notin {"none", "there"}
<1>1. CaseSane /\ Outcome(Result, c, f)
  BY EveryCheckerIsFair DEF CheckInv
<1>2. ASSUME at = "scored" PROVE Fair(out, d) /\ (c.type = "reference_comparison" => ~ bad)
  <2>1. CASE out = Result /\ out.raised = "none"
    BY <1>1, <2>1 DEF Outcome, Raised
  <2>2. CASE Result.raised \notin {"none", "misuse"} /\ out = Sandboxed!Missing
    <3>1. Raised(Result, d) /\ c.type # "reference_comparison"
      BY <1>1, <2>2 DEF Outcome, Fair
    <3>2. ~ d
      BY <3>1 DEF Raised
    <3> HIDE DEF d
    <3>3. Fair(out, d)
      BY <2>2, <3>2, ZeroIsAMark, MissingIs, Zenon DEF Fair
    <3> QED BY <3>1, <3>3
  <2> QED BY <1>2, <2>1, <2>2 DEF CheckInv
<1>3. ASSUME at = "escalated" PROVE c.type = "reference_comparison" /\ bad
  <2>1. Result.raised = "misuse"
    BY <1>3 DEF CheckInv
  <2> QED BY <1>1, <2>1 DEF Outcome, Fair, Raised
<1>4. ASSUME at = "scored", c.type = "file_check", c.patterns = << >>, f.decodes
      PROVE  out.score = Sandboxed!FileContains(c, f).score
  <2>1. IsFiniteSet(c.includes) /\ IsFiniteSet(c.excludes)
    BY <1>1, <1>4 DEF CaseSane, CriteriaPlain
  <2>2. Result = Sandboxed!FileCheck(c, f)
    BY <1>4 DEF Result, Sandboxed!Checked
  <2>3. Result.raised \in {"none"}
    BY <1>4, <2>2, MissingIs, ScoreIs DEF Sandboxed!FileCheck, Sandboxed!Read
  <2>4. out = Result
    BY <1>4, <2>3 DEF CheckInv
  <2> QED BY <1>4, <2>1, <2>2, <2>4, TheSameForTheSame
<1>5. at = "scored" => /\ out.score \in 0 .. 12
                       /\ out.score = 12 <=> d
                       /\ out.error => out.score = 0
                       /\ c.type = "reference_comparison" => ~ bad
  BY <1>2, Zenon DEF Fair, Marks
<1> QED BY <1>3, <1>4, <1>5 DEF CriterionHonest, Sandboxed!CriterionHonest, Sandboxed!Full

\* Full marks are given for what the criterion demands and for nothing else, an
\* error gives none, and a reference that cannot be read is told: for every file,
\* every outcome of a command and every criterion
\* (BaseCriterion.check, SuccessChecker._check_criterion).
THEOREM CriteriaStayHonest == Sandboxed!Spec => []CriterionHonest
<1>1. CriteriaPlain
  BY RulesAssumption
<1>2. Sandboxed!Spec => []CheckInv
  BY <1>1, CheckInvHolds
<1>3. CheckInv => CriterionHonest
  BY <1>1, CheckInvSuffices
<1> QED BY <1>2, <1>3, PTL

-----------------------------------------------------------------------------
(* What a batch publishes (Published).                                     *)

LEMMA ReportCardinality == ASSUME NEW S PROVE Report!Cardinality(S) = Cardinality(S)
  BY DEF Report!Cardinality, Cardinality

Val(rows, cells) == [c \in cells |-> IF rows[c].score = -1 THEN 0 ELSE rows[c].score]
Scored(rows, cells) == \A c \in cells : rows[c].score \in Nat \cup {-1}
Measured(rows, cells) == Report!MeasuredRows(rows, cells)

\* A mean is a sum over what was measured.
LEMMA MeanIs ==
  ASSUME NEW rows, NEW cells, IsFiniteSet(cells), Scored(rows, cells)
  PROVE  LET M == Measured(rows, cells)
         IN  /\ M \subseteq cells /\ IsFiniteSet(M) /\ Cardinality(M) \in Nat /\ (M # {} => Cardinality(M) > 0)
             /\ \A c \in cells : Val(rows, cells)[c] \in Nat
             /\ Sum(Val(rows, cells), M) \in Nat
             /\ Report!MeanScore(rows, cells) = IF M = {} THEN -1 ELSE Sum(Val(rows, cells), M) \div Cardinality(M)
<1> DEFINE M == Measured(rows, cells)
           f == [c \in M |-> IF rows[c].score = -1 THEN 0 ELSE rows[c].score]
           g == Val(rows, cells)
<1>1. M \subseteq cells
  BY DEF Measured, Report!MeasuredRows
<1>2. IsFiniteSet(M) /\ Cardinality(M) \in Nat /\ (M # {} => Cardinality(M) > 0)
  <2>1. IsFiniteSet(M) /\ Cardinality(M) \in Nat /\ (M # {} => Cardinality(M) # 0)
    BY <1>1, FS_Subset, FS_CardinalityType, FS_EmptySet
  <2> QED BY <2>1
<1>3. \A c \in cells : g[c] \in Nat
  BY DEF Val, Scored
<1>4. Report!MeanScore(rows, cells) = IF M = {} THEN -1 ELSE Sum(f, M) \div Cardinality(M)
  BY ReportCardinality DEF Measured, Report!MeanScore, Report!None, Sum, FoldFunctionOnSet, MapThenFoldSet,
     Report!FoldFunctionOnSet, Report!MapThenFoldSet
<1>5. \A c \in M : f[c] = g[c]
  BY <1>1 DEF Val
<1> HIDE DEF M, f, g
<1>6. Sum(f, M) = Sum(g, M)
  BY <1>2, <1>5, SumSame
<1>7. Sum(g, M) \in Nat
  BY <1>1, <1>2, <1>3, SumSubset
<1> QED BY <1>1, <1>2, <1>3, <1>4, <1>6, <1>7 DEF M, g

LEMMA DivMonotone ==
  ASSUME NEW a \in Nat, NEW b \in Nat, NEW m \in Nat, NEW n \in Nat, a <= b, 0 < n, n <= m
  PROVE  (a \div m) \in Nat /\ (b \div n) \in Nat /\ (a \div m) <= (b \div n)
<1> DEFINE p == a \div m
           q == b \div n
<1>1. p \in Nat /\ m * p <= a
  BY Division
<1>2. q \in Nat /\ b < n * q + n
  BY Division
<1> HIDE DEF p, q
<1>3. p <= q
  <2> SUFFICES ASSUME p >= q + 1 PROVE FALSE
    BY <1>1, <1>2
  <2>1. n * p >= n * (q + 1)
    BY <1>1, <1>2
  <2>2. m * p >= n * p
    BY <1>1
  <2>3. n * (q + 1) = n * q + n
    BY <1>2
  <2> QED BY <1>1, <1>2, <2>1, <2>2, <2>3
<1> QED BY <1>1, <1>2, <1>3 DEF p, q

\* A mean in which one measured row is worth less, or one more row nothing.
LEMMA MeanDrops ==
  ASSUME NEW old, NEW new, NEW cells, IsFiniteSet(cells), Scored(old, cells), Scored(new, cells), NEW x \in cells,
         \A c \in cells \ {x} : new[c].score = old[c].score /\ (new[c].status = "ungraded" <=> old[c].status = "ungraded"),
         new[x].status # "ungraded",
         IF old[x].status = "ungraded" THEN Val(new, cells)[x] = 0 ELSE Val(new, cells)[x] <= Val(old, cells)[x]
  PROVE  /\ Report!MeanScore(new, cells) \in Nat
         /\ Report!MeanScore(old, cells) # -1 => Report!MeanScore(new, cells) <= Report!MeanScore(old, cells)
         /\ Report!MeanScore(old, cells) = -1 => Report!MeanScore(new, cells) = 0
         /\ Report!MeanScore(old, cells) \in Nat \cup {-1}
<1> DEFINE M == Measured(old, cells)
           N == Measured(new, cells)
           f == Val(old, cells)
           g == Val(new, cells)
           R == M \ {x}
<1>1. N = M \cup {x} /\ N # {} /\ x \in N /\ R = N \ {x}
  BY DEF Measured, Report!MeasuredRows
<1>2. x \in M <=> old[x].status # "ungraded"
  BY DEF Measured, Report!MeasuredRows
<1>3. /\ M \subseteq cells /\ IsFiniteSet(M) /\ Cardinality(M) \in Nat /\ (M # {} => Cardinality(M) > 0)
      /\ \A c \in cells : f[c] \in Nat
      /\ Sum(f, M) \in Nat
      /\ Report!MeanScore(old, cells) = IF M = {} THEN -1 ELSE Sum(f, M) \div Cardinality(M)
  BY MeanIs
<1>4. /\ N \subseteq cells /\ IsFiniteSet(N) /\ Cardinality(N) \in Nat /\ Cardinality(N) > 0
      /\ \A c \in cells : g[c] \in Nat
      /\ Sum(g, N) \in Nat
      /\ Report!MeanScore(new, cells) = Sum(g, N) \div Cardinality(N)
  BY <1>1, MeanIs
<1>5. \A c \in R : f[c] = g[c]
  BY <1>3 DEF Val
<1>6. IF x \in M THEN g[x] <= f[x] ELSE g[x] = 0
  BY <1>2
<1> HIDE DEF M, N, f, g, R
<1>7. IsFiniteSet(R) /\ R \subseteq M
  BY <1>3, FS_Subset DEF R
<1>8. Sum(f, R) = Sum(g, R) /\ Sum(f, R) \in Nat
  BY <1>3, <1>5, <1>7, SumSame, SumSubset
<1>9. Sum(g, N) = g[x] + Sum(g, R)
  <2>1. \A c \in N : g[c] \in Int
    BY <1>4
  <2> QED BY <1>1, <1>4, <2>1, SumAny
<1>10. Cardinality(M) <= Cardinality(N)
  BY <1>1, <1>4, FS_Subset
<1>11. Sum(g, N) <= Sum(f, M)
  <2>1. CASE x \in M
    <3>1. \A c \in M : f[c] \in Int
      BY <1>3
    <3>2. Sum(f, M) = f[x] + Sum(f, R)
      BY <1>3, <2>1, <3>1, SumAny DEF R
    <3>3. f[x] \in Nat /\ g[x] \in Nat
      BY <1>3, <1>4
    <3> QED BY <1>6, <1>8, <1>9, <2>1, <3>2, <3>3
  <2>2. CASE x \notin M
    <3>1. M = R
      BY <2>2 DEF R
    <3> QED BY <1>6, <1>8, <1>9, <2>2, <3>1
  <2> QED BY <2>1, <2>2
<1>12. CASE M = {}
  <2>1. Sum(f, M) = 0
    BY <1>12, SumEmpty
  <2>2. Sum(g, N) = 0
    BY <1>4, <1>11, <2>1
  <2>3. Sum(g, N) \div Cardinality(N) = 0
    <3> DEFINE k == Cardinality(N)
    <3>1. k \in Nat \ {0}
      BY <1>4
    <3> HIDE DEF k
    <3>2. 0 \div k = 0
      BY <3>1
    <3> QED BY <2>2, <3>2 DEF k
  <2> QED BY <1>3, <1>4, <1>12, <2>3
<1>13. CASE M # {}
  <2>1. /\ Sum(g, N) \div Cardinality(N) \in Nat /\ Sum(f, M) \div Cardinality(M) \in Nat
        /\ (Sum(g, N) \div Cardinality(N)) <= (Sum(f, M) \div Cardinality(M))
    BY <1>3, <1>4, <1>10, <1>11, <1>13, DivMonotone
  <2> QED BY <1>3, <1>4, <1>13, <2>1
<1> QED BY <1>12, <1>13

-----------------------------------------------------------------------------
RowStatuses == {"ungraded", "error", "succeeded", "failed"}
RowsSane(rows) == \A c \in ReportedCells : rows[c].status \in RowStatuses /\ rows[c].score \in Nat \cup {-1}

\* The most urgent status of some rows is that of one of them, and none is more urgent.
LEMMA WorstIs ==
  ASSUME NEW rows, NEW cells, cells # {}, \A c \in cells : rows[c].status \in RowStatuses
  PROVE  /\ \E c \in cells : Report!WorstStatus(rows, cells) = rows[c].status
         /\ \A c \in cells : Report!Urgency[Report!WorstStatus(rows, cells)] <= Report!Urgency[rows[c].status]
<1> DEFINE T == {rows[c].status : c \in cells}
           Worst(s) == \A c \in cells : Report!Urgency[s] <= Report!Urgency[rows[c].status]
<1>1. T # {} /\ T \subseteq RowStatuses
  OBVIOUS
<1>2. /\ Report!Urgency["error"] = 0 /\ Report!Urgency["failed"] = 1
      /\ Report!Urgency["succeeded"] = 2 /\ Report!Urgency["ungraded"] = 3
  BY DEF Report!Urgency
<1>3. \A c \in cells : rows[c].status \in T
  OBVIOUS
<1>4. \E s \in T : \A t \in T : Report!Urgency[s] <= Report!Urgency[t]
  <2> HIDE DEF T
  <2>1. CASE "error" \in T
    BY <1>1, <1>2, <2>1 DEF RowStatuses
  <2>2. CASE "error" \notin T /\ "failed" \in T
    BY <1>1, <1>2, <2>2 DEF RowStatuses
  <2>3. CASE "error" \notin T /\ "failed" \notin T /\ "succeeded" \in T
    BY <1>1, <1>2, <2>3 DEF RowStatuses
  <2>4. CASE T = {"ungraded"}
    BY <1>2, <2>4
  <2> QED BY <1>1, <2>1, <2>2, <2>3, <2>4 DEF RowStatuses
<1>5. \E s \in T : Worst(s)
  BY <1>3, <1>4
<1>6. Report!WorstStatus(rows, cells) = CHOOSE s \in T : Worst(s)
  BY DEF Report!WorstStatus
<1>7. Report!WorstStatus(rows, cells) \in T /\ Worst(Report!WorstStatus(rows, cells))
  <2> HIDE DEF T, Worst
  <2> QED BY <1>5, <1>6
<1> QED BY <1>7

LEMMA WorstUngraded ==
  ASSUME NEW rows, NEW cells, cells # {}, \A c \in cells : rows[c].status \in RowStatuses
  PROVE  Report!WorstStatus(rows, cells) = "ungraded" <=> \A c \in cells : rows[c].status = "ungraded"
<1>1. /\ Report!Urgency["error"] = 0 /\ Report!Urgency["failed"] = 1
      /\ Report!Urgency["succeeded"] = 2 /\ Report!Urgency["ungraded"] = 3
  BY DEF Report!Urgency
<1>2. PICK d \in cells : Report!WorstStatus(rows, cells) = rows[d].status
  BY WorstIs
<1>3. \A c \in cells : Report!Urgency[Report!WorstStatus(rows, cells)] <= Report!Urgency[rows[c].status]
  BY WorstIs
<1>4. ASSUME Report!WorstStatus(rows, cells) = "ungraded", NEW c \in cells PROVE rows[c].status = "ungraded"
  <2>1. 3 <= Report!Urgency[rows[c].status] /\ rows[c].status \in RowStatuses
    BY <1>1, <1>3, <1>4
  <2> QED BY <1>1, <2>1 DEF RowStatuses
<1> QED BY <1>2, <1>4

LEMMA GroupsFinite ==
  ASSUME ReportPlain
  PROVE  /\ IsFiniteSet(Report!Groups)
         /\ \A g \in Report!Groups : Report!Replicates(g) # {} /\ Report!Replicates(g) \subseteq ReportedCells /\ IsFiniteSet(Report!Replicates(g))
<1>1. IsFiniteSet(ReportedCells)
  BY DEF ReportPlain
<1>2. IsFiniteSet(Report!Groups)
  <2> DEFINE f == [c \in ReportedCells |-> <<c[1], c[2]>>]
  <2>1. Report!Groups = {f[c] : c \in ReportedCells}
    BY DEF Report!Groups
  <2>2. f \in [ReportedCells -> Report!Groups] /\ \A g \in Report!Groups : \E c \in ReportedCells : f[c] = g
    BY <2>1
  <2>3. f \in Surjection(ReportedCells, Report!Groups)
    BY <2>2 DEF Surjection
  <2> HIDE DEF f
  <2> QED BY <1>1, <2>3, FS_Surjection
<1>3. \A g \in Report!Groups : Report!Replicates(g) # {} /\ Report!Replicates(g) \subseteq ReportedCells
  BY DEF Report!Groups, Report!Replicates
<1> QED BY <1>1, <1>2, <1>3, FS_Subset

\* A group folded: ungraded when all of it is.
LEMMA FoldedIs ==
  ASSUME ReportPlain, NEW rows, RowsSane(rows), NEW g \in Report!Groups
  PROVE  LET r == Report!Replicates(g)
         IN  /\ r # {} /\ IsFiniteSet(r) /\ Scored(rows, r)
             /\ \A c \in r : c \in ReportedCells /\ rows[c].status \in RowStatuses
             /\ Report!Folded(rows, g).status = Report!WorstStatus(rows, r)
             /\ Report!Folded(rows, g).score = Report!MeanScore(rows, r)
             /\ Report!Folded(rows, g).score \in Nat \cup {-1}
             /\ Report!Folded(rows, g).score = -1 <=> \A c \in r : rows[c].status = "ungraded"
             /\ Report!Folded(rows, g).status \in RowStatuses
<1> DEFINE r == Report!Replicates(g)
           M == Measured(rows, r)
<1>1. r # {} /\ IsFiniteSet(r) /\ r \subseteq ReportedCells
  BY GroupsFinite
<1>2. Scored(rows, r) /\ \A c \in r : rows[c].status \in RowStatuses
  BY <1>1 DEF RowsSane, Scored
<1>3. Report!Folded(rows, g).status = Report!WorstStatus(rows, r) /\ Report!Folded(rows, g).score = Report!MeanScore(rows, r)
  BY DEF Report!Folded
<1>4. M = {} <=> \A c \in r : rows[c].status = "ungraded"
  BY DEF Measured, Report!MeasuredRows
<1> HIDE DEF r, M
<1>5. /\ IsFiniteSet(M) /\ Cardinality(M) \in Nat /\ (M # {} => Cardinality(M) > 0)
      /\ Sum(Val(rows, r), M) \in Nat
      /\ Report!MeanScore(rows, r) = IF M = {} THEN -1 ELSE Sum(Val(rows, r), M) \div Cardinality(M)
  BY <1>1, <1>2, MeanIs DEF M
<1>6. M # {} => Report!MeanScore(rows, r) \in Nat
  <2> SUFFICES ASSUME M # {} PROVE Report!MeanScore(rows, r) \in Nat
    OBVIOUS
  <2> DEFINE a == Sum(Val(rows, r), M)
             k == Cardinality(M)
  <2>1. a \in Nat /\ k \in Nat \ {0} /\ Report!MeanScore(rows, r) = a \div k
    BY <1>5
  <2> HIDE DEF a, k
  <2> QED BY <2>1, Division
<1>7. Report!WorstStatus(rows, r) \in RowStatuses
  BY <1>1, <1>2, WorstIs
<1>8. -1 \notin Nat
  OBVIOUS
<1> QED BY <1>1, <1>2, <1>3, <1>4, <1>5, <1>6, <1>7, <1>8 DEF r

\* What a crashed row does to the mean of its variant.
LEMMA ErringCosts ==
  ASSUME ReportPlain, NEW rows, NEW after, RowsSane(rows), RowsSane(after), NEW v, NEW x \in ReportedCells, x[2] = v,
         \A c \in ReportedCells \ {x} : after[c] = rows[c],
         after[x].status = "error", after[x].score = -1,
         Report!AverageWith(rows, v) # -1
  PROVE  Report!AverageWith(after, v) <= Report!AverageWith(rows, v)
<1> DEFINE G == {h \in Report!Groups : h[2] = v}
           old == [g \in G |-> Report!Folded(rows, g)]
           new == [g \in G |-> Report!Folded(after, g)]
           y == <<x[1], x[2]>>
           r == Report!Replicates(y)
<1>1. Report!AverageWith(rows, v) = Report!MeanScore(old, G) /\ Report!AverageWith(after, v) = Report!MeanScore(new, G)
  BY DEF Report!AverageWith
<1>2. y \in G /\ x \in r /\ y \in Report!Groups
  BY DEF Report!Groups, Report!Replicates
<1>3. IsFiniteSet(G)
  BY GroupsFinite, FS_Subset
<1>4. \A g \in G : old[g] = Report!Folded(rows, g) /\ new[g] = Report!Folded(after, g) /\ g \in Report!Groups
  OBVIOUS
<1>5. Scored(old, G) /\ Scored(new, G)
  <2> SUFFICES ASSUME NEW g \in G PROVE old[g].score \in Nat \cup {-1} /\ new[g].score \in Nat \cup {-1}
    BY DEF Scored
  <2> QED BY <1>4, FoldedIs
<1>6. ASSUME NEW g \in G \ {y}
      PROVE  new[g].score = old[g].score /\ (new[g].status = "ungraded" <=> old[g].status = "ungraded")
  <2> DEFINE q == Report!Replicates(g)
  <2>1. x \notin q /\ q \subseteq ReportedCells /\ q # {}
    <3>1. x \notin q
      BY <1>6 DEF Report!Replicates
    <3> QED BY <1>4, <1>6, <3>1, GroupsFinite
  <2>2. \A c \in q : after[c] = rows[c] /\ rows[c].status \in RowStatuses
    BY <2>1 DEF RowsSane
  <2>3. Report!MeasuredRows(after, q) = Report!MeasuredRows(rows, q)
    BY <2>2 DEF Report!MeasuredRows
  <2>4. [c \in Report!MeasuredRows(after, q) |-> IF after[c].score = -1 THEN 0 ELSE after[c].score]
          = [c \in Report!MeasuredRows(rows, q) |-> IF rows[c].score = -1 THEN 0 ELSE rows[c].score]
    BY <2>2, <2>3 DEF Report!MeasuredRows
  <2>5. Report!MeanScore(after, q) = Report!MeanScore(rows, q)
    BY <2>3, <2>4 DEF Report!MeanScore, Report!None
  <2>6. Report!WorstStatus(after, q) = "ungraded" <=> Report!WorstStatus(rows, q) = "ungraded"
    BY <2>1, <2>2, WorstUngraded
  <2> QED BY <1>4, <1>6, <2>5, <2>6, FoldedIs
<1>7. /\ r # {} /\ IsFiniteSet(r) /\ Scored(rows, r) /\ Scored(after, r)
      /\ \A c \in r : c \in ReportedCells /\ rows[c].status \in RowStatuses /\ after[c].status \in RowStatuses
      /\ old[y].status = Report!WorstStatus(rows, r) /\ old[y].score = Report!MeanScore(rows, r)
      /\ new[y].status = Report!WorstStatus(after, r) /\ new[y].score = Report!MeanScore(after, r)
      /\ old[y].score = -1 <=> \A c \in r : rows[c].status = "ungraded"
  BY <1>2, <1>4, FoldedIs
<1>8. /\ Report!MeanScore(after, r) \in Nat
      /\ Report!MeanScore(rows, r) # -1 => Report!MeanScore(after, r) <= Report!MeanScore(rows, r)
      /\ Report!MeanScore(rows, r) = -1 => Report!MeanScore(after, r) = 0
      /\ Report!MeanScore(rows, r) \in Nat \cup {-1}
  <2>1. \A c \in r \ {x} : after[c].score = rows[c].score /\ (after[c].status = "ungraded" <=> rows[c].status = "ungraded")
    BY <1>7
  <2>2. after[x].status # "ungraded" /\ Val(after, r)[x] = 0 /\ Val(rows, r)[x] \in Nat
    BY <1>2, <1>7 DEF Val, Scored
  <2> HIDE DEF r
  <2>3. IF rows[x].status = "ungraded" THEN Val(after, r)[x] = 0 ELSE Val(after, r)[x] <= Val(rows, r)[x]
    BY <2>2
  <2> QED BY <1>2, <1>7, <2>1, <2>2, <2>3, MeanDrops
<1>9. new[y].status # "ungraded" /\ (old[y].status = "ungraded" <=> old[y].score = -1)
  <2>1. new[y].status = "ungraded" <=> \A c \in r : after[c].status = "ungraded"
    BY <1>7, WorstUngraded
  <2>2. old[y].status = "ungraded" <=> \A c \in r : rows[c].status = "ungraded"
    BY <1>7, WorstUngraded
  <2>3. after[x].status # "ungraded"
    OBVIOUS
  <2> HIDE DEF r, old, new
  <2> QED BY <1>2, <1>7, <2>1, <2>2, <2>3
<1>10. IF old[y].status = "ungraded" THEN Val(new, G)[y] = 0 ELSE Val(new, G)[y] <= Val(old, G)[y]
  <2>1. Val(new, G)[y] = (IF new[y].score = -1 THEN 0 ELSE new[y].score) /\ Val(old, G)[y] = (IF old[y].score = -1 THEN 0 ELSE old[y].score)
    BY <1>2 DEF Val
  <2> HIDE DEF old, new, G, r
  <2> QED BY <1>7, <1>8, <1>9, <2>1
<1> HIDE DEF old, new, G, r
<1>11. Report!MeanScore(old, G) # -1 => Report!MeanScore(new, G) <= Report!MeanScore(old, G)
  BY <1>2, <1>3, <1>5, <1>6, <1>9, <1>10, MeanDrops
<1> QED BY <1>1, <1>11

LEMMA KindsSane ==
  ASSUME NEW grade, NEW k \in Report!Kinds(grade)
  PROVE  k.status \in RowStatuses /\ k.score \in Nat \cup {-1}
  BY DEF Report!Kinds, Report!Row, Report!None, Report!Full, RowStatuses

LEMMA NoBonus ==
  ASSUME ReportPlain, NEW grade, case.rows \in [ReportedCells -> Report!Kinds(grade)]
  PROVE  Report!ErringEarnsNothing
<1> SUFFICES ASSUME NEW v \in Report!VariantIds, NEW x \in Report!RowsOf(v), Report!AverageWith(case.rows, v) # -1
             PROVE  Report!AverageWith([case.rows EXCEPT ![x] = Report!Row("error", Report!None, "none")], v) <= Report!AverageWith(case.rows, v)
  BY DEF Report!ErringEarnsNothing, Report!None
<1> DEFINE rows == case.rows
           after == [rows EXCEPT ![x] = Report!Row("error", Report!None, "none")]
<1>1. x \in ReportedCells /\ x[2] = v
  BY DEF Report!RowsOf
<1>2. RowsSane(rows)
  BY KindsSane DEF RowsSane
<1>3. /\ \A c \in ReportedCells \ {x} : after[c] = rows[c]
      /\ after[x] = Report!Row("error", Report!None, "none")
  BY <1>1
<1>4. after[x].status = "error" /\ after[x].score = -1
  BY <1>3 DEF Report!Row, Report!None
<1>5. RowsSane(after)
  BY <1>2, <1>3, <1>4 DEF RowsSane, RowStatuses
<1> HIDE DEF rows, after
<1> QED BY <1>1, <1>2, <1>3, <1>4, <1>5, ErringCosts DEF rows, after

-----------------------------------------------------------------------------
OfTask(t) == {g[2] : g \in {h \in Report!Groups : h[1] = t}}
ScoreOf(folded, t, v) == folded[<<t, v>>].score
WithScore(folded, t) == {v \in OfTask(t) : ScoreOf(folded, t, v) # -1}
TopOf(folded, t) == {v \in WithScore(folded, t) : \A w \in WithScore(folded, t) : ScoreOf(folded, t, w) <= ScoreOf(folded, t, v)}
LastVariant(S) == CHOOSE v \in S : \A w \in S : Report!Position(w) <= Report!Position(v)
FirstOf(S) == CHOOSE v \in S : \A w \in S : Report!Position(w) >= Report!Position(v)

LEMMA BestIs ==
  ASSUME NEW folded, DOMAIN folded = Report!Groups, NEW t, ~ Report!BestOf(folded, t).tie
  PROVE  IF WithScore(folded, t) # {} THEN Report!BestOf(folded, t).best = LastVariant(TopOf(folded, t)) /\ ~ (Cardinality(TopOf(folded, t)) > 1)
         ELSE Report!BestOf(folded, t).best = FirstOf(OfTask(t)) /\ ~ (Cardinality(OfTask(t)) > 1)
<1>1. Report!Cardinality(TopOf(folded, t)) = Cardinality(TopOf(folded, t)) /\ Report!Cardinality(OfTask(t)) = Cardinality(OfTask(t))
  BY ReportCardinality
<1>2. CASE WithScore(folded, t) # {}
  <2>1. Report!BestOf(folded, t) = [best |-> LastVariant(TopOf(folded, t)), tie |-> Cardinality(TopOf(folded, t)) > 1]
    BY <1>1, <1>2 DEF Report!BestOf, Report!None, WithScore, TopOf, OfTask, ScoreOf, LastVariant, FirstOf
  <2>2. Report!BestOf(folded, t).best = LastVariant(TopOf(folded, t)) /\ Report!BestOf(folded, t).tie = (Cardinality(TopOf(folded, t)) > 1)
    BY <2>1
  <2>3. ~ (Cardinality(TopOf(folded, t)) > 1)
    BY <2>2
  <2> QED BY <1>2, <2>2, <2>3
<1>3. CASE WithScore(folded, t) = {}
  <2>1. Report!BestOf(folded, t) = [best |-> FirstOf(OfTask(t)), tie |-> Cardinality(OfTask(t)) > 1]
    BY <1>1, <1>3 DEF Report!BestOf, Report!None, WithScore, TopOf, OfTask, ScoreOf, LastVariant, FirstOf
  <2>2. Report!BestOf(folded, t).best = FirstOf(OfTask(t)) /\ Report!BestOf(folded, t).tie = (Cardinality(OfTask(t)) > 1)
    BY <2>1
  <2>3. ~ (Cardinality(OfTask(t)) > 1)
    BY <2>2
  <2> QED BY <1>3, <2>2, <2>3
<1> QED BY <1>2, <1>3

LEMMA PositionIs ==
  ASSUME ReportPlain, NEW t, NEW v \in OfTask(t)
  PROVE  Report!Position(v) \in Int /\ <<t, v>> \in Report!Groups
<1>1. PICK h \in Report!Groups : h[1] = t /\ h[2] = v
  BY DEF OfTask
<1>2. PICK c \in ReportedCells : h = <<c[1], c[2]>>
  BY <1>1 DEF Report!Groups
<1>3. c[1] = t /\ c[2] = v
  BY <1>1, <1>2
<1>4. \E i \in DOMAIN ReportedVariants : ReportedVariants[i] = v
  BY <1>3 DEF ReportPlain
<1>5. Report!Position(v) \in DOMAIN ReportedVariants
  BY <1>4 DEF Report!Position
<1>6. DOMAIN ReportedVariants \subseteq Int
  BY DEF ReportPlain, ListOf
<1> QED BY <1>1, <1>2, <1>3, <1>5, <1>6

LEMMA OfTaskFinite == ASSUME ReportPlain, NEW t PROVE IsFiniteSet(OfTask(t))
<1> DEFINE D == {h \in Report!Groups : h[1] = t}
           f == [g \in D |-> g[2]]
<1>1. IsFiniteSet(D)
  BY GroupsFinite, FS_Subset
<1>2. OfTask(t) = {f[g] : g \in D}
  BY DEF OfTask
<1>3. f \in [D -> OfTask(t)] /\ \A v \in OfTask(t) : \E g \in D : f[g] = v
  BY <1>2
<1>4. f \in Surjection(D, OfTask(t))
  BY <1>3 DEF Surjection
<1> HIDE DEF D, f
<1> QED BY <1>1, <1>4, FS_Surjection

LEMMA NotManyIsOne ==
  ASSUME NEW S, IsFiniteSet(S), S # {}, ~ (Cardinality(S) > 1)
  PROVE  \E x : S = {x}
<1>1. Cardinality(S) \in Nat /\ Cardinality(S) # 0
  BY FS_CardinalityType, FS_EmptySet
<1>2. Cardinality(S) = 1
  BY <1>1
<1> QED BY <1>2, FS_Singleton

LEMMA BestWins ==
  ASSUME ReportPlain, NEW folded, DOMAIN folded = Report!Groups, \A g \in Report!Groups : folded[g].score \in Nat \cup {-1},
         NEW t, NEW v, <<t, v>> \in Report!Groups, ~ Report!BestOf(folded, t).tie, v # Report!BestOf(folded, t).best
  PROVE  folded[<<t, v>>].score < folded[<<t, Report!BestOf(folded, t).best>>].score
<1> DEFINE O == OfTask(t)
           W == WithScore(folded, t)
           P == TopOf(folded, t)
           sc(w) == ScoreOf(folded, t, w)
           best == Report!BestOf(folded, t).best
<1>1. v \in O
  <2>1. <<t, v>>[1] = t /\ <<t, v>>[2] = v
    OBVIOUS
  <2> QED BY <2>1 DEF OfTask
<1>2. IsFiniteSet(O) /\ \A w \in O : <<t, w>> \in Report!Groups /\ sc(w) \in Nat \cup {-1} /\ Report!Position(w) \in Int
  BY OfTaskFinite, PositionIs DEF ScoreOf
<1>0. \A w \in O : sc(w) \in Int
  <2>1. \A n \in Nat \cup {-1} : n \in Int
    OBVIOUS
  <2> HIDE DEF sc
  <2> QED BY <1>2, <2>1
<1>3. W = {w \in O : sc(w) # -1} /\ P = {w \in W : \A u \in W : sc(u) <= sc(w)}
  BY DEF WithScore, TopOf
<1>4. CASE W = {}
  <2>1. best = FirstOf(O) /\ ~ (Cardinality(O) > 1)
    BY <1>4, BestIs
  <2>2. PICK x : O = {x}
    BY <1>1, <1>2, <2>1, NotManyIsOne
  <2>3. FirstOf(O) = x
    <3>1. x \in O /\ Report!Position(x) \in Int
      BY <1>2, <2>2
    <3>2. \A w \in O : Report!Position(w) >= Report!Position(x)
      BY <2>2, <3>1
    <3> HIDE DEF O
    <3>3. FirstOf(O) \in O
      BY <3>1, <3>2 DEF FirstOf
    <3> QED BY <2>2, <3>3
  <2> QED BY <1>1, <2>1, <2>2, <2>3
<1>5. CASE W # {}
  <2>1. best = LastVariant(P) /\ ~ (Cardinality(P) > 1)
    BY <1>5, BestIs
  <2>2. P # {}
    <3> DEFINE f == [w \in W |-> sc(w)]
               N == {f[w] : w \in W}
    <3>1. IsFiniteSet(W)
      BY <1>2, <1>3, FS_Subset
    <3>2. f \in [W -> N] /\ \A n \in N : \E w \in W : f[w] = n
      OBVIOUS
    <3>3. f \in Surjection(W, N)
      BY <3>2 DEF Surjection
    <3>4. N \subseteq Int /\ N # {}
      <4>1. \A w \in W : f[w] \in Int
        BY <1>0, <1>3
      <4> HIDE DEF f, W
      <4> QED BY <1>5, <4>1
    <3>5. \A w \in W : f[w] = sc(w) /\ f[w] \in N
      OBVIOUS
    <3>6. \A n \in N : \E w \in W : n = sc(w)
      BY <3>5
    <3> HIDE DEF f, N, W, P
    <3>7. IsFiniteSet(N)
      BY <3>1, <3>3, FS_Surjection
    <3>8. PICK m \in N : \A n \in N : m >= n
      BY <3>4, <3>7, FiniteHasMax
    <3>9. PICK w \in W : sc(w) = m
      BY <3>6, <3>8
    <3>10. \A u \in W : sc(u) <= sc(w)
      BY <3>4, <3>5, <3>8, <3>9
    <3> QED BY <1>3, <3>9, <3>10
  <2>3. PICK x : P = {x}
    <3>1. IsFiniteSet(P)
      BY <1>2, <1>3, FS_Subset
    <3> QED BY <2>1, <2>2, <3>1, NotManyIsOne
  <2>4. best = x /\ x \in P /\ x \in O
    <3>1. x \in P /\ x \in O /\ Report!Position(x) \in Int
      BY <1>2, <1>3, <2>3
    <3>2. \A w \in P : Report!Position(w) <= Report!Position(x)
      BY <2>3, <3>1
    <3> HIDE DEF P
    <3>3. LastVariant(P) \in P
      BY <3>1, <3>2 DEF LastVariant
    <3> QED BY <2>1, <2>3, <3>1, <3>3
  <2>5. sc(x) \in Nat /\ \A u \in W : sc(u) <= sc(x)
    BY <1>2, <1>3, <2>4
  <2>6. CASE v \notin W
    <3>1. sc(v) = -1
      BY <1>1, <1>3, <2>6
    <3>2. sc(v) < sc(x)
      BY <2>5, <3>1
    <3> QED BY <2>4, <3>2 DEF ScoreOf
  <2>7. CASE v \in W
    <3>1. v \notin P
      BY <2>3, <2>4
    <3>2. PICK u \in W : ~ (sc(u) <= sc(v))
      BY <1>3, <2>7, <3>1
    <3>0. u \in O /\ v \in O /\ x \in O
      BY <1>3, <2>4, <2>7
    <3>3. sc(u) \in Int /\ sc(v) \in Int /\ sc(x) \in Int /\ sc(u) <= sc(x)
      BY <1>0, <2>5, <3>0
    <3>4. sc(v) < sc(x)
      BY <3>2, <3>3
    <3> QED BY <2>4, <3>4 DEF ScoreOf
  <2> QED BY <2>6, <2>7
<1> QED BY <1>4, <1>5

-----------------------------------------------------------------------------
Stages == {"summing", "folding", "rolling", "reporting", "exiting", "exited"}
OutFields == {"summary", "folded", "tasks", "variants", "rollups", "junit", "exit"}

\* What has been published so far is what the rows say.
ReportInv ==
  case.of = "report" =>
    /\ case.grade \in BOOLEAN /\ case.rows \in [ReportedCells -> Report!Kinds(case.grade)]
    /\ at \in Stages
    /\ DOMAIN out = OutFields /\ out = [f \in OutFields |-> out[f]]
    /\ at # "summing" => out.summary = Report!Counts(case.rows, ReportedCells)
    /\ DOMAIN out.folded \subseteq Report!Groups
    /\ \A g \in DOMAIN out.folded : out.folded[g] = Report!Folded(case.rows, g)
    /\ at \notin {"summing", "folding"} =>
         DOMAIN out.folded = Report!Groups /\ out.tasks = [t \in Report!Tasks |-> Report!BestOf(out.folded, t)]
    /\ at \in {"reporting", "exiting", "exited"} =>
         out.rollups = IF case.grade THEN [v \in Report!VariantIds |-> Report!Rollup(v)] ELSE << >>
    /\ at \in {"exiting", "exited"} =>
         out.junit = [failures |-> out.summary.failed + Report!GateCases, errors |-> out.summary.error, skipped |-> out.summary.ungraded]
    /\ at = "exited" => out.exit = IF Report!Failing THEN 1 ELSE 0

LEMMA ReportInvInit == ASSUME Report!Init PROVE ReportInv
<1> SUFFICES ASSUME case.of = "report" PROVE ReportInv
  BY DEF ReportInv
<1>1. PICK grade \in BOOLEAN :
        case \in [of : {"report"}, grade : {grade}, rows : [ReportedCells -> Report!Kinds(grade)], gate : ReportedGates, stale : BOOLEAN]
  BY DEF Report!Init
<1>2. case.grade = grade /\ case.rows \in [ReportedCells -> Report!Kinds(case.grade)]
  BY <1>1
<1>3. at = "summing" /\ out = [summary |-> << >>, folded |-> << >>, tasks |-> << >>, variants |-> << >>, rollups |-> << >>,
                               junit |-> << >>, exit |-> -1]
  BY DEF Report!Init, Report!None
<1>4. DOMAIN out = OutFields /\ out = [f \in OutFields |-> out[f]] /\ out.folded = << >>
  BY <1>3 DEF OutFields
<1>5. DOMAIN out.folded = {}
  BY <1>4
<1>6. at \in Stages
  BY <1>3 DEF Stages
<1> HIDE DEF OutFields, Stages
<1> QED BY <1>1, <1>2, <1>3, <1>4, <1>5, <1>6 DEF ReportInv

Fielded(o) == DOMAIN o = OutFields /\ o = [f \in OutFields |-> o[f]]

LEMMA SetField ==
  ASSUME NEW o, Fielded(o), NEW k \in OutFields, NEW e
  PROVE  /\ Fielded([o EXCEPT ![k] = e]) /\ [o EXCEPT ![k] = e][k] = e
         /\ \A f \in OutFields \ {k} : [o EXCEPT ![k] = e][f] = o[f]
  BY DEF Fielded

LEMMA ReportInvNext == ASSUME ReportInv, Report!Next PROVE ReportInv'
<1>0. case' = case /\ case.of = "report"
  BY DEF Report!Next, Report!BuildRunSummary, Report!FoldReplicates, Report!AggregateResults, Report!WriteSuiteRollups, Report!WriteJUnit, Report!Exit
<1>1. /\ case.grade \in BOOLEAN /\ case.rows \in [ReportedCells -> Report!Kinds(case.grade)]
      /\ Fielded(out)
      /\ DOMAIN out.folded \subseteq Report!Groups
      /\ \A g \in DOMAIN out.folded : out.folded[g] = Report!Folded(case.rows, g)
  BY <1>0 DEF ReportInv, Fielded
<1>2. CASE Report!BuildRunSummary
  <2> DEFINE e == Report!Counts(case.rows, ReportedCells)
  <2>1. at = "summing" /\ at' = "folding" /\ out' = [out EXCEPT !["summary"] = e]
    BY <1>2 DEF Report!BuildRunSummary
  <2>2. Fielded(out') /\ out'.summary = e /\ out'.folded = out.folded
    <3>1. Fielded([out EXCEPT !["summary"] = e]) /\ [out EXCEPT !["summary"] = e].summary = e /\ [out EXCEPT !["summary"] = e].folded = out.folded
      BY <1>1, SetField DEF OutFields
    <3> QED BY <2>1, <3>1
  <2> HIDE DEF e
  <2> QED BY <1>0, <1>1, <2>1, <2>2 DEF e, ReportInv, Fielded, Stages
<1>3. CASE Report!FoldReplicates
  <2>1. PICK g \in Report!Groups \ DOMAIN out.folded :
          out' = [out EXCEPT !.folded = [h \in DOMAIN @ \cup {g} |-> IF h = g THEN Report!Folded(case.rows, g) ELSE @[h]]]
    BY <1>3 DEF Report!FoldReplicates
  <2> DEFINE e == [h \in DOMAIN out.folded \cup {g} |-> IF h = g THEN Report!Folded(case.rows, g) ELSE out.folded[h]]
  <2>2. at = "folding" /\ at' = "folding" /\ out' = [out EXCEPT !["folded"] = e]
    BY <1>3, <2>1 DEF Report!FoldReplicates
  <2>3. DOMAIN e \subseteq Report!Groups /\ \A h \in DOMAIN e : e[h] = Report!Folded(case.rows, h)
    BY <1>1
  <2> HIDE DEF e
  <2>4. Fielded(out') /\ out'.folded = e /\ out'.summary = out.summary
    <3>1. Fielded([out EXCEPT !["folded"] = e]) /\ [out EXCEPT !["folded"] = e].folded = e /\ [out EXCEPT !["folded"] = e].summary = out.summary
      BY <1>1, SetField DEF OutFields
    <3> QED BY <2>1, <2>2, <3>1
  <2>5. out.summary = Report!Counts(case.rows, ReportedCells)
    BY <1>0, <2>2 DEF ReportInv
  <2> QED BY <1>0, <1>1, <2>2, <2>3, <2>4, <2>5 DEF ReportInv, Fielded, Stages
<1>4. CASE Report!AggregateResults
  <2> DEFINE e == [t \in Report!Tasks |-> Report!BestOf(out.folded, t)]
             a == [v \in Report!VariantIds |-> Report!VariantAggregate(out.folded, v)]
             mid == [out EXCEPT !["tasks"] = e]
  <2>1. at = "folding" /\ at' = "rolling" /\ DOMAIN out.folded = Report!Groups /\ out' = [mid EXCEPT !["variants"] = a]
    BY <1>4 DEF Report!AggregateResults
  <2>2. Fielded(mid) /\ mid.tasks = e /\ mid.folded = out.folded /\ mid.summary = out.summary
    BY <1>1, SetField DEF OutFields
  <2>0. out.summary = Report!Counts(case.rows, ReportedCells)
    BY <1>0, <2>1 DEF ReportInv
  <2> HIDE DEF mid, a
  <2>3. Fielded(out') /\ out'.tasks = e /\ out'.folded = out.folded /\ out'.summary = out.summary
    <3>1. Fielded([mid EXCEPT !["variants"] = a]) /\ [mid EXCEPT !["variants"] = a].tasks = e /\ [mid EXCEPT !["variants"] = a].folded = out.folded /\ [mid EXCEPT !["variants"] = a].summary = out.summary
      BY <1>1, <2>2, SetField DEF OutFields
    <3> QED BY <2>1, <2>2, <3>1
  <2>4. out'.tasks = [t \in Report!Tasks |-> Report!BestOf(out'.folded, t)]
    BY <2>3
  <2> HIDE DEF e
  <2> QED BY <1>0, <1>1, <2>0, <2>1, <2>3, <2>4 DEF ReportInv, Fielded, Stages
<1>5. CASE Report!WriteSuiteRollups
  <2> DEFINE e == IF case.grade THEN [v \in Report!VariantIds |-> Report!Rollup(v)] ELSE << >>
  <2>1. at = "rolling" /\ at' = "reporting" /\ out' = [out EXCEPT !["rollups"] = e]
    BY <1>5 DEF Report!WriteSuiteRollups
  <2>0. /\ out.summary = Report!Counts(case.rows, ReportedCells)
        /\ DOMAIN out.folded = Report!Groups /\ out.tasks = [t \in Report!Tasks |-> Report!BestOf(out.folded, t)]
    BY <1>0, <2>1 DEF ReportInv
  <2>2. e' = e
    BY <1>0 DEF Report!Rollup, Report!GatePassed, Report!Checked, Report!Metric, Report!Hits, Report!Labelled
  <2> HIDE DEF e
  <2>3. Fielded(out') /\ out'.rollups = e' /\ out'.tasks = out.tasks /\ out'.folded = out.folded /\ out'.summary = out.summary
    <3>1. Fielded([out EXCEPT !["rollups"] = e]) /\ [out EXCEPT !["rollups"] = e].rollups = e /\ [out EXCEPT !["rollups"] = e].tasks = out.tasks /\ [out EXCEPT !["rollups"] = e].folded = out.folded /\ [out EXCEPT !["rollups"] = e].summary = out.summary
      BY <1>1, SetField DEF OutFields
    <3> QED BY <2>1, <2>2, <3>1
  <2> QED BY <1>0, <1>1, <2>0, <2>1, <2>3 DEF e, ReportInv, Fielded, Stages
<1>6. CASE Report!WriteJUnit
  <2> DEFINE e == [failures |-> out.summary.failed + Report!GateCases, errors |-> out.summary.error, skipped |-> out.summary.ungraded]
             r == IF case.grade THEN [v \in Report!VariantIds |-> Report!Rollup(v)] ELSE << >>
  <2>1. at = "reporting" /\ at' = "exiting" /\ out' = [out EXCEPT !["junit"] = e]
    BY <1>6 DEF Report!WriteJUnit
  <2>0. /\ out.summary = Report!Counts(case.rows, ReportedCells)
        /\ DOMAIN out.folded = Report!Groups /\ out.tasks = [t \in Report!Tasks |-> Report!BestOf(out.folded, t)]
        /\ out.rollups = r
    BY <1>0, <2>1 DEF ReportInv
  <2>2. r' = r
    BY <1>0 DEF Report!Rollup, Report!GatePassed, Report!Checked, Report!Metric, Report!Hits, Report!Labelled
  <2> HIDE DEF r, e
  <2>3. Fielded(out') /\ out'.junit = e /\ out'.rollups = out.rollups /\ out'.tasks = out.tasks /\ out'.folded = out.folded /\ out'.summary = out.summary
    <3>1. Fielded([out EXCEPT !["junit"] = e]) /\ [out EXCEPT !["junit"] = e].junit = e /\ [out EXCEPT !["junit"] = e].rollups = out.rollups /\ [out EXCEPT !["junit"] = e].tasks = out.tasks /\ [out EXCEPT !["junit"] = e].folded = out.folded /\ [out EXCEPT !["junit"] = e].summary = out.summary
      BY <1>1, SetField DEF OutFields
    <3> QED BY <2>1, <2>2, <3>1
  <2>4. Report!GateCases' = Report!GateCases
    BY <1>0, <2>3 DEF Report!GateCases, Report!FailedGates
  <2>5. e' = e
    BY <2>3, <2>4 DEF e
  <2> QED BY <1>0, <1>1, <2>0, <2>1, <2>2, <2>3, <2>5 DEF e, r, ReportInv, Fielded, Stages
<1>7. CASE Report!Exit
  <2> DEFINE e == IF Report!Failing THEN 1 ELSE 0
             j == [failures |-> out.summary.failed + Report!GateCases, errors |-> out.summary.error, skipped |-> out.summary.ungraded]
             r == IF case.grade THEN [v \in Report!VariantIds |-> Report!Rollup(v)] ELSE << >>
  <2>1. at = "exiting" /\ at' = "exited" /\ out' = [out EXCEPT !["exit"] = e]
    BY <1>7 DEF Report!Exit
  <2>0. /\ out.summary = Report!Counts(case.rows, ReportedCells)
        /\ DOMAIN out.folded = Report!Groups /\ out.tasks = [t \in Report!Tasks |-> Report!BestOf(out.folded, t)]
        /\ out.rollups = r /\ out.junit = j
    BY <1>0, <2>1 DEF ReportInv
  <2>2. r' = r
    BY <1>0 DEF Report!Rollup, Report!GatePassed, Report!Checked, Report!Metric, Report!Hits, Report!Labelled
  <2> HIDE DEF r, e, j
  <2>3. /\ Fielded(out') /\ out'.exit = e /\ out'.junit = out.junit /\ out'.rollups = out.rollups
        /\ out'.tasks = out.tasks /\ out'.folded = out.folded /\ out'.summary = out.summary
    <3>1. /\ Fielded([out EXCEPT !["exit"] = e]) /\ [out EXCEPT !["exit"] = e].exit = e /\ [out EXCEPT !["exit"] = e].junit = out.junit /\ [out EXCEPT !["exit"] = e].rollups = out.rollups
          /\ [out EXCEPT !["exit"] = e].tasks = out.tasks /\ [out EXCEPT !["exit"] = e].folded = out.folded /\ [out EXCEPT !["exit"] = e].summary = out.summary
      BY <1>1, SetField DEF OutFields
    <3> QED BY <2>1, <2>2, <3>1
  <2>4. Report!GateCases' = Report!GateCases /\ Report!FailedGates' = Report!FailedGates
    BY <1>0, <2>3 DEF Report!GateCases, Report!FailedGates
  <2>5. j' = j
    BY <2>3, <2>4 DEF j
  <2>6. e' = e
    BY <1>0, <2>3, <2>4 DEF e, Report!Failing
  <2> QED BY <1>0, <1>1, <2>0, <2>1, <2>2, <2>3, <2>5, <2>6 DEF e, j, r, ReportInv, Fielded, Stages
<1> QED BY <1>2, <1>3, <1>4, <1>5, <1>6, <1>7 DEF Report!Next

LEMMA ReportInvHolds == Report!Spec => []ReportInv
<1>1. ReportInv /\ UNCHANGED Report!vars => ReportInv'
  <2> SUFFICES ASSUME ReportInv, UNCHANGED Report!vars PROVE ReportInv'
    OBVIOUS
  <2>1. case' = case /\ at' = at /\ out' = out
    BY DEF Report!vars
  <2> DEFINE r == IF case.grade THEN [v \in Report!VariantIds |-> Report!Rollup(v)] ELSE << >>
             j == [failures |-> out.summary.failed + Report!GateCases, errors |-> out.summary.error, skipped |-> out.summary.ungraded]
             e == IF Report!Failing THEN 1 ELSE 0
  <2>2. r' = r
    BY <2>1 DEF Report!Rollup, Report!GatePassed, Report!Checked, Report!Metric, Report!Hits, Report!Labelled
  <2>3. Report!GateCases' = Report!GateCases /\ Report!FailedGates' = Report!FailedGates
    BY <2>1 DEF Report!GateCases, Report!FailedGates
  <2>4. j' = j
    BY <2>1, <2>3
  <2>5. e' = e
    BY <2>1, <2>3 DEF Report!Failing
  <2> HIDE DEF r, j, e
  <2> QED BY <2>1, <2>2, <2>4, <2>5 DEF r, j, e, ReportInv
<1> QED BY <1>1, ReportInvInit, ReportInvNext, PTL DEF Report!Spec

LEMMA CountsAreCounts ==
  ASSUME NEW rows, NEW cells, IsFiniteSet(cells)
  PROVE  LET n == Report!Counts(rows, cells) IN n.failed \in Nat /\ n.error \in Nat /\ n.ungraded \in Nat
<1>1. \A s : IsFiniteSet(Report!In(rows, cells, s)) /\ Cardinality(Report!In(rows, cells, s)) \in Nat
  BY FS_Subset, FS_CardinalityType DEF Report!In
<1>2. /\ Report!Counts(rows, cells).failed = Cardinality(Report!In(rows, cells, "failed"))
      /\ Report!Counts(rows, cells).error = Cardinality(Report!In(rows, cells, "error"))
      /\ Report!Counts(rows, cells).ungraded = Cardinality(Report!In(rows, cells, "ungraded"))
  BY ReportCardinality DEF Report!Counts
<1> QED BY <1>1, <1>2

LEMMA GatesFinite ==
  ASSUME ReportPlain, out.rollups = IF case.grade THEN [v \in Report!VariantIds |-> Report!Rollup(v)] ELSE << >>
  PROVE  IsFiniteSet(Report!FailedGates)
<1>1. IsFiniteSet(Report!VariantIds)
  <2>1. PICK n \in Nat : DOMAIN ReportedVariants = 1 .. n
    BY DEF ReportPlain, ListOf
  <2>2. IsFiniteSet(DOMAIN ReportedVariants)
    <3>1. 1 \in Int /\ n \in Int
      BY <2>1
    <3> QED BY <2>1, <3>1, FS_Interval
  <2> DEFINE f == [i \in DOMAIN ReportedVariants |-> ReportedVariants[i]]
  <2>3. f \in [DOMAIN ReportedVariants -> Report!VariantIds] /\ \A v \in Report!VariantIds : \E i \in DOMAIN ReportedVariants : f[i] = v
    BY DEF Report!VariantIds
  <2>4. f \in Surjection(DOMAIN ReportedVariants, Report!VariantIds)
    BY <2>3 DEF Surjection
  <2> HIDE DEF f
  <2> QED BY <2>2, <2>4, FS_Surjection
<1>2. DOMAIN out.rollups \subseteq Report!VariantIds
  <2>1. CASE case.grade
    <3>1. out.rollups = [v \in Report!VariantIds |-> Report!Rollup(v)]
      BY <2>1
    <3> QED BY <3>1
  <2>2. CASE ~ case.grade
    <3>1. out.rollups = << >>
      BY <2>2
    <3>2. DOMAIN out.rollups = {}
      BY <3>1
    <3> QED BY <3>2
  <2> QED BY <2>1, <2>2
<1>3. Report!FailedGates \subseteq DOMAIN out.rollups
  BY DEF Report!FailedGates
<1> QED BY <1>1, <1>2, <1>3, FS_Subset

LEMMA ReportInvSuffices == ASSUME ReportPlain, ReportInv PROVE ReportsHonest
<1> SUFFICES ASSUME case.of = "report", at = "exited"
             PROVE  Report!ErringEarnsNothing /\ Report!ComparisonHolds /\ Report!OneVerdict
  BY DEF ReportsHonest, Report!ReportsHonest, Report!Exited
<1>1. /\ case.grade \in BOOLEAN /\ case.rows \in [ReportedCells -> Report!Kinds(case.grade)]
      /\ out.summary = Report!Counts(case.rows, ReportedCells)
      /\ DOMAIN out.folded = Report!Groups /\ out.tasks = [t \in Report!Tasks |-> Report!BestOf(out.folded, t)]
      /\ \A g \in Report!Groups : out.folded[g] = Report!Folded(case.rows, g)
      /\ out.rollups = IF case.grade THEN [v \in Report!VariantIds |-> Report!Rollup(v)] ELSE << >>
      /\ out.junit = [failures |-> out.summary.failed + Report!GateCases, errors |-> out.summary.error, skipped |-> out.summary.ungraded]
      /\ out.exit = IF Report!Failing THEN 1 ELSE 0
  BY DEF ReportInv
<1>2. Report!ErringEarnsNothing
  BY <1>1, NoBonus
<1>3. RowsSane(case.rows)
  BY <1>1, KindsSane DEF RowsSane
<1>4. Report!ComparisonHolds
  <2>1. ASSUME NEW g \in Report!Groups, out.folded[g].status = "succeeded", NEW c \in Report!Replicates(g)
        PROVE  case.rows[c].status \in {"succeeded", "ungraded"}
    <3> DEFINE r == Report!Replicates(g)
    <3>1. Report!WorstStatus(case.rows, r) = "succeeded" /\ r # {} /\ \A d \in r : case.rows[d].status \in RowStatuses
      BY <1>1, <1>3, <2>1, FoldedIs
    <3>2. Report!Urgency["succeeded"] <= Report!Urgency[case.rows[c].status]
      <4> HIDE DEF r
      <4>1. \A d \in r : Report!Urgency[Report!WorstStatus(case.rows, r)] <= Report!Urgency[case.rows[d].status]
        BY <3>1, WorstIs
      <4> QED BY <2>1, <3>1, <4>1 DEF r
    <3>3. /\ Report!Urgency["error"] = 0 /\ Report!Urgency["failed"] = 1
          /\ Report!Urgency["succeeded"] = 2 /\ Report!Urgency["ungraded"] = 3
      BY DEF Report!Urgency
    <3>4. case.rows[c].status \in RowStatuses
      BY <2>1, <3>1
    <3> QED BY <3>2, <3>3, <3>4 DEF RowStatuses
  <2>2. ASSUME NEW t \in Report!Tasks, ~ out.tasks[t].tie, NEW v \in Report!VariantIds \ {out.tasks[t].best}, <<t, v>> \in Report!Groups
        PROVE  out.folded[<<t, v>>].score < out.folded[<<t, out.tasks[t].best>>].score
    <3>1. out.tasks[t] = Report!BestOf(out.folded, t)
      BY <1>1
    <3>2. \A g \in Report!Groups : out.folded[g].score \in Nat \cup {-1}
      BY <1>1, <1>3, FoldedIs
    <3>3. ~ Report!BestOf(out.folded, t).tie /\ v # Report!BestOf(out.folded, t).best
      BY <2>2, <3>1
    <3>4. out.folded[<<t, v>>].score < out.folded[<<t, Report!BestOf(out.folded, t).best>>].score
      BY <1>1, <2>2, <3>2, <3>3, BestWins
    <3> QED BY <3>1, <3>4
  <2> QED BY <2>1, <2>2 DEF Report!ComparisonHolds
<1>5. Report!OneVerdict
  <2> DEFINE n == out.summary
             k == Cardinality(Report!FailedGates)
             s == IF case.stale THEN 1 ELSE 0
  <2>1. n.failed \in Nat /\ n.error \in Nat /\ n.ungraded \in Nat
    BY <1>1, CountsAreCounts DEF ReportPlain
  <2>2. k \in Nat /\ (k = 0 <=> Report!FailedGates = {})
    BY <1>1, GatesFinite, FS_CardinalityType, FS_EmptySet
  <2>3. out.junit.failures = n.failed + (k + s) /\ out.junit.errors = n.error /\ out.junit.skipped = n.ungraded
    BY <1>1, ReportCardinality DEF Report!GateCases
  <2>4. Report!Failing <=> n.failed > 0 \/ n.error > 0 \/ k # 0 \/ (case.grade /\ n.ungraded > 0)
    BY <2>2 DEF Report!Failing
  <2>5. out.exit = 0 <=> ~ Report!Failing
    BY <1>1
  <2>6. s \in {0, 1} /\ (~ case.stale => s = 0)
    OBVIOUS
  <2> HIDE DEF n, k, s
  <2>7. ASSUME out.exit = 0 PROVE out.junit.errors = 0 /\ (out.junit.failures = 0 \/ case.stale)
    <3>1. ~ (n.failed > 0) /\ ~ (n.error > 0) /\ k = 0
      BY <2>4, <2>5, <2>7
    <3>2. n.failed = 0 /\ n.error = 0
      BY <2>1, <3>1
    <3> QED BY <2>3, <2>6, <3>1, <3>2
  <2>8. ASSUME out.junit.errors = 0, out.junit.failures = 0 PROVE out.exit = 0 \/ (case.grade /\ out.junit.skipped > 0)
    <3>1. n.failed + (k + s) = 0 /\ n.error = 0
      BY <2>3, <2>8
    <3>2. n.failed = 0 /\ k = 0
      BY <2>1, <2>2, <2>6, <3>1
    <3>3. Report!Failing => case.grade /\ n.ungraded > 0
      BY <2>4, <3>1, <3>2
    <3> QED BY <2>3, <2>5, <3>3
  <2>9. ASSUME case.gate # "none", NEW v \in DOMAIN out.rollups, out.rollups[v].passed PROVE Report!Checked(Report!RowsOf(v)) # {}
    <3>1. case.grade
      <4> SUFFICES ASSUME ~ case.grade PROVE FALSE
        OBVIOUS
      <4>1. out.rollups = << >>
        BY <1>1
      <4> QED BY <2>9, <4>1
    <3>2. out.rollups = [u \in Report!VariantIds |-> Report!Rollup(u)]
      BY <1>1, <3>1
    <3>3. out.rollups[v] = Report!Rollup(v)
      BY <2>9, <3>2
    <3>4. Report!GatePassed(Report!RowsOf(v))
      BY <2>9, <3>3 DEF Report!Rollup
    <3> QED BY <2>9, <3>4 DEF Report!GatePassed
  <2> QED BY <2>7, <2>8, <2>9 DEF Report!OneVerdict
<1> QED BY <1>2, <1>4, <1>5

\* What a batch publishes is one account of its rows: the summary, the comparison
\* of its variants, the gates of its suite, the JUnit file and the exit code say
\* the same, however many rows there are and however they ended
\* (summary.py, experiment.py, suite rollups, junit.py).
THEOREM ReportsStayHonest == Report!Spec => []ReportsHonest
<1>1. ReportInv => ReportsHonest
  BY ReportInvSuffices, RulesAssumption
<1> QED BY <1>1, ReportInvHolds, PTL

-----------------------------------------------------------------------------
(* The wall clock of a turn (TurnTime).                                    *)

\* A sum over a set is the sum of the sums over the fibres of a function.
Fibres(f, S, h, W) == [w \in W |-> Sum(f, {x \in S : h[x] = w})]
Joined(c, W)       == UNION {c[w] : w \in W}

LEMMA SumFibres ==
  ASSUME NEW f, NEW S, IsFiniteSet(S), \A x \in S : f[x] \in Int, NEW h, NEW W, IsFiniteSet(W), \A x \in S : h[x] \in W
  PROVE  Sum(f, S) = Sum(Fibres(f, S, h, W), W)
<1> DEFINE F == Fibres(f, S, h, W)
<1>0. \A w \in W : F[w] = Sum(f, {x \in S : h[x] = w})
  BY DEF Fibres
<1> HIDE DEF F
<1> DEFINE P(A) == {x \in S : h[x] \in A}
           T == {A \in SUBSET W : Sum(f, P(A)) = Sum(F, A)}
<1>1. \A A : IsFiniteSet(P(A)) /\ \A x \in P(A) : f[x] \in Int
  BY FS_Subset
<1>2. \A w \in W : F[w] \in Int
  <2> TAKE w \in W
  <2> DEFINE q == {x \in S : h[x] = w}
  <2>1. IsFiniteSet(q) /\ \A x \in q : f[x] \in Int
    BY FS_Subset
  <2>2. F[w] = Sum(f, q)
    BY <1>0
  <2> HIDE DEF q
  <2> QED BY <2>1, <2>2, SumInt
<1>3. {} \in T
  <2>1. P({}) = {}
    OBVIOUS
  <2>2. Sum(f, P({})) = 0 /\ Sum(F, {}) = 0
    BY <2>1, SumEmpty
  <2> QED BY <2>2
<1>4. ASSUME NEW A \in SUBSET W, NEW w \in W \ A, A \in T PROVE A \cup {w} \in T
  <2> DEFINE q == {x \in S : h[x] = w}
             p == P(A)
  <2>1. P(A \cup {w}) = p \cup q /\ p \cap q = {}
    OBVIOUS
  <2>2. IsFiniteSet(p) /\ IsFiniteSet(q) /\ \A x \in p \cup q : f[x] \in Int
    BY FS_Subset
  <2>3. F[w] = Sum(f, q) /\ Sum(f, p) = Sum(F, A)
    BY <1>0, <1>4
  <2> HIDE DEF p, q, P
  <2>4. Sum(f, p \cup q) = Sum(f, p) + Sum(f, q)
    BY <2>1, <2>2, SumUnion
  <2>5. Sum(F, A \cup {w}) = Sum(F, A) + F[w]
    <3>1. IsFiniteSet(A) /\ w \notin A /\ \A y \in A \cup {w} : F[y] \in Int
      BY <1>2, FS_Subset
    <3> QED BY <3>1, SumAdd
  <2> QED BY <2>1, <2>3, <2>4, <2>5
<1> HIDE DEF T
<1>5. W \in T
  BY <1>3, <1>4, FiniteSetInduction
<1>6. P(W) = S
  OBVIOUS
<1> QED BY <1>5, <1>6 DEF T, F

\* The sizes of disjoint sets add up to the size of their union.
LEMMA SumOfSizes ==
  ASSUME NEW W, IsFiniteSet(W), NEW c, NEW F, \A w \in W : IsFiniteSet(c[w]) /\ F[w] = Cardinality(c[w]),
         \A v, w \in W : v # w => c[v] \cap c[w] = {}
  PROVE  IsFiniteSet(Joined(c, W)) /\ Sum(F, W) = Cardinality(Joined(c, W))
<1> DEFINE U(A) == Joined(c, A)
           T == {A \in SUBSET W : IsFiniteSet(U(A)) /\ Sum(F, A) = Cardinality(U(A))}
<1>1. \A w \in W : F[w] \in Int
  BY FS_CardinalityType
<1>2. {} \in T
  <2>1. U({}) = {}
    BY DEF Joined
  <2>2. Sum(F, {}) = 0 /\ Cardinality(U({})) = 0 /\ IsFiniteSet(U({}))
    BY <2>1, SumEmpty, FS_EmptySet
  <2> QED BY <2>2
<1>3. ASSUME NEW A \in SUBSET W, NEW w \in W \ A, A \in T PROVE A \cup {w} \in T
  <2>1. U(A \cup {w}) = U(A) \cup c[w] /\ U(A) \cap c[w] = {}
    BY DEF Joined
  <2>2. IsFiniteSet(U(A)) /\ IsFiniteSet(c[w]) /\ Sum(F, A) = Cardinality(U(A)) /\ F[w] = Cardinality(c[w])
    BY <1>3
  <2> HIDE DEF U
  <2>3. IsFiniteSet(U(A) \cup c[w]) /\ Cardinality(U(A) \cup c[w]) = Cardinality(U(A)) + Cardinality(c[w])
    <3>1. Cardinality(U(A) \cap c[w]) = 0
      BY <2>1, FS_EmptySet
    <3>2. /\ IsFiniteSet(U(A) \cup c[w])
          /\ Cardinality(U(A) \cup c[w]) = Cardinality(U(A)) + Cardinality(c[w]) - Cardinality(U(A) \cap c[w])
      BY <2>2, FS_Union
    <3>3. Cardinality(U(A)) \in Nat /\ Cardinality(c[w]) \in Nat
      BY <2>2, FS_CardinalityType
    <3> QED BY <3>1, <3>2, <3>3
  <2>4. Sum(F, A \cup {w}) = Sum(F, A) + F[w]
    <3>1. IsFiniteSet(A) /\ w \notin A /\ \A y \in A \cup {w} : F[y] \in Int
      BY <1>1, FS_Subset
    <3> QED BY <3>1, SumAdd
  <2> QED BY <2>1, <2>2, <2>3, <2>4
<1> HIDE DEF T
<1>4. W \in T
  BY <1>2, <1>3, FiniteSetInduction
<1> QED BY <1>4 DEF T

LEMMA TimeCardinality == ASSUME NEW S PROVE Time!Cardinality(S) = Cardinality(S)
  BY DEF Time!Cardinality, Cardinality

LEMMA FoldIsSum == ASSUME NEW f, NEW S PROVE Time!FoldFunctionOnSet(+, 0, f, S) = Sum(f, S)
  BY DEF Sum, FoldFunctionOnSet, MapThenFoldSet, Time!FoldFunctionOnSet, Time!MapThenFoldSet

-----------------------------------------------------------------------------
\* What is left of a window, shared out between two messages.
LEMMA ShareBounds ==
  ASSUME NEW len \in Nat \ {0}, NEW net \in Nat, net <= len, NEW a \in Nat, a <= len
  PROVE  LET q == (net * a) \div len IN q \in 0 .. a /\ q <= net /\ net - q \in 0 .. (len - a)
<1> DEFINE p == net * a
           q == p \div len
<1>1. p \in Nat
  OBVIOUS
<1> HIDE DEF p
<1>2. q \in Nat /\ len * q <= p /\ p < len * q + len
  BY <1>1, Division
<1> HIDE DEF q
<1>3. q <= a
  <2> SUFFICES ASSUME q >= a + 1 PROVE FALSE
    BY <1>2
  <2>1. len * q >= len * (a + 1)
    BY <1>2
  <2>2. len * a >= net * a
    OBVIOUS
  <2>3. len * (a + 1) = len * a + len
    OBVIOUS
  <2> QED BY <1>2, <2>1, <2>2, <2>3 DEF p
<1>4. q <= net
  <2> SUFFICES ASSUME q >= net + 1 PROVE FALSE
    BY <1>2
  <2>1. len * q >= len * (net + 1)
    BY <1>2
  <2>2. net * len >= net * a
    OBVIOUS
  <2>3. len * (net + 1) = net * len + len
    OBVIOUS
  <2> QED BY <1>2, <2>1, <2>2, <2>3 DEF p
<1>5. net - q <= len - a
  <2> SUFFICES ASSUME net - q >= len - a + 1 PROVE FALSE
    BY <1>2
  <2> DEFINE b == len - a
             d == len - net
  <2>1. b \in Nat /\ d \in Nat /\ a = len - b /\ net = len - d
    OBVIOUS
  <2>2. q <= len - d - b - 1
    BY <1>2, <2>1
  <2>3. len * q <= len * (len - d - b - 1)
    BY <1>2, <2>1, <2>2
  <2>4. len * (len - d - b - 1) = len * len - len * d - len * b - len
    BY <2>1
  <2>5. p = len * len - len * b - len * d + d * b
    <3>1. p = (len - d) * (len - b)
      BY <2>1 DEF p
    <3>2. (len - d) * (len - b) = len * (len - b) - d * (len - b)
      BY <2>1
    <3>3. len * (len - b) = len * len - len * b /\ d * (len - b) = len * d - d * b
      BY <2>1
    <3> QED BY <2>1, <3>1, <3>2, <3>3
  <2>6. d * b >= 0
    BY <2>1
  <2> DEFINE x1 == len * len
             x2 == len * d
             x3 == len * b
             x4 == d * b
             x5 == len * q
  <2>7. x1 \in Int /\ x2 \in Int /\ x3 \in Int /\ x4 \in Int /\ x5 \in Int
    BY <1>2, <2>1
  <2>8. x5 <= x1 - x2 - x3 - len /\ p = x1 - x3 - x2 + x4 /\ x4 >= 0 /\ p < x5 + len
    BY <1>2, <2>3, <2>4, <2>5, <2>6
  <2> HIDE DEF x1, x2, x3, x4, x5
  <2> QED BY <1>1, <2>7, <2>8
<1> QED BY <1>2, <1>3, <1>4, <1>5 DEF p, q

\* The ticks of a window in which nothing ran, and how many they are.
Free(ts, spans, lo, hi) == (lo .. (hi - 1)) \ Time!Busy(ts, spans, lo, hi)

LEMMA RangeSize == ASSUME NEW lo \in Int, NEW hi \in Int, lo <= hi PROVE IsFiniteSet(lo .. (hi - 1)) /\ Cardinality(lo .. (hi - 1)) = hi - lo
<1>1. hi - 1 \in Int
  OBVIOUS
<1>2. IsFiniteSet(lo .. (hi - 1)) /\ Cardinality(lo .. (hi - 1)) = IF lo > hi - 1 THEN 0 ELSE (hi - 1) - lo + 1
  BY <1>1, FS_Interval
<1> QED BY <1>2

LEMMA FreeSize ==
  ASSUME NEW ts, NEW spans, NEW lo \in Int, NEW hi \in Int, lo <= hi
  PROVE  /\ IsFiniteSet(Free(ts, spans, lo, hi)) /\ IsFiniteSet(Time!Busy(ts, spans, lo, hi))
         /\ Time!BusyMs(ts, spans, lo, hi) \in 0 .. (hi - lo)
         /\ Cardinality(Free(ts, spans, lo, hi)) = hi - lo - Time!BusyMs(ts, spans, lo, hi)
<1> DEFINE R == lo .. (hi - 1)
           B == Time!Busy(ts, spans, lo, hi)
           A == Free(ts, spans, lo, hi)
<1>1. IsFiniteSet(R) /\ Cardinality(R) = hi - lo
  BY RangeSize
<1>2. B \subseteq R /\ A = R \ B
  BY DEF Time!Busy, Free
<1>3. Time!BusyMs(ts, spans, lo, hi) = Cardinality(B)
  BY TimeCardinality DEF Time!BusyMs
<1> HIDE DEF R, B, A
<1>4. IsFiniteSet(B) /\ Cardinality(B) \in Nat /\ Cardinality(B) <= Cardinality(R)
  BY <1>1, <1>2, FS_Subset, FS_CardinalityType
<1>5. IsFiniteSet(A) /\ Cardinality(A) = Cardinality(R) - Cardinality(R \cap B)
  BY <1>1, <1>2, FS_Difference
<1>6. R \cap B = B
  BY <1>2
<1> QED BY <1>1, <1>3, <1>4, <1>5, <1>6 DEF A, B

-----------------------------------------------------------------------------
MaxOf(S) == CHOOSE x \in S : \A y \in S : x >= y
MinOf(S) == CHOOSE x \in S : \A y \in S : x <= y

LEMMA TimeMax == ASSUME NEW S PROVE Time!Max(S) = MaxOf(S) /\ Time!Min(S) = MinOf(S)
  BY DEF Time!Max, Time!Min, MaxOf, MinOf

LEMMA MaxIs == ASSUME NEW S, S \subseteq Int, NEW m \in S, \A y \in S : m >= y PROVE Time!Max(S) = m
<1>1. MaxOf(S) \in S /\ \A y \in S : MaxOf(S) >= y
  BY DEF MaxOf
<1>2. MaxOf(S) >= m /\ m >= MaxOf(S) /\ MaxOf(S) \in Int /\ m \in Int
  BY <1>1
<1> QED BY <1>2, TimeMax

LEMMA MinIs == ASSUME NEW S, S \subseteq Int, NEW m \in S, \A y \in S : m <= y PROVE Time!Min(S) = m
<1>1. MinOf(S) \in S /\ \A y \in S : MinOf(S) <= y
  BY DEF MinOf
<1>2. MinOf(S) <= m /\ m <= MinOf(S) /\ MinOf(S) \in Int /\ m \in Int
  BY <1>1
<1> QED BY <1>2, TimeMax

LEMMA MaxZero == ASSUME NEW n \in Int PROVE Time!Max({0, n}) = IF n >= 0 THEN n ELSE 0
<1>1. CASE n >= 0
  <2>1. n \in {0, n} /\ {0, n} \subseteq Int /\ \A y \in {0, n} : n >= y
    BY <1>1
  <2>2. Time!Max({0, n}) = n
    BY <2>1, MaxIs
  <2> QED BY <1>1, <2>2
<1>2. CASE ~ (n >= 0)
  <2>1. 0 \in {0, n} /\ {0, n} \subseteq Int /\ \A y \in {0, n} : 0 >= y
    BY <1>2
  <2>2. Time!Max({0, n}) = 0
    BY <2>1, MaxIs
  <2> QED BY <1>2, <2>2
<1> QED BY <1>1, <1>2

-----------------------------------------------------------------------------
Messages == [from : Nat, to : Nat, raw : Nat, parent : {-1, 0}, owns : SUBSET {TurnChild}, tokens : {1}]
MainOf(ms) == {i \in DOMAIN ms : ms[i].parent = -1}
Same(ms, i, j) == ms[i].from = ms[j].from /\ ms[i].to = ms[j].to

\* The windows of the main thread tile the time from lo to hi; a window of some
\* length is one message, or two that share it.
Tiled(ms, lo, hi) ==
  /\ \A i \in MainOf(ms) : lo <= ms[i].from /\ ms[i].from <= ms[i].to /\ ms[i].to <= hi
  /\ \A k \in lo .. (hi - 1) : \E i \in MainOf(ms) : ms[i].from <= k /\ k < ms[i].to
  /\ \A i, j \in MainOf(ms) : Same(ms, i, j) \/ ms[i].to <= ms[j].from \/ ms[j].to <= ms[i].from
  /\ \A i \in MainOf(ms) : ms[i].from = ms[i].to => ms[i].raw = 0
  /\ \A i \in MainOf(ms) : ms[i].from < ms[i].to =>
       \/ Time!Group(ms, i) = {i} /\ ms[i].raw = ms[i].to - ms[i].from
       \/ \E j \in MainOf(ms) \ {i} : Time!Group(ms, i) = {i, j} /\ ms[i].raw + ms[j].raw = ms[i].to - ms[i].from

LEMMA GroupIs ==
  ASSUME NEW ms, NEW i
  PROVE  Time!Group(ms, i) = {j \in MainOf(ms) : Same(ms, j, i)}
  BY DEF Time!Group, MainOf, Same, Time!None

LeftOf(ts, spans, m) == (m.to - m.from) - Time!BusyMs(ts, spans, m.from, m.to)
GroupRaw(ms, i) == Sum([j \in Time!Group(ms, i) |-> ms[j].raw], Time!Group(ms, i))
NetOf(ms, ts, spans, i) == Time!Max({0, GroupRaw(ms, i) - Time!BusyMs(ts, spans, ms[i].from, ms[i].to)})
ShareOf(ms, ts, spans, i, j) == (NetOf(ms, ts, spans, i) * ms[j].raw) \div GroupRaw(ms, i)
OthersOf(ms, ts, spans, i) ==
  Sum([j \in Time!Group(ms, i) \ {i} |-> ShareOf(ms, ts, spans, i, j)], Time!Group(ms, i) \ {i})

LEMMA NetIs ==
  ASSUME NEW ms, NEW ts, NEW spans, NEW i
  PROVE  Time!Net(ms, ts, spans, i) =
           IF ms[i].parent # -1 \/ GroupRaw(ms, i) = 0 THEN ms[i].raw
           ELSE IF i = Time!Max(Time!Group(ms, i)) THEN NetOf(ms, ts, spans, i) - OthersOf(ms, ts, spans, i)
           ELSE ShareOf(ms, ts, spans, i, i)
  BY FoldIsSum DEF Time!Net, Time!SumOf, Time!None, GroupRaw, NetOf, ShareOf, OthersOf

LEMMA SumOne == ASSUME NEW f, NEW x, f[x] \in Int PROVE Sum(f, {x}) = f[x]
<1>1. IsFiniteSet({}) /\ x \notin {} /\ {} \cup {x} = {x} /\ \A y \in {} \cup {x} : f[y] \in Int
  BY FS_EmptySet
<1>2. Sum(f, {} \cup {x}) = Sum(f, {}) + f[x]
  BY <1>1, SumAdd
<1> QED BY <1>1, <1>2, SumEmpty

LEMMA SumTwo == ASSUME NEW f, NEW x, NEW y, x # y, f[x] \in Int, f[y] \in Int PROVE Sum(f, {x, y}) = f[x] + f[y]
<1>1. IsFiniteSet({x}) /\ y \notin {x} /\ {x} \cup {y} = {x, y} /\ \A z \in {x} \cup {y} : f[z] \in Int
  BY FS_Singleton
<1>2. Sum(f, {x} \cup {y}) = Sum(f, {x}) + f[y]
  BY <1>1, SumAdd
<1> QED BY <1>1, <1>2, SumOne

\* Where a group is one message, it is left the window without the tools.
LEMMA NetAlone ==
  ASSUME NEW ms \in Seq(Messages), NEW i \in MainOf(ms), NEW ts, NEW spans,
         Time!Group(ms, i) = {i}, ms[i].raw = ms[i].to - ms[i].from, ms[i].from < ms[i].to
  PROVE  /\ Time!Net(ms, ts, spans, i) = LeftOf(ts, spans, ms[i])
         /\ LeftOf(ts, spans, ms[i]) \in 0 .. ms[i].raw
<1> DEFINE m == ms[i]
           b == Time!BusyMs(ts, spans, m.from, m.to)
<1>1. i \in DOMAIN ms /\ m \in Messages /\ m.parent = -1 /\ i \in Int
  BY DEF MainOf
<1>2. m.from \in Int /\ m.to \in Int /\ m.raw \in Nat
  BY <1>1 DEF Messages
<1>3. b \in 0 .. (m.to - m.from)
  BY <1>2, FreeSize
<1>4. GroupRaw(ms, i) = m.raw
  <2>1. [j \in {i} |-> ms[j].raw][i] = m.raw
    OBVIOUS
  <2>2. Sum([j \in {i} |-> ms[j].raw], {i}) = m.raw
    BY <1>2, <2>1, SumOne
  <2> QED BY <2>2 DEF GroupRaw
<1>5. NetOf(ms, ts, spans, i) = m.raw - b
  <2>1. m.raw - b \in Int /\ m.raw - b >= 0
    BY <1>2, <1>3
  <2>2. Time!Max({0, m.raw - b}) = m.raw - b
    BY <2>1, MaxZero
  <2> QED BY <1>4, <2>2 DEF NetOf
<1>6. OthersOf(ms, ts, spans, i) = 0
  <2>1. Time!Group(ms, i) \ {i} = {}
    OBVIOUS
  <2> QED BY <2>1, SumEmpty DEF OthersOf
<1>7. Time!Max(Time!Group(ms, i)) = i
  <2>1. {i} \subseteq Int /\ i \in {i} /\ \A y \in {i} : i >= y
    BY <1>1
  <2> QED BY <2>1, MaxIs
<1>8. Time!Net(ms, ts, spans, i) = NetOf(ms, ts, spans, i) - OthersOf(ms, ts, spans, i)
  <2>1. m.raw # 0
    BY <1>2
  <2> QED BY <1>1, <1>4, <1>7, <2>1, NetIs
<1>9. LeftOf(ts, spans, m) = m.raw - b
  BY DEF LeftOf
<1> HIDE DEF m, b
<1> QED BY <1>2, <1>3, <1>5, <1>6, <1>8, <1>9 DEF m

\* Where it is two, the later takes what the earlier one's share leaves.
LEMMA NetPair ==
  ASSUME NEW ms \in Seq(Messages), NEW i \in MainOf(ms), NEW j \in MainOf(ms), j > i, NEW ts, NEW spans,
         Time!Group(ms, i) = {i, j}, Time!Group(ms, j) = {i, j}, Same(ms, i, j),
         ms[i].raw + ms[j].raw = ms[i].to - ms[i].from, ms[i].from < ms[i].to
  PROVE  /\ Time!Net(ms, ts, spans, i) + Time!Net(ms, ts, spans, j) = LeftOf(ts, spans, ms[i])
         /\ Time!Net(ms, ts, spans, i) \in 0 .. ms[i].raw
         /\ Time!Net(ms, ts, spans, j) \in 0 .. ms[j].raw
<1> DEFINE m == ms[i]
           b == Time!BusyMs(ts, spans, m.from, m.to)
           len == m.to - m.from
           net == len - b
           q == (net * m.raw) \div len
<1>1. i \in DOMAIN ms /\ j \in DOMAIN ms /\ m \in Messages /\ m.parent = -1 /\ ms[j] \in Messages /\ ms[j].parent = -1 /\ i \in Int /\ j \in Int
  BY DEF MainOf
<1>2. m.from \in Int /\ m.to \in Int /\ m.raw \in Nat /\ ms[j].raw \in Nat /\ len \in Nat \ {0}
  BY <1>1 DEF Messages
<1>3. b \in 0 .. len
  BY <1>2, FreeSize
<1>4. GroupRaw(ms, i) = len /\ GroupRaw(ms, j) = len
  <2> DEFINE f == [k \in {i, j} |-> ms[k].raw]
  <2>1. f[i] = m.raw /\ f[j] = ms[j].raw /\ i # j
    BY <1>1
  <2>2. f[i] \in Int /\ f[j] \in Int
    BY <1>2, <2>1
  <2> HIDE DEF f
  <2>3. Sum(f, {i, j}) = f[i] + f[j]
    BY <2>1, <2>2, SumTwo
  <2>4. Sum(f, {i, j}) = len
    BY <2>1, <2>3
  <2> QED BY <2>4 DEF GroupRaw, f
<1>5. NetOf(ms, ts, spans, i) = net /\ NetOf(ms, ts, spans, j) = net
  <2>1. net \in Int /\ net >= 0
    BY <1>2, <1>3
  <2>2. Time!Max({0, net}) = net
    BY <2>1, MaxZero
  <2>3. ms[j].from = m.from /\ ms[j].to = m.to
    BY DEF Same
  <2> QED BY <1>4, <2>2, <2>3 DEF NetOf
<1>6. Time!Max({i, j}) = j
  <2>1. {i, j} \subseteq Int /\ j \in {i, j} /\ \A y \in {i, j} : j >= y
    BY <1>1
  <2> QED BY <2>1, MaxIs
<1>7. ShareOf(ms, ts, spans, i, i) = q /\ ShareOf(ms, ts, spans, j, i) = q
  BY <1>4, <1>5 DEF ShareOf
<1>8. net \in Nat /\ net <= len /\ m.raw <= len
  <2>1. len = m.raw + ms[j].raw
    OBVIOUS
  <2>2. net \in Nat /\ net <= len
    BY <1>2, <1>3
  <2> HIDE DEF len, net, m
  <2> QED BY <1>2, <2>1, <2>2 DEF m
<1>9. q \in 0 .. m.raw /\ q <= net /\ net - q \in 0 .. (len - m.raw)
  <2> HIDE DEF net, len
  <2> QED BY <1>2, <1>8, ShareBounds
<1>10. OthersOf(ms, ts, spans, j) = q
  <2> DEFINE f == [k \in {i} |-> ShareOf(ms, ts, spans, j, k)]
  <2>1. f[i] = q
    BY <1>7
  <2>2. q \in Int
    BY <1>9
  <2>3. Sum(f, {i}) = f[i]
    <3> HIDE DEF f
    <3> QED BY <2>1, <2>2, SumOne
  <2>4. {i, j} \ {j} = {i}
    BY <1>1
  <2> QED BY <2>1, <2>3, <2>4 DEF OthersOf
<1>11. Time!Net(ms, ts, spans, i) = q
  <2>1. i # j /\ len # 0
    BY <1>1, <1>2
  <2> QED BY <1>1, <1>4, <1>6, <1>7, <2>1, NetIs
<1>12. Time!Net(ms, ts, spans, j) = net - q
  <2>1. len # 0
    BY <1>2
  <2> QED BY <1>1, <1>4, <1>5, <1>6, <1>10, <2>1, NetIs
<1>13. LeftOf(ts, spans, m) = net /\ len - m.raw = ms[j].raw
  BY <1>2 DEF LeftOf
<1> HIDE DEF net, len, q, b
<1> QED BY <1>2, <1>8, <1>9, <1>11, <1>12, <1>13

\* What the messages of one window are left, together and each.
LEMMA NetGroup ==
  ASSUME NEW ms \in Seq(Messages), NEW lo, NEW hi, Tiled(ms, lo, hi), NEW i \in MainOf(ms), NEW ts, NEW spans,
         NEW f, \A j \in DOMAIN ms : f[j] = Time!Net(ms, ts, spans, j)
  PROVE  /\ Sum(f, Time!Group(ms, i)) = LeftOf(ts, spans, ms[i])
         /\ f[i] \in 0 .. ms[i].raw
<1> DEFINE g == Time!Group(ms, i)
<1>1. /\ i \in DOMAIN ms /\ ms[i] \in Messages /\ ms[i].parent = -1 /\ i \in Int
      /\ g \subseteq MainOf(ms) /\ i \in g
      /\ \A j \in g : j \in DOMAIN ms /\ ms[j].from = ms[i].from /\ ms[j].to = ms[i].to /\ ms[j].parent = -1
  BY GroupIs DEF MainOf, Same
<1>2. \A j \in g : Time!Group(ms, j) = g
  BY <1>1, GroupIs DEF Same
<1>3. IsFiniteSet(g)
  <2>1. IsFiniteSet(DOMAIN ms) /\ g \subseteq DOMAIN ms
    <3>1. DOMAIN ms = 1 .. Len(ms) /\ Len(ms) \in Int /\ 1 \in Int
      OBVIOUS
    <3>2. IsFiniteSet(1 .. Len(ms))
      BY <3>1, FS_Interval
    <3> QED BY <1>1, <3>1, <3>2
  <2> QED BY <2>1, FS_Subset
<1>4. ms[i].from \in Int /\ ms[i].to \in Int /\ ms[i].raw \in Nat /\ ms[i].from <= ms[i].to
  BY <1>1 DEF Messages, Tiled
<1>5. CASE ms[i].from = ms[i].to
  <2>1. \A j \in g : ms[j].raw = 0
    BY <1>1, <1>5 DEF Tiled
  <2>2. \A j \in g : GroupRaw(ms, j) = 0
    <3> TAKE j \in g
    <3>1. Time!Group(ms, j) = g
      BY <1>2
    <3>2. Sum([k \in g |-> ms[k].raw], g) = 0
      BY <1>3, <2>1, SumZero
    <3> QED BY <3>1, <3>2 DEF GroupRaw
  <2>3. \A j \in g : f[j] = 0
    <3> TAKE j \in g
    <3>1. Time!Net(ms, ts, spans, j) = ms[j].raw
      BY <2>2, NetIs
    <3> QED BY <1>1, <2>1, <3>1
  <2>4. Sum(f, g) = 0
    BY <1>3, <2>3, SumZero
  <2>5. LeftOf(ts, spans, ms[i]) = 0
    <3>1. Time!BusyMs(ts, spans, ms[i].from, ms[i].to) \in 0 .. (ms[i].to - ms[i].from)
      BY <1>4, FreeSize
    <3> QED BY <1>4, <1>5, <3>1 DEF LeftOf
  <2> QED BY <1>1, <1>4, <2>3, <2>4, <2>5
<1>6. CASE ms[i].from < ms[i].to /\ g = {i} /\ ms[i].raw = ms[i].to - ms[i].from
  <2>1. Time!Net(ms, ts, spans, i) = LeftOf(ts, spans, ms[i]) /\ LeftOf(ts, spans, ms[i]) \in 0 .. ms[i].raw
    BY <1>6, NetAlone
  <2>2. f[i] = LeftOf(ts, spans, ms[i])
    BY <1>1, <2>1
  <2>3. Sum(f, {i}) = f[i]
    <3>1. f[i] \in Int
      BY <2>1, <2>2
    <3> QED BY <3>1, SumOne
  <2> QED BY <1>6, <2>1, <2>2, <2>3
<1>7. ASSUME NEW j \in MainOf(ms) \ {i}, g = {i, j}, ms[i].raw + ms[j].raw = ms[i].to - ms[i].from, ms[i].from < ms[i].to
      PROVE  Sum(f, g) = LeftOf(ts, spans, ms[i]) /\ f[i] \in 0 .. ms[i].raw
  <2>1. j \in g /\ j \in DOMAIN ms /\ j \in Int /\ ms[j] \in Messages /\ i # j
    BY <1>1, <1>7 DEF MainOf
  <2>2. Same(ms, i, j) /\ Same(ms, j, i) /\ Time!Group(ms, j) = {i, j} /\ LeftOf(ts, spans, ms[j]) = LeftOf(ts, spans, ms[i])
    BY <1>1, <1>2, <1>7, <2>1 DEF Same, LeftOf
  <2>3. f[i] = Time!Net(ms, ts, spans, i) /\ f[j] = Time!Net(ms, ts, spans, j)
    BY <1>1, <2>1
  <2>4. ms[i].raw \in Nat /\ ms[j].raw \in Nat
    BY <1>4, <2>1 DEF Messages
  <2>5. f[i] \in 0 .. ms[i].raw /\ f[j] \in 0 .. ms[j].raw /\ f[i] + f[j] = LeftOf(ts, spans, ms[i])
    <3>1. CASE j > i
      BY <1>7, <2>2, <2>3, <3>1, NetPair
    <3>2. CASE i > j
      <4>1. {j, i} = {i, j} /\ ms[j].raw + ms[i].raw = ms[j].to - ms[j].from /\ ms[j].from < ms[j].to
        BY <1>1, <1>7, <2>1, <2>4
      <4>2. /\ Time!Net(ms, ts, spans, j) + Time!Net(ms, ts, spans, i) = LeftOf(ts, spans, ms[j])
            /\ Time!Net(ms, ts, spans, j) \in 0 .. ms[j].raw
            /\ Time!Net(ms, ts, spans, i) \in 0 .. ms[i].raw
        BY <1>7, <2>2, <3>2, <4>1, NetPair
      <4> QED BY <2>2, <2>3, <2>4, <4>2
    <3> QED BY <1>1, <2>1, <3>1, <3>2
  <2>6. Sum(f, {i, j}) = f[i] + f[j]
    <3>1. f[i] \in Int /\ f[j] \in Int
      BY <2>4, <2>5
    <3> QED BY <2>1, <3>1, SumTwo
  <2> QED BY <1>7, <2>5, <2>6
<1>8. \/ ms[i].from = ms[i].to
      \/ ms[i].from < ms[i].to /\ g = {i} /\ ms[i].raw = ms[i].to - ms[i].from
      \/ ms[i].from < ms[i].to /\ \E j \in MainOf(ms) \ {i} : g = {i, j} /\ ms[i].raw + ms[j].raw = ms[i].to - ms[i].from
  BY <1>4 DEF Tiled
<1> QED BY <1>5, <1>6, <1>7, <1>8

LEMMA MainFinite == ASSUME NEW ms \in Seq(Messages) PROVE IsFiniteSet(DOMAIN ms) /\ IsFiniteSet(MainOf(ms))
<1>1. DOMAIN ms = 1 .. Len(ms) /\ Len(ms) \in Int /\ 1 \in Int
  OBVIOUS
<1>2. IsFiniteSet(1 .. Len(ms))
  BY <1>1, FS_Interval
<1>3. MainOf(ms) \subseteq DOMAIN ms
  BY DEF MainOf
<1> QED BY <1>1, <1>2, <1>3, FS_Subset

\* Whether a tick is free does not depend on the window it is looked at in.
LEMMA FreeTick ==
  ASSUME NEW ts, NEW spans, NEW lo \in Int, NEW hi \in Int, NEW k
  PROVE  k \in Free(ts, spans, lo, hi) <=>
           k \in lo .. (hi - 1) /\ ~ \E t \in ts : spans[t].from <= k /\ k < spans[t].to
  BY DEF Free, Time!Busy

LEMMA MainIs ==
  ASSUME NEW ms \in Seq(Messages), NEW i \in MainOf(ms)
  PROVE  i \in DOMAIN ms /\ ms[i] \in Messages /\ ms[i].from \in Int /\ ms[i].to \in Int /\ ms[i].raw \in Nat
<1>1. i \in DOMAIN ms
  BY DEF MainOf
<1>2. ms[i] \in Messages
  BY <1>1
<1> QED BY <1>1, <1>2 DEF Messages

\* A sum whose fibres are the sizes of disjoint sets.
Values(h, S)      == {h[i] : i \in S}
Whole(f, S)       == \A x \in S : f[x] \in Int
Sized(f, S, h, c) == \A i \in S : IsFiniteSet(c[h[i]]) /\ Sum(f, {x \in S : h[x] = h[i]}) = Cardinality(c[h[i]])
Apart(S, h, c)    == \A i, j \in S : h[i] # h[j] => c[h[i]] \cap c[h[j]] = {}

LEMMA SumOfFibres ==
  ASSUME NEW f, NEW S, IsFiniteSet(S), NEW h, NEW c, Whole(f, S), Sized(f, S, h, c), Apart(S, h, c)
  PROVE  Sum(f, S) = Cardinality(Joined(c, Values(h, S)))
<1> USE DEF Values, Whole, Sized, Apart
<1> DEFINE W == Values(h, S)
           F == Fibres(f, S, h, W)
           h1 == [i \in S |-> h[i]]
<1>1. IsFiniteSet(W)
  <2>1. h1 \in Surjection(S, W)
    BY DEF Surjection
  <2> HIDE DEF h1
  <2> QED BY <2>1, FS_Surjection
<1>2. \A w \in W : F[w] = Sum(f, {x \in S : h[x] = w})
  BY DEF Fibres
<1>3. \A w \in W : IsFiniteSet(c[w]) /\ F[w] = Cardinality(c[w])
  BY <1>2
<1>4. \A v, w \in W : v # w => c[v] \cap c[w] = {}
  OBVIOUS
<1>6. \A x \in S : h[x] \in W
  OBVIOUS
<1> HIDE DEF F
<1>7. Sum(f, S) = Sum(F, W)
  BY <1>1, <1>6, SumFibres DEF F
<1>8. Sum(F, W) = Cardinality(Joined(c, W))
  BY <1>1, <1>3, <1>4, SumOfSizes
<1> QED BY <1>7, <1>8

\* The windows together are left exactly the free time of the main thread.
LEMMA NetSum ==
  ASSUME NEW ms \in Seq(Messages), NEW lo \in Int, NEW hi \in Int, Tiled(ms, lo, hi), NEW ts, NEW spans,
         NEW f, \A j \in DOMAIN ms : f[j] = Time!Net(ms, ts, spans, j)
  PROVE  Sum(f, MainOf(ms)) = Cardinality(Free(ts, spans, lo, hi))
<1> DEFINE S == MainOf(ms)
           h == [i \in S |-> <<ms[i].from, ms[i].to>>]
           W == {h[i] : i \in S}
           c == [w \in W |-> Free(ts, spans, w[1], w[2])]
<1>1. IsFiniteSet(S)
  BY MainFinite
<1>2. \A i \in S : i \in DOMAIN ms /\ ms[i] \in Messages /\ ms[i].from \in Int /\ ms[i].to \in Int /\ ms[i].raw \in Nat
  BY MainIs
<1>3. \A i \in S : f[i] \in Int
  <2> TAKE i \in S
  <2>1. f[i] \in 0 .. ms[i].raw
    BY NetGroup
  <2> QED BY <1>2, <2>1
<1>4. \A i \in S : {x \in S : h[x] = h[i]} = Time!Group(ms, i)
  BY GroupIs DEF Same
<1>5. \A i \in S : c[h[i]] = Free(ts, spans, ms[i].from, ms[i].to)
  OBVIOUS
<1>6. \A i \in S : IsFiniteSet(c[h[i]]) /\ Sum(f, {x \in S : h[x] = h[i]}) = Cardinality(c[h[i]])
  <2> TAKE i \in S
  <2>1. Sum(f, {x \in S : h[x] = h[i]}) = LeftOf(ts, spans, ms[i])
    <3>1. Sum(f, Time!Group(ms, i)) = LeftOf(ts, spans, ms[i])
      BY NetGroup
    <3> QED BY <1>4, <3>1
  <2>2. ms[i].from <= ms[i].to
    BY DEF Tiled
  <2>3. IsFiniteSet(c[h[i]]) /\ Cardinality(c[h[i]]) = LeftOf(ts, spans, ms[i])
    BY <1>2, <1>5, <2>2, FreeSize DEF LeftOf
  <2> QED BY <2>1, <2>3
<1>7. \A i, j \in S : h[i] # h[j] => c[h[i]] \cap c[h[j]] = {}
  <2> TAKE i, j \in S
  <2> HAVE h[i] # h[j]
  <2>1. ~ Same(ms, i, j)
    BY DEF Same
  <2>2. ms[i].to <= ms[j].from \/ ms[j].to <= ms[i].from
    BY <2>1 DEF Tiled
  <2>3. c[h[i]] \subseteq ms[i].from .. (ms[i].to - 1) /\ c[h[j]] \subseteq ms[j].from .. (ms[j].to - 1)
    BY <1>5 DEF Free
  <2>4. (ms[i].from .. (ms[i].to - 1)) \cap (ms[j].from .. (ms[j].to - 1)) = {}
    BY <1>2, <2>2
  <2> QED BY <2>3, <2>4
<1>8. Joined(c, W) = Free(ts, spans, lo, hi)
  <2>1. ASSUME NEW k \in Free(ts, spans, lo, hi) PROVE \E i \in S : k \in c[h[i]]
    <3>1. k \in lo .. (hi - 1) /\ ~ \E t \in ts : spans[t].from <= k /\ k < spans[t].to
      BY <2>1, FreeTick
    <3>2. PICK i \in S : ms[i].from <= k /\ k < ms[i].to
      BY <3>1 DEF Tiled
    <3>3. k \in ms[i].from .. (ms[i].to - 1)
      BY <1>2, <3>1, <3>2
    <3>4. k \in Free(ts, spans, ms[i].from, ms[i].to)
      BY <1>2, <3>1, <3>3, FreeTick
    <3> QED BY <1>5, <3>4
  <2>2. ASSUME NEW i \in S, NEW k \in c[h[i]] PROVE k \in Free(ts, spans, lo, hi)
    <3>1. k \in Free(ts, spans, ms[i].from, ms[i].to)
      BY <1>5, <2>2
    <3>2. k \in ms[i].from .. (ms[i].to - 1) /\ ~ \E t \in ts : spans[t].from <= k /\ k < spans[t].to
      BY <1>2, <3>1, FreeTick
    <3>3. lo <= ms[i].from /\ ms[i].to <= hi
      BY DEF Tiled
    <3>4. k \in lo .. (hi - 1)
      BY <1>2, <3>2, <3>3
    <3> QED BY <3>2, <3>4, FreeTick
  <2>3. \A k : k \in Joined(c, W) <=> \E i \in S : k \in c[h[i]]
    <3> HIDE DEF S, h, c
    <3> QED BY DEF Joined
  <2> HIDE DEF S, h, W, c
  <2> QED BY <2>1, <2>2, <2>3
<1>10. W = Values(h, S)
  BY DEF Values
<1> HIDE DEF S, h, W, c
<1>11. Whole(f, S) /\ Sized(f, S, h, c) /\ Apart(S, h, c)
  BY <1>3, <1>6, <1>7 DEF Whole, Sized, Apart
<1>9. Sum(f, S) = Cardinality(Joined(c, Values(h, S)))
  BY <1>1, <1>11, SumOfFibres
<1> QED BY <1>8, <1>9, <1>10 DEF S

\* The ends of the tiling are where the messages begin and end.
LEMMA TiledEnds ==
  ASSUME NEW ms \in Seq(Messages), NEW lo \in Int, NEW hi \in Int, lo <= hi, Tiled(ms, lo, hi), MainOf(ms) # {}
  PROVE  /\ Time!Min({ms[i].from : i \in MainOf(ms)}) = lo
         /\ Time!Max({ms[i].to : i \in MainOf(ms)}) = hi
<1> DEFINE A == {ms[i].from : i \in MainOf(ms)}
           B == {ms[i].to : i \in MainOf(ms)}
<1>1. \A i \in MainOf(ms) : ms[i].from \in Int /\ ms[i].to \in Int /\ lo <= ms[i].from /\ ms[i].from <= ms[i].to /\ ms[i].to <= hi
  BY MainIs DEF Tiled
<1>2. A \subseteq Int /\ B \subseteq Int /\ (\A y \in A : lo <= y) /\ \A y \in B : hi >= y
  BY <1>1
<1>3. lo \in A
  <2>1. CASE lo < hi
    <3>1. lo \in lo .. (hi - 1)
      BY <2>1
    <3>2. PICK i \in MainOf(ms) : ms[i].from <= lo /\ lo < ms[i].to
      BY <3>1 DEF Tiled
    <3>3. ms[i].from = lo
      BY <1>1, <3>2
    <3> QED BY <3>3
  <2>2. CASE lo = hi
    <3>1. PICK i \in MainOf(ms) : TRUE
      OBVIOUS
    <3>2. ms[i].from = lo
      BY <1>1, <2>2
    <3> QED BY <3>2
  <2> QED BY <2>1, <2>2
<1>4. hi \in B
  <2>1. CASE lo < hi
    <3>1. hi - 1 \in lo .. (hi - 1)
      BY <2>1
    <3>2. PICK i \in MainOf(ms) : ms[i].from <= hi - 1 /\ hi - 1 < ms[i].to
      BY <3>1 DEF Tiled
    <3>3. ms[i].to = hi
      BY <1>1, <3>2
    <3> QED BY <3>3
  <2>2. CASE lo = hi
    <3>1. PICK i \in MainOf(ms) : TRUE
      OBVIOUS
    <3>2. ms[i].to = hi
      BY <1>1, <2>2
    <3> QED BY <3>2
  <2> QED BY <2>1, <2>2
<1> HIDE DEF A, B
<1>5. Time!Min(A) = lo /\ Time!Max(B) = hi
  BY <1>2, <1>3, <1>4, MaxIs, MinIs
<1> QED BY <1>5 DEF A, B

-----------------------------------------------------------------------------
LEMMA FreeSplit ==
  ASSUME NEW ts, NEW spans, NEW lo \in Int, NEW mid \in Int, NEW hi \in Int, lo <= mid, mid <= hi
  PROVE  Cardinality(Free(ts, spans, lo, hi)) = Cardinality(Free(ts, spans, lo, mid)) + Cardinality(Free(ts, spans, mid, hi))
<1> DEFINE A == Free(ts, spans, lo, mid)
           B == Free(ts, spans, mid, hi)
           C == Free(ts, spans, lo, hi)
<1>1. IsFiniteSet(A) /\ IsFiniteSet(B)
  BY FreeSize
<1>2. A \subseteq lo .. (mid - 1) /\ B \subseteq mid .. (hi - 1)
  BY DEF Free
<1>3. \A k : k \in C <=> k \in A \/ k \in B
  <2> TAKE k
  <2>1. k \in lo .. (hi - 1) <=> (k \in lo .. (mid - 1) \/ k \in mid .. (hi - 1))
    OBVIOUS
  <2> DEFINE busy == \E t \in ts : spans[t].from <= k /\ k < spans[t].to
  <2>2. /\ k \in C <=> (k \in lo .. (hi - 1) /\ ~ busy)
        /\ k \in A <=> (k \in lo .. (mid - 1) /\ ~ busy)
        /\ k \in B <=> (k \in mid .. (hi - 1) /\ ~ busy)
    <3> HIDE DEF busy
    <3>1. k \in C <=> (k \in lo .. (hi - 1) /\ ~ busy)
      BY FreeTick DEF busy
    <3>2. k \in A <=> (k \in lo .. (mid - 1) /\ ~ busy)
      BY FreeTick DEF busy
    <3>3. k \in B <=> (k \in mid .. (hi - 1) /\ ~ busy)
      BY FreeTick DEF busy
    <3> QED BY <3>1, <3>2, <3>3
  <2> HIDE DEF busy, A, B, C
  <2> QED BY <2>1, <2>2
<1>4. A \cap B = {}
  <2>1. (lo .. (mid - 1)) \cap (mid .. (hi - 1)) = {}
    OBVIOUS
  <2> HIDE DEF A, B
  <2> QED BY <1>2, <2>1
<1> HIDE DEF A, B, C
<1>5. C = A \cup B
  BY <1>3
<1>6. Cardinality(A \cup B) = Cardinality(A) + Cardinality(B) - Cardinality(A \cap B)
  BY <1>1, FS_Union
<1>7. Cardinality(A \cap B) = 0 /\ Cardinality(A) \in Nat /\ Cardinality(B) \in Nat
  BY <1>1, <1>4, FS_EmptySet, FS_CardinalityType
<1> QED BY <1>5, <1>6, <1>7 DEF A, B, C

LEMMA FiniteHasMin ==
  ASSUME NEW S, S \subseteq Int, IsFiniteSet(S), S # {}
  PROVE  \E m \in S : \A y \in S : m <= y
<1> DEFINE f == [y \in S |-> -y]
           N == {-y : y \in S}
<1>1. f \in Surjection(S, N)
  BY DEF Surjection
<1>2. N \subseteq Int /\ IsFiniteSet(N) /\ N # {}
  <2>1. IsFiniteSet(N)
    <3> HIDE DEF f, N
    <3> QED BY <1>1, FS_Surjection
  <2>2. \A y \in S : -y \in Int /\ -y \in N
    OBVIOUS
  <2>3. N # {}
    BY <2>2
  <2>4. \A n \in N : n \in Int
    BY <2>2
  <2> QED BY <2>1, <2>3, <2>4
<1>3. PICK m \in N : \A y \in N : m >= y
  <2> HIDE DEF N
  <2> QED BY <1>2, FiniteHasMax
<1>4. PICK x \in S : m = -x
  OBVIOUS
<1>5. \A y \in S : x <= y
  <2> TAKE y \in S
  <2>1. -y \in N
    OBVIOUS
  <2> QED BY <1>3, <1>4, <2>1
<1> QED BY <1>5

\* The calls that count began and ended while the turn ran.
Spanned(ts, spans, end) == \A t \in ts : spans[t].from \in 0 .. end /\ spans[t].to \in 0 .. end

LEMMA ToolsAre ==
  ASSUME NEW ts, NEW spans, NEW end \in Nat, Spanned(ts, spans, end)
  PROVE  Time!Measured(Time!UnionMs(ts, spans)) = Time!BusyMs(ts, spans, 0, end)
<1>1. CASE ts = {}
  <2>1. Time!Busy(ts, spans, 0, end) = {}
    BY <1>1 DEF Time!Busy
  <2>2. Time!BusyMs(ts, spans, 0, end) = 0
    BY <2>1, TimeCardinality, FS_EmptySet DEF Time!BusyMs
  <2>3. Time!UnionMs(ts, spans) = -1
    BY <1>1 DEF Time!UnionMs, Time!None
  <2> QED BY <2>2, <2>3 DEF Time!Measured, Time!None
<1>2. CASE ts # {}
  <2> DEFINE A == {spans[t].from : t \in ts}
             B == {spans[t].to : t \in ts}
             mn == Time!Min(A)
             mx == Time!Max(B)
  <2>1. A \subseteq 0 .. end /\ B \subseteq 0 .. end /\ A # {} /\ B # {}
    BY <1>2 DEF Spanned
  <2>2. IsFiniteSet(A) /\ IsFiniteSet(B)
    <3>1. 0 \in Int /\ end \in Int
      OBVIOUS
    <3>2. IsFiniteSet(0 .. end)
      BY <3>1, FS_Interval
    <3> HIDE DEF A, B
    <3> QED BY <2>1, <3>2, FS_Subset
  <2>3. mn \in 0 .. end /\ \A y \in A : mn <= y
    <3> HIDE DEF A, B
    <3>1. A \subseteq Int
      BY <2>1
    <3>2. PICK m \in A : \A y \in A : m <= y
      BY <2>1, <2>2, <3>1, FiniteHasMin
    <3>3. mn = m
      BY <3>1, <3>2, MinIs
    <3> QED BY <2>1, <3>2, <3>3
  <2>4. mx \in 0 .. end /\ \A y \in B : mx >= y
    <3> HIDE DEF A, B
    <3>1. B \subseteq Int
      BY <2>1
    <3>2. PICK m \in B : \A y \in B : m >= y
      BY <2>1, <2>2, <3>1, FiniteHasMax
    <3>3. mx = m
      BY <3>1, <3>2, MaxIs
    <3> QED BY <2>1, <3>2, <3>3
  <2> DEFINE busy(k) == \E t \in ts : spans[t].from <= k /\ k < spans[t].to
  <2>5. \A k : (k \in Time!Busy(ts, spans, mn, mx) <=> k \in mn .. (mx - 1) /\ busy(k))
               /\ (k \in Time!Busy(ts, spans, 0, end) <=> k \in 0 .. (end - 1) /\ busy(k))
    <3> HIDE DEF mn, mx
    <3> QED BY DEF Time!Busy
  <2>6. ASSUME NEW k \in Int, busy(k) PROVE k \in mn .. (mx - 1) /\ k \in 0 .. (end - 1)
    <3>1. PICK t \in ts : spans[t].from <= k /\ k < spans[t].to
      BY <2>6
    <3>2. spans[t].from \in A /\ spans[t].to \in B
      OBVIOUS
    <3>3. mn <= spans[t].from /\ spans[t].to <= mx
      BY <2>1, <2>3, <2>4, <3>2
    <3>4. spans[t].from \in 0 .. end /\ spans[t].to \in 0 .. end
      BY <2>1, <3>2
    <3> HIDE DEF mn, mx
    <3> QED BY <2>3, <2>4, <3>1, <3>3, <3>4
  <2>7. Time!Busy(ts, spans, mn, mx) = Time!Busy(ts, spans, 0, end)
    <3> HIDE DEF mn, mx, busy
    <3>1. \A k : k \in Time!Busy(ts, spans, mn, mx) <=> k \in Time!Busy(ts, spans, 0, end)
      <4> TAKE k
      <4>1. k \in mn .. (mx - 1) => k \in Int
        BY <2>3, <2>4
      <4>2. k \in 0 .. (end - 1) => k \in Int
        OBVIOUS
      <4> QED BY <2>5, <2>6, <4>1, <4>2
    <3> QED BY <3>1
  <2>8. Time!UnionMs(ts, spans) = Time!BusyMs(ts, spans, mn, mx)
    BY <1>2 DEF Time!UnionMs
  <2>9. Time!UnionMs(ts, spans) = Time!BusyMs(ts, spans, 0, end)
    <3> HIDE DEF mn, mx
    <3> QED BY <2>7, <2>8 DEF Time!BusyMs
  <2>10. Time!BusyMs(ts, spans, 0, end) # -1
    <3>1. Time!BusyMs(ts, spans, 0, end) \in 0 .. (end - 0)
      BY FreeSize
    <3> QED BY <3>1
  <2> QED BY <2>9, <2>10 DEF Time!Measured, Time!None
<1> QED BY <1>1, <1>2

\* The four buckets are the whole turn.
LEMMA BucketsAre ==
  ASSUME NEW ms \in Seq(Messages), NEW lo \in Nat, NEW hi \in Nat, NEW end \in Nat, lo <= hi, hi <= end,
         Tiled(ms, lo, hi), MainOf(ms) # {}, NEW ts, NEW spans, Spanned(ts, spans, end),
         NEW f, \A j \in DOMAIN ms : f[j] = Time!Net(ms, ts, spans, j)
  PROVE  Time!Startup(ms, MainOf(ms), ts, spans) + Sum(f, MainOf(ms)) + Time!Measured(Time!UnionMs(ts, spans))
           + Time!Teardown(ms, MainOf(ms), ts, spans, end) = end
<1> DEFINE a == Cardinality(Free(ts, spans, 0, lo))
           b == Cardinality(Free(ts, spans, lo, hi))
           c == Cardinality(Free(ts, spans, hi, end))
           d == Time!BusyMs(ts, spans, 0, end)
<1>0. lo \in Int /\ hi \in Int
  OBVIOUS
<1>1. Time!Min({ms[i].from : i \in MainOf(ms)}) = lo /\ Time!Max({ms[i].to : i \in MainOf(ms)}) = hi
  BY <1>0, TiledEnds
<1>2. Time!Startup(ms, MainOf(ms), ts, spans) = a
  <2> DEFINE n == lo - Time!BusyMs(ts, spans, 0, lo)
  <2>1. Time!BusyMs(ts, spans, 0, lo) \in 0 .. (lo - 0) /\ a = lo - 0 - Time!BusyMs(ts, spans, 0, lo)
    BY FreeSize
  <2>2. n \in Int /\ n >= 0 /\ a = n
    BY <2>1
  <2>3. Time!Max({0, n}) = n
    BY <2>2, MaxZero
  <2>4. Time!Startup(ms, MainOf(ms), ts, spans) = Time!Max({0, n})
    BY <1>1 DEF Time!Startup
  <2> QED BY <2>2, <2>3, <2>4
<1>3. Time!Teardown(ms, MainOf(ms), ts, spans, end) = c
  <2> DEFINE n == end - hi - Time!BusyMs(ts, spans, hi, end)
  <2>1. Time!BusyMs(ts, spans, hi, end) \in 0 .. (end - hi) /\ c = end - hi - Time!BusyMs(ts, spans, hi, end)
    BY FreeSize
  <2>2. n \in Int /\ n >= 0 /\ c = n
    BY <2>1
  <2>3. Time!Max({0, n}) = n
    BY <2>2, MaxZero
  <2>4. Time!Teardown(ms, MainOf(ms), ts, spans, end) = Time!Max({0, n})
    BY <1>1 DEF Time!Teardown
  <2> QED BY <2>2, <2>3, <2>4
<1>4. Sum(f, MainOf(ms)) = b
  BY <1>0, NetSum
<1>5. Time!Measured(Time!UnionMs(ts, spans)) = d
  BY ToolsAre
<1>6. Cardinality(Free(ts, spans, 0, end)) = end - 0 - d /\ d \in 0 .. (end - 0)
  BY FreeSize
<1>7. Cardinality(Free(ts, spans, 0, end)) = Cardinality(Free(ts, spans, 0, hi)) + c
  BY FreeSplit
<1>8. Cardinality(Free(ts, spans, 0, hi)) = a + b
  BY FreeSplit
<1>9. a \in Int /\ b \in Int /\ c \in Int
  BY FreeSize, FS_CardinalityType
<1> HIDE DEF a, b, c, d
<1> QED BY <1>2, <1>3, <1>4, <1>5, <1>6, <1>7, <1>8, <1>9

-----------------------------------------------------------------------------
\* Two lists of messages with the same main thread are tiled alike.
LEMMA TiledSame ==
  ASSUME NEW a, NEW b, MainOf(b) = MainOf(a), \A i \in MainOf(a) : b[i] = a[i], NEW lo, NEW hi, Tiled(a, lo, hi)
  PROVE  Tiled(b, lo, hi)
<1>1. \A i \in MainOf(a) : Time!Group(b, i) = Time!Group(a, i)
  BY GroupIs DEF Same
<1> DEFINE M == MainOf(a)
<1>2. \A i, j \in M : Same(b, i, j) <=> Same(a, i, j)
  BY DEF Same
<1>3. M = MainOf(b)
  OBVIOUS
<1>4. (\A i \in M : lo <= a[i].from /\ a[i].from <= a[i].to /\ a[i].to <= hi)
      /\ (\A k \in lo .. (hi - 1) : \E i \in M : a[i].from <= k /\ k < a[i].to)
      /\ (\A i, j \in M : Same(a, i, j) \/ a[i].to <= a[j].from \/ a[j].to <= a[i].from)
      /\ \A i \in M : a[i].from = a[i].to => a[i].raw = 0
  BY DEF Tiled
<1>5. \A i \in M : a[i].from < a[i].to =>
        \/ Time!Group(a, i) = {i} /\ a[i].raw = a[i].to - a[i].from
        \/ \E j \in M \ {i} : Time!Group(a, i) = {i, j} /\ a[i].raw + a[j].raw = a[i].to - a[i].from
  BY DEF Tiled
<1> HIDE DEF M
<1>6. \A i \in M : b[i] = a[i]
  BY DEF M
<1>7. \A i \in M : Time!Group(b, i) = Time!Group(a, i)
  BY <1>1 DEF M
<1>8. \A i \in M : b[i].from < b[i].to =>
        \/ Time!Group(b, i) = {i} /\ b[i].raw = b[i].to - b[i].from
        \/ \E j \in M \ {i} : Time!Group(b, i) = {i, j} /\ b[i].raw + b[j].raw = b[i].to - b[i].from
  BY <1>5, <1>6, <1>7
<1>9. (\A i \in M : lo <= b[i].from /\ b[i].from <= b[i].to /\ b[i].to <= hi)
      /\ (\A k \in lo .. (hi - 1) : \E i \in M : b[i].from <= k /\ k < b[i].to)
      /\ (\A i, j \in M : Same(b, i, j) \/ b[i].to <= b[j].from \/ b[j].to <= b[i].from)
      /\ \A i \in M : b[i].from = b[i].to => b[i].raw = 0
  BY <1>2, <1>4, <1>6
<1> QED BY <1>3, <1>8, <1>9 DEF Tiled

\* A flush puts one window behind the others.
Window(mark, now, raw) == [from |-> mark, to |-> now, raw |-> raw, parent |-> -1, owns |-> {}, tokens |-> 1]
Flushed(ms, mark, now, raws) == ms \o [i \in DOMAIN raws |-> Window(mark, now, raws[i])]

LEMMA TiledFlush ==
  ASSUME NEW ms \in Seq(Messages), NEW lo \in Nat, NEW mark \in Nat, NEW now \in Nat, lo <= mark, mark <= now,
         Tiled(ms, lo, mark), NEW raws \in Time!Raws(now - mark)
  PROVE  Flushed(ms, mark, now, raws) \in Seq(Messages) /\ Tiled(Flushed(ms, mark, now, raws), lo, now)
<1> DEFINE n == Len(ms)
           k == Len(raws)
           new == [i \in DOMAIN raws |-> Window(mark, now, raws[i])]
           m2 == Flushed(ms, mark, now, raws)
           old == MainOf(ms)
           add == (n + 1) .. (n + k)
<1>1. /\ raws \in Seq(Nat) /\ k \in {1, 2} /\ DOMAIN raws = 1 .. k
      /\ (k = 1 => raws[1] = now - mark)
      /\ (k = 2 => raws[1] + raws[2] = now - mark /\ mark < now)
  <2>1. now - mark \in Nat
    OBVIOUS
  <2>2. CASE raws = <<now - mark>>
    BY <2>1, <2>2
  <2>3. ASSUME NEW a \in 1 .. ((now - mark) - 1), raws = <<a, (now - mark) - a>>
        PROVE  /\ raws \in Seq(Nat) /\ k = 2 /\ DOMAIN raws = 1 .. 2
               /\ raws[1] + raws[2] = now - mark /\ mark < now
    BY <2>1, <2>3
  <2> QED BY <2>2, <2>3 DEF Time!Raws
<1>21. \A i \in 1 .. k : raws[i] \in Nat
  BY <1>1
<1>2. new \in Seq(Messages) /\ Len(new) = k /\ \A i \in 1 .. k : new[i] = Window(mark, now, raws[i])
  <2>1. \A i \in 1 .. k : new[i] = Window(mark, now, raws[i]) /\ raws[i] \in Nat
    BY <1>1
  <2>2. \A i \in 1 .. k : Window(mark, now, raws[i]) \in Messages
    BY <2>1 DEF Window, Messages
  <2>3. new \in [1 .. k -> Messages] /\ k \in Nat
    BY <1>1, <2>1, <2>2
  <2> HIDE DEF new
  <2> QED BY <2>1, <2>3
<1>3. /\ m2 \in Seq(Messages) /\ DOMAIN m2 = 1 .. (n + k) /\ n \in Nat /\ DOMAIN ms = 1 .. n
      /\ (\A i \in 1 .. n : m2[i] = ms[i])
      /\ \A i \in 1 .. k : m2[n + i] = Window(mark, now, raws[i])
  <2> HIDE DEF new
  <2> QED BY <1>1, <1>2 DEF Flushed, new
<1> HIDE DEF m2, new
<1>4. \A i \in add : m2[i] = Window(mark, now, raws[i - n]) /\ i - n \in 1 .. k
  <2> TAKE i \in add
  <2> DEFINE j == i - n
  <2>1. j \in 1 .. k /\ n + j = i
    <3>1. n \in Nat /\ k \in {1, 2} /\ i \in add
      BY <1>1, <1>3
    <3> HIDE DEF n, k
    <3> QED BY <3>1
  <2>2. m2[n + j] = Window(mark, now, raws[j])
    BY <1>3, <2>1
  <2> QED BY <2>1, <2>2
<1>41. \A i \in add : m2[i].from = mark /\ m2[i].to = now /\ m2[i].parent = -1
  <2> TAKE i \in add
  <2>1. m2[i] = Window(mark, now, raws[i - n])
    BY <1>4
  <2> QED BY <2>1 DEF Window
<1>5. MainOf(m2) = old \cup add
  <2>1. \A i \in add : i \in DOMAIN m2 /\ m2[i].parent = -1
    BY <1>1, <1>3, <1>41
  <2>2. \A i \in DOMAIN m2 : i \in add \/ i \in DOMAIN ms
    BY <1>1, <1>3
  <2>3. \A i \in DOMAIN ms : i \in DOMAIN m2 /\ m2[i] = ms[i]
    BY <1>1, <1>3
  <2> HIDE DEF m2, add
  <2> QED BY <2>1, <2>2, <2>3 DEF MainOf
<1>6. \A i \in old : m2[i] = ms[i] /\ i \notin add
  BY <1>3 DEF MainOf
<1>7. \A i \in add : m2[i].from = mark /\ m2[i].to = now
  BY <1>41
<1>8. \A i \in old : lo <= ms[i].from /\ ms[i].from <= ms[i].to /\ ms[i].to <= mark /\ ms[i].from \in Int /\ ms[i].to \in Int
  BY MainIs DEF Tiled
<1>9. (k = 1 => add = {n + 1}) /\ (k = 2 => add = {n + 1, n + 2}) /\ n + 1 \in add
  <2>1. n \in Nat /\ k \in {1, 2}
    BY <1>1, <1>3
  <2> HIDE DEF n, k
  <2> QED BY <2>1
<1>10. /\ m2[n + 1].raw = raws[1]
       /\ k = 2 => m2[n + 2].raw = raws[2]
  <2>1. k \in {1, 2} /\ \A i \in 1 .. k : m2[n + i] = Window(mark, now, raws[i])
    BY <1>1, <1>3
  <2>2. m2[n + 1] = Window(mark, now, raws[1]) /\ (k = 2 => m2[n + 2] = Window(mark, now, raws[2]))
    <3> HIDE DEF k, n
    <3> QED BY <2>1
  <2> QED BY <2>2 DEF Window
<1> HIDE DEF add, k
<1>11. \A i \in MainOf(m2) : lo <= m2[i].from /\ m2[i].from <= m2[i].to /\ m2[i].to <= now
  <2> TAKE i \in MainOf(m2)
  <2>1. CASE i \in old
    <3>1. m2[i] = ms[i] /\ lo <= ms[i].from /\ ms[i].from <= ms[i].to /\ ms[i].to <= mark /\ ms[i].from \in Int /\ ms[i].to \in Int
      BY <1>6, <1>8, <2>1
    <3> QED BY <3>1
  <2>2. CASE i \in add
    BY <1>7, <2>2
  <2> QED BY <1>5, <2>1, <2>2
<1>12. \A t \in lo .. (now - 1) : \E i \in MainOf(m2) : m2[i].from <= t /\ t < m2[i].to
  <2> TAKE t \in lo .. (now - 1)
  <2>1. CASE t < mark
    <3>1. t \in lo .. (mark - 1)
      BY <2>1
    <3>2. PICK i \in old : ms[i].from <= t /\ t < ms[i].to
      BY <3>1 DEF Tiled
    <3> QED BY <1>5, <1>6, <3>2
  <2>2. CASE t >= mark
    <3>1. n + 1 \in MainOf(m2) /\ m2[n + 1].from = mark /\ m2[n + 1].to = now
      BY <1>5, <1>7, <1>9
    <3> QED BY <2>2, <3>1
  <2> QED BY <2>1, <2>2
<1>13. \A i, j \in MainOf(m2) : Same(m2, i, j) \/ m2[i].to <= m2[j].from \/ m2[j].to <= m2[i].from
  <2> TAKE i, j \in MainOf(m2)
  <2>1. CASE i \in old /\ j \in old
    <3>1. Same(ms, i, j) \/ ms[i].to <= ms[j].from \/ ms[j].to <= ms[i].from
      BY <2>1 DEF Tiled
    <3> QED BY <1>6, <2>1, <3>1 DEF Same
  <2>2. CASE i \in add /\ j \in add
    BY <1>7, <2>2 DEF Same
  <2>3. CASE i \in old /\ j \in add
    BY <1>6, <1>7, <1>8, <2>3
  <2>4. CASE i \in add /\ j \in old
    BY <1>6, <1>7, <1>8, <2>4
  <2> QED BY <1>5, <2>1, <2>2, <2>3, <2>4
<1>14. \A i \in MainOf(m2) : m2[i].from = m2[i].to => m2[i].raw = 0
  <2> TAKE i \in MainOf(m2)
  <2> HAVE m2[i].from = m2[i].to
  <2>1. CASE i \in old
    <3>1. ms[i].from = ms[i].to
      BY <1>6, <2>1
    <3> QED BY <1>6, <2>1, <3>1 DEF Tiled
  <2>2. CASE i \in add
    <3>1. mark = now
      BY <1>7, <2>2
    <3>2. k = 1 /\ i = n + 1 /\ raws[1] = 0
      BY <1>1, <1>9, <2>2, <3>1
    <3> QED BY <1>10, <3>2
  <2> QED BY <1>5, <2>1, <2>2
<1>15. \A i \in MainOf(m2) : m2[i].from < m2[i].to =>
         \/ Time!Group(m2, i) = {i} /\ m2[i].raw = m2[i].to - m2[i].from
         \/ \E j \in MainOf(m2) \ {i} : Time!Group(m2, i) = {i, j} /\ m2[i].raw + m2[j].raw = m2[i].to - m2[i].from
  <2> TAKE i \in MainOf(m2)
  <2> HAVE m2[i].from < m2[i].to
  <2>1. CASE i \in old
    <3>1. ms[i].from < ms[i].to /\ m2[i] = ms[i]
      BY <1>6, <2>1
    <3>2. \A j \in MainOf(m2) : Same(m2, j, i) <=> j \in old /\ Same(ms, j, i)
      <4> TAKE j \in MainOf(m2)
      <4>1. CASE j \in old
        BY <1>6, <2>1, <4>1 DEF Same
      <4>2. CASE j \in add
        <5>1. j \notin old
          BY <1>6, <4>2
        <5>2. m2[j].from = mark /\ m2[i].from < mark
          BY <1>7, <1>8, <2>1, <3>1, <4>2
        <5> QED BY <1>8, <2>1, <3>1, <5>1, <5>2 DEF Same
      <4> QED BY <1>5, <4>1, <4>2
    <3>3. Time!Group(m2, i) = Time!Group(ms, i)
      <4>1. Time!Group(m2, i) = {j \in MainOf(m2) : Same(m2, j, i)} /\ Time!Group(ms, i) = {j \in old : Same(ms, j, i)}
        BY GroupIs
      <4> QED BY <1>5, <3>2, <4>1
    <3>4. \/ Time!Group(ms, i) = {i} /\ ms[i].raw = ms[i].to - ms[i].from
          \/ \E j \in old \ {i} : Time!Group(ms, i) = {i, j} /\ ms[i].raw + ms[j].raw = ms[i].to - ms[i].from
      BY <2>1, <3>1 DEF Tiled
    <3>5. \A j \in old : m2[j] = ms[j] /\ j \in MainOf(m2)
      BY <1>5, <1>6
    <3> HIDE DEF old
    <3> QED BY <3>1, <3>3, <3>4, <3>5
  <2>2. CASE i \in add
    <3>1. mark < now
      BY <1>7, <2>2
    <3>2. \A j \in MainOf(m2) : Same(m2, j, i) <=> j \in add
      <4> TAKE j \in MainOf(m2)
      <4>1. CASE j \in add
        BY <1>7, <2>2, <4>1 DEF Same
      <4>2. CASE j \in old
        <5>1. j \notin add
          BY <1>6, <4>2
        <5>2. m2[j].to <= mark /\ m2[j].to \in Int /\ m2[i].to = now
          BY <1>6, <1>7, <1>8, <2>2, <4>2
        <5>3. m2[j].to # m2[i].to
          BY <3>1, <5>2
        <5> QED BY <5>1, <5>3 DEF Same
      <4> QED BY <1>5, <4>1, <4>2
    <3>3. Time!Group(m2, i) = add
      <4>1. Time!Group(m2, i) = {j \in MainOf(m2) : Same(m2, j, i)}
        BY GroupIs
      <4> QED BY <1>5, <3>2, <4>1
    <3>4. CASE k = 1
      <4>1. add = {n + 1} /\ i = n + 1
        BY <1>9, <2>2, <3>4
      <4> QED BY <1>1, <1>7, <1>10, <2>2, <3>3, <3>4, <4>1
    <3>5. CASE k = 2
      <4>1. add = {n + 1, n + 2} /\ (n + 1) # (n + 2)
        BY <1>3, <1>9, <3>5
      <4>2. raws[1] \in Int /\ raws[2] \in Int /\ raws[1] + raws[2] = now - mark
        BY <1>1, <1>21, <3>5
      <4>3. m2[i].from = mark /\ m2[i].to = now /\ n + 1 \in MainOf(m2) /\ n + 2 \in MainOf(m2)
        BY <1>5, <1>7, <2>2, <4>1
      <4>4. CASE i = n + 1
        BY <1>10, <3>3, <3>5, <4>1, <4>2, <4>3, <4>4
      <4>5. CASE i = n + 2
        <5>1. {n + 1, n + 2} = {i, n + 1} /\ m2[i].raw + m2[n + 1].raw = now - mark /\ n + 1 # i
          BY <1>10, <3>5, <4>1, <4>2, <4>5
        <5> QED BY <3>3, <4>1, <4>3, <5>1
      <4> QED BY <2>2, <4>1, <4>4, <4>5
    <3> QED BY <1>1, <3>4, <3>5
  <2> QED BY <1>5, <2>1, <2>2
<1>16. Tiled(m2, lo, now)
  BY <1>11, <1>12, <1>13, <1>14, <1>15 DEF Tiled
<1> QED BY <1>3, <1>16 DEF m2

-----------------------------------------------------------------------------
TimeFields == {"now", "mark", "messages", "calls", "ended", "used", "record"}
Clocked(o) == DOMAIN o = TimeFields /\ o = [f \in TimeFields |-> o[f]]

Put(o, k, e) == [o EXCEPT ![k] = e]

LEMMA SetClocked ==
  ASSUME NEW o, Clocked(o), NEW k \in TimeFields, NEW e
  PROVE  /\ Clocked(Put(o, k, e)) /\ Put(o, k, e)[k] = e
         /\ \A f \in TimeFields \ {k} : Put(o, k, e)[f] = o[f]
  BY DEF Clocked, Put

\* The windows tile what has passed since the first output, up to the mark; a
\* call lies in the turn so far.
TiledTo(ms, mark, now) ==
  IF mark = -1 THEN MainOf(ms) = {} ELSE mark \in 0 .. now /\ \E lo \in 0 .. mark : Tiled(ms, lo, mark)
Timed(c, now) == c.from \in 0 .. now /\ c.open \in BOOLEAN /\ (~ c.open => c.to \in 0 .. now)

TimeInv ==
  /\ Clocked(out) /\ at \in {"running", "ended", "built"}
  /\ out.now \in Nat /\ out.messages \in Seq(Messages)
  /\ TiledTo(out.messages, out.mark, out.now)
  /\ \A t \in DOMAIN out.calls : Timed(out.calls[t], out.now)
  /\ at # "running" => out.ended = out.now /\ out.used \in 0 .. 2
  /\ at = "built" => out.record = Time!Record

LEMMA TimeInvInit == ASSUME Time!Init PROVE TimeInv
<1>1. /\ at = "running"
      /\ out = [now |-> 0, mark |-> -1, messages |-> << >>, calls |-> [t \in {} |-> 0],
                ended |-> -1, used |-> 0, record |-> Time!NoRecord]
  BY DEF Time!Init, Time!None
<1>2. Clocked(out)
  BY <1>1 DEF Clocked, TimeFields
<1>3. out.now = 0 /\ out.mark = -1 /\ out.messages = << >> /\ DOMAIN out.calls = {}
  BY <1>1
<1>4. MainOf(out.messages) = {} /\ out.messages \in Seq(Messages)
  BY <1>3 DEF MainOf
<1> QED BY <1>1, <1>2, <1>3, <1>4 DEF TimeInv, TiledTo

\* What a step that only moves time on, or changes a call, leaves as it was.
LEMMA TimedLater ==
  ASSUME NEW now \in Nat, NEW c, Timed(c, now) PROVE Timed(c, now + 1)
  BY DEF Timed

LEMMA TimeInvNext == ASSUME TimeInv, Time!Next PROVE TimeInv'
<1>0. \A f \in {"now", "mark", "messages", "calls", "ended", "used", "record"} : f \in TimeFields
  BY DEF TimeFields
<1>1. /\ Clocked(out) /\ out.now \in Nat /\ out.messages \in Seq(Messages)
      /\ TiledTo(out.messages, out.mark, out.now)
      /\ \A t \in DOMAIN out.calls : Timed(out.calls[t], out.now)
  BY DEF TimeInv
<1>2. CASE Time!Tick
  <2> DEFINE e == out.now + 1
  <2>1. at = "running" /\ at' = at /\ out' = Put(out, "now", e)
    BY <1>2 DEF Put, Time!Tick, Time!Running
  <2>2. Clocked(out') /\ out'.now = e /\ out'.mark = out.mark /\ out'.messages = out.messages /\ out'.calls = out.calls
    <3> HIDE DEF e
    <3> DEFINE o == Put(out, "now", e)
    <3>1. Clocked(o) /\ o["now"] = e /\ \A f \in TimeFields \ {"now"} : o[f] = out[f]
      BY <1>0, <1>1, SetClocked
    <3> QED BY <1>0, <2>1, <3>1
  <2>3. TiledTo(out.messages, out.mark, e)
    BY <1>1 DEF TiledTo
  <2>4. \A t \in DOMAIN out.calls : Timed(out.calls[t], e)
    BY <1>1, TimedLater
  <2>5. e \in Nat
    BY <1>1
  <2> HIDE DEF e
  <2> QED BY <1>1, <2>1, <2>2, <2>3, <2>4, <2>5 DEF TimeInv
<1>3. CASE Time!FirstOutput
  <2> DEFINE e == out.now
  <2>1. at = "running" /\ at' = at /\ out.mark = -1 /\ out' = Put(out, "mark", e)
    BY <1>3 DEF Put, Time!FirstOutput, Time!Running, Time!None
  <2>2. Clocked(out') /\ out'.mark = e /\ out'.now = out.now /\ out'.messages = out.messages /\ out'.calls = out.calls
    <3> HIDE DEF e
    <3> DEFINE o == Put(out, "mark", e)
    <3>1. Clocked(o) /\ o["mark"] = e /\ \A f \in TimeFields \ {"mark"} : o[f] = out[f]
      BY <1>0, <1>1, SetClocked
    <3> QED BY <1>0, <2>1, <3>1
  <2>3. TiledTo(out.messages, e, out.now)
    <3>1. MainOf(out.messages) = {}
      BY <1>1, <2>1 DEF TiledTo
    <3>2. e .. (e - 1) = {} /\ e \in 0 .. e
      BY <1>1
    <3>3. Tiled(out.messages, e, e)
      BY <3>1, <3>2 DEF Tiled
    <3> QED BY <1>1, <3>2, <3>3 DEF TiledTo
  <2> HIDE DEF e
  <2> QED BY <1>1, <2>1, <2>2, <2>3 DEF TimeInv
<1>4. CASE Time!Flush
  <2>1. PICK raws \in Time!Raws(out.now - out.mark) :
          out' = [out EXCEPT !.messages = @ \o [i \in DOMAIN raws |-> Time!Message(raws[i], Time!None, {})], !.mark = out.now]
    BY <1>4 DEF Time!Flush
  <2> DEFINE e == Flushed(out.messages, out.mark, out.now, raws)
             o1 == Put(out, "messages", e)
  <2>2. at = "running" /\ at' = at /\ out.mark # -1
    BY <1>4 DEF Time!Flush, Time!Running, Time!None
  <2>3. out' = Put(o1, "mark", out.now)
    <3>1. e = out.messages \o [i \in DOMAIN raws |-> Time!Message(raws[i], Time!None, {})]
      BY DEF Flushed, Window, Time!Message, Time!None
    <3> HIDE DEF e
    <3>2. out' = [out EXCEPT !.messages = e, !.mark = out.now]
      BY <2>1, <3>1
    <3> QED BY <3>2 DEF Put
  <2>4. Clocked(out') /\ out'.mark = out.now /\ out'.now = out.now /\ out'.messages = e /\ out'.calls = out.calls
    <3> HIDE DEF e
    <3>1. Clocked(o1) /\ o1["messages"] = e /\ \A f \in TimeFields \ {"messages"} : o1[f] = out[f]
      BY <1>0, <1>1, SetClocked
    <3> DEFINE n == out.now
               o == Put(o1, "mark", n)
    <3> HIDE DEF o1, n
    <3>2. Clocked(o) /\ o["mark"] = n /\ \A f \in TimeFields \ {"mark"} : o[f] = o1[f]
      BY <1>0, <3>1, SetClocked
    <3> QED BY <1>0, <2>3, <3>1, <3>2 DEF n
  <2>5. PICK lo \in 0 .. out.mark : Tiled(out.messages, lo, out.mark)
    BY <1>1, <2>2 DEF TiledTo
  <2>6. out.mark \in 0 .. out.now
    BY <1>1, <2>2 DEF TiledTo
  <2>7. e \in Seq(Messages) /\ Tiled(e, lo, out.now)
    <3>1. lo \in Nat /\ out.mark \in Nat /\ lo <= out.mark /\ out.mark <= out.now
      BY <1>1, <2>5, <2>6
    <3> QED BY <1>1, <2>5, <3>1, TiledFlush
  <2>8. TiledTo(e, out.now, out.now)
    <3>1. lo \in 0 .. out.now /\ out.now # -1 /\ out.now \in 0 .. out.now
      BY <1>1, <2>5, <2>6
    <3> HIDE DEF e
    <3> QED BY <2>7, <3>1 DEF TiledTo
  <2> HIDE DEF e
  <2> QED BY <1>1, <2>2, <2>4, <2>7, <2>8 DEF TimeInv
<1>5. CASE Time!ChildFlush
  <2> DEFINE m == Time!Message(out.now - out.mark, 0, {TurnChild})
             e == Append(out.messages, m)
  <2>1. at = "running" /\ at' = at /\ out.mark # -1 /\ out' = Put(out, "messages", e)
    BY <1>5 DEF Put, Time!ChildFlush, Time!Running, Time!None
  <2>2. Clocked(out') /\ out'.messages = e /\ out'.now = out.now /\ out'.mark = out.mark /\ out'.calls = out.calls
    <3> HIDE DEF e
    <3> DEFINE o == Put(out, "messages", e)
    <3>1. Clocked(o) /\ o["messages"] = e /\ \A f \in TimeFields \ {"messages"} : o[f] = out[f]
      BY <1>0, <1>1, SetClocked
    <3> QED BY <1>0, <2>1, <3>1
  <2>3. m \in Messages /\ m.parent = 0
    <3>1. out.mark \in 0 .. out.now
      BY <1>1, <2>1 DEF TiledTo
    <3>2. out.mark \in Nat /\ out.now \in Nat /\ out.now - out.mark \in Nat
      BY <1>1, <3>1
    <3> QED BY <3>2 DEF Time!Message, Messages
  <2>4. e \in Seq(Messages) /\ MainOf(e) = MainOf(out.messages) /\ \A i \in MainOf(out.messages) : e[i] = out.messages[i]
    <3> DEFINE ms == out.messages
               n == Len(ms)
    <3> HIDE DEF m
    <3>1. e \in Seq(Messages) /\ DOMAIN e = (DOMAIN ms) \cup {n + 1} /\ e[n + 1] = m /\ \A i \in DOMAIN ms : e[i] = ms[i]
      BY <1>1, <2>3
    <3> HIDE DEF e, ms, n
    <3>2. MainOf(e) = MainOf(ms)
      BY <2>3, <3>1 DEF MainOf
    <3>3. \A i \in MainOf(ms) : e[i] = ms[i]
      BY <3>1 DEF MainOf
    <3> QED BY <3>1, <3>2, <3>3 DEF ms
  <2>5. TiledTo(e, out.mark, out.now)
    <3> HIDE DEF e
    <3> DEFINE ms == out.messages
               mark == out.mark
    <3>1. PICK lo \in 0 .. mark : Tiled(ms, lo, mark)
      BY <1>1, <2>1 DEF TiledTo
    <3>2. mark \in 0 .. out.now
      BY <1>1, <2>1 DEF TiledTo
    <3>3. Tiled(e, lo, mark)
      <4> HIDE DEF ms, mark
      <4>1. MainOf(e) = MainOf(ms) /\ \A i \in MainOf(ms) : e[i] = ms[i]
        BY <2>4 DEF ms
      <4> QED BY <3>1, <4>1, TiledSame
    <3> QED BY <2>1, <3>1, <3>2, <3>3 DEF TiledTo
  <2> HIDE DEF e
  <2> QED BY <1>1, <2>1, <2>2, <2>4, <2>5 DEF TimeInv
<1>6. ASSUME NEW t, NEW c, Timed(c, out.now), at = "running", at' = at, out' = [out EXCEPT !.calls = Time!SetCall(t, c)]
      PROVE  TimeInv'
  <2> DEFINE e == Time!SetCall(t, c)
  <2>1. out' = Put(out, "calls", e)
    BY <1>6 DEF Put
  <2>2. Clocked(out') /\ out'.calls = e /\ out'.now = out.now /\ out'.mark = out.mark /\ out'.messages = out.messages
    <3> HIDE DEF e
    <3> DEFINE o == Put(out, "calls", e)
    <3>1. Clocked(o) /\ o["calls"] = e /\ \A f \in TimeFields \ {"calls"} : o[f] = out[f]
      BY <1>0, <1>1, SetClocked
    <3> QED BY <1>0, <2>1, <3>1
  <2>3. \A x \in DOMAIN e : Timed(e[x], out.now)
    BY <1>1, <1>6 DEF Time!SetCall
  <2> HIDE DEF e
  <2> QED BY <1>1, <1>6, <2>2, <2>3 DEF TimeInv
<1>7. CASE Time!ToolStart
  <2>1. PICK t \in TurnTools \cup {TurnChild} : out' = [out EXCEPT !.calls = Time!SetCall(t, Time!Span(out.now, Time!None, TRUE))]
    BY <1>7 DEF Time!ToolStart
  <2>2. Timed(Time!Span(out.now, Time!None, TRUE), out.now)
    BY <1>1 DEF Timed, Time!Span
  <2>3. at = "running" /\ at' = at
    BY <1>7 DEF Time!ToolStart, Time!Running
  <2> QED BY <1>6, <2>1, <2>2, <2>3
<1>8. CASE Time!ToolEnd
  <2>1. PICK t \in DOMAIN out.calls : out' = [out EXCEPT !.calls = Time!SetCall(t, Time!Span(out.calls[t].from, out.now, FALSE))]
    BY <1>8 DEF Time!ToolEnd
  <2>2. Timed(Time!Span(out.calls[t].from, out.now, FALSE), out.now)
    <3>1. out.calls[t].from \in 0 .. out.now
      BY <1>1 DEF Timed
    <3> QED BY <1>1, <3>1 DEF Timed, Time!Span
  <2>3. at = "running" /\ at' = at
    BY <1>8 DEF Time!ToolEnd, Time!Running
  <2> QED BY <1>6, <2>1, <2>2, <2>3
<1>9. CASE Time!AgentEnd
  <2>1. PICK used \in 0 .. 2 : out' = [out EXCEPT !.ended = out.now, !.used = used]
    BY <1>9 DEF Time!AgentEnd
  <2> DEFINE n == out.now
             o1 == Put(out, "ended", n)
  <2>2. at' = "ended" /\ out' = Put(o1, "used", used)
    <3>1. at' = "ended"
      BY <1>9 DEF Time!AgentEnd
    <3> QED BY <2>1, <3>1 DEF Put
  <2>3. Clocked(out') /\ out'.ended = out.now /\ out'.used = used /\ out'.now = out.now /\ out'.mark = out.mark
        /\ out'.messages = out.messages /\ out'.calls = out.calls
    <3>1. Clocked(o1) /\ o1["ended"] = n /\ \A f \in TimeFields \ {"ended"} : o1[f] = out[f]
      <4> HIDE DEF n
      <4> QED BY <1>0, <1>1, SetClocked
    <3> DEFINE o == Put(o1, "used", used)
    <3> HIDE DEF o1
    <3>2. Clocked(o) /\ o["used"] = used /\ \A f \in TimeFields \ {"used"} : o[f] = o1[f]
      BY <1>0, <3>1, SetClocked
    <3> QED BY <1>0, <2>2, <3>1, <3>2
  <2> QED BY <1>1, <2>2, <2>3 DEF TimeInv
<1>10. CASE Time!BuildTurnRecord
  <2> DEFINE e == Time!Record
  <2>1. at = "ended" /\ at' = "built" /\ out' = Put(out, "record", e)
    BY <1>10 DEF Put, Time!BuildTurnRecord
  <2>2. Clocked(out') /\ out'.record = e /\ out'.now = out.now /\ out'.mark = out.mark /\ out'.messages = out.messages
        /\ out'.calls = out.calls /\ out'.ended = out.ended /\ out'.used = out.used
    <3> HIDE DEF e
    <3> DEFINE o == Put(out, "record", e)
    <3>1. Clocked(o) /\ o["record"] = e /\ \A f \in TimeFields \ {"record"} : o[f] = out[f]
      BY <1>0, <1>1, SetClocked
    <3> QED BY <1>0, <2>1, <3>1
  <2>3. Time!Record' = e
    BY <2>2 DEF Time!Record
  <2>4. out.ended = out.now /\ out.used \in 0 .. 2
    BY <2>1 DEF TimeInv
  <2> HIDE DEF e
  <2> QED BY <1>1, <2>1, <2>2, <2>3, <2>4 DEF TimeInv
<1> QED BY <1>2, <1>3, <1>4, <1>5, <1>7, <1>8, <1>9, <1>10 DEF Time!Next

LEMMA TimeInvHolds == Time!Spec => []TimeInv
<1>1. TimeInv /\ UNCHANGED Time!vars => TimeInv'
  <2> SUFFICES ASSUME TimeInv, UNCHANGED Time!vars PROVE TimeInv'
    OBVIOUS
  <2>1. case' = case /\ at' = at /\ out' = out
    BY DEF Time!vars
  <2>2. Time!Record' = Time!Record
    BY <2>1 DEF Time!Record
  <2> QED BY <2>1, <2>2 DEF TimeInv
<1> QED BY <1>1, TimeInvInit, TimeInvNext, PTL DEF Time!Spec

LEMMA TimeInvSuffices == ASSUME TimeInv PROVE TurnAccounted
<1> SUFFICES ASSUME case.of = "time", at = "built"
             PROVE  /\ Time!Main # {} =>
                         out.record.startup + Time!SumOf(Time!Main, LAMBDA i : out.record.net[i]) + Time!Measured(out.record.tools) + out.record.teardown = out.ended
                    /\ \A i \in Time!Main : out.record.net[i] \in 0..out.messages[i].raw
                    /\ out.used > 0 => Time!SumOf(DOMAIN out.messages, LAMBDA i : out.messages[i].tokens) + out.record.booked = out.used
  BY DEF TurnAccounted, Time!TurnAccounted, Time!Built
<1> DEFINE ms == out.messages
           ts == Time!MainSpans(ms, out.calls)
           M == MainOf(ms)
           f == [i \in DOMAIN ms |-> Time!Net(ms, ts, out.calls, i)]
           g == [i \in M |-> out.record.net[i]]
           tok == [i \in DOMAIN ms |-> ms[i].tokens]
<1>1. /\ out.now \in Nat /\ ms \in Seq(Messages) /\ TiledTo(ms, out.mark, out.now) /\ out.ended = out.now /\ out.used \in 0 .. 2
      /\ out.record = Time!Record /\ \A t \in DOMAIN out.calls : Timed(out.calls[t], out.now)
  BY DEF TimeInv
<1>2. Time!Main = M /\ {i \in DOMAIN ms : ms[i].parent = Time!None} = M
  BY DEF Time!Main, MainOf, Time!None
<1>3. /\ (M # {} => out.record.startup = Time!Startup(ms, M, ts, out.calls))
      /\ out.record.net = f
      /\ out.record.tools = Time!UnionMs(ts, out.calls)
      /\ (M # {} => out.record.teardown = Time!Teardown(ms, M, ts, out.calls, out.ended))
      /\ out.record.booked = Time!Booked(ms, out.used)
  <2>1. out.record = [startup |-> IF M = {} THEN Time!None ELSE Time!Startup(ms, M, ts, out.calls),
                      net    |-> f,
                      tools  |-> Time!UnionMs(ts, out.calls),
                      teardown |-> IF M = {} THEN Time!None ELSE Time!Teardown(ms, M, ts, out.calls, out.ended),
                      booked |-> Time!Booked(ms, out.used)]
    BY <1>1, <1>2 DEF Time!Record
  <2> HIDE DEF ms, ts, M, f
  <2> QED BY <2>1
<1>4. Spanned(ts, out.calls, out.now)
  BY <1>1 DEF Spanned, Time!MainSpans, Timed
<1>5. \A j \in DOMAIN ms : f[j] = Time!Net(ms, ts, out.calls, j)
  OBVIOUS
<1>6. Time!SumOf(Time!Main, LAMBDA i : out.record.net[i]) = Sum(g, M)
  BY <1>2, FoldIsSum DEF Time!SumOf
<1>7. Time!SumOf(DOMAIN ms, LAMBDA i : ms[i].tokens) = Sum(tok, DOMAIN ms)
  BY FoldIsSum DEF Time!SumOf
<1>8. M # {} => out.mark \in 0 .. out.now /\ \E lo \in 0 .. out.mark : Tiled(ms, lo, out.mark)
  BY <1>1 DEF TiledTo
<1>9. Sum(g, M) = Sum(f, M)
  <2>1. IsFiniteSet(M) /\ M \subseteq DOMAIN ms
    BY <1>1, MainFinite DEF MainOf
  <2>2. \A i \in M : g[i] = f[i]
    <3> HIDE DEF f, ms, M
    <3> QED BY <1>3
  <2> HIDE DEF f, g, M
  <2> QED BY <2>1, <2>2, SumSame
<1>10. IsFiniteSet(DOMAIN ms) /\ \A i \in DOMAIN ms : tok[i] = 1
  <2>1. \A i \in DOMAIN ms : ms[i] \in Messages
    BY <1>1
  <2> QED BY <1>1, <2>1, MainFinite DEF Messages
<1>11. Time!Booked(ms, out.used) = IF out.used = 0 THEN 0 ELSE out.used - Sum(tok, DOMAIN ms)
  BY <1>7 DEF Time!Booked
<1> HIDE DEF ts, f, g, tok
<1>12. ASSUME M # {}
       PROVE  /\ out.record.startup + Sum(f, M) + Time!Measured(out.record.tools) + out.record.teardown = out.ended
              /\ \A i \in M : out.record.net[i] \in 0 .. ms[i].raw
  <2>1. PICK lo \in 0 .. out.mark : Tiled(ms, lo, out.mark)
    BY <1>8, <1>12
  <2>2. out.mark \in 0 .. out.now
    BY <1>8, <1>12
  <2>3. lo \in Nat /\ out.mark \in Nat /\ lo <= out.mark /\ out.mark <= out.now
    BY <1>1, <2>1, <2>2
  <2> DEFINE hi == out.mark
             end == out.now
             cs == out.calls
  <2> HIDE DEF M, ms, hi, end, cs
  <2>4. Time!Startup(ms, MainOf(ms), ts, cs) + Sum(f, MainOf(ms)) + Time!Measured(Time!UnionMs(ts, cs))
           + Time!Teardown(ms, MainOf(ms), ts, cs, end) = end
    BY <1>1, <1>4, <1>5, <1>12, <2>1, <2>3, BucketsAre DEF hi, end, cs, M
  <2>5. \A i \in M : f[i] \in 0 .. ms[i].raw
    <3> TAKE i \in M
    <3>1. i \in MainOf(ms) /\ Tiled(ms, lo, hi) /\ ms \in Seq(Messages) /\ \A j \in DOMAIN ms : f[j] = Time!Net(ms, ts, cs, j)
      BY <1>1, <1>5, <2>1 DEF M, hi, cs
    <3> QED BY <3>1, NetGroup
  <2> QED BY <1>1, <1>3, <1>12, <2>4, <2>5 DEF M, end, cs
<1>13. ASSUME out.used > 0 PROVE Sum(tok, DOMAIN ms) + out.record.booked = out.used
  <2> DEFINE n == Sum(tok, DOMAIN ms)
  <2>1. n \in Int
    <3>1. \A i \in DOMAIN ms : tok[i] \in Int
      BY <1>10
    <3> QED BY <1>10, <3>1, SumInt
  <2>2. out.record.booked = out.used - n
    BY <1>1, <1>3, <1>11, <1>13
  <2>3. out.used \in Int
    BY <1>1
  <2> HIDE DEF n
  <2>4. n + (out.used - n) = out.used
    BY <2>1, <2>3
  <2> QED BY <2>2, <2>4 DEF n
<1> QED BY <1>2, <1>6, <1>7, <1>9, <1>12, <1>13

\* The time of a turn is booked once: its windows tile it up to the last mark,
\* what a tool was running for is the tool's, and what a window books to the model
\* is the rest of it.  For every length of a turn, every window and every call
\* (turn timing of the collector).
THEOREM TimeStaysAccounted == Time!Spec => []TurnAccounted
  BY TimeInvHolds, TimeInvSuffices, PTL

-----------------------------------------------------------------------------
(* The configuration of a task (ConfigLayers).                             *)

Plain  == Config!Leaves \ Config!Appended
Patch(q) ==
  /\ q \in [1 .. 5 -> SUBSET Config!Leaves]
  /\ \A l \in 1 .. 5 : "settings" \in q[l] => q[l] = {"settings"}

\* The merges in their order, the overrides last: what each is given, and the
\* layer it is of.
Piece(q, j) == IF j = 8 THEN q[5] ELSE Config!Part(q, j)
LayerAt(j)  == IF j = 8 THEN 5 ELSE Config!Order[j]

\* What a layer that sets it takes away, from the leaf's side.
Clears(x) ==
  CASE x = "prompt"     -> {"promptFile"}
    [] x = "promptFile" -> {"prompt"}
    [] x = "settings"   -> {"settings.a", "settings.b"}
    [] x \in {"settings.a", "settings.b"} -> {"settings"}
    [] OTHER -> {}

\* Of the merges before n, the j-th is the one that decides on x.
Concerns(q, k, x) == Piece(q, k) \cap (Clears(x) \cup {x}) # {}
Stands(q, n, x, j) == j \in 1 .. (n - 1) /\ x \in Piece(q, j) /\ \A k \in 1 .. (n - 1) : Concerns(q, k, x) => k <= j

\* What f says of x is what the merges before n leave it: a value or an entry.
SetIs(f, q, n, x) ==
  /\ x \in DOMAIN f <=> \E j \in 1 .. 8 : Stands(q, n, x, j)
  /\ \A j \in 1 .. 8 : Stands(q, n, x, j) => f[x] = LayerAt(j)

\* And the last to touch the entry of x in the lineage.
Marks2(q, k, x) == \E y \in Piece(q, k) \ {"pre", "post"} : Config!Entry(y) = Config!Entry(x)
Touches(q, n, x, j) == j \in 1 .. (n - 1) /\ Marks2(q, j, x) /\ \A k \in 1 .. (n - 1) : Marks2(q, k, x) => k <= j

\* What the lineage says of x is who touched its entry last.
EntryIs(g, q, n, x) ==
  \A j \in 1 .. 8 : Touches(q, n, x, j) => Config!Entry(x) \in DOMAIN g /\ g[Config!Entry(x)] = LayerAt(j)

\* The list x has become of s when the j-th merge is done, and before the n-th.
Grown(q, x, j, s) == IF x \in Piece(q, j) THEN Config!AppendedTo(s, x, LayerAt(j)) ELSE s
Pile3(q, x) == Grown(q, x, 2, Grown(q, x, 1, << >>))
Pile5(q, x) == Grown(q, x, 4, Grown(q, x, 3, Pile3(q, x)))
Pile7(q, x) == Grown(q, x, 6, Grown(q, x, 5, Pile5(q, x)))
Pile(q, x, n) ==
  CASE n = 1 -> << >>
    [] n = 2 -> Grown(q, x, 1, << >>)
    [] n = 3 -> Pile3(q, x)
    [] n = 4 -> Grown(q, x, 3, Pile3(q, x))
    [] n = 5 -> Pile5(q, x)
    [] n = 6 -> Grown(q, x, 5, Pile5(q, x))
    [] n = 7 -> Pile7(q, x)
    [] n = 8 -> Grown(q, x, 7, Pile7(q, x))
    [] n = 9 -> Grown(q, x, 8, Grown(q, x, 7, Pile7(q, x)))
Held(v, x) == IF x \in DOMAIN v THEN v[x] ELSE << >>
ListIs(v, q, n, x) ==
  /\ x \in DOMAIN v <=> \E j \in 1 .. (n - 1) : x \in Piece(q, j)
  /\ Held(v, x) = Pile(q, x, n)

LEMMA LeavesAre ==
  /\ Config!Pair = {"prompt", "promptFile"} /\ Config!Settings = {"settings", "settings.a", "settings.b"}
  /\ Config!Appended = {"env", "templates", "pre", "post"}
  /\ Config!Leaves = {"prompt", "promptFile", "settings", "settings.a", "settings.b", "env", "templates", "pre", "post",
                      "model", "sdk.a", "sdk.b", "docker.image", "docker.network", "driver", "persona", "goal", "turns"}
  BY DEF Config!Pair, Config!Settings, Config!Appended, Config!Leaves

LEMMA OrderIs ==
  /\ LayerAt(1) = 1 /\ LayerAt(2) = 2 /\ LayerAt(3) = 3 /\ LayerAt(4) = 4
  /\ LayerAt(5) = 3 /\ LayerAt(6) = 2 /\ LayerAt(7) = 4 /\ LayerAt(8) = 5
  /\ Len(Config!Order) = 7
  BY DEF LayerAt, Config!Order, Config!Task, Config!Variant

LEMMA PieceIs ==
  ASSUME NEW q
  PROVE  /\ \A j \in 1 .. 4 : Piece(q, j) = q[j] \ {"templates"}
         /\ Piece(q, 5) = q[3] \cap {"templates"} /\ Piece(q, 6) = q[2] \cap {"templates"}
         /\ Piece(q, 7) = q[4] \cap {"templates"} /\ Piece(q, 8) = q[5]
  BY DEF Piece, Config!Part, Config!Order, Config!Task, Config!Variant

\* Every merge is given leaves, and a plain value of a dict alone.
LEMMA PieceSane ==
  ASSUME NEW q, Patch(q), NEW j \in 1 .. 8
  PROVE  /\ Piece(q, j) \subseteq Config!Leaves
         /\ "settings" \in Piece(q, j) => Piece(q, j) = {"settings"}
<1>1. \A l \in 1 .. 5 : q[l] \subseteq Config!Leaves /\ ("settings" \in q[l] => q[l] = {"settings"})
  BY DEF Patch
<1>2. CASE j \in 1 .. 4
  <2>1. Piece(q, j) = q[j] \ {"templates"} /\ j \in 1 .. 5
    BY <1>2, PieceIs
  <2> QED BY <1>1, <2>1
<1>3. CASE j \in 5 .. 7
  <2>1. Piece(q, j) \subseteq {"templates"}
    <3>1. j = 5 \/ j = 6 \/ j = 7
      BY <1>3
    <3> QED BY <3>1, PieceIs
  <2>2. "templates" \in Config!Leaves /\ "settings" # "templates"
    BY LeavesAre
  <2> QED BY <2>1, <2>2
<1>4. CASE j = 8
  <2>1. Piece(q, j) = q[5] /\ 5 \in 1 .. 5
    BY <1>4, PieceIs
  <2> QED BY <1>1, <2>1
<1> QED BY <1>2, <1>3, <1>4

-----------------------------------------------------------------------------
(* One merge.                                                              *)

LEMMA MergeIs ==
  ASSUME NEW v, NEW p \in SUBSET Config!Leaves, NEW l, "settings" \in p => p = {"settings"}, DOMAIN v \subseteq Config!Leaves
  PROVE  LET w == Config!MergeValue(v, p, l) IN
         /\ DOMAIN w \subseteq Config!Leaves
         /\ \A x \in Plain : (x \in DOMAIN w <=> x \in p \/ (x \in DOMAIN v /\ p \cap Clears(x) = {}))
         /\ \A x \in Plain : x \in p => w[x] = l
         /\ \A x \in Plain : x \in DOMAIN w /\ x \notin p => w[x] = v[x]
         /\ \A x \in Config!Appended : (x \in DOMAIN w <=> x \in p \/ x \in DOMAIN v)
         /\ \A x \in Config!Appended : Held(w, x) = IF x \in p THEN Config!AppendedTo(Held(v, x), x, l) ELSE Held(v, x)
<1> DEFINE gone == Config!Siblings(p) \cup Config!Reshaped(p)
           base == [x \in DOMAIN v \ gone |-> v[x]]
           w == Config!MergeValue(v, p, l)
<1>1. \A x \in Config!Leaves : x \in gone <=> x \notin p /\ p \cap Clears(x) # {}
  <2> USE LeavesAre
  <2>1. \A x \in Config!Pair : x \in gone <=> x \notin p /\ p \cap Clears(x) # {}
    BY DEF Config!Siblings, Config!Reshaped, Clears
  <2>2. \A x \in Config!Settings : x \in gone <=> x \notin p /\ p \cap Clears(x) # {}
    BY DEF Config!Siblings, Config!Reshaped, Clears
  <2>3. \A x \in Config!Leaves \ (Config!Pair \cup Config!Settings) : x \notin gone /\ Clears(x) = {}
    BY DEF Config!Siblings, Config!Reshaped, Clears
  <2> QED BY <2>1, <2>2, <2>3
<1>2. w = [x \in DOMAIN base \cup p |-> IF x \in p THEN IF x \in Config!Appended THEN Config!AppendedTo(Held(base, x), x, l) ELSE l ELSE base[x]]
  BY DEF Config!MergeValue, Config!With, Config!Without, Held
<1>3. \A x \in Config!Appended : x \notin gone
  BY LeavesAre DEF Config!Siblings, Config!Reshaped
<1>4. DOMAIN base = DOMAIN v \ gone /\ \A x \in DOMAIN base : base[x] = v[x]
  OBVIOUS
<1>5. Plain \subseteq Config!Leaves /\ Config!Appended \subseteq Config!Leaves /\ Plain \cap Config!Appended = {}
  BY LeavesAre DEF Plain
<1>6. \A x \in Config!Appended : Held(base, x) = Held(v, x)
  BY <1>3, <1>4 DEF Held
<1> HIDE DEF gone, base, w
<1>7. DOMAIN w = DOMAIN base \cup p
  BY <1>2
<1>8. \A x \in DOMAIN w : w[x] = IF x \in p THEN IF x \in Config!Appended THEN Config!AppendedTo(Held(base, x), x, l) ELSE l ELSE base[x]
  BY <1>2
<1>9. DOMAIN w \subseteq Config!Leaves
  BY <1>4, <1>7
<1>10. \A x \in Plain : (x \in DOMAIN w <=> x \in p \/ (x \in DOMAIN v /\ p \cap Clears(x) = {}))
  BY <1>1, <1>4, <1>5, <1>7
<1>11. \A x \in Plain : x \in p => w[x] = l
  BY <1>5, <1>7, <1>8
<1>12. \A x \in Plain : x \in DOMAIN w /\ x \notin p => w[x] = v[x]
  BY <1>4, <1>7, <1>8
<1>13. \A x \in Config!Appended : (x \in DOMAIN w <=> x \in p \/ x \in DOMAIN v)
  BY <1>3, <1>4, <1>7
<1>14. \A x \in Config!Appended : Held(w, x) = IF x \in p THEN Config!AppendedTo(Held(v, x), x, l) ELSE Held(v, x)
  <2> TAKE x \in Config!Appended
  <2>1. CASE x \in p
    BY <1>6, <1>7, <1>8, <2>1 DEF Held
  <2>2. CASE x \notin p
    BY <1>3, <1>4, <1>7, <1>8, <2>2 DEF Held
  <2> QED BY <2>1, <2>2
<1> QED BY <1>9, <1>10, <1>11, <1>12, <1>13, <1>14 DEF w

LEMMA RecordIs ==
  ASSUME NEW g, NEW p \in SUBSET Config!Leaves, NEW l
  PROVE  LET h == Config!RecordLineage(g, p \ {"pre", "post"}, l) IN
         /\ \A e : e \in DOMAIN h <=> (\E y \in p \ {"pre", "post"} : Config!Entry(y) = e) \/ (e \in DOMAIN g /\ e \notin Config!Siblings(p))
         /\ \A e \in DOMAIN h : h[e] = IF \E y \in p \ {"pre", "post"} : Config!Entry(y) = e THEN l ELSE g[e]
<1>1. Config!Siblings(p \ {"pre", "post"}) = Config!Siblings(p)
  BY LeavesAre DEF Config!Siblings
<1> QED BY <1>1 DEF Config!RecordLineage, Config!With, Config!Without

-----------------------------------------------------------------------------
(* The merges before the n-th, and one more.                               *)

LEMMA StandsStep ==
  ASSUME NEW q, NEW n \in 1 .. 8, NEW x, NEW j
  PROVE  Stands(q, n + 1, x, j) <=> (x \in Piece(q, n) /\ j = n) \/ (Stands(q, n, x, j) /\ ~ Concerns(q, n, x))
<1>1. x \in Piece(q, n) => Concerns(q, n, x)
  BY DEF Concerns
<1>2. (n + 1) - 1 = n /\ 1 .. n = 1 .. (n - 1) \cup {n} /\ n \notin 1 .. (n - 1)
  OBVIOUS
<1>3. \A k \in 1 .. n : k <= n
  OBVIOUS
<1>4. \A k \in 1 .. (n - 1) : ~ (n <= k)
  OBVIOUS
<1>5. Stands(q, n + 1, x, j) <=> j \in 1 .. n /\ x \in Piece(q, j) /\ \A k \in 1 .. n : Concerns(q, k, x) => k <= j
  BY <1>2 DEF Stands
<1>6. Stands(q, n, x, j) <=> j \in 1 .. (n - 1) /\ x \in Piece(q, j) /\ \A k \in 1 .. (n - 1) : Concerns(q, k, x) => k <= j
  BY DEF Stands
<1>7. CASE j = n
  BY <1>1, <1>2, <1>3, <1>5, <1>6, <1>7
<1>8. CASE j # n
  BY <1>2, <1>4, <1>5, <1>6, <1>8
<1> QED BY <1>7, <1>8

LEMMA SetStep ==
  ASSUME NEW q, NEW n \in 1 .. 8, NEW x, NEW v, NEW w, SetIs(v, q, n, x),
         x \in DOMAIN w <=> x \in Piece(q, n) \/ (x \in DOMAIN v /\ Piece(q, n) \cap Clears(x) = {}),
         x \in Piece(q, n) => w[x] = LayerAt(n),
         x \in DOMAIN w /\ x \notin Piece(q, n) => w[x] = v[x]
  PROVE  SetIs(w, q, n + 1, x)
<1>1. \A j \in 1 .. 8 : Stands(q, n + 1, x, j) <=> (x \in Piece(q, n) /\ j = n) \/ (Stands(q, n, x, j) /\ ~ Concerns(q, n, x))
  BY StandsStep
<1>2. Concerns(q, n, x) <=> x \in Piece(q, n) \/ Piece(q, n) \cap Clears(x) # {}
  BY DEF Concerns
<1>3. CASE x \in Piece(q, n)
  BY <1>1, <1>2, <1>3 DEF SetIs
<1>4. CASE x \notin Piece(q, n)
  BY <1>1, <1>2, <1>4 DEF SetIs
<1> QED BY <1>3, <1>4

\* Nothing stands before the first merge.
LEMMA SetFirst ==
  ASSUME NEW q, NEW x
  PROVE  SetIs(Config!Empty, q, 1, x)
<1>1. DOMAIN Config!Empty = {}
  BY DEF Config!Empty
<1>2. \A j : ~ Stands(q, 1, x, j)
  BY DEF Stands
<1> QED BY <1>1, <1>2 DEF SetIs

LEMMA TouchStep ==
  ASSUME NEW q, NEW n \in 1 .. 8, NEW x, NEW j
  PROVE  Touches(q, n + 1, x, j) <=> (Marks2(q, n, x) /\ j = n) \/ (Touches(q, n, x, j) /\ ~ Marks2(q, n, x))
<1>1. (n + 1) - 1 = n /\ 1 .. n = 1 .. (n - 1) \cup {n} /\ n \notin 1 .. (n - 1)
  OBVIOUS
<1>2. \A k \in 1 .. n : k <= n
  OBVIOUS
<1>3. \A k \in 1 .. (n - 1) : ~ (n <= k)
  OBVIOUS
<1>4. Touches(q, n + 1, x, j) <=> j \in 1 .. n /\ Marks2(q, j, x) /\ \A k \in 1 .. n : Marks2(q, k, x) => k <= j
  BY <1>1 DEF Touches
<1>5. Touches(q, n, x, j) <=> j \in 1 .. (n - 1) /\ Marks2(q, j, x) /\ \A k \in 1 .. (n - 1) : Marks2(q, k, x) => k <= j
  BY DEF Touches
<1>6. CASE j = n
  BY <1>1, <1>2, <1>4, <1>5, <1>6
<1>7. CASE j # n
  BY <1>1, <1>3, <1>4, <1>5, <1>7
<1> QED BY <1>6, <1>7

LEMMA EntryStep ==
  ASSUME NEW q, NEW n \in 1 .. 8, Piece(q, n) \in SUBSET Config!Leaves, NEW g, NEW x \in Config!Leaves \ Config!Pair, EntryIs(g, q, n, x)
  PROVE  EntryIs(Config!RecordLineage(g, Piece(q, n) \ {"pre", "post"}, LayerAt(n)), q, n + 1, x)
<1> DEFINE h == Config!RecordLineage(g, Piece(q, n) \ {"pre", "post"}, LayerAt(n))
           e == Config!Entry(x)
<1>1. /\ e \in DOMAIN h <=> Marks2(q, n, x) \/ (e \in DOMAIN g /\ e \notin Config!Siblings(Piece(q, n)))
      /\ e \in DOMAIN h => h[e] = IF Marks2(q, n, x) THEN LayerAt(n) ELSE g[e]
  BY RecordIs DEF Marks2
<1>2. e \notin Config!Siblings(Piece(q, n))
  BY LeavesAre DEF Config!Siblings, Config!Entry
<1>3. \A j \in 1 .. 8 : Touches(q, n + 1, x, j) <=> (Marks2(q, n, x) /\ j = n) \/ (Touches(q, n, x, j) /\ ~ Marks2(q, n, x))
  BY TouchStep
<1> HIDE DEF h
<1> QED BY <1>1, <1>2, <1>3 DEF EntryIs, h

LEMMA EntryFirst ==
  ASSUME NEW q, NEW x
  PROVE  EntryIs(Config!Empty, q, 1, x)
<1>1. \A j : ~ Touches(q, 1, x, j)
  BY DEF Touches
<1> QED BY <1>1 DEF EntryIs

LEMMA PileStep ==
  ASSUME NEW q, NEW x, NEW n \in 1 .. 8
  PROVE  Pile(q, x, n + 1) = Grown(q, x, n, Pile(q, x, n))
<1>1. n = 1 \/ n = 2 \/ n = 3 \/ n = 4 \/ n = 5 \/ n = 6 \/ n = 7 \/ n = 8
  OBVIOUS
<1>2. CASE n \in 1 .. 4
  BY <1>2 DEF Pile, Pile3, Pile5
<1>3. CASE n \in 5 .. 8
  BY <1>3 DEF Pile, Pile7
<1> QED BY <1>1, <1>2, <1>3

LEMMA ListStep ==
  ASSUME NEW q, NEW n \in 1 .. 8, NEW x, NEW v, NEW w, ListIs(v, q, n, x),
         x \in DOMAIN w <=> x \in Piece(q, n) \/ x \in DOMAIN v,
         Held(w, x) = IF x \in Piece(q, n) THEN Config!AppendedTo(Held(v, x), x, LayerAt(n)) ELSE Held(v, x)
  PROVE  ListIs(w, q, n + 1, x)
<1>1. Pile(q, x, n + 1) = Grown(q, x, n, Pile(q, x, n))
  BY PileStep
<1>2. 1 .. ((n + 1) - 1) = 1 .. (n - 1) \cup {n}
  OBVIOUS
<1>3. x \in DOMAIN w <=> \E j \in 1 .. ((n + 1) - 1) : x \in Piece(q, j)
  BY <1>2 DEF ListIs
<1>4. Held(w, x) = Grown(q, x, n, Held(v, x))
  BY DEF Grown
<1> QED BY <1>1, <1>3, <1>4 DEF ListIs

LEMMA ListFirst ==
  ASSUME NEW q, NEW x
  PROVE  ListIs(Config!Empty, q, 1, x)
<1>1. DOMAIN Config!Empty = {} /\ Pile(q, x, 1) = << >>
  BY DEF Config!Empty, Pile
<1>2. 1 .. (1 - 1) = {}
  OBVIOUS
<1> QED BY <1>1, <1>2 DEF ListIs, Held

-----------------------------------------------------------------------------
(* The invariant.                                                          *)

\* What the leaves but the system prompt's say, and what its lineage does.
Rest(o, q, n) ==
  /\ DOMAIN o.value \subseteq Config!Leaves
  /\ \A x \in Plain \ Config!Pair : SetIs(o.value, q, n, x)
  /\ \A x \in Config!Appended : ListIs(o.value, q, n, x)
  /\ \A x \in Config!Leaves \ Config!Pair : EntryIs(o.lineage, q, n, x)
  /\ \A x \in Config!Pair : SetIs(o.lineage, q, n, x)
Raw(o, q, n) == Rest(o, q, n) /\ \A x \in Config!Pair : SetIs(o.value, q, n, x)

LEMMA MergeKeeps ==
  ASSUME NEW q, Patch(q), NEW n \in 1 .. 8, NEW o, Rest(o, q, n)
  PROVE  /\ Rest(Config!Merge(o, Piece(q, n), LayerAt(n)), q, n + 1)
         /\ Raw(o, q, n) => Raw(Config!Merge(o, Piece(q, n), LayerAt(n)), q, n + 1)
<1> DEFINE p == Piece(q, n)
           l == LayerAt(n)
           w == Config!MergeValue(o.value, p, l)
           h == Config!RecordLineage(o.lineage, p \ {"pre", "post"}, l)
<1>1. p \in SUBSET Config!Leaves /\ ("settings" \in p => p = {"settings"})
  BY PieceSane
<1>2. DOMAIN o.value \subseteq Config!Leaves
  BY DEF Rest
<1>3. /\ DOMAIN w \subseteq Config!Leaves
      /\ \A x \in Plain : (x \in DOMAIN w <=> x \in p \/ (x \in DOMAIN o.value /\ p \cap Clears(x) = {}))
      /\ \A x \in Plain : x \in p => w[x] = l
      /\ \A x \in Plain : x \in DOMAIN w /\ x \notin p => w[x] = o.value[x]
      /\ \A x \in Config!Appended : (x \in DOMAIN w <=> x \in p \/ x \in DOMAIN o.value)
      /\ \A x \in Config!Appended : Held(w, x) = IF x \in p THEN Config!AppendedTo(Held(o.value, x), x, l) ELSE Held(o.value, x)
  <2> HIDE DEF p, l
  <2> QED BY <1>1, <1>2, MergeIs
<1>4. /\ \A e : e \in DOMAIN h <=> (\E y \in p \ {"pre", "post"} : Config!Entry(y) = e) \/ (e \in DOMAIN o.lineage /\ e \notin Config!Siblings(p))
      /\ \A e \in DOMAIN h : h[e] = IF \E y \in p \ {"pre", "post"} : Config!Entry(y) = e THEN l ELSE o.lineage[e]
  <2> HIDE DEF p, l
  <2> QED BY <1>1, RecordIs
<1>5. Config!Merge(o, p, l).value = w /\ Config!Merge(o, p, l).lineage = h
  BY DEF Config!Merge
<1>6. \A x \in Plain : SetIs(o.value, q, n, x) => SetIs(w, q, n + 1, x)
  <2> TAKE x \in Plain
  <2> HIDE DEF w
  <2> QED BY <1>3, SetStep
<1>7. \A x \in Config!Appended : ListIs(w, q, n + 1, x)
  <2> TAKE x \in Config!Appended
  <2>1. ListIs(o.value, q, n, x)
    BY DEF Rest
  <2> HIDE DEF w
  <2> QED BY <1>3, <2>1, ListStep
<1>8. \A x \in Config!Leaves \ Config!Pair : EntryIs(h, q, n + 1, x)
  <2> TAKE x \in Config!Leaves \ Config!Pair
  <2>1. EntryIs(o.lineage, q, n, x)
    BY DEF Rest
  <2> QED BY <1>1, <2>1, EntryStep
<1>9. \A x \in Config!Pair : SetIs(h, q, n + 1, x)
  <2> TAKE x \in Config!Pair
  <2>1. SetIs(o.lineage, q, n, x)
    BY DEF Rest
  <2>2. (\E y \in p \ {"pre", "post"} : Config!Entry(y) = x) <=> x \in p
    BY <1>1, LeavesAre DEF Config!Entry
  <2>3. x \in Config!Siblings(p) <=> x \notin p /\ p \cap Clears(x) # {}
    BY LeavesAre DEF Config!Siblings, Clears
  <2> HIDE DEF h, p
  <2>4. x \in DOMAIN h <=> x \in p \/ (x \in DOMAIN o.lineage /\ p \cap Clears(x) = {})
    BY <1>4, <2>2, <2>3
  <2>5. x \in p => h[x] = l
    BY <1>4, <2>2, <2>4
  <2>6. x \in DOMAIN h /\ x \notin p => h[x] = o.lineage[x]
    BY <1>4, <2>2
  <2> QED BY <2>1, <2>4, <2>5, <2>6, SetStep DEF p
<1> HIDE DEF w, h, p, l
<1>10. \A x \in Plain \ Config!Pair : SetIs(w, q, n + 1, x)
  BY <1>6 DEF Rest
<1>11. Rest(Config!Merge(o, p, l), q, n + 1)
  BY <1>3, <1>5, <1>7, <1>8, <1>9, <1>10 DEF Rest
<1>12. Config!Pair \subseteq Plain
  BY LeavesAre DEF Plain
<1> QED BY <1>5, <1>6, <1>11, <1>12 DEF Raw, p, l

LEMMA StartRaw ==
  ASSUME NEW q
  PROVE  Raw(Config!Start, q, 1)
<1>1. Config!Start.value = Config!Empty /\ Config!Start.lineage = Config!Empty /\ DOMAIN Config!Empty = {}
  BY DEF Config!Start, Config!Empty
<1> QED BY <1>1, SetFirst, ListFirst, EntryFirst DEF Raw, Rest

-----------------------------------------------------------------------------
(* The configuration resolved: a file is inlined, the overrides are merged. *)

\* One member of the pair stands at most, and its text is the prompt.
OneSource(q) == \A j, k \in 1 .. 8 : ~ (Stands(q, 8, "prompt", j) /\ Stands(q, 8, "promptFile", k))
PairInlined(v, q) ==
  /\ "promptFile" \notin DOMAIN v
  /\ "prompt" \in DOMAIN v <=> \E j \in 1 .. 8 : Stands(q, 8, "prompt", j) \/ Stands(q, 8, "promptFile", j)
  /\ \A j \in 1 .. 8 : Stands(q, 8, "promptFile", j) => v["prompt"] = LayerAt(j)
  /\ \A j \in 1 .. 8 : Stands(q, 8, "prompt", j) /\ (\A k \in 1 .. 8 : ~ Stands(q, 8, "promptFile", k)) => v["prompt"] = LayerAt(j)
PairFinal(v, q) ==
  IF q[5] \cap Config!Pair = {} THEN PairInlined(v, q) ELSE \A x \in Config!Pair : SetIs(v, q, 9, x)

Known(q) == Patch(q) /\ \A l \in 1 .. 5 : "post" \in q[l] \/ "pre" \in q[l] => l \in {2, 3}

LEMMA CaseIs ==
  ASSUME ConfigPlain, NEW q \in Config!Cases
  PROVE  Known(q) /\ Patch(Config!Moved(q))
<1>1. DOMAIN Config!Layers = 1 .. 5 /\ Config!Task = 3 /\ Config!Variant = 4 /\ Config!Cli = 5
  BY DEF Config!Layers, Config!Task, Config!Variant, Config!Cli
<1>2. PICK g \in ConfigGroups : /\ q \in [1 .. 5 -> SUBSET g]
                                /\ \A l \in 1 .. 5 : (\A x \in q[l] : Config!Settable(l, x)) /\ ({"settings"} \subseteq q[l] => q[l] = {"settings"})
  BY <1>1 DEF Config!Cases
<1>3. g \subseteq Config!Leaves
  BY DEF ConfigPlain
<1>4. Patch(q)
  BY <1>2, <1>3 DEF Patch
<1>5. \A l \in 1 .. 5 : \A x \in {"pre", "post"} : Config!Settable(l, x) => l \in {2, 3}
  BY <1>1 DEF Config!Settable
<1>6. Known(q)
  BY <1>2, <1>4, <1>5 DEF Known
<1>7. /\ DOMAIN Config!Moved(q) = 1 .. 5
      /\ \A l \in 1 .. 5 : Config!Moved(q)[l] = IF l = 4 THEN q[5] ELSE IF l = 5 THEN {} ELSE q[l]
  BY <1>1, <1>2 DEF Config!Moved
<1>8. \A l \in 1 .. 5 : Config!Moved(q)[l] \in SUBSET Config!Leaves /\ ("settings" \in Config!Moved(q)[l] => Config!Moved(q)[l] = {"settings"})
  BY <1>4, <1>7 DEF Patch
<1>9. Config!Moved(q) = [l \in 1 .. 5 |-> Config!Moved(q)[l]]
  BY <1>1, <1>2 DEF Config!Moved
<1>10. Config!Moved(q) \in [1 .. 5 -> SUBSET Config!Leaves]
  BY <1>8, <1>9
<1> QED BY <1>6, <1>8, <1>10 DEF Patch

\* What is said of a leaf is its own matter.
LEMMA SetSame ==
  ASSUME NEW q, NEW n, NEW x, NEW v, NEW w, x \in DOMAIN v <=> x \in DOMAIN w, x \in DOMAIN v => w[x] = v[x], SetIs(v, q, n, x)
  PROVE  SetIs(w, q, n, x)
BY DEF SetIs

LEMMA ListSame ==
  ASSUME NEW q, NEW n, NEW x, NEW v, NEW w, x \in DOMAIN v <=> x \in DOMAIN w, x \in DOMAIN v => w[x] = v[x], ListIs(v, q, n, x)
  PROVE  ListIs(w, q, n, x)
BY DEF ListIs, Held

LEMMA InlinedIs ==
  ASSUME NEW q, NEW o, NEW u, Raw(o, q, 8), u.value = Config!Inlined(o.value), u.lineage = o.lineage
  PROVE  Rest(u, q, 8) /\ PairInlined(u.value, q)
<1> DEFINE v == o.value
           w == u.value
<1>1. w = IF "promptFile" \in DOMAIN v
          THEN [x \in (DOMAIN v \ Config!Pair) \cup {"prompt"} |->
                  IF x \in {"prompt"} THEN v["promptFile"] ELSE [y \in DOMAIN v \ Config!Pair |-> v[y]][x]]
          ELSE v
  BY DEF Config!Inlined, Config!With, Config!Without
<1>2. Config!Pair = {"prompt", "promptFile"} /\ "prompt" # "promptFile" /\ Config!Pair \subseteq Config!Leaves
  BY LeavesAre
<1>3. DOMAIN v \subseteq Config!Leaves
  BY DEF Raw, Rest
<1> HIDE DEF v, w
<1>4. \A x : x \notin Config!Pair => (x \in DOMAIN v <=> x \in DOMAIN w) /\ (x \in DOMAIN v => w[x] = v[x])
  BY <1>1, <1>2
<1>5. DOMAIN w \subseteq Config!Leaves
  BY <1>1, <1>2, <1>3
<1>6. \A x \in Plain \ Config!Pair : SetIs(w, q, 8, x)
  <2> TAKE x \in Plain \ Config!Pair
  <2>1. SetIs(v, q, 8, x)
    BY DEF Raw, Rest, v
  <2> QED BY <1>4, <2>1, SetSame
<1>7. \A x \in Config!Appended : ListIs(w, q, 8, x)
  <2> TAKE x \in Config!Appended
  <2>1. ListIs(v, q, 8, x) /\ x \notin Config!Pair
    BY LeavesAre DEF Raw, Rest, v
  <2> QED BY <1>4, <2>1, ListSame
<1>8. Rest(u, q, 8)
  BY <1>5, <1>6, <1>7 DEF Raw, Rest, w
<1>9. SetIs(v, q, 8, "prompt") /\ SetIs(v, q, 8, "promptFile")
  BY <1>2 DEF Raw, v
<1>10. CASE "promptFile" \in DOMAIN v
  <2>1. "promptFile" \notin DOMAIN w /\ "prompt" \in DOMAIN w /\ w["prompt"] = v["promptFile"]
    BY <1>1, <1>2, <1>10
  <2> QED BY <1>8, <1>9, <1>10, <2>1 DEF PairInlined, SetIs, w
<1>11. CASE "promptFile" \notin DOMAIN v
  <2>1. w = v
    BY <1>1, <1>11
  <2> QED BY <1>8, <1>9, <1>11, <2>1 DEF PairInlined, SetIs, w
<1> QED BY <1>8, <1>10, <1>11 DEF w

LEMMA OverridesAre ==
  ASSUME NEW q, Patch(q), NEW o, Rest(o, q, 8), PairInlined(o.value, q)
  PROVE  LET u == Config!Merge(o, q[5], 5) IN Rest(u, q, 9) /\ PairFinal(u.value, q)
<1> DEFINE u == Config!Merge(o, q[5], 5)
           v == o.value
           w == u.value
<1>1. q[5] = Piece(q, 8) /\ LayerAt(8) = 5 /\ 8 \in 1 .. 8 /\ 8 + 1 = 9
  BY PieceIs, OrderIs
<1>2. Rest(u, q, 9)
  BY <1>1, MergeKeeps
<1>3. q[5] \in SUBSET Config!Leaves /\ ("settings" \in q[5] => q[5] = {"settings"})
  BY <1>1, PieceSane
<1>4. Config!Pair = {"prompt", "promptFile"} /\ "prompt" # "promptFile" /\ Config!Pair \subseteq Plain
  BY LeavesAre DEF Plain
<1>5. w = Config!MergeValue(v, q[5], 5)
  BY DEF Config!Merge
<1>6. DOMAIN v \subseteq Config!Leaves
  BY DEF Rest
<1> HIDE DEF u, v, w
<1>7. /\ \A x \in Plain : (x \in DOMAIN w <=> x \in q[5] \/ (x \in DOMAIN v /\ q[5] \cap Clears(x) = {}))
      /\ \A x \in Plain : x \in q[5] => w[x] = 5
      /\ \A x \in Plain : x \in DOMAIN w /\ x \notin q[5] => w[x] = v[x]
  BY <1>3, <1>5, <1>6, MergeIs
<1>8. Clears("prompt") = {"promptFile"} /\ Clears("promptFile") = {"prompt"}
  BY DEF Clears
<1>9. CASE q[5] \cap Config!Pair = {}
  <2>1. \A x \in Config!Pair : (x \in DOMAIN w <=> x \in DOMAIN v) /\ (x \in DOMAIN w => w[x] = v[x])
    BY <1>4, <1>7, <1>8, <1>9
  <2>2. PairInlined(v, q)
    BY DEF v
  <2>3. PairInlined(w, q)
    BY <1>4, <2>1, <2>2 DEF PairInlined
  <2> QED BY <1>2, <1>9, <2>3 DEF PairFinal, u, w
<1>10. CASE q[5] \cap Config!Pair # {}
  <2>1. \A x \in Config!Pair : x \in DOMAIN w <=> x \in q[5]
    BY <1>4, <1>7, <1>8, <1>10
  <2>2. \A x \in Config!Pair : x \in q[5] => w[x] = 5
    BY <1>4, <1>7
  <2>3. \A x \in Config!Pair : Concerns(q, 8, x)
    BY <1>1, <1>4, <1>8, <1>10 DEF Concerns
  <2>4. \A x \in Config!Pair : \A j \in 1 .. 8 : Stands(q, 9, x, j) <=> x \in q[5] /\ j = 8
    BY <1>1, <2>3, StandsStep
  <2>5. \A x \in Config!Pair : SetIs(w, q, 9, x)
    BY <1>1, <2>1, <2>2, <2>4 DEF SetIs
  <2> QED BY <1>2, <1>10, <2>5 DEF PairFinal, u, w
<1> QED BY <1>9, <1>10

\* The inductive invariant: what both are made of is what the merges so far say.
Shaped(r) ==
  /\ DOMAIN r = {"next", "main", "twin"} /\ r = [k \in DOMAIN r |-> r[k]]
  /\ \A k \in {"main", "twin"} : DOMAIN r[k] = {"value", "lineage"} /\ r[k] = [f \in DOMAIN r[k] |-> r[k][f]]
Resolving(q, t) ==
  /\ at \in {"merge", "built", "refused", "resolved", "overridden", "done"}
  /\ at = "merge" => out.next \in 1 .. 7 /\ Raw(out.main, q, out.next) /\ Raw(out.twin, t, out.next)
  /\ at = "built" => Raw(out.main, q, 8) /\ Raw(out.twin, t, 8)
  /\ at \in {"resolved", "overridden", "done"} => OneSource(q) /\ Rest(out.twin, t, 8) /\ PairInlined(out.twin.value, t)
  /\ at = "resolved" => Rest(out.main, q, 8) /\ PairInlined(out.main.value, q)
  /\ at \in {"overridden", "done"} => Rest(out.main, q, 9) /\ PairFinal(out.main.value, q)
  /\ at = "done" => Config!Valid(out.main.value)
ConfigInv ==
  /\ case.of = "config" /\ case.patch \in Config!Cases
  /\ Shaped(out)
  /\ Resolving(case.patch, Config!Moved(case.patch))

LEMMA ConfigInit ==
  ASSUME Config!Init
  PROVE  ConfigInv
<1>1. PICK p \in Config!Cases : case = [of |-> "config", patch |-> p]
  BY DEF Config!Init
<1>2. case.of = "config" /\ case.patch \in Config!Cases
  BY <1>1
<1>3. at = "merge" /\ out = [next |-> 1, main |-> Config!Start, twin |-> Config!Start]
  BY DEF Config!Init
<1>4. Shaped(out)
  BY <1>3 DEF Shaped, Config!Start
<1>5. out.next \in 1 .. 7 /\ Raw(out.main, case.patch, 1) /\ Raw(out.twin, Config!Moved(case.patch), 1) /\ out.next = 1
  BY <1>3, StartRaw
<1>6. Resolving(case.patch, Config!Moved(case.patch))
  BY <1>3, <1>5 DEF Resolving
<1> QED BY <1>2, <1>4, <1>6 DEF ConfigInv

LEMMA ConfigStep ==
  ASSUME ConfigPlain, ConfigInv, [Config!Next]_<<case, at, out>>
  PROVE  ConfigInv'
<1> DEFINE q == case.patch
           t == Config!Moved(q)
<1>1. case.of = "config" /\ q \in Config!Cases /\ Shaped(out) /\ Resolving(q, t)
  BY DEF ConfigInv
<1>2. Patch(q) /\ Patch(t)
  BY <1>1, CaseIs DEF Known
<1>3. ASSUME Config!MergeLayer PROVE ConfigInv'
  <2> DEFINE n == out.next
  <2>1. at = "merge" /\ case' = case
    BY <1>3 DEF Config!MergeLayer
  <2>2. n \in 1 .. 7 /\ Raw(out.main, q, n) /\ Raw(out.twin, t, n)
    BY <1>1, <2>1 DEF Resolving
  <2>3. Piece(q, n) = Config!Part(q, n) /\ Piece(t, n) = Config!Part(t, n) /\ LayerAt(n) = Config!Order[n]
    BY <2>2 DEF Piece, LayerAt
  <2>4. out' = [next |-> n + 1, main |-> Config!Merge(out.main, Piece(q, n), LayerAt(n)), twin |-> Config!Merge(out.twin, Piece(t, n), LayerAt(n))]
    BY <1>3, <2>3 DEF Config!MergeLayer
  <2>5. at' = IF n = 7 THEN "built" ELSE "merge"
    BY <1>3, OrderIs DEF Config!MergeLayer
  <2>6. n \in 1 .. 8 /\ Rest(out.main, q, n) /\ Rest(out.twin, t, n)
    BY <2>2 DEF Raw
  <2> HIDE DEF n, q, t
  <2>7. Raw(out'.main, q, n + 1) /\ Raw(out'.twin, t, n + 1) /\ out'.next = n + 1
    BY <1>2, <2>2, <2>4, <2>6, MergeKeeps
  <2>8. Shaped(out')
    BY <2>4 DEF Shaped, Config!Merge
  <2>9. CASE n = 7
    BY <1>1, <2>1, <2>5, <2>7, <2>8, <2>9 DEF ConfigInv, Resolving, q, t
  <2>10. CASE n # 7
    <3>1. n + 1 \in 1 .. 7
      BY <2>2, <2>10
    <3> QED BY <1>1, <2>1, <2>5, <2>7, <2>8, <2>10, <3>1 DEF ConfigInv, Resolving, q, t
  <2> QED BY <2>9, <2>10
<1>4. ASSUME Config!Refuse PROVE ConfigInv'
  <2>1. at' = "refused" /\ case' = case /\ out' = out
    BY <1>4 DEF Config!Refuse
  <2> QED BY <1>1, <2>1 DEF ConfigInv, Resolving
<1>5. ASSUME Config!InlineFiles PROVE ConfigInv'
  <2>1. /\ at = "built" /\ Config!Valid(out.main.value) /\ at' = "resolved" /\ case' = case
        /\ out' = [out EXCEPT !.main.value = Config!Inlined(@), !.twin.value = Config!Inlined(@)]
    BY <1>5 DEF Config!InlineFiles
  <2>2. Raw(out.main, q, 8) /\ Raw(out.twin, t, 8)
    BY <1>1, <2>1 DEF Resolving
  <2> HIDE DEF q, t
  <2>3. /\ out'.main.value = Config!Inlined(out.main.value) /\ out'.main.lineage = out.main.lineage
        /\ out'.twin.value = Config!Inlined(out.twin.value) /\ out'.twin.lineage = out.twin.lineage
        /\ Shaped(out')
    BY <1>1, <2>1 DEF Shaped
  <2>4. /\ Rest(out'.main, q, 8) /\ PairInlined(out'.main.value, q)
        /\ Rest(out'.twin, t, 8) /\ PairInlined(out'.twin.value, t)
    BY <2>2, <2>3, InlinedIs
  <2>5. OneSource(q)
    <3>1. ~ ("prompt" \in DOMAIN out.main.value /\ "promptFile" \in DOMAIN out.main.value)
      BY <2>1 DEF Config!Valid, Config!Pair
    <3>2. SetIs(out.main.value, q, 8, "prompt") /\ SetIs(out.main.value, q, 8, "promptFile")
      BY <2>2, LeavesAre DEF Raw
    <3> QED BY <3>1, <3>2 DEF OneSource, SetIs
  <2> QED BY <1>1, <2>1, <2>3, <2>4, <2>5 DEF ConfigInv, Resolving, q, t
<1>6. ASSUME Config!ApplyOverrides PROVE ConfigInv'
  <2>1. at = "resolved" /\ at' = "overridden" /\ case' = case /\ out' = [out EXCEPT !.main = Config!Merge(out.main, q[5], 5)]
    BY <1>6 DEF Config!ApplyOverrides, Config!Seed, Config!Cli
  <2>2. OneSource(q) /\ Rest(out.twin, t, 8) /\ PairInlined(out.twin.value, t) /\ Rest(out.main, q, 8) /\ PairInlined(out.main.value, q)
    BY <1>1, <2>1 DEF Resolving
  <2> HIDE DEF q, t
  <2>3. out'.main = Config!Merge(out.main, q[5], 5) /\ out'.twin = out.twin /\ Shaped(out')
    BY <1>1, <2>1 DEF Shaped, Config!Merge
  <2>4. Rest(out'.main, q, 9) /\ PairFinal(out'.main.value, q)
    BY <1>2, <2>2, <2>3, OverridesAre
  <2> QED BY <1>1, <2>1, <2>2, <2>3, <2>4 DEF ConfigInv, Resolving, q, t
<1>7. ASSUME Config!Finish PROVE ConfigInv'
  <2>1. at = "overridden" /\ Config!Valid(out.main.value) /\ at' = "done" /\ case' = case /\ out' = out
    BY <1>7 DEF Config!Finish
  <2> QED BY <1>1, <2>1 DEF ConfigInv, Resolving
<1>8. ASSUME UNCHANGED <<case, at, out>> PROVE ConfigInv'
  BY <1>1, <1>8 DEF ConfigInv, Resolving
<1> QED BY <1>3, <1>4, <1>5, <1>6, <1>7, <1>8 DEF Config!Next

-----------------------------------------------------------------------------
(* From merges to layers.                                                  *)

\* The layer that decides on a leaf: the highest that sets it or clears it.
Decides(q, x, l) == l \in 1 .. 5 /\ x \in q[l] /\ \A k \in 1 .. 5 : q[k] \cap (Clears(x) \cup {x}) # {} => k <= l

LEMMA HighestOf ==
  ASSUME NEW S \in SUBSET (1 .. 8), S # {}
  PROVE  \E m \in S : \A k \in S : k <= m
<1>1. CASE 8 \in S
  BY <1>1
<1>2. CASE 8 \notin S /\ 7 \in S
  BY <1>2
<1>3. CASE 8 \notin S /\ 7 \notin S /\ 6 \in S
  BY <1>3
<1>4. CASE 8 \notin S /\ 7 \notin S /\ 6 \notin S /\ 5 \in S
  BY <1>4
<1>5. CASE S \subseteq 1 .. 4
  <2>1. CASE 4 \in S
    BY <1>5, <2>1
  <2>2. CASE 4 \notin S /\ 3 \in S
    BY <1>5, <2>2
  <2>3. CASE 4 \notin S /\ 3 \notin S /\ 2 \in S
    BY <1>5, <2>3
  <2>4. CASE S = {1}
    BY <2>4
  <2>5. 4 \notin S /\ 3 \notin S /\ 2 \notin S => S = {1}
    <3>1. \A k \in S : k = 1 \/ k = 2 \/ k = 3 \/ k = 4
      BY <1>5
    <3> QED BY <3>1, Zenon
  <2> QED BY <2>1, <2>2, <2>3, <2>4, <2>5
<1>6. S \subseteq 1 .. 4 \/ 5 \in S \/ 6 \in S \/ 7 \in S \/ 8 \in S
  OBVIOUS
<1> QED BY <1>1, <1>2, <1>3, <1>4, <1>5, <1>6

LEMMA LastIs ==
  ASSUME NEW S \in SUBSET (1 .. 5), NEW m \in S, \A k \in S : k <= m
  PROVE  Config!Last(S) = m
<1>1. \A l \in S : (\A k \in S : k <= l) => l = m
  OBVIOUS
<1>2. \E l \in S : \A k \in S : k <= l
  OBVIOUS
<1> QED BY <1>1, <1>2 DEF Config!Last

LEMMA StandsDecides ==
  ASSUME NEW q, Patch(q), NEW x \in Plain
  PROVE  /\ \A j \in 1 .. 8 : Stands(q, 9, x, j) => j \in {1, 2, 3, 4, 8} /\ Decides(q, x, LayerAt(j))
         /\ \A l \in 1 .. 5 : Decides(q, x, l) => \E j \in {1, 2, 3, 4, 8} : Stands(q, 9, x, j) /\ LayerAt(j) = l
<1> DEFINE near == Clears(x) \cup {x}
<1>1. "templates" \notin near
  BY LeavesAre DEF Clears, Plain
<1>2. \A j \in 1 .. 8 : Concerns(q, j, x) <=> Piece(q, j) \cap near # {}
  BY DEF Concerns
<1> HIDE DEF near
<1>3. \A j \in 1 .. 4 : (Concerns(q, j, x) <=> q[j] \cap near # {})
  BY <1>1, <1>2, PieceIs
<1>4. \A j \in {5, 6, 7} : ~ Concerns(q, j, x)
  BY <1>1, <1>2, PieceIs
<1>5. Concerns(q, 8, x) <=> q[5] \cap near # {}
  BY <1>2, PieceIs
<1>6. \A j \in 1 .. 8 : Stands(q, 9, x, j) <=> x \in Piece(q, j) /\ \A k \in 1 .. 8 : Concerns(q, k, x) => k <= j
  BY DEF Stands
<1>7. x \in near /\ x # "templates"
  BY <1>1 DEF near
<1>8. \A j \in 1 .. 4 : x \in Piece(q, j) <=> x \in q[j]
  BY <1>7, PieceIs
<1>9. x \in Piece(q, 8) <=> x \in q[5]
  BY PieceIs
<1>10. \A l : Decides(q, x, l) <=> l \in 1 .. 5 /\ x \in q[l] /\ \A k \in 1 .. 5 : q[k] \cap near # {} => k <= l
  BY DEF Decides, near
<1>11. ASSUME NEW j \in 1 .. 8, Stands(q, 9, x, j)
       PROVE  j \in {1, 2, 3, 4, 8} /\ Decides(q, x, LayerAt(j))
  <2>1. x \in Piece(q, j) /\ \A k \in 1 .. 8 : Concerns(q, k, x) => k <= j
    BY <1>6, <1>11
  <2>2. Concerns(q, j, x)
    BY <1>2, <1>7, <2>1
  <2>3. j \in {1, 2, 3, 4, 8}
    BY <1>4, <2>2
  <2>4. CASE j \in 1 .. 4
    <3>1. LayerAt(j) = j /\ x \in q[j]
      BY <1>8, <2>1, <2>4, OrderIs
    <3>2. \A k \in 1 .. 4 : q[k] \cap near # {} => k <= j
      BY <1>3, <2>1
    <3>3. q[5] \cap near = {}
      BY <1>5, <2>1, <2>4
    <3>4. \A k \in 1 .. 5 : q[k] \cap near # {} => k <= j
      BY <3>2, <3>3
    <3> QED BY <1>10, <2>3, <2>4, <3>1, <3>4
  <2>5. CASE j = 8
    BY <1>9, <1>10, <2>1, <2>5, OrderIs
  <2> QED BY <2>3, <2>4, <2>5
<1>12. ASSUME NEW l \in 1 .. 5, Decides(q, x, l)
       PROVE  \E j \in {1, 2, 3, 4, 8} : Stands(q, 9, x, j) /\ LayerAt(j) = l
  <2>1. x \in q[l] /\ \A k \in 1 .. 5 : q[k] \cap near # {} => k <= l
    BY <1>10, <1>12
  <2>2. CASE l \in 1 .. 4
    <3>1. LayerAt(l) = l /\ x \in Piece(q, l)
      BY <1>8, <2>1, <2>2, OrderIs
    <3>2. ~ Concerns(q, 8, x)
      BY <1>5, <2>1, <2>2
    <3>3. \A k \in 1 .. 4 : Concerns(q, k, x) => k <= l
      BY <1>3, <2>1
    <3>4. \A k \in 1 .. 8 : Concerns(q, k, x) => k <= l
      BY <1>4, <3>2, <3>3
    <3>5. l \in {1, 2, 3, 4, 8} /\ l \in 1 .. 8
      BY <2>2
    <3> QED BY <1>6, <3>1, <3>4, <3>5
  <2>3. CASE l = 5
    <3>1. x \in Piece(q, 8) /\ LayerAt(8) = 5
      BY <1>9, <2>1, <2>3, OrderIs
    <3>2. Stands(q, 9, x, 8)
      BY <1>6, <3>1
    <3> QED BY <2>3, <3>1, <3>2
  <2> QED BY <2>2, <2>3
<1> QED BY <1>11, <1>12

LEMMA SetDecides ==
  ASSUME NEW q, Patch(q), NEW x \in Plain, NEW f, SetIs(f, q, 9, x)
  PROVE  /\ x \in DOMAIN f <=> \E l \in 1 .. 5 : Decides(q, x, l)
         /\ \A l \in 1 .. 5 : Decides(q, x, l) => f[x] = l
<1>1. /\ \A j \in 1 .. 8 : Stands(q, 9, x, j) => j \in {1, 2, 3, 4, 8} /\ Decides(q, x, LayerAt(j))
      /\ \A l \in 1 .. 5 : Decides(q, x, l) => \E j \in {1, 2, 3, 4, 8} : Stands(q, 9, x, j) /\ LayerAt(j) = l
  BY StandsDecides
<1>2. \A l : Decides(q, x, l) => l \in 1 .. 5
  BY DEF Decides
<1>3. \A j \in {1, 2, 3, 4, 8} : j \in 1 .. 8
  OBVIOUS
<1> QED BY <1>1, <1>2, <1>3 DEF SetIs

\* A merge that does not concern a leaf leaves it.
LEMMA SetKept ==
  ASSUME NEW q, NEW x, q[5] \cap (Clears(x) \cup {x}) = {}
  PROVE  /\ \A j : Stands(q, 9, x, j) <=> Stands(q, 8, x, j)
         /\ \A f : SetIs(f, q, 8, x) => SetIs(f, q, 9, x)
<1>1. ~ Concerns(q, 8, x) /\ x \notin Piece(q, 8)
  BY PieceIs DEF Concerns
<1>2. \A j : Stands(q, 9, x, j) <=> Stands(q, 8, x, j)
  <2>1. 8 \in 1 .. 8 /\ 8 + 1 = 9
    OBVIOUS
  <2> QED BY <1>1, <2>1, StandsStep
<1> QED BY <1>2 DEF SetIs

-----------------------------------------------------------------------------
(* What a list has become.                                                 *)

Give(q, x, l) == IF x \in q[l] THEN <<l>> ELSE << >>

LEMMA GiveSeq == ASSUME NEW q, NEW x, NEW l \in Int PROVE Give(q, x, l) \in Seq(Int)
BY DEF Give

LEMMA JoinedEmpty == ASSUME NEW s \in Seq(Int) PROVE s \o << >> = s /\ << >> \o s = s
OBVIOUS

LEMMA GrownIs ==
  ASSUME NEW q, NEW x, NEW j \in 1 .. 8, NEW s \in Seq(Int), x # "post", LayerAt(j) \in Int,
         x \in Piece(q, j) <=> x \in q[LayerAt(j)]
  PROVE  Grown(q, x, j, s) = s \o Give(q, x, LayerAt(j)) /\ Grown(q, x, j, s) \in Seq(Int)
<1> DEFINE l == LayerAt(j)
<1>1. CASE x \in q[l]
  <2>1. Grown(q, x, j, s) = Append(s, l) /\ Give(q, x, l) = <<l>>
    BY <1>1 DEF Grown, Give, Config!AppendedTo
  <2> HIDE DEF l
  <2>2. l \in Int
    BY DEF l
  <2>3. Append(s, l) = s \o <<l>> /\ Append(s, l) \in Seq(Int)
    BY <2>2
  <2> QED BY <2>1, <2>3 DEF l
<1>2. CASE x \notin q[l]
  BY <1>2, JoinedEmpty DEF Grown, Give
<1> QED BY <1>1, <1>2

LEMMA PileEnd ==
  ASSUME NEW q
  PROVE  /\ \A x \in {"env", "pre"} :
              Pile(q, x, 9) = Give(q, x, 1) \o Give(q, x, 2) \o Give(q, x, 3) \o Give(q, x, 4) \o Give(q, x, 5)
         /\ Pile(q, "templates", 9) = Give(q, "templates", 3) \o Give(q, "templates", 2) \o Give(q, "templates", 4) \o Give(q, "templates", 5)
         /\ "post" \notin q[1] \cup q[4] \cup q[5] => Pile(q, "post", 9) = Give(q, "post", 3) \o Give(q, "post", 2)
<1>1. \A x : Pile(q, x, 9) = Grown(q, x, 8, Grown(q, x, 7, Grown(q, x, 6, Grown(q, x, 5, Grown(q, x, 4,
                                Grown(q, x, 3, Grown(q, x, 2, Grown(q, x, 1, << >>))))))))
  BY DEF Pile, Pile7, Pile5, Pile3
<1>2. \A x, l : l \in 1 .. 5 => Give(q, x, l) \in Seq(Int)
  BY GiveSeq
<1>3. << >> \in Seq(Int)
  OBVIOUS
<1>4. ASSUME NEW x \in {"env", "pre"}
      PROVE  Pile(q, x, 9) = Give(q, x, 1) \o Give(q, x, 2) \o Give(q, x, 3) \o Give(q, x, 4) \o Give(q, x, 5)
  <2>1. \A j \in {1, 2, 3, 4, 8} : LayerAt(j) \in Int /\ j \in 1 .. 8 /\ (x \in Piece(q, j) <=> x \in q[LayerAt(j)])
    BY PieceIs, OrderIs
  <2>2. \A j \in {5, 6, 7} : \A s : Grown(q, x, j, s) = s
    BY PieceIs DEF Grown
  <2>3. x # "post"
    OBVIOUS
  <2>4. \A j \in {1, 2, 3, 4, 8} : \A s \in Seq(Int) : Grown(q, x, j, s) = s \o Give(q, x, LayerAt(j)) /\ Grown(q, x, j, s) \in Seq(Int)
    BY <2>1, <2>3, GrownIs
  <2> DEFINE s1 == Grown(q, x, 1, << >>)
             s2 == Grown(q, x, 2, s1)
             s3 == Grown(q, x, 3, s2)
             s4 == Grown(q, x, 4, s3)
  <2>5. s1 = << >> \o Give(q, x, 1) /\ s1 \in Seq(Int)
    BY <1>3, <2>4, OrderIs
  <2> HIDE DEF s1
  <2>6. s2 = s1 \o Give(q, x, 2) /\ s2 \in Seq(Int)
    BY <2>4, <2>5, OrderIs
  <2> HIDE DEF s2
  <2>7. s3 = s2 \o Give(q, x, 3) /\ s3 \in Seq(Int)
    BY <2>4, <2>6, OrderIs
  <2> HIDE DEF s3
  <2>8. s4 = s3 \o Give(q, x, 4) /\ s4 \in Seq(Int)
    BY <2>4, <2>7, OrderIs
  <2>9. Pile(q, x, 9) = Grown(q, x, 8, s4)
    BY <1>1, <2>2 DEF s1, s2, s3
  <2> HIDE DEF s4
  <2>10. Pile(q, x, 9) = s4 \o Give(q, x, 5)
    BY <2>4, <2>8, <2>9, OrderIs
  <2>11. s1 = Give(q, x, 1)
    BY <1>2, <2>5, JoinedEmpty
  <2> QED BY <2>6, <2>7, <2>8, <2>10, <2>11
<1>5. Pile(q, "templates", 9) = Give(q, "templates", 3) \o Give(q, "templates", 2) \o Give(q, "templates", 4) \o Give(q, "templates", 5)
  <2> DEFINE x == "templates"
  <2>1. \A j \in {5, 6, 7, 8} : LayerAt(j) \in Int /\ j \in 1 .. 8 /\ (x \in Piece(q, j) <=> x \in q[LayerAt(j)])
    BY PieceIs, OrderIs
  <2>2. \A j \in {1, 2, 3, 4} : \A s : Grown(q, x, j, s) = s
    BY PieceIs DEF Grown
  <2>3. x # "post"
    OBVIOUS
  <2> HIDE DEF x
  <2>4. \A j \in {5, 6, 7, 8} : \A s \in Seq(Int) : Grown(q, x, j, s) = s \o Give(q, x, LayerAt(j)) /\ Grown(q, x, j, s) \in Seq(Int)
    BY <2>1, <2>3, GrownIs
  <2> DEFINE s1 == Grown(q, x, 5, << >>)
             s2 == Grown(q, x, 6, s1)
             s3 == Grown(q, x, 7, s2)
  <2>5. s1 = << >> \o Give(q, x, 3) /\ s1 \in Seq(Int)
    BY <1>3, <2>4, OrderIs
  <2> HIDE DEF s1
  <2>6. s2 = s1 \o Give(q, x, 2) /\ s2 \in Seq(Int)
    BY <2>4, <2>5, OrderIs
  <2> HIDE DEF s2
  <2>7. s3 = s2 \o Give(q, x, 4) /\ s3 \in Seq(Int)
    BY <2>4, <2>6, OrderIs
  <2>8. Pile(q, x, 9) = Grown(q, x, 8, s3)
    BY <1>1, <2>2 DEF s1, s2
  <2> HIDE DEF s3
  <2>9. Pile(q, x, 9) = s3 \o Give(q, x, 5)
    BY <2>4, <2>7, <2>8, OrderIs
  <2>10. s1 = Give(q, x, 3)
    BY <1>2, <2>5, JoinedEmpty
  <2> QED BY <2>6, <2>7, <2>9, <2>10 DEF x
<1>6. ASSUME "post" \notin q[1] \cup q[4] \cup q[5]
      PROVE  Pile(q, "post", 9) = Give(q, "post", 3) \o Give(q, "post", 2)
  <2>1. \A j \in {1, 4, 5, 6, 7, 8} : \A s : Grown(q, "post", j, s) = s
    BY <1>6, PieceIs DEF Grown
  <2>2. Pile(q, "post", 9) = Grown(q, "post", 3, Grown(q, "post", 2, << >>))
    BY <1>1, <2>1
  <2>3. \A j \in {2, 3} : LayerAt(j) = j /\ ("post" \in Piece(q, j) <=> "post" \in q[j])
    BY PieceIs, OrderIs
  <2>4. \A j \in {2, 3} : \A s \in Seq(Int) : Grown(q, "post", j, s) = Give(q, "post", j) \o s
    <3> TAKE j \in {2, 3}
    <3> TAKE s \in Seq(Int)
    <3>1. << >> \o s = s
      BY JoinedEmpty
    <3> QED BY <2>3, <3>1 DEF Grown, Give, Config!AppendedTo
  <2>5. Grown(q, "post", 2, << >>) = Give(q, "post", 2)
    <3>1. Give(q, "post", 2) \in Seq(Int) /\ 2 \in {2, 3}
      BY GiveSeq
    <3>2. Grown(q, "post", 2, << >>) = Give(q, "post", 2) \o << >>
      BY <1>3, <2>4, <3>1
    <3> QED BY <3>1, <3>2, JoinedEmpty
  <2>6. Give(q, "post", 2) \in Seq(Int) /\ 3 \in {2, 3}
    BY GiveSeq
  <2> QED BY <2>2, <2>4, <2>5, <2>6
<1> QED BY <1>4, <1>5, <1>6

-----------------------------------------------------------------------------
(* What the properties say of the layers.                                  *)

LEMMA SetsAre ==
  /\ \A x : Config!Sets(x) = {l \in 1 .. 5 : x \in case.patch[l]}
  /\ \A x, l : Config!Given(x, l) = Give(case.patch, x, l)
  /\ Config!Task = 3 /\ Config!Variant = 4 /\ Config!Cli = 5
BY DEF Config!Sets, Config!Layers, Config!Given, Give, Config!Task, Config!Variant, Config!Cli

\* The decider, as the property words it.
DecidingSet(q, x) == {l \in 1 .. 5 : x \in q[l] /\ \A k \in 1 .. 5 : q[k] \cap Clears(x) # {} => k < l}

LEMMA DecidingIs ==
  ASSUME Patch(case.patch), NEW x \in Config!Leaves \ Config!Pair
  PROVE  Config!Deciding(x) = DecidingSet(case.patch, x)
<1> DEFINE q == case.patch
<1>1. \A y : Config!Sets(y) = {l \in 1 .. 5 : y \in q[l]}
  BY SetsAre
<1> HIDE DEF q
<1>2. CASE x \in {"settings.a", "settings.b"}
  <2>1. Config!Deciding(x) = {l \in Config!Sets(x) : \A k \in Config!Sets("settings") : k < l}
    BY <1>2, LeavesAre DEF Config!Deciding
  <2>2. Clears(x) = {"settings"}
    BY <1>2 DEF Clears
  <2> QED BY <1>1, <2>1, <2>2 DEF DecidingSet, q
<1>3. CASE x = "settings"
  <2>1. Config!Deciding(x) = {l \in Config!Sets(x) : \A k \in Config!Sets("settings.a") \cup Config!Sets("settings.b") : k < l}
    BY <1>3, LeavesAre DEF Config!Deciding
  <2>2. Clears(x) = {"settings.a", "settings.b"}
    BY <1>3 DEF Clears
  <2>3. \A l : q[l] \cap Clears(x) # {} <=> "settings.a" \in q[l] \/ "settings.b" \in q[l]
    BY <2>2
  <2>4. Config!Sets("settings.a") \cup Config!Sets("settings.b") = {k \in 1 .. 5 : q[k] \cap Clears(x) # {}}
    BY <1>1, <2>3
  <2> QED BY <1>1, <2>1, <2>4 DEF DecidingSet, q
<1>4. CASE x \notin Config!Settings
  <2>1. Config!Deciding(x) = Config!Sets(x) /\ Clears(x) = {}
    BY <1>4, LeavesAre DEF Config!Deciding, Clears
  <2> QED BY <1>1, <2>1 DEF DecidingSet, q
<1> QED BY <1>2, <1>3, <1>4, LeavesAre

LEMMA DecidesLast ==
  ASSUME NEW q, Patch(q), NEW x \in Plain \ Config!Pair
  PROVE  /\ \A l \in 1 .. 5 : Decides(q, x, l) => l \in DecidingSet(q, x) /\ Config!Last(DecidingSet(q, x)) = l
         /\ DecidingSet(q, x) # {} => \E l \in 1 .. 5 : Decides(q, x, l)
<1>1. \A l \in 1 .. 5 : x \in q[l] => q[l] \cap Clears(x) = {}
  BY LeavesAre DEF Patch, Clears, Plain
<1>2. \A l \in 1 .. 5 : q[l] \cap (Clears(x) \cup {x}) # {} <=> x \in q[l] \/ q[l] \cap Clears(x) # {}
  OBVIOUS
<1>3. DecidingSet(q, x) \in SUBSET (1 .. 5)
  BY DEF DecidingSet
<1>4. ASSUME NEW l \in 1 .. 5, Decides(q, x, l)
      PROVE  l \in DecidingSet(q, x) /\ Config!Last(DecidingSet(q, x)) = l
  <2>1. x \in q[l] /\ \A k \in 1 .. 5 : x \in q[k] \/ q[k] \cap Clears(x) # {} => k <= l
    BY <1>2, <1>4 DEF Decides
  <2>2. \A k \in 1 .. 5 : q[k] \cap Clears(x) # {} => k < l
    BY <1>1, <2>1
  <2>3. l \in DecidingSet(q, x)
    BY <2>1, <2>2 DEF DecidingSet
  <2>4. \A k \in DecidingSet(q, x) : k <= l
    BY <2>1 DEF DecidingSet
  <2> QED BY <1>3, <2>3, <2>4, LastIs
<1>5. ASSUME DecidingSet(q, x) # {}
      PROVE  \E l \in 1 .. 5 : Decides(q, x, l)
  <2>1. DecidingSet(q, x) \in SUBSET (1 .. 8)
    BY <1>3
  <2>2. PICK d \in DecidingSet(q, x) : \A k \in DecidingSet(q, x) : k <= d
    BY <1>5, <2>1, HighestOf
  <2>3. d \in 1 .. 5 /\ x \in q[d] /\ \A k \in 1 .. 5 : q[k] \cap Clears(x) # {} => k < d
    BY DEF DecidingSet
  <2>4. \A k \in 1 .. 5 : x \in q[k] => k <= d
    <3> SUFFICES ASSUME NEW k \in 1 .. 5, x \in q[k], k > d PROVE FALSE
      BY <2>3
    <3>1. \A i \in 1 .. 5 : q[i] \cap Clears(x) # {} => i < k
      BY <2>3
    <3>2. k \in DecidingSet(q, x)
      BY <3>1 DEF DecidingSet
    <3> QED BY <2>2, <2>3, <3>2
  <2>5. \A k \in 1 .. 5 : q[k] \cap (Clears(x) \cup {x}) # {} => k <= d
    BY <1>2, <2>3, <2>4
  <2> QED BY <2>3, <2>5 DEF Decides
<1> QED BY <1>4, <1>5

\* The one member of the pair that decides, and the prompt that stands for it.
OnlyOne(q, x, l) == Decides(q, x, l) /\ \A y \in Config!Pair \ {x} : \A k \in 1 .. 5 : ~ Decides(q, y, k)

LEMMA PairOne ==
  ASSUME NEW q, Patch(q), NEW v, OneSource(q), PairFinal(v, q), Config!Valid(v), NEW leaf \in Config!Pair \cap DOMAIN v
  PROVE  \E x \in Config!Pair, l \in 1 .. 5 :
            OnlyOne(q, x, l) /\ v[leaf] = l /\ (leaf = x \/ (leaf = "prompt" /\ x = "promptFile"))
<1>1. Config!Pair = {"prompt", "promptFile"} /\ "prompt" # "promptFile" /\ Config!Pair \subseteq Plain
  BY LeavesAre DEF Plain
<1>2. CASE q[5] \cap Config!Pair # {}
  <2>1. \A x \in Config!Pair : SetIs(v, q, 9, x)
    BY <1>2 DEF PairFinal
  <2>2. \A x \in Config!Pair : (x \in DOMAIN v <=> \E l \in 1 .. 5 : Decides(q, x, l)) /\ \A l \in 1 .. 5 : Decides(q, x, l) => v[x] = l
    BY <1>1, <2>1, SetDecides
  <2>3. \A y \in Config!Pair \ {leaf} : y \notin DOMAIN v
    BY <1>1 DEF Config!Valid
  <2>4. PICK l \in 1 .. 5 : Decides(q, leaf, l)
    BY <2>2
  <2>5. OnlyOne(q, leaf, l) /\ v[leaf] = l
    BY <2>2, <2>3, <2>4 DEF OnlyOne
  <2> QED BY <2>5
<1>3. CASE q[5] \cap Config!Pair = {}
  <2>1. PairInlined(v, q) /\ leaf = "prompt"
    BY <1>1, <1>3 DEF PairFinal, PairInlined
  <2>2. \A x \in Config!Pair : q[5] \cap (Clears(x) \cup {x}) = {}
    BY <1>1, <1>3 DEF Clears
  <2>3. \A x \in Config!Pair : \A j : Stands(q, 9, x, j) <=> Stands(q, 8, x, j)
    BY <2>2, SetKept
  <2>4. \A x \in Config!Pair : /\ \A j \in 1 .. 8 : Stands(q, 8, x, j) => Decides(q, x, LayerAt(j))
                               /\ \A l \in 1 .. 5 : Decides(q, x, l) => \E j \in 1 .. 8 : Stands(q, 8, x, j)
    <3>1. \A j \in {1, 2, 3, 4, 8} : j \in 1 .. 8
      OBVIOUS
    <3> QED BY <1>1, <2>3, <3>1, StandsDecides
  <2>5. PICK x \in Config!Pair, j \in 1 .. 8 : Stands(q, 8, x, j)
    BY <1>1, <2>1 DEF PairInlined
  <2>6. \A y \in Config!Pair \ {x} : \A k \in 1 .. 8 : ~ Stands(q, 8, y, k)
    BY <1>1, <2>5 DEF OneSource
  <2>7. LayerAt(j) \in 1 .. 5 /\ OnlyOne(q, x, LayerAt(j))
    BY <2>4, <2>5, <2>6 DEF OnlyOne, Decides
  <2>8. v["prompt"] = LayerAt(j)
    BY <1>1, <2>1, <2>5, <2>6 DEF PairInlined
  <2> QED BY <1>1, <2>1, <2>7, <2>8
<1> QED BY <1>2, <1>3

\* And it is the one the property names.
LEMMA PairDeciding ==
  ASSUME Patch(case.patch), NEW x \in Config!Pair, NEW l \in 1 .. 5, Decides(case.patch, x, l)
  PROVE  Config!Deciding(x) = {l}
<1> DEFINE q == case.patch
           any == Config!Sets("prompt") \cup Config!Sets("promptFile")
<1>1. \A y : Config!Sets(y) = {k \in 1 .. 5 : y \in q[k]}
  BY SetsAre
<1>2. Config!Deciding(x) = Config!Sets(x) \cap {Config!Last(any)}
  BY LeavesAre DEF Config!Deciding
<1>3. Clears(x) \cup {x} = {"prompt", "promptFile"}
  BY LeavesAre DEF Clears
<1>4. x \in q[l] /\ \A k \in 1 .. 5 : q[k] \cap {"prompt", "promptFile"} # {} => k <= l
  BY <1>3 DEF Decides
<1> HIDE DEF q
<1>5. any \in SUBSET (1 .. 5) /\ l \in any /\ \A k \in any : k <= l
  BY <1>1, <1>4, LeavesAre
<1> HIDE DEF any
<1>6. Config!Last(any) = l
  BY <1>5, LastIs
<1> QED BY <1>1, <1>2, <1>4, <1>6

LEMMA ListStands ==
  ASSUME NEW q, NEW v, NEW x \in Config!Appended, ListIs(v, q, 9, x)
  PROVE  /\ x \in DOMAIN v => v[x] = Pile(q, x, 9)
         /\ x \in DOMAIN v <=> \E l \in 1 .. 5 : x \in q[l] /\ (x = "templates" => l # 1)
<1>1. x \in DOMAIN v <=> \E j \in 1 .. 8 : x \in Piece(q, j)
  BY DEF ListIs
<1>2. \E j \in 1 .. 8 : x \in Piece(q, j) <=> x \in Piece(q, 1) \/ x \in Piece(q, 2) \/ x \in Piece(q, 3) \/ x \in Piece(q, 4)
                                              \/ x \in Piece(q, 5) \/ x \in Piece(q, 6) \/ x \in Piece(q, 7) \/ x \in Piece(q, 8)
  OBVIOUS
<1>3. \E l \in 1 .. 5 : x \in q[l] /\ (x = "templates" => l # 1)
        <=> (x \in q[1] /\ x # "templates") \/ x \in q[2] \/ x \in q[3] \/ x \in q[4] \/ x \in q[5]
  OBVIOUS
<1>4. CASE x = "templates"
  BY <1>1, <1>2, <1>3, <1>4, PieceIs DEF ListIs, Held
<1>5. CASE x # "templates"
  BY <1>1, <1>2, <1>3, <1>5, PieceIs DEF ListIs, Held
<1> QED BY <1>4, <1>5

LEMMA ValuesAre ==
  ASSUME Known(case.patch), Rest(out.main, case.patch, 9), NEW leaf \in DOMAIN out.main.value \ Config!Pair
  PROVE  out.main.value[leaf] = Config!Expected(leaf)
<1> DEFINE q == case.patch
           v == out.main.value
<1>1. leaf \in Config!Leaves /\ Patch(q)
  BY DEF Rest, Known
<1>2. Plain \cup Config!Appended = Config!Leaves /\ Plain \cap Config!Appended = {} /\ Config!Appended \subseteq Config!Leaves
  BY LeavesAre DEF Plain
<1>3. CASE leaf \in Config!Appended
  <2>1. v[leaf] = Pile(q, leaf, 9)
    BY <1>3, ListStands DEF Rest
  <2>2. \A l : Config!Given(leaf, l) = Give(q, leaf, l)
    BY SetsAre
  <2>3. CASE leaf \in {"env", "pre"}
    <3>1. Config!Expected(leaf) = Give(q, leaf, 1) \o Give(q, leaf, 2) \o Give(q, leaf, 3) \o Give(q, leaf, 4) \o Give(q, leaf, 5)
      BY <2>2, <2>3, SetsAre DEF Config!Expected
    <3> QED BY <2>1, <2>3, <3>1, PileEnd
  <2>4. CASE leaf = "templates"
    <3>1. Config!Expected(leaf) = Give(q, leaf, 3) \o Give(q, leaf, 2) \o Give(q, leaf, 4) \o Give(q, leaf, 5)
      BY <2>2, <2>4, SetsAre DEF Config!Expected
    <3> QED BY <2>1, <2>4, <3>1, PileEnd
  <2>5. CASE leaf = "post"
    <3>1. Config!Expected(leaf) = Give(q, leaf, 3) \o Give(q, leaf, 2)
      BY <2>2, <2>5, SetsAre DEF Config!Expected
    <3>2. "post" \notin q[1] \cup q[4] \cup q[5]
      BY DEF Known
    <3> QED BY <2>1, <2>5, <3>1, <3>2, PileEnd
  <2> QED BY <1>3, <2>3, <2>4, <2>5, LeavesAre
<1>4. CASE leaf \in Plain
  <2>1. leaf \in Plain \ Config!Pair
    BY <1>4
  <2>2. SetIs(v, q, 9, leaf)
    BY <2>1 DEF Rest
  <2>3. PICK l \in 1 .. 5 : Decides(q, leaf, l) /\ v[leaf] = l
    BY <1>1, <1>4, <2>2, SetDecides
  <2>4. Config!Last(DecidingSet(q, leaf)) = l
    BY <1>1, <2>1, <2>3, DecidesLast
  <2>5. Config!Deciding(leaf) = DecidingSet(q, leaf)
    BY <1>1, DecidingIs
  <2>6. Config!Expected(leaf) = Config!Last(Config!Deciding(leaf))
    BY <1>2, <1>4, LeavesAre DEF Config!Expected
  <2> QED BY <2>3, <2>4, <2>5, <2>6
<1> QED BY <1>1, <1>2, <1>3, <1>4

LEMMA LeavesStand ==
  ASSUME Patch(case.patch), Rest(out.main, case.patch, 9), NEW leaf \in Config!Leaves \ (Config!Pair \cup {"templates"})
  PROVE  (leaf \in DOMAIN out.main.value) = (Config!Deciding(leaf) # {})
<1> DEFINE q == case.patch
           v == out.main.value
<1>1. Config!Deciding(leaf) = DecidingSet(q, leaf)
  BY DecidingIs
<1>2. CASE leaf \in Config!Appended
  <2>1. leaf \in DOMAIN v <=> \E l \in 1 .. 5 : leaf \in q[l]
    BY <1>2, ListStands DEF Rest
  <2>2. Clears(leaf) = {}
    BY <1>2, LeavesAre DEF Clears
  <2> QED BY <1>1, <2>1, <2>2 DEF DecidingSet
<1>3. CASE leaf \notin Config!Appended
  <2>1. leaf \in Plain \ Config!Pair
    BY <1>3 DEF Plain
  <2>2. SetIs(v, q, 9, leaf)
    BY <2>1 DEF Rest
  <2>3. leaf \in DOMAIN v <=> \E l \in 1 .. 5 : Decides(q, leaf, l)
    BY <2>1, <2>2, SetDecides
  <2>4. (\E l \in 1 .. 5 : Decides(q, leaf, l)) <=> DecidingSet(q, leaf) # {}
    BY <2>1, DecidesLast
  <2> QED BY <1>1, <2>3, <2>4
<1> QED BY <1>2, <1>3

\* The system prompt and its entry.
LEMMA PairTold ==
  ASSUME Patch(case.patch), Rest(out.main, case.patch, 9), OneSource(case.patch), PairFinal(out.main.value, case.patch),
         Config!Valid(out.main.value), NEW leaf \in Config!Pair \cap DOMAIN out.main.value
  PROVE  /\ \E x \in Config!Pair : /\ Config!Pair \cap DOMAIN out.main.lineage = {x}
                                   /\ Config!Deciding(x) = {out.main.lineage[x]}
         /\ Config!Entry(leaf) = leaf /\ out.main.lineage[Config!Source(leaf)] = out.main.value[leaf]
<1> DEFINE q == case.patch
           v == out.main.value
           g == out.main.lineage
<1>1. PICK x \in Config!Pair, l \in 1 .. 5 : OnlyOne(q, x, l) /\ v[leaf] = l /\ (leaf = x \/ (leaf = "prompt" /\ x = "promptFile"))
  BY PairOne
<1>2. Config!Pair = {"prompt", "promptFile"} /\ Config!Pair \subseteq Plain
  BY LeavesAre DEF Plain
<1>3. \A y \in Config!Pair : (y \in DOMAIN g <=> \E k \in 1 .. 5 : Decides(q, y, k)) /\ \A k \in 1 .. 5 : Decides(q, y, k) => g[y] = k
  BY <1>2, SetDecides DEF Rest
<1>4. Config!Pair \cap DOMAIN g = {x} /\ g[x] = l /\ Decides(q, x, l)
  BY <1>1, <1>3 DEF OnlyOne
<1>5. Config!Deciding(x) = {l}
  BY <1>4, PairDeciding
<1>6. Config!Entry(leaf) = leaf
  BY <1>2 DEF Config!Entry
<1>7. Config!Source(leaf) = x
  BY <1>1, <1>2, <1>4, <1>6 DEF Config!Source
<1> QED BY <1>1, <1>4, <1>5, <1>6, <1>7

\* The entries of the rest.
LEMMA TouchedLast ==
  ASSUME NEW q, NEW x, NEW j \in 1 .. 8, Marks2(q, j, x)
  PROVE  \E i \in 1 .. 8 : Touches(q, 9, x, i) /\ j <= i
<1> DEFINE S == {k \in 1 .. 8 : Marks2(q, k, x)}
<1>1. S \in SUBSET (1 .. 8) /\ j \in S
  OBVIOUS
<1>2. PICK i \in S : \A k \in S : k <= i
  <2> HIDE DEF S
  <2> QED BY <1>1, HighestOf
<1> QED BY <1>2 DEF Touches

LEMMA LineageTold ==
  ASSUME Patch(case.patch), Rest(out.main, case.patch, 9),
         NEW leaf \in DOMAIN out.main.value \ (Config!Pair \cup {"pre", "post"})
  PROVE  LET l == out.main.lineage[Config!Source(leaf)] IN
         IF leaf \in Config!Appended THEN l \in Config!Sets(leaf) /\ \A k \in Config!Sets(leaf) : k = 1 \/ l # 1
         ELSE IF Config!Entry(leaf) = leaf THEN l = out.main.value[leaf] ELSE l >= out.main.value[leaf]
<1> DEFINE q == case.patch
           v == out.main.value
           g == out.main.lineage
           e == Config!Entry(leaf)
<1>1. leaf \in Config!Leaves \ Config!Pair /\ EntryIs(g, q, 9, leaf)
  BY DEF Rest
<1>2. Config!Source(leaf) = e
  BY <1>1, LeavesAre DEF Config!Source
<1>3. \A i \in 1 .. 8 : Touches(q, 9, leaf, i) => g[e] = LayerAt(i)
  BY <1>1 DEF EntryIs
<1>4. Config!Sets(leaf) = {l \in 1 .. 5 : leaf \in q[l]}
  BY SetsAre
<1>5. \A i \in 1 .. 8 : Piece(q, i) \subseteq Config!Leaves
  BY PieceSane
<1>6. e = leaf => \A i \in 1 .. 8 : Marks2(q, i, leaf) <=> leaf \in Piece(q, i)
  <2> HAVE e = leaf
  <2>1. \A y \in Config!Leaves : Config!Entry(y) = leaf => y = leaf
    BY <1>1, LeavesAre DEF Config!Entry
  <2> QED BY <1>5, <2>1 DEF Marks2
<1>7. \A i, j : Touches(q, 9, leaf, i) /\ j \in 1 .. 8 /\ Marks2(q, j, leaf) => i \in 1 .. 8 /\ Marks2(q, i, leaf) /\ j <= i
  BY DEF Touches
<1>8. CASE leaf \in Config!Appended
  <2>1. e = leaf
    BY <1>8, LeavesAre DEF Config!Entry
  <2>2. PICK l \in 1 .. 5 : leaf \in q[l] /\ (leaf = "templates" => l # 1)
    BY <1>8, ListStands DEF Rest
  <2>3. leaf # "templates" => \A k \in 1 .. 4 : leaf \in Piece(q, k) <=> leaf \in q[k]
    BY PieceIs
  <2>4. leaf # "templates" => \A k \in {5, 6, 7} : leaf \notin Piece(q, k)
    BY PieceIs
  <2>5. leaf \in Piece(q, 8) <=> leaf \in q[5]
    BY PieceIs
  <2>6. leaf = "templates" => /\ leaf \in Piece(q, 5) <=> leaf \in q[3]
                              /\ leaf \in Piece(q, 6) <=> leaf \in q[2]
                              /\ leaf \in Piece(q, 7) <=> leaf \in q[4]
                              /\ \A k \in 1 .. 4 : leaf \notin Piece(q, k)
    BY PieceIs
  <2>7. PICK j \in 1 .. 8 : leaf \in Piece(q, j)
    <3>1. CASE leaf = "templates"
      <4>1. l = 2 \/ l = 3 \/ l = 4 \/ l = 5
        BY <2>2, <3>1
      <4> QED BY <2>2, <2>5, <2>6, <3>1, <4>1
    <3>2. CASE leaf # "templates"
      BY <2>2, <2>3, <2>5, <3>2
    <3> QED BY <3>1, <3>2
  <2>8. PICK i \in 1 .. 8 : Touches(q, 9, leaf, i)
    BY <1>6, <2>1, <2>7, TouchedLast
  <2>9. leaf \in Piece(q, i) /\ \A k \in 1 .. 8 : leaf \in Piece(q, k) => k <= i
    BY <1>6, <1>7, <2>1, <2>7, <2>8
  <2>10. g[e] = LayerAt(i)
    BY <1>3, <2>8
  <2>11. CASE leaf = "templates"
    <3>1. i \in {5, 6, 7, 8}
      BY <2>6, <2>9, <2>11
    <3>2. LayerAt(i) \in {2, 3, 4, 5} /\ leaf \in q[LayerAt(i)]
      BY <2>5, <2>6, <2>9, <2>11, <3>1, OrderIs
    <3> QED BY <1>2, <1>4, <1>8, <2>10, <3>2
  <2>12. CASE leaf # "templates"
    <3>1. i \in {1, 2, 3, 4, 8}
      BY <2>4, <2>9, <2>12
    <3>2. LayerAt(i) \in 1 .. 5 /\ leaf \in q[LayerAt(i)]
      BY <2>3, <2>5, <2>9, <2>12, <3>1, OrderIs
    <3>3. LayerAt(i) = 1 => i = 1
      BY <3>1, OrderIs
    <3>4. i = 1 => \A k \in 1 .. 5 : leaf \in q[k] => k = 1
      <4> HAVE i = 1
      <4>1. leaf \notin q[5]
        BY <2>5, <2>9
      <4>2. \A k \in 1 .. 4 : leaf \in q[k] => k = 1
        BY <2>3, <2>9, <2>12
      <4> QED BY <4>1, <4>2
    <3> QED BY <1>2, <1>4, <1>8, <2>10, <3>2, <3>3, <3>4
  <2> QED BY <2>11, <2>12
<1>9. CASE leaf \notin Config!Appended
  <2>1. leaf \in Plain \ Config!Pair /\ leaf \notin {"pre", "post"}
    BY <1>1, <1>9 DEF Plain
  <2>2. SetIs(v, q, 9, leaf)
    BY <2>1 DEF Rest
  <2>3. PICK j \in 1 .. 8 : Stands(q, 9, leaf, j) /\ v[leaf] = LayerAt(j)
    BY <2>2 DEF SetIs
  <2>4. j \in {1, 2, 3, 4, 8} /\ leaf \in Piece(q, j) /\ \A k \in 1 .. 8 : leaf \in Piece(q, k) => k <= j
    <3>1. j \in {1, 2, 3, 4, 8}
      BY <2>1, <2>3, StandsDecides
    <3> QED BY <2>3, <3>1 DEF Stands, Concerns
  <2>5. Marks2(q, j, leaf)
    BY <2>1, <2>4 DEF Marks2
  <2>6. PICK i \in 1 .. 8 : Touches(q, 9, leaf, i) /\ j <= i
    BY <2>5, TouchedLast
  <2>7. g[e] = LayerAt(i) /\ Marks2(q, i, leaf)
    BY <1>3, <1>7, <2>5, <2>6
  <2>8. CASE e = leaf
    <3>1. i = j
      BY <1>6, <2>4, <2>6, <2>7, <2>8
    <3> QED BY <1>2, <1>9, <2>3, <2>7, <2>8, <3>1
  <2>9. CASE e # leaf
    <3>1. i \in {1, 2, 3, 4, 8}
      <4>1. \A k \in {5, 6, 7} : Piece(q, k) \subseteq {"templates"}
        BY PieceIs
      <4>2. Config!Entry("templates") # e
        BY <1>1, <1>9, LeavesAre DEF Config!Entry
      <4>3. \A k \in {5, 6, 7} : ~ Marks2(q, k, leaf)
        BY <4>1, <4>2 DEF Marks2
      <4> QED BY <2>7, <4>3
    <3>2. LayerAt(i) >= LayerAt(j)
      BY <2>4, <2>6, <3>1, OrderIs
    <3> QED BY <1>2, <1>9, <2>3, <2>7, <2>9, <3>2
  <2> QED BY <2>8, <2>9
<1> QED BY <1>8, <1>9

LEMMA LayersTold ==
  ASSUME ConfigPlain, ConfigInv
  PROVE  Config!LayersRespected
<1> SUFFICES ASSUME at = "done"
             PROVE  Config!LayersRespected
  BY DEF Config!LayersRespected, Config!Done
<1>1. Known(case.patch) /\ Patch(case.patch)
  BY CaseIs DEF ConfigInv, Known
<1>2. /\ OneSource(case.patch) /\ Rest(out.main, case.patch, 9) /\ PairFinal(out.main.value, case.patch)
      /\ Config!Valid(out.main.value)
  BY DEF ConfigInv, Resolving
<1>3. \A leaf \in DOMAIN out.main.value \ Config!Pair : out.main.value[leaf] = Config!Expected(leaf)
  BY <1>1, <1>2, ValuesAre
<1>4. \A leaf \in Config!Leaves \ (Config!Pair \cup {"templates"}) : (leaf \in DOMAIN out.main.value) = (Config!Deciding(leaf) # {})
  BY <1>1, <1>2, LeavesStand
<1>5. Config!Pair \cap DOMAIN out.main.value # {} =>
        \E leaf \in Config!Pair : /\ Config!Pair \cap DOMAIN out.main.lineage = {leaf}
                                  /\ Config!Deciding(leaf) = {out.main.lineage[leaf]}
  BY <1>1, <1>2, PairTold
<1>6. ASSUME NEW leaf \in DOMAIN out.main.value \ {"pre", "post"}
      PROVE  LET l == out.main.lineage[Config!Source(leaf)] IN
             IF leaf \in Config!Appended THEN l \in Config!Sets(leaf) /\ \A k \in Config!Sets(leaf) : k = 1 \/ l # 1
             ELSE IF Config!Entry(leaf) = leaf THEN l = out.main.value[leaf] ELSE l >= out.main.value[leaf]
  <2>1. CASE leaf \in Config!Pair
    <3>1. leaf \notin Config!Appended
      BY <2>1, LeavesAre
    <3>2. Config!Entry(leaf) = leaf /\ out.main.lineage[Config!Source(leaf)] = out.main.value[leaf]
      BY <1>1, <1>2, <2>1, PairTold
    <3> QED BY <3>1, <3>2
  <2>2. CASE leaf \notin Config!Pair
    BY <1>1, <1>2, <2>2, LineageTold
  <2> QED BY <2>1, <2>2
<1> QED BY <1>3, <1>4, <1>5, <1>6 DEF Config!LayersRespected

-----------------------------------------------------------------------------
(* The twin: what the overrides give, a variant would have given.          *)

\* The overrides moved into a variant that set nothing.
Twins(q, t) ==
  /\ Patch(q) /\ Patch(t) /\ q[4] = {} /\ t[5] = {} /\ t[4] = q[5] /\ t[1] = q[1] /\ t[2] = q[2] /\ t[3] = q[3]
  /\ "post" \notin q[1] \cup q[5]
As(l) == IF l = 4 THEN 5 ELSE l
Mapped(s) == [i \in DOMAIN s |-> As(s[i])]

LEMMA MovedIs ==
  ASSUME ConfigPlain, NEW q \in Config!Cases, q[4] = {}
  PROVE  Twins(q, Config!Moved(q))
<1>1. Known(q) /\ Patch(Config!Moved(q))
  BY CaseIs
<1>2. DOMAIN q = 1 .. 5
  BY <1>1 DEF Known, Patch
<1>3. \A l \in 1 .. 5 : Config!Moved(q)[l] = IF l = 4 THEN q[5] ELSE IF l = 5 THEN {} ELSE q[l]
  BY <1>2 DEF Config!Moved, Config!Variant, Config!Cli
<1> QED BY <1>1, <1>3 DEF Twins, Known

LEMMA TwinDecides ==
  ASSUME NEW q, NEW t, Twins(q, t), NEW x \in Plain
  PROVE  /\ \A l \in 1 .. 5 : Decides(t, x, l) => Decides(q, x, As(l)) /\ As(l) \in 1 .. 5
         /\ \A l \in 1 .. 5 : Decides(q, x, l) => \E k \in 1 .. 5 : Decides(t, x, k)
<1> DEFINE near == Clears(x) \cup {x}
           Q(k) == q[k] \cap near # {}
           R(k) == t[k] \cap near # {}
<1>1. (R(1) <=> Q(1)) /\ (R(2) <=> Q(2)) /\ (R(3) <=> Q(3)) /\ (R(4) <=> Q(5)) /\ ~ R(5) /\ ~ Q(4)
  BY DEF Twins
<1>2. \A l : Decides(q, x, l) <=> l \in 1 .. 5 /\ x \in q[l] /\ \A k \in 1 .. 5 : Q(k) => k <= l
  BY DEF Decides
<1>3. \A l : Decides(t, x, l) <=> l \in 1 .. 5 /\ x \in t[l] /\ \A k \in 1 .. 5 : R(k) => k <= l
  BY DEF Decides
<1>4. \A k \in 1 .. 5 : (x \in q[k] => Q(k)) /\ (x \in t[k] => R(k))
  OBVIOUS
<1> HIDE DEF Q, R
<1>5. \A k \in 1 .. 5 : k = 1 \/ k = 2 \/ k = 3 \/ k = 4 \/ k = 5
  OBVIOUS
<1>6. ASSUME NEW l \in 1 .. 5, Decides(t, x, l)
      PROVE  Decides(q, x, As(l)) /\ As(l) \in 1 .. 5
  <2>1. x \in t[l] /\ \A k \in 1 .. 5 : R(k) => k <= l
    BY <1>3, <1>6
  <2>2. l # 5
    BY <1>1, <1>4, <2>1
  <2>3. CASE l = 4
    <3>1. As(l) = 5 /\ x \in q[5]
      BY <2>1, <2>3 DEF As, Twins
    <3> QED BY <1>2, <3>1
  <2>4. CASE l \in 1 .. 3
    <3>1. As(l) = l /\ x \in q[l]
      BY <1>5, <2>1, <2>4 DEF As, Twins
    <3>2. ~ Q(5) /\ ~ Q(4)
      BY <1>1, <2>1, <2>4
    <3>3. \A k \in 1 .. 5 : Q(k) => k <= l
      BY <1>1, <1>5, <2>1, <3>2
    <3> QED BY <1>2, <3>1, <3>3
  <2> QED BY <2>2, <2>3, <2>4
<1>7. ASSUME NEW l \in 1 .. 5, Decides(q, x, l)
      PROVE  \E k \in 1 .. 5 : Decides(t, x, k)
  <2>1. x \in q[l] /\ \A k \in 1 .. 5 : Q(k) => k <= l
    BY <1>2, <1>7
  <2>2. l # 4
    BY <1>1, <1>4, <2>1
  <2>3. CASE l = 5
    <3>1. x \in t[4] /\ 4 \in 1 .. 5
      BY <2>1, <2>3 DEF Twins
    <3>2. \A k \in 1 .. 5 : R(k) => k <= 4
      BY <1>1, <1>5
    <3> QED BY <1>3, <3>1, <3>2
  <2>4. CASE l \in 1 .. 3
    <3>1. x \in t[l]
      BY <1>5, <2>1, <2>4 DEF Twins
    <3>2. ~ Q(5)
      BY <2>1, <2>4
    <3>3. \A k \in 1 .. 5 : R(k) => k <= l
      BY <1>1, <1>5, <2>1, <3>2
    <3> QED BY <1>3, <3>1, <3>3
  <2> QED BY <2>2, <2>3, <2>4
<1> QED BY <1>6, <1>7

\* A leaf of one value.
LEMMA TwinPlain ==
  ASSUME NEW q, NEW t, Twins(q, t), NEW x \in Plain, NEW f, NEW g, SetIs(f, q, 9, x), SetIs(g, t, 8, x)
  PROVE  (x \in DOMAIN f <=> x \in DOMAIN g) /\ (x \in DOMAIN f => f[x] = As(g[x]))
<1>1. SetIs(g, t, 9, x)
  BY SetKept DEF Twins
<1>2. (x \in DOMAIN g <=> \E l \in 1 .. 5 : Decides(t, x, l)) /\ \A l \in 1 .. 5 : Decides(t, x, l) => g[x] = l
  BY <1>1, SetDecides DEF Twins
<1>3. (x \in DOMAIN f <=> \E l \in 1 .. 5 : Decides(q, x, l)) /\ \A l \in 1 .. 5 : Decides(q, x, l) => f[x] = l
  BY SetDecides DEF Twins
<1> QED BY <1>2, <1>3, TwinDecides

\* The system prompt: an override that sets none leaves what was inlined.
LEMMA TwinPair ==
  ASSUME NEW q, NEW t, Twins(q, t), "promptFile" \notin q[5], OneSource(q), NEW v, NEW w, PairFinal(v, q), PairInlined(w, t),
         NEW x \in Config!Pair
  PROVE  (x \in DOMAIN v <=> x \in DOMAIN w) /\ (x \in DOMAIN v => v[x] = As(w[x]))
<1>1. Config!Pair = {"prompt", "promptFile"} /\ "prompt" # "promptFile" /\ Config!Pair \subseteq Plain
  BY LeavesAre DEF Plain
<1>2. Clears("prompt") = {"promptFile"} /\ Clears("promptFile") = {"prompt"}
  BY DEF Clears
<1>3. \A y \in Config!Pair : \A j : Stands(t, 9, y, j) <=> Stands(t, 8, y, j)
  BY SetKept DEF Twins
<1>4. 1 \in 1 .. 8 /\ 2 \in 1 .. 8 /\ 3 \in 1 .. 8 /\ 4 \in 1 .. 8 /\ 8 \in 1 .. 8
  OBVIOUS
<1>5. \A y \in Config!Pair : /\ \A j \in 1 .. 8 : Stands(t, 8, y, j) => Decides(t, y, LayerAt(j))
                             /\ \A l \in 1 .. 5 : Decides(t, y, l) => \E j \in 1 .. 8 : Stands(t, 8, y, j) /\ LayerAt(j) = l
  BY <1>1, <1>3, <1>4, StandsDecides DEF Twins
<1>6. CASE "prompt" \in q[5]
  <2>1. \A y \in Config!Pair : SetIs(v, q, 9, y)
    BY <1>1, <1>6 DEF PairFinal
  <2>2. \A y \in Config!Pair : (y \in DOMAIN v <=> \E l \in 1 .. 5 : Decides(q, y, l)) /\ \A l \in 1 .. 5 : Decides(q, y, l) => v[y] = l
    BY <1>1, <2>1, SetDecides DEF Twins
  <2>3. Decides(q, "prompt", 5) /\ \A l \in 1 .. 5 : ~ Decides(q, "promptFile", l)
    BY <1>2, <1>6 DEF Decides
  <2>4. "prompt" \in DOMAIN v /\ v["prompt"] = 5 /\ "promptFile" \notin DOMAIN v
    BY <1>1, <2>2, <2>3
  <2>5. Decides(t, "prompt", 4) /\ \A l \in 1 .. 5 : ~ Decides(t, "promptFile", l)
    <3>1. "prompt" \in t[4] /\ "promptFile" \notin t[4] /\ t[5] = {}
      BY <1>6 DEF Twins
    <3>2. \A k \in 1 .. 5 : t[k] \cap (Clears("prompt") \cup {"prompt"}) # {} => k <= 4
      BY <3>1
    <3>3. t[4] \cap (Clears("promptFile") \cup {"promptFile"}) # {} /\ 4 \in 1 .. 5
      BY <1>2, <3>1
    <3>4. \A l \in 1 .. 5 : 4 <= l => l = 4 \/ l = 5
      OBVIOUS
    <3> QED BY <3>1, <3>2, <3>3, <3>4 DEF Decides
  <2>6. PICK j \in 1 .. 8 : Stands(t, 8, "prompt", j) /\ LayerAt(j) = 4
    BY <1>1, <1>5, <2>5
  <2>7. \A k \in 1 .. 8 : ~ Stands(t, 8, "promptFile", k)
    <3>1. \A k \in 1 .. 8 : LayerAt(k) \in 1 .. 5
      <4>1. \A k \in 1 .. 8 : k = 1 \/ k = 2 \/ k = 3 \/ k = 4 \/ k = 5 \/ k = 6 \/ k = 7 \/ k = 8
        OBVIOUS
      <4> QED BY <4>1, OrderIs
    <3> QED BY <1>1, <1>5, <2>5, <3>1
  <2>8. "prompt" \in DOMAIN w /\ w["prompt"] = 4 /\ "promptFile" \notin DOMAIN w
    BY <2>6, <2>7 DEF PairInlined
  <2> QED BY <1>1, <2>4, <2>8 DEF As
<1>7. CASE "prompt" \notin q[5]
  <2>1. q[5] \cap Config!Pair = {} /\ PairInlined(v, q)
    BY <1>1, <1>7 DEF PairFinal
  <2>2. \A y \in Config!Pair : \A j : Stands(q, 9, y, j) <=> Stands(q, 8, y, j)
    BY <1>1, <1>2, <2>1, SetKept
  <2>3. \A y \in Config!Pair : \A k \in 1 .. 8 : Concerns(q, k, y) => k \in {1, 2, 3} /\ Concerns(t, k, y)
    <3> TAKE y \in Config!Pair
    <3>1. "templates" \notin Clears(y) \cup {y} /\ q[5] \cap (Clears(y) \cup {y}) = {}
      BY <1>1, <1>2, <2>1
    <3>2. Piece(q, 4) = {} /\ Piece(q, 1) = Piece(t, 1) /\ Piece(q, 2) = Piece(t, 2) /\ Piece(q, 3) = Piece(t, 3)
      BY PieceIs DEF Twins
    <3>3. ~ Concerns(q, 4, y) /\ ~ Concerns(q, 5, y) /\ ~ Concerns(q, 6, y) /\ ~ Concerns(q, 7, y) /\ ~ Concerns(q, 8, y)
      BY <3>1, <3>2, PieceIs DEF Concerns
    <3>4. \A k \in 1 .. 8 : k = 1 \/ k = 2 \/ k = 3 \/ k = 4 \/ k = 5 \/ k = 6 \/ k = 7 \/ k = 8
      OBVIOUS
    <3> QED BY <3>2, <3>3, <3>4 DEF Concerns
  <2>4. \A y \in Config!Pair : \A k \in 1 .. 7 : Concerns(t, k, y) => k \in {1, 2, 3} /\ Concerns(q, k, y)
    <3> TAKE y \in Config!Pair
    <3>1. "templates" \notin Clears(y) \cup {y} /\ t[4] \cap (Clears(y) \cup {y}) = {}
      BY <1>1, <1>2, <2>1 DEF Twins
    <3>2. Piece(q, 1) = Piece(t, 1) /\ Piece(q, 2) = Piece(t, 2) /\ Piece(q, 3) = Piece(t, 3)
      <4>1. \A j \in {1, 2, 3} : Piece(q, j) = q[j] \ {"templates"} /\ Piece(t, j) = t[j] \ {"templates"}
        BY PieceIs
      <4> QED BY <4>1 DEF Twins
    <3>3. ~ Concerns(t, 4, y) /\ ~ Concerns(t, 5, y) /\ ~ Concerns(t, 6, y) /\ ~ Concerns(t, 7, y)
      BY <3>1, PieceIs DEF Concerns
    <3>4. \A k \in 1 .. 7 : k = 1 \/ k = 2 \/ k = 3 \/ k = 4 \/ k = 5 \/ k = 6 \/ k = 7
      OBVIOUS
    <3> QED BY <3>2, <3>3, <3>4 DEF Concerns
  <2>5. \A y \in Config!Pair : \A k \in {1, 2, 3} : y \in Piece(q, k) <=> y \in Piece(t, k)
    BY PieceIs DEF Twins
  <2>6. \A y \in Config!Pair : \A j \in 1 .. 8 : (y \in Piece(q, j) => Concerns(q, j, y)) /\ (y \in Piece(t, j) => Concerns(t, j, y))
    BY DEF Concerns
  <2>7. \A y, j : Stands(q, 8, y, j) <=> j \in 1 .. 7 /\ y \in Piece(q, j) /\ \A k \in 1 .. 7 : Concerns(q, k, y) => k <= j
    BY DEF Stands
  <2>8. \A y, j : Stands(t, 8, y, j) <=> j \in 1 .. 7 /\ y \in Piece(t, j) /\ \A k \in 1 .. 7 : Concerns(t, k, y) => k <= j
    BY DEF Stands
  <2>9. \A k \in 1 .. 7 : k \in 1 .. 8
    OBVIOUS
  <2>10. \A y \in Config!Pair : \A j \in 1 .. 8 : Stands(q, 8, y, j) <=> Stands(t, 8, y, j)
    BY <2>3, <2>4, <2>5, <2>6, <2>7, <2>8, <2>9
  <2>11. \A y \in Config!Pair : \A j \in 1 .. 8 : Stands(t, 8, y, j) => As(LayerAt(j)) = LayerAt(j)
    BY <2>4, <2>6, <2>8, <2>9, OrderIs DEF As
  <2>12. x = "promptFile" => x \notin DOMAIN v /\ x \notin DOMAIN w
    BY <2>1 DEF PairInlined
  <2>13. x = "prompt" => (x \in DOMAIN v <=> x \in DOMAIN w)
    BY <1>1, <2>1, <2>10 DEF PairInlined
  <2>14. ASSUME x = "prompt", x \in DOMAIN v
         PROVE  v[x] = As(w[x])
    <3>1. PICK j \in 1 .. 8 : Stands(q, 8, "prompt", j) \/ Stands(q, 8, "promptFile", j)
      BY <2>1, <2>14 DEF PairInlined
    <3>2. v[x] = LayerAt(j) /\ w[x] = LayerAt(j)
      <4>1. CASE Stands(q, 8, "promptFile", j)
        BY <1>1, <2>1, <2>10, <2>14, <4>1 DEF PairInlined
      <4>2. CASE Stands(q, 8, "prompt", j)
        <5>1. \A k \in 1 .. 8 : ~ Stands(q, 8, "promptFile", k)
          BY <4>2 DEF OneSource
        <5> QED BY <1>1, <2>1, <2>10, <2>14, <4>2, <5>1 DEF PairInlined
      <4> QED BY <3>1, <4>1, <4>2
    <3> QED BY <1>1, <2>10, <2>11, <3>1, <3>2
  <2> QED BY <1>1, <2>12, <2>13, <2>14
<1> QED BY <1>6, <1>7

LEMMA JoinedIs ==
  ASSUME NEW a \in Seq(Int), NEW b \in Seq(Int)
  PROVE  /\ a \o b \in Seq(Int) /\ Len(a \o b) = Len(a) + Len(b)
         /\ \A i \in 1 .. Len(a) + Len(b) : (a \o b)[i] = IF i <= Len(a) THEN a[i] ELSE b[i - Len(a)]
OBVIOUS

LEMMA SameSeq ==
  ASSUME NEW u \in Seq(Int), NEW w \in Seq(Int), Len(u) = Len(w), \A i \in 1 .. Len(u) : u[i] = w[i]
  PROVE  u = w
<1>1. u = [i \in 1 .. Len(u) |-> u[i]] /\ w = [i \in 1 .. Len(w) |-> w[i]]
  OBVIOUS
<1> QED BY <1>1

LEMMA MappedJoined ==
  ASSUME NEW a \in Seq(Int), NEW b \in Seq(Int)
  PROVE  Mapped(a \o b) = Mapped(a) \o Mapped(b) /\ Mapped(a) \in Seq(Int)
<1>1. \A c \in Seq(Int) : Mapped(c) \in Seq(Int) /\ Len(Mapped(c)) = Len(c) /\ \A i \in 1 .. Len(c) : Mapped(c)[i] = As(c[i])
  <2> TAKE c \in Seq(Int)
  <2>1. DOMAIN c = 1 .. Len(c) /\ Len(c) \in Nat /\ \A i \in 1 .. Len(c) : c[i] \in Int
    OBVIOUS
  <2>2. Mapped(c) = [i \in 1 .. Len(c) |-> As(c[i])]
    BY <2>1 DEF Mapped
  <2>3. \A i \in 1 .. Len(c) : As(c[i]) \in Int
    BY <2>1 DEF As
  <2> QED BY <2>1, <2>2, <2>3
<1>2. a \o b \in Seq(Int) /\ Len(a \o b) = Len(a) + Len(b)
      /\ \A i \in 1 .. Len(a) + Len(b) : (a \o b)[i] = IF i <= Len(a) THEN a[i] ELSE b[i - Len(a)]
  BY JoinedIs
<1>3. Mapped(a \o b) \in Seq(Int) /\ Len(Mapped(a \o b)) = Len(a) + Len(b)
      /\ \A i \in 1 .. Len(a) + Len(b) : Mapped(a \o b)[i] = As((a \o b)[i])
  BY <1>1, <1>2
<1> DEFINE m == Mapped(a)  n == Mapped(b)
<1>4. m \in Seq(Int) /\ n \in Seq(Int) /\ Len(m) = Len(a) /\ Len(n) = Len(b)
      /\ (\A i \in 1 .. Len(a) : m[i] = As(a[i])) /\ \A i \in 1 .. Len(b) : n[i] = As(b[i])
  BY <1>1
<1> HIDE DEF m, n
<1>5. m \o n \in Seq(Int) /\ Len(m \o n) = Len(a) + Len(b)
      /\ \A i \in 1 .. Len(a) + Len(b) : (m \o n)[i] = IF i <= Len(a) THEN m[i] ELSE n[i - Len(a)]
  <2>1. m \o n \in Seq(Int) /\ Len(m \o n) = Len(m) + Len(n)
        /\ \A i \in 1 .. Len(m) + Len(n) : (m \o n)[i] = IF i <= Len(m) THEN m[i] ELSE n[i - Len(m)]
    BY <1>4, JoinedIs
  <2> QED BY <1>4, <2>1
<1>6. Len(a) \in Nat /\ Len(b) \in Nat
  OBVIOUS
<1>7. \A i \in 1 .. Len(a) + Len(b) : Mapped(a \o b)[i] = (m \o n)[i]
  <2> TAKE i \in 1 .. Len(a) + Len(b)
  <2>1. CASE i <= Len(a)
    <3>1. i \in 1 .. Len(a)
      BY <1>6, <2>1
    <3> QED BY <1>2, <1>3, <1>4, <1>5, <2>1, <3>1
  <2>2. CASE ~ (i <= Len(a))
    <3>1. i - Len(a) \in 1 .. Len(b)
      BY <1>6, <2>2
    <3> QED BY <1>2, <1>3, <1>4, <1>5, <2>2, <3>1
  <2> QED BY <2>1, <2>2
<1> DEFINE u == Mapped(a \o b)  w == m \o n
<1>8. u \in Seq(Int) /\ w \in Seq(Int) /\ Len(u) = Len(w) /\ \A i \in 1 .. Len(u) : u[i] = w[i]
  BY <1>3, <1>5, <1>7
<1>9. u = w
  <2> HIDE DEF u, w
  <2> QED BY <1>8, SameSeq
<1> QED BY <1>4, <1>9 DEF m, n

LEMMA MappedGive ==
  ASSUME NEW q, NEW t, Twins(q, t), NEW x
  PROVE  /\ \A l \in 1 .. 3 : Mapped(Give(t, x, l)) = Give(q, x, l)
         /\ Mapped(Give(t, x, 4)) = Give(q, x, 5)
         /\ Give(q, x, 4) = << >> /\ Give(t, x, 5) = << >>
<1>1. Mapped(<< >>) = << >>
  BY DEF Mapped
<1>2. \A l \in Int : Mapped(<<l>>) = <<As(l)>>
  <2> TAKE l \in Int
  <2>1. DOMAIN <<l>> = {1} /\ <<l>>[1] = l
    OBVIOUS
  <2>2. Mapped(<<l>>) = [i \in {1} |-> As(l)]
    BY <2>1 DEF Mapped
  <2>3. <<As(l)>> = [i \in {1} |-> As(l)]
    OBVIOUS
  <2> QED BY <2>2, <2>3
<1>3. \A l \in 1 .. 3 : x \in t[l] <=> x \in q[l]
  <2>1. \A l \in 1 .. 3 : l = 1 \/ l = 2 \/ l = 3
    OBVIOUS
  <2> QED BY <2>1 DEF Twins
<1>4. x \in t[4] <=> x \in q[5]
  BY DEF Twins
<1>5. x \notin q[4] /\ x \notin t[5]
  BY DEF Twins
<1>6. As(4) = 5 /\ \A l \in 1 .. 3 : As(l) = l /\ l \in Int
  BY DEF As
<1> QED BY <1>1, <1>2, <1>3, <1>4, <1>5, <1>6 DEF Give

\* A leaf that is a list.
LEMMA TwinList ==
  ASSUME NEW q, NEW t, Twins(q, t), NEW x \in Config!Appended, NEW v, NEW w, ListIs(v, q, 9, x), ListIs(w, t, 8, x)
  PROVE  (x \in DOMAIN v <=> x \in DOMAIN w) /\ (x \in DOMAIN v => v[x] = Mapped(w[x]))
<1>1. x \notin Piece(t, 8)
  BY PieceIs DEF Twins
<1>2. ListIs(w, t, 9, x)
  <2>1. Pile(t, x, 9) = Pile(t, x, 8)
    <3>1. 8 \in 1 .. 8 /\ 8 + 1 = 9
      OBVIOUS
    <3>2. Pile(t, x, 9) = Grown(t, x, 8, Pile(t, x, 8))
      BY <3>1, PileStep
    <3> QED BY <1>1, <3>2 DEF Grown
  <2>2. 1 .. (9 - 1) = 1 .. (8 - 1) \cup {8}
    OBVIOUS
  <2> QED BY <1>1, <2>1, <2>2 DEF ListIs
<1>3. /\ x \in DOMAIN v => v[x] = Pile(q, x, 9)
      /\ x \in DOMAIN v <=> \E l \in 1 .. 5 : x \in q[l] /\ (x = "templates" => l # 1)
      /\ x \in DOMAIN w => w[x] = Pile(t, x, 9)
      /\ x \in DOMAIN w <=> \E l \in 1 .. 5 : x \in t[l] /\ (x = "templates" => l # 1)
  BY <1>2, ListStands
<1>4. \A c : (\E l \in 1 .. 5 : x \in c[l] /\ (x = "templates" => l # 1))
        <=> (x \in c[1] /\ x # "templates") \/ x \in c[2] \/ x \in c[3] \/ x \in c[4] \/ x \in c[5]
  OBVIOUS
<1>5. x \in DOMAIN v <=> x \in DOMAIN w
  BY <1>3, <1>4 DEF Twins
<1>6. \A l \in 1 .. 5 : Give(t, x, l) \in Seq(Int)
  BY GiveSeq
<1> DEFINE g1 == Give(t, x, 1)  g2 == Give(t, x, 2)  g3 == Give(t, x, 3)  g4 == Give(t, x, 4)
           h1 == Give(q, x, 1)  h2 == Give(q, x, 2)  h3 == Give(q, x, 3)  h5 == Give(q, x, 5)
<1>7. g1 \in Seq(Int) /\ g2 \in Seq(Int) /\ g3 \in Seq(Int) /\ g4 \in Seq(Int)
  BY <1>6
<1>8. Mapped(g1) = h1 /\ Mapped(g2) = h2 /\ Mapped(g3) = h3 /\ Mapped(g4) = h5 /\ Give(q, x, 4) = << >> /\ Give(t, x, 5) = << >>
  BY MappedGive
<1>9. h1 \in Seq(Int) /\ h2 \in Seq(Int) /\ h3 \in Seq(Int) /\ h5 \in Seq(Int)
  BY <1>7, <1>8, MappedJoined
<1>10. Pile(q, x, 9) = Mapped(Pile(t, x, 9))
  <2>1. CASE x \in {"env", "pre"}
    <3>1. /\ Pile(t, x, 9) = g1 \o g2 \o g3 \o g4 \o << >>
          /\ Pile(q, x, 9) = h1 \o h2 \o h3 \o << >> \o h5
      BY <1>8, <2>1, PileEnd
    <3> HIDE DEF g1, g2, g3, g4, h1, h2, h3, h5
    <3>2. g1 \o g2 \in Seq(Int) /\ Mapped(g1 \o g2) = h1 \o h2
      BY <1>7, <1>8, MappedJoined, JoinedIs
    <3>3. g1 \o g2 \o g3 \in Seq(Int) /\ Mapped(g1 \o g2 \o g3) = h1 \o h2 \o h3
      BY <1>7, <1>8, <3>2, MappedJoined, JoinedIs
    <3>4. g1 \o g2 \o g3 \o g4 \in Seq(Int) /\ Mapped(g1 \o g2 \o g3 \o g4) = h1 \o h2 \o h3 \o h5
      BY <1>7, <1>8, <3>3, MappedJoined, JoinedIs
    <3>5. h1 \o h2 \o h3 \in Seq(Int)
      BY <3>3, MappedJoined
    <3>6. g1 \o g2 \o g3 \o g4 \o << >> = g1 \o g2 \o g3 \o g4 /\ h1 \o h2 \o h3 \o << >> = h1 \o h2 \o h3
      BY <3>4, <3>5, JoinedEmpty
    <3> QED BY <3>1, <3>4, <3>6
  <2>2. CASE x = "templates"
    <3>1. /\ Pile(t, x, 9) = g3 \o g2 \o g4 \o << >>
          /\ Pile(q, x, 9) = h3 \o h2 \o << >> \o h5
      BY <1>8, <2>2, PileEnd
    <3> HIDE DEF g1, g2, g3, g4, h1, h2, h3, h5
    <3>2. g3 \o g2 \in Seq(Int) /\ Mapped(g3 \o g2) = h3 \o h2
      BY <1>7, <1>8, MappedJoined, JoinedIs
    <3>3. g3 \o g2 \o g4 \in Seq(Int) /\ Mapped(g3 \o g2 \o g4) = h3 \o h2 \o h5
      BY <1>7, <1>8, <3>2, MappedJoined, JoinedIs
    <3>4. h3 \o h2 \in Seq(Int)
      BY <3>2, MappedJoined
    <3>5. g3 \o g2 \o g4 \o << >> = g3 \o g2 \o g4 /\ h3 \o h2 \o << >> = h3 \o h2
      BY <3>3, <3>4, JoinedEmpty
    <3> QED BY <3>1, <3>3, <3>5
  <2>3. CASE x = "post"
    <3>1. "post" \notin q[1] \cup q[4] \cup q[5] /\ "post" \notin t[1] \cup t[4] \cup t[5]
      BY DEF Twins
    <3>2. Pile(t, x, 9) = g3 \o g2 /\ Pile(q, x, 9) = h3 \o h2
      BY <2>3, <3>1, PileEnd
    <3> HIDE DEF g1, g2, g3, g4, h1, h2, h3, h5
    <3> QED BY <1>7, <1>8, <3>2, MappedJoined
  <2> QED BY <2>1, <2>2, <2>3, LeavesAre
<1> QED BY <1>3, <1>5, <1>10

LEMMA TwinsAgree ==
  ASSUME ConfigPlain, ConfigInv
  PROVE  Config!Unified
<1> DEFINE q == case.patch
           t == Config!Moved(q)
           v == out.main.value
           w == out.twin.value
<1> SUFFICES ASSUME at = "done", Config!HasTwin, "promptFile" \notin q[5]
             PROVE  Config!Unified
  BY SetsAre DEF Config!Unified, Config!Done
<1>1. Twins(q, t)
  BY MovedIs, SetsAre DEF ConfigInv, Config!HasTwin
<1>2. /\ OneSource(q) /\ Rest(out.main, q, 9) /\ PairFinal(v, q)
      /\ Rest(out.twin, t, 8) /\ PairInlined(w, t)
  BY DEF ConfigInv, Resolving
<1>3. Config!Leaves = (Plain \ Config!Pair) \cup Config!Pair \cup Config!Appended /\ Plain \cap Config!Appended = {}
      /\ Config!Pair \cap Config!Appended = {}
  BY LeavesAre DEF Plain
<1>4. DOMAIN v \subseteq Config!Leaves /\ DOMAIN w \subseteq Config!Leaves
  BY <1>2 DEF Rest
<1>5. \A x \in Plain \ Config!Pair : (x \in DOMAIN v <=> x \in DOMAIN w) /\ (x \in DOMAIN v => v[x] = As(w[x]))
  <2> TAKE x \in Plain \ Config!Pair
  <2>1. SetIs(v, q, 9, x) /\ SetIs(w, t, 8, x)
    BY <1>2 DEF Rest
  <2> QED BY <1>1, <2>1, TwinPlain
<1>6. \A x \in Config!Pair : (x \in DOMAIN v <=> x \in DOMAIN w) /\ (x \in DOMAIN v => v[x] = As(w[x]))
  BY <1>1, <1>2, TwinPair
<1>7. \A x \in Config!Appended : (x \in DOMAIN v <=> x \in DOMAIN w) /\ (x \in DOMAIN v => v[x] = Mapped(w[x]))
  <2> TAKE x \in Config!Appended
  <2>1. ListIs(v, q, 9, x) /\ ListIs(w, t, 8, x)
    BY <1>2 DEF Rest
  <2> QED BY <1>1, <2>1, TwinList
<1>8. DOMAIN v = DOMAIN w
  BY <1>3, <1>4, <1>5, <1>6, <1>7
<1>9. \A x \in DOMAIN v : IF x \in Config!Appended THEN v[x] = Mapped(w[x]) ELSE v[x] = As(w[x])
  BY <1>3, <1>4, <1>5, <1>6, <1>7
<1>10. Config!Variant = 4 /\ Config!Cli = 5
  BY SetsAre
<1> QED BY <1>8, <1>9, <1>10 DEF Config!Unified, Mapped, As

\* What a task is resolved to is what its layers say, the last one to speak
\* first, the lineage names the layer that did, and an override gives what a
\* variant would have given.
THEOREM ConfigStaysResolved == Config!Spec => []ConfigResolved
<1>1. Config!Init => ConfigInv
  BY ConfigInit
<1>2. ConfigInv /\ [Config!Next]_<<case, at, out>> => ConfigInv'
  BY ConfigStep, RulesAssumption
<1>3. ConfigInv => ConfigResolved
  BY LayersTold, TwinsAgree, RulesAssumption DEF ConfigResolved
<1> QED BY <1>1, <1>2, <1>3, PTL DEF Config!Spec, Config!vars
=============================================================================
