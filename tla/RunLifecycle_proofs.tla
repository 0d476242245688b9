-------------------------- MODULE RunLifecycle_proofs --------------------------
(***************************************************************************)
(* Theorems about one run of a task (TaskRun), for every number of         *)
(* attempts, post_run commands and interruptions, every mode and every row *)
(* a re-grade may be given; then what the row of a run tells, and what a   *)
(* run directory keeps under any number of commands and kills.  What is    *)
(* called Undisturbed is proved where nobody cancels a run from outside    *)
(* and no workspace is copied, and does not hold elsewhere: a cancelled    *)
(* pass writes a row that tells of the cancellation and not of its         *)
(* verdict, and a copied workspace whose pre_run fails one that says       *)
(* ERROR.  The last part, what the next command relies on, holds there too.*)
(***************************************************************************)
EXTENDS RunLifecycle, TLAPS

-----------------------------------------------------------------------------
(* What the handlers write on the result is a row. *)

\* The row a run starts from, and the missing one, are rows.
LEMMA FreshTyped == FreshRow \in Row /\ NoRow \in Row
<1>1. << >> \in Seq(Turn)
  OBVIOUS
<1> QED
  BY <1>1 DEF FreshRow, NoRow, Row, FinalStatus, Vectors

\* A re-grade is seeded with a row (_seed_from_prior_result).
LEMMA SeededTyped ==
  ASSUME NEW p \in Row
  PROVE  Seeded(p) \in Row
<1>1. /\ p.turns \in Seq(Turn) /\ Len(p.turns) \in Nat /\ p.count \in Nat
      /\ p.maxTurns \in BOOLEAN /\ p.early \in BOOLEAN
      /\ p.post \in Nat /\ p.history \in Nat
      /\ p.phase \in {"none", "execution", "grading"}
  BY DEF Row
<1> DEFINE n == IF p.count # 0 THEN p.count ELSE Len(p.turns)
<1>2. n \in Nat
  BY <1>1
<1>3. Inheriting(p) = [FreshRow EXCEPT !.turns = p.turns, !.count = n,
                         !.maxTurns = p.maxTurns, !.early = p.early, !.post = p.post,
                         !.phase = p.phase, !.history = p.history]
  BY DEF Inheriting
<1> HIDE DEF n
<1>4. Inheriting(p) \in Row
  BY <1>1, <1>2, <1>3 DEF FreshRow, Row, FinalStatus, Vectors
<1>5. Inheriting(p).history + 1 \in Nat
  BY <1>4 DEF Row
<1> QED
  BY <1>4, <1>5 DEF Seeded, Row

\* _record_error
LEMMA FactTyped ==
  ASSUME NEW r \in Row, NEW s \in FinalStatus
  PROVE  Fact(r, s) \in Row
BY DEF Fact, Row

\* _record_post_failure_not_evaluated
LEMMA NotEvaluatedTyped ==
  ASSUME NEW r \in Row
  PROVE  NotEvaluated(r) \in Row
BY DEF NotEvaluated, Row

\* _handle_grading_error
LEMMA GradingFailedTyped ==
  ASSUME NEW r \in Row, prior \in Row
  PROVE  GradingFailed(r) \in Row
<1>1. prior.status \in FinalStatus \cup {"absent"} /\ r.history + 1 \in Nat
  BY DEF Row
<1>2. "ERROR" \in FinalStatus
  BY DEF FinalStatus
<1> QED
  BY <1>1, <1>2 DEF GradingFailed, Row

\* _drain_killed_turn, _drain_pending_turn
LEMMA DrainedTyped ==
  ASSUME NEW r \in Row, NEW a \in Agents
  PROVE  Drained(r, a) \in Row
<1>1. Append(r.turns, a.pending) \in Seq(Turn)
  BY DEF Row, Agents
<1> QED
  BY <1>1 DEF Drained, Row

\* Agent._begin_turn, _end_turn_ok, discard_pending_turn
LEMMA AgentTyped ==
  ASSUME NEW a \in Agents
  PROVE  /\ BeginTurn(a) \in Agents
         /\ EndTurnOk(a) \in Agents
         /\ DiscardPending(a) \in Agents
<1>1. NoTurn \in Turn
  BY DEF NoTurn, Turn
<1>2. a.iteration \in Nat /\ a.iteration + 1 \in Nat
  BY DEF Agents
<1>3. a.iteration > 0 => a.iteration - 1 \in Nat
  BY <1>2
<1>4. BeginTurn(a) \in Agents
  BY <1>1, <1>2 DEF BeginTurn, Agents
<1>5. EndTurnOk(a) \in Agents
  BY DEF EndTurnOk, Agents
<1>6. DiscardPending(a) \in Agents
  BY <1>1, <1>2, <1>3 DEF DiscardPending, Agents
<1> QED
  BY <1>4, <1>5, <1>6

\* A turn gets the next number.
LEMMA NewTurnTyped ==
  ASSUME TypeOK, NEW c \in BOOLEAN
  PROVE  NewTurn(c) \in Turn /\ Append(captured, NewTurn(c)) \in Seq(Turn)
<1>1. Len(prior.turns) \in Nat /\ Len(captured) \in Nat
  BY DEF TypeOK, RunTyped, TalkTyped, Row
<1>2. NewTurn(c) \in Turn
  BY <1>1 DEF NewTurn, Turn
<1> QED
  BY <1>2 DEF TypeOK, TalkTyped

-----------------------------------------------------------------------------
(* Every step keeps the types. *)

\* The values everything starts from.
LEMMA EmptyTyped == NoTurn \in Turn /\ NoAgent \in Agents /\ << >> \in Seq(Turn)
BY DEF NoTurn, Turn, NoAgent, Agents

\* Before any run.
LEMMA InitTyped == Init => TypeOK
<1> SUFFICES ASSUME Init PROVE TypeOK
  OBVIOUS
<1>1. RunTyped
  BY FreshTyped DEF Init, RunTyped
<1>2. ResultTyped
  BY FreshTyped DEF Init, ResultTyped
<1>3. FlowTyped
  BY DEF Init, FlowTyped, Labels, Exceptions
<1>4. WatchTyped
  BY DEF Init, WatchTyped
<1>5. TalkTyped
  BY EmptyTyped DEF Init, TalkTyped
<1>6. TearTyped
  BY DEF Init, TearTyped
<1> QED
  BY <1>1, <1>2, <1>3, <1>4, <1>5, <1>6 DEF TypeOK

\* What a step leaves alone keeps its type.
LEMMA UnchangedTyped ==
  /\ RunTyped /\ UNCHANGED runVars => RunTyped'
  /\ ResultTyped /\ UNCHANGED resultVars => ResultTyped'
  /\ FlowTyped /\ UNCHANGED <<pc, flowVars>> => FlowTyped'
  /\ WatchTyped /\ UNCHANGED watchVars => WatchTyped'
  /\ TalkTyped /\ UNCHANGED talkVars => TalkTyped'
  /\ TearTyped /\ UNCHANGED tearVars => TearTyped'
<1>1. RunTyped /\ UNCHANGED runVars => RunTyped'
  BY DEF RunTyped, runVars
<1>2. ResultTyped /\ UNCHANGED resultVars => ResultTyped'
  BY DEF ResultTyped, resultVars
<1>3. FlowTyped /\ UNCHANGED <<pc, flowVars>> => FlowTyped'
  BY DEF FlowTyped, flowVars
<1>4. WatchTyped /\ UNCHANGED watchVars => WatchTyped'
  BY DEF WatchTyped, watchVars
<1>5. TalkTyped /\ UNCHANGED talkVars => TalkTyped'
  BY DEF TalkTyped, talkVars
<1>6. TearTyped /\ UNCHANGED tearVars => TearTyped'
  BY DEF TearTyped, tearVars
<1> QED
  BY <1>1, <1>2, <1>3, <1>4, <1>5, <1>6

\* A run that starts (Orchestrator.__init__, _seed_from_prior_result).
LEMMA BeginTyped ==
  ASSUME TypeOK, NEW m \in Modes, NEW p \in Row, Begin(m, p), report' \in Row
  PROVE  TypeOK'
<1>1. m \in {"run", "execute", "regrade", "copy", "bare"}
  BY ConstantsAssumption
<1>2. res' \in Row
  BY FreshTyped, SeededTyped DEF Begin
<1>3. RunTyped'
  BY <1>1 DEF Begin, RunTyped
<1>4. ResultTyped'
  <2>1. complete' \in BOOLEAN
    <3>1. CASE m \in {"regrade", "copy"}
      BY <3>1 DEF Begin
    <3>2. CASE m \notin {"regrade", "copy"}
      BY <3>2 DEF Begin
    <3> QED
      BY <3>1, <3>2
  <2>2. written' \in BOOLEAN /\ gfail' \in BOOLEAN /\ success' \in BOOLEAN
    BY DEF Begin
  <2> QED
    BY <1>2, <2>1, <2>2 DEF ResultTyped
<1>5. FlowTyped'
  BY DEF Begin, FlowTyped, Labels, Exceptions
<1>6. WatchTyped'
  BY DEF Begin, TypeOK, WatchTyped
<1>7. TalkTyped'
  BY EmptyTyped DEF Begin, TalkTyped
<1>8. TearTyped'
  BY DEF Begin, TearTyped
<1> QED
  BY <1>3, <1>4, <1>5, <1>6, <1>7, <1>8 DEF TypeOK

\* Setting up and pre_run.
LEMMA SetUpTyped ==
  ASSUME TypeOK, SetUp
  PROVE  TypeOK'
<1>1. ASSUME EnterLoop
      PROVE  /\ res' \in Row /\ pc' \in Labels /\ complete' \in BOOLEAN
             /\ timer' \in {"armed", "off"}
  <2>1. [res EXCEPT !.count = 1] \in Row
    BY DEF TypeOK, ResultTyped, Row
  <2> QED
    BY <1>1, <2>1 DEF EnterLoop, Watched, TypeOK, ResultTyped, Labels
<1>2. CASE SetupSandbox
  <2>1. ResultTyped'
    BY <1>2, <1>1 DEF SetupSandbox, TypeOK, ResultTyped, resultVars
  <2>2. FlowTyped'
    BY <1>2, <1>1 DEF SetupSandbox, TypeOK, FlowTyped, flowVars, Labels, Exceptions
  <2>3. WatchTyped'
    BY <1>2, <1>1 DEF SetupSandbox, TypeOK, WatchTyped, watchVars
  <2>4. TalkTyped'
    BY <1>2 DEF SetupSandbox, Agents, TypeOK, TalkTyped, talkVars
  <2>5. TearTyped'
    BY <1>2 DEF SetupSandbox, TypeOK, TearTyped, tearVars
  <2>6. RunTyped'
    BY <1>2, UnchangedTyped DEF SetupSandbox, TypeOK
  <2> QED
    BY <2>1, <2>2, <2>3, <2>4, <2>5, <2>6 DEF TypeOK
<1>3. CASE SetupFails
  <2>1. FlowTyped'
    BY <1>3 DEF SetupFails, AbortSetup, TypeOK, FlowTyped, flowVars, Labels, Exceptions
  <2>2. TearTyped'
    BY <1>3 DEF SetupFails, TypeOK, TearTyped, tearVars
  <2>3. RunTyped' /\ ResultTyped' /\ WatchTyped' /\ TalkTyped'
    BY <1>3, UnchangedTyped DEF SetupFails, TypeOK
  <2> QED
    BY <2>1, <2>2, <2>3 DEF TypeOK
<1>4. CASE StartAgent
  <2>1. FlowTyped'
    BY <1>4 DEF StartAgent, TypeOK, FlowTyped, flowVars, Labels, Exceptions
  <2>2. TalkTyped'
    BY <1>4 DEF StartAgent, Agents, TypeOK, TalkTyped, talkVars
  <2>3. RunTyped' /\ ResultTyped' /\ WatchTyped' /\ TearTyped'
    BY <1>4, UnchangedTyped DEF StartAgent, TypeOK
  <2> QED
    BY <2>1, <2>2, <2>3 DEF TypeOK
<1>5. CASE StartAgentFails
  <2>1. FlowTyped'
    BY <1>5 DEF StartAgentFails, AbortSetup, TypeOK, FlowTyped, flowVars, Labels, Exceptions
  <2>2. RunTyped' /\ ResultTyped' /\ WatchTyped' /\ TalkTyped' /\ TearTyped'
    BY <1>5, UnchangedTyped DEF StartAgentFails, TypeOK
  <2> QED
    BY <2>1, <2>2 DEF TypeOK
<1>6. CASE PreRun
  <2>1. ResultTyped'
    BY <1>6, <1>1 DEF PreRun, TypeOK, ResultTyped, resultVars
  <2>2. FlowTyped'
    BY <1>6, <1>1 DEF PreRun, TypeOK, FlowTyped, flowVars, Labels, Exceptions
  <2>3. WatchTyped'
    BY <1>6, <1>1 DEF PreRun, TypeOK, WatchTyped, watchVars
  <2>4. RunTyped' /\ TalkTyped' /\ TearTyped'
    BY <1>6, UnchangedTyped DEF PreRun, TypeOK
  <2> QED
    BY <2>1, <2>2, <2>3, <2>4 DEF TypeOK
<1>7. CASE PreRunFails
  <2>1. FlowTyped'
    BY <1>7 DEF PreRunFails, AbortSetup, TypeOK, FlowTyped, flowVars, Labels, Exceptions
  <2>2. RunTyped' /\ ResultTyped' /\ WatchTyped' /\ TalkTyped' /\ TearTyped'
    BY <1>7, UnchangedTyped DEF PreRunFails, TypeOK
  <2> QED
    BY <2>1, <2>2 DEF TypeOK
<1>8. CASE SetupCancelled
  <2>1. FlowTyped'
    BY <1>8 DEF SetupCancelled, AbortSetup, TypeOK, FlowTyped, flowVars, Labels, Exceptions
  <2>2. WatchTyped'
    BY <1>8 DEF SetupCancelled, CancelAt, TypeOK, WatchTyped, watchVars
  <2>3. TearTyped'
    BY <1>8 DEF SetupCancelled, TypeOK, TearTyped, tearVars
  <2>4. RunTyped' /\ ResultTyped' /\ TalkTyped'
    BY <1>8, UnchangedTyped DEF SetupCancelled, TypeOK
  <2> QED
    BY <2>1, <2>2, <2>3, <2>4 DEF TypeOK
<1> QED
  BY <1>2, <1>3, <1>4, <1>5, <1>6, <1>7, <1>8 DEF SetUp

\* The conversation with the agent.
LEMMA TalkStepTyped ==
  ASSUME TypeOK, Talk
  PROVE  TypeOK'
<1>1. /\ [BeginTurn(agent) EXCEPT !.killed = FALSE] \in Agents
      /\ EndTurnOk(agent) \in Agents
  <2>1. BeginTurn(agent) \in Agents /\ EndTurnOk(agent) \in Agents
    BY AgentTyped DEF TypeOK, TalkTyped
  <2> QED
    BY <2>1 DEF Agents
<1>2. ASSUME NEW c \in BOOLEAN
      PROVE  /\ [agent EXCEPT !.pending = NewTurn(c)] \in Agents
             /\ [agent EXCEPT !.pending = NoTurn] \in Agents
  BY NewTurnTyped, EmptyTyped DEF TypeOK, TalkTyped, Agents
<1>3. ASSUME CloseWindow
      PROVE  res' \in Row /\ complete' \in BOOLEAN /\ pc' \in Labels /\ exc' \in Exceptions
  <2>1. /\ res \in Row /\ returned \in Turn /\ complete \in BOOLEAN /\ exc \in Exceptions
        /\ {"BUDGET_EXCEEDED", "ERROR"} \subseteq FinalStatus
    BY DEF TypeOK, ResultTyped, FlowTyped, TalkTyped, FinalStatus
  <2>2. ASSUME NEW x \in BOOLEAN, NEW e \in BOOLEAN, NEW o \in BOOLEAN, Absorb(x, e, o)
        PROVE  res' \in Row /\ complete' \in BOOLEAN /\ pc' \in Labels /\ exc' \in Exceptions
    <3>1. Append(res.turns, returned) \in Seq(Turn)
      BY <2>1 DEF Row
    <3>2. (res.maxTurns \/ x) \in BOOLEAN
      OBVIOUS
    <3> DEFINE r == [res EXCEPT !.turns = Append(@, returned), !.early = e,
                                !.maxTurns = @ \/ x]
    <3>3. r = [res EXCEPT !.turns = Append(res.turns, returned), !.early = e,
                          !.maxTurns = res.maxTurns \/ x]
      OBVIOUS
    <3>4. r \in Row
      BY <2>1, <3>1, <3>2, <3>3 DEF Row
    <3>5. res' = IF o THEN Fact(r, "BUDGET_EXCEEDED") ELSE r
      BY <2>2 DEF Absorb
    <3> HIDE DEF r
    <3>6. res' \in Row
      BY <2>1, <3>4, <3>5, FactTyped
    <3> QED
      BY <2>2, <3>6 DEF Absorb, Labels, Exceptions
  <2>3. ASSUME Evidence
        PROVE  res' \in Row /\ complete' \in BOOLEAN /\ pc' \in Labels /\ exc' \in Exceptions
    <3>1. Fact(res, "ERROR") \in Row
      BY <2>1, FactTyped
    <3>2. [Fact(res, "ERROR") EXCEPT !.diag = IF Grades THEN "checked" ELSE @] \in Row
      BY <3>1 DEF Row
    <3> QED
      BY <2>1, <2>3, <3>1, <3>2 DEF Evidence, Labels
  <2>4. ASSUME EvidenceOfCancel
        PROVE  res' \in Row /\ pc' \in Labels /\ exc' \in Exceptions
    BY <2>1, <2>4, NotEvaluatedTyped DEF EvidenceOfCancel, Labels, Exceptions
  <2> QED
    BY <1>3, <2>1, <2>2, <2>3, <2>4 DEF CloseWindow
<1>4. CASE OpenWindow
  <2>1. FlowTyped'
    BY <1>4 DEF OpenWindow, TypeOK, FlowTyped, flowVars, Labels, Exceptions
  <2>2. TalkTyped'
    BY <1>4, <1>1 DEF OpenWindow, TypeOK, TalkTyped, talkVars
  <2>3. RunTyped' /\ ResultTyped' /\ WatchTyped' /\ TearTyped'
    BY <1>4, UnchangedTyped DEF OpenWindow, TypeOK
  <2> QED
    BY <2>1, <2>2, <2>3 DEF TypeOK
<1>5. CASE WindowRefused
  <2>1. FlowTyped'
    BY <1>5 DEF WindowRefused, TypeOK, FlowTyped, flowVars, Labels, Exceptions
  <2>2. RunTyped' /\ ResultTyped' /\ WatchTyped' /\ TalkTyped' /\ TearTyped'
    BY <1>5, UnchangedTyped DEF WindowRefused, TypeOK
  <2> QED
    BY <2>1, <2>2 DEF TypeOK
<1>6. CASE TurnReturns
  <2>1. FlowTyped'
    BY <1>6 DEF TurnReturns, TypeOK, FlowTyped, flowVars, Labels, Exceptions
  <2>2. TalkTyped'
    BY <1>6, <1>1, NewTurnTyped DEF TurnReturns, TypeOK, TalkTyped, talkVars
  <2>3. RunTyped' /\ ResultTyped' /\ WatchTyped' /\ TearTyped'
    BY <1>6, UnchangedTyped DEF TurnReturns, TypeOK
  <2> QED
    BY <2>1, <2>2, <2>3 DEF TypeOK
<1>7. ASSUME NEW e \in {"crash", "turnTimeout"}, NEW parked \in BOOLEAN, NEW retry \in BOOLEAN, TurnFails(e, parked, retry) PROVE TypeOK'
  <2>1. ResultTyped'
    BY <1>7, <1>2, DrainedTyped DEF TurnFails, TypeOK, ResultTyped, resultVars
  <2>2. FlowTyped'
    BY <1>7 DEF TurnFails, TypeOK, FlowTyped, flowVars, Labels, Exceptions
  <2>3. TalkTyped'
    BY <1>7, <1>2, AgentTyped, NewTurnTyped DEF TurnFails, TypeOK, TalkTyped, talkVars
  <2>4. RunTyped' /\ WatchTyped' /\ TearTyped'
    BY <1>7, UnchangedTyped DEF TurnFails, TypeOK
  <2> QED
    BY <2>1, <2>2, <2>3, <2>4 DEF TypeOK
<1>8. ASSUME NEW parked \in BOOLEAN, TurnCancelled(parked) PROVE TypeOK'
  <2>1. FlowTyped'
    BY <1>8 DEF TurnCancelled, TypeOK, FlowTyped, flowVars, Labels, Exceptions
  <2>2. WatchTyped'
    BY <1>8 DEF TurnCancelled, CancelAt, TypeOK, WatchTyped, watchVars
  <2>3. TalkTyped'
    BY <1>8, <1>2, NewTurnTyped DEF TurnCancelled, TypeOK, TalkTyped, talkVars
  <2>4. RunTyped' /\ ResultTyped' /\ TearTyped'
    BY <1>8, UnchangedTyped DEF TurnCancelled, TypeOK
  <2> QED
    BY <2>1, <2>2, <2>3, <2>4 DEF TypeOK
<1>9. CASE TurnSwallowsCancel
  <2>1. WatchTyped'
    BY <1>9 DEF TurnSwallowsCancel, CancelAt, TypeOK, WatchTyped, watchVars
  <2>2. RunTyped' /\ ResultTyped' /\ FlowTyped' /\ TalkTyped' /\ TearTyped'
    BY <1>9, UnchangedTyped DEF TurnSwallowsCancel, TypeOK
  <2> QED
    BY <2>1, <2>2 DEF TypeOK
<1>10. CASE BackoffElapses
  <2>1. FlowTyped'
    BY <1>10 DEF BackoffElapses, TypeOK, FlowTyped, flowVars, Labels, Exceptions
  <2>2. TalkTyped'
    BY <1>10, <1>1 DEF BackoffElapses, TypeOK, TalkTyped, talkVars
  <2>3. RunTyped' /\ ResultTyped' /\ WatchTyped' /\ TearTyped'
    BY <1>10, UnchangedTyped DEF BackoffElapses, TypeOK
  <2> QED
    BY <2>1, <2>2, <2>3 DEF TypeOK
<1>11. CASE BackoffCancelled
  <2>1. FlowTyped'
    BY <1>11 DEF BackoffCancelled, TypeOK, FlowTyped, flowVars, Labels, Exceptions
  <2>2. WatchTyped'
    BY <1>11 DEF BackoffCancelled, CancelAt, TypeOK, WatchTyped, watchVars
  <2>3. RunTyped' /\ ResultTyped' /\ TalkTyped' /\ TearTyped'
    BY <1>11, UnchangedTyped DEF BackoffCancelled, TypeOK
  <2> QED
    BY <2>1, <2>2, <2>3 DEF TypeOK
<1>12. CASE CloseWindow
  <2>1. ResultTyped'
    BY <1>12, <1>3 DEF CloseWindow, TypeOK, ResultTyped, resultVars
  <2>2. FlowTyped'
    BY <1>12, <1>3 DEF CloseWindow, TypeOK, FlowTyped, flowVars, Labels, Exceptions
  <2>3. RunTyped' /\ WatchTyped' /\ TalkTyped' /\ TearTyped'
    BY <1>12, UnchangedTyped DEF CloseWindow, TypeOK
  <2> QED
    BY <2>1, <2>2, <2>3 DEF TypeOK
<1>13. CASE WindowCancelled
  <2>1. ResultTyped'
    BY <1>13, NotEvaluatedTyped DEF WindowCancelled, EvidenceOfCancel, TypeOK, ResultTyped, resultVars
  <2>2. FlowTyped'
    BY <1>13 DEF WindowCancelled, EvidenceOfCancel, TypeOK, FlowTyped, flowVars, Labels, Exceptions
  <2>3. WatchTyped'
    BY <1>13 DEF WindowCancelled, CancelAt, TypeOK, WatchTyped, watchVars
  <2>4. RunTyped' /\ TalkTyped' /\ TearTyped'
    BY <1>13, UnchangedTyped DEF WindowCancelled, TypeOK
  <2> QED
    BY <2>1, <2>2, <2>3, <2>4 DEF TypeOK
<1> QED
  BY <1>4, <1>5, <1>6, <1>7, <1>8, <1>9, <1>10, <1>11, <1>12, <1>13 DEF Talk

\* Grading, and the diagnostics of a failed run.
LEMMA JudgeTyped ==
  ASSUME TypeOK, Judge
  PROVE  TypeOK'
<1>1. ASSUME NEW v \in Vectors
      PROVE  /\ [res EXCEPT !.crit = v] \in Row
             /\ [res EXCEPT !.crit = v, !.score = IF HasAgent THEN "some" ELSE @] \in Row
  BY DEF TypeOK, ResultTyped, Row
<1>2. ASSUME NEW v \in Vectors PROVE GatePassed(res.early, v) \in BOOLEAN
  BY DEF GatePassed
<1>3. [res EXCEPT !.diag = "checked"] \in Row
  BY DEF TypeOK, ResultTyped, Row
<1>4. NotEvaluated(GradingFailed(res)) \in Row
  BY GradingFailedTyped, NotEvaluatedTyped DEF TypeOK, RunTyped, ResultTyped
<1>5. ASSUME NEW v \in Vectors, Grade(v) PROVE TypeOK'
  <2>1. ResultTyped'
    BY <1>5, <1>1, <1>2 DEF Grade, TypeOK, ResultTyped, resultVars
  <2>2. FlowTyped'
    BY <1>5 DEF Grade, TypeOK, FlowTyped, flowVars, Labels, Exceptions
  <2>3. RunTyped' /\ WatchTyped' /\ TalkTyped' /\ TearTyped'
    BY <1>5, UnchangedTyped DEF Grade, TypeOK
  <2> QED
    BY <2>1, <2>2, <2>3 DEF TypeOK
<1>6. ASSUME NEW e \in {"grading", "error"}, NEW v \in Vectors, GradeFails(e, v) PROVE TypeOK'
  <2>1. ResultTyped'
    BY <1>6, <1>1 DEF GradeFails, TypeOK, ResultTyped, resultVars
  <2>2. FlowTyped'
    BY <1>6 DEF GradeFails, TypeOK, FlowTyped, flowVars, Labels, Exceptions
  <2>3. RunTyped' /\ WatchTyped' /\ TalkTyped' /\ TearTyped'
    BY <1>6, UnchangedTyped DEF GradeFails, TypeOK
  <2> QED
    BY <2>1, <2>2, <2>3 DEF TypeOK
<1>7. CASE GradeCancelled
  <2>1. ResultTyped'
    BY <1>7, NotEvaluatedTyped DEF GradeCancelled, EvidenceOfCancel, TypeOK, ResultTyped, resultVars
  <2>2. FlowTyped'
    BY <1>7 DEF GradeCancelled, EvidenceOfCancel, TypeOK, FlowTyped, flowVars, Labels, Exceptions
  <2>3. WatchTyped'
    BY <1>7 DEF GradeCancelled, CancelAt, TypeOK, WatchTyped, watchVars
  <2>4. RunTyped' /\ TalkTyped' /\ TearTyped'
    BY <1>7, UnchangedTyped DEF GradeCancelled, TypeOK
  <2> QED
    BY <2>1, <2>2, <2>3, <2>4 DEF TypeOK
<1>8. CASE DiagChecked
  <2>1. ResultTyped'
    BY <1>8, <1>3 DEF DiagChecked, TypeOK, ResultTyped, resultVars
  <2>2. FlowTyped'
    BY <1>8 DEF DiagChecked, TypeOK, FlowTyped, flowVars, Labels, Exceptions
  <2>3. RunTyped' /\ WatchTyped' /\ TalkTyped' /\ TearTyped'
    BY <1>8, UnchangedTyped DEF DiagChecked, TypeOK
  <2> QED
    BY <2>1, <2>2, <2>3 DEF TypeOK
<1>9. CASE DiagFails
  <2>1. ResultTyped'
    BY <1>9, <1>4 DEF DiagFails, TypeOK, ResultTyped, resultVars
  <2>2. FlowTyped'
    BY <1>9 DEF DiagFails, TypeOK, FlowTyped, flowVars, Labels, Exceptions
  <2>3. RunTyped' /\ WatchTyped' /\ TalkTyped' /\ TearTyped'
    BY <1>9, UnchangedTyped DEF DiagFails, TypeOK
  <2> QED
    BY <2>1, <2>2, <2>3 DEF TypeOK
<1>10. CASE DiagCancelled
  <2>1. ResultTyped'
    BY <1>10, NotEvaluatedTyped DEF DiagCancelled, TypeOK, ResultTyped, resultVars
  <2>2. FlowTyped'
    BY <1>10 DEF DiagCancelled, TypeOK, FlowTyped, flowVars, Labels, Exceptions
  <2>3. WatchTyped'
    BY <1>10 DEF DiagCancelled, CancelAt, TypeOK, WatchTyped, watchVars
  <2>4. RunTyped' /\ TalkTyped' /\ TearTyped'
    BY <1>10, UnchangedTyped DEF DiagCancelled, TypeOK
  <2> QED
    BY <2>1, <2>2, <2>3, <2>4 DEF TypeOK
<1> QED
  BY <1>5, <1>6, <1>7, <1>8, <1>9, <1>10 DEF Judge

\* The end of the watched block, the handlers and the teardown.
LEMMA EndTyped ==
  ASSUME TypeOK, End
  PROVE  TypeOK'
<1>1. GradingFailed(res) \in Row /\ GradingFailed(Fact(res, "TIMEOUT")) \in Row
  BY FactTyped, GradingFailedTyped DEF TypeOK, RunTyped, ResultTyped, FinalStatus
<1>2. ASSUME Verdict PROVE res' \in Row /\ gfail' \in BOOLEAN /\ agent' \in Agents
  <2>1. res \in Row /\ prior \in Row /\ gfail \in BOOLEAN /\ agent \in Agents
    BY DEF TypeOK, RunTyped, ResultTyped, TalkTyped
  <2>2. TerminalStatus \in FinalStatus \cup {"absent"}
    BY <2>1 DEF TerminalStatus, FinalStatus, Row
  <2>3. [res EXCEPT !.status = TerminalStatus] \in Row
    BY <2>1, <2>2 DEF Row
  <2>4. \A f \in {"TIMEOUT", "BUDGET_EXCEEDED", "ERROR"} : Fact(res, f) \in Row
    BY <2>1, FactTyped DEF FinalStatus
  <2>5. Drained(Fact(res, "TIMEOUT"), agent) \in Row
    BY <2>1, <2>4, DrainedTyped
  <2>6. GradingFailed(res) \in Row
    BY <2>1, GradingFailedTyped
  <2>7. DiscardPending(agent) \in Agents
    BY <2>1, AgentTyped
  <2> QED
    BY <1>2, <2>1, <2>3, <2>4, <2>5, <2>6, <2>7 DEF Verdict
<1>3. [res EXCEPT !.post = @ + 1] \in Row
  <2>1. res.post + 1 \in Nat
    BY DEF TypeOK, ResultTyped, Row
  <2> QED
    BY <2>1 DEF TypeOK, ResultTyped, Row
<1>4. [res EXCEPT !.score = FinalScore(Grades, res.crit)] \in Row
  <2>1. FinalScore(Grades, res.crit) \in {"none", "zero", "some"}
    BY DEF FinalScore
  <2> QED
    BY <2>1 DEF TypeOK, ResultTyped, Row
<1>5. CASE LeaveWatch
  <2>1. ResultTyped'
    BY <1>5, <1>1 DEF LeaveWatch, TypeOK, ResultTyped, resultVars
  <2>2. FlowTyped'
    BY <1>5 DEF LeaveWatch, TypeOK, FlowTyped, flowVars, Labels, Exceptions
  <2>3. WatchTyped'
    BY <1>5 DEF LeaveWatch, TypeOK, WatchTyped, watchVars
  <2>4. RunTyped' /\ TalkTyped' /\ TearTyped'
    BY <1>5, UnchangedTyped DEF LeaveWatch, TypeOK
  <2> QED
    BY <2>1, <2>2, <2>3, <2>4 DEF TypeOK
<1>6. CASE Verdict
  <2>1. ResultTyped'
    BY <1>6, <1>2 DEF Verdict, TypeOK, ResultTyped, resultVars
  <2>2. FlowTyped'
    BY <1>6 DEF Verdict, Raised, TearDown, TypeOK, FlowTyped, flowVars, Labels, Exceptions
  <2>3. TalkTyped'
    BY <1>6, <1>2 DEF Verdict, TypeOK, TalkTyped, talkVars
  <2>4. RunTyped' /\ WatchTyped' /\ TearTyped'
    BY <1>6, UnchangedTyped DEF Verdict, TypeOK
  <2> QED
    BY <2>1, <2>2, <2>3, <2>4 DEF TypeOK
<1>7. CASE PostRun
  <2>1. ResultTyped'
    BY <1>7, <1>3 DEF PostRun, TypeOK, ResultTyped, resultVars
  <2>2. FlowTyped'
    BY <1>7 DEF PostRun, TearDown, TypeOK, FlowTyped, flowVars, Labels, Exceptions
  <2>3. TearTyped'
    BY <1>7 DEF PostRun, TypeOK, TearTyped, tearVars
  <2>4. RunTyped' /\ WatchTyped' /\ TalkTyped'
    BY <1>7, UnchangedTyped DEF PostRun, TypeOK
  <2> QED
    BY <2>1, <2>2, <2>3, <2>4 DEF TypeOK
<1>8. CASE PostRunRaises
  <2>1. ResultTyped'
    BY <1>8, <1>1 DEF PostRunRaises, TypeOK, ResultTyped, resultVars
  <2>2. FlowTyped'
    BY <1>8 DEF PostRunRaises, TearDown, TypeOK, FlowTyped, flowVars, Labels, Exceptions
  <2>3. RunTyped' /\ WatchTyped' /\ TalkTyped' /\ TearTyped'
    BY <1>8, UnchangedTyped DEF PostRunRaises, TypeOK
  <2> QED
    BY <2>1, <2>2, <2>3 DEF TypeOK
<1>9. CASE PostRunCancelled
  <2>1. FlowTyped'
    BY <1>9 DEF PostRunCancelled, TearDown, TypeOK, FlowTyped, flowVars, Labels, Exceptions
  <2>2. WatchTyped'
    BY <1>9 DEF PostRunCancelled, CancelAt, TypeOK, WatchTyped, watchVars
  <2>3. RunTyped' /\ ResultTyped' /\ TalkTyped' /\ TearTyped'
    BY <1>9, UnchangedTyped DEF PostRunCancelled, TypeOK
  <2> QED
    BY <2>1, <2>2, <2>3 DEF TypeOK
<1>10. CASE StopAgent
  <2>1. FlowTyped'
    BY <1>10 DEF StopAgent, TypeOK, FlowTyped, flowVars, Labels, Exceptions
  <2>2. TalkTyped'
    BY <1>10, EmptyTyped DEF StopAgent, Agents, TypeOK, TalkTyped, talkVars
  <2>3. RunTyped' /\ ResultTyped' /\ WatchTyped' /\ TearTyped'
    BY <1>10, UnchangedTyped DEF StopAgent, TypeOK
  <2> QED
    BY <2>1, <2>2, <2>3 DEF TypeOK
<1>11. CASE CleanupCancelled
  <2>1. FlowTyped'
    BY <1>11 DEF CleanupCancelled, TypeOK, FlowTyped, flowVars, Labels, Exceptions
  <2>2. WatchTyped'
    BY <1>11 DEF CleanupCancelled, CancelAt, TypeOK, WatchTyped, watchVars
  <2>3. RunTyped' /\ ResultTyped' /\ TalkTyped' /\ TearTyped'
    BY <1>11, UnchangedTyped DEF CleanupCancelled, TypeOK
  <2> QED
    BY <2>1, <2>2, <2>3 DEF TypeOK
<1>12. CASE Finalize
  <2>1. ResultTyped'
    BY <1>12, <1>4 DEF Finalize, TypeOK, ResultTyped, resultVars
  <2>2. FlowTyped'
    BY <1>12 DEF Finalize, TypeOK, FlowTyped, flowVars, Labels, Exceptions
  <2>3. TearTyped'
    BY <1>12 DEF Finalize, TypeOK, TearTyped, tearVars
  <2>4. RunTyped' /\ WatchTyped' /\ TalkTyped'
    BY <1>12, UnchangedTyped DEF Finalize, TypeOK
  <2> QED
    BY <2>1, <2>2, <2>3, <2>4 DEF TypeOK
<1> QED
  BY <1>5, <1>6, <1>7, <1>8, <1>9, <1>10, <1>11, <1>12 DEF End

\* The timer thread and the loop's callbacks.
LEMMA ThreadTyped ==
  ASSUME TypeOK, Thread \/ Interrupt
  PROVE  TypeOK'
<1>1. [agent EXCEPT !.killed = (pc = "talk")] \in Agents
  BY DEF TypeOK, TalkTyped, Agents
<1>2. CASE TimerFires
  <2>1. WatchTyped'
    BY <1>2 DEF TimerFires, TypeOK, WatchTyped, watchVars
  <2>2. RunTyped' /\ ResultTyped' /\ FlowTyped' /\ TalkTyped' /\ TearTyped'
    BY <1>2, UnchangedTyped DEF TimerFires, TypeOK
  <2> QED
    BY <2>1, <2>2 DEF TypeOK
<1>3. CASE TimerKills
  <2>1. WatchTyped'
    BY <1>3 DEF TimerKills, TypeOK, WatchTyped, watchVars
  <2>2. TalkTyped'
    BY <1>3, <1>1 DEF TimerKills, TypeOK, TalkTyped, talkVars
  <2>3. RunTyped' /\ ResultTyped' /\ FlowTyped' /\ TearTyped'
    BY <1>3, UnchangedTyped DEF TimerKills, TypeOK
  <2> QED
    BY <2>1, <2>2, <2>3 DEF TypeOK
<1>4. CASE TimerPosts
  <2>1. WatchTyped'
    BY <1>4 DEF TimerPosts, TypeOK, WatchTyped, watchVars
  <2>2. RunTyped' /\ ResultTyped' /\ FlowTyped' /\ TalkTyped' /\ TearTyped'
    BY <1>4, UnchangedTyped DEF TimerPosts, TypeOK
  <2> QED
    BY <2>1, <2>2 DEF TypeOK
<1>5. CASE LoopCancels
  <2>1. WatchTyped'
    BY <1>5 DEF LoopCancels, TypeOK, WatchTyped, watchVars
  <2>2. RunTyped' /\ ResultTyped' /\ FlowTyped' /\ TalkTyped' /\ TearTyped'
    BY <1>5, UnchangedTyped DEF LoopCancels, TypeOK
  <2> QED
    BY <2>1, <2>2 DEF TypeOK
<1>6. CASE Interrupt
  <2>1. WatchTyped'
    BY <1>6 DEF Interrupt, TypeOK, WatchTyped, watchVars
  <2>2. RunTyped' /\ ResultTyped' /\ FlowTyped' /\ TalkTyped' /\ TearTyped'
    BY <1>6, UnchangedTyped DEF Interrupt, TypeOK
  <2> QED
    BY <2>1, <2>2 DEF TypeOK
<1> QED
  BY <1>2, <1>3, <1>4, <1>5, <1>6 DEF Thread

-----------------------------------------------------------------------------
\* TypeOK is inductive.
LEMMA TypeStep == TypeOK /\ [Next]_vars => TypeOK'
<1> SUFFICES ASSUME TypeOK, [Next]_vars PROVE TypeOK'
  OBVIOUS
<1>1. ASSUME NEW m \in Modes, NEW p \in Row, Start(m, p) PROVE TypeOK'
  <2>1. report' \in Row
    BY <1>1, FreshTyped DEF Start
  <2> QED
    BY <1>1, <2>1, BeginTyped DEF Start
<1>2. CASE \/ \E m \in Modes \cap {"run", "execute", "bare"} : Start(m, NoRow)
           \/ \E m \in Modes \cap {"regrade", "copy"}, p \in Priors : Start(m, p)
  BY <1>1, <1>2, FreshTyped, ConstantsAssumption
<1>3. CASE Step
  BY <1>3, SetUpTyped, TalkStepTyped, JudgeTyped, EndTyped, ThreadTyped DEF Step
<1>4. CASE UNCHANGED vars
  BY <1>4, UnchangedTyped DEF vars, TypeOK
<1> QED
  BY <1>2, <1>3, <1>4 DEF Next, Finished

\* The types hold in every state of every run.
THEOREM TypeCorrect == Spec => []TypeOK
BY InitTyped, TypeStep, PTL DEF Spec

-----------------------------------------------------------------------------
(* Execution failures are kept.                                            *)
(*                                                                         *)
(* What could lose one is the verdict of a run that raised nothing.  So:   *)
(* a failure of this run is recorded together with an exception that will  *)
(* reach the handlers, or (a run limit, which is raised only after the     *)
(* criteria) with the note that raises it; and a re-grade, which hands on  *)
(* the failure of its prior row, never turns the row's error phase into    *)
(* the grading phase.                                                      *)

FailureGuarded ==
  /\ pc \in {"start", "window", "talk", "backoff", "unwind"} => HasAgent
  /\ pc = "diag" => exc # "none"
  /\ Inherited /\ prior.status = "ERROR" => res.phase # "grading"
  /\ HasExecutionFailure(res) /\ ~ Inherited =>
       \/ pc = "grade" /\ LimitNoted
       \/ pc \in {"diag", "leave", "verdict"} /\ exc # "none"
       \/ pc \in {"postrun", "stop", "clean", "done"}

FInv == TypeOK /\ FailureGuarded

SameStanding(r, q) == r.status = q.status /\ r.phase = q.phase

\* What leaves the standing of a row alone leaves its failure alone.
LEMMA StandingKept ==
  ASSUME NEW r, NEW q, SameStanding(r, q)
  PROVE  HasExecutionFailure(r) <=> HasExecutionFailure(q)
BY DEF SameStanding, HasExecutionFailure, GradingError

\* How the handlers move the standing of a row.
LEMMA FactStanding ==
  ASSUME NEW r \in Row, NEW s \in ExecutionFacts
  PROVE  /\ Fact(r, s).status = s /\ Fact(r, s).phase = "execution"
         /\ HasExecutionFailure(Fact(r, s))
BY DEF Fact, Row, HasExecutionFailure, GradingError

LEMMA NotEvaluatedStanding ==
  ASSUME NEW r \in Row
  PROVE  SameStanding(NotEvaluated(r), r)
BY DEF NotEvaluated, Row, SameStanding

LEMMA DrainedStanding ==
  ASSUME NEW r \in Row, NEW a
  PROVE  SameStanding(Drained(r, a), r)
BY DEF Drained, Row, SameStanding

\* A grading error keeps a failure that is there, and hands on an inherited
\* one (_handle_grading_error).
LEMMA GradingFailedStanding ==
  ASSUME NEW r \in Row, Inherited /\ prior.status = "ERROR" => r.phase # "grading"
  PROVE  /\ Inherited => GradingFailed(r).phase = r.phase /\ HasExecutionFailure(GradingFailed(r))
         /\ HasExecutionFailure(r) => HasExecutionFailure(GradingFailed(r))
<1>1. CASE Inherited
  <2>1. GradingFailed(r) = [r EXCEPT !.status = prior.status, !.history = @ + 1]
    BY <1>1 DEF GradingFailed
  <2>2. GradingFailed(r).status = prior.status /\ GradingFailed(r).phase = r.phase
    BY <2>1 DEF Row
  <2>3. prior.status \in ExecutionFacts
    BY <1>1 DEF Inherited, HasExecutionFailure
  <2> QED
    BY <1>1, <2>2, <2>3 DEF HasExecutionFailure, GradingError
<1>2. CASE ~ Inherited /\ HasExecutionFailure(r)
  <2>1. GradingFailed(r) = [r EXCEPT !.history = @ + 1]
    BY <1>2 DEF GradingFailed
  <2>2. SameStanding(GradingFailed(r), r)
    BY <2>1 DEF Row, SameStanding
  <2> QED
    BY <1>2, <2>2, StandingKept
<1> QED
  BY <1>1, <1>2

-----------------------------------------------------------------------------
\* Before any run, and at the start of one: a re-grade is seeded with the
\* phase of the failure it hands on.
LEMMA StartGuarded ==
  /\ Init => FailureGuarded
  /\ \A m \in Modes, p \in Row : Start(m, p) => FailureGuarded'
<1>1. ~ HasExecutionFailure(FreshRow)
  BY DEF FreshRow, HasExecutionFailure, ExecutionFacts
<1>2. Init => FailureGuarded
  BY <1>1 DEF Init, FailureGuarded, Inherited, HasPrior
<1>3. ASSUME NEW m \in Modes, NEW p \in Row, Start(m, p) PROVE FailureGuarded'
  <2>1. pc' = "setup" /\ mode' = m /\ prior' = p
        /\ res' = IF m \in {"regrade", "copy"} THEN Seeded(p) ELSE FreshRow
    BY <1>3 DEF Start, Begin
  <2>2. HasExecutionFailure(p) =>
          Seeded(p).phase = p.phase /\ (p.status = "ERROR" => p.phase # "grading")
    BY DEF Seeded, HasExecutionFailure, GradingError, Inheriting, FreshRow
  <2>3. Seeded(p).status = "FAILURE"
    BY DEF Seeded, Inheriting, FreshRow
  <2>4. ~ HasExecutionFailure(res')
    BY <1>1, <2>1, <2>3 DEF HasExecutionFailure, ExecutionFacts
  <2> QED
    BY <2>1, <2>2, <2>4 DEF FailureGuarded, Inherited, HasPrior
<1> QED
  BY <1>2, <1>3

FailureKept == HasExecutionFailure(res) => HasExecutionFailure(res')

\* A step that does not touch what the guard is about.
LEMMA StillStep ==
  ASSUME FInv, UNCHANGED <<runVars, pc, res, exc>>
  PROVE  FailureGuarded' /\ FailureKept
BY DEF FInv, FailureGuarded, FailureKept, runVars, HasAgent, HasPrior, Inherited,
       HasExecutionFailure, GradingError, LimitNoted

\* A failure of this run is followed by an exception or past the verdict.
Followed ==
  \/ pc \in {"leave", "verdict"} /\ exc # "none"
  \/ pc \in {"postrun", "stop", "clean", "done"}

\* A step that leaves the standing of the row alone keeps the guard, if it
\* goes on to what may follow a failure.
LEMMA QuietStep ==
  ASSUME FInv, UNCHANGED runVars, SameStanding(res, res'), pc' # "diag",
         pc' \in {"start", "window", "talk", "backoff", "unwind"} => HasAgent,
         \/ pc \in {"idle", "setup", "start", "prerun", "window", "talk", "backoff", "unwind"}
         \/ (LimitNoted \/ pc # "grade") /\ (exc # "none" \/ pc = "grade" \/ pc \in {"postrun", "stop", "clean", "done"}) => Followed'
  PROVE  FailureGuarded' /\ FailureKept
<1>1. HasExecutionFailure(res) <=> HasExecutionFailure(res')
  BY StandingKept
<1>2. (HasAgent' <=> HasAgent) /\ (Inherited' <=> Inherited) /\ prior' = prior
  BY DEF runVars, HasAgent, Inherited, HasPrior
<1>3. HasExecutionFailure(res) /\ ~ Inherited => Followed'
  BY DEF FInv, FailureGuarded
<1> QED
  BY <1>1, <1>2, <1>3 DEF FInv, FailureGuarded, FailureKept, Followed, SameStanding

\* The window closes: a failure is recorded together with the exception that
\* ended the attempt, or with the run limit noted.
LEMMA CloseGuarded ==
  ASSUME FInv, CloseWindow
  PROVE  FailureGuarded' /\ FailureKept
<1>1. pc = "unwind" /\ HasAgent /\ ~ Inherited /\ res \in Row
  BY DEF CloseWindow, At, FInv, TypeOK, ResultTyped, FailureGuarded, HasAgent, HasPrior, Inherited
<1>2. HasAgent' /\ ~ Inherited' /\ ~ HasExecutionFailure(res)
  BY <1>1 DEF CloseWindow, FInv, FailureGuarded, runVars, HasAgent, HasPrior, Inherited
<1>3. ASSUME NEW x \in BOOLEAN, NEW e \in BOOLEAN, NEW o \in BOOLEAN, Absorb(x, e, o)
      PROVE  FailureGuarded'
  <2>1. CASE o
    <3> DEFINE r == [res EXCEPT !.turns = Append(@, returned), !.early = e, !.maxTurns = @ \/ x]
    <3>1. res' = Fact(r, "BUDGET_EXCEEDED")
      BY <1>3, <2>1 DEF Absorb
    <3>2. res'.status = "BUDGET_EXCEEDED"
      BY <1>1, <3>1 DEF Fact, Row
    <3>3. \/ pc' = "grade"
          \/ pc' = "leave" /\ exc' = "budget"
      BY <1>3, <2>1 DEF Absorb
    <3> QED
      BY <1>2, <3>2, <3>3 DEF FailureGuarded, LimitNoted
  <2>2. CASE ~ o
    <3>1. SameStanding(res, res') /\ pc' \in {"grade", "leave"}
      BY <1>1, <1>3, <2>2 DEF Absorb, Row, SameStanding
    <3>2. ~ HasExecutionFailure(res')
      BY <1>2, <3>1, StandingKept
    <3> QED
      BY <1>2, <3>1, <3>2 DEF FailureGuarded
  <2> QED
    BY <2>1, <2>2
<1>4. CASE exc = "none"
  BY <1>2, <1>3, <1>4 DEF CloseWindow, FailureKept
<1>5. CASE exc # "none"
  <2>1. pc' \in {"diag", "leave"} /\ exc' # "none"
    BY <1>5 DEF CloseWindow, Evidence, EvidenceOfCancel
  <2> QED
    BY <1>2, <2>1 DEF FailureGuarded, FailureKept
<1> QED
  BY <1>4, <1>5

\* Setting up and pre_run.
LEMMA SetUpGuarded ==
  ASSUME FInv, SetUp
  PROVE  FailureGuarded' /\ FailureKept
<1>1. EnterLoop => SameStanding(res, res')
  BY DEF EnterLoop, FInv, TypeOK, ResultTyped, Row, SameStanding
<1>2. CASE SetupSandbox
  <2>1. SameStanding(res, res')
    BY <1>2, <1>1 DEF SetupSandbox, resultVars, SameStanding
  <2> QED
    BY <1>2, <2>1, QuietStep DEF SetupSandbox, At, CancelAt, EnterLoop, Followed, flowVars
<1>3. CASE SetupFails
  <2>1. SameStanding(res, res')
    BY <1>3 DEF SetupFails, resultVars, SameStanding
  <2> QED
    BY <1>3, <2>1, QuietStep DEF SetupFails, At, CancelAt, AbortSetup, Followed, flowVars
<1>4. CASE StartAgent
  <2>1. SameStanding(res, res')
    BY <1>4 DEF StartAgent, resultVars, SameStanding
  <2> QED
    BY <1>4, <2>1, QuietStep DEF StartAgent, At, CancelAt, Followed, flowVars
<1>5. CASE StartAgentFails
  <2>1. SameStanding(res, res')
    BY <1>5 DEF StartAgentFails, resultVars, SameStanding
  <2> QED
    BY <1>5, <2>1, QuietStep DEF StartAgentFails, At, CancelAt, AbortSetup, Followed, flowVars
<1>6. CASE PreRun
  <2>1. SameStanding(res, res')
    BY <1>6, <1>1 DEF PreRun, resultVars, SameStanding
  <2> QED
    BY <1>6, <2>1, QuietStep DEF PreRun, At, CancelAt, EnterLoop, Followed, flowVars
<1>7. CASE PreRunFails
  <2>1. SameStanding(res, res')
    BY <1>7 DEF PreRunFails, resultVars, SameStanding
  <2> QED
    BY <1>7, <2>1, QuietStep DEF PreRunFails, At, CancelAt, AbortSetup, Followed, flowVars
<1>8. CASE SetupCancelled
  <2>1. SameStanding(res, res')
    BY <1>8 DEF SetupCancelled, resultVars, SameStanding
  <2> QED
    BY <1>8, <2>1, QuietStep DEF SetupCancelled, At, CancelAt, AbortSetup, Followed, flowVars
<1> QED
  BY <1>2, <1>3, <1>4, <1>5, <1>6, <1>7, <1>8 DEF SetUp

\* The conversation: a failure is recorded with the exception that ended it,
\* or with the run limit noted.
LEMMA TalkGuarded ==
  ASSUME FInv, Talk
  PROVE  FailureGuarded' /\ FailureKept
<1>1. res \in Row
  BY DEF FInv, TypeOK, ResultTyped
<1>2. CASE OpenWindow
  <2>1. SameStanding(res, res')
    BY <1>2 DEF OpenWindow, resultVars, SameStanding
  <2> QED
    BY <1>2, <2>1, QuietStep DEF OpenWindow, At, CancelAt, FInv, FailureGuarded, Followed, flowVars
<1>3. CASE WindowRefused
  <2>1. SameStanding(res, res')
    BY <1>3 DEF WindowRefused, resultVars, SameStanding
  <2> QED
    BY <1>3, <2>1, QuietStep DEF WindowRefused, At, CancelAt, Followed, flowVars
<1>4. CASE TurnReturns
  <2>1. SameStanding(res, res')
    BY <1>4 DEF TurnReturns, resultVars, SameStanding
  <2> QED
    BY <1>4, <2>1, QuietStep DEF TurnReturns, At, CancelAt, FInv, FailureGuarded, Followed, flowVars
<1>5. ASSUME NEW e \in {"crash", "turnTimeout"}, NEW parked \in BOOLEAN, NEW retry \in BOOLEAN, TurnFails(e, parked, retry) PROVE FailureGuarded' /\ FailureKept
  <2>1. SameStanding(res, res')
    BY <1>5, <1>1, DrainedStanding DEF TurnFails, resultVars, SameStanding
  <2> QED
    BY <1>5, <2>1, QuietStep DEF TurnFails, At, CancelAt, FInv, FailureGuarded, Followed, flowVars
<1>6. ASSUME NEW parked \in BOOLEAN, TurnCancelled(parked) PROVE FailureGuarded' /\ FailureKept
  <2>1. SameStanding(res, res')
    BY <1>6 DEF TurnCancelled, resultVars, SameStanding
  <2> QED
    BY <1>6, <2>1, QuietStep DEF TurnCancelled, At, CancelAt, FInv, FailureGuarded, Followed, flowVars
<1>7. CASE TurnSwallowsCancel
  BY <1>7, StillStep DEF TurnSwallowsCancel, flowVars, resultVars
<1>8. CASE BackoffElapses
  <2>1. SameStanding(res, res')
    BY <1>8 DEF BackoffElapses, resultVars, SameStanding
  <2> QED
    BY <1>8, <2>1, QuietStep DEF BackoffElapses, At, CancelAt, FInv, FailureGuarded, Followed, flowVars
<1>9. CASE BackoffCancelled
  <2>1. SameStanding(res, res')
    BY <1>9 DEF BackoffCancelled, resultVars, SameStanding
  <2> QED
    BY <1>9, <2>1, QuietStep DEF BackoffCancelled, At, CancelAt, FInv, FailureGuarded, Followed, flowVars
<1>10. CASE CloseWindow
  BY <1>10, CloseGuarded
<1>11. CASE WindowCancelled
  <2>1. SameStanding(res, res')
    BY <1>11, <1>1, NotEvaluatedStanding DEF WindowCancelled, EvidenceOfCancel, SameStanding
  <2> QED
    BY <1>11, <2>1, QuietStep DEF WindowCancelled, At, CancelAt, EvidenceOfCancel, Followed, flowVars
<1> QED
  BY <1>2, <1>3, <1>4, <1>5, <1>6, <1>7, <1>8, <1>9, <1>10, <1>11 DEF Talk

\* Grading: a noted run limit is raised; diagnostics that fail leave the
\* failure they are about.
LEMMA JudgeGuarded ==
  ASSUME FInv, Judge
  PROVE  FailureGuarded' /\ FailureKept
<1>1. res \in Row
  BY DEF FInv, TypeOK, ResultTyped
<1>2. ASSUME NEW v \in Vectors, Grade(v) PROVE FailureGuarded' /\ FailureKept
  <2>1. SameStanding(res, res')
    BY <1>2, <1>1 DEF Grade, Row, SameStanding
  <2> QED
    BY <1>2, <2>1, QuietStep DEF Grade, At, CancelAt, Followed, flowVars
<1>3. ASSUME NEW e \in {"grading", "error"}, NEW v \in Vectors, GradeFails(e, v) PROVE FailureGuarded' /\ FailureKept
  <2>1. SameStanding(res, res')
    BY <1>3, <1>1 DEF GradeFails, Row, SameStanding
  <2> QED
    BY <1>3, <2>1, QuietStep DEF GradeFails, At, CancelAt, Followed, flowVars
<1>4. CASE GradeCancelled
  <2>1. SameStanding(res, res')
    BY <1>4, <1>1, NotEvaluatedStanding DEF GradeCancelled, EvidenceOfCancel, SameStanding
  <2> QED
    BY <1>4, <2>1, QuietStep DEF GradeCancelled, At, CancelAt, EvidenceOfCancel, Followed, flowVars
<1>5. CASE DiagChecked
  <2>1. SameStanding(res, res')
    BY <1>5, <1>1 DEF DiagChecked, Row, SameStanding
  <2> QED
    BY <1>5, <2>1, QuietStep DEF DiagChecked, At, CancelAt, FInv, FailureGuarded, Followed, flowVars
<1>6. CASE DiagFails
  <2>1. GradingFailed(res) \in Row
    BY <1>1, GradingFailedTyped DEF FInv, TypeOK, RunTyped
  <2>2. SameStanding(res', GradingFailed(res))
    BY <1>6, <2>1, NotEvaluatedStanding DEF DiagFails
  <2>3. /\ Inherited => GradingFailed(res).phase = res.phase
        /\ HasExecutionFailure(res) => HasExecutionFailure(GradingFailed(res))
    BY <1>1, GradingFailedStanding DEF FInv, FailureGuarded
  <2>4. FailureKept
    BY <2>2, <2>3, StandingKept DEF FailureKept
  <2>5. pc' = "leave" /\ exc' # "none" /\ UNCHANGED runVars
    BY <1>6 DEF DiagFails, At, flowVars, FInv, FailureGuarded
  <2>6. (Inherited' <=> Inherited) /\ prior' = prior
    BY <2>5 DEF runVars, Inherited, HasPrior
  <2>7. FailureGuarded'
    BY <2>2, <2>3, <2>5, <2>6 DEF FInv, FailureGuarded, SameStanding
  <2> QED
    BY <2>4, <2>7
<1>7. CASE DiagCancelled
  <2>1. SameStanding(res, res')
    BY <1>7, <1>1, NotEvaluatedStanding DEF DiagCancelled, resultVars, SameStanding
  <2> QED
    BY <1>7, <2>1, QuietStep DEF DiagCancelled, At, CancelAt, FInv, FailureGuarded, Followed, flowVars
<1> QED
  BY <1>2, <1>3, <1>4, <1>5, <1>6, <1>7 DEF Judge

\* The handlers: a verdict is given only to a run that raised nothing, and an
\* inherited failure is the verdict of a re-grade.
LEMMA VerdictGuarded ==
  ASSUME FInv, Verdict
  PROVE  FailureGuarded' /\ FailureKept
<1>1. res \in Row /\ prior \in Row /\ pc = "verdict"
  BY DEF Verdict, FInv, TypeOK, RunTyped, ResultTyped
<1>2. pc' \in {"postrun", "stop", "clean"} /\ UNCHANGED runVars
  BY DEF Verdict, TearDown
<1>3. (Inherited' <=> Inherited) /\ prior' = prior
  BY <1>2 DEF runVars, Inherited, HasPrior
<1> DEFINE Safe == /\ Inherited /\ prior.status = "ERROR" => res'.phase # "grading"
                   /\ FailureKept
<1>4. ASSUME Raised = "none" PROVE Safe
  <2>1. res' = [res EXCEPT !.status = TerminalStatus] /\ exc = "none"
    BY <1>4 DEF Verdict, Raised
  <2>2. res'.phase = res.phase /\ res'.status = TerminalStatus
    BY <1>1, <2>1 DEF Row
  <2>3. Inherited => res'.status = prior.status /\ prior.status \in ExecutionFacts
    BY <2>2 DEF TerminalStatus, Inherited, HasExecutionFailure
  <2>4. ~ Inherited => ~ HasExecutionFailure(res)
    BY <1>1, <2>1 DEF FInv, FailureGuarded
  <2> QED
    BY <2>2, <2>3, <2>4 DEF FInv, FailureGuarded, FailureKept, HasExecutionFailure, GradingError
<1>5. ASSUME Raised = "cancel" PROVE Safe
  BY <1>5 DEF Verdict, FInv, FailureGuarded, FailureKept, HasExecutionFailure, GradingError
<1>6. ASSUME Raised = "grading" PROVE Safe
  <2>1. res' = GradingFailed(res)
    BY <1>6 DEF Verdict
  <2>2. /\ Inherited => GradingFailed(res).phase = res.phase
        /\ HasExecutionFailure(res) => HasExecutionFailure(GradingFailed(res))
    BY <1>1, GradingFailedStanding DEF FInv, FailureGuarded
  <2> QED
    BY <2>1, <2>2, StandingKept DEF FInv, FailureGuarded, FailureKept, SameStanding
<1>7. ASSUME Raised \notin {"none", "cancel", "grading"} PROVE Safe
  <2>1. PICK s \in {"TIMEOUT", "BUDGET_EXCEEDED", "ERROR"} :
          SameStanding(res', Fact(res, s))
    <3>1. Fact(res, "TIMEOUT") \in Row
      BY <1>1, FactTyped DEF FinalStatus
    <3>2. SameStanding(Drained(Fact(res, "TIMEOUT"), agent), Fact(res, "TIMEOUT"))
      BY <3>1, DrainedStanding
    <3> QED
      BY <1>7, <3>2 DEF Verdict, SameStanding
  <2>2. Fact(res, s).phase = "execution" /\ HasExecutionFailure(Fact(res, s))
    BY <1>1, FactStanding DEF ExecutionFacts
  <2> QED
    BY <2>1, <2>2, StandingKept DEF FailureKept, SameStanding
<1>8. Safe
  BY <1>4, <1>5, <1>6, <1>7
<1> QED
  BY <1>2, <1>3, <1>8 DEF FailureGuarded

\* The end of the watched block and the teardown.
LEMMA EndGuarded ==
  ASSUME FInv, End
  PROVE  FailureGuarded' /\ FailureKept
<1>1. res \in Row
  BY DEF FInv, TypeOK, ResultTyped
<1>2. CASE LeaveWatch
  <2> DEFINE both == exc = "grading" /\ Fired /\ ~ HasPrior
  <2>1. CASE both
    <3>1. res' = GradingFailed(Fact(res, "TIMEOUT")) /\ exc' = "timeout" /\ pc' = "verdict"
          /\ ~ Inherited /\ UNCHANGED runVars
      BY <1>2, <2>1 DEF LeaveWatch, Inherited
    <3>2. HasExecutionFailure(Fact(res, "TIMEOUT")) /\ Fact(res, "TIMEOUT") \in Row
      BY <1>1, FactStanding, FactTyped DEF ExecutionFacts, FinalStatus
    <3>3. HasExecutionFailure(res')
      BY <3>1, <3>2, GradingFailedStanding
    <3> QED
      BY <3>1, <3>3 DEF FailureGuarded, FailureKept, runVars, Inherited, HasPrior
  <2>2. CASE ~ both
    <3>1. SameStanding(res, res')
      BY <1>2, <2>2 DEF LeaveWatch, SameStanding
    <3> QED
      BY <1>2, <3>1, QuietStep DEF LeaveWatch, Followed
  <2> QED
    BY <2>1, <2>2
<1>3. CASE Verdict
  BY <1>3, VerdictGuarded
<1>4. CASE PostRun
  <2>1. SameStanding(res, res')
    BY <1>4, <1>1 DEF PostRun, Row, SameStanding
  <2> QED
    BY <1>4, <2>1, QuietStep DEF PostRun, At, CancelAt, TearDown, Followed, flowVars
<1>5. CASE PostRunRaises
  <2>1. /\ res' = GradingFailed(res) \/ res' = res
        /\ pc' \in {"stop", "clean"} /\ UNCHANGED runVars
    BY <1>5 DEF PostRunRaises, TearDown
  <2>2. /\ Inherited => GradingFailed(res).phase = res.phase
        /\ HasExecutionFailure(res) => HasExecutionFailure(GradingFailed(res))
    BY <1>1, GradingFailedStanding DEF FInv, FailureGuarded
  <2>3. (Inherited' <=> Inherited) /\ prior' = prior
    BY <2>1 DEF runVars, Inherited, HasPrior
  <2>4. FailureKept
    BY <2>1, <2>2, StandingKept DEF FailureKept, SameStanding
  <2> QED
    BY <2>1, <2>2, <2>3, <2>4 DEF FInv, FailureGuarded
<1>6. CASE PostRunCancelled
  <2>1. SameStanding(res, res')
    BY <1>6 DEF PostRunCancelled, resultVars, SameStanding
  <2> QED
    BY <1>6, <2>1, QuietStep DEF PostRunCancelled, At, CancelAt, TearDown, Followed, flowVars
<1>7. CASE StopAgent
  <2>1. SameStanding(res, res')
    BY <1>7 DEF StopAgent, resultVars, SameStanding
  <2> QED
    BY <1>7, <2>1, QuietStep DEF StopAgent, At, CancelAt, Followed, flowVars
<1>8. CASE CleanupCancelled
  <2>1. SameStanding(res, res')
    BY <1>8 DEF CleanupCancelled, resultVars, SameStanding
  <2> QED
    BY <1>8, <2>1, QuietStep DEF CleanupCancelled, At, CancelAt, Followed, flowVars
<1>9. CASE Finalize
  <2>1. SameStanding(res, res')
    BY <1>9, <1>1 DEF Finalize, Row, SameStanding
  <2> QED
    BY <1>9, <2>1, QuietStep DEF Finalize, At, CancelAt, Followed, flowVars
<1> QED
  BY <1>2, <1>3, <1>4, <1>5, <1>6, <1>7, <1>8, <1>9 DEF End

\* The timer thread and the loop's callbacks.
LEMMA ThreadGuarded ==
  ASSUME FInv, Thread \/ Interrupt
  PROVE  FailureGuarded' /\ FailureKept
<1>1. CASE TimerFires
  BY <1>1, StillStep DEF TimerFires, flowVars, resultVars
<1>2. CASE TimerKills
  BY <1>2, StillStep DEF TimerKills, flowVars, resultVars
<1>3. CASE TimerPosts
  BY <1>3, StillStep DEF TimerPosts, flowVars, resultVars
<1>4. CASE LoopCancels
  BY <1>4, StillStep DEF LoopCancels, flowVars, resultVars
<1>5. CASE Interrupt
  BY <1>5, StillStep DEF Interrupt, flowVars, resultVars
<1> QED
  BY <1>1, <1>2, <1>3, <1>4, <1>5 DEF Thread

-----------------------------------------------------------------------------
\* Within a run nothing downgrades an execution failure once it is recorded:
\* whatever raises, times out or cancels after _record_error wrote TIMEOUT,
\* ERROR or a budget, the row run() persists still reports a failed execution.
THEOREM ExecutionFailureKept == Spec => FactKept
<1>1. Init => FInv
  BY InitTyped, StartGuarded DEF FInv
<1>2. FInv /\ Step => FailureGuarded' /\ FailureKept
  BY SetUpGuarded, TalkGuarded, JudgeGuarded, EndGuarded, ThreadGuarded DEF Step
<1>3. FInv /\ UNCHANGED vars => FailureGuarded' /\ FailureKept
  BY StillStep DEF vars, resultVars, flowVars
<1>4. FInv /\ [Next]_vars => FInv'
  <2> SUFFICES ASSUME FInv, [Next]_vars PROVE FInv'
    OBVIOUS
  <2>1. TypeOK'
    BY TypeStep DEF FInv
  <2>2. ASSUME NEW m \in Modes, NEW p \in Row, Start(m, p) PROVE FailureGuarded'
    BY <2>2, StartGuarded
  <2>3. FailureGuarded'
    BY <1>2, <1>3, <2>2, FreshTyped, ConstantsAssumption DEF Next, Finished
  <2> QED
    BY <2>1, <2>3 DEF FInv
<1>5. FInv /\ [Next]_vars => [Running => FailureKept]_vars
  <2>1. ASSUME NEW m \in Modes, NEW p \in Row, Start(m, p) PROVE ~ Running
    BY <2>1 DEF Start, Begin, Running
  <2> QED
    BY <1>2, <1>3, <2>1, FreshTyped, ConstantsAssumption DEF Next, Finished
<1>6. [Running => FailureKept]_vars
        => [Running /\ HasExecutionFailure(res) => HasExecutionFailure(res')]_vars
  BY DEF FailureKept
<1> QED
  BY <1>1, <1>4, <1>5, <1>6, PTL DEF Spec, FactKept

-----------------------------------------------------------------------------
(* The deadline.                                                           *)

\* Nothing but the handlers leaves "verdict".
LEMMA OnlyVerdictLeaves ==
  ASSUME Step, pc = "verdict", pc' # "verdict"
  PROVE  Verdict
<1>1. ~ SetUp
  BY DEF SetUp, SetupSandbox, SetupFails, StartAgent, StartAgentFails, PreRun,
         PreRunFails, SetupCancelled, At, CancelAt
<1>2. ~ Talk
  BY DEF Talk, OpenWindow, WindowRefused, TurnReturns, TurnFails, TurnCancelled,
         TurnSwallowsCancel, BackoffElapses, BackoffCancelled, CloseWindow,
         WindowCancelled, At, CancelAt
<1>3. ~ Judge
  BY DEF Judge, Grade, GradeFails, GradeCancelled, DiagChecked, DiagFails,
         DiagCancelled, At, CancelAt
<1>4. End => Verdict
  BY DEF End, LeaveWatch, PostRun, PostRunRaises, PostRunCancelled, StopAgent,
         CleanupCancelled, Finalize, At, CancelAt
<1>5. ~ Thread /\ ~ Interrupt
  BY DEF Thread, TimerFires, TimerKills, TimerPosts, LoopCancels, Interrupt
<1> QED
  BY <1>1, <1>2, <1>3, <1>4, <1>5 DEF Step

\* Once the deadline has fired, the handlers record an execution fact: of the
\* deadline itself, of a failure that is already on its way, or, where a grade
\* was cut, of the run that is graded.
LEMMA VerdictUnderDeadline ==
  ASSUME TypeOK, Verdict, Fired, exc # "cancel"
  PROVE  res'.status \in ExecutionFacts
<1>1. res \in Row /\ exc \in Exceptions
  BY DEF TypeOK, ResultTyped, FlowTyped
<1>2. Raised \notin {"none", "cancel"}
  BY DEF Raised
<1>3. CASE Raised = "grading"
  <2>1. res' = GradingFailed(res)
    BY <1>3 DEF Verdict
  <2> QED
    BY <1>1, <2>1 DEF GradingFailed, Inherited, HasExecutionFailure, ExecutionFacts, Row
<1>4. CASE Raised # "grading"
  <2>1. \A s \in {"TIMEOUT", "BUDGET_EXCEEDED", "ERROR"} : Fact(res, s).status = s
    BY <1>1 DEF Fact, Row
  <2>2. Fact(res, "TIMEOUT") \in Row
    BY <1>1, FactTyped DEF FinalStatus
  <2>3. Drained(Fact(res, "TIMEOUT"), agent).status = "TIMEOUT"
    BY <2>1, <2>2 DEF Drained, Row
  <2>4. res' \in {Drained(Fact(res, "TIMEOUT"), agent), Fact(res, "BUDGET_EXCEEDED"),
                  Fact(res, "ERROR")}
    BY <1>2, <1>4 DEF Verdict
  <2> QED
    BY <2>1, <2>3, <2>4 DEF ExecutionFacts
<1> QED
  BY <1>3, <1>4

\* A deadline that fired before the handlers of run() excludes every graded
\* status, whether it is noticed by a cancellation, by an exception of the
\* turn it cut, or by nothing but the watchdog's flag.
THEOREM DeadlineRespected == Spec => DeadlineHolds
<1>1. Init => TypeOK
  BY InitTyped
<1>2. TypeOK /\ [Next]_vars => TypeOK'
  BY TypeStep
<1>3. TypeOK /\ [Next]_vars
        => [pc = "verdict" /\ pc' # "verdict" /\ Fired /\ exc # "cancel"
              => res'.status \in ExecutionFacts]_vars
  <2> SUFFICES ASSUME TypeOK, Next, pc = "verdict", pc' # "verdict", Fired, exc # "cancel"
               PROVE  res'.status \in ExecutionFacts
    OBVIOUS
  <2>1. Step
    BY DEF Next, Start, Begin, Finished
  <2> QED
    BY <2>1, OnlyVerdictLeaves, VerdictUnderDeadline
<1> QED
  BY <1>1, <1>2, <1>3, PTL DEF Spec, DeadlineHolds
-----------------------------------------------------------------------------
(* How a run ends: what a cancellation from outside reaches, and what the  *)
(* teardown has done by the time run() is left.  Both are proved for tasks *)
(* without a task_timeout; with one, the watchdog's late cancellation      *)
(* breaks TornDown.  Then the numbering of retried turns, for every task.  *)

\* Where an exception that is a cancellation can be on its way.
Unwinding == {"unwind", "leave", "verdict", "postrun", "stop", "clean", "done"}

\* Without a watchdog nobody fires, kills or cancels but from outside, and a
\* cancellation that was asked for is waiting at the await it will raise in.
Unwatched ==
  /\ timer = "off" /\ ~ agent.killed
  /\ cancel => Suspended /\ interrupts > 0

\* A cancellation that was asked for is waiting, on its way, held back by the
\* teardown, or what run() ended with.
CancellationHeld ==
  /\ interrupts > 0 =>
       /\ pc # "idle"
       /\ \/ cancel \/ exc = "cancel" \/ interrupt # "none"
          \/ outcome \in {"cancelled", "raised"}
  /\ exc = "cancel" => pc \in Unwinding
  /\ interrupt # "none" => pc \in {"stop", "clean", "done"}
  /\ pc # "done" => outcome = "none"
  /\ pc = "done" /\ interrupts > 0 => outcome \in {"cancelled", "raised"}

\* The agent is stopped before the sandbox is released.
StoppedFirst == pc = "clean" => agent.state \in {"none", "stopped"}

EndInv == TypeOK /\ Unwatched /\ CancellationHeld /\ StoppedFirst /\ TornDown

\* The turn that is in progress is the first, and a failed attempt gave its
\* number back (_begin_turn, discard_pending_turn).
TurnNumbered ==
  /\ pc \in {"idle", "setup", "start", "prerun", "window", "backoff"} => agent.iteration = 0
  /\ pc = "talk" => agent.iteration = 1 /\ agent.bumped



-----------------------------------------------------------------------------
Ended == Unwatched /\ CancellationHeld /\ StoppedFirst /\ TornDown

\* Setup and pre_run: a cancellation goes straight to the handlers.
LEMMA SetUpEnded ==
  ASSUME EndInv, ~ TaskTimeout, SetUp
  PROVE  Ended'
<1> USE DEF EndInv, Ended, At, CancelAt
<1>1. agent \in Agents /\ exc \in Exceptions /\ interrupts \in Nat
  BY DEF TypeOK, TalkTyped, FlowTyped, WatchTyped
<1>2. CASE SetupSandbox
  <2>1. timer' = "off" /\ ~ agent'.killed /\ pc' \in {"start", "window", "grade", "prerun"}
    BY <1>1, <1>2 DEF SetupSandbox, EnterLoop, Watched, Unwatched, Agents
  <2>2. pc = "setup" /\ ~ cancel /\ UNCHANGED <<cancel, interrupts, flowVars>>
    BY <1>2 DEF SetupSandbox, Suspended
  <2> QED BY <2>1, <2>2 DEF Unwatched, CancellationHeld, StoppedFirst, TornDown, Unwinding, flowVars
<1>3. CASE SetupFails
  BY <1>1, <1>3 DEF SetupFails, AbortSetup, Unwatched, CancellationHeld, StoppedFirst, TornDown, Suspended,
     Unwinding, runVars, flowVars, talkVars, watchVars, tearVars
<1>4. CASE StartAgent
  BY <1>1, <1>4 DEF StartAgent, Agents, Unwatched, CancellationHeld, StoppedFirst, TornDown, Suspended,
     Unwinding, runVars, flowVars, talkVars, watchVars, tearVars
<1>5. CASE StartAgentFails
  BY <1>1, <1>5 DEF StartAgentFails, AbortSetup, Unwatched, CancellationHeld, StoppedFirst, TornDown, Suspended,
     Unwinding, runVars, flowVars, talkVars, watchVars, tearVars
<1>6. CASE PreRun
  BY <1>1, <1>6 DEF PreRun, EnterLoop, Watched, Unwatched, CancellationHeld, StoppedFirst, TornDown, Suspended,
     Unwinding, runVars, flowVars, talkVars, watchVars, tearVars
<1>7. CASE PreRunFails
  BY <1>1, <1>7 DEF PreRunFails, AbortSetup, Unwatched, CancellationHeld, StoppedFirst, TornDown, Suspended,
     Unwinding, runVars, flowVars, talkVars, watchVars, tearVars
<1>8. CASE SetupCancelled
  BY <1>1, <1>8 DEF SetupCancelled, AbortSetup, Unwatched, CancellationHeld, StoppedFirst, TornDown, Suspended,
     Unwinding, runVars, flowVars, talkVars, watchVars, tearVars
<1> QED BY <1>2, <1>3, <1>4, <1>5, <1>6, <1>7, <1>8 DEF SetUp

\* The conversation: nothing but a kill lets an SDK absorb a cancellation.
LEMMA TalkEnded ==
  ASSUME EndInv, ~ TaskTimeout, Talk
  PROVE  Ended'
<1> USE DEF EndInv, Ended, At, CancelAt
<1>1. agent \in Agents /\ exc \in Exceptions /\ interrupts \in Nat
  BY DEF TypeOK, TalkTyped, FlowTyped, WatchTyped
<1>2. CASE OpenWindow
  BY <1>1, <1>2 DEF OpenWindow, BeginTurn, Agents, Unwatched, CancellationHeld, StoppedFirst, TornDown, Suspended,
     Unwinding, runVars, flowVars, talkVars, watchVars, tearVars
<1>3. CASE WindowRefused
  BY <1>1, <1>3 DEF WindowRefused, Unwatched, CancellationHeld, StoppedFirst, TornDown, Suspended,
     Unwinding, runVars, flowVars, talkVars, watchVars, tearVars
<1>4. CASE TurnReturns
  BY <1>1, <1>4 DEF TurnReturns, EndTurnOk, Agents, Unwatched, CancellationHeld, StoppedFirst, TornDown, Suspended,
     Unwinding, runVars, flowVars, talkVars, watchVars, tearVars
<1>5. ASSUME NEW e \in {"crash", "turnTimeout"}, NEW parked \in BOOLEAN, NEW retry \in BOOLEAN,
             TurnFails(e, parked, retry)
      PROVE  Ended'
  BY <1>1, <1>5 DEF TurnFails, DiscardPending, Agents, Unwatched, CancellationHeld, StoppedFirst, TornDown, Suspended,
     Unwinding, runVars, flowVars, talkVars, watchVars, tearVars
<1>6. ASSUME NEW parked \in BOOLEAN, TurnCancelled(parked)
      PROVE  Ended'
  BY <1>1, <1>6 DEF TurnCancelled, Agents, Unwatched, CancellationHeld, StoppedFirst, TornDown, Suspended,
     Unwinding, runVars, flowVars, talkVars, watchVars, tearVars
<1>7. CASE TurnSwallowsCancel
  BY <1>1, <1>7 DEF TurnSwallowsCancel, Unwatched, CancellationHeld, StoppedFirst, TornDown, Suspended,
     Unwinding, runVars, flowVars, talkVars, watchVars, tearVars
<1>8. CASE BackoffElapses
  BY <1>1, <1>8 DEF BackoffElapses, BeginTurn, Agents, Unwatched, CancellationHeld, StoppedFirst, TornDown, Suspended,
     Unwinding, runVars, flowVars, talkVars, watchVars, tearVars
<1>9. CASE BackoffCancelled
  BY <1>1, <1>9 DEF BackoffCancelled, Unwatched, CancellationHeld, StoppedFirst, TornDown, Suspended,
     Unwinding, runVars, flowVars, talkVars, watchVars, tearVars
<1>10. CASE CloseWindow
  BY <1>1, <1>10 DEF CloseWindow, Absorb, EvidenceOfCancel, Evidence, Fired, Unwatched, CancellationHeld, StoppedFirst, TornDown, Suspended,
     Unwinding, runVars, flowVars, talkVars, watchVars, tearVars
<1>11. CASE WindowCancelled
  BY <1>1, <1>11 DEF WindowCancelled, EvidenceOfCancel, Fired, Unwatched, CancellationHeld, StoppedFirst, TornDown, Suspended,
     Unwinding, runVars, flowVars, talkVars, watchVars, tearVars
<1> QED BY <1>2, <1>3, <1>4, <1>5, <1>6, <1>7, <1>8, <1>9, <1>10, <1>11 DEF Talk

\* Grading and diagnostics.
LEMMA JudgeEnded ==
  ASSUME EndInv, ~ TaskTimeout, Judge
  PROVE  Ended'
<1> USE DEF EndInv, Ended, At, CancelAt
<1>1. agent \in Agents /\ exc \in Exceptions /\ interrupts \in Nat
  BY DEF TypeOK, TalkTyped, FlowTyped, WatchTyped
<1>2. ASSUME NEW v \in Vectors, Grade(v)
      PROVE  Ended'
  BY <1>1, <1>2 DEF Grade, Unwatched, CancellationHeld, StoppedFirst, TornDown, Suspended,
     Unwinding, runVars, flowVars, talkVars, watchVars, tearVars
<1>3. ASSUME NEW e \in {"grading", "error"}, NEW v \in Vectors, GradeFails(e, v)
      PROVE  Ended'
  BY <1>1, <1>3 DEF GradeFails, Unwatched, CancellationHeld, StoppedFirst, TornDown, Suspended,
     Unwinding, runVars, flowVars, talkVars, watchVars, tearVars
<1>4. CASE GradeCancelled
  BY <1>1, <1>4 DEF GradeCancelled, EvidenceOfCancel, Fired, Unwatched, CancellationHeld, StoppedFirst, TornDown, Suspended,
     Unwinding, runVars, flowVars, talkVars, watchVars, tearVars
<1>5. CASE DiagChecked
  BY <1>1, <1>5 DEF DiagChecked, Unwatched, CancellationHeld, StoppedFirst, TornDown, Suspended,
     Unwinding, runVars, flowVars, talkVars, watchVars, tearVars
<1>6. CASE DiagFails
  BY <1>1, <1>6 DEF DiagFails, Unwatched, CancellationHeld, StoppedFirst, TornDown, Suspended,
     Unwinding, runVars, flowVars, talkVars, watchVars, tearVars
<1>7. CASE DiagCancelled
  BY <1>1, <1>7 DEF DiagCancelled, Fired, Unwatched, CancellationHeld, StoppedFirst, TornDown, Suspended,
     Unwinding, runVars, flowVars, talkVars, watchVars, tearVars
<1> QED BY <1>2, <1>3, <1>4, <1>5, <1>6, <1>7 DEF Judge

\* The handlers and the teardown.
LEMMA EndEnded ==
  ASSUME EndInv, ~ TaskTimeout, End
  PROVE  Ended'
<1> USE DEF EndInv, Ended, At, CancelAt
<1>1. agent \in Agents /\ exc \in Exceptions /\ interrupts \in Nat
  BY DEF TypeOK, TalkTyped, FlowTyped, WatchTyped
<1>2. CASE LeaveWatch
  BY <1>1, <1>2 DEF LeaveWatch, Fired, Unwatched, CancellationHeld, StoppedFirst, TornDown, Suspended,
     Unwinding, runVars, flowVars, talkVars, watchVars, tearVars
<1>3. CASE Verdict
  BY <1>1, <1>3 DEF Verdict, Raised, Fired, TearDown, DiscardPending, Agents, Unwatched, CancellationHeld, StoppedFirst, TornDown, Suspended,
     Unwinding, runVars, flowVars, talkVars, watchVars, tearVars
<1>4. CASE PostRun
  BY <1>1, <1>4 DEF PostRun, TearDown, Unwatched, CancellationHeld, StoppedFirst, TornDown, Suspended,
     Unwinding, runVars, flowVars, talkVars, watchVars, tearVars
<1>5. CASE PostRunRaises
  BY <1>1, <1>5 DEF PostRunRaises, TearDown, Unwatched, CancellationHeld, StoppedFirst, TornDown, Suspended,
     Unwinding, runVars, flowVars, talkVars, watchVars, tearVars
<1>6. CASE PostRunCancelled
  BY <1>1, <1>6 DEF PostRunCancelled, TearDown, Unwatched, CancellationHeld, StoppedFirst, TornDown, Suspended,
     Unwinding, runVars, flowVars, talkVars, watchVars, tearVars
<1>7. CASE StopAgent
  BY <1>1, <1>7 DEF StopAgent, Agents, Unwatched, CancellationHeld, StoppedFirst, TornDown, Suspended,
     Unwinding, runVars, flowVars, talkVars, watchVars, tearVars
<1>8. CASE CleanupCancelled
  BY <1>1, <1>8 DEF CleanupCancelled, Unwatched, CancellationHeld, StoppedFirst, TornDown, Suspended,
     Unwinding, runVars, flowVars, talkVars, watchVars, tearVars
<1>9. CASE Finalize
  <2>1. /\ pc = "clean" /\ ~ cancel /\ pc' = "done"
        /\ UNCHANGED <<mode, prior, gfail, exc, interrupt, timer, cancel, interrupts, agent>>
    BY <1>9 DEF Finalize, Unwatched, runVars, watchVars, talkVars
  <2>2. interrupts > 0 => outcome' \in {"cancelled", "raised"}
    <3>1. interrupts > 0 => exc = "cancel" \/ interrupt # "none"
      BY <2>1 DEF CancellationHeld
    <3>2. interrupt \in {"none", "cancel", "error"}
      BY DEF TypeOK, FlowTyped
    <3> QED BY <1>9, <3>1, <3>2 DEF Finalize
  <2>3. TornDown'
    <3>1. agent'.state \in {"none", "stopped"}
      BY <2>1 DEF StoppedFirst
    <3>2. Adopted' \/ sandbox' # "live"
      BY <1>9, <2>1 DEF Finalize, Adopted
    <3>3. written' \/ (HasPrior' /\ gfail')
      <4>1. written' = ~ (HasPrior /\ gfail)
        BY <1>9 DEF Finalize
      <4>2. (HasPrior' <=> HasPrior) /\ gfail' = gfail
        BY <2>1 DEF HasPrior
      <4> QED BY <4>1, <4>2
    <3> QED BY <3>1, <3>2, <3>3 DEF TornDown
  <2> QED BY <2>1, <2>2, <2>3 DEF Unwatched, CancellationHeld, StoppedFirst, Unwinding
<1> QED BY <1>2, <1>3, <1>4, <1>5, <1>6, <1>7, <1>8, <1>9 DEF End

\* No timer, no kill, no cancellation but from outside.
LEMMA ThreadEnded ==
  ASSUME EndInv, ~ TaskTimeout, Thread \/ Interrupt
  PROVE  Ended'
<1> USE DEF EndInv, Ended, At, CancelAt
<1>1. agent \in Agents /\ exc \in Exceptions /\ interrupts \in Nat
  BY DEF TypeOK, TalkTyped, FlowTyped, WatchTyped
<1>2. CASE TimerFires
  BY <1>1, <1>2 DEF TimerFires, Unwatched, CancellationHeld, StoppedFirst, TornDown, Suspended,
     Unwinding, runVars, flowVars, talkVars, watchVars, tearVars
<1>3. CASE TimerKills
  BY <1>1, <1>3 DEF TimerKills, Unwatched, CancellationHeld, StoppedFirst, TornDown, Suspended,
     Unwinding, runVars, flowVars, talkVars, watchVars, tearVars
<1>4. CASE TimerPosts
  BY <1>1, <1>4 DEF TimerPosts, Unwatched, CancellationHeld, StoppedFirst, TornDown, Suspended,
     Unwinding, runVars, flowVars, talkVars, watchVars, tearVars
<1>5. CASE LoopCancels
  BY <1>1, <1>5 DEF LoopCancels, Unwatched, CancellationHeld, StoppedFirst, TornDown, Suspended,
     Unwinding, runVars, flowVars, talkVars, watchVars, tearVars
<1>6. CASE Interrupt
  BY <1>1, <1>6 DEF Interrupt, Unwatched, CancellationHeld, StoppedFirst, TornDown, Suspended,
     Unwinding, runVars, flowVars, talkVars, watchVars, tearVars
<1> QED BY <1>2, <1>3, <1>4, <1>5, <1>6 DEF Thread

LEMMA EndInvStep == EndInv /\ ~ TaskTimeout /\ [Next]_vars => EndInv'
<1> SUFFICES ASSUME EndInv, ~ TaskTimeout, [Next]_vars PROVE EndInv'
  OBVIOUS
<1>1. TypeOK'
  BY TypeStep DEF EndInv
<1>2. ASSUME Step
      PROVE  Ended'
  BY <1>2, SetUpEnded, TalkEnded, JudgeEnded, EndEnded, ThreadEnded DEF Step
<1>3. ASSUME NEW m, NEW p, Start(m, p)
      PROVE  Ended'
  BY <1>3 DEF Start, Begin, EndInv, Ended, Unwatched, CancellationHeld, StoppedFirst,
     TornDown, Unwinding, NoAgent
<1>4. ASSUME UNCHANGED vars
      PROVE  Ended'
  BY <1>4 DEF vars, runVars, resultVars, flowVars, watchVars, talkVars, tearVars, EndInv,
     Ended, Unwatched, CancellationHeld, StoppedFirst, TornDown, Suspended, HasPrior, Adopted
<1>5. Ended'
  BY <1>2, <1>3, <1>4 DEF Next, Finished
<1> QED BY <1>1, <1>5 DEF EndInv, Ended

LEMMA EndInvHolds == ~ TaskTimeout => (Spec => []EndInv)
<1>1. Init => EndInv
  BY InitTyped DEF Init, EndInv, Unwatched, CancellationHeld, StoppedFirst, TornDown, NoAgent
<1>2. CASE ~ TaskTimeout
  <2>1. EndInv /\ [Next]_vars => EndInv'
    BY <1>2, EndInvStep
  <2> QED BY <1>1, <2>1, PTL DEF Spec
<1> QED BY <1>2

\* A cancellation from outside, at any await and any number of times, is
\* never absorbed by a run without a task_timeout: run() does not return.
THEOREM CancellationNeverLost == Spec => []CancellationSeen
<1>1. CASE TaskTimeout
  <2>1. CancellationSeen
    BY <1>1 DEF CancellationSeen
  <2>2. []CancellationSeen
    BY <2>1, PTL
  <2> QED BY <2>2
<1>2. CASE ~ TaskTimeout
  <2>1. EndInv => CancellationSeen
    BY DEF EndInv, CancellationHeld, CancellationSeen
  <2> QED BY <1>2, <2>1, EndInvHolds, PTL
<1> QED BY <1>1, <1>2

\* Without a task_timeout a run that nobody cancels ends torn down, whichever
\* of its steps failed: row written, agent stopped, sandbox released.
THEOREM TearDownComplete == ~ TaskTimeout => (Spec => []TornDown)
<1>1. EndInv => TornDown
  BY DEF EndInv
<1> QED BY <1>1, EndInvHolds, PTL

-----------------------------------------------------------------------------
(* The numbering of retried turns. *)

\* Steps that leave the agent and the turn in progress alone.
LEMMA SameTurn ==
  ASSUME TurnNumbered, UNCHANGED agent,
         pc' = "talk" => pc = "talk",
         pc' \in {"idle", "setup", "start", "prerun", "window", "backoff"} =>
           pc \in {"idle", "setup", "start", "prerun", "window", "backoff"}
  PROVE  TurnNumbered'
BY DEF TurnNumbered

LEMMA SetUpNumbered == TypeOK /\ TurnNumbered /\ SetUp => TurnNumbered'
<1> SUFFICES ASSUME TypeOK, TurnNumbered, SetUp PROVE TurnNumbered'
  OBVIOUS
<1>1. CASE SetupSandbox \/ StartAgent
  <2>1. agent \in Agents
    BY DEF TypeOK, TalkTyped
  <2>2. agent'.iteration = agent.iteration /\ pc \in {"setup", "start"} /\ pc' # "talk"
    BY <1>1, <2>1 DEF SetupSandbox, StartAgent, EnterLoop, At, Agents
  <2> QED BY <2>2 DEF TurnNumbered
<1>2. CASE SetupFails \/ StartAgentFails \/ PreRunFails \/ SetupCancelled
  BY <1>2, SameTurn DEF SetupFails, StartAgentFails, PreRunFails, SetupCancelled, AbortSetup,
     talkVars
<1>3. CASE PreRun
  BY <1>3, SameTurn DEF PreRun, EnterLoop, At, talkVars
<1> QED BY <1>1, <1>2, <1>3 DEF SetUp

LEMMA TalkNumbered == TypeOK /\ TurnNumbered /\ Talk => TurnNumbered'
<1> SUFFICES ASSUME TypeOK, TurnNumbered, Talk PROVE TurnNumbered'
  OBVIOUS
<1>1. agent \in Agents
  BY DEF TypeOK, TalkTyped
<1>2. CASE OpenWindow \/ BackoffElapses
  <2>1. agent' = [BeginTurn(agent) EXCEPT !.killed = FALSE] /\ agent.iteration = 0 /\ pc' = "talk"
    BY <1>2 DEF OpenWindow, BackoffElapses, At, TurnNumbered
  <2>2. agent'.iteration = 1 /\ agent'.bumped
    BY <1>1, <2>1 DEF BeginTurn, Agents
  <2> QED BY <2>1, <2>2 DEF TurnNumbered
<1>3. ASSUME NEW e \in {"crash", "turnTimeout"}, NEW parked \in BOOLEAN, NEW retry \in BOOLEAN,
             TurnFails(e, parked, retry)
      PROVE  TurnNumbered'
  <2> DEFINE a == [agent EXCEPT !.pending = IF parked THEN NewTurn(TRUE) ELSE NoTurn]
  <2>1. agent' = DiscardPending(a) /\ pc = "talk" /\ pc' \in {"backoff", "unwind"}
    BY <1>3 DEF TurnFails, At
  <2>2. a.iteration = 1 /\ a.bumped
    BY <1>1, <2>1 DEF Agents, TurnNumbered
  <2>3. a.iteration - 1 = 0 /\ DiscardPending(a).iteration = a.iteration - 1
    BY <1>1, <2>2 DEF DiscardPending, Agents
  <2>4. agent'.iteration = 0
    BY <2>1, <2>3
  <2> QED BY <2>1, <2>4 DEF TurnNumbered
<1>4. CASE WindowRefused \/ BackoffCancelled \/ CloseWindow \/ WindowCancelled
  BY <1>4, SameTurn DEF WindowRefused, BackoffCancelled, CloseWindow, WindowCancelled, Absorb,
     EvidenceOfCancel, Evidence, talkVars
<1>5. CASE TurnReturns \/ \E parked \in BOOLEAN : TurnCancelled(parked)
  BY <1>5 DEF TurnReturns, TurnCancelled, TurnNumbered
<1>6. CASE TurnSwallowsCancel
  BY <1>6, SameTurn DEF TurnSwallowsCancel, talkVars
<1> QED BY <1>2, <1>3, <1>4, <1>5, <1>6 DEF Talk

LEMMA LaterNumbered == TypeOK /\ TurnNumbered /\ (Judge \/ End) => TurnNumbered'
<1> SUFFICES ASSUME TypeOK, TurnNumbered, Judge \/ End PROVE TurnNumbered'
  OBVIOUS
<1>1. pc' \in {"leave", "verdict", "postrun", "stop", "clean", "done"}
  <2>1. CASE Judge
    BY <2>1 DEF Judge, Grade, GradeFails, GradeCancelled, DiagChecked, DiagFails,
       DiagCancelled, EvidenceOfCancel
  <2>2. CASE End
    BY <2>2 DEF End, LeaveWatch, Verdict, PostRun, PostRunRaises, PostRunCancelled, StopAgent,
       CleanupCancelled, Finalize, TearDown
  <2> QED BY <2>1, <2>2
<1> QED BY <1>1 DEF TurnNumbered

LEMMA ThreadNumbered == TypeOK /\ TurnNumbered /\ (Thread \/ Interrupt) => TurnNumbered'
<1> SUFFICES ASSUME TypeOK, TurnNumbered, Thread \/ Interrupt PROVE TurnNumbered'
  OBVIOUS
<1>1. CASE TimerKills
  <2>1. agent \in Agents
    BY DEF TypeOK, TalkTyped
  <2>2. agent'.iteration = agent.iteration /\ agent'.bumped = agent.bumped /\ pc' = pc
    BY <1>1, <2>1 DEF TimerKills, Agents
  <2> QED BY <2>2 DEF TurnNumbered
<1>2. CASE TimerFires \/ TimerPosts \/ LoopCancels \/ Interrupt
  BY <1>2, SameTurn DEF TimerFires, TimerPosts, LoopCancels, Interrupt, talkVars
<1> QED BY <1>1, <1>2 DEF Thread

\* A retried turn keeps its number whether or not a partial record of the
\* failed one could be built, for every number of attempts, under deadlines
\* and cancellations.
THEOREM RetryKeepsNumber == Spec => []IterationStable
<1>1. Init => TypeOK /\ TurnNumbered
  BY InitTyped DEF Init, TurnNumbered, NoAgent
<1>2. TypeOK /\ TurnNumbered /\ [Next]_vars => TypeOK' /\ TurnNumbered'
  <2> SUFFICES ASSUME TypeOK, TurnNumbered, [Next]_vars PROVE TypeOK' /\ TurnNumbered'
    OBVIOUS
  <2>1. ASSUME Step
        PROVE  TurnNumbered'
    BY <2>1, SetUpNumbered, TalkNumbered, LaterNumbered, ThreadNumbered DEF Step
  <2>2. ASSUME NEW m, NEW p, Start(m, p)
        PROVE  TurnNumbered'
    BY <2>2 DEF Start, Begin, TurnNumbered, NoAgent
  <2>3. ASSUME UNCHANGED vars
        PROVE  TurnNumbered'
    BY <2>3, SameTurn DEF vars, talkVars
  <2>4. TurnNumbered'
    BY <2>1, <2>2, <2>3 DEF Next, Finished
  <2> QED BY <2>4, TypeStep
<1>3. TurnNumbered => IterationStable
  BY DEF TurnNumbered, IterationStable
<1> QED BY <1>1, <1>2, <1>3, PTL DEF Spec

-----------------------------------------------------------------------------
(* What a run knows of its row while it works on it.                       *)

\* Nobody cancels a run from outside, and no workspace is copied.
Undisturbed == MaxInterrupts = 0 /\ "copy" \notin Modes

\* Before the first turn's window, and once the verdict is settled.
Early == {"setup", "start", "prerun"}
Late  == {"postrun", "stop", "clean", "done"}

\* A cancellation is the watchdog's, and comes out as its timeout.
CutByWatchdog ==
  /\ pc \in Early => timer = "off"
  /\ cancel => timer = "done"
  /\ exc = "cancel" => pc = "unwind" /\ timer = "done"

\* Where a run without an agent, and one that does not grade, never comes.
Spots ==
  /\ ~ HasAgent => /\ pc \notin {"start", "window", "talk", "backoff", "unwind", "diag", "stop"}
                   /\ agent.state = "none" /\ agent.pending = NoTurn
                   /\ exc \notin {"crash", "turnTimeout"}
  /\ mode = "regrade" => pc # "prerun"
  /\ mode = "execute" => pc \notin {"grade", "diag"}
  /\ pc \in Early \cup {"window", "talk", "backoff", "grade"} => exc = "none"
  /\ pc = "unwind" => exc \in {"none", "cancel", "crash", "turnTimeout"}
  /\ pc = "diag" => exc \in {"crash", "turnTimeout"}
Places == mode # "copy" /\ Spots

\* The rule a verdict follows: the gate its run calls for, then the turn cap.
Ruled(r) ==
  \/ r.status \in ExecutionFacts
  \/ r.status = "NOT_GRADED" /\ r.crit = "none"
  \/ /\ r.crit # "none"
     /\ r.status = IF GatePassed(r.early, r.crit) THEN "SUCCESS"
                   ELSE IF r.maxTurns THEN "MAX_TURNS_EXHAUSTED" ELSE "FAILURE"

VerdictTrue ==
  /\ res.status # "absent"
  /\ mode = "execute" => res.crit = "none" /\ ~ success
  /\ pc \in {"leave", "verdict"} /\ exc = "none" /\ Grades =>
       res.crit # "none" /\ success = GatePassed(res.early, res.crit)
  /\ pc \in Late => Ruled(res)

\* A re-grade carries the facts of its prior row, until it fails.
RegradeTrue ==
  mode = "regrade" =>
    /\ res.turns = prior.turns /\ res.early = prior.early /\ res.maxTurns = prior.maxTurns
    /\ ~ gfail => res.history = Seeded(prior).history /\ res.phase = Seeded(prior).phase
    /\ pc \notin Late => ~ gfail /\ exc \in {"none", "timeout", "grading"}
    /\ pc \in Late /\ ~ gfail =>
         IF Inherited THEN res.status = prior.status ELSE res.status \notin ExecutionFacts \cup {"NOT_GRADED"}

\* The post_run commands the prior row tells of are not run again.
PostTrue ==
  HasPrior /\ prior.post > 0 => pc # "postrun" /\ res.post = prior.post

\* A failure of the agent is told by an error, with diagnostics.
AgentFailureTrue ==
  /\ pc \in Early \cup {"window", "talk", "backoff", "unwind"} => res.crit = "none"
  /\ exc \in {"crash", "turnTimeout"} =>
       /\ res.crit = "none"
       /\ pc \in {"unwind", "diag", "leave", "verdict"} \cup Late
       /\ mode = "run" /\ pc \in {"leave", "verdict"} \cup Late => res.diag # "none"
       /\ pc \in Late => res.status = "ERROR"

\* How a run ends.
EndTrue ==
  /\ pc # "done" => ~ written /\ outcome = "none"
  /\ written => ~ (HasPrior /\ gfail) /\ (Grades => res.score # "none")
  /\ outcome = "returned" => written
  /\ outcome = "grading" => HasPrior /\ gfail /\ ~ written

\* Where a turn record is before it is on the result.
InFlight == IF pc = "unwind" /\ exc = "none" THEN <<returned>>
            ELSE IF agent.pending = NoTurn THEN << >> ELSE <<agent.pending>>

\* Every record the agent produced is on the result, or still in flight.
TurnsTrue ==
  /\ agent.pending # NoTurn => pc \in {"unwind", "leave", "verdict"} /\ exc \in {"cancel", "timeout"}
  /\ prior.turns \o captured = res.turns \o InFlight

\* What holds of a run at each of its steps, its turn records aside.
PassInv ==
  TypeOK /\ CutByWatchdog /\ Places /\ VerdictTrue /\ RegradeTrue /\ PostTrue /\ AgentFailureTrue /\ EndTrue
-----------------------------------------------------------------------------
(* Each of these facts is kept by each step.                               *)

\* A step belongs to a run that has started and not ended, and leaves its
\* mode and its prior row alone.
LEMMA StepRuns == Step => pc \notin {"idle", "done"} /\ UNCHANGED runVars
BY DEF Step, SetUp, SetupSandbox, SetupFails, StartAgent, StartAgentFails, PreRun, PreRunFails, SetupCancelled,
       Talk, OpenWindow, WindowRefused, TurnReturns, TurnFails, TurnCancelled, TurnSwallowsCancel,
       BackoffElapses, BackoffCancelled, CloseWindow, WindowCancelled,
       Judge, Grade, GradeFails, GradeCancelled, DiagChecked, DiagFails, DiagCancelled,
       End, LeaveWatch, Verdict, PostRun, PostRunRaises, PostRunCancelled, StopAgent, CleanupCancelled, Finalize,
       Thread, TimerFires, TimerKills, TimerPosts, LoopCancels, Interrupt, Running, Suspended, At, CancelAt

\* The watchdog's cancellation never comes out as anything but its timeout.
LEMMA CutKept ==
  ASSUME Undisturbed, TypeOK, CutByWatchdog, Step
  PROVE  CutByWatchdog'
<1> USE DEF CutByWatchdog, Early, At, CancelAt, Fired, watchVars, flowVars
<1>1. CASE SetUp
  BY <1>1 DEF SetUp, SetupSandbox, SetupFails, StartAgent, StartAgentFails, PreRun, PreRunFails,
              SetupCancelled, AbortSetup, EnterLoop, Watched
<1>2. CASE Talk
  <2>1. CASE OpenWindow \/ WindowRefused \/ BackoffElapses \/ TurnSwallowsCancel
    BY <2>1 DEF OpenWindow, WindowRefused, BackoffElapses, TurnSwallowsCancel
  <2>5. CASE TurnReturns
    BY <2>5 DEF TurnReturns
  <2>6. CASE BackoffCancelled
    BY <2>6 DEF BackoffCancelled
  <2>2. ASSUME NEW e \in {"crash", "turnTimeout"}, NEW parked \in BOOLEAN, NEW retry \in BOOLEAN,
               TurnFails(e, parked, retry)
        PROVE  CutByWatchdog'
    BY <2>2 DEF TurnFails
  <2>7. ASSUME NEW parked \in BOOLEAN, TurnCancelled(parked)
        PROVE  CutByWatchdog'
    BY <2>7 DEF TurnCancelled
  <2>3. CASE CloseWindow
    BY <2>3 DEF CloseWindow, EvidenceOfCancel, Evidence, Absorb
  <2>4. CASE WindowCancelled
    BY <2>4 DEF WindowCancelled, EvidenceOfCancel
  <2> QED BY <1>2, <2>1, <2>2, <2>3, <2>4, <2>5, <2>6, <2>7 DEF Talk
<1>3. CASE Judge
  <2>1. CASE GradeCancelled \/ DiagChecked \/ DiagFails \/ DiagCancelled
    BY <2>1 DEF GradeCancelled, DiagChecked, DiagFails, DiagCancelled, EvidenceOfCancel
  <2>2. ASSUME NEW v \in Vectors, NEW e \in {"grading", "error"}, Grade(v) \/ GradeFails(e, v)
        PROVE  CutByWatchdog'
    BY <2>2 DEF Grade, GradeFails
  <2> QED BY <1>3, <2>1, <2>2 DEF Judge
<1>4. CASE End
  BY <1>4 DEF End, LeaveWatch, Verdict, Raised, TearDown, PostRun, PostRunRaises, PostRunCancelled, StopAgent,
              CleanupCancelled, Finalize
<1>5. CASE Thread
  BY <1>5 DEF Thread, TimerFires, TimerKills, TimerPosts, LoopCancels
<1>6. CASE Interrupt
  BY <1>6 DEF Interrupt, Undisturbed, TypeOK, WatchTyped
<1> QED BY <1>1, <1>2, <1>3, <1>4, <1>5, <1>6 DEF Step

\* A run keeps to its places.
LEMMA SpotsKept ==
  ASSUME TypeOK, Spots, Step
  PROVE  Spots'
<1> USE DEF Spots, Early, At, CancelAt, HasAgent, runVars, flowVars
<1>1. CASE SetUp
  BY <1>1 DEF SetUp, SetupSandbox, SetupFails, StartAgent, StartAgentFails, PreRun, PreRunFails,
              SetupCancelled, AbortSetup, EnterLoop, Adopted, talkVars
<1>2. CASE Talk
  BY <1>2 DEF Talk, OpenWindow, WindowRefused, TurnReturns, TurnFails, TurnCancelled, TurnSwallowsCancel,
              BackoffElapses, BackoffCancelled, CloseWindow, WindowCancelled, EvidenceOfCancel, Evidence, Absorb,
              talkVars, Grades
<1>3. CASE Judge
  BY <1>3 DEF Judge, Grade, GradeFails, GradeCancelled, DiagChecked, DiagFails, DiagCancelled, EvidenceOfCancel,
              talkVars
<1>4. CASE End
  BY <1>4 DEF End, LeaveWatch, Verdict, Raised, TearDown, PostRun, PostRunRaises, PostRunCancelled, StopAgent,
              CleanupCancelled, Finalize, talkVars
<1>5. CASE Thread
  BY <1>5 DEF Thread, TimerFires, TimerKills, TimerPosts, LoopCancels, talkVars, TypeOK, TalkTyped, Agents
<1>6. CASE Interrupt
  BY <1>6 DEF Interrupt, talkVars
<1> QED BY <1>1, <1>2, <1>3, <1>4, <1>5, <1>6 DEF Step

\* What the handlers leave of a row.
LEMMA RowKeeps ==
  ASSUME NEW r \in Row
  PROVE  /\ \A s \in FinalStatus : LET q == Fact(r, s) IN
              q.status = s /\ q.phase = "execution" /\ q.crit = r.crit /\ q.early = r.early /\ q.maxTurns = r.maxTurns
              /\ q.turns = r.turns /\ q.diag = r.diag /\ q.history = r.history /\ q.score = r.score /\ q.post = r.post
         /\ LET q == NotEvaluated(r) IN
              q.diag = "skipped" /\ q.status = r.status /\ q.phase = r.phase /\ q.crit = r.crit /\ q.early = r.early
              /\ q.maxTurns = r.maxTurns /\ q.turns = r.turns /\ q.history = r.history /\ q.score = r.score /\ q.post = r.post
         /\ LET q == GradingFailed(r) IN
              q.crit = r.crit /\ q.early = r.early /\ q.maxTurns = r.maxTurns /\ q.turns = r.turns /\ q.diag = r.diag
              /\ q.score = r.score /\ q.post = r.post /\ q.status \in ExecutionFacts
         /\ \A a \in Agents : LET q == Drained(r, a) IN
              q.status = r.status /\ q.phase = r.phase /\ q.crit = r.crit /\ q.early = r.early /\ q.diag = r.diag
              /\ q.maxTurns = r.maxTurns /\ q.history = r.history /\ q.score = r.score /\ q.post = r.post
              /\ q.turns = IF a.pending = NoTurn THEN r.turns ELSE Append(r.turns, a.pending)
BY DEF Fact, NotEvaluated, GradingFailed, Drained, Row, Inherited, HasExecutionFailure, ExecutionFacts, Agents

\* A verdict follows its rule.
LEMMA VerdictKept ==
  ASSUME TypeOK, CutByWatchdog, Places, VerdictTrue, Step
  PROVE  VerdictTrue'
<1>1. res \in Row /\ success \in BOOLEAN
  BY DEF TypeOK, ResultTyped
<1> USE DEF VerdictTrue, Late, At, CancelAt, runVars, resultVars, flowVars, Grades
<1>2. CASE SetUp
  <2>1. EnterLoop => res'.status = res.status /\ res'.crit = res.crit /\ pc' \in {"window", "grade"}
    BY <1>1 DEF EnterLoop, Row
  <2>2. CASE SetupSandbox \/ PreRun
    BY <2>1, <2>2 DEF SetupSandbox, PreRun
  <2>3. CASE SetupFails \/ StartAgent \/ StartAgentFails \/ PreRunFails \/ SetupCancelled
    BY <2>3 DEF SetupFails, StartAgent, StartAgentFails, PreRunFails, SetupCancelled, AbortSetup
  <2> QED BY <1>2, <2>2, <2>3 DEF SetUp
<1>3. CASE Talk
  <2>1. CASE OpenWindow
    BY <2>1 DEF OpenWindow
  <2>9. CASE TurnReturns
    BY <2>9 DEF TurnReturns
  <2>8. CASE WindowRefused
    BY <2>8 DEF WindowRefused
  <2>7. CASE BackoffElapses \/ BackoffCancelled \/ TurnSwallowsCancel
    BY <2>7 DEF BackoffElapses, BackoffCancelled, TurnSwallowsCancel
  <2>2. ASSUME NEW e \in {"crash", "turnTimeout"}, NEW parked \in BOOLEAN, NEW retry \in BOOLEAN,
               TurnFails(e, parked, retry)
        PROVE  VerdictTrue'
    <3> DEFINE a == [agent EXCEPT !.pending = IF parked THEN NewTurn(TRUE) ELSE NoTurn]
    <3>1. a \in Agents
      BY NewTurnTyped, EmptyTyped DEF TypeOK, TalkTyped, Agents
    <3>2. res' = Drained(res, a)
      BY <2>2 DEF TurnFails
    <3>3. res'.status = res.status /\ res'.crit = res.crit
      BY <1>1, <3>1, <3>2, RowKeeps
    <3> QED BY <2>2, <3>3 DEF TurnFails
  <2>3. ASSUME NEW parked \in BOOLEAN, TurnCancelled(parked)
        PROVE  VerdictTrue'
    BY <2>3 DEF TurnCancelled
  <2>4. EvidenceOfCancel => res'.status = res.status /\ res'.crit = res.crit /\ pc' = "leave" /\ exc' # "none"
    BY <1>1, RowKeeps DEF EvidenceOfCancel
  <2>5. CASE WindowCancelled
    BY <2>4, <2>5 DEF WindowCancelled
  <2>6. CASE CloseWindow
    <3>1. CASE exc = "none"
      <4> PICK x \in BOOLEAN, y \in BOOLEAN, o \in BOOLEAN : Absorb(x, y, o)
        BY <2>6, <3>1 DEF CloseWindow
      <4> DEFINE r == [res EXCEPT !.turns = Append(@, returned), !.early = y, !.maxTurns = @ \/ x]
      <4>1. res' = IF o THEN Fact(r, "BUDGET_EXCEEDED") ELSE r
        BY DEF Absorb
      <4>2. r \in Row /\ r.status = res.status /\ r.crit = res.crit
        <5>1. Append(res.turns, returned) \in Seq(Turn) /\ (res.maxTurns \/ x) \in BOOLEAN
          BY <1>1 DEF Row, TypeOK, TalkTyped
        <5> QED BY <1>1, <5>1 DEF Row
      <4> HIDE DEF r
      <4>3. res'.status # "absent" /\ res'.crit = res.crit
        BY <4>1, <4>2, RowKeeps DEF FinalStatus
      <4> QED BY <2>6, <4>3 DEF Absorb, CloseWindow
    <3>2. CASE exc = "cancel"
      BY <2>4, <2>6, <3>2 DEF CloseWindow
    <3>3. CASE exc \notin {"none", "cancel"}
      <4>1. res'.status = "ERROR" /\ res'.crit = res.crit
        <5>1. LET q == Fact(res, "ERROR") IN q \in Row /\ q.status = "ERROR" /\ q.crit = res.crit
          BY <1>1, RowKeeps, FactTyped DEF FinalStatus
        <5>2. Evidence
          BY <2>6, <3>3 DEF CloseWindow
        <5> QED BY <5>1, <5>2 DEF Evidence, Row
      <4> QED BY <2>6, <3>3, <4>1 DEF CloseWindow, Evidence
    <3> QED BY <3>1, <3>2, <3>3
  <2> QED BY <1>3, <2>1, <2>2, <2>3, <2>5, <2>6, <2>7, <2>8, <2>9 DEF Talk
<1>4. CASE Judge
  <2>1. ASSUME NEW v \in Vectors, Grade(v)
        PROVE  VerdictTrue'
    BY <1>1, <2>1 DEF Grade, Row, Places, Spots
  <2>2. ASSUME NEW e \in {"grading", "error"}, NEW v \in Vectors, GradeFails(e, v)
        PROVE  VerdictTrue'
    BY <1>1, <2>2 DEF GradeFails, Row, Places, Spots
  <2>3. CASE GradeCancelled
    BY <1>1, <2>3, RowKeeps DEF GradeCancelled, EvidenceOfCancel
  <2>4. CASE DiagChecked \/ DiagCancelled
    BY <1>1, <2>4, RowKeeps DEF DiagChecked, DiagCancelled, Row, Places, Spots
  <2>5. CASE DiagFails
    <3>1. GradingFailed(res) \in Row
      BY <1>1, GradingFailedTyped DEF TypeOK, RunTyped
    <3> QED BY <1>1, <2>5, <3>1, RowKeeps DEF DiagFails, Places, Spots, ExecutionFacts
  <2> QED BY <1>4, <2>1, <2>2, <2>3, <2>4, <2>5 DEF Judge
<1>5. CASE End
  <2>1. CASE LeaveWatch
    <3>1. Fact(res, "TIMEOUT") \in Row
      BY <1>1, FactTyped DEF FinalStatus
    <3> QED BY <1>1, <2>1, <3>1, RowKeeps DEF LeaveWatch, ExecutionFacts, FinalStatus
  <2>2. CASE Verdict
    <3>1. /\ pc' \in {"postrun", "clean", "stop"} /\ UNCHANGED <<runVars, success>>
          /\ Raised # "cancel" /\ (Raised = "none" => exc = "none" /\ pc = "verdict")
      BY <2>2 DEF Verdict, Raised, TearDown, CutByWatchdog
    <3>2. CASE Raised = "none"
      <4>1. res' = [res EXCEPT !.status = TerminalStatus]
        BY <2>2, <3>2 DEF Verdict
      <4>2. /\ res'.status = TerminalStatus /\ res'.crit = res.crit
            /\ res'.early = res.early /\ res'.maxTurns = res.maxTurns
        BY <1>1, <4>1 DEF Row
      <4> QED BY <1>1, <3>1, <3>2, <4>2 DEF TerminalStatus, Ruled, Inherited, HasExecutionFailure, ExecutionFacts
    <3>3. CASE Raised # "none"
      <4>1. ASSUME NEW s \in {"TIMEOUT", "BUDGET_EXCEEDED", "ERROR"}
            PROVE  Fact(res, s) \in Row /\ Fact(res, s).status = s /\ Fact(res, s).crit = res.crit
        <5>1. s \in FinalStatus
          BY DEF FinalStatus
        <5> QED BY <1>1, <5>1, RowKeeps, FactTyped
      <4>2. agent \in Agents
        BY DEF TypeOK, TalkTyped
      <4>3. res'.status \in ExecutionFacts /\ res'.crit = res.crit
        BY <1>1, <2>2, <3>1, <3>3, <4>1, <4>2, RowKeeps DEF Verdict, ExecutionFacts
      <4> QED BY <3>1, <4>3 DEF Ruled, ExecutionFacts
    <3> QED BY <3>2, <3>3
  <2>3. CASE PostRun \/ Finalize
    BY <1>1, <2>3 DEF PostRun, Finalize, Row, TearDown, Ruled
  <2>4. CASE PostRunRaises
    BY <1>1, <2>4, RowKeeps DEF PostRunRaises, TearDown, Ruled, ExecutionFacts
  <2>5. CASE PostRunCancelled \/ StopAgent \/ CleanupCancelled
    BY <2>5 DEF PostRunCancelled, StopAgent, CleanupCancelled, TearDown
  <2> QED BY <1>5, <2>1, <2>2, <2>3, <2>4, <2>5 DEF End
<1>6. CASE Thread \/ Interrupt
  BY <1>6 DEF Thread, TimerFires, TimerKills, TimerPosts, LoopCancels, Interrupt
<1> QED BY <1>2, <1>3, <1>4, <1>5, <1>6 DEF Step

\* A re-grade carries the facts of its prior row.
LEMMA RegradeKept ==
  ASSUME TypeOK, CutByWatchdog, Places, VerdictTrue, VerdictTrue', RegradeTrue, Step
  PROVE  RegradeTrue'
<1> SUFFICES ASSUME mode = "regrade", mode' = mode, prior' = prior
             PROVE  RegradeTrue'
  BY StepRuns DEF runVars, RegradeTrue
<1>1. /\ res \in Row /\ gfail \in BOOLEAN /\ ~ HasAgent /\ HasPrior /\ Grades /\ Adopted
      /\ pc \in {"setup", "grade", "leave", "verdict"} \cup Late
      /\ (Inherited <=> HasExecutionFailure(prior)) /\ (Inherited' <=> Inherited)
  BY StepRuns DEF Places, Spots, HasAgent, HasPrior, Grades, Adopted, Inherited, TypeOK, ResultTyped, FlowTyped, Labels, Late
<1> DEFINE Same(r) == /\ r.turns = res.turns /\ r.early = res.early /\ r.maxTurns = res.maxTurns
                      /\ r.history = res.history /\ r.phase = res.phase /\ r.status = res.status
<1>2. ASSUME Same(res'), gfail' = gfail,
             \/ pc' \notin Late /\ exc' \in {"none", "timeout", "grading"} /\ pc \notin Late
             \/ pc' \in Late /\ pc \in Late
      PROVE  RegradeTrue'
  BY <1>1, <1>2 DEF RegradeTrue
<1> HIDE DEF Same
<1> USE DEF At, CancelAt, Late, resultVars, flowVars
<1>3. CASE SetUp
  <2>1. EnterLoop => res' = res /\ pc' = "grade"
    BY <1>1 DEF EnterLoop
  <2>2. CASE SetupSandbox
    <3>1. res' = res /\ pc' = "grade" /\ exc' = exc /\ gfail' = gfail /\ pc = "setup"
      BY <1>1, <2>1, <2>2 DEF SetupSandbox
    <3> QED BY <1>1, <1>2, <3>1 DEF Same, RegradeTrue
  <2>3. CASE SetupFails
    <3>1. res' = res /\ pc' = "verdict" /\ exc' = "grading" /\ gfail' = gfail /\ pc = "setup"
      BY <1>1, <2>3 DEF SetupFails, AbortSetup
    <3> QED BY <1>1, <1>2, <3>1 DEF Same, RegradeTrue
  <2>4. ~ SetupCancelled
    BY DEF SetupCancelled, CutByWatchdog, Early
  <2>5. ~ StartAgent /\ ~ StartAgentFails /\ ~ PreRun /\ ~ PreRunFails
    BY <1>1 DEF StartAgent, StartAgentFails, PreRun, PreRunFails
  <2> QED BY <1>3, <2>2, <2>3, <2>4, <2>5 DEF SetUp
<1>4. ~ Talk
  BY <1>1 DEF Talk, OpenWindow, WindowRefused, TurnReturns, TurnFails, TurnCancelled, TurnSwallowsCancel,
              BackoffElapses, BackoffCancelled, CloseWindow, WindowCancelled
<1>5. CASE Judge
  <2>1. ASSUME NEW v \in Vectors, NEW e \in {"grading", "error"}, Grade(v) \/ GradeFails(e, v)
        PROVE  RegradeTrue'
    <3>1. Same(res') /\ gfail' = gfail /\ pc = "grade" /\ pc' = "leave"
      BY <1>1, <2>1 DEF Grade, GradeFails, Row, Same
    <3>2. exc' \in {"none", "grading"}
      BY <1>1, <2>1 DEF Grade, GradeFails, LimitNoted
    <3> QED BY <1>2, <3>1, <3>2
  <2>2. CASE GradeCancelled
    <3>1. Same(res') /\ gfail' = gfail /\ pc = "grade" /\ pc' = "leave"
      BY <1>1, <2>2, RowKeeps DEF GradeCancelled, EvidenceOfCancel, Same
    <3>2. exc' = "timeout"
      BY <2>2 DEF GradeCancelled, EvidenceOfCancel, CutByWatchdog, Fired
    <3> QED BY <1>2, <3>1, <3>2
  <2>3. ~ DiagChecked /\ ~ DiagFails /\ ~ DiagCancelled
    BY <1>1 DEF DiagChecked, DiagFails, DiagCancelled
  <2> QED BY <1>5, <2>1, <2>2, <2>3 DEF Judge
<1>6. CASE End
  <2>1. CASE LeaveWatch
    <3>1. Same(res') /\ gfail' = gfail /\ pc = "leave" /\ pc' = "verdict" /\ exc' \in {"timeout", exc}
      BY <1>1, <2>1 DEF LeaveWatch, Same
    <3> QED BY <1>1, <1>2, <3>1 DEF RegradeTrue
  <2>2. CASE Verdict
    <3>1. pc = "verdict" /\ pc' \in {"postrun", "clean", "stop"} /\ Raised \in {"none", "grading"} /\ ~ gfail
          /\ (Raised = "none" => exc = "none")
      BY <1>1, <2>2 DEF Verdict, Raised, TearDown, RegradeTrue
    <3>2. CASE Raised = "none"
      <4>1. res' = [res EXCEPT !.status = TerminalStatus] /\ gfail' = gfail
        BY <2>2, <3>2 DEF Verdict
      <4>2. /\ res'.turns = res.turns /\ res'.early = res.early /\ res'.maxTurns = res.maxTurns
            /\ res'.history = res.history /\ res'.phase = res.phase /\ res'.status = TerminalStatus
        BY <1>1, <4>1 DEF Row
      <4>3. TerminalStatus \in IF Inherited THEN {prior.status} ELSE {"SUCCESS", "MAX_TURNS_EXHAUSTED", "FAILURE"}
        BY <1>1 DEF TerminalStatus
      <4> QED BY <1>1, <3>1, <4>1, <4>2, <4>3 DEF RegradeTrue, ExecutionFacts
    <3>3. CASE Raised = "grading"
      <4>1. res' = GradingFailed(res) /\ gfail'
        BY <2>2, <3>3 DEF Verdict
      <4> QED BY <1>1, <3>1, <4>1, RowKeeps DEF RegradeTrue
    <3> QED BY <3>1, <3>2, <3>3
  <2>3. CASE PostRun \/ Finalize
    <3>1. Same(res') /\ gfail' = gfail /\ pc \in Late /\ pc' \in Late
      BY <1>1, <2>3 DEF PostRun, Finalize, Row, TearDown, Same
    <3> QED BY <1>2, <3>1
  <2>4. CASE PostRunRaises
    <3>1. res' = GradingFailed(res) /\ gfail' /\ pc' \in {"clean", "stop"}
      BY <1>1, <2>4 DEF PostRunRaises, TearDown
    <3> QED BY <1>1, <3>1, RowKeeps DEF RegradeTrue
  <2>5. CASE PostRunCancelled \/ StopAgent \/ CleanupCancelled
    <3>1. res' = res /\ gfail' = gfail /\ pc \in Late /\ pc' \in Late
      BY <2>5 DEF PostRunCancelled, StopAgent, CleanupCancelled, TearDown
    <3> QED BY <1>2, <3>1 DEF Same
  <2> QED BY <1>6, <2>1, <2>2, <2>3, <2>4, <2>5 DEF End
<1>7. CASE Thread \/ Interrupt
  <2>1. UNCHANGED <<res, gfail, pc, exc>>
    BY <1>7 DEF Thread, TimerFires, TimerKills, TimerPosts, LoopCancels, Interrupt
  <2> QED BY <1>1, <1>2, <2>1 DEF Same, RegradeTrue
<1> QED BY <1>3, <1>4, <1>5, <1>6, <1>7 DEF Step

\* A re-grade of a row with post_run results runs no post_run command.
LEMMA PostKept ==
  ASSUME TypeOK, Spots, PostTrue, Step
  PROVE  PostTrue'
<1> SUFFICES ASSUME HasPrior, prior.post > 0, UNCHANGED runVars
             PROVE  pc' # "postrun" /\ res'.post = res.post
  BY StepRuns DEF PostTrue, runVars, HasPrior
<1>1. /\ res \in Row /\ agent \in Agents /\ ~ HasAgent /\ pc # "postrun" /\ ~ PostRunDue
      /\ pc \notin {"start", "window", "talk", "backoff", "unwind", "diag"}
  BY DEF Spots, HasAgent, HasPrior, TypeOK, ResultTyped, TalkTyped, PostTrue, PostRunDue
<1>2. ~ Talk
  BY <1>1 DEF Talk, OpenWindow, WindowRefused, TurnReturns, TurnFails, TurnCancelled, TurnSwallowsCancel,
              BackoffElapses, BackoffCancelled, CloseWindow, WindowCancelled, At, CancelAt
<1> USE DEF At, CancelAt, resultVars
<1>3. CASE SetUp
  BY <1>1, <1>3 DEF SetUp, SetupSandbox, EnterLoop, SetupFails, AbortSetup, StartAgent, StartAgentFails,
                    PreRun, PreRunFails, SetupCancelled
<1>4. CASE Judge
  <2>1. \A v \in Vectors : (Grade(v) \/ \E e \in {"grading", "error"} : GradeFails(e, v)) => res'.post = res.post /\ pc' = "leave"
    BY <1>1 DEF Grade, GradeFails, Row
  <2>2. GradeCancelled => res'.post = res.post /\ pc' = "leave"
    BY <1>1, RowKeeps DEF GradeCancelled, EvidenceOfCancel
  <2> QED BY <1>1, <1>4, <2>1, <2>2 DEF Judge, DiagChecked, DiagFails, DiagCancelled
<1>5. CASE End
  <2>1. CASE LeaveWatch
    BY <1>1, <2>1 DEF LeaveWatch
  <2>2. CASE Verdict
    <3>1. pc' # "postrun"
      BY <1>1, <2>2 DEF Verdict, TearDown
    <3>2. ASSUME NEW s \in {"TIMEOUT", "BUDGET_EXCEEDED", "ERROR"}
          PROVE  Fact(res, s) \in Row /\ Fact(res, s).post = res.post
      <4>1. s \in FinalStatus
        BY DEF FinalStatus
      <4> QED BY <1>1, <4>1, RowKeeps, FactTyped
    <3>3. CASE Raised \in {"none", "cancel", "grading"}
      BY <1>1, <2>2, <3>1, <3>3, RowKeeps DEF Verdict, Row
    <3>4. CASE Raised \notin {"none", "cancel", "grading"}
      BY <1>1, <2>2, <3>1, <3>2, <3>4, RowKeeps DEF Verdict
    <3> QED BY <3>3, <3>4
  <2>3. CASE Finalize
    BY <1>1, <2>3 DEF Finalize, Row
  <2>4. CASE StopAgent \/ CleanupCancelled
    BY <2>4 DEF StopAgent, CleanupCancelled
  <2> QED BY <1>1, <1>5, <2>1, <2>2, <2>3, <2>4 DEF End, PostRun, PostRunRaises, PostRunCancelled
<1>6. CASE Thread \/ Interrupt
  BY <1>1, <1>6 DEF Thread, TimerFires, TimerKills, TimerPosts, LoopCancels, Interrupt
<1> QED BY <1>2, <1>3, <1>4, <1>5, <1>6 DEF Step

\* A failure of the agent ends in an error row with diagnostics.
LEMMA AgentFailureKept ==
  ASSUME TypeOK, CutByWatchdog, Places, AgentFailureTrue, Step
  PROVE  AgentFailureTrue'
<1>1. res \in Row /\ agent \in Agents
  BY DEF TypeOK, ResultTyped, TalkTyped
<1> USE DEF AgentFailureTrue, Late, Early, At, CancelAt, runVars, resultVars, flowVars
<1>2. CASE SetUp
  <2>1. EnterLoop => res'.crit = res.crit /\ pc' \in {"window", "grade"}
    BY <1>1 DEF EnterLoop, Row
  <2>2. CASE SetupSandbox \/ PreRun
    BY <2>1, <2>2 DEF SetupSandbox, PreRun, Places, Spots
  <2>3. CASE SetupFails \/ StartAgent \/ StartAgentFails \/ PreRunFails \/ SetupCancelled
    BY <2>3 DEF SetupFails, StartAgent, StartAgentFails, PreRunFails, SetupCancelled, AbortSetup, Places, Spots
  <2> QED BY <1>2, <2>2, <2>3 DEF SetUp
<1>3. CASE Talk
  <2>1. ASSUME NEW e \in {"crash", "turnTimeout"}, NEW parked \in BOOLEAN, NEW retry \in BOOLEAN,
               TurnFails(e, parked, retry)
        PROVE  AgentFailureTrue'
    <3> DEFINE a == [agent EXCEPT !.pending = IF parked THEN NewTurn(TRUE) ELSE NoTurn]
    <3>1. a \in Agents
      BY NewTurnTyped, EmptyTyped DEF TypeOK, TalkTyped, Agents
    <3>2. res' = Drained(res, a)
      BY <2>1 DEF TurnFails
    <3>3. res'.crit = res.crit
      BY <1>1, <3>1, <3>2, RowKeeps
    <3> QED BY <2>1, <3>3 DEF TurnFails, Places, Spots
  <2>2. ASSUME NEW parked \in BOOLEAN, TurnCancelled(parked)
        PROVE  AgentFailureTrue'
    BY <2>2 DEF TurnCancelled
  <2>3. CASE OpenWindow
    BY <2>3 DEF OpenWindow, Places, Spots
  <2>4. CASE TurnReturns
    BY <2>4 DEF TurnReturns, Places, Spots
  <2>5. CASE WindowRefused
    BY <2>5 DEF WindowRefused
  <2>6. CASE BackoffElapses
    BY <2>6 DEF BackoffElapses, Places, Spots
  <2>7. CASE BackoffCancelled
    BY <2>7 DEF BackoffCancelled
  <2>8. CASE TurnSwallowsCancel
    BY <2>8 DEF TurnSwallowsCancel
  <2>9. EvidenceOfCancel => exc' \in {"timeout", "cancel"} /\ pc' = "leave"
    BY DEF EvidenceOfCancel
  <2>10. CASE WindowCancelled
    BY <2>9, <2>10 DEF WindowCancelled
  <2>11. CASE CloseWindow
    <3>1. CASE exc = "none"
      BY <2>11, <3>1 DEF CloseWindow, Absorb
    <3>2. CASE exc = "cancel"
      BY <2>9, <2>11, <3>2 DEF CloseWindow
    <3>3. CASE exc \notin {"none", "cancel"}
      <4>1. LET q == Fact(res, "ERROR") IN q \in Row /\ q.status = "ERROR" /\ q.crit = res.crit
        BY <1>1, RowKeeps, FactTyped DEF FinalStatus
      <4>2. Evidence
        BY <2>11, <3>3 DEF CloseWindow
      <4> QED BY <2>11, <4>1, <4>2 DEF Evidence, Row, CloseWindow, Grades
    <3> QED BY <3>1, <3>2, <3>3
  <2> QED BY <1>3, <2>1, <2>2, <2>3, <2>4, <2>5, <2>6, <2>7, <2>8, <2>10, <2>11 DEF Talk
<1>4. CASE Judge
  <2>1. ASSUME NEW v \in Vectors, NEW e \in {"grading", "error"}, Grade(v) \/ GradeFails(e, v)
        PROVE  AgentFailureTrue'
    BY <2>1 DEF Grade, GradeFails
  <2>2. CASE GradeCancelled
    BY <2>2 DEF GradeCancelled, EvidenceOfCancel
  <2>3. CASE DiagChecked \/ DiagCancelled
    BY <1>1, <2>3, RowKeeps DEF DiagChecked, DiagCancelled, Row, CutByWatchdog, Fired
  <2>4. CASE DiagFails
    <3>1. GradingFailed(res) \in Row
      BY <1>1, GradingFailedTyped DEF TypeOK, RunTyped
    <3> QED BY <1>1, <2>4, <3>1, RowKeeps DEF DiagFails
  <2> QED BY <1>4, <2>1, <2>2, <2>3, <2>4 DEF Judge
<1>5. CASE End
  <2>1. CASE LeaveWatch
    BY <2>1 DEF LeaveWatch
  <2>2. CASE Verdict
    <3>1. CASE exc \in {"crash", "turnTimeout"}
      <4>1. Raised = exc /\ pc' \in {"postrun", "clean", "stop"} /\ UNCHANGED runVars /\ pc = "verdict"
        BY <2>2, <3>1 DEF Verdict, Raised, TearDown
      <4>2. res' = Fact(res, "ERROR")
        BY <2>2, <3>1, <4>1 DEF Verdict
      <4>3. res'.status = "ERROR" /\ res'.crit = res.crit /\ res'.diag = res.diag
        BY <1>1, <4>2, RowKeeps DEF FinalStatus
      <4> QED BY <3>1, <4>1, <4>3
    <3>2. CASE exc \notin {"crash", "turnTimeout"}
      BY <2>2, <3>2 DEF Verdict, Raised, TearDown
    <3> QED BY <3>1, <3>2
  <2>3. CASE PostRun \/ Finalize
    <3>1. res'.crit = res.crit /\ res'.diag = res.diag /\ res'.status = res.status
      BY <1>1, <2>3 DEF PostRun, Finalize, Row
    <3> QED BY <2>3, <3>1 DEF PostRun, Finalize, TearDown
  <2>4. CASE PostRunRaises
    <3>1. HasPrior => exc \notin {"crash", "turnTimeout"}
      BY DEF HasPrior, HasAgent, Places, Spots
    <3> QED BY <2>4, <3>1 DEF PostRunRaises, TearDown
  <2>5. CASE PostRunCancelled \/ StopAgent \/ CleanupCancelled
    BY <2>5 DEF PostRunCancelled, StopAgent, CleanupCancelled, TearDown
  <2> QED BY <1>5, <2>1, <2>2, <2>3, <2>4, <2>5 DEF End
<1>6. CASE Thread \/ Interrupt
  BY <1>6 DEF Thread, TimerFires, TimerKills, TimerPosts, LoopCancels, Interrupt
<1> QED BY <1>2, <1>3, <1>4, <1>5, <1>6 DEF Step

\* A run ends once.
LEMMA EndKept ==
  ASSUME TypeOK, EndTrue, Step
  PROVE  EndTrue'
<1> USE DEF EndTrue, At, CancelAt, runVars, resultVars, flowVars, HasPrior, Grades
<1>1. ASSUME pc # "done", UNCHANGED <<written, outcome>> PROVE EndTrue'
  BY <1>1
<1>2. Step => pc # "done"
  BY StepRuns
<1>3. SetUp \/ Talk \/ Judge \/ Thread \/ Interrupt => UNCHANGED <<written, outcome>>
  BY DEF SetUp, SetupSandbox, SetupFails, StartAgent, StartAgentFails, PreRun, PreRunFails, SetupCancelled,
         Talk, OpenWindow, WindowRefused, TurnReturns, TurnFails, TurnCancelled, TurnSwallowsCancel,
         BackoffElapses, BackoffCancelled, CloseWindow, WindowCancelled,
         Judge, Grade, GradeFails, GradeCancelled, DiagChecked, DiagFails, DiagCancelled,
         Thread, TimerFires, TimerKills, TimerPosts, LoopCancels, Interrupt
<1>4. LeaveWatch \/ Verdict \/ PostRun \/ PostRunRaises \/ PostRunCancelled \/ StopAgent => UNCHANGED <<written, outcome>>
  BY DEF LeaveWatch, Verdict, PostRun, PostRunRaises, PostRunCancelled, StopAgent
<1>5. CASE CleanupCancelled
  BY <1>5 DEF CleanupCancelled
<1>6. CASE Finalize
  <2>1. Grades => res'.score # "none"
    BY <1>6 DEF Finalize, FinalScore, TypeOK, ResultTyped, Row
  <2>2. /\ UNCHANGED <<mode, gfail>> /\ pc' = "done" /\ written' = ~ (HasPrior /\ gfail)
        /\ outcome' = "returned" => ~ (HasPrior /\ gfail)
        /\ outcome' = "grading" => HasPrior /\ gfail
    BY <1>6 DEF Finalize
  <2> QED BY <2>1, <2>2
<1> QED BY <1>1, <1>2, <1>3, <1>4, <1>5, <1>6 DEF Step, End

\* Sequences that grow at their end.
LEMMA Appending ==
  ASSUME NEW s \in Seq(Turn), NEW t \in Seq(Turn), NEW x \in Turn
  PROVE  /\ s \o t \in Seq(Turn) /\ Append(s, x) \in Seq(Turn)
         /\ s \o <<x>> = Append(s, x)
         /\ s \o << >> = s
OBVIOUS

\* The last record of a sequence that grew.
LEMMA AppendingLast ==
  ASSUME NEW s \in Seq(Turn), NEW t \in Seq(Turn), NEW x \in Turn
  PROVE  s \o Append(t, x) = Append(s \o t, x)
OBVIOUS

\* A new record is not the missing one.
LEMMA NewTurnIsNew ==
  ASSUME TypeOK, NEW c \in BOOLEAN
  PROVE  NewTurn(c) # NoTurn
<1>1. Len(prior.turns) \in Nat /\ Len(captured) \in Nat
  BY DEF TypeOK, RunTyped, TalkTyped, Row
<1> QED BY <1>1 DEF NewTurn, NoTurn

\* Every record the agent produced is on the result or in flight.
LEMMA TurnsKept ==
  ASSUME ~ EnforcesWindows, TypeOK, CutByWatchdog, Places, TurnsTrue, Step
  PROVE  TurnsTrue'
<1>1. /\ res \in Row /\ agent \in Agents /\ res.turns \in Seq(Turn) /\ prior.turns \in Seq(Turn)
      /\ captured \in Seq(Turn) /\ returned \in Turn /\ agent.pending \in Turn
  BY DEF TypeOK, RunTyped, ResultTyped, TalkTyped, Row, Agents
<1>2. ASSUME UNCHANGED <<prior, captured>>, agent'.pending = agent.pending, res'.turns = res.turns,
             agent.pending # NoTurn => pc' \in {"unwind", "leave", "verdict"} /\ exc' \in {"cancel", "timeout"},
             ~ (pc = "unwind" /\ exc = "none"), ~ (pc' = "unwind" /\ exc' = "none")
      PROVE  TurnsTrue'
  BY <1>2 DEF TurnsTrue, InFlight
<1>3. ASSUME UNCHANGED <<prior, captured, returned, pc, exc>>, agent'.pending = agent.pending, res'.turns = res.turns
      PROVE  TurnsTrue'
  BY <1>3 DEF TurnsTrue, InFlight
<1> USE DEF Early, At, CancelAt, runVars, resultVars, flowVars, talkVars
<1>4. CASE SetUp
  <2>1. EnterLoop => res'.turns = res.turns /\ pc' \in {"window", "grade"}
    BY <1>1 DEF EnterLoop, Row
  <2>2. agent.pending = NoTurn
    BY <1>4 DEF SetUp, SetupSandbox, SetupFails, StartAgent, StartAgentFails, PreRun, PreRunFails, SetupCancelled, TurnsTrue
  <2>3. CASE SetupSandbox
    <3>1. agent'.pending = agent.pending
      BY <1>1, <2>3 DEF SetupSandbox, Agents
    <3> QED BY <1>2, <2>1, <2>2, <2>3, <3>1 DEF SetupSandbox
  <2>4. CASE PreRun
    BY <1>2, <2>1, <2>2, <2>4 DEF PreRun
  <2>5. CASE StartAgent
    <3>1. agent'.pending = agent.pending
      BY <1>1, <2>5 DEF StartAgent, Agents
    <3> QED BY <1>2, <2>2, <2>5, <3>1 DEF StartAgent
  <2>6. CASE SetupFails \/ StartAgentFails \/ PreRunFails \/ SetupCancelled
    BY <1>2, <2>2, <2>6 DEF SetupFails, StartAgentFails, PreRunFails, SetupCancelled, AbortSetup
  <2> QED BY <1>4, <2>3, <2>4, <2>5, <2>6 DEF SetUp
<1>5. CASE Talk
  <2>1. EvidenceOfCancel => res'.turns = res.turns /\ pc' = "leave" /\ exc' \in {"cancel", "timeout"}
    BY <1>1, RowKeeps DEF EvidenceOfCancel
  <2>2. CASE OpenWindow \/ BackoffElapses
    <3>1. agent.pending = NoTurn /\ agent'.pending = NoTurn
      BY <1>1, <2>2 DEF OpenWindow, BackoffElapses, TurnsTrue, BeginTurn, Agents
    <3>2. UNCHANGED <<prior, captured, res>> /\ pc # "unwind" /\ pc' # "unwind"
      BY <2>2 DEF OpenWindow, BackoffElapses
    <3> QED BY <1>2, <3>1, <3>2
  <2>3. CASE TurnReturns
    <3>1. /\ agent.pending = NoTurn /\ agent'.pending = NoTurn /\ exc = "none" /\ pc = "talk"
          /\ pc' = "unwind" /\ exc' = exc /\ UNCHANGED <<prior, res>>
          /\ returned' = NewTurn(FALSE) /\ captured' = Append(captured, NewTurn(FALSE))
      BY <1>1, <2>3 DEF TurnReturns, TurnsTrue, EndTurnOk, Agents, Places, Spots
    <3>2. prior.turns \o captured = res.turns
      BY <1>1, <3>1, Appending DEF TurnsTrue, InFlight
    <3>3. PICK n \in Turn : n = NewTurn(FALSE)
      BY NewTurnTyped
    <3>4. prior.turns \o Append(captured, n) = res.turns \o <<n>>
      <4>1. prior.turns \o Append(captured, n) = Append(prior.turns \o captured, n)
        BY <1>1, AppendingLast, Zenon
      <4>2. res.turns \o <<n>> = Append(res.turns, n)
        BY <1>1, Appending
      <4> QED BY <3>2, <4>1, <4>2
    <3>5. prior'.turns \o captured' = res'.turns \o <<returned'>>
      BY <3>1, <3>3, <3>4
    <3> QED BY <3>1, <3>5 DEF TurnsTrue, InFlight
  <2>4. ASSUME NEW e \in {"crash", "turnTimeout"}, NEW parked \in BOOLEAN, NEW retry \in BOOLEAN,
               TurnFails(e, parked, retry)
        PROVE  TurnsTrue'
    <3> DEFINE a == [agent EXCEPT !.pending = IF parked THEN NewTurn(TRUE) ELSE NoTurn]
    <3>1. a \in Agents /\ a.pending = IF parked THEN NewTurn(TRUE) ELSE NoTurn
      BY NewTurnTyped, EmptyTyped DEF TypeOK, TalkTyped, Agents
    <3>2. res' = Drained(res, a) /\ agent' = DiscardPending(a)
      BY <2>4 DEF TurnFails
    <3> HIDE DEF a
    <3>3. agent'.pending = NoTurn
      BY <3>1, <3>2 DEF DiscardPending, Agents
    <3>8. PICK n \in Turn : n = NewTurn(TRUE) /\ n # NoTurn
      BY NewTurnTyped, NewTurnIsNew
    <3>9. res'.turns = IF a.pending = NoTurn THEN res.turns ELSE Append(res.turns, a.pending)
      BY <1>1, <3>1, <3>2, RowKeeps
    <3>4. res'.turns = IF parked THEN Append(res.turns, n) ELSE res.turns
      BY <3>1, <3>8, <3>9
    <3>5. /\ captured' = IF parked THEN Append(captured, NewTurn(TRUE)) ELSE captured
          /\ UNCHANGED prior /\ pc = "talk" /\ ~ (pc' = "unwind" /\ exc' = "none")
      BY <2>4 DEF TurnFails
    <3>6. prior.turns \o captured = res.turns
      BY <1>1, <3>5, Appending DEF TurnsTrue, InFlight
    <3>7. prior.turns \o captured' = res'.turns /\ res'.turns \in Seq(Turn)
      <4>1. prior.turns \o Append(captured, n) = Append(prior.turns \o captured, n)
        BY <1>1, AppendingLast, Zenon
      <4>2. Append(res.turns, n) \in Seq(Turn)
        BY <1>1, Appending
      <4> QED BY <1>1, <3>4, <3>5, <3>6, <3>8, <4>1, <4>2
    <3> QED BY <3>3, <3>5, <3>7, Appending, EmptyTyped DEF TurnsTrue, InFlight
  <2>5. ASSUME NEW parked \in BOOLEAN, TurnCancelled(parked)
        PROVE  TurnsTrue'
    <3>1. /\ agent.pending = NoTurn /\ pc = "talk" /\ pc' = "unwind" /\ exc' = "cancel"
          /\ UNCHANGED <<prior, res>>
          /\ captured' = IF parked THEN Append(captured, NewTurn(TRUE)) ELSE captured
          /\ agent'.pending = IF parked THEN NewTurn(TRUE) ELSE NoTurn
      BY <1>1, <2>5 DEF TurnCancelled, TurnsTrue, Agents
    <3>2. prior.turns \o captured = res.turns
      BY <1>1, <3>1, Appending DEF TurnsTrue, InFlight
    <3>5. PICK n \in Turn : n = NewTurn(TRUE)
      BY NewTurnTyped
    <3>6. prior.turns \o Append(captured, n) = res.turns \o <<n>>
      <4>1. prior.turns \o Append(captured, n) = Append(prior.turns \o captured, n)
        BY <1>1, AppendingLast, Zenon
      <4>2. res.turns \o <<n>> = Append(res.turns, n)
        BY <1>1, Appending
      <4> QED BY <3>2, <4>1, <4>2
    <3>3. parked => prior.turns \o captured' = res.turns \o <<NewTurn(TRUE)>>
      BY <3>1, <3>5, <3>6
    <3>4. ~ parked => prior.turns \o captured' = res.turns \o << >>
      BY <1>1, <3>1, <3>2, Appending
    <3> QED BY <3>1, <3>3, <3>4, NewTurnIsNew DEF TurnsTrue, InFlight
  <2>6. CASE WindowRefused \/ BackoffCancelled
    <3>1. agent.pending = NoTurn
      BY <2>6 DEF WindowRefused, BackoffCancelled, TurnsTrue
    <3> QED BY <1>2, <2>6, <3>1 DEF WindowRefused, BackoffCancelled
  <2>7. CASE TurnSwallowsCancel
    BY <1>3, <2>7 DEF TurnSwallowsCancel
  <2>8. CASE WindowCancelled
    <3>1. pc = "window" /\ agent.pending = NoTurn
      BY <2>8 DEF WindowCancelled, Suspended, TurnsTrue
    <3> QED BY <1>2, <2>1, <2>8, <3>1 DEF WindowCancelled
  <2>9. CASE CloseWindow
    <3>1. pc = "unwind" /\ pc' # "unwind" /\ UNCHANGED <<prior, captured, agent>>
      BY <2>9 DEF CloseWindow, Absorb, EvidenceOfCancel, Evidence
    <3>2. CASE exc = "none"
      <4> PICK x \in BOOLEAN, y \in BOOLEAN, o \in BOOLEAN : Absorb(x, y, o)
        BY <2>9, <3>2 DEF CloseWindow
      <4> DEFINE r == [res EXCEPT !.turns = Append(@, returned), !.early = y, !.maxTurns = @ \/ x]
      <4>1. res' = IF o THEN Fact(r, "BUDGET_EXCEEDED") ELSE r
        BY DEF Absorb
      <4>2. r \in Row /\ r.turns = Append(res.turns, returned)
        <5>1. Append(res.turns, returned) \in Seq(Turn) /\ (res.maxTurns \/ x) \in BOOLEAN
          BY <1>1 DEF Row
        <5> QED BY <1>1, <5>1 DEF Row
      <4> HIDE DEF r
      <4>3. res'.turns = Append(res.turns, returned)
        BY <4>1, <4>2, RowKeeps DEF FinalStatus
      <4>4. agent.pending = NoTurn /\ prior.turns \o captured = res.turns \o <<returned>>
        BY <3>1, <3>2 DEF TurnsTrue, InFlight
      <4>5. prior.turns \o captured = res'.turns \o << >>
        BY <1>1, <4>3, <4>4, Appending
      <4> QED BY <3>1, <4>4, <4>5 DEF TurnsTrue, InFlight
    <3>3. CASE exc = "cancel"
      BY <1>2, <2>1, <2>9, <3>1, <3>3 DEF CloseWindow
    <3>4. CASE exc \notin {"none", "cancel"}
      <4>1. agent.pending = NoTurn
        BY <3>1, <3>4 DEF TurnsTrue, Places, Spots
      <4>2. LET q == Fact(res, "ERROR") IN q \in Row /\ q.turns = res.turns
        BY <1>1, RowKeeps, FactTyped DEF FinalStatus
      <4>3. Evidence
        BY <2>9, <3>4 DEF CloseWindow
      <4>4. res'.turns = res.turns
        BY <4>2, <4>3 DEF Evidence, Row
      <4> QED BY <1>2, <3>1, <3>4, <4>1, <4>4
    <3> QED BY <3>2, <3>3, <3>4
  <2> QED BY <1>5, <2>2, <2>3, <2>4, <2>5, <2>6, <2>7, <2>8, <2>9 DEF Talk
<1>6. CASE Judge
  <2>1. agent.pending = NoTurn /\ pc \in {"grade", "diag"} /\ pc' = "leave"
    BY <1>6 DEF Judge, Grade, GradeFails, GradeCancelled, DiagChecked, DiagFails, DiagCancelled, TurnsTrue, EvidenceOfCancel
  <2>2. UNCHANGED <<prior, captured, agent>>
    BY <1>6 DEF Judge, Grade, GradeFails, GradeCancelled, DiagChecked, DiagFails, DiagCancelled
  <2>3. res'.turns = res.turns
    <3>1. GradingFailed(res) \in Row
      BY <1>1, GradingFailedTyped DEF TypeOK, RunTyped
    <3>2. \A v \in Vectors : (Grade(v) \/ \E e \in {"grading", "error"} : GradeFails(e, v)) => res'.turns = res.turns
      BY <1>1 DEF Grade, GradeFails, Row
    <3>3. GradeCancelled \/ DiagChecked \/ DiagCancelled => res'.turns = res.turns
      BY <1>1, RowKeeps DEF GradeCancelled, EvidenceOfCancel, DiagChecked, DiagCancelled, Row
    <3>4. DiagFails => res'.turns = res.turns
      BY <1>1, <3>1, RowKeeps DEF DiagFails
    <3> QED BY <1>6, <3>2, <3>3, <3>4 DEF Judge
  <2> QED BY <1>2, <2>1, <2>2, <2>3
<1>7. CASE End
  <2>1. CASE LeaveWatch
    <3>1. res'.turns = res.turns
      <4>1. Fact(res, "TIMEOUT") \in Row
        BY <1>1, FactTyped DEF FinalStatus
      <4> QED BY <1>1, <2>1, <4>1, RowKeeps DEF LeaveWatch, FinalStatus
    <3>2. UNCHANGED <<prior, captured, agent>> /\ pc = "leave" /\ pc' = "verdict" /\ exc' \in {exc, "timeout"}
      BY <2>1 DEF LeaveWatch
    <3> QED BY <1>2, <3>1, <3>2 DEF TurnsTrue
  <2>2. CASE Verdict
    <3>1. pc = "verdict" /\ pc' \in {"postrun", "clean", "stop"} /\ UNCHANGED <<prior, captured>>
      BY <2>2 DEF Verdict, TearDown
    <3>2. agent.pending # NoTurn => Raised = "timeout"
      BY <3>1 DEF TurnsTrue, Raised, Places, Spots, CutByWatchdog, HasAgent, HasPrior
    <3>3. CASE Raised = "timeout"
      <4>1. /\ res' = Drained(Fact(res, "TIMEOUT"), agent)
            /\ agent' = IF agent.pending = NoTurn THEN agent ELSE DiscardPending(agent)
        BY <2>2, <3>3 DEF Verdict
      <4>2. agent'.pending = NoTurn
        BY <1>1, <4>1 DEF DiscardPending, Agents
      <4>3. Fact(res, "TIMEOUT") \in Row /\ Fact(res, "TIMEOUT").turns = res.turns
        BY <1>1, FactTyped, RowKeeps DEF FinalStatus
      <4>4. res'.turns = IF agent.pending = NoTurn THEN res.turns ELSE Append(res.turns, agent.pending)
        BY <1>1, <4>1, <4>3, RowKeeps
      <4>5. prior.turns \o captured = res'.turns \o << >>
        <5>1. prior.turns \o captured = res.turns \o InFlight
          BY <3>1 DEF TurnsTrue
        <5>2. CASE agent.pending = NoTurn
          BY <1>1, <3>1, <4>4, <5>1, <5>2 DEF InFlight
        <5>3. CASE agent.pending # NoTurn
          <6>1. res.turns \o <<agent.pending>> = Append(res.turns, agent.pending)
            BY <1>1, Appending
          <6>2. Append(res.turns, agent.pending) \o << >> = Append(res.turns, agent.pending)
            BY <1>1, Appending
          <6> QED BY <3>1, <4>4, <5>1, <5>3, <6>1, <6>2 DEF InFlight
        <5> QED BY <5>2, <5>3
      <4> QED BY <3>1, <4>2, <4>5 DEF TurnsTrue, InFlight
    <3>4. CASE Raised # "timeout"
      <4>1. \A s \in FinalStatus : Fact(res, s).turns = res.turns
        BY <1>1, RowKeeps
      <4>2. res'.turns = res.turns /\ agent' = agent
        BY <1>1, <2>2, <3>4, <4>1, RowKeeps DEF Verdict, Row, FinalStatus
      <4> QED BY <1>2, <3>1, <3>2, <3>4, <4>2
    <3> QED BY <3>3, <3>4
  <2>3. CASE StopAgent
    <3>1. agent.pending = NoTurn /\ agent'.pending = NoTurn
      BY <1>1, <2>3 DEF StopAgent, TurnsTrue, Agents
    <3> QED BY <1>2, <2>3, <3>1 DEF StopAgent
  <2>4. CASE PostRun \/ PostRunRaises \/ PostRunCancelled \/ CleanupCancelled \/ Finalize
    <3>1. pc \in {"postrun", "stop", "clean"} /\ pc' # "unwind" /\ UNCHANGED <<prior, captured, agent>>
      BY <2>4 DEF PostRun, PostRunRaises, PostRunCancelled, CleanupCancelled, Finalize, TearDown
    <3>2. PostRun \/ Finalize => res'.turns = res.turns
      BY <1>1 DEF PostRun, Finalize, Row
    <3>3. PostRunRaises => res'.turns = res.turns
      BY <1>1, RowKeeps DEF PostRunRaises
    <3>4. PostRunCancelled \/ CleanupCancelled => res' = res
      BY DEF PostRunCancelled, CleanupCancelled
    <3> QED BY <1>2, <2>4, <3>1, <3>2, <3>3, <3>4 DEF TurnsTrue
  <2> QED BY <1>7, <2>1, <2>2, <2>3, <2>4 DEF End
<1>8. CASE Thread \/ Interrupt
  <2>1. UNCHANGED <<prior, captured, returned, pc, exc, res>>
    BY <1>8 DEF Thread, TimerFires, TimerKills, TimerPosts, LoopCancels, Interrupt
  <2>2. agent'.pending = agent.pending
    BY <1>1, <1>8 DEF Thread, TimerFires, TimerKills, TimerPosts, LoopCancels, Interrupt, Agents
  <2> QED BY <1>3, <2>1, <2>2
<1> QED BY <1>4, <1>5, <1>6, <1>7, <1>8 DEF Step

\* The row is written once, at the end.
LEMMA ReportKept ==
  ASSUME EndTrue, Step
  PROVE  /\ ~ written
         /\ report' = IF written' THEN res' ELSE report
<1>1. ~ written
  BY StepRuns DEF EndTrue
<1>2. ~ Finalize => UNCHANGED <<written, report>>
  BY DEF Step, SetUp, SetupSandbox, SetupFails, StartAgent, StartAgentFails, PreRun, PreRunFails, SetupCancelled,
         Talk, OpenWindow, WindowRefused, TurnReturns, TurnFails, TurnCancelled, TurnSwallowsCancel,
         BackoffElapses, BackoffCancelled, CloseWindow, WindowCancelled,
         Judge, Grade, GradeFails, GradeCancelled, DiagChecked, DiagFails, DiagCancelled,
         End, LeaveWatch, Verdict, PostRun, PostRunRaises, PostRunCancelled, StopAgent, CleanupCancelled,
         Thread, TimerFires, TimerKills, TimerPosts, LoopCancels, Interrupt, resultVars
<1>3. Finalize => report' = IF written' THEN res' ELSE report
  BY DEF Finalize
<1> QED BY <1>1, <1>2, <1>3

\* All of them together.
LEMMA PassKept ==
  ASSUME Undisturbed, PassInv, Step
  PROVE  PassInv'
<1> USE DEF PassInv
<1>1. TypeOK'
  BY TypeStep DEF Next
<1>2. CutByWatchdog' /\ Places' /\ EndTrue'
  BY CutKept, SpotsKept, EndKept, StepRuns DEF Places, runVars
<1>3. VerdictTrue' /\ AgentFailureTrue'
  BY VerdictKept, AgentFailureKept
<1>4. RegradeTrue'
  BY <1>3, RegradeKept
<1>5. PostTrue'
  BY PostKept DEF Places
<1> QED BY <1>1, <1>2, <1>3, <1>4, <1>5

\* What a re-grade is seeded with.
LEMMA SeededWith ==
  ASSUME NEW p \in Row
  PROVE  /\ Seeded(p).turns = p.turns /\ Seeded(p).early = p.early /\ Seeded(p).maxTurns = p.maxTurns
         /\ Seeded(p).crit = "none" /\ Seeded(p).status = "FAILURE" /\ Seeded(p).post = p.post
BY DEF Seeded, Inheriting, FreshRow

\* They hold when a run begins.
LEMMA PassBegins ==
  ASSUME Undisturbed, TypeOK, NEW m \in Modes, NEW p \in Row, Begin(m, p), report' \in Row
  PROVE  PassInv'
<1>1. TypeOK'
  BY BeginTyped
<1>2. m \in {"run", "execute", "regrade", "bare"}
  BY ConstantsAssumption DEF Undisturbed
<1>3. CutByWatchdog' /\ Places' /\ EndTrue'
  BY <1>2, EmptyTyped DEF Begin, CutByWatchdog, Places, Spots, EndTrue, Early, HasAgent, NoAgent
<1>4. VerdictTrue' /\ AgentFailureTrue'
  BY <1>2, SeededWith DEF Begin, VerdictTrue, AgentFailureTrue, Late, FreshRow
<1>5. RegradeTrue' /\ PostTrue'
  BY <1>2, SeededWith DEF Begin, RegradeTrue, PostTrue, Late, HasPrior
<1> QED BY <1>1, <1>3, <1>4, <1>5 DEF PassInv

-----------------------------------------------------------------------------
(* The row of one run.                                                     *)

\* The inductive invariant of one run.
RowInv ==
  /\ TypeOK
  /\ pc # "idle" => PassInv /\ TurnsTrue /\ (written => report = res)

\* It holds when a run begins ...
LEMMA RowInvStart ==
  ASSUME Undisturbed, TypeOK, NEW m \in Modes, NEW p \in Row, Start(m, p),
         m # "regrade" => p = NoRow
  PROVE  RowInv'
<1>1. report' \in Row
  BY FreshTyped DEF Start
<1>2. PassInv'
  BY <1>1, PassBegins DEF Start
<1>3. p.turns \in Seq(Turn) /\ << >> \in Seq(Turn)
  BY EmptyTyped DEF Row
<1>4. m \in {"run", "execute", "regrade", "bare"}
  BY ConstantsAssumption DEF Undisturbed
<1>5. res'.turns = p.turns /\ prior' = p /\ captured' = << >> /\ agent'.pending = NoTurn /\ pc' = "setup"
  BY <1>4, SeededWith DEF Start, Begin, FreshRow, NoRow, NoAgent
<1>6. TurnsTrue'
  BY <1>5 DEF TurnsTrue, InFlight
<1>7. ~ written'
  BY DEF Start, Begin
<1> QED BY <1>2, <1>6, <1>7 DEF RowInv, PassInv

\* ... and every step keeps it.
LEMMA RowInvStep ==
  ASSUME Undisturbed, ~ EnforcesWindows, RowInv, [Next]_vars
  PROVE  RowInv'
<1>1. ASSUME NEW m \in Modes \cap {"run", "execute", "bare"}, Start(m, NoRow) PROVE RowInv'
  BY <1>1, RowInvStart, FreshTyped DEF RowInv
<1>2. ASSUME NEW m \in Modes \cap {"regrade", "copy"}, NEW p \in Priors, Start(m, p) PROVE RowInv'
  BY <1>2, RowInvStart, ConstantsAssumption DEF RowInv, Undisturbed
<1>3. CASE Step
  <2>1. PassInv /\ TurnsTrue
    BY <1>3, StepRuns DEF RowInv
  <2>2. PassInv' /\ TurnsTrue'
    BY <1>3, <2>1, PassKept, TurnsKept DEF PassInv
  <2>3. written' => report' = res'
    BY <1>3, <2>1, ReportKept DEF PassInv
  <2> QED BY <2>2, <2>3 DEF RowInv, PassInv
<1>4. CASE UNCHANGED vars
  <2>1. TypeOK'
    BY <1>4, TypeStep DEF RowInv
  <2>2. UNCHANGED <<mode, prior, pc, res, report, written, exc, gfail, success, outcome, timer, cancel, agent, returned, captured>>
    BY <1>4 DEF vars, runVars, resultVars, flowVars, watchVars, talkVars
  <2>3. PassInv /\ TurnsTrue => PassInv' /\ TurnsTrue'
    BY <2>1, <2>2 DEF PassInv, CutByWatchdog, Places, Spots, VerdictTrue, RegradeTrue, PostTrue, AgentFailureTrue, EndTrue, TurnsTrue,
                      HasAgent, HasPrior, Grades, Inherited, InFlight
  <2> QED BY <2>1, <2>2, <2>3 DEF RowInv
<1> QED BY <1>1, <1>2, <1>3, <1>4 DEF Next, Finished

\* The invariant gives each part of RowTold.
LEMMA RowInvTells == RowInv => RowTold
<1> SUFFICES ASSUME RowInv, pc = "done", written PROVE RowTold
  BY DEF RowTold, VerdictBacked, TurnsAccounted, DiagnosticsKept, InheritedFactKept
<1>1. PassInv /\ TurnsTrue /\ report = res
  BY DEF RowInv
<1>2. VerdictBacked
  BY <1>1 DEF VerdictBacked, PassInv, VerdictTrue, Late, Ruled, ExecutionFacts
<1>3. TurnsAccounted
  <2>1. res.turns \in Seq(Turn)
    BY <1>1 DEF PassInv, TypeOK, ResultTyped, Row
  <2>2. res.turns \o << >> = res.turns
    BY <2>1, Appending, EmptyTyped
  <2> QED BY <1>1, <2>2 DEF TurnsAccounted, TurnsTrue, InFlight
<1>4. DiagnosticsKept
  BY <1>1 DEF DiagnosticsKept, PassInv, AgentFailureTrue, Late
<1>5. InheritedFactKept
  BY <1>1 DEF InheritedFactKept, PassInv, RegradeTrue, EndTrue, Late, Inherited, HasPrior, Places, Spots
<1> QED BY <1>2, <1>3, <1>4, <1>5 DEF RowTold

\* When a run has ended and written its row, the row tells what happened: its
\* verdict follows the gate, every turn record is on it in order, a failure of
\* the agent left diagnostics, and a re-grade kept the facts it inherited.
THEOREM RowTellsRun ==
  Undisturbed /\ ~ EnforcesWindows => (Spec => []RowTold)
<1> SUFFICES ASSUME Undisturbed, ~ EnforcesWindows PROVE Spec => []RowTold
  OBVIOUS
<1>1. Init => RowInv
  BY InitTyped DEF Init, RowInv
<1>2. RowInv /\ [Next]_vars => RowInv'
  BY RowInvStep
<1> QED BY <1>1, <1>2, RowInvTells, PTL DEF Spec

-----------------------------------------------------------------------------
(* A run directory, undisturbed.                                           *)

\* The command at work, and the row it works on.
Executing ==
  /\ how \in {"run", "execute"} /\ mode = how /\ backup = NoRow
  /\ row = report /\ row = IF written THEN res ELSE NoRow
Regrading ==
  /\ how \in {"resume", "evaluate"} /\ mode = "regrade"
  /\ backup # NoRow /\ row # NoRow /\ prior # NoRow /\ prior.status # "absent"
  /\ prior.early = first.early /\ prior.maxTurns = first.maxTurns
  /\ how = "resume" => row = report /\ row = IF written THEN res ELSE prior
  /\ how = "evaluate" => row = prior

\* The inductive invariant of a directory: row, backup and first row agree, and
\* the run at work, if any, is one of the two kinds.
DirInv ==
  /\ TypeOK
  /\ row \in Row /\ backup \in Row /\ first \in Row
  /\ row # NoRow => row.status # "absent" /\ Ruled(row)
  /\ (row = NoRow) <=> (first = NoRow)
  /\ row = NoRow => backup = NoRow
  /\ backup # NoRow => backup = first
  /\ backup = NoRow => row = first
  /\ row.early = first.early /\ row.maxTurns = first.maxTurns
  /\ pc # "idle" => PassInv /\ (Executing \/ Regrading)

\* What a grading pass that went through makes of the row it was given.
Regraded(p, q) ==
  /\ q \in Row /\ q.status # "absent" /\ Ruled(q)
  /\ q.turns = p.turns /\ q.early = p.early /\ q.maxTurns = p.maxTurns
  /\ p.post > 0 => q.post = p.post
  /\ IF HasExecutionFailure(p)
       THEN q.status = p.status /\ q.phase = p.phase /\ q.history = p.history
       ELSE /\ q.status \notin ExecutionFacts \cup {"NOT_GRADED"}
            /\ q.history = p.history + (IF GradingError(p) THEN 1 ELSE 0)

\* What a step makes of the row.
RowMoves ==
  \/ row' = row
  \/ row = NoRow /\ row' # NoRow
  \/ row # NoRow /\ row' = WithIncident(row)
  \/ row # NoRow /\ Regraded(row, row')

\* A row that keeps what it was seeded with is a re-graded one.
LEMMA RegradedRow ==
  ASSUME NEW p \in Row, NEW q \in Row, q.status # "absent", Ruled(q),
         q.turns = p.turns, q.early = p.early, q.maxTurns = p.maxTurns,
         q.history = Seeded(p).history, q.phase = Seeded(p).phase, p.post > 0 => q.post = p.post,
         IF HasExecutionFailure(p) THEN q.status = p.status ELSE q.status \notin ExecutionFacts \cup {"NOT_GRADED"}
  PROVE  Regraded(p, q)
<1>1. /\ Seeded(p).history = p.history + (IF GradingError(p) THEN 1 ELSE 0)
      /\ HasExecutionFailure(p) => Seeded(p).phase = p.phase /\ ~ GradingError(p)
  BY DEF Seeded, Inheriting, FreshRow, Row, HasExecutionFailure
<1>2. p.history \in Nat
  BY DEF Row
<1> QED BY <1>1, <1>2 DEF Regraded

\* A failed pass adds an incident and nothing else.
LEMMA IncidentRow ==
  ASSUME NEW r \in Row
  PROVE  LET q == WithIncident(r) IN
           /\ q \in Row /\ q.status = r.status /\ q.phase = r.phase /\ q.turns = r.turns /\ q.crit = r.crit
           /\ q.early = r.early /\ q.maxTurns = r.maxTurns /\ q.post = r.post /\ q.history = r.history + 1
           /\ (Ruled(r) <=> Ruled(q))
BY DEF WithIncident, Row, Ruled

\* The missing row is no row.
LEMMA NoRowIs == NoRow \in Row /\ NoRow.status = "absent" /\ NoRow.crit = "none" /\ NoRow.post = 0
BY FreshTyped DEF NoRow, FreshRow

\* A step of the run at work.
LEMMA WorkKeeps ==
  ASSUME Undisturbed, DirInv, Work
  PROVE  DirInv' /\ RowMoves
<1>1. PassInv /\ (Executing \/ Regrading) /\ Step /\ pc \notin {"idle", "done"} /\ UNCHANGED runVars
  BY StepRuns DEF DirInv, Work
<1>2. PassInv' /\ TypeOK'
  BY <1>1, PassKept DEF PassInv
<1>3. ~ written /\ report' = IF written' THEN res' ELSE report
  BY <1>1, ReportKept DEF PassInv
<1>4. written' => pc' = "done" /\ ~ (HasPrior /\ gfail)' /\ res' \in Row /\ res'.status # "absent" /\ Ruled(res')
  BY <1>2 DEF PassInv, EndTrue, VerdictTrue, Late, TypeOK, ResultTyped
<1>5. UNCHANGED <<backup, how, mode, prior>> /\ row' = IF InPlace THEN report' ELSE row
  BY <1>1 DEF Work, runVars
<1>6. first' = IF first = NoRow THEN row' ELSE first
  BY DEF Work
<1>7. CASE Executing
  <2>1. row = NoRow /\ first = NoRow /\ row' = IF written' THEN res' ELSE NoRow
    BY <1>3, <1>5, <1>7 DEF Executing, InPlace, DirInv
  <2>2. row' = first' /\ row' = report'
    BY <1>3, <1>5, <1>6, <1>7, <2>1 DEF Executing, InPlace
  <2>3. Executing'
    BY <1>5, <1>7, <2>1, <2>2 DEF Executing
  <2>4. row' # NoRow <=> written'
    BY <1>4, <2>1, NoRowIs
  <2>5. backup' = NoRow /\ row' \in Row
    BY <1>4, <1>5, <1>7, <2>1, NoRowIs DEF Executing
  <2>6. DirInv'
    BY <1>2, <1>4, <2>1, <2>2, <2>3, <2>4, <2>5, NoRowIs DEF DirInv
  <2>7. RowMoves
    BY <2>1 DEF RowMoves
  <2> QED BY <2>6, <2>7
<1>8. CASE Regrading
  <2>1. first # NoRow /\ first' = first /\ row # NoRow
    BY <1>6, <1>8 DEF Regrading, DirInv
  <2>2. CASE how = "evaluate"
    <3>1. row' = row
      BY <1>5, <2>2 DEF InPlace
    <3> QED BY <1>2, <1>5, <1>8, <2>1, <2>2, <3>1 DEF DirInv, Regrading, RowMoves
  <2>3. CASE how = "resume"
    <3>1. row = prior /\ row' = report' /\ row' = IF written' THEN res' ELSE prior
      BY <1>3, <1>5, <1>8, <2>3 DEF Regrading, InPlace
    <3>2. CASE written'
      <4>1. Regraded(prior, res')
        <5>1. mode' = "regrade" /\ pc' = "done" /\ ~ gfail' /\ prior' = prior
          BY <1>4, <1>5, <1>8, <3>2 DEF Regrading, HasPrior
        <5>2. /\ res'.turns = prior.turns /\ res'.early = prior.early /\ res'.maxTurns = prior.maxTurns
              /\ res'.history = Seeded(prior).history /\ res'.phase = Seeded(prior).phase
              /\ IF HasExecutionFailure(prior) THEN res'.status = prior.status
                                               ELSE res'.status \notin ExecutionFacts \cup {"NOT_GRADED"}
              /\ prior.post > 0 => res'.post = prior.post
          BY <1>2, <5>1 DEF PassInv, RegradeTrue, PostTrue, Late, Inherited, HasPrior
        <5>3. prior \in Row
          BY DEF DirInv, TypeOK, RunTyped
        <5> QED BY <1>4, <3>2, <5>2, <5>3, RegradedRow
      <4>2. row' = res' /\ row' # NoRow /\ row' \in Row
        BY <1>4, <3>1, <3>2, NoRowIs
      <4>3. row'.early = first.early /\ row'.maxTurns = first.maxTurns /\ row'.status # "absent" /\ Ruled(row')
        BY <1>8, <4>1, <4>2 DEF Regraded, Regrading
      <4>4. Regrading'
        BY <1>5, <1>8, <2>1, <2>3, <3>1, <4>2 DEF Regrading
      <4>5. DirInv'
        BY <1>2, <1>5, <1>8, <2>1, <4>2, <4>3, <4>4 DEF DirInv, Regrading
      <4>6. RowMoves
        BY <2>1, <3>1, <4>1, <4>2 DEF RowMoves
      <4> QED BY <4>5, <4>6
    <3>3. CASE ~ written'
      <4>1. row' = row
        BY <3>1, <3>3
      <4>2. Regrading'
        BY <1>5, <1>8, <2>1, <2>3, <3>1, <3>3, <4>1 DEF Regrading
      <4> QED BY <1>2, <1>5, <2>1, <4>1, <4>2 DEF DirInv, RowMoves
    <3> QED BY <3>2, <3>3
  <2> QED BY <1>8, <2>2, <2>3 DEF Regrading
<1> QED BY <1>1, <1>7, <1>8

\* What evaluate reads off a pass that went through.
LEMMA ReturnedRow ==
  ASSUME PassInv, mode = "regrade", pc = "done", outcome = "returned"
  PROVE  Regraded(prior, res) /\ written /\ res.score # "none"
<1>1. written /\ ~ gfail /\ res.score # "none"
  BY DEF PassInv, EndTrue, HasPrior, Grades
<1>2. /\ res.turns = prior.turns /\ res.early = prior.early /\ res.maxTurns = prior.maxTurns
      /\ res.history = Seeded(prior).history /\ res.phase = Seeded(prior).phase
      /\ IF HasExecutionFailure(prior) THEN res.status = prior.status
                                       ELSE res.status \notin ExecutionFacts \cup {"NOT_GRADED"}
      /\ prior.post > 0 => res.post = prior.post
  BY <1>1 DEF PassInv, RegradeTrue, PostTrue, Late, Inherited, HasPrior
<1>3. prior \in Row /\ res \in Row /\ res.status # "absent" /\ Ruled(res)
  BY DEF PassInv, TypeOK, RunTyped, ResultTyped, VerdictTrue, Late
<1> QED BY <1>1, <1>2, <1>3, RegradedRow

\* A command comes back.
LEMMA SettleKeeps ==
  ASSUME DirInv, Settle
  PROVE  DirInv' /\ RowMoves
<1>1. /\ PassInv /\ (Executing \/ Regrading) /\ pc = "done" /\ pc' = "idle"
      /\ UNCHANGED <<runVars, resultVars, flowVars, watchVars, talkVars, tearVars, backup, first>>
  BY DEF DirInv, Settle
<1>2. TypeOK'
  BY <1>1, UnchangedTyped DEF DirInv, TypeOK, FlowTyped, flowVars, Labels
<1>3. CASE row' = row
  BY <1>1, <1>2, <1>3 DEF DirInv, RowMoves
<1>4. CASE row' # row
  <2>1. Regrading
    <3>1. ~ Executing
      BY <1>1, <1>4 DEF Settle, Executing, PassInv, EndTrue, HasPrior
    <3> QED BY <1>1, <3>1
  <2>2. mode = "regrade" /\ prior \in Row
    BY <2>1 DEF Regrading, DirInv, TypeOK, RunTyped
  <2>3. \/ row = prior /\ row' = WithIncident(prior)
        \/ outcome = "returned" /\ row = prior /\ row' = res
    BY <1>1, <1>4, <2>1 DEF Settle, WriteBack, Regrading, PassInv, EndTrue
  <2>4. row' \in Row /\ row'.status # "absent" /\ row'.early = row.early /\ row'.maxTurns = row.maxTurns /\ Ruled(row')
    BY <1>1, <2>1, <2>2, <2>3, IncidentRow, ReturnedRow DEF Regraded, Regrading, DirInv
  <2>5. row # NoRow /\ row' # NoRow
    BY <2>1, <2>4, NoRowIs DEF Regrading
  <2>6. RowMoves
    BY <1>1, <2>2, <2>3, <2>5, ReturnedRow DEF RowMoves
  <2>7. DirInv'
    BY <1>1, <1>2, <2>1, <2>4, <2>5 DEF DirInv, Regrading
  <2> QED BY <2>6, <2>7
<1> QED BY <1>3, <1>4

\* run or execute starts.
LEMMA ExecuteKeeps ==
  ASSUME Undisturbed, DirInv, NEW m \in Modes \cap {"run", "execute"}, Execute(m)
  PROVE  DirInv' /\ RowMoves
<1>1. /\ Begin(m, NoRow) /\ row = NoRow /\ how' = m /\ report' = NoRow /\ UNCHANGED <<row, backup, first>>
      /\ pc' # "idle" /\ mode' = m /\ ~ written'
  BY DEF Execute, Command, Begin
<1>2. PassInv' /\ TypeOK'
  BY <1>1, PassBegins, NoRowIs DEF DirInv, PassInv
<1>3. Executing'
  BY <1>1 DEF Executing, DirInv
<1> QED BY <1>1, <1>2, <1>3 DEF DirInv, RowMoves

\* The backup of a row that is there is the first row.
LEMMA BackedUpIs ==
  ASSUME DirInv, row # NoRow
  PROVE  LET b == BackedUp(backup, row) IN b # NoRow /\ b = first /\ b \in Row /\ first # NoRow
BY DEF DirInv, BackedUp

\* A resume or an evaluate starts.
LEMMA RegradeKeeps ==
  ASSUME Undisturbed, DirInv, NEW m \in Modes \cap {"regrade", "copy"}, Resume \/ Evaluate(m)
  PROVE  DirInv' /\ RowMoves
<1>1. /\ Begin("regrade", row) /\ "regrade" \in Modes /\ row # NoRow /\ row \in Row
      /\ backup' = BackedUp(backup, row) /\ UNCHANGED <<row, first>>
      /\ pc' # "idle" /\ mode' = "regrade" /\ prior' = row /\ ~ written'
      /\ \/ how' = "resume" /\ report' = row
         \/ how' = "evaluate" /\ report' = NoRow
  <2>1. CASE Resume
    <3>1. /\ Begin("regrade", row) /\ row # NoRow /\ how' = "resume" /\ report' = row
          /\ backup' = BackedUp(backup, row) /\ UNCHANGED <<row, first>>
      BY <2>1 DEF Resume, Command
    <3>2. "regrade" \in Modes /\ pc' # "idle" /\ mode' = "regrade" /\ prior' = row /\ ~ written'
      BY <3>1 DEF Begin
    <3>3. row \in Row
      BY DEF DirInv
    <3> QED BY <3>1, <3>2, <3>3
  <2>2. CASE Evaluate(m)
    <3>1. m = "regrade"
      BY DEF Undisturbed
    <3> QED BY <2>2, <3>1 DEF Evaluate, Command, Begin, DirInv
  <2> QED BY <2>1, <2>2
<1>2. PassInv' /\ TypeOK'
  BY <1>1, PassBegins, NoRowIs DEF DirInv, PassInv
<1>3. backup' # NoRow /\ backup' = first /\ backup' \in Row
  BY <1>1, BackedUpIs
<1>4. Regrading'
  BY <1>1, <1>3 DEF Regrading, DirInv
<1> QED BY <1>1, <1>2, <1>3, <1>4 DEF DirInv, RowMoves

\* A workspace that cannot be adopted leaves an incident.
LEMMA RefusedKeeps ==
  ASSUME DirInv, WorkspaceRefused
  PROVE  DirInv' /\ RowMoves
<1>1. /\ pc = "idle" /\ row # NoRow /\ row \in Row /\ row' = WithIncident(row)
      /\ backup' = BackedUp(backup, row) /\ UNCHANGED <<vars, first>>
  BY DEF WorkspaceRefused, Command, DirInv
<1>2. TypeOK' /\ pc' = "idle"
  BY <1>1, TypeStep DEF DirInv, vars
<1>3. /\ backup' # NoRow /\ backup' = first /\ backup' \in Row /\ first # NoRow
  BY <1>1, BackedUpIs
<1>4. /\ row' \in Row /\ row'.status = row.status /\ row'.early = row.early /\ row'.maxTurns = row.maxTurns
      /\ (Ruled(row) <=> Ruled(row'))
  BY <1>1, IncidentRow
<1>5. row' # NoRow
  BY <1>1, <1>4, NoRowIs DEF DirInv
<1> QED BY <1>1, <1>2, <1>3, <1>4, <1>5 DEF DirInv, RowMoves

\* A killed process leaves the row it found or wrote.
LEMMA KillKeeps ==
  ASSUME DirInv, Kill
  PROVE  DirInv' /\ RowMoves
<1>1. /\ pc' = "idle" /\ UNCHANGED <<row, backup, first>>
      /\ UNCHANGED <<runVars, resultVars, flowVars, watchVars, talkVars, tearVars>>
  BY DEF Kill
<1>2. TypeOK'
  BY <1>1, UnchangedTyped DEF DirInv, TypeOK, FlowTyped, flowVars, Labels
<1> QED BY <1>1, <1>2 DEF DirInv, RowMoves

\* A stuttering step.
LEMMA StillKeeps ==
  ASSUME DirInv, UNCHANGED allVars
  PROVE  DirInv' /\ RowMoves
<1>1. UNCHANGED <<vars, row, backup, first, how>>
  BY DEF allVars, dirVars
<1>2. TypeOK'
  BY <1>1, TypeStep DEF DirInv
<1>3. UNCHANGED <<mode, prior, pc, res, report, written, exc, gfail, success, outcome, timer, cancel, agent>>
  BY <1>1 DEF vars, runVars, resultVars, flowVars, watchVars, talkVars
<1>4. PassInv => PassInv'
  BY <1>2, <1>3 DEF PassInv, CutByWatchdog, Places, Spots, VerdictTrue, RegradeTrue, PostTrue, AgentFailureTrue, EndTrue,
                    HasAgent, HasPrior, Grades, Inherited
<1> QED BY <1>1, <1>2, <1>3, <1>4 DEF DirInv, Executing, Regrading, RowMoves

\* Every step of a directory keeps the invariant and moves the row as told.
LEMMA DirStep ==
  ASSUME Undisturbed, DirInv, [NextDir]_allVars
  PROVE  DirInv' /\ RowMoves
BY WorkKeeps, SettleKeeps, ExecuteKeeps, RegradeKeeps, RefusedKeeps, KillKeeps, StillKeeps DEF NextDir, Idle, Resume, Begin

\* An empty directory satisfies it.
LEMMA DirStarts == InitDir => DirInv
BY InitTyped, NoRowIs DEF InitDir, Init, DirInv, Ruled

\* The invariant at every state.
LEMMA DirHolds == Undisturbed => (SpecDir => []DirInv)
<1> SUFFICES ASSUME Undisturbed PROVE SpecDir => []DirInv
  OBVIOUS
<1>1. InitDir => DirInv
  BY DirStarts
<1>2. DirInv /\ [NextDir]_allVars => DirInv'
  BY DirStep
<1> QED BY <1>1, <1>2, PTL DEF SpecDir

-----------------------------------------------------------------------------
(* What follows for the directory.                                         *)

\* The post_run commands of a row, and its verdict, stay through its passes.
LEMMA PassesRespect ==
  ASSUME DirInv, DirInv', [NextDir]_allVars, RowMoves
  PROVE  /\ row.post > 0 => postRan' = postRan /\ row'.post = row.post
         /\ row # NoRow /\ row' # row /\ row'.crit = "none" => row'.status = row.status
<1>1. row \in Row /\ row' \in Row
  BY DEF DirInv
<1>2. ASSUME row # NoRow, row' # row, row'.crit = "none" PROVE row'.status = row.status
  <2>1. CASE row' = WithIncident(row)
    BY <1>1, <2>1, IncidentRow
  <2>2. CASE Regraded(row, row')
    BY <1>2, <2>2 DEF Regraded, Ruled
  <2> QED BY <1>2, <2>1, <2>2 DEF RowMoves
<1>3. ASSUME row.post > 0 PROVE row'.post = row.post
  <2>1. row # NoRow
    BY <1>3, NoRowIs
  <2>2. row' = WithIncident(row) => row'.post = row.post
    BY <1>1, IncidentRow
  <2> QED BY <1>3, <2>1, <2>2 DEF RowMoves, Regraded
<1>4. ASSUME row.post > 0 PROVE postRan' = postRan
  <2>1. CASE Work
    <3>1. /\ PassInv /\ Step /\ pc \notin {"idle", "done"} /\ ~ written /\ row # NoRow
      BY <1>4, <2>1, StepRuns, NoRowIs DEF Work, DirInv, PassInv, EndTrue
    <3>2. Regrading /\ row = prior
      BY <2>1, <3>1, StepRuns DEF DirInv, Executing, Regrading, Work
    <3>3. pc # "postrun"
      BY <1>4, <3>1, <3>2 DEF PassInv, PostTrue, Regrading, HasPrior
    <3> QED BY <2>1, <3>3 DEF Work
  <2>2. CASE ~ Work
    BY <2>2 DEF NextDir, Execute, Resume, Evaluate, WorkspaceRefused, Settle, Kill, Idle, allVars, dirVars
  <2> QED BY <2>1, <2>2
<1> QED BY <1>2, <1>3, <1>4

\* No pass runs post_run commands that the row already tells of, and a pass that
\* graded nothing leaves the verdict alone.
THEOREM PassesLeaveRow ==
  Undisturbed => (SpecDir => PassesRespectRow)
<1> SUFFICES ASSUME Undisturbed PROVE SpecDir => PassesRespectRow
  OBVIOUS
<1>1. DirInv /\ [NextDir]_allVars
        => [row.post > 0 => postRan' = postRan /\ row'.post = row.post]_allVars
  BY DirStep, PassesRespect
<1>2. DirInv /\ [NextDir]_allVars
        => [row # NoRow /\ row' # row /\ row'.crit = "none" => row'.status = row.status]_allVars
  BY DirStep, PassesRespect
<1>3. SpecDir => []DirInv
  BY DirHolds
<1> QED BY <1>1, <1>2, <1>3, PTL DEF SpecDir, PassesRespectRow, PostRunNotRepeated, FailedGradeKeepsVerdict

-----------------------------------------------------------------------------
(* The directory implements RowLedger.                                     *)

\* The stage and the incidents of a row, as RowLedger counts them.
StageOf(r) ==
  IF r = NoRow THEN "absent" ELSE IF HasExecutionFailure(r) THEN "failed"
  ELSE IF GradingError(r) THEN "errored" ELSE IF r.status = "NOT_GRADED" THEN "ungraded" ELSE "graded"
FactOf(r)      == IF StageOf(r) = "failed" THEN r.status ELSE "none"
IncidentsOf(r) == r.history + (IF StageOf(r) = "errored" THEN 1 ELSE 0)

\* They are what LedgerKept puts for the variables of RowLedger.
LEMMA LedgerOfRow ==
  /\ Stage = StageOf(row) /\ Stage' = StageOf(row')
  /\ (IF Stage = "failed" THEN row.status ELSE "none") = FactOf(row)
  /\ (IF Stage = "failed" THEN row.status ELSE "none")' = FactOf(row')
  /\ (row.history + (IF Stage = "errored" THEN 1 ELSE 0)) = IncidentsOf(row)
  /\ (row.history + (IF Stage = "errored" THEN 1 ELSE 0))' = IncidentsOf(row')
<1>1. Stage = StageOf(row)
  BY NoRowIs DEF Stage, StageOf, HasExecutionFailure, ExecutionFacts, GradingError
<1>2. Stage' = StageOf(row')
  BY NoRowIs DEF Stage, StageOf, HasExecutionFailure, ExecutionFacts, GradingError
<1> QED BY <1>1, <1>2 DEF FactOf, IncidentsOf

\* Each move of the row is a step of RowLedger, or none.
LEMMA LedgerStep ==
  ASSUME DirInv, DirInv', RowMoves
  PROVE  \/ /\ StageOf(row) = "absent"
            /\ \/ StageOf(row') \in {"ungraded", "errored", "graded"} /\ FactOf(row') = "none"
               \/ StageOf(row') = "failed" /\ FactOf(row') \in ExecutionFacts
            /\ row'.turns \in Seq(Turn) /\ IncidentsOf(row') \in Nat
         \/ /\ StageOf(row) \in {"ungraded", "errored", "graded"} /\ StageOf(row') = "graded"
            /\ FactOf(row') = FactOf(row) /\ row'.turns = row.turns /\ IncidentsOf(row') = IncidentsOf(row)
         \/ /\ StageOf(row) # "absent" /\ IncidentsOf(row') = IncidentsOf(row) + 1
            /\ StageOf(row') = StageOf(row) /\ FactOf(row') = FactOf(row) /\ row'.turns = row.turns
         \/ /\ StageOf(row') = StageOf(row) /\ FactOf(row') = FactOf(row) /\ row'.turns = row.turns
            /\ IncidentsOf(row') = IncidentsOf(row)
<1>1. row \in Row /\ row' \in Row /\ row.history \in Nat /\ row'.history \in Nat /\ row'.turns \in Seq(Turn)
      /\ (row' # NoRow => row'.status # "absent")
  BY DEF DirInv, Row
<1>2. CASE row' = row
  BY <1>2
<1>3. CASE row = NoRow /\ row' # NoRow
  <2>1. FactOf(row') = IF StageOf(row') = "failed" THEN row'.status ELSE "none"
    BY DEF FactOf
  <2>2. IncidentsOf(row') \in Nat
    BY <1>1 DEF IncidentsOf
  <2>3. StageOf(row') \in {"failed", "errored", "ungraded", "graded"} /\ (StageOf(row') = "failed" => row'.status \in ExecutionFacts)
    BY <1>3 DEF StageOf, HasExecutionFailure
  <2> QED BY <1>1, <1>3, <2>1, <2>2, <2>3 DEF StageOf
<1>4. CASE row # NoRow /\ row' = WithIncident(row)
  <2>1. /\ row'.status = row.status /\ row'.phase = row.phase /\ row'.turns = row.turns /\ row'.history = row.history + 1
    BY <1>1, <1>4, IncidentRow
  <2>2. row' # NoRow
    BY <1>4, <2>1, NoRowIs DEF DirInv
  <2>3. StageOf(row') = StageOf(row) /\ StageOf(row) # "absent"
    BY <1>4, <2>1, <2>2 DEF StageOf, HasExecutionFailure, GradingError
  <2> QED BY <1>1, <2>1, <2>3 DEF FactOf, IncidentsOf
<1>5. CASE row # NoRow /\ Regraded(row, row')
  <2>1. row' # NoRow
    BY <1>5, NoRowIs DEF Regraded
  <2>2. CASE HasExecutionFailure(row)
    <3>1. /\ row'.status = row.status /\ row'.phase = row.phase /\ row'.history = row.history /\ row'.turns = row.turns
      BY <1>5, <2>2 DEF Regraded
    <3>2. StageOf(row) = "failed" /\ StageOf(row') = "failed"
      BY <1>5, <2>1, <2>2, <3>1 DEF StageOf, HasExecutionFailure, GradingError
    <3> QED BY <3>1, <3>2 DEF FactOf, IncidentsOf
  <2>3. CASE ~ HasExecutionFailure(row)
    <3>1. /\ row'.status \notin ExecutionFacts \cup {"NOT_GRADED"} /\ row'.turns = row.turns
          /\ row'.history = row.history + (IF GradingError(row) THEN 1 ELSE 0)
      BY <1>5, <2>3 DEF Regraded
    <3>2. StageOf(row') = "graded"
      BY <2>1, <3>1 DEF StageOf, HasExecutionFailure, GradingError, ExecutionFacts
    <3>3. StageOf(row) \in {"errored", "ungraded", "graded"} /\ (StageOf(row) = "errored" <=> GradingError(row))
      BY <1>5, <2>3 DEF StageOf, HasExecutionFailure, GradingError, ExecutionFacts
    <3>4. IncidentsOf(row') = IncidentsOf(row)
      BY <1>1, <3>1, <3>2, <3>3 DEF IncidentsOf
    <3> QED BY <3>1, <3>2, <3>3, <3>4 DEF FactOf
  <2> QED BY <2>2, <2>3
<1> QED BY <1>2, <1>3, <1>4, <1>5 DEF RowMoves

\* A run directory implements RowLedger: it starts as an absent row, and every
\* step of run, execute, resume, evaluate or a kill maps to the one execution, a
\* judgement, an incident, or nothing.
THEOREM DirectoryImplementsLedger ==
  Undisturbed => (SpecDir => LedgerKept)
<1> SUFFICES ASSUME Undisturbed PROVE SpecDir => LedgerKept
  OBVIOUS
<1>1. InitDir => Ledger!Init
  <2>1. row = NoRow => Stage = "absent" /\ row.turns = << >> /\ row.history = 0
    BY LedgerOfRow DEF StageOf, NoRow, FreshRow
  <2> QED BY <2>1 DEF InitDir, Ledger!Init
<1>2. DirInv /\ [NextDir]_allVars => [Ledger!Next]_(Ledger!vars)
  <2> SUFFICES ASSUME DirInv, [NextDir]_allVars PROVE [Ledger!Next]_(Ledger!vars)
    OBVIOUS
  <2>1. DirInv' /\ RowMoves
    BY DirStep
  <2> QED BY <2>1, LedgerStep, LedgerOfRow DEF Ledger!Next, Ledger!vars, Ledger!Execute, Ledger!Judge, Ledger!GradeFails
<1>3. SpecDir => []DirInv
  BY DirHolds
<1> QED BY <1>1, <1>2, <1>3, PTL DEF SpecDir, LedgerKept, Ledger!Spec

-----------------------------------------------------------------------------
(* A directory, disturbed or not.  The row of a cancelled run tells of no  *)
(* verdict, and a copied workspace executes its pre_run again; what a run  *)
(* knows of its row all the same is enough for the directory to stay what  *)
(* the next command takes it for.                                          *)

\* A scored row without an error follows the gate its run calls for, then the
\* turn cap.
ByGate(r) ==
  r.crit # "none" /\ r.status \notin ExecutionFacts =>
    r.status = IF GatePassed(r.early, r.crit) THEN "SUCCESS"
               ELSE IF r.maxTurns THEN "MAX_TURNS_EXHAUSTED" ELSE "FAILURE"

\* Nothing is scored before the loop is left, and a cancelled run scores
\* nothing at all.
GateTrue ==
  /\ res.status # "absent"
  /\ pc \notin {"leave", "verdict"} \cup Late => res.crit = "none"
  /\ exc = "cancel" => res.crit = "none"
  /\ mode = "execute" => res.crit = "none" /\ ~ success
  /\ pc \in {"leave", "verdict"} /\ exc = "none" /\ Grades =>
       res.crit # "none" /\ success = GatePassed(res.early, res.crit)
  /\ pc \in Late => ByGate(res)

\* The gate and the turn cap of the prior row are this row's; a re-grade that
\* neither failed nor was cancelled owes no grade for an error.
HandedOn ==
  HasPrior =>
    /\ res.early = prior.early /\ res.maxTurns = prior.maxTurns
    /\ mode = "regrade" =>
         /\ ~ gfail => res.phase = Seeded(prior).phase
         /\ pc \notin Late => ~ gfail /\ exc \in {"none", "timeout", "grading", "cancel"}
         /\ pc \in Late /\ ~ gfail /\ exc # "cancel" => ~ GradingError(res)

\* A run that returned was not cancelled.
ReturnsUncut == outcome = "returned" => exc # "cancel"

RunKept == TypeOK /\ Spots /\ GateTrue /\ HandedOn /\ PostTrue /\ EndTrue /\ ReturnsUncut

\* Scores and verdicts follow the gate.
LEMMA GateKept ==
  ASSUME TypeOK, Spots, GateTrue, Step
  PROVE  GateTrue'
<1>1. res \in Row /\ success \in BOOLEAN /\ prior \in Row
  BY DEF TypeOK, ResultTyped, RunTyped
<1> USE DEF GateTrue, Late, At, CancelAt, runVars, resultVars, flowVars, Grades
<1>2. CASE SetUp
  <2>1. EnterLoop => res'.status = res.status /\ res'.crit = res.crit /\ pc' \in {"window", "grade"}
    BY <1>1 DEF EnterLoop, Row
  <2>2. CASE SetupSandbox \/ PreRun
    BY <2>1, <2>2 DEF SetupSandbox, PreRun, Spots, Early
  <2>3. CASE SetupFails \/ StartAgent \/ StartAgentFails \/ PreRunFails \/ SetupCancelled
    BY <2>3 DEF SetupFails, StartAgent, StartAgentFails, PreRunFails, SetupCancelled, AbortSetup
  <2> QED BY <1>2, <2>2, <2>3 DEF SetUp
<1>3. CASE Talk
  <2>1. CASE OpenWindow \/ BackoffElapses \/ BackoffCancelled \/ TurnSwallowsCancel
    BY <2>1 DEF OpenWindow, BackoffElapses, BackoffCancelled, TurnSwallowsCancel
  <2>7. CASE TurnReturns
    BY <2>7 DEF TurnReturns
  <2>8. CASE WindowRefused
    BY <2>8 DEF WindowRefused
  <2>2. ASSUME NEW e \in {"crash", "turnTimeout"}, NEW parked \in BOOLEAN, NEW retry \in BOOLEAN,
               TurnFails(e, parked, retry)
        PROVE  GateTrue'
    <3> DEFINE a == [agent EXCEPT !.pending = IF parked THEN NewTurn(TRUE) ELSE NoTurn]
    <3>1. a \in Agents
      BY NewTurnTyped, EmptyTyped DEF TypeOK, TalkTyped, Agents
    <3>2. res' = Drained(res, a)
      BY <2>2 DEF TurnFails
    <3>3. res'.status = res.status /\ res'.crit = res.crit
      BY <1>1, <3>1, <3>2, RowKeeps
    <3> QED BY <2>2, <3>3 DEF TurnFails
  <2>3. ASSUME NEW parked \in BOOLEAN, TurnCancelled(parked)
        PROVE  GateTrue'
    BY <2>3 DEF TurnCancelled
  <2>4. EvidenceOfCancel => res'.status = res.status /\ res'.crit = res.crit /\ pc' = "leave" /\ exc' # "none"
    BY <1>1, RowKeeps DEF EvidenceOfCancel
  <2>5. CASE WindowCancelled
    BY <2>4, <2>5 DEF WindowCancelled
  <2>6. CASE CloseWindow
    <3>1. CASE exc = "none"
      <4> PICK x \in BOOLEAN, y \in BOOLEAN, o \in BOOLEAN : Absorb(x, y, o)
        BY <2>6, <3>1 DEF CloseWindow
      <4> DEFINE r == [res EXCEPT !.turns = Append(@, returned), !.early = y, !.maxTurns = @ \/ x]
      <4>1. res' = IF o THEN Fact(r, "BUDGET_EXCEEDED") ELSE r
        BY DEF Absorb
      <4>2. r \in Row /\ r.status = res.status /\ r.crit = res.crit
        <5>1. Append(res.turns, returned) \in Seq(Turn) /\ (res.maxTurns \/ x) \in BOOLEAN
          BY <1>1 DEF Row, TypeOK, TalkTyped
        <5> QED BY <1>1, <5>1 DEF Row
      <4> HIDE DEF r
      <4>3. res'.status # "absent" /\ res'.crit = res.crit
        BY <4>1, <4>2, RowKeeps DEF FinalStatus
      <4> QED BY <2>6, <4>3 DEF Absorb, CloseWindow
    <3>2. CASE exc = "cancel"
      BY <2>4, <2>6, <3>2 DEF CloseWindow
    <3>3. CASE exc \notin {"none", "cancel"}
      <4>1. res'.status = "ERROR" /\ res'.crit = res.crit
        <5>1. LET q == Fact(res, "ERROR") IN q \in Row /\ q.status = "ERROR" /\ q.crit = res.crit
          BY <1>1, RowKeeps, FactTyped DEF FinalStatus
        <5>2. Evidence
          BY <2>6, <3>3 DEF CloseWindow
        <5> QED BY <5>1, <5>2 DEF Evidence, Row
      <4> QED BY <2>6, <3>3, <4>1 DEF CloseWindow, Evidence
    <3> QED BY <3>1, <3>2, <3>3
  <2> QED BY <1>3, <2>1, <2>2, <2>3, <2>5, <2>6, <2>7, <2>8 DEF Talk
<1>4. CASE Judge
  <2>1. ASSUME NEW v \in Vectors, Grade(v)
        PROVE  GateTrue'
    BY <1>1, <2>1 DEF Grade, Row, Spots
  <2>2. ASSUME NEW e \in {"grading", "error"}, NEW v \in Vectors, GradeFails(e, v)
        PROVE  GateTrue'
    BY <1>1, <2>2 DEF GradeFails, Row, Spots
  <2>3. CASE GradeCancelled
    BY <1>1, <2>3, RowKeeps DEF GradeCancelled, EvidenceOfCancel
  <2>4. CASE DiagChecked \/ DiagCancelled
    BY <1>1, <2>4, RowKeeps DEF DiagChecked, DiagCancelled, Row, Spots
  <2>5. CASE DiagFails
    <3>1. GradingFailed(res) \in Row
      BY <1>1, GradingFailedTyped DEF TypeOK, RunTyped
    <3> QED BY <1>1, <2>5, <3>1, RowKeeps DEF DiagFails, Spots, ExecutionFacts
  <2> QED BY <1>4, <2>1, <2>2, <2>3, <2>4, <2>5 DEF Judge
<1>5. CASE End
  <2>1. CASE LeaveWatch
    <3>1. Fact(res, "TIMEOUT") \in Row
      BY <1>1, FactTyped DEF FinalStatus
    <3> QED BY <1>1, <2>1, <3>1, RowKeeps DEF LeaveWatch, ExecutionFacts, FinalStatus
  <2>2. CASE Verdict
    <3>1. /\ pc' \in {"postrun", "clean", "stop"} /\ UNCHANGED <<runVars, success>> /\ pc = "verdict"
          /\ exc' = Raised /\ (Raised \in {"none", "cancel"} => exc = Raised)
      BY <2>2 DEF Verdict, Raised, TearDown
    <3>2. CASE Raised = "none"
      <4>1. res' = [res EXCEPT !.status = TerminalStatus]
        BY <2>2, <3>2 DEF Verdict
      <4>2. /\ res'.status = TerminalStatus /\ res'.crit = res.crit
            /\ res'.early = res.early /\ res'.maxTurns = res.maxTurns
        BY <1>1, <4>1 DEF Row
      <4> QED BY <1>1, <3>1, <3>2, <4>2 DEF TerminalStatus, ByGate, Inherited, HasExecutionFailure, ExecutionFacts
    <3>3. CASE Raised = "cancel"
      BY <2>2, <3>1, <3>3 DEF Verdict, ByGate
    <3>4. CASE Raised \notin {"none", "cancel"}
      <4>1. ASSUME NEW s \in {"TIMEOUT", "BUDGET_EXCEEDED", "ERROR"}
            PROVE  Fact(res, s) \in Row /\ Fact(res, s).status = s /\ Fact(res, s).crit = res.crit
        <5>1. s \in FinalStatus
          BY DEF FinalStatus
        <5> QED BY <1>1, <5>1, RowKeeps, FactTyped
      <4>2. agent \in Agents
        BY DEF TypeOK, TalkTyped
      <4>3. res'.status \in ExecutionFacts /\ res'.crit = res.crit
        BY <1>1, <2>2, <3>1, <3>4, <4>1, <4>2, RowKeeps DEF Verdict, ExecutionFacts
      <4> QED BY <3>1, <3>4, <4>3 DEF ByGate, ExecutionFacts
    <3> QED BY <3>2, <3>3, <3>4
  <2>3. CASE PostRun \/ Finalize
    BY <1>1, <2>3 DEF PostRun, Finalize, Row, TearDown, ByGate
  <2>4. CASE PostRunRaises
    BY <1>1, <2>4, RowKeeps DEF PostRunRaises, TearDown, ByGate, ExecutionFacts
  <2>5. CASE PostRunCancelled \/ StopAgent \/ CleanupCancelled
    BY <2>5 DEF PostRunCancelled, StopAgent, CleanupCancelled, TearDown
  <2> QED BY <1>5, <2>1, <2>2, <2>3, <2>4, <2>5 DEF End
<1>6. CASE Thread \/ Interrupt
  BY <1>6 DEF Thread, TimerFires, TimerKills, TimerPosts, LoopCancels, Interrupt
<1> QED BY <1>2, <1>3, <1>4, <1>5, <1>6 DEF Step

\* What a pass takes over from its prior row stays.
LEMMA HandedKept ==
  ASSUME TypeOK, Spots, HandedOn, Step
  PROVE  HandedOn'
<1> SUFFICES ASSUME HasPrior, mode' = mode, prior' = prior
             PROVE  HandedOn'
  BY StepRuns DEF runVars, HandedOn, HasPrior
<1>1. /\ res \in Row /\ prior \in Row /\ gfail \in BOOLEAN /\ ~ HasAgent /\ Grades
      /\ pc \in {"setup", "prerun", "grade", "leave", "verdict"} \cup Late
      /\ mode = "regrade" => pc # "prerun" /\ Adopted
      /\ (Inherited <=> HasExecutionFailure(prior)) /\ (HasPrior' <=> HasPrior)
  BY StepRuns DEF Spots, HasAgent, HasPrior, Grades, Adopted, Inherited, TypeOK, ResultTyped, RunTyped, FlowTyped, Labels, Late
<1> DEFINE Gate(r) == r.early = res.early /\ r.maxTurns = res.maxTurns
           Same(r) == Gate(r) /\ r.phase = res.phase /\ r.status = res.status
<1>2. ASSUME Same(res'), gfail' = gfail,
             \/ pc' \notin Late /\ pc \notin Late
                /\ (mode = "regrade" => exc' \in {"none", "timeout", "grading", "cancel"})
             \/ pc' \in Late /\ pc \in Late /\ exc' = exc
      PROVE  HandedOn'
  BY <1>1, <1>2 DEF HandedOn, GradingError
<1>3. ASSUME Gate(res'), pc' \in Late, mode = "regrade" => gfail'
      PROVE  HandedOn'
  BY <1>1, <1>3 DEF HandedOn
<1> HIDE DEF Same, Gate
<1> USE DEF At, CancelAt, Late, resultVars, flowVars
<1>4. CASE SetUp
  <2>1. EnterLoop => res' = res /\ pc' = "grade"
    BY <1>1 DEF EnterLoop
  <2>2. CASE SetupSandbox \/ PreRun
    <3>1. res' = res /\ pc' \in {"grade", "prerun"} /\ exc' = exc /\ gfail' = gfail /\ pc \in {"setup", "prerun"}
      BY <1>1, <2>1, <2>2 DEF SetupSandbox, PreRun
    <3> QED BY <1>1, <1>2, <3>1 DEF Same, Gate, HandedOn
  <2>3. CASE SetupFails \/ PreRunFails
    <3>1. /\ res' = res /\ pc' = "verdict" /\ gfail' = gfail /\ pc \in {"setup", "prerun"}
          /\ exc' = IF pc = "setup" THEN "grading" ELSE "error"
      BY <1>1, <2>3 DEF SetupFails, PreRunFails, AbortSetup
    <3> QED BY <1>1, <1>2, <3>1 DEF Same, Gate
  <2>4. CASE SetupCancelled
    <3>1. res' = res /\ pc' = "verdict" /\ gfail' = gfail /\ pc \in {"setup", "start", "prerun"} /\ exc' = "cancel"
      BY <1>1, <2>4 DEF SetupCancelled, AbortSetup
    <3> QED BY <1>1, <1>2, <3>1 DEF Same, Gate
  <2>5. ~ StartAgent /\ ~ StartAgentFails
    BY <1>1 DEF StartAgent, StartAgentFails
  <2> QED BY <1>4, <2>2, <2>3, <2>4, <2>5 DEF SetUp
<1>5. ~ Talk
  BY <1>1 DEF Talk, OpenWindow, WindowRefused, TurnReturns, TurnFails, TurnCancelled, TurnSwallowsCancel,
              BackoffElapses, BackoffCancelled, CloseWindow, WindowCancelled
<1>6. CASE Judge
  <2>1. ASSUME NEW v \in Vectors, NEW e \in {"grading", "error"}, Grade(v) \/ GradeFails(e, v)
        PROVE  HandedOn'
    <3>1. Same(res') /\ gfail' = gfail /\ pc = "grade" /\ pc' = "leave"
      BY <1>1, <2>1 DEF Grade, GradeFails, Row, Same, Gate
    <3>2. exc' \in {"none", "grading"}
      BY <1>1, <2>1 DEF Grade, GradeFails, LimitNoted
    <3> QED BY <1>2, <3>1, <3>2
  <2>2. CASE GradeCancelled
    <3>1. Same(res') /\ gfail' = gfail /\ pc = "grade" /\ pc' = "leave" /\ exc' \in {"timeout", "cancel"}
      BY <1>1, <2>2, RowKeeps DEF GradeCancelled, EvidenceOfCancel, Same, Gate
    <3> QED BY <1>2, <3>1
  <2>3. ~ DiagChecked /\ ~ DiagFails /\ ~ DiagCancelled
    BY <1>1 DEF DiagChecked, DiagFails, DiagCancelled
  <2> QED BY <1>6, <2>1, <2>2, <2>3 DEF Judge
<1>7. CASE End
  <2>1. CASE LeaveWatch
    <3>1. Same(res') /\ gfail' = gfail /\ pc = "leave" /\ pc' = "verdict" /\ exc' \in {"timeout", exc}
      BY <1>1, <2>1 DEF LeaveWatch, Same, Gate
    <3> QED BY <1>1, <1>2, <3>1 DEF HandedOn
  <2>2. CASE Verdict
    <3>1. /\ pc = "verdict" /\ pc' \in {"postrun", "clean", "stop"} /\ exc' = Raised
          /\ mode = "regrade" => Raised \in {"none", "grading", "cancel"} /\ ~ gfail
      BY <1>1, <2>2 DEF Verdict, Raised, TearDown, HandedOn
    <3>2. CASE Raised = "none"
      <4>1. res' = [res EXCEPT !.status = TerminalStatus] /\ gfail' = gfail
        BY <2>2, <3>2 DEF Verdict
      <4>2. Gate(res') /\ res'.phase = res.phase /\ res'.status = TerminalStatus
        BY <1>1, <4>1 DEF Row, Gate
      <4>3. mode = "regrade" => ~ GradingError(res')
        <5>1. SUFFICES ASSUME mode = "regrade", GradingError(res') PROVE FALSE
          OBVIOUS
        <5>2. Inherited /\ prior.status = "ERROR" /\ res.phase = "grading"
          BY <4>2, <5>1 DEF GradingError, TerminalStatus
        <5>3. ~ GradingError(prior) /\ res.phase = Seeded(prior).phase
          BY <1>1, <3>1, <5>1, <5>2 DEF HandedOn, HasExecutionFailure
        <5>4. Seeded(prior).phase = prior.phase
          BY <5>3 DEF Seeded, Inheriting, FreshRow
        <5> QED BY <5>2, <5>3, <5>4 DEF GradingError
      <4> QED BY <1>1, <3>1, <4>1, <4>2, <4>3 DEF HandedOn, Gate
    <3>3. CASE Raised = "grading"
      <4>1. res' = GradingFailed(res) /\ gfail'
        BY <2>2, <3>3 DEF Verdict
      <4> QED BY <1>1, <1>3, <3>1, <4>1, RowKeeps DEF Gate
    <3>4. CASE Raised = "cancel"
      <4>1. res' = res /\ gfail' = gfail
        BY <2>2, <3>4 DEF Verdict
      <4> QED BY <1>1, <3>1, <3>4, <4>1 DEF HandedOn
    <3>5. CASE Raised \notin {"none", "grading", "cancel"}
      <4>1. ASSUME NEW s \in {"TIMEOUT", "BUDGET_EXCEEDED", "ERROR"}
            PROVE  Fact(res, s) \in Row /\ Gate(Fact(res, s))
        <5>1. s \in FinalStatus
          BY DEF FinalStatus
        <5> QED BY <1>1, <5>1, RowKeeps, FactTyped DEF Gate
      <4>2. agent \in Agents
        BY DEF TypeOK, TalkTyped
      <4>3. Gate(res')
        BY <1>1, <2>2, <3>5, <4>1, <4>2, RowKeeps DEF Verdict, Gate
      <4> QED BY <1>3, <3>1, <3>5, <4>3
    <3> QED BY <3>2, <3>3, <3>4, <3>5
  <2>3. CASE PostRun \/ Finalize
    <3>1. Same(res') /\ gfail' = gfail /\ pc \in Late /\ pc' \in Late /\ exc' = exc
      BY <1>1, <2>3 DEF PostRun, Finalize, Row, TearDown, Same, Gate
    <3> QED BY <1>2, <3>1
  <2>4. CASE PostRunRaises
    <3>1. res' = GradingFailed(res) /\ gfail' /\ pc' \in {"clean", "stop"}
      BY <1>1, <2>4 DEF PostRunRaises, TearDown
    <3> QED BY <1>1, <1>3, <3>1, RowKeeps DEF Gate
  <2>5. CASE PostRunCancelled \/ StopAgent \/ CleanupCancelled
    <3>1. res' = res /\ gfail' = gfail /\ pc \in Late /\ pc' \in Late /\ exc' = exc
      BY <2>5 DEF PostRunCancelled, StopAgent, CleanupCancelled, TearDown
    <3> QED BY <1>2, <3>1 DEF Same, Gate
  <2> QED BY <1>7, <2>1, <2>2, <2>3, <2>4, <2>5 DEF End
<1>8. CASE Thread \/ Interrupt
  <2>1. UNCHANGED <<res, gfail, pc, exc>>
    BY <1>8 DEF Thread, TimerFires, TimerKills, TimerPosts, LoopCancels, Interrupt
  <2> QED BY <1>1, <1>2, <2>1 DEF Same, Gate, HandedOn
<1> QED BY <1>4, <1>5, <1>6, <1>7, <1>8 DEF Step

\* A run's outcome is told once, by what ended it.
LEMMA ReturnsKept ==
  ASSUME TypeOK, EndTrue, ReturnsUncut, Step
  PROVE  ReturnsUncut'
<1>1. pc # "done" /\ outcome = "none"
  BY StepRuns DEF EndTrue
<1>2. ~ Finalize /\ ~ CleanupCancelled => UNCHANGED outcome
  BY DEF Step, SetUp, SetupSandbox, SetupFails, StartAgent, StartAgentFails, PreRun, PreRunFails, SetupCancelled,
         Talk, OpenWindow, WindowRefused, TurnReturns, TurnFails, TurnCancelled, TurnSwallowsCancel,
         BackoffElapses, BackoffCancelled, CloseWindow, WindowCancelled,
         Judge, Grade, GradeFails, GradeCancelled, DiagChecked, DiagFails, DiagCancelled,
         End, LeaveWatch, Verdict, PostRun, PostRunRaises, PostRunCancelled, StopAgent,
         Thread, TimerFires, TimerKills, TimerPosts, LoopCancels, Interrupt, flowVars
<1>3. CASE CleanupCancelled
  BY <1>3 DEF CleanupCancelled, ReturnsUncut
<1>4. CASE Finalize
  BY <1>4 DEF Finalize, ReturnsUncut, TypeOK, FlowTyped
<1> QED BY <1>1, <1>2, <1>3, <1>4 DEF ReturnsUncut

\* A run keeps all of it, from where it begins.
LEMMA RunKeeps ==
  ASSUME RunKept, Step
  PROVE  RunKept'
<1>1. TypeOK'
  BY TypeStep DEF Next, RunKept
<1> QED BY <1>1, SpotsKept, GateKept, HandedKept, PostKept, EndKept, ReturnsKept DEF RunKept

\* It holds when a run begins.
LEMMA RunBegins ==
  ASSUME TypeOK, NEW m \in Modes, NEW p \in Row, Begin(m, p), report' \in Row
  PROVE  RunKept'
<1>1. TypeOK'
  BY BeginTyped
<1>2. m \in {"run", "execute", "regrade", "copy", "bare"}
  BY ConstantsAssumption
<1>3. Spots' /\ EndTrue' /\ ReturnsUncut'
  BY <1>2, EmptyTyped DEF Begin, Spots, EndTrue, ReturnsUncut, Early, HasAgent, NoAgent
<1>4. GateTrue' /\ HandedOn' /\ PostTrue'
  BY <1>2, SeededWith DEF Begin, GateTrue, HandedOn, PostTrue, Late, HasPrior, FreshRow
<1> QED BY <1>1, <1>3, <1>4 DEF RunKept

\* A pass over a row that is there: re-grade or copied workspace.
Passing ==
  /\ how \in {"resume", "evaluate"} /\ HasPrior /\ (how = "resume" => mode = "regrade")
  /\ backup # NoRow /\ row # NoRow /\ row.status # "absent"
  /\ prior.early = first.early /\ prior.maxTurns = first.maxTurns
  /\ row = IF how = "resume" /\ written THEN res ELSE prior
  /\ how = "resume" => row = report

\* The inductive invariant of a directory, disturbed or not.
KeptInv ==
  /\ TypeOK
  /\ row \in Row /\ backup \in Row /\ first \in Row
  /\ row # NoRow => row.status # "absent" /\ ByGate(row)
  /\ (row = NoRow) <=> (first = NoRow)
  /\ row = NoRow => backup = NoRow
  /\ backup # NoRow => backup = first
  /\ backup = NoRow => row = first
  /\ row.early = first.early /\ row.maxTurns = first.maxTurns
  /\ pc # "idle" => RunKept /\ (Executing \/ Passing)

\* A step of the run at work.
LEMMA WorkKept ==
  ASSUME KeptInv, Work
  PROVE  KeptInv'
<1>1. RunKept /\ (Executing \/ Passing) /\ Step /\ pc \notin {"idle", "done"} /\ UNCHANGED runVars
  BY StepRuns DEF KeptInv, Work
<1>2. RunKept' /\ TypeOK'
  BY <1>1, RunKeeps DEF RunKept
<1>3. ~ written /\ report' = IF written' THEN res' ELSE report
  BY <1>1, ReportKept DEF RunKept
<1>4. written' => res' \in Row /\ res'.status # "absent" /\ ByGate(res')
  BY <1>2 DEF RunKept, EndTrue, GateTrue, Late, TypeOK, ResultTyped
<1>5. UNCHANGED <<backup, how, mode, prior>> /\ row' = IF InPlace THEN report' ELSE row
  BY <1>1 DEF Work, runVars
<1>6. first' = IF first = NoRow THEN row' ELSE first
  BY DEF Work
<1>7. CASE Executing
  <2>1. row = NoRow /\ first = NoRow /\ row' = IF written' THEN res' ELSE NoRow
    BY <1>3, <1>5, <1>7 DEF Executing, InPlace, KeptInv
  <2>2. row' = first' /\ row' = report'
    BY <1>3, <1>5, <1>6, <1>7, <2>1 DEF Executing, InPlace
  <2>3. Executing'
    BY <1>5, <1>7, <2>1, <2>2 DEF Executing
  <2>4. backup' = NoRow /\ row' \in Row
    BY <1>4, <1>5, <1>7, <2>1, NoRowIs DEF Executing
  <2> QED BY <1>2, <1>4, <2>1, <2>2, <2>3, <2>4, NoRowIs DEF KeptInv
<1>8. CASE Passing
  <2>1. first # NoRow /\ first' = first /\ row # NoRow /\ HasPrior' /\ row = prior
    BY <1>3, <1>5, <1>6, <1>8 DEF Passing, KeptInv, HasPrior
  <2>2. CASE how = "evaluate" \/ ~ written'
    <3>1. row' = row
      BY <1>3, <1>5, <1>8, <2>1, <2>2 DEF InPlace, Passing
    <3>2. how = "resume" => row' = report'
      BY <1>3, <1>8, <2>2, <3>1 DEF Passing
    <3>3. Passing'
      BY <1>5, <1>8, <2>1, <2>2, <3>1, <3>2 DEF Passing
    <3> QED BY <1>2, <1>5, <2>1, <3>1, <3>3 DEF KeptInv
  <2>3. CASE how = "resume" /\ written'
    <3>1. row' = res' /\ row' = report' /\ row' # NoRow /\ row' \in Row /\ row'.status # "absent" /\ ByGate(row')
      BY <1>3, <1>4, <1>5, <2>3, NoRowIs DEF InPlace
    <3>2. row'.early = first.early /\ row'.maxTurns = first.maxTurns
      BY <1>2, <1>5, <1>8, <2>1, <3>1 DEF RunKept, HandedOn, Passing
    <3>3. Passing'
      BY <1>5, <1>8, <2>1, <2>3, <3>1 DEF Passing
    <3> QED BY <1>2, <1>5, <1>8, <2>1, <3>1, <3>2, <3>3 DEF KeptInv, Passing
  <2> QED BY <1>8, <2>2, <2>3 DEF Passing
<1> QED BY <1>1, <1>7, <1>8

\* A command comes back.
LEMMA SettleKept ==
  ASSUME KeptInv, Settle
  PROVE  KeptInv'
<1>1. /\ RunKept /\ (Executing \/ Passing) /\ pc = "done" /\ pc' = "idle"
      /\ UNCHANGED <<runVars, resultVars, flowVars, watchVars, talkVars, tearVars, backup, first>>
  BY DEF KeptInv, Settle
<1>2. TypeOK'
  BY <1>1, UnchangedTyped DEF KeptInv, TypeOK, FlowTyped, flowVars, Labels
<1>3. CASE row' = row
  BY <1>1, <1>2, <1>3 DEF KeptInv
<1>4. CASE row' # row
  <2>1. Passing
    <3>1. ~ Executing
      BY <1>1, <1>4 DEF Settle, Executing, RunKept, EndTrue, HasPrior
    <3> QED BY <1>1, <3>1
  <2>2. HasPrior /\ prior \in Row /\ res \in Row /\ res.status # "absent" /\ ByGate(res)
        /\ res.early = prior.early /\ res.maxTurns = prior.maxTurns
    BY <1>1, <2>1 DEF Passing, RunKept, TypeOK, RunTyped, ResultTyped, GateTrue, HandedOn, Late
  <2>3. \/ row = prior /\ row' = WithIncident(prior)
        \/ row = prior /\ row' = res
    BY <1>1, <1>4, <2>1 DEF Settle, WriteBack, Passing, RunKept, EndTrue
  <2>4. LET q == WithIncident(prior) IN
          q \in Row /\ q.status = prior.status /\ q.early = prior.early /\ q.maxTurns = prior.maxTurns /\ q.crit = prior.crit
    BY <2>2, IncidentRow
  <2>5. row' \in Row /\ row'.status # "absent" /\ row'.early = row.early /\ row'.maxTurns = row.maxTurns /\ ByGate(row')
    BY <2>1, <2>2, <2>3, <2>4 DEF Passing, KeptInv, ByGate
  <2>6. row # NoRow /\ row' # NoRow
    BY <2>1, <2>5, NoRowIs DEF Passing
  <2> QED BY <1>1, <1>2, <2>1, <2>5, <2>6 DEF KeptInv, Passing
<1> QED BY <1>3, <1>4

\* run or execute starts.
LEMMA ExecuteKept ==
  ASSUME KeptInv, NEW m \in Modes \cap {"run", "execute"}, Execute(m)
  PROVE  KeptInv'
<1>1. /\ Begin(m, NoRow) /\ row = NoRow /\ how' = m /\ report' = NoRow /\ UNCHANGED <<row, backup, first>>
      /\ pc' # "idle" /\ mode' = m /\ ~ written'
  BY DEF Execute, Command, Begin
<1>2. RunKept' /\ TypeOK'
  BY <1>1, RunBegins, NoRowIs DEF KeptInv, RunKept
<1>3. Executing'
  BY <1>1 DEF Executing, KeptInv
<1> QED BY <1>1, <1>2, <1>3 DEF KeptInv

\* The backup of a row that is there is the first row.
LEMMA KeptBackup ==
  ASSUME KeptInv, row # NoRow
  PROVE  LET b == BackedUp(backup, row) IN b # NoRow /\ b = first /\ b \in Row /\ first # NoRow
BY DEF KeptInv, BackedUp

\* A resume or an evaluate starts.
LEMMA PassKeeps ==
  ASSUME KeptInv, NEW m \in Modes \cap {"regrade", "copy"}, Resume \/ Evaluate(m)
  PROVE  KeptInv'
<1>1. PICK k \in Modes \cap {"regrade", "copy"} :
        /\ Begin(k, row) /\ row # NoRow /\ row \in Row
        /\ backup' = BackedUp(backup, row) /\ UNCHANGED <<row, first>>
        /\ \/ how' = "resume" /\ report' = row /\ k = "regrade"
           \/ how' = "evaluate" /\ report' = NoRow
  <2>1. CASE Resume
    BY <2>1 DEF Resume, Command, Begin, KeptInv
  <2>2. CASE Evaluate(m)
    BY <2>2 DEF Evaluate, Command, KeptInv
  <2> QED BY <2>1, <2>2
<1>2. pc' # "idle" /\ mode' = k /\ prior' = row /\ ~ written'
  BY <1>1 DEF Begin
<1>3. RunKept' /\ TypeOK'
  BY <1>1, RunBegins, NoRowIs DEF KeptInv, RunKept
<1>4. backup' # NoRow /\ backup' = first /\ backup' \in Row
  BY <1>1, KeptBackup
<1>5. Passing'
  BY <1>1, <1>2, <1>4 DEF Passing, KeptInv, HasPrior
<1> QED BY <1>1, <1>3, <1>4, <1>5 DEF KeptInv

\* A workspace that cannot be adopted or copied leaves an incident.
LEMMA RefusedKept ==
  ASSUME KeptInv, WorkspaceRefused
  PROVE  KeptInv'
<1>1. /\ pc = "idle" /\ row # NoRow /\ row \in Row /\ row' = WithIncident(row)
      /\ backup' = BackedUp(backup, row) /\ UNCHANGED <<vars, first>>
  BY DEF WorkspaceRefused, Command, KeptInv
<1>2. TypeOK' /\ pc' = "idle"
  BY <1>1, TypeStep DEF KeptInv, vars
<1>3. backup' # NoRow /\ backup' = first /\ backup' \in Row /\ first # NoRow
  BY <1>1, KeptBackup
<1>4. /\ row' \in Row /\ row'.status = row.status /\ row'.early = row.early /\ row'.maxTurns = row.maxTurns
      /\ row'.crit = row.crit
  BY <1>1, IncidentRow
<1>5. row' # NoRow /\ row'.status # "absent" /\ ByGate(row')
  BY <1>1, <1>4, NoRowIs DEF KeptInv, ByGate
<1> QED BY <1>1, <1>2, <1>3, <1>4, <1>5 DEF KeptInv

\* A killed process leaves the row it found or wrote.
LEMMA KillKept ==
  ASSUME KeptInv, Kill
  PROVE  KeptInv'
<1>1. /\ pc' = "idle" /\ UNCHANGED <<row, backup, first>>
      /\ UNCHANGED <<runVars, resultVars, flowVars, watchVars, talkVars, tearVars>>
  BY DEF Kill
<1>2. TypeOK'
  BY <1>1, UnchangedTyped DEF KeptInv, TypeOK, FlowTyped, flowVars, Labels
<1> QED BY <1>1, <1>2 DEF KeptInv

\* A stuttering step.
LEMMA StillKept ==
  ASSUME KeptInv, UNCHANGED allVars
  PROVE  KeptInv'
<1>1. UNCHANGED <<vars, row, backup, first, how>>
  BY DEF allVars, dirVars
<1>2. TypeOK'
  BY <1>1, TypeStep DEF KeptInv
<1>3. UNCHANGED <<mode, prior, pc, res, report, written, exc, gfail, success, outcome, agent>>
  BY <1>1 DEF vars, runVars, resultVars, flowVars, talkVars
<1>4. RunKept => RunKept'
  BY <1>2, <1>3 DEF RunKept, Spots, GateTrue, HandedOn, PostTrue, EndTrue, ReturnsUncut, HasAgent, HasPrior, Grades
<1>5. (Executing => Executing') /\ (Passing => Passing')
  BY <1>1, <1>3 DEF Executing, Passing, HasPrior
<1> QED BY <1>1, <1>2, <1>3, <1>4, <1>5 DEF KeptInv

\* Every step of a directory keeps the invariant, which an empty one satisfies.
LEMMA KeptStep == KeptInv /\ [NextDir]_allVars => KeptInv'
BY WorkKept, SettleKept, ExecuteKept, PassKeeps, RefusedKept, KillKept, StillKept DEF NextDir, Idle, Resume, Begin

LEMMA KeptStarts == InitDir => KeptInv
BY InitTyped, NoRowIs DEF InitDir, Init, KeptInv

\* The invariant gives each part of DirectoryKept.
LEMMA KeptTells == KeptInv => DirectoryKept
<1> SUFFICES ASSUME KeptInv PROVE DirectoryKept
  OBVIOUS
<1>1. GradedByRule
  BY NoRowIs DEF GradedByRule, KeptInv, ByGate
<1>2. BackupIsFirst
  BY DEF BackupIsFirst, KeptInv
<1>3. ASSUME pc = "done", how = "resume", outcome = "returned" PROVE ~ OwesAGrade(row)
  <2>1. RunKept /\ Passing
    BY <1>3 DEF KeptInv, Executing
  <2>2. mode = "regrade" /\ HasPrior /\ Grades /\ written /\ ~ gfail /\ exc # "cancel" /\ row = res
    BY <1>3, <2>1 DEF RunKept, EndTrue, ReturnsUncut, Passing, HasPrior, Grades
  <2>3. ~ GradingError(res) /\ res.score # "none"
    BY <1>3, <2>1, <2>2 DEF RunKept, HandedOn, EndTrue, Late
  <2> QED BY <2>2, <2>3 DEF OwesAGrade
<1> QED BY <1>1, <1>2, <1>3 DEF DirectoryKept, ResumeSettles

\* Between and during any commands, cancelled from outside or not, the row is
\* graded by one rule, the backup is the row the execution wrote, and a resume
\* that went through leaves nothing to grade.
THEOREM DirectoryStays == SpecDir => []DirectoryKept
BY KeptStarts, KeptStep, KeptTells, PTL DEF SpecDir

\* The post_run commands of a row stay as told through any pass.
LEMMA PostStays ==
  ASSUME KeptInv, KeptInv', [NextDir]_allVars, row.post > 0
  PROVE  postRan' = postRan /\ row'.post = row.post
<1>1. row # NoRow /\ row \in Row
  BY NoRowIs DEF KeptInv
<1>2. CASE Work
  <2>1. RunKept /\ Step /\ UNCHANGED runVars /\ (Executing \/ Passing)
    BY <1>2, StepRuns DEF Work, KeptInv
  <2>2. ~ written /\ report' = (IF written' THEN res' ELSE report) /\ RunKept'
    BY <2>1, ReportKept, RunKeeps DEF RunKept
  <2>3. Passing /\ row = prior /\ HasPrior /\ pc # "postrun"
    BY <1>1, <2>1, <2>2 DEF Executing, Passing, RunKept, PostTrue
  <2>4. res'.post = prior.post
    BY <2>1, <2>2, <2>3 DEF RunKept, PostTrue, HasPrior, runVars
  <2>5. row' = IF InPlace THEN report' ELSE row
    BY <1>2 DEF Work
  <2>6. row'.post = row.post
    BY <2>2, <2>3, <2>4, <2>5 DEF InPlace, Passing
  <2> QED BY <1>2, <2>3, <2>6 DEF Work
<1>3. CASE Settle
  <2>1. CASE row' = row
    BY <1>3, <2>1 DEF Settle
  <2>2. CASE row' # row
    <3>1. RunKept /\ pc = "done" /\ Passing
      BY <1>3, <2>2 DEF Settle, KeptInv, Executing, RunKept, EndTrue, HasPrior
    <3>2. row = prior /\ (row' = WithIncident(prior) \/ row' = res) /\ HasPrior
      BY <1>3, <2>2, <3>1 DEF Settle, WriteBack, Passing, RunKept, EndTrue
    <3>3. res.post = prior.post /\ WithIncident(prior).post = prior.post
      BY <1>1, <3>1, <3>2, IncidentRow DEF RunKept, PostTrue
    <3> QED BY <1>3, <3>2, <3>3 DEF Settle
  <2> QED BY <2>1, <2>2
<1>4. CASE WorkspaceRefused
  BY <1>1, <1>4, IncidentRow DEF WorkspaceRefused
<1>5. CASE ~ Work /\ ~ Settle /\ ~ WorkspaceRefused
  BY <1>5 DEF NextDir, Execute, Resume, Evaluate, Kill, Idle, allVars, dirVars
<1> QED BY <1>2, <1>3, <1>4, <1>5

\* Once the row tells of post_run commands no pass runs them again, and every
\* later row tells of as many: cancelled from outside or not, killed or not, in
\* an adopted workspace or a copied one.
THEOREM PostRunStays == SpecDir => PostRunNotRepeated
<1>1. KeptInv /\ KeptInv' /\ [NextDir]_allVars
        => [row.post > 0 => postRan' = postRan /\ row'.post = row.post]_allVars
  BY PostStays
<1> QED BY <1>1, KeptStarts, KeptStep, PTL DEF SpecDir, PostRunNotRepeated
=============================================================================
