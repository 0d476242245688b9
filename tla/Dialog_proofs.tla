----------------------------- MODULE Dialog_proofs -----------------------------
(***************************************************************************)
(* What the row of a simulated or scripted dialog tells, and what its stop *)
(* reason claims: for every set of dialogs, every length, budget and run   *)
(* limit, and any number of partial records.                               *)
(***************************************************************************)
EXTENDS Dialog, TLAPS
-----------------------------------------------------------------------------
(* What holds inside of a dialog.                                          *)

\* Where the loop has been left, and where it has no reason to stop yet.
Ends   == {"finally", "verdict", "over"}
Within == {"start", "opener", "agent", "turncheck", "gate", "user"}

Record == [kind : {"turn", "partial", "standalone_user"}, no : Nat, says : Nat]

\* An utterance is pending from when it is spoken to the turn that takes it;
\* as many exchanges are complete as utterances were answered.
SpeechTrue ==
  /\ user.pending \in {0, user.said}
  /\ pc \in {"start", "opener", "user", "turncheck", "gate"} => user.pending = 0 /\ user.said = pairs
  /\ pc = "agent" => user.pending = user.said /\ user.said = pairs + 1
  /\ pc # "agent" /\ user.pending # 0 => turn > 0
  /\ pc \in {"start", "opener"} => turn = 0
  /\ pc \notin {"start", "opener", "agent"} \cup Ends => turn > 0
  /\ pc \in {"agent", "user"} => turn < cfg.maxTurns
  /\ pc \notin Ends => pairs = turn
  /\ pc \in {"verdict", "over"} => user.pending = 0
  /\ Spoken(recs, IF user.pending = 0 THEN user.said ELSE user.said - 1)

\* A reason to stop is there once the loop is left for it, and true until the
\* loop's finally; a broken limit leads to no other.
ReasonTrue ==
  /\ pc \in Within => reason = "none"
  /\ pc \in {"final", "endcheck", "return"} => reason \notin {"none", "run_limit_exceeded"} /\ ~ last.broken
  /\ pc = "limitcheck" => reason = "run_limit_exceeded" /\ last.broken
  /\ pc \in {"start", "opener", "agent", "user"} => ~ last.broken
  /\ pc \notin {"verdict", "over"} => /\ last.broken => LimitBroken(recs)
                                      /\ reason # "none" => ReasonHolds(reason)
  /\ last.broken => reason \in {"none", "run_limit_exceeded"}
  /\ exc = "limit" => reason = "run_limit_exceeded"

\* Nothing is raised, and no telemetry written, before the ends.
EndsTrue ==
  /\ pc \notin Ends => exc = "none" /\ tele = << >>
  /\ pc = "finally" /\ exc = "none" => tele # << >>

\* The checks: the flag says that the last turn was checked, and the vector is
\* the one of the last check.
ChecksTrue ==
  /\ judge.accum = judge.calls
  /\ vec.of # 0 /\ ~ vec.plain => vec.usage = judge.calls
  /\ vec.of <= turn /\ (vec.of = 0 => ~ vec.pass)
  /\ ~ cfg.grade => vec.of = 0 /\ ~ passed.now
  /\ pc \in {"turncheck", "limitcheck", "endcheck"} => cfg.grade
  /\ exc = "none" => passed.all = vec.pass
  /\ pc = "gate" /\ last.broken /\ passed.now => cfg.grade
  /\ exc \in {"none", "limit"} /\ passed.now => vec.of = turn
  /\ pc \in {"return"} \cup Ends /\ exc \in {"none", "limit"} /\ cfg.grade /\ turn > 0 => vec.of = turn

\* The row on its way to the verdict.
RowTrue ==
  /\ pc # "over" => row.phase \in {"none", "execution"}
  /\ row.complete => pc \in {"endcheck", "return"} \cup Ends /\ reason \notin {"none", "error"}

DialogInv ==
  /\ VerdictOfLastTurn    \* with TypeOK
  /\ SpeechTrue /\ ReasonTrue /\ EndsTrue /\ ChecksTrue /\ RowTrue

-----------------------------------------------------------------------------
(* Utterances on records.                                                  *)

\* No record, no utterance.
LEMMA SpokenEmpty == Spoken(<< >>, 0)
BY DEF Spoken

\* Records of no utterance, as the partial ones of a failed attempt, change
\* nothing.
LEMMA SpokenMore ==
  ASSUME NEW s \in Seq(Record), NEW p \in Seq(Record), NEW n \in Nat, Spoken(s, n),
         \A i \in 1..Len(p) : p[i].says = 0
  PROVE  s \o p \in Seq(Record) /\ Spoken(s \o p, n)
<1> DEFINE t == s \o p
<1>1. t \in Seq(Record) /\ Len(t) = Len(s) + Len(p) /\ Len(s) \in Nat /\ Len(p) \in Nat
  OBVIOUS
<1>2. \A i \in 1..Len(s) : t[i] = s[i]
  OBVIOUS
<1>3. ASSUME NEW i \in 1..Len(t), i \notin 1..Len(s) PROVE t[i].says = 0
  <2>1. i - Len(s) \in 1..Len(p) /\ t[i] = p[i - Len(s)]
    BY <1>1, <1>3
  <2> QED
    BY <2>1
<1>4. DOMAIN t = 1..Len(t) /\ DOMAIN s = 1..Len(s) /\ (\A i \in 1..Len(s) : i \in 1..Len(t))
  BY <1>1
<1> HIDE DEF t
<1>5. \A k \in 1..n : \E i \in DOMAIN t : t[i].says = k
  BY <1>2, <1>4 DEF Spoken
<1>6. \A i \in DOMAIN t : t[i].says \in 0..n
  BY <1>2, <1>3, <1>4 DEF Spoken
<1>7. ASSUME NEW i \in DOMAIN t, NEW j \in DOMAIN t, i < j, t[j].says # 0
      PROVE  t[i].says < t[j].says
  <2>1. j \in 1..Len(s)
    BY <1>3, <1>4, <1>7
  <2>2. i \in 1..Len(s)
    BY <1>1, <1>4, <1>7, <2>1
  <2> QED
    BY <1>2, <1>4, <1>7, <2>1, <2>2 DEF Spoken
<1>8. Spoken(t, n)
  BY <1>5, <1>6, <1>7 DEF Spoken
<1> QED
  BY <1>1, <1>8 DEF t

\* The record of the next utterance.
LEMMA SpokenNext ==
  ASSUME NEW s \in Seq(Record), NEW r \in Record, NEW n \in Nat, Spoken(s, n), r.says = n + 1
  PROVE  Append(s, r) \in Seq(Record) /\ Spoken(Append(s, r), n + 1)
<1> DEFINE t == Append(s, r)
<1>1. t \in Seq(Record) /\ Len(t) = Len(s) + 1 /\ Len(s) \in Nat
  OBVIOUS
<1>2. (\A i \in 1..Len(s) : t[i] = s[i]) /\ t[Len(s) + 1] = r
  OBVIOUS
<1>3. DOMAIN t = 1..Len(t) /\ DOMAIN s = 1..Len(s)
  BY <1>1
<1> HIDE DEF t
<1>4. \A i \in 1..Len(t) : i \in 1..Len(s) \/ i = Len(s) + 1
  BY <1>1
<1>5. ASSUME NEW k \in 1..(n + 1) PROVE \E i \in DOMAIN t : t[i].says = k
  <2>1. CASE k = n + 1
    BY <1>1, <1>2, <1>3, <2>1
  <2>2. CASE k \in 1..n
    <3>1. PICK i \in 1..Len(s) : s[i].says = k
      BY <1>3, <2>2 DEF Spoken
    <3> QED
      BY <1>1, <1>2, <1>3, <3>1
  <2> QED
    BY <2>1, <2>2
<1>6. \A i \in 1..Len(s) : s[i].says \in 0..n
  BY <1>3 DEF Spoken
<1>7. \A i \in DOMAIN t : t[i].says \in 0..(n + 1)
  BY <1>2, <1>3, <1>4, <1>6
<1>8. ASSUME NEW i \in DOMAIN t, NEW j \in DOMAIN t, i < j, t[j].says # 0
      PROVE  t[i].says < t[j].says
  <2>1. i \in 1..Len(s)
    BY <1>1, <1>3, <1>4, <1>8
  <2>2. CASE j \in 1..Len(s)
    BY <1>2, <1>3, <1>8, <2>1, <2>2 DEF Spoken
  <2>3. CASE j = Len(s) + 1
    BY <1>2, <1>6, <2>1, <2>3
  <2> QED
    BY <1>3, <1>4, <2>2, <2>3
<1>9. Spoken(t, n + 1)
  BY <1>5, <1>7, <1>8 DEF Spoken
<1> QED
  BY <1>1, <1>9 DEF t

\* The records of the attempts that failed.
LEMMA PartialsTyped ==
  ASSUME NEW k \in Nat, turn \in Nat
  PROVE  /\ Partials(k) \in Seq(Record)
         /\ \A i \in 1..Len(Partials(k)) : Partials(k)[i].says = 0
<1>1. turn + 1 \in Nat
  OBVIOUS
<1> DEFINE n == turn + 1
<1> HIDE DEF n
<1>2. [i \in 1..k |-> [kind |-> "partial", no |-> n, says |-> 0]] \in Seq(Record)
  BY <1>1 DEF Record, n
<1> QED
  BY <1>2 DEF Partials, n

\* A turn's records: those of its failed attempts, then its own, which takes
\* the utterance that prompted it.
LEMMA TurnRecorded ==
  ASSUME NEW s \in Seq(Record), NEW k \in Nat, NEW n \in Nat, turn \in Nat, Spoken(s, n),
         NEW u, u = n + 1
  PROVE  LET t == s \o Partials(k) \o <<[kind |-> "turn", no |-> turn + 1, says |-> u]>>
         IN  t \in Seq(Record) /\ Spoken(t, n + 1)
<1> DEFINE a == s \o Partials(k)
           r == [kind |-> "turn", no |-> turn + 1, says |-> u]
<1>1. a \in Seq(Record) /\ Spoken(a, n)
  BY PartialsTyped, SpokenMore
<1>2. r \in Record /\ r.says = n + 1
  BY DEF Record
<1> HIDE DEF a, r
<1>3. a \o <<r>> = Append(a, r)
  BY <1>1, <1>2
<1>4. Append(a, r) \in Seq(Record) /\ Spoken(Append(a, r), n + 1)
  BY <1>1, <1>2, SpokenNext
<1> QED
  BY <1>3, <1>4 DEF a, r

-----------------------------------------------------------------------------
(* The steps.                                                              *)

\* What the constants say of the dialog at work.
LEMMA CfgFacts ==
  ASSUME TypeOK
  PROVE  /\ cfg \in ConfigSpace /\ Valid(cfg) /\ cfg.maxTurns \in Nat \ {0}
         /\ turn \in Nat /\ pairs \in Nat /\ spent \in Nat /\ user.said \in Nat /\ user.pending \in Nat
         /\ vec.of \in Nat /\ cfg.grade \in BOOLEAN
BY DialogAssumption DEF TypeOK, ConfigSpace

\* A limit is broken, and a reason holds, as long as what they look at stays.
LEMMA ReasonStays ==
  ASSUME UNCHANGED <<cfg, turn, spent, last, recs>>
  PROVE  /\ LimitBroken(recs)' = LimitBroken(recs)
         /\ \A r \in Reasons : ReasonHolds(r)' = ReasonHolds(r)
BY DEF LimitBroken, ReasonHolds

\* _raise: out of the loop, whose finally is next; out of the start, to run().
LEMMA RaiseTo ==
  ASSUME NEW e \in Exceptions, Raise(e)
  PROVE  /\ exc' = e /\ pc' \in {"finally", "verdict"}
         /\ pc # "start" => pc' = "finally"
BY DEF Raise

\* The simulator is started, or everything it made is gone again.
LEMMA StartGood ==
  ASSUME DialogInv, StartUser
  PROVE  DialogInv'
<1>1. /\ pc = "start" /\ UNCHANGED <<cfg, turn, pairs, spent, last, reason, recs, passed, vec, judge, tele, row>>
      /\ user' = user \/ user' = [user EXCEPT !.up = cfg.user # "script"]
      /\ \/ pc' = "opener" /\ exc' = exc
         \/ pc' = "verdict" /\ exc' \in {"crash", "cancel"}
  BY DEF StartUser, Goto, Raise, Cut, graded, ended
<1>2. TypeOK /\ TypeOK' /\ user'.said = user.said /\ user'.pending = user.pending
  <2>1. user' \in [up : BOOLEAN, said : Nat, pending : Nat] /\ user'.said = user.said /\ user'.pending = user.pending
    <3> DEFINE b == cfg.user # "script"
    <3>1. user \in [up : BOOLEAN, said : Nat, pending : Nat] /\ b \in BOOLEAN
      BY DEF DialogInv, VerdictOfLastTurn, TypeOK
    <3>2. user' = user \/ user' = [user EXCEPT !.up = b]
      BY <1>1
    <3> HIDE DEF b
    <3> QED
      BY <3>1, <3>2
  <2> QED
    BY <1>1, <2>1 DEF DialogInv, VerdictOfLastTurn, TypeOK, Pcs, Exceptions
<1>3. SpeechTrue'
  BY <1>1, <1>2, CfgFacts DEF DialogInv, SpeechTrue, Ends
<1>4. ReasonTrue'
  BY <1>1, ReasonStays DEF DialogInv, ReasonTrue, Within
<1>5. EndsTrue' /\ ChecksTrue' /\ RowTrue'
  BY <1>1, <1>2, CfgFacts DEF DialogInv, SpeechTrue, EndsTrue, ChecksTrue, RowTrue, Ends
<1> QED
  BY <1>1, <1>2, <1>3, <1>4, <1>5 DEF DialogInv, VerdictOfLastTurn

\* One utterance more, which the next turn owes an answer.
LEMMA UtteranceFacts ==
  ASSUME TypeOK, user.said = pairs
  PROVE  /\ Utterance \in [up : BOOLEAN, said : Nat, pending : Nat]
         /\ Utterance.said = user.said + 1 /\ Utterance.pending = user.said + 1
<1> DEFINE n == user.said + 1
           p == IF cfg.user = "script" THEN pairs + 1 ELSE user.said + 1
<1>1. user \in [up : BOOLEAN, said : Nat, pending : Nat] /\ n \in Nat /\ p = n
  BY DEF TypeOK
<1>2. Utterance = [user EXCEPT !.said = n, !.pending = p]
  BY DEF Utterance
<1> HIDE DEF n, p
<1>3. Utterance.said = n /\ Utterance.pending = n /\ Utterance \in [up : BOOLEAN, said : Nat, pending : Nat]
  BY <1>1, <1>2
<1> QED
  BY <1>3 DEF n

\* _acquire_opener: the first utterance, or an end without any.
LEMMA OpenerGood ==
  ASSUME DialogInv, Opener
  PROVE  DialogInv'
<1>1. /\ pc = "opener" /\ UNCHANGED <<cfg, turn, pairs, last, reason, recs, passed, vec, judge, row>>
      /\ \/ user' = Utterance /\ spent' \in {spent, spent + 1} /\ pc' = "agent" /\ exc' = exc /\ tele' = tele
         \/ /\ pc' = "finally" /\ exc' = exc /\ UNCHANGED <<user, spent>>
            /\ tele' \in {<<"error", 0>>, <<"stop_token", 0>>}
         \/ pc' = "finally" /\ exc' = "cancel" /\ UNCHANGED <<user, spent, tele>>
  BY DEF Opener, Goto, Raise, Cut, graded
<1>2. /\ TypeOK /\ user.said = pairs /\ user.pending = 0 /\ turn = 0 /\ pairs = turn /\ exc = "none"
      /\ tele = << >> /\ reason = "none" /\ ~ last.broken /\ Spoken(recs, user.said)
  BY <1>1 DEF DialogInv, VerdictOfLastTurn, SpeechTrue, EndsTrue, ReasonTrue, Within, Ends
<1>3. /\ user' \in [up : BOOLEAN, said : Nat, pending : Nat]
      /\ \/ user' = user /\ pc' = "finally"
         \/ pc' = "agent" /\ user'.said = user.said + 1 /\ user'.pending = user.said + 1
  BY <1>1, <1>2, UtteranceFacts DEF TypeOK
<1>4. TypeOK'
  <2>1. user'.pending \in 0..user'.said /\ spent' \in Nat
    BY <1>1, <1>2, <1>3, CfgFacts
  <2>2. tele' \in {<< >>} \cup {<<r, n>> : r \in Reasons \ {"none"}, n \in 0..cfg.maxTurns}
    BY <1>1, <1>2, CfgFacts DEF Reasons
  <2> QED
    BY <1>1, <1>2, <1>3, <2>1, <2>2 DEF TypeOK, Pcs, Exceptions
<1>5. SpeechTrue'
  <2>1. user.said \in Nat /\ cfg.maxTurns \in Nat \ {0} /\ user.said = 0
    BY <1>2, CfgFacts
  <2>2. CASE user' = user /\ pc' = "finally"
    BY <1>1, <1>2, <2>1, <2>2 DEF SpeechTrue, Ends
  <2>3. CASE pc' = "agent" /\ user'.said = user.said + 1 /\ user'.pending = user.said + 1
    <3>1. user'.said - 1 = user.said /\ user'.pending # 0
      BY <2>1, <2>3
    <3> QED
      BY <1>1, <1>2, <2>1, <2>3, <3>1 DEF SpeechTrue, Ends
  <2> QED
    BY <1>1, <1>3, <2>2, <2>3
<1>6. ReasonTrue'
  BY <1>1, <1>2 DEF ReasonTrue, Within
<1>7. EndsTrue'
  BY <1>1, <1>2 DEF EndsTrue, Ends
<1>8. ChecksTrue' /\ RowTrue'
  BY <1>1, <1>2, CfgFacts DEF DialogInv, ChecksTrue, RowTrue, Ends
<1> QED
  BY <1>1, <1>4, <1>5, <1>6, <1>7, <1>8 DEF DialogInv, VerdictOfLastTurn

\* Before a turn one utterance is pending, and nothing has happened yet that
\* would end the dialog.
LEMMA AgentFacts ==
  ASSUME DialogInv, pc = "agent"
  PROVE  /\ TypeOK /\ user.pending = user.said /\ user.said = pairs + 1 /\ pairs = turn
         /\ turn < cfg.maxTurns /\ exc = "none" /\ tele = << >> /\ reason = "none" /\ Spoken(recs, pairs)
         /\ row.phase \in {"none", "execution"} /\ ~ row.complete /\ ~ last.broken
<1>1. TypeOK
  BY DEF DialogInv, VerdictOfLastTurn
<1>2. /\ user.pending = user.said /\ user.said = pairs + 1 /\ pairs = turn /\ turn < cfg.maxTurns
      /\ Spoken(recs, IF user.pending = 0 THEN user.said ELSE user.said - 1)
  BY DEF DialogInv, SpeechTrue, Ends
<1>3. user.said - 1 = pairs /\ user.pending # 0
  BY <1>1, <1>2, CfgFacts
<1>4. exc = "none" /\ tele = << >> /\ reason = "none" /\ ~ last.broken
  BY DEF DialogInv, EndsTrue, ReasonTrue, Within, Ends
<1>5. row.phase \in {"none", "execution"} /\ ~ row.complete
  BY DEF DialogInv, RowTrue, Ends
<1> QED
  BY <1>1, <1>2, <1>3, <1>4, <1>5

\* _communicate_with_retry: the turn takes the utterance that prompted it.
LEMMA TurnGood ==
  ASSUME DialogInv, AgentTurn
  PROVE  DialogInv'
<1>1. /\ TypeOK /\ pc = "agent" /\ user.pending = user.said /\ user.said = pairs + 1 /\ pairs = turn
      /\ turn < cfg.maxTurns /\ exc = "none" /\ tele = << >> /\ reason = "none" /\ Spoken(recs, pairs)
      /\ row.phase \in {"none", "execution"} /\ ~ row.complete
  BY AgentFacts DEF AgentTurn
<1>2. PICK k \in 0..MaxPartials, maxed \in BOOLEAN :
        LET records == recs \o Partials(k) \o <<[kind |-> "turn", no |-> turn + 1, says |-> user.pending]>> IN
        /\ recs' = records /\ user' = [user EXCEPT !.pending = 0]
        /\ pairs' = pairs + 1 /\ spent' = spent + 1
        /\ last' = [maxed |-> maxed, broken |-> LimitBroken(records)]
        /\ row' = IF LimitBroken(records) THEN [row EXCEPT !.status = "BUDGET_EXCEEDED", !.phase = "execution"]
                  ELSE row
  BY DEF AgentTurn
<1>3. /\ turn' = turn + 1 /\ passed' = [passed EXCEPT !.now = FALSE]
      /\ pc' = (IF cfg.check \in {"every_turn", "both"} THEN "turncheck" ELSE "gate")
      /\ UNCHANGED <<cfg, reason, vec, judge, tele, exc>>
  BY DEF AgentTurn, Goto
<1>4. recs' \in Seq(Record) /\ Spoken(recs', pairs + 1)
  <2>1. recs \in Seq(Record) /\ k \in Nat
    BY <1>1, DialogAssumption DEF TypeOK, Record
  <2>2. pairs \in Nat /\ turn \in Nat /\ user.pending = pairs + 1
    BY <1>1, CfgFacts
  <2> QED
    BY <1>1, <1>2, <2>1, <2>2, TurnRecorded
<1>5. LimitBroken(recs') \in BOOLEAN /\ LimitBroken(recs)' = LimitBroken(recs')
  BY <1>3 DEF LimitBroken
<1>6. last'.broken = LimitBroken(recs)' /\ last' \in [maxed : BOOLEAN, broken : BOOLEAN]
  BY <1>2, <1>5
<1>7. /\ user' \in [up : BOOLEAN, said : Nat, pending : Nat] /\ user'.said = user.said /\ user'.pending = 0
      /\ passed' \in [all : BOOLEAN, now : BOOLEAN] /\ passed'.all = passed.all /\ ~ passed'.now
  <2>1. user' = [user EXCEPT !.pending = 0] /\ user \in [up : BOOLEAN, said : Nat, pending : Nat]
    BY <1>1, <1>2 DEF TypeOK
  <2>2. passed' = [passed EXCEPT !.now = FALSE] /\ passed \in [all : BOOLEAN, now : BOOLEAN]
    BY <1>1, <1>3 DEF TypeOK
  <2> QED
    BY <2>1, <2>2
<1>8. /\ row'.phase \in {"none", "execution"} /\ ~ row'.complete
      /\ row' \in [status : {"FAILURE", "SUCCESS", "NOT_GRADED", "MAX_TURNS_EXHAUSTED", "ERROR",
                             "TIMEOUT", "BUDGET_EXCEEDED"},
                   phase : {"none", "execution", "grading"}, complete : BOOLEAN]
  <2>1. row' = [row EXCEPT !.status = "BUDGET_EXCEEDED", !.phase = "execution"] \/ row' = row
    BY <1>2
  <2>2. row \in [status : {"FAILURE", "SUCCESS", "NOT_GRADED", "MAX_TURNS_EXHAUSTED", "ERROR",
                           "TIMEOUT", "BUDGET_EXCEEDED"},
                 phase : {"none", "execution", "grading"}, complete : BOOLEAN]
    BY <1>1 DEF TypeOK
  <2> QED
    BY <1>1, <2>1, <2>2
<1>9. TypeOK'
  <2>1. turn' \in 0..cfg.maxTurns /\ pairs' = turn' /\ pairs' \in Nat /\ spent' \in Nat
    BY <1>1, <1>2, <1>3, CfgFacts
  <2>2. user'.pending \in 0..user'.said
    BY <1>1, <1>7, CfgFacts
  <2>3. pc' \in Pcs
    BY <1>3 DEF Pcs, Checks
  <2> QED
    BY <1>1, <1>3, <1>4, <1>6, <1>7, <1>8, <2>1, <2>2, <2>3 DEF TypeOK, Record
<1>10. SpeechTrue'
  BY <1>1, <1>2, <1>3, <1>4, <1>7, CfgFacts DEF SpeechTrue, Ends
<1>11. ReasonTrue'
  BY <1>1, <1>3, <1>6 DEF ReasonTrue, Within
<1>12. EndsTrue' /\ RowTrue'
  BY <1>1, <1>3, <1>8 DEF EndsTrue, RowTrue, Ends
<1>13. ChecksTrue'
  <2>1. cfg.check \in {"every_turn", "both"} => cfg.grade
    BY <1>1, CfgFacts DEF Valid
  <2> QED
    BY <1>1, <1>3, <1>7, <2>1, CfgFacts DEF DialogInv, ChecksTrue, Ends
<1> QED
  BY <1>3, <1>9, <1>10, <1>11, <1>12, <1>13 DEF DialogInv, VerdictOfLastTurn

\* The last attempt fails: what the failed ones left is on the row.
LEMMA FailGood ==
  ASSUME DialogInv, AgentFails
  PROVE  DialogInv'
<1>1. /\ TypeOK /\ pc = "agent" /\ user.pending = user.said /\ user.said = pairs + 1 /\ pairs = turn
      /\ turn < cfg.maxTurns /\ exc = "none" /\ tele = << >> /\ reason = "none" /\ Spoken(recs, pairs)
      /\ row.phase \in {"none", "execution"} /\ ~ row.complete /\ ~ last.broken
  BY AgentFacts DEF AgentFails
<1>2. PICK k \in 0..MaxPartials : recs' = recs \o Partials(k)
  BY DEF AgentFails
<1>3. /\ turn' = turn + 1 /\ pc' = "finally" /\ exc' \in {"crash", "cancel"}
      /\ UNCHANGED <<cfg, pairs, user, spent, last, reason, passed, vec, judge, tele, row>>
  BY DEF AgentFails, Raise, Cut, graded, ended
<1>4. recs' \in Seq(Record) /\ Spoken(recs', pairs)
  <2>1. recs \in Seq(Record) /\ k \in Nat /\ pairs \in Nat /\ turn \in Nat
    BY <1>1, CfgFacts, DialogAssumption DEF TypeOK, Record
  <2> QED
    BY <1>1, <1>2, <2>1, PartialsTyped, SpokenMore
<1>5. TypeOK'
  <2>1. turn' \in 0..cfg.maxTurns /\ pairs' = turn' - 1 /\ pairs' \in Nat
    BY <1>1, <1>3, CfgFacts
  <2> QED
    BY <1>1, <1>3, <1>4, <2>1 DEF TypeOK, Record, Pcs, Exceptions
<1>6. SpeechTrue'
  BY <1>1, <1>3, <1>4, CfgFacts DEF SpeechTrue, Ends
<1>7. ReasonTrue' /\ EndsTrue' /\ RowTrue'
  BY <1>1, <1>3 DEF ReasonTrue, EndsTrue, RowTrue, Within, Ends
<1>8. ChecksTrue'
  BY <1>1, <1>3, CfgFacts DEF DialogInv, ChecksTrue, Ends
<1> QED
  BY <1>3, <1>5, <1>6, <1>7, <1>8 DEF DialogInv, VerdictOfLastTurn

\* _run_dialog_criteria_check to its end: a vector of the turn, with the usage
\* of every check.
LEMMA CheckedFacts ==
  ASSUME DialogInv, Checked
  PROVE  /\ judge' \in [calls : Nat, accum : Nat] /\ judge'.accum = judge'.calls
         /\ vec' \in [of : Nat, pass : BOOLEAN, usage : Nat, plain : BOOLEAN]
         /\ vec'.of = turn /\ (~ vec'.plain => vec'.usage = judge'.calls)
<1>1. PICK pass \in BOOLEAN, used \in {0, 1}, plain \in BOOLEAN :
        /\ judge' = Booked(used)
        /\ vec' = [of |-> turn, pass |-> pass, plain |-> plain, usage |-> IF plain THEN 0 ELSE judge'.accum]
  BY DEF Checked
<1>2. judge.accum = judge.calls /\ judge.calls \in Nat /\ turn \in Nat
  BY CfgFacts DEF DialogInv, VerdictOfLastTurn, TypeOK, ChecksTrue
<1>3. judge' \in [calls : Nat, accum : Nat] /\ judge'.accum = judge'.calls
  BY <1>1, <1>2 DEF Booked
<1> DEFINE u == IF plain THEN 0 ELSE judge'.accum
<1>4. u \in Nat /\ (~ plain => u = judge'.calls)
  BY <1>3
<1>5. vec' = [of |-> turn, pass |-> pass, plain |-> plain, usage |-> u]
  BY <1>1
<1> HIDE DEF u
<1>6. vec'.of = turn /\ vec'.pass = pass /\ vec'.plain = plain /\ vec'.usage = u
  BY <1>5
<1> QED
  BY <1>2, <1>3, <1>4, <1>5, <1>6

\* What every check finds when it begins.
LEMMA CheckFacts ==
  ASSUME DialogInv, pc \in {"turncheck", "limitcheck", "endcheck"}
  PROVE  TypeOK /\ exc = "none" /\ tele = << >> /\ cfg.grade /\ row.phase \in {"none", "execution"}
BY DEF DialogInv, VerdictOfLastTurn, EndsTrue, ChecksTrue, RowTrue, Ends

\* A check that raises leaves the loop with what earlier checks left.
LEMMA CheckRaisesGood ==
  ASSUME DialogInv, pc \in {"turncheck", "limitcheck", "endcheck"}, CheckRaises,
         UNCHANGED <<cfg, turn, pairs, user, spent, last, reason, recs, tele, row>>
  PROVE  DialogInv'
<1>1. /\ pc' = "finally" /\ exc' \in {"tampered", "grading", "cancel"}
      /\ UNCHANGED <<passed, vec, judge>>
  BY DEF CheckRaises, Raise, Cut, graded
<1>2. TypeOK /\ exc = "none" /\ tele = << >> /\ cfg.grade /\ row.phase \in {"none", "execution"}
  BY CheckFacts
<1>3. TypeOK'
  BY <1>1, <1>2 DEF TypeOK, Pcs, Exceptions
<1>4. SpeechTrue'
  BY <1>1 DEF DialogInv, SpeechTrue, Ends
<1>5. ReasonTrue'
  <2>1. /\ last.broken => LimitBroken(recs)
        /\ reason # "none" => ReasonHolds(reason)
        /\ last.broken => reason \in {"none", "run_limit_exceeded"}
    BY DEF DialogInv, ReasonTrue
  <2> QED
    BY <1>1, <1>2, <2>1, ReasonStays DEF ReasonTrue, Within, TypeOK
<1>6. EndsTrue' /\ ChecksTrue' /\ RowTrue'
  BY <1>1, <1>2 DEF DialogInv, EndsTrue, ChecksTrue, RowTrue, Ends
<1> QED
  BY <1>1, <1>3, <1>4, <1>5, <1>6 DEF DialogInv, VerdictOfLastTurn

\* The check per turn, and the one at the end.
LEMMA CheckGood ==
  ASSUME DialogInv, NEW p, NEW next, CheckStep(p, next),
         \/ p = "turncheck" /\ next = "gate"
         \/ p = "endcheck" /\ next = "return"
  PROVE  DialogInv'
<1>1. /\ pc = p /\ UNCHANGED <<cfg, turn, pairs, user, spent, last, reason, recs, tele, row>>
      /\ \/ Checked /\ pc' = next /\ exc' = exc /\ passed' = [all |-> vec'.pass, now |-> TRUE]
         \/ CheckRaises
  BY DEF CheckStep, Goto, ended
<1>2. CASE CheckRaises
  BY <1>1, <1>2, CheckRaisesGood
<1>3. CASE Checked /\ pc' = next /\ exc' = exc /\ passed' = [all |-> vec'.pass, now |-> TRUE]
  <2>1. TypeOK /\ exc = "none" /\ tele = << >> /\ cfg.grade /\ row.phase \in {"none", "execution"}
    BY <1>1, CheckFacts
  <2>2. /\ judge' \in [calls : Nat, accum : Nat] /\ judge'.accum = judge'.calls
        /\ vec' \in [of : Nat, pass : BOOLEAN, usage : Nat, plain : BOOLEAN]
        /\ vec'.of = turn /\ (~ vec'.plain => vec'.usage = judge'.calls)
    BY <1>3, CheckedFacts
  <2>3. passed'.all = vec'.pass /\ passed'.now /\ passed' \in [all : BOOLEAN, now : BOOLEAN]
    BY <1>3, <2>2
  <2>4. TypeOK'
    BY <1>1, <1>3, <2>1, <2>2, <2>3 DEF TypeOK, Pcs, Checks
  <2>5. SpeechTrue'
    BY <1>1, <1>3 DEF DialogInv, SpeechTrue, Ends
  <2>6. ReasonTrue'
    <3>1. /\ last.broken => LimitBroken(recs)
          /\ reason # "none" => ReasonHolds(reason)
          /\ last.broken => reason \in {"none", "run_limit_exceeded"}
          /\ p = "turncheck" => reason = "none"
          /\ p = "endcheck" => reason \notin {"none", "run_limit_exceeded"} /\ ~ last.broken
      BY <1>1 DEF DialogInv, ReasonTrue, Within
    <3>2. reason \in Reasons
      BY <2>1 DEF TypeOK
    <3> QED
      BY <1>1, <1>3, <2>1, <3>1, <3>2, ReasonStays DEF ReasonTrue, Within
  <2>7. EndsTrue' /\ RowTrue'
    BY <1>1, <1>3, <2>1 DEF DialogInv, EndsTrue, RowTrue, Ends
  <2>8. ChecksTrue'
    <3>1. turn > 0 /\ turn \in Nat
      BY <1>1, <2>1, CfgFacts DEF DialogInv, SpeechTrue, Ends
    <3> QED
      BY <1>1, <1>3, <2>1, <2>2, <2>3, <3>1 DEF ChecksTrue, Ends
  <2> QED
    BY <1>1, <1>3, <2>4, <2>5, <2>6, <2>7, <2>8 DEF DialogInv, VerdictOfLastTurn
<1> QED
  BY <1>1, <1>2, <1>3

\* The fall-back in front of a broken limit.
LEMMA LimitCheckGood ==
  ASSUME DialogInv, LimitCheck
  PROVE  DialogInv'
<1>1. /\ pc = "limitcheck" /\ UNCHANGED <<cfg, turn, pairs, user, spent, last, reason, recs, tele, row>>
      /\ \/ Checked /\ pc' = "finally" /\ exc' = "limit" /\ passed' = passed
         \/ CheckRaises
  BY DEF LimitCheck, Raise, ended
<1>2. CASE CheckRaises
  BY <1>1, <1>2, CheckRaisesGood
<1>3. CASE Checked /\ pc' = "finally" /\ exc' = "limit" /\ passed' = passed
  <2>1. TypeOK /\ exc = "none" /\ tele = << >> /\ cfg.grade /\ row.phase \in {"none", "execution"}
    BY <1>1, CheckFacts
  <2>2. /\ judge' \in [calls : Nat, accum : Nat] /\ judge'.accum = judge'.calls
        /\ vec' \in [of : Nat, pass : BOOLEAN, usage : Nat, plain : BOOLEAN]
        /\ vec'.of = turn /\ (~ vec'.plain => vec'.usage = judge'.calls)
    BY <1>3, CheckedFacts
  <2>3. TypeOK'
    BY <1>1, <1>3, <2>1, <2>2 DEF TypeOK, Pcs, Exceptions
  <2>4. SpeechTrue' /\ turn > 0 /\ turn \in Nat
    BY <1>1, <1>3, <2>1, CfgFacts DEF DialogInv, SpeechTrue, Ends
  <2>5. ReasonTrue'
    <3>1. LimitBroken(recs) /\ ReasonHolds(reason) /\ reason = "run_limit_exceeded"
      BY <1>1 DEF DialogInv, ReasonTrue
    <3> QED
      BY <1>1, <1>3, <3>1, ReasonStays DEF ReasonTrue, Within, Reasons
  <2>6. EndsTrue' /\ RowTrue'
    BY <1>1, <1>3, <2>1 DEF DialogInv, EndsTrue, RowTrue, Ends
  <2>7. ChecksTrue'
    BY <1>1, <1>3, <2>1, <2>2, <2>4 DEF ChecksTrue, Ends
  <2> QED
    BY <1>3, <2>3, <2>4, <2>5, <2>6, <2>7 DEF DialogInv, VerdictOfLastTurn
<1> QED
  BY <1>1, <1>2, <1>3

\* A broken limit: with the partial credit, unless it is there already.
LEMMA BreakGood ==
  ASSUME DialogInv, BreakLimit
  PROVE  DialogInv'
<1>1. /\ pc = "gate" /\ last.broken /\ reason' = "run_limit_exceeded"
      /\ UNCHANGED <<cfg, turn, pairs, user, spent, last, recs, passed, vec, judge, tele, row>>
      /\ \/ cfg.grade /\ pc' = "limitcheck" /\ exc' = exc
         \/ (~ cfg.grade \/ passed.now) /\ pc' = "finally" /\ exc' = "limit"
  BY DEF BreakLimit, Goto, Raise, graded, ended
<1>2. TypeOK /\ exc = "none" /\ tele = << >> /\ LimitBroken(recs) /\ row.phase \in {"none", "execution"}
      /\ ~ row.complete
  BY <1>1 DEF DialogInv, VerdictOfLastTurn, EndsTrue, ReasonTrue, RowTrue, Ends
<1>3. TypeOK'
  BY <1>1, <1>2 DEF TypeOK, Pcs, Checks, Exceptions, Reasons
<1>4. SpeechTrue'
  BY <1>1 DEF DialogInv, SpeechTrue, Ends
<1>5. ReasonTrue'
  <2>1. ReasonHolds("run_limit_exceeded")
    BY <1>2 DEF ReasonHolds
  <2> QED
    BY <1>1, <1>2, <2>1, ReasonStays DEF ReasonTrue, Within, Reasons
<1>6. EndsTrue' /\ RowTrue'
  BY <1>1, <1>2 DEF EndsTrue, RowTrue, Ends
<1>7. ChecksTrue'
  BY <1>1, <1>2 DEF DialogInv, ChecksTrue, Ends
<1> QED
  BY <1>1, <1>3, <1>4, <1>5, <1>6, <1>7 DEF DialogInv, VerdictOfLastTurn

\* What the code knows once the limits are behind the turn.
LEMMA GateFacts ==
  ASSUME DialogInv, pc \in {"gate", "user"}, ~ last.broken
  PROVE  /\ TypeOK /\ exc = "none" /\ tele = << >> /\ reason = "none"
         /\ row.phase \in {"none", "execution"} /\ ~ row.complete
         /\ user.pending = 0 /\ user.said = pairs /\ pairs = turn /\ turn > 0 /\ Spoken(recs, user.said)
BY DEF DialogInv, VerdictOfLastTurn, EndsTrue, ReasonTrue, RowTrue, SpeechTrue, Ends, Within

\* evaluate_stop: what it says is true.
LEMMA StopTrue ==
  ASSUME TypeOK, StopDecision # "none"
  PROVE  /\ StopDecision \in Reasons \ {"none", "run_limit_exceeded"}
         /\ ReasonHolds(StopDecision)
<1>1. turn \in Nat /\ cfg.maxTurns \in Nat /\ turn <= cfg.maxTurns
  BY CfgFacts DEF TypeOK
<1> QED
  BY <1>1 DEF StopDecision, Reasons, ReasonHolds

\* The loop is left for a reason that holds.
LEMMA StopGood ==
  ASSUME DialogInv, pc \in {"gate", "user"}, ~ last.broken,
         NEW r \in Reasons \ {"none", "run_limit_exceeded"}, Stop(r), ReasonHolds(r)',
         TypeOK', UNCHANGED <<cfg, turn, pairs, last, recs, passed, vec, judge, tele, row>>,
         \/ user' = user
         \/ user'.said = user.said + 1 /\ user'.pending = user.said + 1
  PROVE  DialogInv'
<1>1. reason' = r /\ pc' = "final" /\ exc' = exc
  BY DEF Stop, Goto
<1>2. /\ TypeOK /\ exc = "none" /\ tele = << >> /\ reason = "none"
      /\ row.phase \in {"none", "execution"} /\ ~ row.complete
      /\ user.pending = 0 /\ user.said = pairs /\ pairs = turn /\ turn > 0 /\ Spoken(recs, user.said)
  BY GateFacts
<1>3. SpeechTrue'
  <2>1. user.said \in Nat
    BY <1>2, CfgFacts
  <2>2. CASE user' = user
    BY <1>1, <1>2, <2>2 DEF SpeechTrue, Ends
  <2>3. CASE user'.said = user.said + 1 /\ user'.pending = user.said + 1
    <3>1. user'.said - 1 = user.said /\ user'.pending # 0
      BY <2>1, <2>3
    <3> QED
      BY <1>1, <1>2, <2>3, <3>1 DEF SpeechTrue, Ends
  <2> QED
    BY <2>2, <2>3
<1>4. ReasonTrue'
  BY <1>1, <1>2 DEF ReasonTrue, Within
<1>5. EndsTrue' /\ RowTrue'
  BY <1>1, <1>2 DEF EndsTrue, RowTrue, Ends
<1>6. ChecksTrue'
  BY <1>1, <1>2 DEF DialogInv, ChecksTrue, Ends
<1> QED
  BY <1>1, <1>3, <1>4, <1>5, <1>6 DEF DialogInv, VerdictOfLastTurn

\* Behind a turn: the first reason to stop, or the user.
LEMMA GateGood ==
  ASSUME DialogInv, Gate
  PROVE  DialogInv'
<1>1. /\ pc = "gate" /\ ~ last.broken
      /\ UNCHANGED <<cfg, turn, pairs, user, spent, last, recs, passed, vec, judge, tele, row>>
      /\ \/ StopDecision # "none" /\ Stop(StopDecision)
         \/ last.maxed /\ Stop("agent_max_turns")
         \/ StopDecision = "none" /\ pc' = "user" /\ exc' = exc /\ reason' = reason
  BY DEF Gate, Goto, talk, graded, ended
<1>2. /\ TypeOK /\ exc = "none" /\ tele = << >> /\ reason = "none"
      /\ row.phase \in {"none", "execution"} /\ ~ row.complete
      /\ user.pending = 0 /\ user.said = pairs /\ pairs = turn /\ turn > 0 /\ Spoken(recs, user.said)
  BY <1>1, GateFacts
<1>3. ASSUME NEW r \in Reasons \ {"none", "run_limit_exceeded"}, Stop(r), ReasonHolds(r)
      PROVE  DialogInv'
  <2>1. TypeOK'
    BY <1>1, <1>2, <1>3 DEF TypeOK, Stop, Goto, Pcs
  <2>2. ReasonHolds(r)'
    BY <1>1, <1>3, ReasonStays
  <2> QED
    BY <1>1, <1>3, <2>1, <2>2, StopGood
<1>4. CASE StopDecision # "none" /\ Stop(StopDecision)
  BY <1>2, <1>3, <1>4, StopTrue
<1>5. CASE last.maxed /\ Stop("agent_max_turns")
  BY <1>3, <1>5 DEF Reasons, ReasonHolds
<1>6. CASE StopDecision = "none" /\ pc' = "user" /\ exc' = exc /\ reason' = reason
  <2>1. turn < cfg.maxTurns
    BY <1>2, <1>6, CfgFacts DEF StopDecision
  <2>2. TypeOK'
    BY <1>1, <1>2, <1>6 DEF TypeOK, Pcs
  <2>3. SpeechTrue'
    BY <1>1, <1>2, <1>6, <2>1 DEF SpeechTrue, Ends
  <2>4. ReasonTrue' /\ EndsTrue' /\ RowTrue'
    BY <1>1, <1>2, <1>6 DEF ReasonTrue, EndsTrue, RowTrue, Within, Ends
  <2>5. ChecksTrue'
    BY <1>1, <1>2, <1>6 DEF DialogInv, ChecksTrue, Ends
  <2> QED
    BY <1>6, <2>2, <2>3, <2>4, <2>5 DEF DialogInv, VerdictOfLastTurn
<1> QED
  BY <1>1, <1>4, <1>5, <1>6

\* _solicit_user_message.
LEMMA SpeakGood ==
  ASSUME DialogInv, UserSpeaks
  PROVE  DialogInv'
<1>1. /\ pc = "user" /\ UNCHANGED <<cfg, turn, pairs, last, recs, passed, vec, judge, tele, row>>
      /\ \/ user' = Utterance /\ spent' = spent + Costs /\ pc' = "agent" /\ exc' = exc /\ reason' = reason
         \/ user' = Utterance /\ spent' = spent + Costs /\ Stop("stop_token")
         \/ user' = user /\ spent' = spent /\ Stop("error")
         \/ user' = user /\ spent' = spent /\ reason' = reason /\ pc' = "finally" /\ exc' = "cancel"
  BY DEF UserSpeaks, Goto, Cut, Raise, graded, ended
<1>2. /\ TypeOK /\ exc = "none" /\ tele = << >> /\ reason = "none" /\ ~ last.broken
      /\ row.phase \in {"none", "execution"} /\ ~ row.complete /\ turn < cfg.maxTurns
      /\ user.pending = 0 /\ user.said = pairs /\ pairs = turn /\ turn > 0 /\ Spoken(recs, user.said)
  <2>1. ~ last.broken /\ turn < cfg.maxTurns
    BY <1>1 DEF DialogInv, ReasonTrue, SpeechTrue
  <2> QED
    BY <1>1, <2>1, GateFacts
<1>3. /\ user.said \in Nat /\ turn \in Nat /\ spent \in Nat /\ cfg.maxTurns \in Nat
      /\ Utterance \in [up : BOOLEAN, said : Nat, pending : Nat]
      /\ Utterance.said = user.said + 1 /\ Utterance.pending = user.said + 1
      /\ Utterance.pending \in 0..Utterance.said /\ spent + Costs \in Nat
  BY <1>2, CfgFacts, UtteranceFacts DEF Costs
<1>4. CASE user' = Utterance /\ spent' = spent + Costs /\ pc' = "agent" /\ exc' = exc /\ reason' = reason
  <2>1. TypeOK'
    BY <1>1, <1>2, <1>3, <1>4 DEF TypeOK, Pcs
  <2>2. SpeechTrue'
    <3>1. user'.said - 1 = user.said /\ user'.pending # 0
      BY <1>3, <1>4
    <3> QED
      BY <1>1, <1>2, <1>3, <1>4, <3>1 DEF SpeechTrue, Ends
  <2>3. ReasonTrue' /\ EndsTrue' /\ RowTrue'
    BY <1>1, <1>2, <1>4 DEF ReasonTrue, EndsTrue, RowTrue, Within, Ends
  <2>4. ChecksTrue'
    BY <1>1, <1>2, <1>4 DEF DialogInv, ChecksTrue, Ends
  <2> QED
    BY <1>4, <2>1, <2>2, <2>3, <2>4 DEF DialogInv, VerdictOfLastTurn
<1>5. CASE user' = Utterance /\ spent' = spent + Costs /\ Stop("stop_token")
  <2>1. TypeOK'
    BY <1>1, <1>2, <1>3, <1>5 DEF TypeOK, Stop, Goto, Pcs, Reasons
  <2>2. ReasonHolds("stop_token")' /\ "stop_token" \in Reasons \ {"none", "run_limit_exceeded"}
    BY DEF ReasonHolds, Reasons
  <2> QED
    BY <1>1, <1>2, <1>3, <1>5, <2>1, <2>2, StopGood
<1>6. CASE user' = user /\ spent' = spent /\ Stop("error")
  <2>1. TypeOK'
    BY <1>1, <1>2, <1>6 DEF TypeOK, Stop, Goto, Pcs, Reasons
  <2>2. ReasonHolds("error")' /\ "error" \in Reasons \ {"none", "run_limit_exceeded"}
    BY DEF ReasonHolds, Reasons
  <2> QED
    BY <1>1, <1>2, <1>6, <2>1, <2>2, StopGood
<1>7. CASE user' = user /\ spent' = spent /\ reason' = reason /\ pc' = "finally" /\ exc' = "cancel"
  <2>1. TypeOK'
    BY <1>1, <1>2, <1>7 DEF TypeOK, Pcs, Exceptions
  <2>2. SpeechTrue'
    BY <1>1, <1>2, <1>7 DEF SpeechTrue, Ends
  <2>3. ReasonTrue' /\ EndsTrue' /\ RowTrue'
    BY <1>1, <1>2, <1>7 DEF ReasonTrue, EndsTrue, RowTrue, Within, Ends
  <2>4. ChecksTrue'
    BY <1>1, <1>2, <1>7 DEF DialogInv, ChecksTrue, Ends
  <2> QED
    BY <1>7, <2>1, <2>2, <2>3, <2>4 DEF DialogInv, VerdictOfLastTurn
<1> QED
  BY <1>1, <1>4, <1>5, <1>6, <1>7

\* The dialog has come to its end: graded once more where that is owed.
LEMMA EndGood ==
  ASSUME DialogInv, EndDialog
  PROVE  DialogInv'
<1>1. /\ pc = "final" /\ exc' = exc
      /\ UNCHANGED <<cfg, turn, pairs, user, spent, last, reason, recs, passed, vec, judge, tele>>
      /\ \/ cfg.grade /\ pc' = "endcheck"
         \/ (~ cfg.grade \/ passed.now) /\ pc' = "return"
  BY DEF EndDialog, EndCheckOwed, Goto, talk, graded
<1>2. TypeOK /\ exc = "none" /\ tele = << >> /\ row.phase \in {"none", "execution"}
  BY <1>1 DEF DialogInv, VerdictOfLastTurn, EndsTrue, RowTrue, Ends
<1> DEFINE b == reason # "error"
<1>3. /\ row' = [row EXCEPT !.complete = b] /\ b \in BOOLEAN
      /\ row \in [status : {"FAILURE", "SUCCESS", "NOT_GRADED", "MAX_TURNS_EXHAUSTED", "ERROR",
                            "TIMEOUT", "BUDGET_EXCEEDED"},
                  phase : {"none", "execution", "grading"}, complete : BOOLEAN]
  BY <1>2 DEF EndDialog, TypeOK
<1>4. b => reason \notin {"none", "error"}
  BY <1>1 DEF DialogInv, ReasonTrue
<1> HIDE DEF b
<1>5. /\ row' \in [status : {"FAILURE", "SUCCESS", "NOT_GRADED", "MAX_TURNS_EXHAUSTED", "ERROR",
                             "TIMEOUT", "BUDGET_EXCEEDED"},
                   phase : {"none", "execution", "grading"}, complete : BOOLEAN]
      /\ row'.phase = row.phase /\ row'.complete = b
  BY <1>3
<1>6. TypeOK'
  BY <1>1, <1>2, <1>5 DEF TypeOK, Pcs, Checks
<1>7. SpeechTrue'
  BY <1>1 DEF DialogInv, SpeechTrue, Ends
<1>8. ReasonTrue'
  <2>1. reason \notin {"none", "run_limit_exceeded"} /\ ~ last.broken /\ ReasonHolds(reason)
    BY <1>1 DEF DialogInv, ReasonTrue
  <2> QED
    BY <1>1, <1>2, <2>1, ReasonStays DEF ReasonTrue, Within, TypeOK
<1>9. EndsTrue' /\ RowTrue'
  BY <1>1, <1>2, <1>4, <1>5 DEF EndsTrue, RowTrue, Ends
<1>10. ChecksTrue'
  BY <1>1, <1>2 DEF DialogInv, ChecksTrue, Ends
<1> QED
  BY <1>1, <1>6, <1>7, <1>8, <1>9, <1>10 DEF DialogInv, VerdictOfLastTurn

\* The telemetry of a dialog that returns.
LEMMA ReturnGood ==
  ASSUME DialogInv, Return
  PROVE  DialogInv'
<1>1. /\ pc = "return" /\ tele' = <<reason, turn>> /\ pc' = "finally" /\ exc' = exc
      /\ UNCHANGED <<cfg, turn, pairs, user, spent, last, reason, recs, passed, vec, judge, row>>
  BY DEF Return, Goto, talk, graded
<1>2. /\ TypeOK /\ exc = "none" /\ reason \notin {"none", "run_limit_exceeded"} /\ ~ last.broken
      /\ ReasonHolds(reason) /\ row.phase \in {"none", "execution"}
  BY <1>1 DEF DialogInv, VerdictOfLastTurn, EndsTrue, ReasonTrue, RowTrue, Ends
<1>3. tele' # << >>
  BY <1>1
<1>4. TypeOK'
  <2>1. reason \in Reasons \ {"none"} /\ turn \in 0..cfg.maxTurns
    BY <1>2 DEF TypeOK
  <2>2. tele' \in {<<r, n>> : r \in Reasons \ {"none"}, n \in 0..cfg.maxTurns}
    BY <1>1, <2>1
  <2> QED
    BY <1>1, <1>2, <2>2 DEF TypeOK, Pcs
<1>5. SpeechTrue'
  BY <1>1 DEF DialogInv, SpeechTrue, Ends
<1>6. ReasonTrue'
  BY <1>1, <1>2, ReasonStays DEF ReasonTrue, Within, TypeOK
<1>7. EndsTrue' /\ RowTrue'
  BY <1>1, <1>2, <1>3 DEF DialogInv, EndsTrue, RowTrue, Ends
<1>8. ChecksTrue'
  BY <1>1, <1>2 DEF DialogInv, ChecksTrue, Ends
<1> QED
  BY <1>1, <1>4, <1>5, <1>6, <1>7, <1>8 DEF DialogInv, VerdictOfLastTurn

\* The utterance that nobody answered gets a record of its own.
LEMMA UnansweredRecorded ==
  ASSUME DialogInv, pc = "finally"
  PROVE  Unanswered \in Seq(Record) /\ Spoken(Unanswered, user.said)
<1>1. /\ recs \in Seq(Record) /\ turn \in Nat /\ user.said \in Nat /\ user.pending \in {0, user.said}
      /\ Spoken(recs, IF user.pending = 0 THEN user.said ELSE user.said - 1)
      /\ user.pending # 0 => turn > 0
  BY CfgFacts DEF DialogInv, VerdictOfLastTurn, TypeOK, SpeechTrue, Record
<1>2. CASE user.pending = 0
  BY <1>1, <1>2 DEF Unanswered
<1>3. CASE user.pending # 0
  <2> DEFINE r == [kind |-> "standalone_user", no |-> turn, says |-> user.pending]
             n == user.said - 1
  <2>1. r \in Record /\ r.says = n + 1 /\ n \in Nat /\ n + 1 = user.said
    BY <1>1, <1>3 DEF Record
  <2>2. Unanswered = Append(recs, r) /\ Spoken(recs, n)
    BY <1>1, <1>3 DEF Unanswered
  <2> HIDE DEF r, n
  <2> QED
    BY <1>1, <2>1, <2>2, SpokenNext
<1> QED
  BY <1>2, <1>3

\* The loop's finally.
LEMMA FinallyGood ==
  ASSUME DialogInv, Finally
  PROVE  DialogInv'
<1>1. /\ pc = "finally" /\ recs' = Unanswered /\ tele' = Telemetry /\ pc' = "verdict"
      /\ UNCHANGED <<cfg, turn, pairs, spent, last, reason, passed, vec, judge, row>>
      /\ \/ user' = [user EXCEPT !.pending = 0, !.up = FALSE] /\ exc' = exc
         \/ user' = [user EXCEPT !.pending = 0] /\ exc' = "cancel"
  BY DEF Finally, graded
<1>2. TypeOK /\ row.phase \in {"none", "execution"}
  BY <1>1 DEF DialogInv, VerdictOfLastTurn, RowTrue
<1>3. recs' \in Seq(Record) /\ Spoken(recs', user.said)
  BY <1>1, UnansweredRecorded
<1>4. /\ user' \in [up : BOOLEAN, said : Nat, pending : Nat] /\ user'.said = user.said /\ user'.pending = 0
      /\ 0 \in 0..user'.said
  <2>1. user \in [up : BOOLEAN, said : Nat, pending : Nat]
    BY <1>2 DEF TypeOK
  <2>2. user' \in [up : BOOLEAN, said : Nat, pending : Nat] /\ user'.said = user.said /\ user'.pending = 0
    <3>1. CASE user' = [user EXCEPT !.pending = 0, !.up = FALSE]
      BY <2>1, <3>1
    <3>2. CASE user' = [user EXCEPT !.pending = 0]
      BY <2>1, <3>2
    <3> QED
      BY <1>1, <3>1, <3>2
  <2> QED
    BY <2>1, <2>2
<1>5. TypeOK'
  <2>1. tele' \in {<< >>} \cup {<<r, n>> : r \in Reasons \ {"none"}, n \in 0..cfg.maxTurns}
    <3>1. CASE tele = << >>
      <4> DEFINE r == IF reason = "none" THEN "error" ELSE reason
      <4>1. r \in Reasons \ {"none"} /\ turn \in 0..cfg.maxTurns
        BY <1>2 DEF TypeOK, Reasons
      <4>2. tele' = <<r, turn>>
        BY <1>1, <3>1 DEF Telemetry
      <4> HIDE DEF r
      <4> QED
        BY <4>1, <4>2
    <3>2. CASE tele # << >>
      BY <1>1, <1>2, <3>2 DEF Telemetry, TypeOK
    <3> QED
      BY <3>1, <3>2
  <2> QED
    BY <1>1, <1>2, <1>3, <1>4, <2>1 DEF TypeOK, Record, Pcs, Exceptions
<1>6. SpeechTrue'
  BY <1>1, <1>3, <1>4 DEF SpeechTrue, Ends
<1>7. ReasonTrue' /\ EndsTrue' /\ RowTrue'
  BY <1>1, <1>2 DEF DialogInv, ReasonTrue, EndsTrue, RowTrue, Within, Ends
<1>8. ChecksTrue'
  BY <1>1 DEF DialogInv, ChecksTrue, Ends
<1> QED
  BY <1>1, <1>5, <1>6, <1>7, <1>8 DEF DialogInv, VerdictOfLastTurn

\* What run() makes of it.
LEMMA VerdictGood ==
  ASSUME DialogInv, Verdict
  PROVE  DialogInv'
<1>1. /\ pc = "verdict" /\ row' = Judgement /\ pc' = "over"
      /\ UNCHANGED <<cfg, exc, turn, pairs, user, spent, last, reason, recs, passed, vec, judge, tele>>
  BY DEF Verdict, talk, graded
<1> DEFINE RowType == [status : {"FAILURE", "SUCCESS", "NOT_GRADED", "MAX_TURNS_EXHAUSTED", "ERROR",
                                 "TIMEOUT", "BUDGET_EXCEEDED"},
                       phase : {"none", "execution", "grading"}, complete : BOOLEAN]
<1>2. /\ TypeOK /\ exc \in Exceptions /\ row \in RowType /\ row.phase \in {"none", "execution"}
      /\ row.complete => reason \notin {"none", "error"}
      /\ turn \in Nat /\ vec.of \in Nat /\ vec.of <= turn
  BY <1>1, CfgFacts DEF DialogInv, VerdictOfLastTurn, TypeOK, RowTrue, ChecksTrue
<1>3. exc = "none" => (passed.all <=> vec.of = turn /\ vec.pass)
  <2> SUFFICES ASSUME exc = "none" PROVE passed.all <=> vec.of = turn /\ vec.pass
    OBVIOUS
  <2>1. /\ passed.all = vec.pass /\ (vec.of = 0 => ~ vec.pass) /\ (~ cfg.grade => vec.of = 0)
        /\ cfg.grade /\ turn > 0 => vec.of = turn
    BY <1>1 DEF DialogInv, ChecksTrue, Ends
  <2>2. vec.pass \in BOOLEAN
    BY <1>2 DEF TypeOK
  <2>3. vec.pass => vec.of = turn
    BY <1>2, <2>1
  <2> QED
    BY <2>1, <2>2, <2>3
<1>4. /\ row' \in RowType
      /\ row'.status = "SUCCESS" <=> exc = "none" /\ passed.all
      /\ row'.phase = "grading" => row.complete
      /\ row'.complete = row.complete
  <2>1. CASE exc = "none"
    <3>1. Terminal \in {"SUCCESS", "NOT_GRADED", "MAX_TURNS_EXHAUSTED", "FAILURE"}
          /\ (Terminal = "SUCCESS" <=> passed.all)
      BY DEF Terminal
    <3>2. row' = [row EXCEPT !.status = Terminal]
      BY <1>1, <2>1 DEF Judgement
    <3> QED
      BY <1>2, <2>1, <3>1, <3>2
  <2>2. CASE exc \in {"crash", "tampered"}
    <3>1. row' = [row EXCEPT !.status = "ERROR", !.phase = "execution"]
      BY <1>1, <2>2 DEF Judgement
    <3> QED
      BY <1>2, <2>2, <3>1
  <2>3. CASE exc = "limit"
    <3>1. row' = [row EXCEPT !.status = "BUDGET_EXCEEDED", !.phase = "execution"]
      BY <1>1, <2>3 DEF Judgement
    <3> QED
      BY <1>2, <2>3, <3>1
  <2>4. CASE exc = "cancel"
    <3>1. row' = [row EXCEPT !.status = "TIMEOUT", !.phase = "execution"]
      BY <1>1, <2>4 DEF Judgement
    <3> QED
      BY <1>2, <2>4, <3>1
  <2>5. CASE exc = "grading"
    <3>1. row' = GradingFailed
      BY <1>1, <2>5 DEF Judgement
    <3>2. CASE row.status = "BUDGET_EXCEEDED"
      BY <1>2, <2>5, <3>1, <3>2 DEF GradingFailed
    <3>3. CASE row.status # "BUDGET_EXCEEDED"
      <4> DEFINE p == IF row.complete THEN "grading" ELSE "execution"
      <4>1. row' = [row EXCEPT !.status = "ERROR", !.phase = p]
            /\ p \in {"grading", "execution"} /\ (p = "grading" => row.complete)
        BY <3>1, <3>3 DEF GradingFailed
      <4> HIDE DEF p
      <4> QED
        BY <1>2, <2>5, <4>1
    <3> QED
      BY <3>2, <3>3
  <2> QED
    BY <1>2, <2>1, <2>2, <2>3, <2>4, <2>5 DEF Exceptions
<1>5. TypeOK'
  BY <1>1, <1>2, <1>4 DEF TypeOK, Pcs
<1>6. SpeechTrue'
  BY <1>1 DEF DialogInv, SpeechTrue, Ends
<1>7. ReasonTrue' /\ EndsTrue' /\ RowTrue'
  BY <1>1, <1>2, <1>4 DEF DialogInv, ReasonTrue, EndsTrue, RowTrue, Within, Ends
<1>8. ChecksTrue'
  BY <1>1 DEF DialogInv, ChecksTrue, Ends
<1>9. VerdictOfLastTurn'
  <2>1. cfg.grade /\ turn > 0 /\ exc \in {"none", "limit"} => vec.of = turn
    BY <1>1 DEF DialogInv, ChecksTrue, Ends
  <2> QED
    BY <1>1, <1>2, <1>3, <1>4, <1>5, <2>1 DEF VerdictOfLastTurn
<1> QED
  BY <1>6, <1>7, <1>8, <1>9 DEF DialogInv

-----------------------------------------------------------------------------
(* The theorems.                                                           *)

\* DialogInv is an inductive invariant.
LEMMA DialogInductive ==
  /\ Init => DialogInv
  /\ DialogInv /\ [Next]_vars => DialogInv'
<1>1. ASSUME Init PROVE DialogInv
  <2>1. /\ cfg \in Configs /\ pc = "start" /\ exc = "none" /\ reason = "none"
        /\ turn = 0 /\ pairs = 0 /\ spent = 0
        /\ user = [up |-> FALSE, said |-> 0, pending |-> 0]
        /\ last = [maxed |-> FALSE, broken |-> FALSE]
        /\ passed = [all |-> FALSE, now |-> FALSE]
        /\ recs = << >> /\ vec = [of |-> 0, pass |-> FALSE, usage |-> 0, plain |-> FALSE]
        /\ judge = [calls |-> 0, accum |-> 0] /\ tele = << >>
        /\ row = [status |-> "FAILURE", phase |-> "none", complete |-> FALSE]
    BY <1>1 DEF Init
  <2>2. cfg.maxTurns \in Nat \ {0}
    BY <2>1, DialogAssumption DEF ConfigSpace
  <2>3. TypeOK
    <3>1. recs \in Seq([kind : {"turn", "partial", "standalone_user"}, no : Nat, says : Nat])
      BY <2>1
    <3>2. turn \in 0..cfg.maxTurns /\ pairs \in {turn, turn - 1} \cap Nat
      BY <2>1, <2>2
    <3> QED
      BY <2>1, <3>1, <3>2 DEF TypeOK, Pcs, Exceptions, Reasons
  <2>4. SpeechTrue
    BY <2>1, <2>2, SpokenEmpty DEF SpeechTrue, Ends
  <2>5. ReasonTrue /\ EndsTrue /\ ChecksTrue /\ RowTrue
    BY <2>1 DEF ReasonTrue, EndsTrue, ChecksTrue, RowTrue, Within, Ends
  <2> QED
    BY <2>1, <2>3, <2>4, <2>5 DEF DialogInv, VerdictOfLastTurn
<1>2. ASSUME DialogInv, Next PROVE DialogInv'
  BY <1>2, StartGood, OpenerGood, TurnGood, FailGood, CheckGood, LimitCheckGood, BreakGood, GateGood,
     SpeakGood, EndGood, ReturnGood, FinallyGood, VerdictGood
  DEF Next, TurnCheck, EndCheck
<1>3. ASSUME DialogInv, UNCHANGED vars PROVE DialogInv'
  <2>1. UNCHANGED <<cfg, pc, exc, turn, pairs, user, spent, last, passed, reason, recs, vec, judge, tele, row>>
    BY <1>3 DEF vars
  <2>2. ReasonTrue'
    BY <1>3, <2>1, ReasonStays DEF DialogInv, VerdictOfLastTurn, TypeOK, ReasonTrue
  <2> QED
    BY <1>3, <2>1, <2>2 DEF DialogInv, VerdictOfLastTurn, TypeOK, SpeechTrue, EndsTrue, ChecksTrue, RowTrue
<1> QED
  BY <1>1, <1>2, <1>3

\* A graded dialog is judged on the state of its last turn, its row invites a
\* detached grade only where the dialog came to an end of its own, and no
\* utterance and no judge call is missing from it (_simulation_dialog_loop,
\* _run_dialog_criteria_check, _handle_grading_error).
THEOREM DialogAccountedFor == Spec => []DialogTold
<1>1. DialogInv => DialogTold
  BY DEF DialogInv, DialogTold, NothingLost, SpeechTrue, ChecksTrue
<1> QED
  BY <1>1, DialogInductive, PTL DEF Spec

\* The stop reason is written once, and what it claims of turns, budget and
\* limits is so (evaluate_stop, the loop's finally).
THEOREM StopReasonTrue == Spec => StopsOnce
<1> DEFINE Told == tele' # tele =>
                     /\ tele = << >> /\ tele'[2] = turn
                     /\ ReasonHolds(tele'[1])
                     /\ last.broken => tele'[1] \in {"run_limit_exceeded", "error"}
<1>1. ASSUME DialogInv, [Next]_vars PROVE [Told]_vars
  <2> SUFFICES ASSUME Next, tele' # tele PROVE Told
    BY <1>1 DEF vars
  <2>1. CASE Opener
    <3>1. /\ tele' \in {<<"error", 0>>, <<"stop_token", 0>>} /\ pc = "opener"
      BY <2>1 DEF Opener
    <3>2. tele = << >> /\ turn = 0 /\ ~ last.broken
      BY <1>1, <3>1 DEF DialogInv, EndsTrue, SpeechTrue, ReasonTrue, Ends
    <3>3. tele'[2] = 0 /\ tele'[1] \in {"error", "stop_token"}
      BY <3>1
    <3> QED
      BY <3>2, <3>3 DEF ReasonHolds
  <2>2. CASE Return
    <3>1. pc = "return" /\ tele' = <<reason, turn>>
      BY <2>2 DEF Return
    <3>2. tele = << >> /\ reason \notin {"none", "run_limit_exceeded"} /\ ~ last.broken /\ ReasonHolds(reason)
      BY <1>1, <3>1 DEF DialogInv, EndsTrue, ReasonTrue, Ends
    <3>3. tele'[2] = turn /\ tele'[1] = reason
      BY <3>1
    <3> QED
      BY <3>2, <3>3
  <2>3. CASE Finally
    <3> DEFINE r == IF reason = "none" THEN "error" ELSE reason
    <3>1. pc = "finally" /\ tele' = Telemetry
      BY <2>3 DEF Finally
    <3>2. tele = << >> /\ tele' = <<r, turn>>
      BY <3>1 DEF Telemetry
    <3>3. /\ reason # "none" => ReasonHolds(reason)
          /\ last.broken => reason \in {"none", "run_limit_exceeded"}
      BY <1>1, <3>1 DEF DialogInv, ReasonTrue
    <3>4. tele'[2] = turn /\ tele'[1] = r
      BY <3>2
    <3>5. ReasonHolds("error")
      BY DEF ReasonHolds
    <3> QED
      BY <3>2, <3>3, <3>4, <3>5
  <2>4. CASE ~ (Opener \/ Return \/ Finally)
    BY <2>4 DEF Next, StartUser, AgentTurn, AgentFails, TurnCheck, LimitCheck, EndCheck, CheckStep,
                BreakLimit, Gate, UserSpeaks, EndDialog, Verdict, ended
  <2> QED
    BY <2>1, <2>2, <2>3, <2>4
<1> QED
  BY <1>1, DialogInductive, PTL DEF Spec, StopsOnce
=============================================================================
