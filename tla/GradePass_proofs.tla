--------------------------- MODULE GradePass_proofs ---------------------------
(***************************************************************************)
(* What a grading pass makes of a row, and what it leaves behind: for      *)
(* every set of criterion vectors and of passes, on the host or in a       *)
(* container, any number of verdict calls, cancellations, edits of the     *)
(* key and steps that fail.  And the criteria that read what the agent     *)
(* ran, for every text, script and number of commands.                     *)
(***************************************************************************)
EXTENDS GradePass, Rules, FiniteSetTheorems, WellFoundedInduction, TLAPS
-----------------------------------------------------------------------------
(* What holds inside of a pass of the checker.                             *)

\* Awaits of one criterion, and those of a judge that owns a directory.
AtCriterion == {"thread", "context", "call", "copy", "mount", "talk", "reap"}
AtDirectory == {"copy", "mount", "talk", "reap"}

\* The results are those of the criteria so far, and each is true.
ResultsSound ==
  /\ results \in Seq(Result)
  /\ Len(results) <= Len(crit)
  /\ chk \in AtCriterion => Len(results) < Len(crit)
  /\ chk = "done" => Len(results) = Len(crit)
  /\ \A i \in 1..Len(results) :
       /\ results[i].of = i /\ results[i].stamped
       /\ (results[i].score = "verdict") = (results[i].last = "valid")

\* The capture is the last call.
CaptureSound ==
  /\ capture \in [verdict : BOOLEAN, error : BOOLEAN, last : {"none", "valid", "invalid"}]
  /\ capture.verdict = (capture.last = "valid")

\* The sub-agent lives while it talks; threads write to the directory of a
\* judge at work, and to one that a second cancellation left.
JudgeSound ==
  /\ alive => chk = "talk"
  /\ chk \notin AtDirectory \cup Returned => dir = NoDir /\ copying = {}
  /\ chk = "talk" => copying = {}
  /\ chk = "reap" /\ copying # {} => cancels >= 1
  /\ chk \in Returned /\ (dir # NoDir \/ copying # {}) => cancels >= 2

CheckerInv ==
  /\ CheckerTypeOK /\ ResultsSound /\ CaptureSound /\ JudgeSound
  /\ chk \in Returned => booked

-----------------------------------------------------------------------------
(* What holds of a grading pass on its way.                                *)

\* Places where there may be no backup yet.
Unkept == {"over", "resolve", "backup"}
Ledger == [passes : Nat, edits : Nat, faults : Nat, raced : BOOLEAN, prior : Record]

PassTyped ==
  /\ pass \in [opt : Passes \cup {NoPass}, at : Places]
  /\ row \in Record /\ sumry \in Record /\ mem \in Record
  /\ backup = << >> \/ backup[1] \in Record
  /\ tree \in Nat /\ staged \in Nat /\ ledger \in Ledger
  /\ work \in {"asrun", "touched"} /\ tmp \subseteq {"copy", "staging", "scratch"}
  /\ exit \in {"none", "graded", "refused", "incident", "cancelled"}

\* Where the pass of the checker is, and which temporary directories exist.
PlaceTrue ==
  /\ pass.at \in {"cleanup", "persist", "stamp"} => chk \in Returned
  /\ pass.at \in {"persist", "stamp"} => chk # "raised"
  /\ pass.at \in {"stage", "check", "cleanup"} => tmp \subseteq Owned \cup {"staging"}
  /\ pass.at \in {"container", "fold"} => tmp \subseteq {"scratch"}
  /\ pass.at \notin {"over", "stage", "check", "cleanup", "container", "fold"} => tmp = {}
  /\ pass.at = "over" /\ hit # "sandbox" => tmp = {}

\* Every grade lies over the record of the execution.
BackupTrue ==
  /\ pass.at \notin Unkept => backup # << >>
  /\ row.by # 0 => backup # << >>
  /\ backup # << >> => backup[1].by = 0

\* Whose row lies on disk, and what the pass has in memory.
RowAt ==
  /\ pass.at \notin {"over", "stamp", "refresh"} => row = ledger.prior
  /\ pass.at = "stamp" /\ ~ Opt.resume => row = ledger.prior
  /\ pass.at = "stamp" /\ Opt.resume => row.by = ledger.passes
  /\ pass.at = "cleanup" /\ chk # "raised" => mem.by = ledger.passes
  /\ pass.at \in {"persist", "stamp", "write", "fold"} => mem.by = ledger.passes
  /\ pass.at \in {"check", "cleanup", "persist", "stamp", "write", "fold"} =>
       mem.incidents = ledger.prior.incidents
  /\ pass.at = "refresh" =>
       \/ mem.incidents = ledger.prior.incidents /\ row.by = ledger.passes
       \/ mem = row /\ row = [ledger.prior EXCEPT !.incidents = @ + 1]

\* Without an edit in the moment no look at the key can see, every record
\* names the key of the run, and the pass works with it.
KeyTrue ==
  ~ ledger.raced =>
    /\ row.key = 0 /\ row.digest = 0 /\ ledger.prior.key = 0 /\ ledger.prior.digest = 0
    /\ pass.at \in {"backup", "branch"} /\ ~ Opt.resume => tree = 0
    /\ pass.at \in {"sandbox", "stage"} => tree = 0
    /\ pass.at \in {"check", "cleanup"} => staged = 0
    /\ pass.at \in {"check", "cleanup", "persist", "stamp", "write", "fold"} =>
         mem.key = 0 /\ mem.digest = 0

\* What the command reports, and the entry of run.json behind it.
ExitTrue ==
  pass.at = "over" =>
    /\ exit = "graded" => row.by = ledger.passes \/ (row = ledger.prior /\ ledger.faults > 0)
    /\ exit = "refused" => row = ledger.prior
    /\ exit = "incident" => row = [ledger.prior EXCEPT !.incidents = @ + 1]
    /\ exit \in {"graded", "incident"} /\ ~ Opt.resume /\ ~ Opt.inside /\ row # ledger.prior =>
         sumry = row

PassInv ==
  /\ CheckerInv /\ PassTyped /\ PlaceTrue /\ BackupTrue /\ RowAt /\ KeyTrue /\ ExitTrue

-----------------------------------------------------------------------------
(* The checker.                                                            *)

\* What the check knows of the constants and of a vector.
LEMMA VectorFacts ==
  ASSUME NEW v \in Vectors
  PROVE  v \in Seq(Kinds) /\ Len(v) \in Nat
<1>1. v \in Seq(Kinds)
  BY CheckerAssumption
<1> QED
  BY <1>1

\* _finalize_result, _missing_checker_result and _error_result keep the vector
\* of results true: the new one is the next criterion's.
LEMMA BookGood ==
  ASSUME CheckerTypeOK, ResultsSound, chk \in AtCriterion \/ Left,
         NEW score \in {"zero", "full", "verdict"}, NEW l \in {"none", "valid", "invalid", "unread"},
         (score = "verdict") = (l = "valid"),
         Book(score, l), UNCHANGED crit
  PROVE  ResultsSound' /\ chk' = "next"
<1> DEFINE new == [of |-> Len(results) + 1, score |-> score, stamped |-> TRUE, last |-> l]
<1>1. results \in Seq(Result) /\ Len(results) \in Nat /\ Len(results) < Len(crit)
  BY DEF ResultsSound, Left, AtCriterion
<1>2. Len(crit) \in Nat
  BY VectorFacts DEF CheckerTypeOK
<1>3. new \in Result /\ new.of = Len(results) + 1 /\ new.stamped
      /\ (new.score = "verdict") = (new.last = "valid")
  BY <1>1 DEF Result
<1>4. results' = Append(results, new) /\ chk' = "next" /\ crit' = crit
  BY DEF Book
<1> HIDE DEF new
<1>5. results' \in Seq(Result) /\ Len(results') = Len(results) + 1
  BY <1>1, <1>3, <1>4
<1>6. ASSUME NEW i \in 1..Len(results')
      PROVE  /\ results'[i].of = i /\ results'[i].stamped
             /\ (results'[i].score = "verdict") = (results'[i].last = "valid")
  <2>1. CASE i = Len(results) + 1
    <3>1. results'[i] = new
      BY <1>1, <1>3, <1>4, <2>1
    <3> QED
      BY <1>3, <2>1, <3>1
  <2>2. CASE i # Len(results) + 1
    <3>1. i \in 1..Len(results)
      BY <1>1, <1>5, <2>2
    <3>2. results'[i] = results[i]
      BY <1>1, <1>3, <1>4, <3>1
    <3> QED
      BY <3>1, <3>2 DEF ResultsSound
  <2> QED
    BY <2>1, <2>2
<1>7. Len(results') <= Len(crit')
  BY <1>1, <1>2, <1>4, <1>5
<1> QED
  BY <1>4, <1>5, <1>6, <1>7 DEF ResultsSound, AtCriterion

\* A step that books nothing keeps them.
LEMMA ResultsKept ==
  ASSUME ResultsSound, UNCHANGED <<crit, results>>,
         chk' \in AtCriterion => Len(results) < Len(crit),
         chk' = "done" => Len(results) = Len(crit)
  PROVE  ResultsSound'
BY DEF ResultsSound

\* Under CheckerInv a check is where its results say.
LEMMA LeftOver ==
  ASSUME CheckerInv
  PROVE  /\ Len(results) \in Nat /\ Len(crit) \in Nat /\ Len(results) <= Len(crit)
         /\ chk \in AtCriterion => Len(results) < Len(crit)
         /\ ~ Left => Len(results) = Len(crit)
<1>1. Len(crit) \in Nat
  BY VectorFacts DEF CheckerInv, CheckerTypeOK
<1>2. Len(results) \in Nat /\ Len(results) <= Len(crit) /\ (chk \in AtCriterion => Len(results) < Len(crit))
  BY DEF CheckerInv, ResultsSound
<1> QED
  BY <1>1, <1>2 DEF Left

\* The type of the results follows from ResultsSound.
LEMMA ResultsTyped ==
  ASSUME ResultsSound
  PROVE  \A i \in DOMAIN results : results[i] \in Result
BY DEF ResultsSound

\* check_all_async: every step of a pass, and every cancellation of it, keeps
\* what holds inside of it.
LEMMA CheckerStep ==
  ASSUME CheckerInv, CheckerNext
  PROVE  CheckerInv'
<1> USE DEF At, Leave, Returned, AtCriterion, AtDirectory, NoDir, judging
<1>1. CheckerTypeOK /\ ResultsSound /\ CaptureSound /\ JudgeSound /\ (chk \in Returned => booked)
  BY DEF CheckerInv
<1>2. CASE Finish
  <2>1. ResultsSound'
    BY <1>1, <1>2, LeftOver, ResultsKept DEF Finish
  <2> QED
    BY <1>1, <1>2, <2>1, ResultsTyped DEF Finish, CheckerInv, CheckerTypeOK, CaptureSound, JudgeSound
<1>3. CASE StartRule
  <2>1. ResultsSound'
    BY <1>1, <1>3, LeftOver, ResultsKept DEF StartRule, Left
  <2> QED
    BY <1>1, <1>3, <2>1, ResultsTyped DEF StartRule, CheckerInv, CheckerTypeOK, CaptureSound, JudgeSound
<1>4. CASE RuleScores
  <2>1. PICK score \in {"zero", "full"} : Book(score, "none")
    BY <1>4 DEF RuleScores
  <2>2. ResultsSound' /\ chk' = "next"
    BY <1>1, <1>4, <2>1, BookGood DEF RuleScores
  <2>3. \A i \in DOMAIN results' : results'[i] \in Result
    BY <2>2 DEF ResultsSound
  <2> QED
    BY <1>1, <1>4, <2>2, <2>3 DEF RuleScores, CheckerInv, CheckerTypeOK, CaptureSound, JudgeSound
<1>5. CASE Escalates
  <2>1. ResultsSound'
    BY <1>1, <1>5, ResultsKept DEF Escalates
  <2> QED
    BY <1>1, <1>5, <2>1, ResultsTyped DEF Escalates, CheckerInv, CheckerTypeOK, CaptureSound, JudgeSound
<1>6. CASE SkipJudge
  <2>1. ResultsSound' /\ chk' = "next"
    BY <1>1, <1>6, BookGood DEF SkipJudge
  <2>2. \A i \in DOMAIN results' : results'[i] \in Result
    BY <2>1 DEF ResultsSound
  <2> QED
    BY <1>1, <1>6, <2>1, <2>2 DEF SkipJudge, CheckerInv, CheckerTypeOK, CaptureSound, JudgeSound
<1>7. CASE StartJudge
  <2>1. ResultsSound'
    BY <1>1, <1>7, LeftOver, ResultsKept DEF StartJudge, Left
  <2>2. CaptureSound' /\ calls' = 0
    BY <1>7 DEF StartJudge, NoCapture, CaptureSound
  <2> QED
    BY <1>1, <1>7, <2>1, <2>2, ResultsTyped, CheckerAssumption
    DEF StartJudge, CheckerInv, CheckerTypeOK, CaptureSound, JudgeSound
<1>8. CASE ContextBuilt
  <2>1. ResultsSound' /\ chk' \in {"call", "next", "copy"}
    <3>1. CASE Book("zero", "none")
      BY <1>1, <1>8, <3>1, BookGood DEF ContextBuilt
    <3>2. CASE chk' \in {"call", "copy"} /\ UNCHANGED results
      BY <1>1, <1>8, <3>2, LeftOver, ResultsKept DEF ContextBuilt
    <3> QED
      BY <1>8, <3>1, <3>2 DEF ContextBuilt
  <2>2. \A i \in DOMAIN results' : results'[i] \in Result
    BY <2>1 DEF ResultsSound
  <2>3. /\ chk' # "copy" => dir' = dir /\ copying' = copying
        /\ chk' = "copy" => dir' = [made |-> TRUE, holds |-> {}] /\ copying' = {"work"}
        /\ chk = "context" /\ crit' = crit /\ UNCHANGED <<booked, capture, calls, alive, why, cancels>>
    BY <1>8 DEF ContextBuilt, Book
  <2>4. dir'.made \in BOOLEAN /\ dir'.holds \subseteq {"work", "ref"} /\ copying' \subseteq {"work", "ref"}
    <3>1. CASE chk' = "copy"
      <4>1. dir' = [made |-> TRUE, holds |-> {}] /\ copying' = {"work"}
        BY <2>3, <3>1
      <4>2. dir'.made = TRUE /\ dir'.holds = {}
        BY <4>1
      <4> QED
        BY <4>1, <4>2
    <3>2. CASE chk' # "copy"
      BY <1>1, <2>3, <3>2 DEF CheckerTypeOK
    <3> QED
      BY <3>1, <3>2
  <2>5. CheckerTypeOK'
    BY <1>1, <2>1, <2>2, <2>3, <2>4 DEF CheckerTypeOK
  <2>6. JudgeSound' /\ CaptureSound'
    BY <1>1, <2>1, <2>3 DEF CaptureSound, JudgeSound
  <2> QED
    BY <2>1, <2>5, <2>6 DEF CheckerInv
<1>9. CASE LlmAnswers
  <2>1. ResultsSound' /\ chk' = "next"
    <3>1. CASE Book("zero", "none")
      BY <1>1, <1>9, <3>1, BookGood DEF LlmAnswers
    <3>2. ASSUME NEW call \in {"none", "valid", "invalid"},
                 Book(IF call = "valid" THEN "verdict" ELSE "zero", call)
          PROVE  ResultsSound' /\ chk' = "next"
      <4>1. CASE call = "valid"
        BY <1>1, <1>9, <3>2, <4>1, BookGood DEF LlmAnswers
      <4>2. CASE call # "valid"
        BY <1>1, <1>9, <3>2, <4>2, BookGood DEF LlmAnswers
      <4> QED
        BY <4>1, <4>2
    <3> QED
      BY <1>9, <3>1, <3>2 DEF LlmAnswers
  <2>2. \A i \in DOMAIN results' : results'[i] \in Result
    BY <2>1 DEF ResultsSound
  <2> QED
    BY <1>1, <1>9, <2>1, <2>2 DEF LlmAnswers, CheckerInv, CheckerTypeOK, CaptureSound, JudgeSound
<1>10. ASSUME NEW part \in {"work", "ref"}, CopyEnds(part)
       PROVE  CheckerInv'
  <2>1. /\ copying' = copying \ {part} /\ part \in copying
        /\ UNCHANGED <<crit, chk, results, booked, capture, calls, alive, cancels>>
    BY <1>10 DEF CopyEnds
  <2>2. \/ dir' = [made |-> TRUE, holds |-> dir.holds \cup {part}] /\ why' = why
        \/ why' = "error" /\ dir' = dir
    BY <1>10 DEF CopyEnds
  <2>3. ResultsSound'
    BY <1>1, <2>1 DEF ResultsSound
  <2>4. /\ dir'.made \in BOOLEAN /\ dir'.holds \subseteq {"work", "ref"}
        /\ why' \in {"none", "ok", "lost", "error", "cancelled"}
    <3>1. CASE dir' = [made |-> TRUE, holds |-> dir.holds \cup {part}] /\ why' = why
      <4>1. dir.holds \subseteq {"work", "ref"} /\ why \in {"none", "ok", "lost", "error", "cancelled"}
        BY <1>1 DEF CheckerTypeOK
      <4>2. dir'.made = TRUE /\ dir'.holds = dir.holds \cup {part}
        BY <3>1
      <4> QED
        BY <3>1, <4>1, <4>2
    <3>2. CASE why' = "error" /\ dir' = dir
      BY <1>1, <3>2 DEF CheckerTypeOK
    <3> QED
      BY <2>2, <3>1, <3>2
  <2>5. CheckerTypeOK'
    BY <1>1, <2>1, <2>4 DEF CheckerTypeOK
  <2> QED
    BY <1>1, <2>1, <2>3, <2>5 DEF CheckerInv, CaptureSound, JudgeSound
<1>11. CASE CopyAwaited
  <2>1. ResultsSound'
    BY <1>1, <1>11, LeftOver, ResultsKept DEF CopyAwaited
  <2> QED
    BY <1>1, <1>11, <2>1, ResultsTyped DEF CopyAwaited, CheckerInv, CheckerTypeOK, CaptureSound, JudgeSound
<1>12. ASSUME NEW call \in {"valid", "invalid"}, SubmitVerdict(call)
       PROVE  CheckerInv'
  <2>1. ResultsSound'
    BY <1>1, <1>12, LeftOver, ResultsKept DEF SubmitVerdict
  <2>2. CaptureSound'
    BY <1>12 DEF SubmitVerdict, Captured, CaptureSound
  <2>3. calls' \in 0..MaxCalls
    BY <1>1, <1>12, CheckerAssumption DEF SubmitVerdict, CheckerTypeOK
  <2> QED
    BY <1>1, <1>12, <2>1, <2>2, <2>3, ResultsTyped
    DEF SubmitVerdict, CheckerInv, CheckerTypeOK, CaptureSound, JudgeSound
<1>13. CASE TurnOver
  <2>1. ResultsSound'
    BY <1>1, <1>13, LeftOver, ResultsKept DEF TurnOver, TurnEnded
  <2> QED
    BY <1>1, <1>13, <2>1, ResultsTyped DEF TurnOver, TurnEnded, CheckerInv, CheckerTypeOK, CaptureSound, JudgeSound
<1>14. CASE Reap
  <2>1. capture.last \in {"none", "valid", "invalid"} /\ capture.verdict = (capture.last = "valid")
    BY <1>1 DEF CaptureSound
  <2>2. ResultsSound' /\ chk' \in {"next", "cancelled"} /\ (chk' = "cancelled" => booked')
    <3>1. CASE why = "cancelled"
      BY <1>1, <1>14, <3>1, ResultsKept DEF Reap
    <3>2. CASE why = "ok" /\ capture.verdict
      BY <1>1, <1>14, <2>1, <3>2, BookGood DEF Reap
    <3>3. CASE why = "ok" /\ ~ capture.verdict
      BY <1>1, <1>14, <2>1, <3>3, BookGood DEF Reap
    <3>4. CASE why \notin {"cancelled", "ok"}
      BY <1>1, <1>14, <3>4, BookGood DEF Reap
    <3> QED
      BY <1>1, <3>1, <3>2, <3>3, <3>4 DEF CaptureSound
  <2>3. \A i \in DOMAIN results' : results'[i] \in Result
    BY <2>2 DEF ResultsSound
  <2>4. /\ chk = "reap" /\ copying = {} /\ dir' = NoDir /\ booked' \in BOOLEAN
        /\ UNCHANGED <<crit, capture, calls, copying, alive, why, cancels>>
    BY <1>1, <1>14 DEF Reap, Reaped, CheckerTypeOK
  <2> QED
    BY <1>1, <2>2, <2>3, <2>4 DEF CheckerInv, CheckerTypeOK, CaptureSound, JudgeSound
<1>15. CASE Cancel
  <2>1. cancels' = cancels + 1 /\ cancels' \in 0..MaxCancels /\ cancels \in Nat
    BY <1>1, <1>15, CheckerAssumption DEF Cancel, CheckerTypeOK
  <2>2. crit' = crit
    BY <1>15 DEF Cancel
  <2>3. CASE CancelOutright
    <3>1. ResultsSound'
      BY <1>1, <2>2, <2>3, ResultsKept DEF CancelOutright
    <3> QED
      BY <1>1, <2>1, <2>2, <2>3, <3>1, ResultsTyped
      DEF CancelOutright, CheckerInv, CheckerTypeOK, CaptureSound, JudgeSound
  <2>4. CASE CancelCopy
    <3>1. ResultsSound'
      BY <1>1, <2>2, <2>4, LeftOver, ResultsKept DEF CancelCopy
    <3> QED
      BY <1>1, <2>1, <2>2, <2>4, <3>1, ResultsTyped
      DEF CancelCopy, CheckerInv, CheckerTypeOK, CaptureSound, JudgeSound
  <2>5. CASE CancelTalk
    <3>1. ResultsSound'
      BY <1>1, <2>2, <2>5, LeftOver, ResultsKept DEF CancelTalk, TurnEnded
    <3> QED
      BY <1>1, <2>1, <2>2, <2>5, <3>1, ResultsTyped
      DEF CancelTalk, TurnEnded, CheckerInv, CheckerTypeOK, CaptureSound, JudgeSound
  <2>6. CASE CancelReap
    <3>1. ResultsSound'
      BY <1>1, <2>2, <2>6, ResultsKept DEF CancelReap
    <3> QED
      BY <1>1, <2>1, <2>2, <2>6, <3>1, ResultsTyped
      DEF CancelReap, CheckerInv, CheckerTypeOK, CaptureSound, JudgeSound
  <2> QED
    BY <1>15, <2>3, <2>4, <2>5, <2>6 DEF Cancel
<1> QED
  BY <1>2, <1>3, <1>4, <1>5, <1>6, <1>7, <1>8, <1>9, <1>10, <1>11, <1>12, <1>13, <1>14, <1>15
  DEF CheckerNext, CheckerWork

-----------------------------------------------------------------------------
(* The pass.                                                               *)

\* No step but those of the checker touches what it knows.
LEMMA CheckerStays ==
  ASSUME CheckerInv, UNCHANGED checkerVars
  PROVE  CheckerInv' /\ chk' = chk /\ cancels' = cancels
BY DEF CheckerInv, CheckerTypeOK, ResultsSound, CaptureSound, JudgeSound, checkerVars, judging

\* The options of a pass; a resume grades in place.
LEMMA OptFacts ==
  ASSUME PassTyped
  PROVE  Opt.resume => Opt.inPlace
BY GradePassAssumption DEF PassTyped, Opt, NoPass

\* A pass goes from place to place with its options.
LEMMA GoTo ==
  ASSUME PassTyped, NEW p \in Places, Go(p)
  PROVE  pass'.at = p /\ Opt' = Opt /\ pass' \in [opt : Passes \cup {NoPass}, at : Places]
BY DEF PassTyped, Go, Opt

\* A fault is counted and nothing else.
LEMMA FaultCounts ==
  ASSUME PassTyped, Fault
  PROVE  /\ ledger' \in Ledger /\ ledger'.faults > 0
         /\ ledger'.passes = ledger.passes /\ ledger'.raced = ledger.raced /\ ledger'.prior = ledger.prior
BY DEF PassTyped, Fault, Ledger

\* A record with another incident is a record.
LEMMA IncidentTyped ==
  ASSUME NEW r \in Record
  PROVE  [r EXCEPT !.incidents = @ + 1] \in Record
BY DEF Record

\* Edits of the key: one in the moment no look at it can see is noted.
LEMMA EditGood ==
  ASSUME PassInv, Edit
  PROVE  PassInv'
<1>1. CheckerInv' /\ chk' = chk /\ UNCHANGED <<pass, row, backup, sumry, mem, staged, work, tmp, exit, hit>>
  BY CheckerStays DEF PassInv, Edit
<1>2. /\ tree' = tree + 1 /\ ledger' \in Ledger /\ ledger'.faults = ledger.faults
      /\ ledger'.passes = ledger.passes /\ ledger'.prior = ledger.prior
      /\ ledger'.raced = (ledger.raced \/ pass.at \in {"backup", "branch", "sandbox", "stage"})
  <2> DEFINE n == ledger.edits + 1
             b == ledger.raced \/ pass.at \in {"backup", "branch", "sandbox", "stage"}
  <2>1. ledger \in Ledger /\ n \in Nat /\ b \in BOOLEAN
    BY DEF PassInv, PassTyped, Ledger
  <2>2. tree' = tree + 1 /\ ledger' = [ledger EXCEPT !.edits = n, !.raced = b]
    BY DEF Edit
  <2> HIDE DEF n, b
  <2>3. /\ ledger' \in Ledger /\ ledger'.faults = ledger.faults /\ ledger'.raced = b
        /\ ledger'.passes = ledger.passes /\ ledger'.prior = ledger.prior
    BY <2>1, <2>2 DEF Ledger
  <2> QED
    BY <2>2, <2>3 DEF b
<1>3. Opt' = Opt /\ Owned' = Owned
  BY <1>1 DEF Opt, Owned
<1>4. PassTyped'
  BY <1>1, <1>2 DEF PassInv, PassTyped
<1>5. PlaceTrue' /\ BackupTrue'
  BY <1>1, <1>2, <1>3 DEF PassInv, PlaceTrue, BackupTrue
<1>6. RowAt' /\ ExitTrue'
  BY <1>1, <1>2, <1>3 DEF PassInv, RowAt, ExitTrue
<1>7. KeyTrue'
  BY <1>1, <1>2, <1>3 DEF PassInv, KeyTrue
<1> QED
  BY <1>1, <1>4, <1>5, <1>6, <1>7 DEF PassInv

\* A pass begins with the row it finds.
LEMMA StartGood ==
  ASSUME PassInv, Start
  PROVE  PassInv'
<1>1. PICK p \in Passes : pass' = [opt |-> p, at |-> "resolve"]
  BY DEF Start
<1>2. /\ CheckerInv' /\ chk' = chk /\ UNCHANGED <<row, backup, sumry, tree, staged, work>>
      /\ In("over") /\ exit' = "none" /\ mem' = Executed /\ tmp' = {}
  BY CheckerStays DEF PassInv, Start
<1>3. /\ ledger' \in Ledger /\ ledger'.raced = ledger.raced /\ ledger'.prior = row
  <2> DEFINE n == ledger.passes + 1
  <2>1. ledger \in Ledger /\ n \in Nat /\ row \in Record
    BY DEF PassInv, PassTyped, Ledger
  <2>2. ledger' = [ledger EXCEPT !.passes = n, !.prior = row]
    BY DEF Start
  <2> HIDE DEF n
  <2> QED
    BY <2>1, <2>2 DEF Ledger
<1>4. pass'.at = "resolve" /\ pass' \in [opt : Passes \cup {NoPass}, at : Places]
  BY <1>1 DEF Places
<1>5. PassTyped'
  BY <1>2, <1>3, <1>4 DEF PassInv, PassTyped, Executed, Record
<1>6. PlaceTrue' /\ BackupTrue'
  BY <1>2, <1>4 DEF PassInv, PlaceTrue, BackupTrue, Unkept
<1>7. RowAt' /\ ExitTrue' /\ KeyTrue'
  BY <1>2, <1>3, <1>4 DEF PassInv, RowAt, ExitTrue, KeyTrue
<1> QED
  BY <1>2, <1>5, <1>6, <1>7 DEF PassInv

\* _resolve_run_dir_or_work_dir: refused, or on to the backup with the key of
\* the run.
LEMMA ResolveGood ==
  ASSUME PassInv, Resolve
  PROVE  PassInv'
<1>1. /\ In("resolve") /\ UNCHANGED <<checkerVars, row, backup, sumry, mem, tree, staged, work, tmp, hit>>
  BY DEF Resolve, Refuse
<1>2. CheckerInv' /\ chk' = chk
  BY <1>1, CheckerStays DEF PassInv
<1>3. CASE Go("backup") /\ UNCHANGED <<exit, ledger>> /\ (Opt.resume \/ KeyUnchanged)
  <2>1. pass'.at = "backup" /\ Opt' = Opt /\ pass' \in [opt : Passes \cup {NoPass}, at : Places]
    BY <1>3, GoTo DEF PassInv, Places
  <2>2. PassTyped'
    BY <1>1, <1>3, <2>1 DEF PassInv, PassTyped
  <2>3. PlaceTrue' /\ BackupTrue' /\ RowAt' /\ ExitTrue'
    BY <1>1, <1>2, <1>3, <2>1 DEF PassInv, PlaceTrue, BackupTrue, RowAt, ExitTrue, In, Unkept
  <2>4. KeyTrue'
    BY <1>1, <1>3, <2>1 DEF PassInv, KeyTrue, In, KeyUnchanged
  <2> QED
    BY <1>2, <2>2, <2>3, <2>4 DEF PassInv
<1>4. CASE Refuse /\ (Fault \/ UNCHANGED ledger)
  <2>1. /\ pass'.at = "over" /\ Opt' = Opt /\ pass' \in [opt : Passes \cup {NoPass}, at : Places]
        /\ exit' = "refused"
    BY <1>4, GoTo DEF PassInv, Refuse, Over, Places
  <2>2. /\ ledger' \in Ledger /\ ledger'.raced = ledger.raced /\ ledger'.prior = ledger.prior
        /\ ledger'.passes = ledger.passes
    BY <1>4, FaultCounts DEF PassInv, PassTyped
  <2>3. PassTyped'
    BY <1>1, <2>1, <2>2 DEF PassInv, PassTyped
  <2>4. PlaceTrue' /\ BackupTrue' /\ RowAt' /\ ExitTrue' /\ KeyTrue'
    BY <1>1, <1>2, <2>1, <2>2 DEF PassInv, PlaceTrue, BackupTrue, RowAt, ExitTrue, KeyTrue, In, Unkept
  <2> QED
    BY <1>2, <2>3, <2>4 DEF PassInv
<1> QED
  BY <1>1, <1>3, <1>4 DEF Resolve

\* back_up_pre_grade_record: from here on the record of the execution is kept.
LEMMA BackUpGood ==
  ASSUME PassInv, BackUp
  PROVE  PassInv'
<1>1. /\ In("backup") /\ Go("branch") /\ backup' = Kept
      /\ UNCHANGED <<checkerVars, row, sumry, mem, tree, staged, work, tmp, exit, ledger, hit>>
  BY DEF BackUp
<1>2. CheckerInv' /\ chk' = chk
  BY <1>1, CheckerStays DEF PassInv
<1>3. pass'.at = "branch" /\ Opt' = Opt /\ pass' \in [opt : Passes \cup {NoPass}, at : Places]
  BY <1>1, GoTo DEF PassInv, Places
<1>4. /\ backup' # << >> /\ backup'[1] \in Record /\ backup'[1].by = 0
  <2>1. CASE backup = << >>
    <3>1. backup' = <<row>> /\ row.by = 0
      BY <1>1, <2>1 DEF Kept, PassInv, BackupTrue, PassTyped
    <3> QED
      BY <3>1 DEF PassInv, PassTyped
  <2>2. CASE backup # << >>
    BY <1>1, <2>2 DEF Kept, PassInv, BackupTrue, PassTyped
  <2> QED
    BY <2>1, <2>2
<1>5. PassTyped'
  BY <1>1, <1>3, <1>4 DEF PassInv, PassTyped
<1>6. PlaceTrue' /\ BackupTrue' /\ RowAt' /\ ExitTrue' /\ KeyTrue'
  BY <1>1, <1>2, <1>3, <1>4 DEF PassInv, PlaceTrue, BackupTrue, RowAt, ExitTrue, KeyTrue, In, Unkept
<1> QED
  BY <1>2, <1>5, <1>6 DEF PassInv

\* regrade_in_place and its sibling: a sandbox here has the key of the run.
LEMMA BranchGood ==
  ASSUME PassInv, Branch
  PROVE  PassInv'
<1>1. /\ In("branch") /\ UNCHANGED <<checkerVars, row, backup, sumry, mem, tree, staged, work, ledger, hit>>
  BY DEF Branch
<1>2. CheckerInv' /\ chk' = chk
  BY <1>1, CheckerStays DEF PassInv
<1>3. CASE Go("container") /\ tmp' = {"scratch"} /\ UNCHANGED exit
  <2>1. pass'.at = "container" /\ Opt' = Opt /\ pass' \in [opt : Passes \cup {NoPass}, at : Places]
    BY <1>3, GoTo DEF PassInv, Places
  <2>2. PassTyped'
    BY <1>1, <1>3, <2>1 DEF PassInv, PassTyped
  <2>3. PlaceTrue' /\ BackupTrue' /\ RowAt' /\ ExitTrue' /\ KeyTrue'
    BY <1>1, <1>2, <1>3, <2>1 DEF PassInv, PlaceTrue, BackupTrue, RowAt, ExitTrue, KeyTrue, In, Unkept
  <2> QED
    BY <1>2, <2>2, <2>3 DEF PassInv
<1>4. CASE Over("refused") /\ UNCHANGED tmp
  <2>1. /\ pass'.at = "over" /\ Opt' = Opt /\ pass' \in [opt : Passes \cup {NoPass}, at : Places]
        /\ exit' = "refused"
    BY <1>4, GoTo DEF PassInv, Over, Places
  <2>2. PassTyped'
    BY <1>1, <1>4, <2>1 DEF PassInv, PassTyped
  <2>3. PlaceTrue' /\ BackupTrue' /\ RowAt' /\ ExitTrue' /\ KeyTrue'
    BY <1>1, <1>2, <1>4, <2>1 DEF PassInv, PlaceTrue, BackupTrue, RowAt, ExitTrue, KeyTrue, In, Unkept
  <2> QED
    BY <1>2, <2>2, <2>3 DEF PassInv
<1>5. CASE Go("sandbox") /\ (Opt.inPlace => KeyUnchanged) /\ UNCHANGED <<tmp, exit>>
  <2>1. pass'.at = "sandbox" /\ Opt' = Opt /\ pass' \in [opt : Passes \cup {NoPass}, at : Places]
    BY <1>5, GoTo DEF PassInv, Places
  <2>2. PassTyped'
    BY <1>1, <1>5, <2>1 DEF PassInv, PassTyped
  <2>3. PlaceTrue' /\ BackupTrue' /\ RowAt' /\ ExitTrue'
    BY <1>1, <1>2, <1>5, <2>1 DEF PassInv, PlaceTrue, BackupTrue, RowAt, ExitTrue, In, Unkept
  <2>4. KeyTrue'
    BY <1>1, <1>5, <2>1, OptFacts DEF PassInv, KeyTrue, In, KeyUnchanged
  <2> QED
    BY <1>2, <2>2, <2>3, <2>4 DEF PassInv
<1> QED
  BY <1>3, <1>4, <1>5 DEF Branch

\* Sandbox.adopt or Sandbox.setup: a copy is the pass's own.
LEMMA PrepareGood ==
  ASSUME PassInv, PrepareSandbox
  PROVE  PassInv'
<1>1. /\ In("sandbox") /\ UNCHANGED <<checkerVars, row, backup, sumry, mem, tree, staged, work, exit, hit>>
  BY DEF PrepareSandbox
<1>2. CheckerInv' /\ chk' = chk
  BY <1>1, CheckerStays DEF PassInv
<1>3. CASE /\ tmp' = IF Opt.inPlace THEN {} ELSE {"copy"}
           /\ Go("stage") /\ UNCHANGED ledger
  <2>1. pass'.at = "stage" /\ Opt' = Opt /\ pass' \in [opt : Passes \cup {NoPass}, at : Places]
    BY <1>3, GoTo DEF PassInv, Places
  <2>2. tmp' \subseteq Owned' \cup {"staging"} /\ tmp' \subseteq {"copy"}
    BY <1>3, <2>1 DEF Owned
  <2>3. PassTyped'
    BY <1>1, <1>3, <2>1, <2>2 DEF PassInv, PassTyped
  <2>4. PlaceTrue' /\ BackupTrue' /\ RowAt' /\ ExitTrue' /\ KeyTrue'
    BY <1>1, <1>2, <1>3, <2>1, <2>2 DEF PassInv, PlaceTrue, BackupTrue, RowAt, ExitTrue, KeyTrue, In, Unkept
  <2> QED
    BY <1>2, <2>3, <2>4 DEF PassInv
<1>4. CASE Fault /\ Go("incident") /\ UNCHANGED tmp
  <2>1. pass'.at = "incident" /\ Opt' = Opt /\ pass' \in [opt : Passes \cup {NoPass}, at : Places]
    BY <1>4, GoTo DEF PassInv, Places
  <2>2. /\ ledger' \in Ledger /\ ledger'.raced = ledger.raced /\ ledger'.prior = ledger.prior
        /\ ledger'.passes = ledger.passes
    BY <1>4, FaultCounts DEF PassInv
  <2>3. PassTyped'
    BY <1>1, <1>4, <2>1, <2>2 DEF PassInv, PassTyped
  <2>4. PlaceTrue' /\ BackupTrue' /\ RowAt' /\ ExitTrue' /\ KeyTrue'
    BY <1>1, <1>2, <1>4, <2>1, <2>2 DEF PassInv, PlaceTrue, BackupTrue, RowAt, ExitTrue, KeyTrue, In, Unkept
  <2> QED
    BY <1>2, <2>3, <2>4 DEF PassInv
<1> QED
  BY <1>3, <1>4 DEF PrepareSandbox

\* check_all_async is entered in a process of its own.
LEMMA BeginGood ==
  ASSUME CheckerInv, Begin
  PROVE  CheckerInv' /\ chk' = "next"
<1>1. crit' = crit /\ crit \in Vectors /\ results' = << >> /\ chk' = "next" /\ cancels' = 0
      /\ booked' = FALSE /\ capture' = NoCapture /\ calls' = 0 /\ dir' = NoDir /\ copying' = {}
      /\ alive' = FALSE /\ why' = "none"
  BY DEF Begin, CheckerInv, CheckerTypeOK
<1>2. results' \in Seq(Result) /\ Len(results') = 0
  BY <1>1
<1>3. 0 \in 0..MaxCalls /\ 0 \in 0..MaxCancels
  BY CheckerAssumption
<1>4. CheckerTypeOK'
  <2>1. \A i \in DOMAIN results' : results'[i] \in Result
    BY <1>2
  <2>2. /\ capture'.verdict = FALSE /\ capture'.error = FALSE
        /\ dir'.made = FALSE /\ dir'.holds = {}
    BY <1>1 DEF NoCapture, NoDir
  <2> QED
    BY <1>1, <1>3, <2>1, <2>2 DEF CheckerTypeOK
<1>5. ResultsSound'
  BY <1>1, <1>2, VectorFacts DEF ResultsSound, AtCriterion
<1>6. CaptureSound' /\ JudgeSound'
  BY <1>1 DEF CaptureSound, JudgeSound, NoCapture, AtDirectory, Returned
<1> QED
  BY <1>1, <1>4, <1>5, <1>6 DEF CheckerInv, Returned

\* _stage_reference: the row will name the key that is staged.
LEMMA StageGood ==
  ASSUME PassInv, StageReference
  PROVE  PassInv'
<1>1. /\ In("stage") /\ Go("check") /\ staged' = tree /\ tmp' = tmp \cup {"staging"}
      /\ mem' = [ledger.prior EXCEPT !.digest = tree]
      /\ UNCHANGED <<row, backup, sumry, tree, work, exit, ledger, hit>>
  BY DEF StageReference
<1>2. CheckerInv' /\ chk' = "next"
  BY BeginGood DEF PassInv, StageReference
<1>3. pass'.at = "check" /\ Opt' = Opt /\ pass' \in [opt : Passes \cup {NoPass}, at : Places]
  BY <1>1, GoTo DEF PassInv, Places
<1>4. /\ ledger.prior \in Record /\ mem' \in Record /\ mem'.digest = tree
      /\ mem'.key = ledger.prior.key /\ mem'.incidents = ledger.prior.incidents
  BY <1>1 DEF PassInv, PassTyped, Ledger, Record
<1>5. Owned' = Owned
  BY <1>3 DEF Owned
<1>6. PassTyped'
  BY <1>1, <1>3, <1>4 DEF PassInv, PassTyped
<1>7. PlaceTrue' /\ BackupTrue' /\ RowAt' /\ ExitTrue' /\ KeyTrue'
  BY <1>1, <1>2, <1>3, <1>4, <1>5 DEF PassInv, PlaceTrue, BackupTrue, RowAt, ExitTrue, KeyTrue, In, Unkept
<1> QED
  BY <1>2, <1>6, <1>7 DEF PassInv

\* A step of the checker, or a cancellation of it.
LEMMA GradeGood ==
  ASSUME PassInv, Grade
  PROVE  PassInv'
<1>1. /\ In("check") /\ CheckerNext
      /\ UNCHANGED <<pass, row, backup, sumry, mem, tree, staged, tmp, exit, ledger>>
      /\ work' \in {work, "touched"}
  BY DEF Grade
<1>2. CheckerInv'
  BY <1>1, CheckerStep DEF PassInv
<1>3. Opt' = Opt /\ Owned' = Owned
  BY <1>1 DEF Opt, Owned
<1>4. PassTyped'
  BY <1>1 DEF PassInv, PassTyped
<1>5. PlaceTrue' /\ BackupTrue' /\ RowAt' /\ ExitTrue' /\ KeyTrue'
  BY <1>1, <1>3 DEF PassInv, PlaceTrue, BackupTrue, RowAt, ExitTrue, KeyTrue, In, Unkept
<1> QED
  BY <1>2, <1>4, <1>5 DEF PassInv

\* The end of Orchestrator.run: the verdict is the pass's, of the staged key.
LEMMA GradedGood ==
  ASSUME PassInv, Graded
  PROVE  PassInv'
<1> DEFINE n == IF chk = "raised" THEN mem.by ELSE ledger.passes
           k == IF chk = "raised" THEN mem.key ELSE staged
<1>1. /\ In("check") /\ Go("cleanup") /\ chk \in Returned
      /\ mem' = [mem EXCEPT !.by = n, !.key = k, !.onHost = Docker]
      /\ UNCHANGED <<checkerVars, row, backup, sumry, tree, staged, work, tmp, exit, ledger, hit>>
  BY DEF Graded
<1>2. CheckerInv' /\ chk' = chk
  BY <1>1, CheckerStays DEF PassInv
<1>3. pass'.at = "cleanup" /\ Opt' = Opt /\ pass' \in [opt : Passes \cup {NoPass}, at : Places]
  BY <1>1, GoTo DEF PassInv, Places
<1>4. n \in Nat /\ k \in Nat /\ (chk # "raised" => n = ledger.passes)
  BY DEF PassInv, PassTyped, Record, Ledger
<1>5. ~ ledger.raced => k = 0 /\ mem.digest = 0
  BY <1>1 DEF PassInv, KeyTrue, In
<1> HIDE DEF n, k
<1>6. /\ mem' \in Record /\ mem'.by = n /\ mem'.key = k /\ mem'.digest = mem.digest
      /\ mem'.incidents = mem.incidents
  BY <1>1, <1>4, GradePassAssumption DEF PassInv, PassTyped, Record
<1>7. Owned' = Owned
  BY <1>3 DEF Owned
<1>8. PassTyped'
  BY <1>1, <1>3, <1>6 DEF PassInv, PassTyped
<1>9. PlaceTrue' /\ BackupTrue' /\ RowAt' /\ ExitTrue' /\ KeyTrue'
  BY <1>1, <1>2, <1>3, <1>4, <1>5, <1>6, <1>7 DEF PassInv, PlaceTrue, BackupTrue, RowAt, ExitTrue, KeyTrue, In, Unkept
<1> QED
  BY <1>2, <1>8, <1>9 DEF PassInv

\* _cleanup: the staged key and a copy go, the workspace of the run stays.
LEMMA CleanUpGood ==
  ASSUME PassInv, CleanUp
  PROVE  PassInv'
<1>1. /\ In("cleanup") /\ tmp' = (tmp \ {"staging"}) \ Owned
      /\ UNCHANGED <<checkerVars, row, backup, sumry, mem, tree, staged, exit, ledger, hit>>
  BY DEF CleanUp
<1>2. CheckerInv' /\ chk' = chk
  BY <1>1, CheckerStays DEF PassInv
<1>3. work' = work /\ tmp' = {}
  BY <1>1 DEF CleanUp, Owned, PassInv, PlaceTrue, In
<1>4. CASE chk = "raised" /\ Go("incident")
  <2>1. pass'.at = "incident" /\ Opt' = Opt /\ pass' \in [opt : Passes \cup {NoPass}, at : Places]
    BY <1>4, GoTo DEF PassInv, Places
  <2>2. PassTyped'
    BY <1>1, <1>3, <2>1 DEF PassInv, PassTyped
  <2>3. PlaceTrue' /\ BackupTrue' /\ RowAt' /\ ExitTrue' /\ KeyTrue'
    BY <1>1, <1>2, <1>3, <2>1 DEF PassInv, PlaceTrue, BackupTrue, RowAt, ExitTrue, KeyTrue, In, Unkept
  <2> QED
    BY <1>2, <2>2, <2>3 DEF PassInv
<1>5. CASE chk # "raised" /\ Go("persist")
  <2>1. pass'.at = "persist" /\ Opt' = Opt /\ pass' \in [opt : Passes \cup {NoPass}, at : Places]
    BY <1>5, GoTo DEF PassInv, Places
  <2>2. PassTyped'
    BY <1>1, <1>3, <2>1 DEF PassInv, PassTyped
  <2>3. PlaceTrue' /\ BackupTrue' /\ RowAt' /\ ExitTrue' /\ KeyTrue'
    BY <1>1, <1>2, <1>3, <1>5, <2>1 DEF PassInv, PlaceTrue, BackupTrue, RowAt, ExitTrue, KeyTrue, In, Unkept
  <2> QED
    BY <1>2, <2>2, <2>3 DEF PassInv
<1> QED
  BY <1>4, <1>5 DEF CleanUp

\* _finalize_result: under --resume the row is the pass's from here on.
LEMMA PersistGood ==
  ASSUME PassInv, Persist
  PROVE  PassInv'
<1>1. /\ In("persist") /\ row' = (IF Opt.resume THEN mem ELSE row)
      /\ UNCHANGED <<checkerVars, backup, sumry, mem, tree, staged, work, tmp, ledger, hit>>
  BY DEF Persist
<1>2. CheckerInv' /\ chk' = chk
  BY <1>1, CheckerStays DEF PassInv
<1>3. /\ row' \in Record
      /\ ~ Opt.resume => row' = ledger.prior
      /\ Opt.resume => row'.by = ledger.passes
      /\ ~ ledger.raced => row'.key = 0 /\ row'.digest = 0
      /\ backup # << >> /\ mem.by = ledger.passes /\ mem.incidents = ledger.prior.incidents
  BY <1>1 DEF PassInv, PassTyped, BackupTrue, RowAt, KeyTrue, In, Unkept
<1>4. CASE chk = "cancelled" /\ Over("cancelled")
  <2>1. /\ pass'.at = "over" /\ Opt' = Opt /\ pass' \in [opt : Passes \cup {NoPass}, at : Places]
        /\ exit' = "cancelled"
    BY <1>4, GoTo DEF PassInv, Over, Places
  <2>2. PassTyped'
    BY <1>1, <1>3, <2>1 DEF PassInv, PassTyped
  <2>3. PlaceTrue' /\ BackupTrue' /\ RowAt' /\ ExitTrue' /\ KeyTrue'
    BY <1>1, <1>2, <1>3, <2>1 DEF PassInv, PlaceTrue, BackupTrue, RowAt, ExitTrue, KeyTrue, In, Unkept
  <2> QED
    BY <1>2, <2>2, <2>3 DEF PassInv
<1>5. CASE Go("stamp") /\ UNCHANGED exit
  <2>1. pass'.at = "stamp" /\ Opt' = Opt /\ pass' \in [opt : Passes \cup {NoPass}, at : Places]
    BY <1>5, GoTo DEF PassInv, Places
  <2>2. PassTyped'
    BY <1>1, <1>3, <1>5, <2>1 DEF PassInv, PassTyped
  <2>3. PlaceTrue' /\ BackupTrue' /\ RowAt' /\ ExitTrue' /\ KeyTrue'
    BY <1>1, <1>2, <1>3, <2>1 DEF PassInv, PlaceTrue, BackupTrue, RowAt, ExitTrue, KeyTrue, In, Unkept
  <2> QED
    BY <1>2, <2>2, <2>3 DEF PassInv
<1> QED
  BY <1>4, <1>5 DEF Persist

\* stamp_host_grading changes the result in memory only.
LEMMA StampGood ==
  ASSUME PassInv, Stamp
  PROVE  PassInv'
<1> DEFINE b == mem.hostStamp \/ Docker
<1>1. /\ In("stamp") /\ mem' = [mem EXCEPT !.hostStamp = b]
      /\ UNCHANGED <<checkerVars, row, backup, sumry, tree, staged, work, tmp, exit, ledger, hit>>
  BY DEF Stamp
<1>2. CheckerInv' /\ chk' = chk
  BY <1>1, CheckerStays DEF PassInv
<1>3. b \in BOOLEAN /\ mem \in Record
  BY DEF PassInv, PassTyped, Record
<1> HIDE DEF b
<1>4. /\ mem' \in Record /\ mem'.by = mem.by /\ mem'.key = mem.key /\ mem'.digest = mem.digest
      /\ mem'.incidents = mem.incidents
  BY <1>1, <1>3 DEF Record
<1>5. CASE Opt.resume /\ Go("refresh")
  <2>1. pass'.at = "refresh" /\ Opt' = Opt /\ pass' \in [opt : Passes \cup {NoPass}, at : Places]
    BY <1>5, GoTo DEF PassInv, Places
  <2>2. PassTyped'
    BY <1>1, <1>4, <2>1 DEF PassInv, PassTyped
  <2>3. PlaceTrue' /\ BackupTrue' /\ RowAt' /\ ExitTrue' /\ KeyTrue'
    BY <1>1, <1>2, <1>4, <1>5, <2>1 DEF PassInv, PlaceTrue, BackupTrue, RowAt, ExitTrue, KeyTrue, In, Unkept
  <2> QED
    BY <1>2, <2>2, <2>3 DEF PassInv
<1>6. CASE ~ Opt.resume /\ Go("write")
  <2>1. pass'.at = "write" /\ Opt' = Opt /\ pass' \in [opt : Passes \cup {NoPass}, at : Places]
    BY <1>6, GoTo DEF PassInv, Places
  <2>2. PassTyped'
    BY <1>1, <1>4, <2>1 DEF PassInv, PassTyped
  <2>3. PlaceTrue' /\ BackupTrue' /\ RowAt' /\ ExitTrue' /\ KeyTrue'
    BY <1>1, <1>2, <1>4, <1>6, <2>1 DEF PassInv, PlaceTrue, BackupTrue, RowAt, ExitTrue, KeyTrue, In, Unkept
  <2> QED
    BY <1>2, <2>2, <2>3 DEF PassInv
<1> QED
  BY <1>5, <1>6 DEF Stamp

\* DockerRunner with grade_workspace: it grades only with the key of the run.
LEMMA ContainerGood ==
  ASSUME PassInv, GradeInContainer
  PROVE  PassInv'
<1>1. /\ In("container") /\ work' \in {work, "touched"}
      /\ UNCHANGED <<checkerVars, row, backup, sumry, tree, staged, hit>>
  BY DEF GradeInContainer
<1>2. CheckerInv' /\ chk' = chk
  BY <1>1, CheckerStays DEF PassInv
<1>3. row = ledger.prior /\ row \in Record /\ backup # << >>
  BY <1>1 DEF PassInv, RowAt, BackupTrue, PassTyped, In, Unkept
<1>4. CASE /\ KeyUnchanged /\ Go("fold") /\ UNCHANGED <<tmp, exit, ledger>>
           /\ mem' = [row EXCEPT !.by = ledger.passes, !.key = tree, !.onHost = FALSE]
  <2>1. pass'.at = "fold" /\ Opt' = Opt /\ pass' \in [opt : Passes \cup {NoPass}, at : Places]
    BY <1>4, GoTo DEF PassInv, Places
  <2>2. ledger.passes \in Nat /\ tree \in Nat
    BY DEF PassInv, PassTyped, Ledger
  <2>3. /\ mem' \in Record /\ mem'.by = ledger.passes /\ mem'.key = tree /\ mem'.digest = row.digest
        /\ mem'.incidents = ledger.prior.incidents
    BY <1>3, <1>4, <2>2 DEF Record
  <2>4. PassTyped'
    BY <1>1, <1>4, <2>1, <2>3 DEF PassInv, PassTyped
  <2>5. PlaceTrue' /\ BackupTrue' /\ RowAt' /\ ExitTrue'
    BY <1>1, <1>2, <1>3, <1>4, <2>1, <2>3 DEF PassInv, PlaceTrue, BackupTrue, RowAt, ExitTrue, In, Unkept
  <2>6. KeyTrue'
    BY <1>1, <1>4, <2>1, <2>3 DEF PassInv, KeyTrue, KeyUnchanged
  <2> QED
    BY <1>2, <2>4, <2>5, <2>6 DEF PassInv
<1>5. CASE Fault /\ Go("incident") /\ tmp' = {} /\ UNCHANGED <<mem, exit>>
  <2>1. pass'.at = "incident" /\ Opt' = Opt /\ pass' \in [opt : Passes \cup {NoPass}, at : Places]
    BY <1>5, GoTo DEF PassInv, Places
  <2>2. /\ ledger' \in Ledger /\ ledger'.raced = ledger.raced /\ ledger'.prior = ledger.prior
        /\ ledger'.passes = ledger.passes
    BY <1>5, FaultCounts DEF PassInv
  <2>3. PassTyped'
    BY <1>1, <1>5, <2>1, <2>2 DEF PassInv, PassTyped
  <2>4. PlaceTrue' /\ BackupTrue' /\ RowAt' /\ ExitTrue' /\ KeyTrue'
    BY <1>1, <1>2, <1>3, <1>5, <2>1, <2>2 DEF PassInv, PlaceTrue, BackupTrue, RowAt, ExitTrue, KeyTrue, In, Unkept
  <2> QED
    BY <1>2, <2>3, <2>4 DEF PassInv
<1>6. CASE (Fault \/ UNCHANGED ledger) /\ Over("refused") /\ tmp' = {} /\ UNCHANGED mem
  <2>1. /\ pass'.at = "over" /\ Opt' = Opt /\ pass' \in [opt : Passes \cup {NoPass}, at : Places]
        /\ exit' = "refused"
    BY <1>6, GoTo DEF PassInv, Over, Places
  <2>2. /\ ledger' \in Ledger /\ ledger'.raced = ledger.raced /\ ledger'.prior = ledger.prior
        /\ ledger'.passes = ledger.passes
    BY <1>6, FaultCounts DEF PassInv, PassTyped
  <2>3. PassTyped'
    BY <1>1, <1>6, <2>1, <2>2 DEF PassInv, PassTyped
  <2>4. PlaceTrue' /\ BackupTrue' /\ RowAt' /\ ExitTrue' /\ KeyTrue'
    BY <1>1, <1>2, <1>3, <1>6, <2>1, <2>2 DEF PassInv, PlaceTrue, BackupTrue, RowAt, ExitTrue, KeyTrue, In, Unkept
  <2> QED
    BY <1>2, <2>3, <2>4 DEF PassInv
<1> QED
  BY <1>4, <1>5, <1>6 DEF GradeInContainer

\* _fold_back_container_grade: the record, or the refusal of the pass.
LEMMA FoldGood ==
  ASSUME PassInv, FoldBack
  PROVE  PassInv'
<1>1. /\ In("fold") /\ tmp' = {}
      /\ UNCHANGED <<checkerVars, backup, sumry, mem, tree, staged, work, hit>>
  BY DEF FoldBack
<1>2. CheckerInv' /\ chk' = chk
  BY <1>1, CheckerStays DEF PassInv
<1>3. /\ row = ledger.prior /\ backup # << >> /\ mem \in Record
      /\ mem.by = ledger.passes /\ mem.incidents = ledger.prior.incidents
      /\ ~ ledger.raced => mem.key = 0 /\ mem.digest = 0
  BY <1>1 DEF PassInv, RowAt, KeyTrue, BackupTrue, PassTyped, In, Unkept
<1>4. CASE Opt.resume /\ row' = mem /\ Go("refresh") /\ UNCHANGED <<exit, ledger>>
  <2>1. pass'.at = "refresh" /\ Opt' = Opt /\ pass' \in [opt : Passes \cup {NoPass}, at : Places]
    BY <1>4, GoTo DEF PassInv, Places
  <2>2. PassTyped'
    BY <1>1, <1>3, <1>4, <2>1 DEF PassInv, PassTyped
  <2>3. PlaceTrue' /\ BackupTrue' /\ RowAt' /\ ExitTrue' /\ KeyTrue'
    BY <1>1, <1>2, <1>3, <1>4, <2>1 DEF PassInv, PlaceTrue, BackupTrue, RowAt, ExitTrue, KeyTrue, In, Unkept
  <2> QED
    BY <1>2, <2>2, <2>3 DEF PassInv
<1>5. CASE ~ Opt.resume /\ row' = row /\ Go("write") /\ UNCHANGED <<exit, ledger>>
  <2>1. pass'.at = "write" /\ Opt' = Opt /\ pass' \in [opt : Passes \cup {NoPass}, at : Places]
    BY <1>5, GoTo DEF PassInv, Places
  <2>2. PassTyped'
    BY <1>1, <1>5, <2>1 DEF PassInv, PassTyped
  <2>3. PlaceTrue' /\ BackupTrue' /\ RowAt' /\ ExitTrue' /\ KeyTrue'
    BY <1>1, <1>2, <1>3, <1>5, <2>1 DEF PassInv, PlaceTrue, BackupTrue, RowAt, ExitTrue, KeyTrue, In, Unkept
  <2> QED
    BY <1>2, <2>2, <2>3 DEF PassInv
<1>6. CASE Fault /\ Over("refused") /\ UNCHANGED row
  <2>1. /\ pass'.at = "over" /\ Opt' = Opt /\ pass' \in [opt : Passes \cup {NoPass}, at : Places]
        /\ exit' = "refused"
    BY <1>6, GoTo DEF PassInv, Over, Places
  <2>2. /\ ledger' \in Ledger /\ ledger'.raced = ledger.raced /\ ledger'.prior = ledger.prior
        /\ ledger'.passes = ledger.passes
    BY <1>6, FaultCounts DEF PassInv
  <2>3. PassTyped'
    BY <1>1, <1>6, <2>1, <2>2 DEF PassInv, PassTyped
  <2>4. PlaceTrue' /\ BackupTrue' /\ RowAt' /\ ExitTrue' /\ KeyTrue'
    BY <1>1, <1>2, <1>3, <1>6, <2>1, <2>2 DEF PassInv, PlaceTrue, BackupTrue, RowAt, ExitTrue, KeyTrue, In, Unkept
  <2> QED
    BY <1>2, <2>3, <2>4 DEF PassInv
<1> QED
  BY <1>4, <1>5, <1>6 DEF FoldBack

\* _write_back: the row, or a warning.
LEMMA WriteGood ==
  ASSUME PassInv, WriteBack
  PROVE  PassInv'
<1>1. /\ In("write") /\ UNCHANGED <<checkerVars, backup, sumry, mem, tree, staged, work, tmp, hit>>
  BY DEF WriteBack
<1>2. CheckerInv' /\ chk' = chk
  BY <1>1, CheckerStays DEF PassInv
<1>3. /\ row = ledger.prior /\ backup # << >> /\ mem \in Record
      /\ mem.by = ledger.passes /\ mem.incidents = ledger.prior.incidents
      /\ ~ ledger.raced => mem.key = 0 /\ mem.digest = 0
  BY <1>1 DEF PassInv, RowAt, KeyTrue, BackupTrue, PassTyped, In, Unkept
<1>4. CASE row' = mem /\ Go("refresh") /\ UNCHANGED <<exit, ledger>>
  <2>1. pass'.at = "refresh" /\ Opt' = Opt /\ pass' \in [opt : Passes \cup {NoPass}, at : Places]
    BY <1>4, GoTo DEF PassInv, Places
  <2>2. PassTyped'
    BY <1>1, <1>3, <1>4, <2>1 DEF PassInv, PassTyped
  <2>3. PlaceTrue' /\ BackupTrue' /\ RowAt' /\ ExitTrue' /\ KeyTrue'
    BY <1>1, <1>2, <1>3, <1>4, <2>1 DEF PassInv, PlaceTrue, BackupTrue, RowAt, ExitTrue, KeyTrue, In, Unkept
  <2> QED
    BY <1>2, <2>2, <2>3 DEF PassInv
<1>5. CASE Fault /\ Over("graded") /\ UNCHANGED row
  <2>1. /\ pass'.at = "over" /\ Opt' = Opt /\ pass' \in [opt : Passes \cup {NoPass}, at : Places]
        /\ exit' = "graded"
    BY <1>5, GoTo DEF PassInv, Over, Places
  <2>2. /\ ledger' \in Ledger /\ ledger'.raced = ledger.raced /\ ledger'.prior = ledger.prior
        /\ ledger'.passes = ledger.passes /\ ledger'.faults > 0
    BY <1>5, FaultCounts DEF PassInv
  <2>3. PassTyped'
    BY <1>1, <1>5, <2>1, <2>2 DEF PassInv, PassTyped
  <2>4. PlaceTrue' /\ BackupTrue' /\ RowAt' /\ ExitTrue' /\ KeyTrue'
    BY <1>1, <1>2, <1>3, <1>5, <2>1, <2>2 DEF PassInv, PlaceTrue, BackupTrue, RowAt, ExitTrue, KeyTrue, In, Unkept
  <2> QED
    BY <1>2, <2>3, <2>4 DEF PassInv
<1> QED
  BY <1>4, <1>5 DEF WriteBack

\* write_grading_incident: the prior row with one more incident.
LEMMA IncidentGood ==
  ASSUME PassInv, RecordIncident
  PROVE  PassInv'
<1>1. /\ In("incident") /\ Go("refresh") /\ row' = [ledger.prior EXCEPT !.incidents = @ + 1] /\ mem' = row'
      /\ UNCHANGED <<checkerVars, backup, sumry, tree, staged, work, tmp, exit, ledger, hit>>
  BY DEF RecordIncident, Incident
<1>2. CheckerInv' /\ chk' = chk
  BY <1>1, CheckerStays DEF PassInv
<1>3. pass'.at = "refresh" /\ Opt' = Opt /\ pass' \in [opt : Passes \cup {NoPass}, at : Places]
  BY <1>1, GoTo DEF PassInv, Places
<1>4. ledger.prior \in Record /\ row = ledger.prior /\ backup # << >>
  BY <1>1 DEF PassInv, PassTyped, RowAt, BackupTrue, Ledger, In, Unkept
<1>5. row' \in Record /\ row'.key = ledger.prior.key /\ row'.digest = ledger.prior.digest
  BY <1>1, <1>4, IncidentTyped DEF Record
<1>6. PassTyped'
  BY <1>1, <1>3, <1>5 DEF PassInv, PassTyped
<1>7. PlaceTrue' /\ BackupTrue' /\ RowAt' /\ ExitTrue' /\ KeyTrue'
  BY <1>1, <1>2, <1>3, <1>4, <1>5 DEF PassInv, PlaceTrue, BackupTrue, RowAt, ExitTrue, KeyTrue, In, Unkept
<1> QED
  BY <1>2, <1>6, <1>7 DEF PassInv

\* The summary, and what the command reports.
LEMMA RefreshGood ==
  ASSUME PassInv, RefreshSummary
  PROVE  PassInv'
<1> DEFINE how == IF mem.incidents > ledger.prior.incidents THEN "incident" ELSE "graded"
<1>1. /\ In("refresh") /\ Over(how)
      /\ sumry' = (IF Opt.resume THEN mem ELSE IF Refreshed THEN row ELSE sumry)
      /\ UNCHANGED <<checkerVars, row, backup, mem, tree, staged, work, tmp, ledger, hit>>
  BY DEF RefreshSummary
<1>2. CheckerInv' /\ chk' = chk
  BY <1>1, CheckerStays DEF PassInv
<1>3. /\ pass'.at = "over" /\ Opt' = Opt /\ pass' \in [opt : Passes \cup {NoPass}, at : Places]
      /\ exit' = how /\ how \in {"incident", "graded"}
  BY <1>1, GoTo DEF PassInv, Over, Places
<1>4. \/ how = "graded" /\ row.by = ledger.passes
      \/ how = "incident" /\ row = [ledger.prior EXCEPT !.incidents = @ + 1]
  <2>1. ledger.prior.incidents \in Nat /\ ledger.prior \in Record
    BY DEF PassInv, PassTyped, Ledger, Record
  <2>2. CASE mem.incidents = ledger.prior.incidents /\ row.by = ledger.passes
    BY <2>1, <2>2
  <2>3. CASE mem = row /\ row = [ledger.prior EXCEPT !.incidents = @ + 1]
    <3>1. mem.incidents = ledger.prior.incidents + 1
      BY <2>1, <2>3 DEF Record
    <3> QED
      BY <2>1, <2>3, <3>1
  <2> QED
    BY <1>1, <2>2, <2>3 DEF PassInv, RowAt, In
<1> HIDE DEF how
<1>5. sumry' \in Record /\ (~ Opt.resume /\ ~ Opt.inside => sumry' = row)
  BY <1>1 DEF PassInv, PassTyped, Refreshed
<1>6. PassTyped'
  BY <1>1, <1>3, <1>5 DEF PassInv, PassTyped
<1>7. PlaceTrue' /\ BackupTrue' /\ RowAt' /\ ExitTrue' /\ KeyTrue'
  BY <1>1, <1>2, <1>3, <1>4, <1>5 DEF PassInv, PlaceTrue, BackupTrue, RowAt, ExitTrue, KeyTrue, In, Unkept
<1> QED
  BY <1>2, <1>6, <1>7 DEF PassInv

\* A cancellation outside of the checker.
LEMMA CancelGood ==
  ASSUME PassInv, CancelPass
  PROVE  PassInv'
<1>1. /\ pass.at \in {"sandbox", "container"} /\ Over("cancelled") /\ hit' = pass.at
      /\ tmp' = IF In("sandbox") /\ ~ Opt.inPlace THEN {"copy"} ELSE {}
      /\ UNCHANGED <<checkerVars, row, backup, sumry, mem, tree, staged, work, ledger>>
  BY DEF CancelPass
<1>2. CheckerInv' /\ chk' = chk
  BY <1>1, CheckerStays DEF PassInv
<1>3. /\ pass'.at = "over" /\ Opt' = Opt /\ pass' \in [opt : Passes \cup {NoPass}, at : Places]
      /\ exit' = "cancelled"
  BY <1>1, GoTo DEF PassInv, Over, Places
<1>4. PassTyped'
  BY <1>1, <1>3 DEF PassInv, PassTyped
<1>5. PlaceTrue' /\ BackupTrue' /\ RowAt' /\ ExitTrue' /\ KeyTrue'
  BY <1>1, <1>2, <1>3 DEF PassInv, PlaceTrue, BackupTrue, RowAt, ExitTrue, KeyTrue, In, Unkept
<1> QED
  BY <1>2, <1>4, <1>5 DEF PassInv

\* A thread that a second cancellation left copies on when the pass is over.
LEMMA LateCopyGood ==
  ASSUME PassInv, NEW part \in {"work", "ref"}, LateCopy(part)
  PROVE  PassInv'
<1>1. In("over") /\ CopyEnds(part) /\ UNCHANGED gradeVars
  BY DEF LateCopy
<1>2. CheckerInv'
  BY <1>1, CheckerStep DEF PassInv, CheckerNext, CheckerWork
<1>3. Opt' = Opt /\ Owned' = Owned /\ chk' = chk
  BY <1>1 DEF gradeVars, Opt, Owned, CopyEnds
<1>4. PassTyped'
  BY <1>1 DEF PassInv, PassTyped, gradeVars
<1>5. PlaceTrue' /\ BackupTrue' /\ RowAt' /\ ExitTrue' /\ KeyTrue'
  BY <1>1, <1>3 DEF PassInv, PlaceTrue, BackupTrue, RowAt, ExitTrue, KeyTrue, gradeVars
<1> QED
  BY <1>2, <1>4, <1>5 DEF PassInv

-----------------------------------------------------------------------------
(* The theorems.                                                           *)

\* PassInv is an inductive invariant.
LEMMA PassInductive ==
  /\ Init => PassInv
  /\ PassInv /\ [Next]_vars => PassInv'
<1>1. ASSUME Init PROVE PassInv
  <2>1. /\ CheckerInit /\ pass = [opt |-> NoPass, at |-> "over"]
        /\ row = Executed /\ sumry = Executed /\ mem = Executed /\ backup = << >>
        /\ tree = 0 /\ staged = 0 /\ work = "asrun" /\ tmp = {} /\ exit = "none" /\ hit = "nowhere"
        /\ ledger = [passes |-> 0, edits |-> 0, faults |-> 0, raced |-> FALSE, prior |-> Executed]
    BY <1>1 DEF Init
  <2>2. CheckerInv
    <3>1. /\ crit \in Vectors /\ chk = "off" /\ results = << >> /\ booked = FALSE
          /\ capture = NoCapture /\ calls = 0 /\ dir = NoDir /\ copying = {}
          /\ alive = FALSE /\ why = "none" /\ cancels = 0
      BY <2>1 DEF CheckerInit
    <3>2. results \in Seq(Result) /\ Len(results) = 0
      BY <3>1
    <3>3. 0 \in 0..MaxCalls /\ 0 \in 0..MaxCancels
      BY CheckerAssumption
    <3>4. CheckerTypeOK
      <4>1. \A i \in DOMAIN results : results[i] \in Result
        BY <3>2
      <4>2. /\ capture.verdict = FALSE /\ capture.error = FALSE
            /\ dir.made = FALSE /\ dir.holds = {}
        BY <3>1 DEF NoCapture, NoDir
      <4> QED
        BY <3>1, <3>3, <4>1, <4>2 DEF CheckerTypeOK
    <3>5. ResultsSound
      BY <3>1, <3>2, VectorFacts DEF ResultsSound, AtCriterion
    <3>6. CaptureSound /\ JudgeSound
      BY <3>1 DEF CaptureSound, JudgeSound, NoCapture, AtDirectory, Returned
    <3> QED
      BY <3>1, <3>4, <3>5, <3>6 DEF CheckerInv, Returned
  <2>3. /\ Executed \in Record /\ Executed.by = 0 /\ Executed.key = 0 /\ Executed.digest = 0
    BY DEF Executed, Record
  <2>4. pass.at = "over" /\ pass \in [opt : Passes \cup {NoPass}, at : Places]
    BY <2>1 DEF Places
  <2>5. ledger \in Ledger /\ ledger.prior = Executed /\ ledger.passes = 0
    BY <2>1, <2>3 DEF Ledger
  <2>6. PassTyped
    BY <2>1, <2>3, <2>4, <2>5 DEF PassTyped
  <2>7. PlaceTrue /\ BackupTrue /\ RowAt /\ ExitTrue /\ KeyTrue
    BY <2>1, <2>3, <2>4, <2>5 DEF PlaceTrue, BackupTrue, RowAt, ExitTrue, KeyTrue, Unkept
  <2> QED
    BY <2>2, <2>6, <2>7 DEF PassInv
<1>2. ASSUME PassInv, Next PROVE PassInv'
  BY <1>2, StartGood, EditGood, ResolveGood, BackUpGood, BranchGood, PrepareGood, StageGood, GradedGood,
     CleanUpGood, PersistGood, StampGood, ContainerGood, FoldGood, WriteGood, IncidentGood, RefreshGood,
     GradeGood, CancelGood, LateCopyGood
  DEF Next, Proceed
<1>3. ASSUME PassInv, UNCHANGED vars PROVE PassInv'
  <2>1. CheckerInv' /\ chk' = chk /\ UNCHANGED gradeVars
    BY <1>3, CheckerStays DEF PassInv, vars
  <2>2. Opt' = Opt /\ Owned' = Owned
    BY <2>1 DEF gradeVars, Opt, Owned
  <2> QED
    BY <1>3, <2>1, <2>2
    DEF PassInv, PassTyped, PlaceTrue, BackupTrue, RowAt, ExitTrue, KeyTrue, gradeVars
<1> QED
  BY <1>1, <1>2, <1>3

\* A pass that is over has left the verdict it reports, over the record of the
\* execution, computed with the key of the run, and the summary says the same
\* (_write_back, write_grading_incident, back_up_pre_grade_record,
\* verify_reference_unchanged); and a vector it was computed from has one true
\* result per criterion (check_all_async).
THEOREM VerdictReachesRow == Spec => []RowTrue
<1>1. PassInv => RowTrue
  <2> SUFFICES ASSUME PassInv PROVE RowTrue
    OBVIOUS
  <2>1. VectorTrue
    <3>1. DOMAIN results = 1..Len(results)
      BY DEF PassInv, CheckerInv, ResultsSound
    <3> QED
      BY <3>1 DEF PassInv, CheckerInv, ResultsSound, VectorTrue
  <2>2. TypeOK
    BY DEF PassInv, CheckerInv, PassTyped, TypeOK, Ledger
  <2>3. ASSUME In("over"), exit \in {"refused", "incident"}
        PROVE  [row EXCEPT !.incidents = 0] = [ledger.prior EXCEPT !.incidents = 0]
    <3>1. ledger.prior \in Record
      BY DEF PassInv, PassTyped, Ledger
    <3> QED
      BY <2>3, <3>1 DEF PassInv, ExitTrue, In, Record
  <2>4. /\ In("over") /\ exit = "graded" =>
             row.by = ledger.passes \/ (row = ledger.prior /\ ledger.faults > 0)
        /\ row.by # 0 => backup # << >> /\ backup[1].by = 0
        /\ ~ ledger.raced => row.key = 0 /\ row.digest = 0
        /\ In("over") /\ exit \in {"graded", "incident"} /\ ~ Opt.resume /\ ~ Opt.inside /\ row # ledger.prior =>
             sumry = row
    BY DEF PassInv, ExitTrue, BackupTrue, KeyTrue, In
  <2> QED
    BY <2>1, <2>2, <2>3, <2>4 DEF RowTrue
<1> QED
  BY <1>1, PassInductive, PTL DEF Spec

\* The workspace of the run stays as it was, or where it was, and a pass that
\* is over has left no temporary directory, no judge's process and no thread
\* at work, but for the copy of a cancelled set-up and what a second
\* cancellation skips (adopt, run_async, _run_agent).
THEOREM PassCleansUp == Spec => []PassLeavesNothing
<1>1. PassInv => PassLeavesNothing
  <2> SUFFICES ASSUME PassInv PROVE PassLeavesNothing
    OBVIOUS
  <2>1. JudgeLeavesNothing
    <3>1. cancels \in Nat
      BY CheckerAssumption DEF PassInv, CheckerInv, CheckerTypeOK
    <3> QED
      BY <3>1 DEF PassInv, CheckerInv, CheckerTypeOK, JudgeSound, JudgeLeavesNothing, Returned
  <2> QED
    BY <2>1 DEF PassInv, PassTyped, PlaceTrue, PassLeavesNothing, In
<1> QED
  BY <1>1, PassInductive, PTL DEF Spec

-----------------------------------------------------------------------------
(* The text of a command (CommandText): a line longer than a window is cut *)
(* into pieces that overlap.                                               *)

\* How far the pieces before a piece reach.
Spaced(k) == k * Text!Step

LEMMA StepPlain ==
  ASSUME TextPlain
  PROVE  /\ TextCap \in Nat \ {0} /\ TextOverlap \in Nat
         /\ Text!Step \in Nat \ {0} /\ Text!Step = TextCap - TextOverlap
         /\ TextCap <= Text!Step + Text!Step
  BY SMT DEF TextPlain, Text!Step

LEMMA Divides ==
  ASSUME NEW a \in Nat, NEW b \in Nat \ {0}
  PROVE  /\ a \div b \in Nat
         /\ (a \div b) * b <= a
         /\ a < (a \div b) * b + b
  BY SMT

LEMMA SpacedFacts ==
  ASSUME TextPlain
  PROVE  /\ Spaced(0) = 0
         /\ \A k \in Nat : Spaced(k) \in Nat
         /\ \A k \in Nat : Spaced(k + 1) = Spaced(k) + Text!Step
         /\ \A k, j \in Nat : k < j => Spaced(k) + Text!Step <= Spaced(j)
<1>1. Text!Step \in Nat \ {0} BY StepPlain
<1>2. Spaced(0) = 0 BY <1>1, SMT DEF Spaced
<1>3. \A k \in Nat : Spaced(k) \in Nat BY <1>1, SMT DEF Spaced
<1>4. \A k \in Nat : Spaced(k + 1) = Spaced(k) + Text!Step BY <1>1, SMT DEF Spaced
<1>5. ASSUME NEW k \in Nat, NEW j \in Nat, k < j PROVE Spaced(k) + Text!Step <= Spaced(j)
  <2> DEFINE S == Text!Step
             d == j - k - 1
  <2>1. S \in Nat /\ d \in Nat /\ j = k + 1 + d BY <1>1, <1>5, SMT
  <2> HIDE DEF S, d
  <2>2. d * S >= 0 BY <2>1, SMT
  <2>3. (k + 1 + d) * S = k * S + S + d * S BY <2>1, SMT
  <2>4. k * S \in Nat /\ d * S \in Nat BY <2>1, SMT
  <2>5. k * S + S <= j * S BY <2>1, <2>2, <2>3, <2>4, SMT
  <2> QED BY <2>5 DEF S, Spaced
<1> QED BY <1>2, <1>3, <1>4, <1>5

LEMMA CutsFacts ==
  ASSUME TextPlain, NEW len \in Nat
  PROVE  /\ Text!Cuts(len) \in Nat
         /\ len <= TextCap => Text!Cuts(len) = 0
         /\ len > TextCap => Spaced(Text!Cuts(len)) < len
         /\ len - Spaced(Text!Cuts(len)) <= TextCap
         /\ \A k \in 1 .. Text!Cuts(len) : Spaced(k - 1) + TextCap < len
<1>1. /\ TextCap \in Nat \ {0} /\ TextOverlap \in Nat
      /\ Text!Step \in Nat \ {0} /\ Text!Step = TextCap - TextOverlap
  BY StepPlain
<1>2. CASE len <= TextCap
  <2>1. Text!Cuts(len) = 0 BY <1>2 DEF Text!Cuts
  <2> QED BY <1>1, <1>2, <2>1, SpacedFacts, SMT
<1>3. CASE len > TextCap
  <2> DEFINE S == Text!Step
             a == len - TextCap + S - 1
             n == Text!Cuts(len)
  <2>1. n = a \div S BY <1>3, <1>1, SMT DEF Text!Cuts
  <2>2. a \in Nat /\ S \in Nat \ {0} /\ a = len - TextCap + S - 1 /\ S = TextCap - TextOverlap BY <1>1, <1>3, SMT
  <2> HIDE DEF a, S, n
  <2>3. n \in Nat /\ n * S <= a /\ a < n * S + S BY <2>1, <2>2, Divides
  <2>4. Spaced(n) = n * S BY DEF Spaced, S
  <2> HIDE DEF Spaced
  <2>5. Spaced(n) < len /\ len - Spaced(n) <= TextCap
    <3>1. n * S \in Nat BY <2>2, <2>3, SMT
    <3> QED BY <3>1, <1>1, <1>3, <2>2, <2>3, <2>4, SMT
  <2>6. ASSUME NEW k \in 1 .. n PROVE Spaced(k - 1) + TextCap < len
    <3>1. k - 1 \in Nat /\ k - 1 < n BY <2>3, SMT
    <3>2. Spaced(k - 1) + S <= Spaced(n) BY <3>1, <2>3, SpacedFacts DEF S
    <3>3. Spaced(k - 1) \in Nat /\ Spaced(n) \in Nat BY <3>1, <2>3, SpacedFacts
    <3> QED BY <3>2, <3>3, <1>1, <1>3, <2>2, <2>3, <2>4, SMT
  <2> QED BY <1>3, <1>1, <2>3, <2>5, <2>6, SMT DEF n
<1> QED BY <1>1, <1>2, <1>3, SMT

-----------------------------------------------------------------------------
(* The windows of a text: in order, none longer than the cap, and each with *)
(* its own start.                                                          *)

\* The windows that are finished end before the line, and start before the next.
Ordered(W, start, end) ==
  /\ W \subseteq Nat \X Nat
  /\ \A w \in W : w[1] < w[2] /\ w[2] <= end /\ w[2] - w[1] <= TextCap /\ w[1] < start

\* A window reaches to the next one's start or a little further, never to the
\* one after.
Sparse(W, start) ==
  /\ \A w, v \in W : w[1] = v[1] => w = v
  /\ \A w, v \in W : w[1] < v[1] => w[2] <= start
  /\ \A w, v, u \in W : w[1] < v[1] /\ v[1] < u[1] => w[2] <= u[1]

\* The window that is being filled.
Filling(start, end) == IF end > start THEN {<<start, end>>} ELSE {}

LEMMA FilledWindows ==
  ASSUME TextPlain, NEW W, NEW s \in Nat, NEW e \in Nat, s <= e, e - s <= TextCap,
         Ordered(W, s, e), Sparse(W, s)
  PROVE  Ordered(W \cup Filling(s, e), e, e) /\ Sparse(W \cup Filling(s, e), e)
<1> DEFINE U == W \cup Filling(s, e)
<1>1. \A w \in Filling(s, e) : w = <<s, e>> /\ s < e BY DEF Filling
<1>2. \A w \in W : w \in Nat \X Nat /\ w[1] < w[2] /\ w[2] <= e /\ w[2] - w[1] <= TextCap /\ w[1] < s
  BY DEF Ordered
<1>3. \A w \in Filling(s, e) : w \in Nat \X Nat /\ w[1] < w[2] /\ w[2] <= e /\ w[2] - w[1] <= TextCap /\ w[1] = s
  BY <1>1, SMT
<1>4. Ordered(U, e, e)
  <2>1. \A w \in U : w \in Nat \X Nat /\ w[1] < w[2] /\ w[2] <= e /\ w[2] - w[1] <= TextCap BY <1>2, <1>3
  <2>2. \A w \in U : w[1] < e BY <2>1, SMT
  <2> QED BY <2>1, <2>2 DEF Ordered
<1>5. \A w, v \in U : w[1] = v[1] => w = v
  <2> SUFFICES ASSUME NEW w \in U, NEW v \in U, w[1] = v[1] PROVE w = v OBVIOUS
  <2>1. CASE w \in W /\ v \in W BY <2>1 DEF Sparse
  <2>2. CASE w \in Filling(s, e) /\ v \in Filling(s, e) BY <2>2, <1>1
  <2>3. CASE w \in W /\ v \in Filling(s, e) BY <2>3, <1>2, <1>3, SMT
  <2>4. CASE w \in Filling(s, e) /\ v \in W BY <2>4, <1>2, <1>3, SMT
  <2> QED BY <2>1, <2>2, <2>3, <2>4
<1>6. \A w, v \in U : w[1] < v[1] => w[2] <= e BY <1>4 DEF Ordered
<1>7. \A w, v, u \in U : w[1] < v[1] /\ v[1] < u[1] => w[2] <= u[1]
  <2> SUFFICES ASSUME NEW w \in U, NEW v \in U, NEW u \in U, w[1] < v[1], v[1] < u[1] PROVE w[2] <= u[1] OBVIOUS
  <2>1. w \in W /\ v \in W
    <3>1. \A x, y \in U : x[1] < y[1] => x \in W
      <4> SUFFICES ASSUME NEW x \in U, NEW y \in U, x[1] < y[1], x \in Filling(s, e) PROVE FALSE OBVIOUS
      <4>1. x[1] = s BY <1>3
      <4>2. y[1] <= s
        <5>1. CASE y \in W BY <5>1, <1>2, SMT
        <5>2. CASE y \in Filling(s, e) BY <5>2, <1>3, SMT
        <5> QED BY <5>1, <5>2
      <4> QED BY <4>1, <4>2, <1>2, <1>3, SMT
    <3> QED BY <3>1
  <2>2. CASE u \in W BY <2>1, <2>2 DEF Sparse
  <2>3. CASE u \in Filling(s, e)
    <3>1. w[2] <= s BY <2>1 DEF Sparse
    <3> QED BY <3>1, <2>3, <1>3
  <2> QED BY <2>2, <2>3
<1> QED BY <1>4, <1>5, <1>6, <1>7 DEF Sparse

LEMMA PieceFacts ==
  ASSUME TextPlain, NEW e \in Nat, NEW l \in Nat, e <= l
  PROVE  LET P == Text!Pieces(e, l)
             t == e + Spaced(Text!Cuts(l - e))
         IN /\ t \in Nat /\ e <= t /\ t <= l /\ l - t <= TextCap
            /\ l - e > TextCap => t < l
            /\ l - e <= TextCap => t = e
            /\ \A w \in P : w \in Nat \X Nat /\ e <= w[1] /\ w[1] + Text!Step <= t /\ w[2] <= l /\ w[2] = w[1] + TextCap
            /\ \A w, v \in P : w[1] < v[1] => w[1] + Text!Step <= v[1]
            /\ \A q \in Nat : q < Text!Cuts(l - e) => <<e + Spaced(q), e + Spaced(q) + TextCap>> \in P
<1> DEFINE n == Text!Cuts(l - e)
           P == Text!Pieces(e, l)
           t == e + Spaced(n)
<1>1. TextCap \in Nat \ {0} /\ Text!Step \in Nat \ {0} BY StepPlain
<1>2. l - e \in Nat BY SMT
<1>3. /\ n \in Nat
      /\ l - e <= TextCap => n = 0
      /\ l - e > TextCap => Spaced(n) < l - e
      /\ (l - e) - Spaced(n) <= TextCap
      /\ \A k \in 1 .. n : Spaced(k - 1) + TextCap < l - e
  BY <1>2, CutsFacts
<1>4. P = {<<e + Spaced(k - 1), e + Spaced(k - 1) + TextCap>> : k \in 1 .. n} BY DEF Text!Pieces, Spaced
<1> HIDE DEF n, P
<1>5. /\ Spaced(0) = 0
      /\ \A k \in Nat : Spaced(k) \in Nat
      /\ \A k, j \in Nat : k < j => Spaced(k) + Text!Step <= Spaced(j)
  BY SpacedFacts
<1>6. t \in Nat /\ e <= t /\ t <= l /\ l - t <= TextCap /\ (l - e > TextCap => t < l) /\ (l - e <= TextCap => t = e)
  BY <1>3, <1>5, <1>1, SMT
<1>7. ASSUME NEW k \in 1 .. n
      PROVE  /\ Spaced(k - 1) \in Nat
             /\ Spaced(k - 1) + Text!Step <= Spaced(n)
             /\ Spaced(k - 1) + TextCap < l - e
  <2>1. k - 1 \in Nat /\ k - 1 < n BY <1>3, SMT
  <2> QED BY <2>1, <1>3, <1>5
<1>8. ASSUME NEW w \in P
      PROVE  w \in Nat \X Nat /\ e <= w[1] /\ w[1] + Text!Step <= t /\ w[2] <= l /\ w[2] = w[1] + TextCap
  <2>1. PICK k \in 1 .. n : w = <<e + Spaced(k - 1), e + Spaced(k - 1) + TextCap>> BY <1>4
  <2> DEFINE m == Spaced(k - 1)
  <2>2. m \in Nat /\ m + Text!Step <= Spaced(n) /\ m + TextCap < l - e BY <1>7
  <2>3. w = <<e + m, e + m + TextCap>> BY <2>1
  <2>4. Spaced(n) \in Nat BY <1>3, <1>5
  <2> HIDE DEF m
  <2>5. w[1] = e + m /\ w[2] = e + m + TextCap /\ e + m \in Nat /\ e + m + TextCap \in Nat BY <2>2, <2>3, <1>1, SMT
  <2>6. w \in Nat \X Nat BY <2>3, <2>5
  <2> QED BY <2>2, <2>4, <2>5, <2>6, <1>1, <1>6, SMT
<1>9. ASSUME NEW w \in P, NEW v \in P, w[1] < v[1] PROVE w[1] + Text!Step <= v[1]
  <2>1. PICK k \in 1 .. n : w = <<e + Spaced(k - 1), e + Spaced(k - 1) + TextCap>> BY <1>4
  <2>2. PICK j \in 1 .. n : v = <<e + Spaced(j - 1), e + Spaced(j - 1) + TextCap>> BY <1>4
  <2>3. w[1] = e + Spaced(k - 1) /\ v[1] = e + Spaced(j - 1) BY <2>1, <2>2
  <2>4. k - 1 \in Nat /\ j - 1 \in Nat BY <1>3, SMT
  <2>5. Spaced(k - 1) \in Nat /\ Spaced(j - 1) \in Nat BY <1>7
  <2>6. Spaced(k - 1) < Spaced(j - 1) BY <1>9, <2>3, <2>5, SMT
  <2>7. k - 1 < j - 1
    <3>1. CASE k - 1 = j - 1 BY <3>1, <2>6, <2>5, SMT
    <3>2. CASE j - 1 < k - 1
      <4>1. Spaced(j - 1) + Text!Step <= Spaced(k - 1) BY <3>2, <2>4, <1>5
      <4> QED BY <4>1, <2>5, <2>6, <1>1, SMT
    <3> QED BY <3>1, <3>2, <2>4, SMT
  <2>8. Spaced(k - 1) + Text!Step <= Spaced(j - 1) BY <2>4, <2>7, <1>5
  <2> QED BY <2>3, <2>5, <2>8, <1>1, SMT
<1>10. ASSUME NEW q \in Nat, q < n PROVE <<e + Spaced(q), e + Spaced(q) + TextCap>> \in P
  <2>1. q + 1 \in 1 .. n /\ (q + 1) - 1 = q BY <1>10, <1>3, SMT
  <2> QED BY <2>1, <1>4
<1> QED BY <1>6, <1>8, <1>9, <1>10 DEF n, P

LEMMA CutWindows ==
  ASSUME TextPlain, NEW W, NEW s \in Nat, NEW e \in Nat, NEW l \in Nat, s <= e, e <= l, e - s <= TextCap,
         Ordered(W, s, e), Sparse(W, s)
  PROVE  LET V == W \cup Filling(s, e) \cup Text!Pieces(e, l)
             t == e + Spaced(Text!Cuts(l - e))
         IN Ordered(V, t, l) /\ Sparse(V, t)
<1> DEFINE U == W \cup Filling(s, e)
           P == Text!Pieces(e, l)
           V == U \cup P
           t == e + Spaced(Text!Cuts(l - e))
           S == Text!Step
<1>1. TextCap \in Nat \ {0} /\ S \in Nat \ {0} /\ TextCap <= S + S BY StepPlain
<1>2. Ordered(U, e, e) /\ Sparse(U, e) BY FilledWindows
<1>3. /\ t \in Nat /\ e <= t /\ t <= l
      /\ \A w \in P : w \in Nat \X Nat /\ e <= w[1] /\ w[1] + S <= t /\ w[2] <= l /\ w[2] = w[1] + TextCap
      /\ \A w, v \in P : w[1] < v[1] => w[1] + S <= v[1]
  BY PieceFacts
<1> HIDE DEF U, P, t, S
<1>4. \A w \in U : w \in Nat \X Nat /\ w[1] < w[2] /\ w[2] <= e /\ w[2] - w[1] <= TextCap /\ w[1] < e BY <1>2 DEF Ordered
<1>5. Ordered(V, t, l)
  <2>1. \A w \in U : w \in Nat \X Nat /\ w[1] < w[2] /\ w[2] <= l /\ w[2] - w[1] <= TextCap /\ w[1] < t BY <1>3, <1>4, SMT
  <2>2. \A w \in P : w \in Nat \X Nat /\ w[1] < w[2] /\ w[2] <= l /\ w[2] - w[1] <= TextCap /\ w[1] < t BY <1>1, <1>3, SMT
  <2> QED BY <2>1, <2>2 DEF Ordered
<1>6. \A w \in U, v \in P : w[1] < v[1] /\ w[2] <= v[1] BY <1>3, <1>4, SMT
<1>7. \A w \in U : w[2] <= t BY <1>3, <1>4, SMT
<1>8. ASSUME NEW w \in V, NEW v \in V, w[1] = v[1] PROVE w = v
  <2>1. CASE w \in U /\ v \in U BY <2>1, <1>8, <1>2 DEF Sparse
  <2>2. CASE w \in P /\ v \in P
    <3>1. w[2] = v[2] BY <2>2, <1>8, <1>3
    <3>2. w = <<w[1], w[2]>> /\ v = <<v[1], v[2]>> BY <2>2, <1>3
    <3> QED BY <3>1, <3>2, <1>8
  <2>3. CASE w \in U /\ v \in P BY <2>3, <1>8, <1>6, <1>3, <1>4, SMT
  <2>4. CASE w \in P /\ v \in U BY <2>4, <1>8, <1>6, <1>3, <1>4, SMT
  <2> QED BY <2>1, <2>2, <2>3, <2>4
<1>9. \A w \in P : w[2] <= w[1] + S + S BY <1>1, <1>3, SMT
<1>10. ASSUME NEW w \in V, NEW v \in V, w[1] < v[1] PROVE w[2] <= t
  <2>1. CASE w \in U BY <2>1, <1>7
  <2>2. CASE w \in P /\ v \in P
    <3>1. w[1] + S <= v[1] /\ v[1] + S <= t /\ w[2] <= w[1] + S + S BY <2>2, <1>3, <1>9, <1>10
    <3> QED BY <3>1, <2>2, <1>1, <1>3, SMT
  <2>3. CASE w \in P /\ v \in U BY <2>3, <1>10, <1>6, <1>3, <1>4, SMT
  <2> QED BY <2>1, <2>2, <2>3
<1>11. ASSUME NEW w \in V, NEW v \in V, NEW u \in V, w[1] < v[1], v[1] < u[1] PROVE w[2] <= u[1]
  <2>0. \A x, y \in V : x[1] < y[1] /\ y \in U => x \in U
    <3> SUFFICES ASSUME NEW x \in P, NEW y \in U, x[1] < y[1] PROVE FALSE OBVIOUS
    <3> QED BY <1>6, <1>3, <1>4, SMT
  <2>1. CASE u \in U
    <3>1. v \in U /\ w \in U BY <2>0, <2>1, <1>11
    <3> QED BY <2>1, <3>1, <1>11, <1>2 DEF Sparse
  <2>2. CASE w \in U /\ u \in P BY <2>2, <1>6
  <2>3. CASE w \in P /\ u \in P
    <3>1. v \in P BY <2>0, <2>3, <1>11, <1>6, <1>3, <1>4, SMT
    <3>2. w[1] + S <= v[1] /\ v[1] + S <= u[1] /\ w[2] <= w[1] + S + S BY <2>3, <3>1, <1>3, <1>9, <1>11
    <3> QED BY <3>1, <3>2, <2>3, <1>1, <1>3, SMT
  <2> QED BY <2>1, <2>2, <2>3
<1>12. Sparse(V, t) BY <1>8, <1>10, <1>11 DEF Sparse
<1> QED BY <1>5, <1>12 DEF U, P, t

LEMMA PieceHolds ==
  ASSUME TextPlain, NEW e \in Nat, NEW l \in Nat, e <= l,
         NEW from \in Nat, NEW to \in Nat, e <= from, to - from <= TextOverlap,
         from < e + Spaced(Text!Cuts(l - e))
  PROVE  \E w \in Text!Pieces(e, l) : w[1] <= from /\ to <= w[2]
<1> DEFINE S == Text!Step
           n == Text!Cuts(l - e)
           P == Text!Pieces(e, l)
           q == (from - e) \div S
<1>1. TextCap \in Nat \ {0} /\ TextOverlap \in Nat /\ S \in Nat \ {0} /\ S = TextCap - TextOverlap BY StepPlain
<1>2. from - e \in Nat BY SMT
<1>3. q \in Nat /\ q * S <= from - e /\ from - e < q * S + S BY <1>1, <1>2, Divides
<1>4. Spaced(q) = q * S BY DEF Spaced
<1>5. n \in Nat
  <2>1. l - e \in Nat BY SMT
  <2> QED BY <2>1, CutsFacts
<1>6. \A k \in Nat : k < n => <<e + Spaced(k), e + Spaced(k) + TextCap>> \in P BY PieceFacts
<1>7. from < e + Spaced(n) OBVIOUS
<1> HIDE DEF S, n, P, q
<1>8. Spaced(q) \in Nat /\ Spaced(n) \in Nat BY <1>3, <1>5, SpacedFacts
<1>9. q < n
  <2>1. CASE n = q BY <2>1, <1>3, <1>4, <1>7, <1>8, SMT
  <2>2. CASE n < q
    <3>1. Spaced(n) + S <= Spaced(q) BY <2>2, <1>3, <1>5, SpacedFacts DEF S
    <3> QED BY <3>1, <1>1, <1>3, <1>4, <1>7, <1>8, SMT
  <2> QED BY <2>1, <2>2, <1>3, <1>5, SMT
<1> DEFINE w == <<e + Spaced(q), e + Spaced(q) + TextCap>>
<1>10. w \in P BY <1>3, <1>6, <1>9
<1>11. w[1] <= from /\ to <= w[2]
  <2>1. e + Spaced(q) <= from BY <1>2, <1>3, <1>4, <1>8, SMT
  <2>2. to <= e + Spaced(q) + TextCap
    <3>1. from - e < Spaced(q) + S BY <1>3, <1>4
    <3> QED BY <3>1, <1>1, <1>8, SMT
  <2> QED BY <2>1, <2>2
<1> HIDE DEF w
<1> QED BY <1>10, <1>11 DEF P

-----------------------------------------------------------------------------
(* The scan, line by line: what is not to be cut in two is in a window.    *)

\* Where a logical line starts.
Begins(ends, i) == IF i = 1 THEN 0 ELSE ends[i - 1]

\* One window has all of it, or the one that is being filled.
Holds(W, start, end, from, to) ==
  (\E w \in W : w[1] <= from /\ to <= w[2]) \/ (start <= from /\ to <= end)

\* What lies in one line, and is short or the line is.
InLine(ends, i, from, to) ==
  /\ Begins(ends, i) <= from /\ from < to /\ to <= ends[i]
  /\ to - from <= TextOverlap \/ ends[i] - Begins(ends, i) <= TextCap

\* The invariant of the scan.
Scanned(ends, o) ==
  /\ o \in [line : Nat, start : Nat, end : Nat, windows : SUBSET (Nat \X Nat)]
  /\ o.line \in 1 .. (Len(ends) + 1)
  /\ o.end = Begins(ends, o.line)
  /\ o.start <= o.end /\ o.end - o.start <= TextCap
  /\ o.start < o.end \/ o.end = 0
  /\ Ordered(o.windows, o.start, o.end)
  /\ Sparse(o.windows, o.start)
  /\ \A i \in 1 .. Len(ends) : i < o.line =>
       \A from, to \in Nat : InLine(ends, i, from, to) => Holds(o.windows, o.start, o.end, from, to)

\* TextPlain says it of every text.
EndsPlain(ends) ==
  /\ ends \in Seq(Nat) /\ Len(ends) > 0
  /\ \A i, j \in DOMAIN ends : i <= j => ends[i] <= ends[j]

LEMMA LineBounds ==
  ASSUME NEW ends, EndsPlain(ends), NEW i \in 1 .. Len(ends)
  PROVE  /\ Begins(ends, i) \in Nat /\ ends[i] \in Nat /\ Begins(ends, i) <= ends[i]
         /\ Begins(ends, i + 1) = ends[i]
<1>1. Len(ends) \in Nat /\ DOMAIN ends = 1 .. Len(ends) /\ \A k \in 1 .. Len(ends) : ends[k] \in Nat
  BY DEF EndsPlain
<1>2. i \in Nat /\ i + 1 # 1 /\ (i + 1) - 1 = i BY <1>1, SMT
<1>3. CASE i = 1
  BY <1>1, <1>2, <1>3, SMT DEF Begins
<1>4. CASE i # 1
  <2>1. i - 1 \in DOMAIN ends /\ i \in DOMAIN ends /\ i - 1 <= i BY <1>1, <1>4, SMT
  <2>2. ends[i - 1] <= ends[i] /\ ends[i - 1] \in Nat /\ ends[i] \in Nat BY <1>1, <2>1 DEF EndsPlain
  <2> QED BY <1>2, <1>4, <2>2 DEF Begins
<1> QED BY <1>3, <1>4

\* A line that fits into the window that is being filled is added to it.
LEMMA LineAdded ==
  ASSUME TextPlain, NEW ends, EndsPlain(ends), NEW o, Scanned(ends, o), o.line <= Len(ends),
         ends[o.line] - o.start <= TextCap
  PROVE  Scanned(ends, [o EXCEPT !.line = @ + 1, !.end = ends[o.line]])
<1> DEFINE i == o.line
           s == o.start
           e == o.end
           l == ends[o.line]
           W == o.windows
           r == [o EXCEPT !.line = @ + 1, !.end = ends[o.line]]
<1>1. /\ Len(ends) \in Nat /\ i \in 1 .. Len(ends) /\ s \in Nat /\ e \in Nat /\ W \subseteq Nat \X Nat
  BY DEF Scanned, EndsPlain
<1>2. e = Begins(ends, i) /\ e <= l /\ l \in Nat /\ Begins(ends, i + 1) = l BY <1>1, LineBounds DEF Scanned
<1>3. /\ r.line = i + 1 /\ r.start = s /\ r.end = l /\ r.windows = W
      /\ r \in [line : Nat, start : Nat, end : Nat, windows : SUBSET (Nat \X Nat)]
  <2>1. o \in [line : Nat, start : Nat, end : Nat, windows : SUBSET (Nat \X Nat)] BY DEF Scanned
  <2>2. o.line + 1 \in Nat BY <1>1, SMT
  <2>3. ends[o.line] \in Nat BY <1>2
  <2> QED BY <2>1, <2>2, <2>3
<1>4. s <= e /\ (s < e \/ e = 0) /\ Ordered(W, s, e) /\ Sparse(W, s) BY DEF Scanned
<1>5. \A k \in 1 .. Len(ends) : k < i =>
        \A from, to \in Nat : InLine(ends, k, from, to) => Holds(W, s, e, from, to)
  BY DEF Scanned
<1>6. l - s <= TextCap OBVIOUS
<1> HIDE DEF i, s, e, l, W, r
<1>7. i + 1 \in 1 .. (Len(ends) + 1) BY <1>1, SMT
<1>8. s <= l /\ (s < l \/ l = 0) BY <1>1, <1>2, <1>4, SMT
<1>9. Ordered(W, s, l)
  <2>1. \A w \in W : w \in Nat \X Nat /\ w[2] <= l BY <1>1, <1>2, <1>4, SMT DEF Ordered
  <2> QED BY <1>4, <2>1 DEF Ordered
<1>10. ASSUME NEW k \in 1 .. Len(ends), k < i + 1, NEW from \in Nat, NEW to \in Nat, InLine(ends, k, from, to)
       PROVE  Holds(W, s, l, from, to)
  <2>1. CASE k < i
    <3>1. Holds(W, s, e, from, to) BY <1>5, <1>10, <2>1
    <3>2. to <= e => to <= l BY <1>1, <1>2, SMT
    <3> QED BY <3>1, <3>2 DEF Holds
  <2>2. CASE k = i
    <3>1. e <= from /\ to <= l BY <1>2, <1>10, <2>2 DEF InLine, l, i
    <3>2. s <= from BY <3>1, <1>1, <1>4, SMT
    <3> QED BY <3>1, <3>2 DEF Holds
  <2> QED BY <2>1, <2>2, <1>1, <1>10, SMT
<1> QED BY <1>2, <1>3, <1>4, <1>6, <1>7, <1>8, <1>9, <1>10 DEF Scanned, r

\* One that does not starts a window, and is cut while it is longer than that.
LEMMA LineCut ==
  ASSUME TextPlain, NEW ends, EndsPlain(ends), NEW o, Scanned(ends, o), o.line <= Len(ends),
         ends[o.line] - o.start > TextCap
  PROVE  Scanned(ends, [o EXCEPT !.line = @ + 1,
                                 !.start = o.end + Text!Cuts(ends[o.line] - o.end) * Text!Step,
                                 !.end = ends[o.line],
                                 !.windows = @ \cup Filling(o.start, o.end) \cup Text!Pieces(o.end, ends[o.line])])
<1> DEFINE i == o.line
           s == o.start
           e == o.end
           l == ends[o.line]
           W == o.windows
           P == Text!Pieces(e, l)
           F == Filling(s, e)
           t == e + Spaced(Text!Cuts(l - e))
           r == [o EXCEPT !.line = @ + 1, !.start = t, !.end = l, !.windows = @ \cup F \cup P]
<1>1. /\ Len(ends) \in Nat /\ i \in 1 .. Len(ends) /\ s \in Nat /\ e \in Nat /\ W \subseteq Nat \X Nat
  BY DEF Scanned, EndsPlain
<1>2. e = Begins(ends, i) /\ e <= l /\ l \in Nat /\ Begins(ends, i + 1) = l BY <1>1, LineBounds DEF Scanned
<1>3. s <= e /\ e - s <= TextCap /\ (s < e \/ e = 0) /\ Ordered(W, s, e) /\ Sparse(W, s) BY DEF Scanned
<1>4. Ordered(W \cup F \cup P, t, l) /\ Sparse(W \cup F \cup P, t) BY <1>1, <1>2, <1>3, CutWindows
<1>5. /\ t \in Nat /\ e <= t /\ t <= l /\ l - t <= TextCap
      /\ l - e > TextCap => t < l
      /\ l - e <= TextCap => t = e
  BY <1>1, <1>2, PieceFacts
<1>6. \A k \in 1 .. Len(ends) : k < i =>
        \A from, to \in Nat : InLine(ends, k, from, to) => Holds(W, s, e, from, to)
  BY DEF Scanned
<1>7. ASSUME NEW from \in Nat, NEW to \in Nat, e <= from, to - from <= TextOverlap, from < t
      PROVE  \E w \in P : w[1] <= from /\ to <= w[2]
  BY <1>1, <1>2, <1>7, PieceHolds
<1>8. l - s > TextCap OBVIOUS
<1>9. r = [o EXCEPT !.line = @ + 1,
                                 !.start = o.end + Text!Cuts(ends[o.line] - o.end) * Text!Step,
                                 !.end = ends[o.line],
                                 !.windows = @ \cup Filling(o.start, o.end) \cup Text!Pieces(o.end, ends[o.line])]
  BY DEF Spaced
<1>10. o \in [line : Nat, start : Nat, end : Nat, windows : SUBSET (Nat \X Nat)] BY DEF Scanned
<1>11. \A w \in F : w = <<s, e>> BY DEF Filling
<1>12. s < e => <<s, e>> \in F BY <1>1, SMT DEF Filling
<1> HIDE DEF t, P, F, l
<1>13. /\ r.line = i + 1 /\ r.start = t /\ r.end = l /\ r.windows = W \cup F \cup P
       /\ r \in [line : Nat, start : Nat, end : Nat, windows : SUBSET (Nat \X Nat)]
  <2>1. W \cup F \cup P \subseteq Nat \X Nat BY <1>4 DEF Ordered
  <2>2. o.line + 1 \in Nat BY <1>1, SMT
  <2> QED BY <1>1, <1>2, <1>5, <1>10, <2>1, <2>2
<1> HIDE DEF i, s, e, W, r
<1>14. i + 1 \in 1 .. (Len(ends) + 1) BY <1>1, SMT
<1>15. TextCap \in Nat \ {0} BY StepPlain
<1>16. t < l
  <2>1. CASE l - e <= TextCap BY <2>1, <1>1, <1>2, <1>3, <1>5, <1>8, <1>15, SMT
  <2>2. CASE l - e > TextCap BY <2>2, <1>5
  <2> QED BY <2>1, <2>2, <1>1, <1>2, <1>15, SMT
<1>17. ASSUME NEW k \in 1 .. Len(ends), k < i + 1, NEW from \in Nat, NEW to \in Nat, InLine(ends, k, from, to)
       PROVE  Holds(W \cup F \cup P, t, l, from, to)
  <2>1. CASE k < i
    <3>1. Holds(W, s, e, from, to) BY <1>6, <1>17, <2>1
    <3>2. CASE \E w \in W : w[1] <= from /\ to <= w[2] BY <3>2 DEF Holds
    <3>3. CASE s <= from /\ to <= e
      <4>1. from < to BY <1>17 DEF InLine
      <4>2. s < e BY <3>3, <4>1, <1>1, SMT
      <4>3. <<s, e>> \in F /\ <<s, e>>[1] <= from /\ to <= <<s, e>>[2] BY <1>12, <4>2, <3>3
      <4> QED BY <4>3 DEF Holds
    <3> QED BY <3>1, <3>2, <3>3 DEF Holds
  <2>2. CASE k = i
    <3>1. e <= from /\ to <= l /\ (to - from <= TextOverlap \/ l - e <= TextCap)
      BY <1>2, <1>17, <2>2 DEF InLine, l, i
    <3>2. CASE t <= from BY <3>1, <3>2 DEF Holds
    <3>3. CASE from < t
      <4>1. l - e > TextCap
        <5> SUFFICES ASSUME l - e <= TextCap PROVE FALSE BY <1>1, <1>2, <1>15, SMT
        <5>1. t = e BY <1>5
        <5> QED BY <5>1, <3>1, <3>3, <1>1, SMT
      <4>2. to - from <= TextOverlap BY <3>1, <4>1, <1>1, <1>2, <1>15, SMT
      <4>3. \E w \in P : w[1] <= from /\ to <= w[2] BY <1>7, <3>1, <3>3, <4>2
      <4> QED BY <4>3 DEF Holds
    <3> QED BY <3>2, <3>3, <1>5, SMT
  <2> QED BY <2>1, <2>2, <1>1, <1>17, SMT
<1>18. Scanned(ends, r)
  BY <1>2, <1>4, <1>5, <1>13, <1>14, <1>16, <1>17 DEF Scanned
<1> QED BY <1>9, <1>18 DEF i, s, e, W, l, F, P, r

-----------------------------------------------------------------------------
(* The end of the scan: few windows share a place.                         *)

\* The instance counts as the library does.
LEMMA TextCardinality ==
  ASSUME NEW S
  PROVE  Text!Cardinality(S) = Cardinality(S)
  BY DEF Text!Cardinality, Cardinality

\* Of windows in order, at most two others than the leading one share a place.
LEMMA FewShare ==
  ASSUME NEW U, NEW e \in Nat, U \subseteq Nat \X Nat, Sparse(U, e), NEW p \in Nat, NEW lead
  PROVE  Text!Cardinality({w \in {lead} \cup U : w[1] <= p /\ p < w[2]}) <= 3
<1> DEFINE S == {w \in {lead} \cup U : w[1] <= p /\ p < w[2]}
           R == {w \in U : w[1] <= p /\ p < w[2]}
<1>1. S \subseteq {lead} \cup R OBVIOUS
<1>2. \A w, v, u \in R : w # v /\ v # u /\ w # u => FALSE
  <2> SUFFICES ASSUME NEW w \in R, NEW v \in R, NEW u \in R, w # v, v # u, w # u PROVE FALSE OBVIOUS
  <2>1. \A x \in R : x \in U /\ x[1] \in Nat /\ x[2] \in Nat /\ x[1] <= p /\ p < x[2] OBVIOUS
  <2>2. \A x, y \in R : x[1] = y[1] => x = y BY <2>1 DEF Sparse
  <2>3. \A x, y, z \in R : x[1] < y[1] /\ y[1] < z[1] => FALSE
    <3> SUFFICES ASSUME NEW x \in R, NEW y \in R, NEW z \in R, x[1] < y[1], y[1] < z[1] PROVE FALSE OBVIOUS
    <3>1. x[2] <= z[1] BY <2>1 DEF Sparse
    <3> QED BY <3>1, <2>1, SMT
  <2>4. w[1] # v[1] /\ v[1] # u[1] /\ w[1] # u[1] BY <2>2
  <2>5. w[1] \in Nat /\ v[1] \in Nat /\ u[1] \in Nat BY <2>1
  <2>6. /\ ~ (w[1] < v[1] /\ v[1] < u[1]) /\ ~ (w[1] < u[1] /\ u[1] < v[1])
        /\ ~ (v[1] < w[1] /\ w[1] < u[1]) /\ ~ (v[1] < u[1] /\ u[1] < w[1])
        /\ ~ (u[1] < v[1] /\ v[1] < w[1]) /\ ~ (u[1] < w[1] /\ w[1] < v[1])
    BY <2>3
  <2> HIDE DEF R
  <2> QED BY <2>4, <2>5, <2>6, SMT
<1>3. \E a, b : R \subseteq {a, b}
  <2>1. CASE R = {} BY <2>1
  <2>2. CASE \E a \in R : R = {a} BY <2>2
  <2>3. CASE R # {} /\ ~ \E a \in R : R = {a}
    <3>1. PICK a \in R : TRUE BY <2>3
    <3>2. PICK b \in R : b # a BY <3>1, <2>3
    <3>3. \A x \in R : x = a \/ x = b BY <1>2, <3>2
    <3> QED BY <3>3
  <2> QED BY <2>1, <2>2, <2>3
<1>4. PICK a, b : R \subseteq {a, b} BY <1>3
<1>5. S \subseteq {lead, a, b} BY <1>1, <1>4
<1>6. IsFiniteSet({lead, a, b}) /\ Cardinality({lead, a, b}) <= 3
  <2>1. IsFiniteSet({}) /\ Cardinality({}) = 0 BY FS_EmptySet
  <2>2. IsFiniteSet({} \cup {lead}) /\ Cardinality({} \cup {lead}) = 1 BY <2>1, FS_AddElement
  <2>3. IsFiniteSet(({} \cup {lead}) \cup {a}) /\ Cardinality(({} \cup {lead}) \cup {a}) \in {1, 2} BY <2>2, FS_AddElement
  <2>4. /\ IsFiniteSet((({} \cup {lead}) \cup {a}) \cup {b})
        /\ Cardinality((({} \cup {lead}) \cup {a}) \cup {b}) \in {1, 2, 3}
    BY <2>3, FS_AddElement
  <2>5. (({} \cup {lead}) \cup {a}) \cup {b} = {lead, a, b} OBVIOUS
  <2> QED BY <2>4, <2>5
<1>7. IsFiniteSet(S) /\ Cardinality(S) <= Cardinality({lead, a, b}) BY <1>5, <1>6, FS_Subset
<1>8. Cardinality(S) \in Nat /\ Cardinality({lead, a, b}) \in Nat BY <1>6, <1>7, FS_CardinalityType
<1>9. Cardinality(S) <= 3 BY <1>6, <1>7, <1>8, SMT
<1> QED BY <1>9, TextCardinality

\* What is searched of a text that has been scanned to its end.
Searched(o) == {<<0, TextCap>>} \cup {w \in o.windows \cup Filling(o.start, o.end) : w[1] > 0}

LEMMA SearchedAll ==
  ASSUME TextPlain, NEW ends, EndsPlain(ends), NEW o, Scanned(ends, o), o.line > Len(ends)
  PROVE  /\ \A w \in Searched(o) : w[2] - w[1] <= TextCap
         /\ \A from, to \in Nat : to <= TextCap => \E w \in Searched(o) : w[1] <= from /\ to <= w[2]
         /\ \A i \in 1 .. Len(ends) : \A from, to \in Nat :
              InLine(ends, i, from, to) => \E w \in Searched(o) : w[1] <= from /\ to <= w[2]
         /\ \A p \in Nat : Text!Cardinality({w \in Searched(o) : w[1] <= p /\ p < w[2]}) <= 3
<1> DEFINE s == o.start
           e == o.end
           W == o.windows
           U == W \cup Filling(s, e)
           V == {w \in U : w[1] > 0}
           lead == <<0, TextCap>>
<1>1. /\ Len(ends) \in Nat /\ s \in Nat /\ e \in Nat /\ W \subseteq Nat \X Nat /\ s <= e /\ e - s <= TextCap
      /\ Ordered(W, s, e) /\ Sparse(W, s)
  BY DEF Scanned, EndsPlain
<1>2. \A i \in 1 .. Len(ends) : i < o.line =>
        \A from, to \in Nat : InLine(ends, i, from, to) => Holds(W, s, e, from, to)
  BY DEF Scanned
<1>3. \A i \in 1 .. Len(ends) : i < o.line BY <1>1, SMT DEF Scanned
<1>4. Ordered(U, e, e) /\ Sparse(U, e) BY <1>1, FilledWindows
<1>5. TextCap \in Nat \ {0} BY StepPlain
<1>6. Searched(o) = {lead} \cup V BY DEF Searched
<1>7. s < e => <<s, e>> \in U BY <1>1, SMT DEF Filling
<1> HIDE DEF s, e, W, U
<1>8. \A w \in U : w \in Nat \X Nat /\ w[1] < w[2] /\ w[2] - w[1] <= TextCap BY <1>4 DEF Ordered
<1>9. \A w \in {lead} \cup V : w[2] - w[1] <= TextCap BY <1>5, <1>8, SMT
<1>10. \A from, to \in Nat : to <= TextCap => \E w \in {lead} \cup V : w[1] <= from /\ to <= w[2]
  <2> SUFFICES ASSUME NEW from \in Nat, NEW to \in Nat, to <= TextCap
               PROVE  lead[1] <= from /\ to <= lead[2]
    OBVIOUS
  <2> QED BY SMT
<1>11. ASSUME NEW i \in 1 .. Len(ends), NEW from \in Nat, NEW to \in Nat, InLine(ends, i, from, to)
       PROVE  \E w \in {lead} \cup V : w[1] <= from /\ to <= w[2]
  <2>1. Holds(W, s, e, from, to) BY <1>2, <1>3, <1>11
  <2>2. from < to BY <1>11 DEF InLine
  <2>3. \E w \in U : w[1] <= from /\ to <= w[2]
    <3>1. CASE \E w \in W : w[1] <= from /\ to <= w[2] BY <3>1 DEF U
    <3>2. CASE s <= from /\ to <= e
      <4>1. s < e BY <3>2, <2>2, <1>1, SMT
      <4> QED BY <4>1, <1>7, <3>2
    <3> QED BY <2>1, <3>1, <3>2 DEF Holds
  <2>4. PICK w \in U : w[1] <= from /\ to <= w[2] BY <2>3
  <2>5. CASE w[1] > 0 BY <2>4, <2>5
  <2>6. CASE ~ (w[1] > 0)
    <3>1. to <= TextCap BY <2>4, <2>6, <1>5, <1>8, SMT
    <3> QED BY <3>1, <1>10
  <2> QED BY <2>5, <2>6
<1>12. ASSUME NEW p \in Nat
       PROVE  Text!Cardinality({w \in {lead} \cup V : w[1] <= p /\ p < w[2]}) <= 3
  <2>1. V \subseteq Nat \X Nat BY <1>8
  <2>2. Sparse(V, e) BY <1>4 DEF Sparse
  <2> HIDE DEF V, lead
  <2> QED BY <2>1, <2>2, <1>1, FewShare
<1> QED BY <1>6, <1>9, <1>10, <1>11, <1>12

-----------------------------------------------------------------------------
(* Spellings: what is joined after the flag is the script.                 *)

\* The words of the first tokens, for any number of them.
Joining(f, tokens) ==
  f = [n \in 0 .. Len(tokens) |-> IF n = 0 THEN << >> ELSE f[n - 1] \o tokens[n].words]

LEMMA OneJoining ==
  ASSUME NEW tokens, Len(tokens) \in Nat, NEW f, NEW g, Joining(f, tokens), Joining(g, tokens)
  PROVE  f = g
<1> DEFINE T == {n \in 0 .. Len(tokens) : f[n] # g[n]}
<1>1. /\ f[0] = << >> /\ g[0] = << >>
      /\ \A n \in 1 .. Len(tokens) : f[n] = f[n - 1] \o tokens[n].words /\ g[n] = g[n - 1] \o tokens[n].words
  <2>1. 0 \in 0 .. Len(tokens) BY SMT
  <2>2. \A n \in 1 .. Len(tokens) : n \in 0 .. Len(tokens) /\ n # 0 BY SMT
  <2> QED BY <2>1, <2>2 DEF Joining
<1>2. T = {}
  <2> SUFFICES ASSUME T # {} PROVE FALSE OBVIOUS
  <2>1. T \subseteq Nat BY SMT
  <2>2. \E x \in T : \A y \in T : ~ (<<y, x>> \in OpToRel(<, Nat))
    <3> HIDE DEF T
    <3> QED BY <2>1, NatLessThanWellFounded, WFMin
  <2>3. PICK x \in T : \A y \in T : ~ (<<y, x>> \in OpToRel(<, Nat)) BY <2>2
  <2>4. x \in Nat /\ x \in 0 .. Len(tokens) /\ f[x] # g[x] BY <2>1, <2>3
  <2>5. x # 0 BY <1>1, <2>4
  <2>6. x - 1 \in Nat /\ x - 1 \in 0 .. Len(tokens) /\ x - 1 < x /\ x \in 1 .. Len(tokens) BY <2>4, <2>5, SMT
  <2>7. <<x - 1, x>> \in OpToRel(<, Nat) BY <2>4, <2>6 DEF OpToRel
  <2>8. f[x - 1] = g[x - 1] BY <2>3, <2>6, <2>7
  <2> QED BY <1>1, <2>4, <2>6, <2>8
<1>3. \A n \in 0 .. Len(tokens) : f[n] = g[n] BY <1>2
<1>4. f = [n \in 0 .. Len(tokens) |-> f[n]] /\ g = [n \in 0 .. Len(tokens) |-> g[n]] BY DEF Joining
<1> QED BY <1>3, <1>4

LEMMA JoinedIs ==
  ASSUME NEW tokens, Len(tokens) \in Nat, NEW g, Joining(g, tokens)
  PROVE  Text!Joined(tokens) = g[Len(tokens)]
<1> DEFINE h == CHOOSE f : Joining(f, tokens)
<1>1. Text!Joined(tokens) = h[Len(tokens)] BY DEF Text!Joined, Joining
<1>2. Joining(h, tokens) OBVIOUS
<1> HIDE DEF h
<1>3. h = g BY <1>2, OneJoining
<1> QED BY <1>1, <1>3

\* TextPlain says it of every script.
ScriptPlain(script) ==
  /\ ListOf(script) /\ Len(script) > 0
  /\ script[1] \in Text!Shells => Text!FlagAt(Text!Unquoted(script)) = 0

LEMMA ScriptShape ==
  ASSUME NEW script, ScriptPlain(script)
  PROVE  /\ Len(script) \in Nat \ {0} /\ DOMAIN script = 1 .. Len(script)
         /\ script = [i \in 1 .. Len(script) |-> script[i]]
         /\ Text!Unquoted(script) = [i \in 1 .. Len(script) |-> Text!Word(script[i])]
         /\ Text!Unquoted(script) \in Seq({Text!Word(script[i]) : i \in 1 .. Len(script)})
         /\ Len(Text!Unquoted(script)) = Len(script)
<1>1. script \in Seq({script[i] : i \in DOMAIN script}) BY DEF ScriptPlain, ListOf
<1>2. Len(script) \in Nat /\ DOMAIN script = 1 .. Len(script) /\ script = [i \in 1 .. Len(script) |-> script[i]]
  BY <1>1
<1>3. Text!Unquoted(script) = [i \in 1 .. Len(script) |-> Text!Word(script[i])] BY <1>2 DEF Text!Unquoted
<1>4. /\ Text!Unquoted(script) \in Seq({Text!Word(script[i]) : i \in 1 .. Len(script)})
      /\ Len(Text!Unquoted(script)) = Len(script)
  BY <1>2, <1>3
<1>5. Len(script) # 0 BY <1>2, SMT DEF ScriptPlain
<1> QED BY <1>2, <1>3, <1>4, <1>5

LEMMA UnquotedJoins ==
  ASSUME NEW script, ScriptPlain(script)
  PROVE  Text!Joined(Text!Unquoted(script)) = script
<1> DEFINE L == Len(script)
           ts == Text!Unquoted(script)
           E == {script[i] : i \in DOMAIN script}
           g == [n \in 0 .. L |-> SubSeq(script, 1, n)]
<1>1. script \in Seq(E) /\ L \in Nat BY ScriptShape DEF ScriptPlain, ListOf
<1>2. Len(ts) = L /\ \A n \in 1 .. L : ts[n].words = <<script[n]>>
  <2>1. Len(ts) = L /\ ts = [i \in 1 .. L |-> Text!Word(script[i])] BY ScriptShape
  <2> HIDE DEF ts, L
  <2>2. ASSUME NEW n \in 1 .. L PROVE ts[n].words = <<script[n]>>
    <3>1. ts[n] = Text!Word(script[n]) BY <2>1
    <3> QED BY <3>1 DEF Text!Word
  <2> QED BY <2>1, <2>2
<1> HIDE DEF ts
<1>3. SubSeq(script, 1, 0) = << >> BY <1>1
<1>4. ASSUME NEW n \in 1 .. L
      PROVE  SubSeq(script, 1, n) = SubSeq(script, 1, n - 1) \o <<script[n]>>
  <2>1. n \in Nat /\ n - 1 \in Nat /\ n \in DOMAIN script /\ n <= L BY <1>1, SMT
  <2> DEFINE a == SubSeq(script, 1, n)
             b == SubSeq(script, 1, n - 1)
             c == b \o <<script[n]>>
  <2>2. a \in Seq(E) /\ Len(a) = n /\ \A i \in 1 .. n : a[i] = script[i] BY <1>1, <2>1, SMT
  <2>3. b \in Seq(E) /\ Len(b) = n - 1 /\ \A i \in 1 .. (n - 1) : b[i] = script[i] BY <1>1, <2>1, SMT
  <2>4. <<script[n]>> \in Seq(E) /\ Len(<<script[n]>>) = 1 BY <2>1
  <2> HIDE DEF a, b
  <2>5. c \in Seq(E) /\ Len(c) = n BY <2>1, <2>3, <2>4, SMT
  <2>6. \A i \in 1 .. n : c[i] = script[i]
    <3> SUFFICES ASSUME NEW i \in 1 .. n PROVE c[i] = script[i] OBVIOUS
    <3>1. CASE i \in 1 .. (n - 1)
      <4>1. c[i] = b[i] BY <3>1, <2>1, <2>3, <2>4, SMT
      <4> QED BY <4>1, <3>1, <2>3
    <3>2. CASE i = n
      <4>1. c[n] = <<script[n]>>[1] BY <2>1, <2>3, <2>4, SMT
      <4>2. <<script[n]>>[1] = script[n] OBVIOUS
      <4> HIDE DEF c
      <4> QED BY <4>1, <4>2, <3>2
    <3>3. i \in 1 .. (n - 1) \/ i = n BY <2>1, SMT
    <3> QED BY <3>1, <3>2, <3>3
  <2> HIDE DEF c
  <2>7. a = c
    <3>1. a = [i \in 1 .. n |-> a[i]] /\ c = [i \in 1 .. n |-> c[i]] BY <2>2, <2>5
    <3> QED BY <3>1, <2>2, <2>6
  <2> QED BY <2>7 DEF a, b, c
<1>5. Joining(g, ts)
  <2>1. ASSUME NEW n \in 0 .. L, n # 0 PROVE SubSeq(script, 1, n) = g[n - 1] \o ts[n].words
    <3>1. n \in 1 .. L /\ n - 1 \in 0 .. L BY <2>1, <1>1, SMT
    <3> QED BY <3>1, <1>2, <1>4
  <2>2. g = [n \in 0 .. L |-> IF n = 0 THEN << >> ELSE g[n - 1] \o ts[n].words] BY <1>3, <2>1
  <2> HIDE DEF g
  <2> QED BY <2>2, <1>2 DEF Joining
<1>6. Text!Joined(ts) = g[L] BY <1>1, <1>2, <1>5, JoinedIs
<1>7. g[L] = script
  <2>1. L \in 0 .. L BY <1>1, SMT
  <2>2. SubSeq(script, 1, L) = script BY <1>1
  <2> QED BY <2>1, <2>2
<1> QED BY <1>6, <1>7 DEF ts

LEMMA QuotedJoins ==
  ASSUME NEW script, ScriptPlain(script)
  PROVE  Text!Joined(<<Text!Quoted(script)>>) = script
<1> DEFINE ts == <<Text!Quoted(script)>>
           g == [n \in 0 .. 1 |-> IF n = 0 THEN << >> ELSE script]
           E == {script[i] : i \in DOMAIN script}
<1>1. Len(ts) = 1 /\ ts[1].words = script BY DEF Text!Quoted
<1>2. << >> \o script = script
  <2>1. script \in Seq(E) BY DEF ScriptPlain, ListOf
  <2> QED BY <2>1
<1>3. g[0] = << >> /\ g[1] = script BY SMT
<1>4. \A n \in 0 .. 1 : n = 0 \/ n = 1 BY SMT
<1>5. g = [n \in 0 .. 1 |-> IF n = 0 THEN << >> ELSE g[n - 1] \o ts[n].words]
  <2>1. \A n \in 0 .. 1 : n # 0 => g[n - 1] \o ts[n].words = script
    <3> SUFFICES ASSUME NEW n \in 0 .. 1, n # 0 PROVE g[n - 1] \o ts[n].words = script OBVIOUS
    <3>1. n = 1 /\ n - 1 = 0 BY <1>4, SMT
    <3> QED BY <3>1, <1>1, <1>2, <1>3
  <2> HIDE DEF ts
  <2> QED BY <2>1
<1> HIDE DEF g, ts
<1>6. Joining(g, ts) BY <1>1, <1>5 DEF Joining
<1>7. Text!Joined(ts) = g[1]
  <2>1. Len(ts) \in Nat BY <1>1
  <2>2. Text!Joined(ts) = g[Len(ts)] BY <2>1, <1>6, JoinedIs
  <2> QED BY <1>1, <2>2
<1> QED BY <1>3, <1>7 DEF ts

\* After a shell, the first command flag is where it was put.
LEMMA FlagFound ==
  ASSUME NEW ts, Len(ts) \in Nat, NEW m \in 2 .. (Len(ts) - 1),
         Text!IsCommandFlag(ts[m]),
         \A j \in 2 .. (m - 1) : Text!IsFlag(ts[j]) /\ ~ Text!IsCommandFlag(ts[j])
  PROVE  Text!FlagAt(ts) = m
<1> DEFINE hits == {i \in 2..(Len(ts) - 1) : Text!IsCommandFlag(ts[i]) /\ \A j \in 2..(i - 1) : Text!IsFlag(ts[j])}
<1>1. m \in hits OBVIOUS
<1>2. \A j \in hits : m <= j
  <2> SUFFICES ASSUME NEW j \in hits, ~ (m <= j) PROVE FALSE OBVIOUS
  <2>1. j \in 2 .. (m - 1) BY SMT
  <2> QED BY <2>1
<1>3. hits # {} /\ Text!FlagAt(ts) = CHOOSE i \in hits : \A j \in hits : i <= j BY <1>1 DEF Text!FlagAt
<1>4. hits \subseteq Nat BY SMT
<1>5. m \in Nat BY <1>1, <1>4
<1> HIDE DEF hits
<1> DEFINE x == CHOOSE i \in hits : \A j \in hits : i <= j
<1>6. x \in hits /\ \A j \in hits : x <= j BY <1>1, <1>2
<1> HIDE DEF x
<1>7. x <= m /\ m <= x /\ x \in Nat BY <1>1, <1>2, <1>4, <1>6
<1>8. x = m BY <1>5, <1>7, SMT
<1> QED BY <1>3, <1>8 DEF x

\* What a text is split into, and where its body begins.
LEMMA BodyOf ==
  ASSUME NEW S, NEW a \in Seq(S), NEW b \in Seq(S)
  PROVE  SubSeq(a \o b, Len(a) + 1, Len(a \o b)) = b
<1> DEFINE c == a \o b
           d == SubSeq(c, Len(a) + 1, Len(c))
<1>1. /\ c \in Seq(S) /\ Len(c) = Len(a) + Len(b) /\ Len(a) \in Nat /\ Len(b) \in Nat
      /\ \A i \in 1 .. Len(b) : c[Len(a) + i] = b[i]
  BY SMT
<1> HIDE DEF c
<1>2. d \in Seq(S) /\ Len(d) = Len(b) /\ \A i \in 1 .. Len(b) : d[i] = c[Len(a) + i]
  <2>1. d \in Seq(S) /\ Len(d) = Len(b) BY <1>1, SMT
  <2>2. \A i \in 1 .. Len(b) : d[i] = c[(Len(a) + 1) + i - 1] BY <1>1, SMT
  <2>3. \A i \in 1 .. Len(b) : (Len(a) + 1) + i - 1 = Len(a) + i BY <1>1, SMT
  <2> QED BY <2>1, <2>2, <2>3
<1> HIDE DEF d
<1>3. \A i \in 1 .. Len(b) : d[i] = b[i] BY <1>1, <1>2
<1>4. d = [i \in 1 .. Len(b) |-> d[i]] /\ b = [i \in 1 .. Len(b) |-> b[i]] BY <1>2
<1>5. d = b BY <1>3, <1>4
<1> QED BY <1>5 DEF d, c

LEMMA WrappedBody ==
  ASSUME NEW S, NEW sh \in Text!Shells, NEW flags \in Seq(S), NEW body \in Seq(S), Text!Word(sh) \in S,
         flags \in {<<Text!Word("-c")>>, <<Text!Word("-lc")>>, <<Text!Word("-l"), Text!Word("-c")>>},
         Len(body) > 0
  PROVE  Text!Unwrapped(<<Text!Word(sh)>> \o flags \o body) = Text!Joined(body)
<1> DEFINE head == <<Text!Word(sh)>> \o flags
           ts == head \o body
           m == 1 + Len(flags)
<1>1. /\ <<Text!Word(sh)>> \in Seq(S) /\ head \in Seq(S) /\ Len(head) = m /\ Len(flags) \in {1, 2} /\ Len(body) \in Nat
      /\ head[1] = Text!Word(sh) /\ \A i \in 1 .. Len(flags) : head[1 + i] = flags[i]
  BY SMT
<1>2. /\ ts \in Seq(S) /\ Len(ts) = m + Len(body) /\ m \in {2, 3}
      /\ \A i \in 1 .. m : ts[i] = head[i]
  <2> HIDE DEF head
  <2> QED BY <1>1, SMT
<1>3. ts[1] = Text!Word(sh) /\ \A i \in 1 .. Len(flags) : ts[1 + i] = flags[i]
  <2> HIDE DEF head, ts
  <2>1. 1 \in 1 .. m /\ \A i \in 1 .. Len(flags) : 1 + i \in 1 .. m BY <1>1, <1>2, SMT
  <2> QED BY <2>1, <1>1, <1>2
<1>4. SubSeq(ts, m + 1, Len(ts)) = body
  <2> HIDE DEF head
  <2> QED BY <1>1, BodyOf
<1> HIDE DEF head, ts
<1>5. Text!IsShell(ts[1]) BY <1>3 DEF Text!IsShell, Text!Plain, Text!Word
<1>6. /\ Text!IsCommandFlag(Text!Word("-c")) /\ Text!IsCommandFlag(Text!Word("-lc"))
      /\ Text!IsFlag(Text!Word("-l")) /\ ~ Text!IsCommandFlag(Text!Word("-l"))
  <2>1. Text!Plain(Text!Word("-c")) = "-c" /\ Text!Plain(Text!Word("-lc")) = "-lc" /\ Text!Plain(Text!Word("-l")) = "-l"
    BY DEF Text!Plain, Text!Word
  <2> QED BY <2>1 DEF Text!IsCommandFlag, Text!IsFlag, Text!CommandFlags
<1>7. Text!IsCommandFlag(ts[m]) /\ \A j \in 2 .. (m - 1) : Text!IsFlag(ts[j]) /\ ~ Text!IsCommandFlag(ts[j])
  <2>1. CASE flags = <<Text!Word("-c")>>
    <3>1. m = 2 /\ ts[2] = Text!Word("-c") BY <2>1, <1>3, SMT
    <3>2. \A j \in 2 .. (m - 1) : FALSE BY <3>1, SMT
    <3> QED BY <3>1, <3>2, <1>6
  <2>2. CASE flags = <<Text!Word("-lc")>>
    <3>1. m = 2 /\ ts[2] = Text!Word("-lc") BY <2>2, <1>3, SMT
    <3>2. \A j \in 2 .. (m - 1) : FALSE BY <3>1, SMT
    <3> QED BY <3>1, <3>2, <1>6
  <2>3. CASE flags = <<Text!Word("-l"), Text!Word("-c")>>
    <3>1. m = 3 /\ ts[2] = Text!Word("-l") /\ ts[3] = Text!Word("-c") BY <2>3, <1>3, SMT
    <3>2. \A j \in 2 .. (m - 1) : j = 2 BY <3>1, SMT
    <3> QED BY <3>1, <3>2, <1>6
  <2> QED BY <2>1, <2>2, <2>3
<1>8. Len(ts) \in Nat /\ m \in 2 .. (Len(ts) - 1) BY <1>1, <1>2, SMT
<1>9. Text!FlagAt(ts) = m BY <1>7, <1>8, FlagFound
<1>10. Text!Unwrapped(ts) = Text!Joined(SubSeq(ts, m + 1, Len(ts))) BY <1>5, <1>9 DEF Text!Unwrapped
<1> QED BY <1>4, <1>10 DEF ts, head

\* However a script is spelt, what is searched for it is its words.
LEMMA SpelledAlike ==
  ASSUME NEW script, ScriptPlain(script), NEW tokens \in Text!Spellings(script)
  PROVE  Text!Unwrapped(tokens) = script
<1> DEFINE Flags == {<<Text!Word("-c")>>, <<Text!Word("-lc")>>, <<Text!Word("-l"), Text!Word("-c")>>}
           Bodies == {<<Text!Quoted(script)>>, Text!Unquoted(script)}
           W(sh, flags, body) == <<Text!Word(sh)>> \o flags \o body
           C == {W(sh, flags, body) : sh \in Text!Shells, flags \in Flags, body \in Bodies}
<1>1. CASE tokens = Text!Unquoted(script)
  <2> DEFINE S == {Text!Word(script[i]) : i \in 1 .. Len(script)}
  <2>1. tokens \in Seq(S) /\ Len(tokens) = Len(script) /\ Len(script) \in Nat \ {0} BY <1>1, ScriptShape
  <2>2. tokens[1] = Text!Word(script[1])
    <3>1. 1 \in 1 .. Len(script) BY <2>1, SMT
    <3> QED BY <3>1, <1>1, ScriptShape
  <2>3. (IF Text!IsShell(tokens[1]) THEN Text!FlagAt(tokens) ELSE 0) = 0
    <3>1. Text!IsShell(tokens[1]) => script[1] \in Text!Shells BY <2>2 DEF Text!IsShell, Text!Plain, Text!Word
    <3> QED BY <3>1, <1>1 DEF ScriptPlain
  <2>4. SubSeq(tokens, 0 + 1, Len(tokens)) = tokens
    <3> HIDE DEF S
    <3> QED BY <2>1
  <2>5. Text!Unwrapped(tokens) = Text!Joined(tokens) BY <2>3, <2>4 DEF Text!Unwrapped
  <2> QED BY <2>5, <1>1, UnquotedJoins
<1>2. ASSUME NEW sh \in Text!Shells, NEW flags \in Flags, NEW body \in Bodies, tokens = W(sh, flags, body)
      PROVE  Text!Unwrapped(tokens) = script
  <2>1. tokens = <<Text!Word(sh)>> \o flags \o body BY <1>2
  <2> DEFINE Q == {Text!Word(script[i]) : i \in 1 .. Len(script)}
             S == Q \cup {Text!Word(sh), Text!Word("-c"), Text!Word("-lc"), Text!Word("-l"), Text!Quoted(script)}
  <2>2. Text!Word(sh) \in S /\ Text!Word("-c") \in S /\ Text!Word("-lc") \in S /\ Text!Word("-l") \in S /\ Text!Quoted(script) \in S
    OBVIOUS
  <2>3. Text!Unquoted(script) \in Seq(Q) /\ Len(Text!Unquoted(script)) \in Nat \ {0} BY ScriptShape
  <2>4. Q \subseteq S OBVIOUS
  <2> HIDE DEF Q, S
  <2>5. Text!Unquoted(script) \in Seq(S) BY <2>3, <2>4
  <2>6. flags \in Seq(S)
    <3>1. <<Text!Word("-c")>> \in Seq(S) /\ <<Text!Word("-lc")>> \in Seq(S) /\ <<Text!Word("-l"), Text!Word("-c")>> \in Seq(S)
      BY <2>2
    <3> QED BY <3>1
  <2>7. body \in Seq(S) /\ Len(body) > 0
    <3>1. <<Text!Quoted(script)>> \in Seq(S) /\ Len(<<Text!Quoted(script)>>) = 1 BY <2>2
    <3>2. Len(Text!Unquoted(script)) > 0 BY <2>3, SMT
    <3>3. CASE body = <<Text!Quoted(script)>> BY <3>1, <3>3, SMT
    <3>4. CASE body = Text!Unquoted(script) BY <3>2, <3>4, <2>5
    <3> QED BY <3>3, <3>4
  <2>8. Text!Unwrapped(tokens) = Text!Joined(body) BY <2>1, <2>2, <2>6, <2>7, WrappedBody
  <2>9. Text!Joined(body) = script BY UnquotedJoins, QuotedJoins
  <2> QED BY <2>8, <2>9
<1>3. Text!Spellings(script) = {Text!Unquoted(script)} \cup C BY DEF Text!Spellings
<1> HIDE DEF W, Flags, Bodies
<1>4. tokens \in C => \E sh \in Text!Shells, flags \in Flags, body \in Bodies : tokens = W(sh, flags, body)
  OBVIOUS
<1> HIDE DEF C
<1> QED BY <1>1, <1>2, <1>3, <1>4

-----------------------------------------------------------------------------
(* Live verdicts: counts and engagement only grow.                         *)

\* TextPlain says it of every criterion.
CriterionReads(c) ==
  \/ c.type \in {"skill", "efficiency"}
  \/ c.type = "commands" /\ c.min \in Nat /\ c.max \in Nat \cup {-1}

LEMMA MatchesGrow ==
  ASSUME NEW c, NEW cmds \in Seq(TextCommands), NEW cmd \in TextCommands
  PROVE  /\ Text!MatchCount(c, cmds) \in Nat
         /\ Text!MatchCount(c, Append(cmds, cmd)) \in Nat
         /\ Text!MatchCount(c, cmds) <= Text!MatchCount(c, Append(cmds, cmd))
         /\ Text!Engaged(c, cmds) => Text!Engaged(c, Append(cmds, cmd))
<1> DEFINE more == Append(cmds, cmd)
           H(s) == {i \in DOMAIN s : /\ s[i].tool = c.tool
                                     /\ c.requireSuccess => s[i].ok
                                     /\ s[i].hit}
<1>1. /\ Len(cmds) \in Nat /\ more \in Seq(TextCommands) /\ Len(more) = Len(cmds) + 1
      /\ DOMAIN cmds = 1 .. Len(cmds) /\ DOMAIN more = 1 .. Len(more)
      /\ \A i \in 1 .. Len(cmds) : more[i] = cmds[i]
  BY SMT
<1> HIDE DEF more
<1>2. DOMAIN cmds \subseteq DOMAIN more BY <1>1, SMT
<1>3. \A i \in DOMAIN cmds : more[i] = cmds[i] BY <1>1
<1>4. H(cmds) \subseteq H(more)
  <2> SUFFICES ASSUME NEW i \in H(cmds) PROVE i \in H(more) OBVIOUS
  <2> QED BY <1>2, <1>3
<1>5. IsFiniteSet(H(more)) /\ IsFiniteSet(H(cmds)) /\ Cardinality(H(cmds)) <= Cardinality(H(more))
  <2>1. IsFiniteSet(1 .. Len(more)) BY <1>1, FS_Interval
  <2>2. H(more) \subseteq 1 .. Len(more) BY <1>1
  <2> HIDE DEF H
  <2>3. IsFiniteSet(H(more)) BY <2>1, <2>2, FS_Subset
  <2> QED BY <1>4, <2>3, FS_Subset
<1>6. Cardinality(H(more)) \in Nat /\ Cardinality(H(cmds)) \in Nat
  <2> HIDE DEF H
  <2> QED BY <1>5, FS_CardinalityType
<1>7. Text!MatchCount(c, cmds) = Cardinality(H(cmds)) /\ Text!MatchCount(c, more) = Cardinality(H(more))
  <2>1. Text!MatchCount(c, cmds) = Text!Cardinality(H(cmds)) /\ Text!MatchCount(c, more) = Text!Cardinality(H(more))
    BY DEF Text!MatchCount
  <2> HIDE DEF H
  <2> QED BY <2>1, TextCardinality
<1>8. Text!Engaged(c, cmds) => Text!Engaged(c, more) BY <1>2, <1>3 DEF Text!Engaged
<1> HIDE DEF H
<1> QED BY <1>5, <1>6, <1>7, <1>8 DEF more

\* What no later command can change.
LEMMA VerdictStays ==
  ASSUME NEW c, CriterionReads(c), NEW cmds \in Seq(TextCommands), NEW cmd \in TextCommands,
         Text!LiveVerdict(c, cmds) # "undecided"
  PROVE  Text!LiveVerdict(c, Append(cmds, cmd)) = Text!LiveVerdict(c, cmds)
<1> DEFINE more == Append(cmds, cmd)
<1>1. CASE c.type = "skill"
  <2>1. Text!LiveVerdict(c, cmds) = Text!SkillVerdict(c, cmds) /\ Text!LiveVerdict(c, more) = Text!SkillVerdict(c, more)
    BY <1>1 DEF Text!LiveVerdict
  <2>2. Text!Engaged(c, cmds) BY <2>1 DEF Text!SkillVerdict
  <2>3. Text!Engaged(c, more) BY <2>2, MatchesGrow
  <2> QED BY <2>1, <2>2, <2>3 DEF Text!SkillVerdict
<1>2. CASE c.type = "commands"
  <2> DEFINE n == Text!MatchCount(c, cmds)
             m == Text!MatchCount(c, more)
  <2>1. Text!LiveVerdict(c, cmds) = Text!CommandsVerdict(c, cmds) /\ Text!LiveVerdict(c, more) = Text!CommandsVerdict(c, more)
    BY <1>2 DEF Text!LiveVerdict
  <2>2. n \in Nat /\ m \in Nat /\ n <= m BY MatchesGrow
  <2>3. c.min \in Nat /\ c.max \in Nat \cup {-1} BY <1>2 DEF CriterionReads
  <2>4. /\ Text!CommandsVerdict(c, cmds) = IF c.max # -1 THEN IF n > c.max THEN "fail" ELSE "undecided"
                                           ELSE IF c.min > 0 /\ n >= c.min THEN "pass" ELSE "undecided"
        /\ Text!CommandsVerdict(c, more) = IF c.max # -1 THEN IF m > c.max THEN "fail" ELSE "undecided"
                                           ELSE IF c.min > 0 /\ m >= c.min THEN "pass" ELSE "undecided"
    BY DEF Text!CommandsVerdict, Text!None
  <2> HIDE DEF n, m
  <2>5. n > c.max => m > c.max BY <2>2, <2>3, SMT
  <2>6. n >= c.min => m >= c.min BY <2>2, <2>3, SMT
  <2> HIDE DEF more
  <2>7. Text!CommandsVerdict(c, cmds) # "undecided" BY <2>1
  <2>8. Text!CommandsVerdict(c, more) = Text!CommandsVerdict(c, cmds) BY <2>4, <2>5, <2>6, <2>7
  <2> QED BY <2>1, <2>8 DEF more
<1>3. CASE c.type = "efficiency" BY <1>3 DEF Text!LiveVerdict
<1> QED BY <1>1, <1>2, <1>3 DEF CriterionReads

LEMMA VerdictScored ==
  ASSUME NEW c, CriterionReads(c), NEW cmds \in Seq(TextCommands)
  PROVE  /\ Text!LiveVerdict(c, cmds) = "pass" => Text!Score(c, cmds) = Text!Full
         /\ Text!LiveVerdict(c, cmds) = "fail" => Text!Score(c, cmds) = 0
<1>1. CASE c.type = "skill"
  <2>1. Text!LiveVerdict(c, cmds) = Text!SkillVerdict(c, cmds) /\ Text!Score(c, cmds) = Text!SkillScore(c, cmds)
    BY <1>1 DEF Text!LiveVerdict, Text!Score
  <2>2. Text!Engaged(c, cmds) \in BOOLEAN BY DEF Text!Engaged
  <2>3. Text!SkillVerdict(c, cmds) = "pass" => Text!Engaged(c, cmds) /\ c.expected = c.skill BY DEF Text!SkillVerdict
  <2>4. Text!SkillVerdict(c, cmds) = "fail" => Text!Engaged(c, cmds) /\ c.expected # c.skill BY DEF Text!SkillVerdict
  <2>5. Text!Engaged(c, cmds) /\ c.expected = c.skill => Text!SkillScore(c, cmds) = Text!Full BY <2>2 DEF Text!SkillScore
  <2>6. Text!Engaged(c, cmds) /\ c.expected # c.skill => Text!SkillScore(c, cmds) = 0 BY <2>2 DEF Text!SkillScore
  <2> QED BY <2>1, <2>3, <2>4, <2>5, <2>6
<1>2. CASE c.type = "commands"
  <2> DEFINE n == Text!MatchCount(c, cmds)
  <2>1. Text!LiveVerdict(c, cmds) = Text!CommandsVerdict(c, cmds) /\ Text!Score(c, cmds) = Text!CommandsScore(c, cmds)
    BY <1>2 DEF Text!LiveVerdict, Text!Score
  <2>2. c.min \in Nat /\ c.max \in Nat \cup {-1} BY <1>2 DEF CriterionReads
  <2>3. n \in Nat
    <3>1. CASE TextCommands = {}
      <4>1. DOMAIN cmds = {}
        <5>1. DOMAIN cmds = 1 .. Len(cmds) /\ \A i \in 1 .. Len(cmds) : cmds[i] \in TextCommands OBVIOUS
        <5> QED BY <5>1, <3>1
      <4>2. n = Text!Cardinality({}) BY <4>1 DEF Text!MatchCount
      <4> QED BY <4>2, TextCardinality, FS_EmptySet
    <3>2. CASE TextCommands # {} BY <3>2, MatchesGrow
    <3> QED BY <3>1, <3>2
  <2>4. /\ Text!CommandsVerdict(c, cmds) = IF c.max # -1 THEN IF n > c.max THEN "fail" ELSE "undecided"
                                           ELSE IF c.min > 0 /\ n >= c.min THEN "pass" ELSE "undecided"
        /\ Text!CommandsScore(c, cmds) = IF c.max # -1 THEN IF c.min <= n /\ n <= c.max THEN Text!Full ELSE 0
                                         ELSE IF c.min <= n THEN Text!Full ELSE (Text!Full * n) \div c.min
    BY DEF Text!CommandsVerdict, Text!CommandsScore, Text!None
  <2> HIDE DEF n
  <2>5. Text!CommandsVerdict(c, cmds) = "pass" => c.max = -1 /\ n >= c.min BY <2>4
  <2>6. Text!CommandsVerdict(c, cmds) = "fail" => c.max # -1 /\ n > c.max BY <2>4
  <2>7. (n >= c.min => c.min <= n) /\ (n > c.max => ~ (n <= c.max)) BY <2>2, <2>3, SMT
  <2>8. Text!CommandsVerdict(c, cmds) = "pass" => Text!CommandsScore(c, cmds) = Text!Full BY <2>4, <2>5, <2>7
  <2>9. Text!CommandsVerdict(c, cmds) = "fail" => Text!CommandsScore(c, cmds) = 0 BY <2>4, <2>6, <2>7
  <2> QED BY <2>1, <2>8, <2>9
<1>3. CASE c.type = "efficiency" BY <1>3 DEF Text!LiveVerdict
<1> QED BY <1>1, <1>2, <1>3 DEF CriterionReads

-----------------------------------------------------------------------------
(* The inductive invariant of the criteria that read commands.             *)

\* WindowsCover, of any text and windows.
Covers(ends, W) ==
  /\ \A w \in W : w[2] - w[1] <= TextCap
  /\ \A from \in 0 .. (ends[Len(ends)] - 1), to \in 1 .. ends[Len(ends)] :
       /\ from < to
       /\ \/ to <= TextCap
          \/ \E i \in DOMAIN ends :
               /\ Begins(ends, i) <= from /\ to <= ends[i]
               /\ to - from <= TextOverlap \/ ends[i] - Begins(ends, i) <= TextCap
       => \E w \in W : w[1] <= from /\ to <= w[2]
  /\ \A p \in 0 .. (ends[Len(ends)] - 1) : Text!Cardinality({w \in W : w[1] <= p /\ p < w[2]}) <= 3

LEMMA LastEnd ==
  ASSUME NEW ends, EndsPlain(ends)
  PROVE  ends[Len(ends)] \in Nat /\ Len(ends) \in 1 .. Len(ends) /\ DOMAIN ends = 1 .. Len(ends)
<1>1. Len(ends) \in Nat /\ Len(ends) > 0 /\ DOMAIN ends = 1 .. Len(ends) BY DEF EndsPlain
<1>2. Len(ends) \in 1 .. Len(ends) BY <1>1, SMT
<1> QED BY <1>1, <1>2, LineBounds

LEMMA LongCovered ==
  ASSUME TextPlain, NEW ends, EndsPlain(ends), NEW o, Scanned(ends, o), o.line > Len(ends)
  PROVE  Covers(ends, Searched(o))
<1> DEFINE V == Searched(o)
           T == ends[Len(ends)]
<1>1. T \in Nat /\ DOMAIN ends = 1 .. Len(ends) BY LastEnd
<1>2. /\ \A w \in V : w[2] - w[1] <= TextCap
      /\ \A from, to \in Nat : to <= TextCap => \E w \in V : w[1] <= from /\ to <= w[2]
      /\ \A i \in 1 .. Len(ends) : \A from, to \in Nat :
           InLine(ends, i, from, to) => \E w \in V : w[1] <= from /\ to <= w[2]
      /\ \A p \in Nat : Text!Cardinality({w \in V : w[1] <= p /\ p < w[2]}) <= 3
  BY SearchedAll
<1> HIDE DEF V, T
<1>3. 0 .. (T - 1) \subseteq Nat /\ 1 .. T \subseteq Nat BY <1>1, SMT
<1>4. ASSUME NEW from \in 0 .. (T - 1), NEW to \in 1 .. T, from < to,
             \/ to <= TextCap
             \/ \E i \in DOMAIN ends :
                  /\ Begins(ends, i) <= from /\ to <= ends[i]
                  /\ to - from <= TextOverlap \/ ends[i] - Begins(ends, i) <= TextCap
      PROVE  \E w \in V : w[1] <= from /\ to <= w[2]
  <2>1. CASE to <= TextCap BY <2>1, <1>2, <1>3
  <2>2. ASSUME NEW i \in DOMAIN ends, Begins(ends, i) <= from, to <= ends[i],
               to - from <= TextOverlap \/ ends[i] - Begins(ends, i) <= TextCap
        PROVE  \E w \in V : w[1] <= from /\ to <= w[2]
    <3>1. InLine(ends, i, from, to) BY <1>4, <2>2 DEF InLine
    <3> QED BY <3>1, <1>1, <1>2, <1>3
  <2> QED BY <1>4, <2>1, <2>2
<1>5. \A p \in 0 .. (T - 1) : Text!Cardinality({w \in V : w[1] <= p /\ p < w[2]}) <= 3 BY <1>2, <1>3
<1> QED BY <1>2, <1>4, <1>5 DEF Covers, V, T

LEMMA ShortCovered ==
  ASSUME TextPlain, NEW ends, EndsPlain(ends), ends[Len(ends)] <= TextCap
  PROVE  Covers(ends, {<<0, ends[Len(ends)]>>})
<1> DEFINE T == ends[Len(ends)]
           only == <<0, T>>
<1>1. T \in Nat BY LastEnd
<1>2. T <= TextCap OBVIOUS
<1> HIDE DEF T
<1>3. only[2] - only[1] <= TextCap BY <1>1, <1>2, SMT
<1>4. \A from \in 0 .. (T - 1), to \in 1 .. T : only[1] <= from /\ to <= only[2] BY <1>1, SMT
<1>5. ASSUME NEW p \in 0 .. (T - 1)
      PROVE  Text!Cardinality({w \in {only} : w[1] <= p /\ p < w[2]}) <= 3
  <2>1. {w \in {only} : w[1] <= p /\ p < w[2]} = {w \in {only} \cup {} : w[1] <= p /\ p < w[2]} OBVIOUS
  <2>2. p \in Nat BY <1>1, SMT
  <2>3. Sparse({}, 0) BY DEF Sparse
  <2> HIDE DEF only
  <2> QED BY <2>1, <2>2, <2>3, FewShare
<1> HIDE DEF only
<1> QED BY <1>3, <1>4, <1>5 DEF Covers, T, only

\* A text is scanned, or its windows cover it.
TextWindow(c, a, o) ==
  /\ c.ends \in TextEnds
  /\ a \in {"scanning", "done"}
  /\ a = "scanning" => Scanned(c.ends, o)
  /\ a = "done" => Covers(c.ends, o.windows)

\* A spelling is unwrapped to its script.
TextSpelling(c, a, o) ==
  /\ c.script \in TextScripts /\ c.tokens \in Text!Spellings(c.script)
  /\ a = "split" => o.haystack \in {c.script, << >>} /\ (c.parses => o.haystack # << >>)

\* A live verdict is what all commands so far decide.
TextLive(c, a, o) ==
  /\ c.c \in TextCriteria
  /\ o = [commands |-> o.commands, live |-> o.live, score |-> o.score]
  /\ o.commands \in Seq(TextCommands)
  /\ o.live # "undecided" => o.live = Text!LiveVerdict(c.c, o.commands)
  /\ a = "ended" => o.score = Text!Score(c.c, o.commands)

TextInv ==
  /\ case.of = "window" => TextWindow(case, at, out)
  /\ case.of = "spelling" => TextSpelling(case, at, out)
  /\ case.of = "live" => TextLive(case, at, out)

LEMMA TextStarts ==
  ASSUME TextPlain, Text!Init
  PROVE  TextInv
<1>1. CASE /\ case \in [of : {"window"}, ends : TextEnds]
           /\ at = "scanning"
           /\ out = [line |-> 1, start |-> 0, end |-> 0, windows |-> {}]
  <2>1. case.of = "window" /\ case.ends \in TextEnds BY <1>1
  <2>2. EndsPlain(case.ends) BY <2>1 DEF TextPlain, EndsPlain
  <2>3. TextCap \in Nat BY StepPlain
  <2>4. /\ out \in [line : Nat, start : Nat, end : Nat, windows : SUBSET (Nat \X Nat)]
        /\ out.line = 1 /\ out.start = 0 /\ out.end = 0 /\ out.windows = {}
    BY <1>1
  <2>5. out.line \in 1 .. (Len(case.ends) + 1)
    <3>1. Len(case.ends) \in Nat BY <2>2 DEF EndsPlain
    <3> QED BY <3>1, <2>4, SMT
  <2>6. \A i \in 1 .. Len(case.ends) : ~ (i < out.line)
    <3>1. Len(case.ends) \in Nat BY <2>2 DEF EndsPlain
    <3> QED BY <3>1, <2>4, SMT
  <2>7. 0 <= 0 /\ 0 - 0 <= TextCap BY <2>3, SMT
  <2>8. Ordered({}, 0, 0) /\ Sparse({}, 0) BY DEF Ordered, Sparse
  <2>9. Scanned(case.ends, out) BY <2>4, <2>5, <2>6, <2>7, <2>8 DEF Scanned, Begins
  <2> QED BY <1>1, <2>1, <2>9 DEF TextInv, TextWindow
<1>2. CASE /\ \E script \in TextScripts :
                case \in [of : {"spelling"}, script : {script}, tokens : Text!Spellings(script), parses : BOOLEAN]
           /\ at = "spelt"
  BY <1>2 DEF TextInv, TextSpelling
<1>3. CASE /\ case \in [of : {"live"}, c : TextCriteria]
           /\ at = "running"
           /\ out = [commands |-> << >>, live |-> "undecided", score |-> Text!None]
  BY <1>3 DEF TextInv, TextLive
<1> QED BY <1>1, <1>2, <1>3 DEF Text!Init

LEMMA LineKeeps ==
  ASSUME TextPlain, TextInv, case.of = "window", Text!ScanLine
  PROVE  TextInv'
<1> DEFINE ends == case.ends
           l == ends[out.line]
<1>1. at = "scanning" /\ out.line <= Len(ends) /\ case' = case /\ at' = at BY DEF Text!ScanLine
<1>2. TextWindow(case, at, out) BY DEF TextInv
<1>3. ends \in TextEnds /\ Scanned(ends, out) BY <1>1, <1>2 DEF TextWindow
<1>4. EndsPlain(ends) BY <1>3 DEF TextPlain, EndsPlain
<1>5. Scanned(ends, out')
  <2>1. CASE l - out.start > TextCap
    <3>1. (IF out.end > out.start THEN out.end ELSE out.start) = out.end
      <4>1. out.start \in Nat /\ out.end \in Nat /\ out.start <= out.end /\ (out.start < out.end \/ out.end = 0)
        BY <1>3 DEF Scanned
      <4> QED BY <4>1, SMT
    <3>2. Text!Filled = Filling(out.start, out.end) BY DEF Text!Filled, Filling
    <3>3. out' = [out EXCEPT !.line = @ + 1, !.start = out.end + Text!Cuts(l - out.end) * Text!Step, !.end = l,
                             !.windows = @ \cup Filling(out.start, out.end) \cup Text!Pieces(out.end, l)]
      BY <2>1, <3>1, <3>2 DEF Text!ScanLine
    <3> QED BY <3>3, <2>1, <1>1, <1>3, <1>4, LineCut
  <2>2. CASE ~ (l - out.start > TextCap)
    <3>1. out' = [out EXCEPT !.line = @ + 1, !.end = l] BY <2>2 DEF Text!ScanLine
    <3>2. l - out.start <= TextCap
      <4>1. out.line \in 1 .. Len(ends)
        <5>1. Len(ends) \in Nat /\ out.line \in 1 .. (Len(ends) + 1) BY <1>3, <1>4 DEF Scanned, EndsPlain
        <5> QED BY <5>1, <1>1, SMT
      <4>2. l \in Nat BY <4>1, <1>4, LineBounds
      <4>3. out.start \in Nat /\ TextCap \in Nat BY <1>3, StepPlain DEF Scanned
      <4> HIDE DEF l
      <4> QED BY <4>2, <4>3, <2>2, SMT
    <3> QED BY <3>1, <3>2, <1>1, <1>3, <1>4, LineAdded
  <2> QED BY <2>1, <2>2
<1>6. TextWindow(case', at', out') BY <1>1, <1>3, <1>5 DEF TextWindow
<1> QED BY <1>1, <1>6 DEF TextInv

LEMMA ScanEnds ==
  ASSUME TextPlain, TextInv, case.of = "window", Text!ScanDone
  PROVE  TextInv'
<1> DEFINE ends == case.ends
<1>1. at = "scanning" /\ case' = case /\ at' = "done" BY DEF Text!ScanDone
<1>2. TextWindow(case, at, out) BY DEF TextInv
<1>3. ends \in TextEnds /\ Scanned(ends, out) BY <1>1, <1>2 DEF TextWindow
<1>4. EndsPlain(ends) BY <1>3 DEF TextPlain, EndsPlain
<1>5. out \in [line : Nat, start : Nat, end : Nat, windows : SUBSET (Nat \X Nat)] BY <1>3 DEF Scanned
<1>6. Text!Total = ends[Len(ends)] BY DEF Text!Total
<1>7. Text!Filled = Filling(out.start, out.end) BY DEF Text!Filled, Filling
<1>8. out'.windows = IF Text!Fits THEN {<<0, Text!Total>>}
                     ELSE {<<0, TextCap>>} \cup {w \in out.windows \cup Text!Filled : w[1] > 0}
  BY <1>5 DEF Text!ScanDone
<1>9. Covers(ends, out'.windows)
  <2>1. CASE Text!Fits
    <3>1. ends[Len(ends)] <= TextCap BY <2>1, <1>6 DEF Text!Fits
    <3> QED BY <3>1, <2>1, <1>4, <1>6, <1>8, ShortCovered
  <2>2. CASE ~ Text!Fits
    <3>1. out'.windows = Searched(out) BY <2>2, <1>7, <1>8 DEF Searched
    <3>2. out.line > Len(ends) BY <2>2 DEF Text!ScanDone
    <3> QED BY <3>1, <3>2, <1>3, <1>4, LongCovered
  <2> QED BY <2>1, <2>2
<1>10. TextWindow(case', at', out') BY <1>1, <1>3, <1>9 DEF TextWindow
<1> QED BY <1>1, <1>10 DEF TextInv

LEMMA NormalizeKeeps ==
  ASSUME TextPlain, TextInv, case.of = "spelling", Text!Normalize
  PROVE  TextInv'
<1>1. case' = case /\ out' = [haystack |-> IF case.parses THEN Text!Unwrapped(case.tokens) ELSE << >>]
  BY DEF Text!Normalize
<1>2. case.script \in TextScripts /\ case.tokens \in Text!Spellings(case.script) BY DEF TextInv, TextSpelling
<1>3. ScriptPlain(case.script) BY <1>2 DEF TextPlain, ScriptPlain
<1>4. Text!Unwrapped(case.tokens) = case.script BY <1>2, <1>3, SpelledAlike
<1>5. case.script # << >>
  <2>1. Len(case.script) \in Nat \ {0} BY <1>3, ScriptShape
  <2> QED BY <2>1
<1>6. out'.haystack \in {case.script, << >>} /\ (case.parses => out'.haystack # << >>) BY <1>1, <1>4, <1>5
<1>7. TextSpelling(case', at', out') BY <1>1, <1>2, <1>6 DEF TextSpelling
<1> QED BY <1>1, <1>7 DEF TextInv

LEMMA RunKeeps ==
  ASSUME TextPlain, TextInv, case.of = "live", Text!RunCommand
  PROVE  TextInv'
<1> DEFINE c == case.c
<1>1. at = "running" /\ at' = at /\ case' = case BY DEF Text!RunCommand
<1>2. TextLive(case, at, out) BY DEF TextInv
<1>3. /\ c \in TextCriteria /\ out = [commands |-> out.commands, live |-> out.live, score |-> out.score]
      /\ out.commands \in Seq(TextCommands)
      /\ out.live # "undecided" => out.live = Text!LiveVerdict(c, out.commands)
  BY <1>2 DEF TextLive
<1>4. CriterionReads(c) BY <1>3 DEF TextPlain, CriterionReads
<1>5. PICK cmd \in TextCommands :
        out' = [out EXCEPT !.commands = Append(out.commands, cmd),
                           !.live = IF @ = "undecided" THEN Text!LiveVerdict(c, Append(out.commands, cmd)) ELSE @]
  BY DEF Text!RunCommand
<1> DEFINE more == Append(out.commands, cmd)
<1>6. /\ out'.commands = more /\ out'.score = out.score
      /\ out'.live = IF out.live = "undecided" THEN Text!LiveVerdict(c, more) ELSE out.live
      /\ out' = [commands |-> out'.commands, live |-> out'.live, score |-> out'.score]
  BY <1>3, <1>5
<1>7. more \in Seq(TextCommands) BY <1>3
<1>8. out.live # "undecided" => Text!LiveVerdict(c, more) = Text!LiveVerdict(c, out.commands)
  BY <1>3, <1>4, VerdictStays
<1> HIDE DEF more
<1>9. out'.live # "undecided" => out'.live = Text!LiveVerdict(c, out'.commands) BY <1>3, <1>6, <1>8
<1>10. TextLive(case', at', out') BY <1>1, <1>3, <1>6, <1>7, <1>9 DEF TextLive
<1> QED BY <1>1, <1>10 DEF TextInv

LEMMA CheckKeeps ==
  ASSUME TextInv, case.of = "live", Text!FinalCheck
  PROVE  TextInv'
<1>1. case' = case /\ out' = [out EXCEPT !.score = Text!Score(case.c, out.commands)] BY DEF Text!FinalCheck
<1>2. TextLive(case, at, out) BY DEF TextInv
<1>3. out = [commands |-> out.commands, live |-> out.live, score |-> out.score] BY <1>2 DEF TextLive
<1>4. /\ out'.commands = out.commands /\ out'.live = out.live /\ out'.score = Text!Score(case.c, out.commands)
      /\ out' = [commands |-> out'.commands, live |-> out'.live, score |-> out'.score]
  BY <1>1, <1>3
<1>5. TextLive(case', at', out') BY <1>1, <1>2, <1>4 DEF TextLive
<1> QED BY <1>1, <1>5 DEF TextInv

\* What the windows, the spellings and the verdicts promise follows.
LEMMA TextInvSees ==
  ASSUME TextPlain, TextInv
  PROVE  CommandsSeen
<1>1. ASSUME case.of = "window", at = "done" PROVE Text!WindowsCover
  <2>1. Covers(case.ends, out.windows) BY <1>1 DEF TextInv, TextWindow
  <2> QED BY <2>1 DEF Covers, Text!WindowsCover, Text!Total, Text!Unsplit, Text!LineStart, Begins
<1>2. ASSUME case.of = "spelling", at = "split"
      PROVE  out.haystack \in {case.script, << >>} /\ (case.parses => out.haystack # << >>)
  BY <1>2 DEF TextInv, TextSpelling
<1>3. ASSUME case.of = "live", at = "ended"
      PROVE  (out.live = "pass" => out.score = Text!Full) /\ (out.live = "fail" => out.score = 0)
  <2>1. TextLive(case, at, out) BY <1>3 DEF TextInv
  <2>2. CriterionReads(case.c) /\ out.commands \in Seq(TextCommands) BY <2>1 DEF TextLive, TextPlain, CriterionReads
  <2>3. out.live # "undecided" => out.live = Text!LiveVerdict(case.c, out.commands) BY <2>1 DEF TextLive
  <2>4. out.score = Text!Score(case.c, out.commands) BY <2>1, <1>3 DEF TextLive
  <2> QED BY <2>2, <2>3, <2>4, VerdictScored
<1> QED BY <1>1, <1>2, <1>3 DEF CommandsSeen, Text!CommandsSeen

\* No command is missed for how its text was split into windows (_search_windows),
\* quoted or wrapped (_normalize_shell), and a verdict that stopped the agent early
\* is the verdict of the finished run (live_verdict, _check_impl): for every cap
\* with an overlap of half of it at most, every text, script and criterion.
THEOREM CommandsStaySeen == Text!Spec => []CommandsSeen
<1>1. TextPlain BY RulesAssumption
<1>2. Text!Init => TextInv BY <1>1, TextStarts
<1>3. TextInv /\ [Text!Next]_(Text!vars) => TextInv'
  <2> SUFFICES ASSUME TextInv, [Text!Next]_(Text!vars) PROVE TextInv' OBVIOUS
  <2>1. CASE case.of = "window" /\ Text!ScanLine BY <1>1, <2>1, LineKeeps
  <2>2. CASE case.of = "window" /\ Text!ScanDone BY <1>1, <2>2, ScanEnds
  <2>3. CASE case.of = "spelling" /\ Text!Normalize BY <1>1, <2>3, NormalizeKeeps
  <2>4. CASE case.of = "live" /\ Text!RunCommand BY <1>1, <2>4, RunKeeps
  <2>5. CASE case.of = "live" /\ Text!FinalCheck BY <2>5, CheckKeeps
  <2>6. CASE UNCHANGED Text!vars BY <2>6 DEF Text!vars, TextInv
  <2> QED BY <2>1, <2>2, <2>3, <2>4, <2>5, <2>6 DEF Text!Next
<1>4. TextInv => CommandsSeen BY <1>1, TextInvSees
<1> QED BY <1>2, <1>3, <1>4, PTL DEF Text!Spec
=============================================================================
