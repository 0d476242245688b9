-------------------------------- MODULE Checker --------------------------------
(***************************************************************************)
(* One pass of the success checker over a criterion vector: the criteria   *)
(* one after the other, in order.  A rule runs in a worker thread; a judge *)
(* waits on the event loop, for a model's answer or for a sub-agent that   *)
(* works in a private copy of the sandbox and of the reference.  A         *)
(* checker may raise, answer twice or never, and the pass may be cancelled *)
(* at every await, more than once.                                         *)
(*                                                                         *)
(* A score is reduced to where it comes from: nothing, the rule, or the    *)
(* verdict a judge submitted.                                              *)
(***************************************************************************)
EXTENDS Naturals, Sequences

CONSTANTS
  Vectors,     \* criterion vectors: sequences of kinds
  MaxCalls,    \* bound: submit_verdict calls of one judge
  MaxCancels   \* bound: cancellations delivered to one pass

Kinds == {"rule", "unknown", "skipped", "llm", "agent", "agent_ref"}

ASSUME CheckerAssumption ==
  /\ \A v \in Vectors : v \in Seq(Kinds) /\ v # << >>
  /\ MaxCalls \in Nat \ {0} /\ MaxCancels \in Nat

VARIABLES
  crit,     \* the vector
  chk,      \* where the pass is
  results,  \* the results so far: [of, score, stamped, last]
  booked,   \* grading_ms has been added to
  capture,  \* VerdictCapture of the running judge: [verdict, error], and its last call
  calls,    \* submit_verdict calls of the running judge
  dir,      \* the sub-agent's directory: [made, holds]
  copying,  \* worker threads that copy into it
  alive,    \* the sub-agent's process
  why,      \* how the sub-agent's turn ended
  cancels   \* cancellations so far

judging == <<capture, calls, dir, copying, alive, why>>
checkerVars == <<crit, chk, results, booked, judging, cancels>>

NoCapture == [verdict |-> FALSE, error |-> FALSE, last |-> "none"]
NoDir     == [made |-> FALSE, holds |-> {}]
Returned  == {"done", "raised", "cancelled"}

Result == [of : Nat, score : {"zero", "full", "verdict"}, stamped : BOOLEAN,
           last : {"none", "valid", "invalid", "unread"}]

CheckerTypeOK ==
  /\ crit \in Vectors
  /\ chk \in {"off", "next", "thread", "context", "call", "copy", "mount", "talk", "reap"} \cup Returned
  /\ \A i \in DOMAIN results : results[i] \in Result
  /\ booked \in BOOLEAN /\ alive \in BOOLEAN
  /\ capture.verdict \in BOOLEAN /\ capture.error \in BOOLEAN /\ calls \in 0..MaxCalls
  /\ dir.made \in BOOLEAN /\ dir.holds \subseteq {"work", "ref"} /\ copying \subseteq {"work", "ref"}
  /\ why \in {"none", "ok", "lost", "error", "cancelled"}
  /\ cancels \in 0..MaxCancels

CheckerInit ==
  /\ crit \in Vectors /\ chk = "off" /\ results = << >> /\ booked = FALSE
  /\ capture = NoCapture /\ calls = 0 /\ dir = NoDir /\ copying = {}
  /\ alive = FALSE /\ why = "none" /\ cancels = 0

At(p) == chk = p
Kind  == crit[Len(results) + 1]
Left  == Len(results) < Len(crit)

\* check_all_async is entered, in a process of its own.
Begin ==
  /\ chk \in {"off"} \cup Returned
  /\ chk' = "next" /\ results' = << >> /\ booked' = FALSE /\ cancels' = 0
  /\ capture' = NoCapture /\ calls' = 0 /\ dir' = NoDir /\ copying' = {} /\ alive' = FALSE /\ why' = "none"
  /\ UNCHANGED crit

\* Mutant: only a pass that returns books its time.
LeaveUnbooked(how) == chk' = how /\ booked' = (how = "done")

\* It is left; the finally books the time the pass took.
Leave(how) == chk' = how /\ booked' = TRUE

Finish ==
  /\ At("next") /\ ~ Left
  /\ Leave("done")
  /\ UNCHANGED <<crit, results, judging, cancels>>

\* _finalize_result, _missing_checker_result, _error_result: each stamps the
\* criterion's threshold and gate on what it returns.
Book(score, last) ==
  /\ results' = Append(results, [of |-> Len(results) + 1, score |-> score, stamped |-> TRUE, last |-> last])
  /\ chk' = "next"

-----------------------------------------------------------------------------
(* Rules, and what raises.                                                 *)

\* A checker that is not native async runs in a worker thread.  A judge that
\* is not enabled scores 1.0 without a call.
StartRule ==
  /\ At("next") /\ Left /\ Kind \in {"rule", "unknown"}
  /\ chk' = "thread"
  /\ UNCHANGED <<crit, results, booked, judging, cancels>>

\* A rule scores; an unregistered type and an exception score 0.0 with an error.
RuleScores ==
  /\ At("thread")
  /\ \E score \in IF Kind = "rule" THEN {"zero", "full"} ELSE {"zero"} : Book(score, "none")
  /\ UNCHANGED <<crit, booked, judging, cancels>>

\* CheckerMisuseError and JudgeInfrastructureError are not scored.
Escalates ==
  /\ (At("thread") /\ Kind = "rule") \/ At("call")
  /\ Leave("raised")
  /\ UNCHANGED <<crit, results, judging, cancels>>

SkipJudge ==
  /\ At("next") /\ Left /\ Kind = "skipped"
  /\ Book("full", "none")
  /\ UNCHANGED <<crit, booked, judging, cancels>>

-----------------------------------------------------------------------------
(* Judges.                                                                 *)

\* The context is built in a worker thread.
StartJudge ==
  /\ At("next") /\ Left /\ Kind \in {"llm", "agent", "agent_ref"}
  /\ chk' = "context" /\ capture' = NoCapture /\ calls' = 0 /\ why' = "none"
  /\ UNCHANGED <<crit, results, booked, dir, copying, alive, cancels>>

\* llm_judge asks the model; without a transport, or when the builder raises,
\* it scores 0.0.  agent_judge makes a directory and copies the sandbox.
ContextBuilt ==
  /\ At("context")
  /\ \/ Kind = "llm" /\ chk' = "call" /\ UNCHANGED <<results, dir, copying>>
     \/ Book("zero", "none") /\ UNCHANGED <<dir, copying>>
     \/ /\ Kind # "llm"
        /\ chk' = "copy" /\ dir' = [made |-> TRUE, holds |-> {}] /\ copying' = {"work"}
        /\ UNCHANGED results
  /\ UNCHANGED <<crit, booked, capture, calls, alive, why, cancels>>

\* Mutant: an invalid call leaves the verdict that was there.
CapturedFirst(c, call) ==
  IF call = "valid" THEN [verdict |-> TRUE, error |-> FALSE, last |-> call]
  ELSE [c EXCEPT !.error = TRUE, !.last = call]

\* submit_verdict, one call: the last one stands.
Captured(c, call) == [verdict |-> call = "valid", error |-> call = "invalid", last |-> call]

\* A model's answer may hold several submit_verdict blocks; the last is read.
LlmAnswers ==
  /\ At("call")
  /\ \/ \E call \in {"none", "valid", "invalid"} :
          Book(IF call = "valid" THEN "verdict" ELSE "zero", call)
     \/ Book("zero", "none")                             \* any other exception
  /\ UNCHANGED <<crit, booked, judging, cancels>>

\* A copying thread ends, whether or not somebody still waits for it.
CopyEnds(part) ==
  /\ part \in copying
  /\ copying' = copying \ {part}
  /\ \/ dir' = [made |-> TRUE, holds |-> dir.holds \cup {part}] /\ UNCHANGED why
     \/ /\ chk \in {"copy", "mount"} /\ why' = "error" /\ UNCHANGED dir
  /\ UNCHANGED <<crit, chk, results, booked, capture, calls, alive, cancels>>

\* run_async: after the sandbox the reference, after that the sub-agent; an
\* exception goes to the finally.
CopyAwaited ==
  /\ chk \in {"copy", "mount"} /\ copying = {}
  /\ \/ why = "error" /\ chk' = "reap" /\ UNCHANGED <<copying, alive>>
     \/ /\ why # "error" /\ At("copy") /\ Kind = "agent_ref"
        /\ chk' = "mount" /\ copying' = {"ref"} /\ UNCHANGED alive
     \/ /\ why # "error" /\ (At("mount") \/ Kind = "agent")
        /\ chk' = "talk" /\ alive' = TRUE /\ UNCHANGED copying
  /\ UNCHANGED <<crit, results, booked, capture, calls, dir, why, cancels>>

SubmitVerdict(call) ==
  /\ At("talk") /\ calls < MaxCalls
  /\ calls' = calls + 1 /\ capture' = Captured(capture, call)
  /\ UNCHANGED <<crit, chk, results, booked, dir, copying, alive, why, cancels>>

\* Mutant: only an Exception kills the sub-agent's process.
TurnEndedOrKept(w) == alive' = (w = "cancelled") /\ why' = w /\ chk' = "reap"

\* _run_agent: the turn ends ("ok"), the judge times out or crashes ("lost"),
\* something else is raised, or the await is cancelled; in the last three the
\* process is killed, at once.
TurnEnded(w) == alive' = FALSE /\ why' = w /\ chk' = "reap"

\* Mutant: a judge that has not submitted a verdict is waited for.
TurnOverWithVerdict ==
  /\ At("talk") /\ calls > 0 /\ TurnEnded("ok")
  /\ UNCHANGED <<crit, results, booked, capture, calls, dir, copying, cancels>>

TurnOver ==
  /\ At("talk") /\ \E w \in {"ok", "lost", "error"} : TurnEnded(w)
  /\ UNCHANGED <<crit, results, booked, capture, calls, dir, copying, cancels>>

\* Mutant: the directory is removed while a thread still copies into it.
ReapedAtOnce == TRUE

\* The finally waits for every thread of its own before the directory goes.
Reaped == copying = {}

\* What the criterion then scores: the verdict only of a turn that ended.
Reap ==
  /\ At("reap") /\ Reaped
  /\ dir' = NoDir
  /\ CASE why = "cancelled" -> Leave("cancelled") /\ UNCHANGED results
       [] why = "ok" /\ capture.verdict -> Book("verdict", capture.last) /\ UNCHANGED booked
       [] why = "ok" /\ ~ capture.verdict -> Book("zero", capture.last) /\ UNCHANGED booked
       [] OTHER -> Book("zero", "unread") /\ UNCHANGED booked
  /\ UNCHANGED <<crit, capture, calls, copying, alive, why, cancels>>

-----------------------------------------------------------------------------
(* Cancellation, at any await of the pass.                                 *)

\* A worker thread goes on; the await does not.
CancelOutright ==
  /\ chk \in {"thread", "context", "call"}
  /\ Leave("cancelled")
  /\ UNCHANGED <<results, judging>>

CancelCopy ==
  /\ chk \in {"copy", "mount"} /\ why' = "cancelled" /\ chk' = "reap"
  /\ UNCHANGED <<results, booked, capture, calls, dir, copying, alive>>

CancelTalk ==
  /\ At("talk") /\ TurnEnded("cancelled")
  /\ UNCHANGED <<results, booked, capture, calls, dir, copying>>

\* The finally's own await: what follows it does not run.
CancelReap ==
  /\ At("reap") /\ copying # {}
  /\ Leave("cancelled") /\ UNCHANGED <<results, judging>>

Cancel ==
  /\ cancels < MaxCancels /\ cancels' = cancels + 1 /\ UNCHANGED crit
  /\ CancelOutright \/ CancelCopy \/ CancelTalk \/ CancelReap

CheckerWork ==
  \/ Finish \/ StartRule \/ RuleScores \/ Escalates \/ SkipJudge
  \/ StartJudge \/ ContextBuilt \/ LlmAnswers \/ CopyAwaited
  \/ TurnOver \/ Reap
  \/ \E part \in {"work", "ref"} : CopyEnds(part)

CheckerNext == CheckerWork \/ Cancel \/ \E call \in {"valid", "invalid"} : SubmitVerdict(call)

-----------------------------------------------------------------------------
(* Properties.                                                             *)

\* A vector that is returned has one result per criterion, in order, each with
\* its threshold; a judge's score is its last submit_verdict call, and only
\* where that call was valid; the time of the pass is booked however it ends
\* (check_all_async; verdict_tool: "LAST call wins"; "In `finally` so a grade
\* that raises still books what it spent").
VectorTrue ==
  /\ chk = "done" => Len(results) = Len(crit)
  /\ \A i \in DOMAIN results :
       /\ results[i].of = i /\ results[i].stamped
       /\ (results[i].score = "verdict") = (results[i].last = "valid")
  /\ chk \in Returned => booked

\* A judge leaves nothing behind: its copy of the sandbox and the reference is
\* gone, no thread writes to it again, and its process is dead, if the pass
\* was cancelled at most once (run_async, _run_agent).  A second cancellation
\* inside the finally skips the rest of it.
JudgeLeavesNothing ==
  chk \in Returned /\ cancels <= 1 => dir = NoDir /\ copying = {} /\ ~ alive
=============================================================================
