------------------------------- MODULE Dialog -------------------------------
(***************************************************************************)
(* A task whose user is simulated or scripted: _simulation_dialog_loop,    *)
(* the simulator behind it, the stop decision, and what run() makes of the *)
(* way the loop ended.  The loop is one coroutine; every await may end     *)
(* with the cancellation of the task's watchdog.  A retry of an agent turn *)
(* leaves partial records first (see TaskRun for the retries themselves).  *)
(*                                                                         *)
(* Tokens are counted in calls: every agent record and every utterance of  *)
(* a simulator costs one.  A judge call costs one as well.                 *)
(***************************************************************************)
EXTENDS Naturals, Sequences

CONSTANTS
  Configs,      \* the dialogs, records of ConfigSpace
  MaxPartials,  \* partial records a turn may leave, at most
  Unlimited     \* no limit

Timings == {"end_of_dialog", "every_turn", "both"}

\* A user is simulated after a pinned opener, simulated from the start, or
\* scripted, and then max_turns is the length of the script.
ConfigSpace ==
  [user : {"pinned", "pure", "script"}, maxTurns : Nat \ {0}, check : Timings,
   stopOnPass : BOOLEAN, grade : BOOLEAN,
   budget : Nat \cup {Unlimited},     \* simulation.max_total_tokens
   limit  : Nat \cup {Unlimited}]     \* run_limits.max_total_tokens

\* SimulationConfig's validators; execute refuses a simulated user.
Valid(c) ==
  /\ c.user = "script" => c.check = "end_of_dialog" /\ ~ c.stopOnPass
  /\ c.stopOnPass => c.check # "end_of_dialog"
  /\ ~ c.grade => c.user = "script"

ASSUME DialogAssumption ==
  /\ Unlimited \notin Nat /\ MaxPartials \in Nat
  /\ Configs \subseteq ConfigSpace /\ \A c \in Configs : Valid(c)

VARIABLES
  cfg,
  pc,      \* where the coroutine is
  exc,     \* what is raised: "none", "crash", "limit", "grading", "tampered", "cancel"
  turn,    \* turns_completed
  pairs,   \* len(dialog_pairs)
  user,    \* [up, talk, pending]: the simulator, utterances so far, the unconsumed one
  spent,   \* total_tokens_used
  last,    \* [maxed, broken]: of the last turn, its max_turns and the limit error
  passed,  \* all_passed and criteria_checked_this_turn
  reason,  \* stop_reason
  recs,    \* result.iterations: [kind, no, says]
  vec,     \* result.success_criteria_results: [of, pass, usage, plain]; of = 0: none
  judge,   \* [calls, accum]: judge calls answered, and the ledger
  tele,    \* result.simulation
  row      \* [status, phase, complete]: final_status, error_phase, _execution_complete

vars == <<cfg, pc, exc, turn, pairs, user, spent, last, passed, reason, recs, vec, judge, tele, row>>
\* What is said and recorded.
talk == <<user, recs>>
\* What only the checks of the criteria change.
graded == <<passed, vec, judge>>
\* What only the ends change.
ended  == <<tele, row>>

Exceptions == {"none", "crash", "limit", "grading", "tampered", "cancel"}
Reasons == {"none", "criteria_passed", "stop_token", "script_exhausted", "max_turns",
            "agent_max_turns", "budget", "error", "run_limit_exceeded"}
Checks == {"turncheck", "limitcheck", "endcheck"}
Pcs == {"start", "opener", "agent", "gate", "user", "final", "return", "finally", "verdict", "over"} \cup Checks

TypeOK ==
  /\ cfg \in Configs /\ pc \in Pcs /\ exc \in Exceptions /\ reason \in Reasons
  /\ turn \in 0..cfg.maxTurns /\ pairs \in {turn, turn - 1} \cap Nat /\ spent \in Nat
  /\ user \in [up : BOOLEAN, said : Nat, pending : Nat] /\ user.pending \in 0..user.said
  /\ last \in [maxed : BOOLEAN, broken : BOOLEAN]
  /\ passed \in [all : BOOLEAN, now : BOOLEAN]
  /\ recs \in Seq([kind : {"turn", "partial", "standalone_user"}, no : Nat, says : Nat])
  /\ vec \in [of : Nat, pass : BOOLEAN, usage : Nat, plain : BOOLEAN]
  /\ judge \in [calls : Nat, accum : Nat]
  /\ tele \in {<<>>} \cup {<<r, n>> : r \in Reasons \ {"none"}, n \in 0..cfg.maxTurns}
  /\ row \in [status : {"FAILURE", "SUCCESS", "NOT_GRADED", "MAX_TURNS_EXHAUSTED", "ERROR",
                        "TIMEOUT", "BUDGET_EXCEEDED"},
              phase : {"none", "execution", "grading"}, complete : BOOLEAN]

Init ==
  /\ cfg \in Configs /\ pc = "start" /\ exc = "none" /\ reason = "none"
  /\ turn = 0 /\ pairs = 0 /\ spent = 0
  /\ user = [up |-> FALSE, said |-> 0, pending |-> 0]
  /\ last = [maxed |-> FALSE, broken |-> FALSE]
  /\ passed = [all |-> FALSE, now |-> FALSE]
  /\ recs = << >> /\ vec = [of |-> 0, pass |-> FALSE, usage |-> 0, plain |-> FALSE]
  /\ judge = [calls |-> 0, accum |-> 0] /\ tele = <<>>
  /\ row = [status |-> "FAILURE", phase |-> "none", complete |-> FALSE]

-----------------------------------------------------------------------------
\* An exception leaves the loop for its `finally'; before the loop's try, the
\* simulator has cleaned up after itself.
Raise(e) == exc' = e /\ pc' = IF pc = "start" THEN "verdict" ELSE "finally"
Goto(p)  == pc' = p /\ UNCHANGED exc
Stop(r)  == reason' = r /\ Goto("final")

\* The watchdog's cancellation: one per task.
Cut == exc # "cancel" /\ Raise("cancel")

\* UserSimulator.start: a scratch directory and an agent; on any failure both
\* are gone again.
StartUser ==
  /\ pc = "start"
  /\ \/ user' = [user EXCEPT !.up = cfg.user # "script"] /\ Goto("opener")
     \/ cfg.user # "script" /\ Raise("crash") /\ UNCHANGED user
     \/ cfg.user # "script" /\ Cut /\ UNCHANGED user
  /\ UNCHANGED <<cfg, turn, pairs, spent, last, reason, recs, graded, ended>>

\* One utterance; a script is read at the number of the exchanges.
Utterance ==
  [user EXCEPT !.said = @ + 1, !.pending = IF cfg.user = "script" THEN pairs + 1 ELSE user.said + 1]
Costs == IF cfg.user = "script" THEN 0 ELSE 1

\* The pinned or scripted opener costs nothing; _acquire_opener asks for one
\* and writes the telemetry itself where it ends the dialog.
Opener ==
  /\ pc = "opener"
  /\ \/ cfg.user # "pure" /\ user' = Utterance /\ Goto("agent") /\ UNCHANGED <<spent, tele>>
     \/ cfg.user = "pure" /\ user' = Utterance /\ spent' = spent + 1 /\ Goto("agent") /\ UNCHANGED tele
     \/ cfg.user = "pure" /\ tele' = <<"error", 0>> /\ Goto("finally") /\ UNCHANGED <<user, spent>>
     \/ cfg.user = "pure" /\ tele' = <<"stop_token", 0>> /\ Goto("finally") /\ UNCHANGED <<user, spent>>
     \/ cfg.user = "pure" /\ Cut /\ UNCHANGED <<user, spent, tele>>
  /\ UNCHANGED <<cfg, turn, pairs, last, reason, recs, graded, row>>

Partials(k) == [i \in 1..k |-> [kind |-> "partial", no |-> turn + 1, says |-> 0]]

\* _check_run_limits counts every recorded turn, the partial ones too.
Counted(records) == SelectSeq(records, LAMBDA r : r.kind # "standalone_user")
LimitBroken(records) == cfg.limit # Unlimited /\ Len(Counted(records)) > cfg.limit

\* One _communicate_with_retry: the turn takes the utterance that prompted it.
\* A broken limit is recorded at once and raised behind the criteria.
AgentTurn ==
  /\ pc = "agent" /\ turn' = turn + 1
  /\ \E k \in 0..MaxPartials, maxed \in BOOLEAN :
       LET records == recs \o Partials(k) \o <<[kind |-> "turn", no |-> turn + 1, says |-> user.pending]>> IN
       /\ recs' = records /\ user' = [user EXCEPT !.pending = 0]
       /\ pairs' = pairs + 1 /\ spent' = spent + 1
       /\ last' = [maxed |-> maxed, broken |-> LimitBroken(records)]
       /\ row' = IF LimitBroken(records) THEN [row EXCEPT !.status = "BUDGET_EXCEEDED", !.phase = "execution"]
                 ELSE row
  /\ passed' = [passed EXCEPT !.now = FALSE]
  /\ Goto(IF cfg.check \in {"every_turn", "both"} THEN "turncheck" ELSE "gate")
  /\ UNCHANGED <<cfg, reason, vec, judge, tele>>

\* The last attempt fails, or the cancellation hits: its partial record is
\* drained by the attempt's handler, or by run().
AgentFails ==
  /\ pc = "agent" /\ turn' = turn + 1
  /\ \E k \in 0..MaxPartials : recs' = recs \o Partials(k)
  /\ Raise("crash") \/ Cut
  /\ UNCHANGED <<cfg, pairs, user, spent, last, reason, graded, ended>>

\* Mutant: the ledger holds the last call only.
BookedLast(used) == [calls |-> judge.calls + used, accum |-> IF used = 0 THEN judge.accum ELSE used]

\* _accumulate_judge_usage.
Booked(used) == [calls |-> judge.calls + used, accum |-> judge.accum + used]

\* _run_dialog_criteria_check to its end.  A judge that answered has its
\* usage on its result; one whose check raised leaves a plain result, which
\* the ledger skips and which carries no usage.
Checked ==
  \E pass \in BOOLEAN, used \in {0, 1}, plain \in BOOLEAN :
    /\ plain => ~ pass /\ used = 0
    /\ judge' = Booked(used)
    /\ vec' = [of |-> turn, pass |-> pass, plain |-> plain, usage |-> IF plain THEN 0 ELSE judge'.accum]

\* A reference that was touched, a judge or a checker that escalates.
CheckRaises == (Raise("tampered") \/ Raise("grading") \/ Cut) /\ UNCHANGED graded

CheckStep(p, next) ==
  /\ pc = p
  /\ \/ Checked /\ Goto(next) /\ passed' = [all |-> vec'.pass, now |-> TRUE]
     \/ CheckRaises
  /\ UNCHANGED <<cfg, turn, pairs, user, spent, last, reason, recs, ended>>

TurnCheck == CheckStep("turncheck", "gate")
EndCheck  == CheckStep("endcheck", "return")

\* The fall-back in front of a broken limit sets neither all_passed nor the flag.
LimitCheck ==
  /\ pc = "limitcheck"
  /\ \/ Checked /\ Raise("limit") /\ UNCHANGED passed
     \/ CheckRaises
  /\ UNCHANGED <<cfg, turn, pairs, user, spent, last, reason, recs, ended>>

\* Mutant: a broken limit is raised without the partial credit.
BreakLimitBare ==
  /\ pc = "gate" /\ last.broken
  /\ reason' = "run_limit_exceeded" /\ Raise("limit")
  /\ UNCHANGED <<cfg, turn, pairs, user, spent, last, recs, graded, ended>>

BreakLimit ==
  /\ pc = "gate" /\ last.broken
  /\ reason' = "run_limit_exceeded"
  /\ IF cfg.grade /\ ~ passed.now THEN Goto("limitcheck") ELSE Raise("limit")
  /\ UNCHANGED <<cfg, turn, pairs, user, spent, last, recs, graded, ended>>

\* Mutant: one turn too many.
StopDecisionLate ==
  IF cfg.stopOnPass /\ passed.all THEN "criteria_passed"
  ELSE IF turn > cfg.maxTurns THEN "max_turns"
  ELSE "none"

\* evaluate_stop: the first that holds.
StopDecision ==
  IF cfg.stopOnPass /\ passed.all THEN "criteria_passed"
  ELSE IF cfg.user = "script" /\ turn >= cfg.maxTurns THEN "script_exhausted"
  ELSE IF turn >= cfg.maxTurns THEN "max_turns"
  ELSE IF cfg.budget # Unlimited /\ spent >= cfg.budget THEN "budget"
  ELSE "none"

Gate ==
  /\ pc = "gate" /\ ~ last.broken
  /\ IF StopDecision # "none" THEN Stop(StopDecision)
     ELSE IF last.maxed THEN Stop("agent_max_turns")
     ELSE Goto("user") /\ UNCHANGED reason
  /\ UNCHANGED <<cfg, turn, pairs, talk, spent, last, graded, ended>>

\* _solicit_user_message: text, text with the stop token, or a failure.
UserSpeaks ==
  /\ pc = "user"
  /\ \/ /\ user' = Utterance /\ spent' = spent + Costs
        /\ \/ Goto("agent") /\ UNCHANGED reason
           \/ cfg.user # "script" /\ Stop("stop_token")
     \/ cfg.user # "script" /\ Stop("error") /\ UNCHANGED <<user, spent>>
     \/ cfg.user # "script" /\ Cut /\ UNCHANGED <<user, spent, reason>>
  /\ UNCHANGED <<cfg, turn, pairs, last, recs, graded, ended>>

\* end_of_dialog_needed.
EndCheckOwed == cfg.grade /\ (cfg.check \in {"end_of_dialog", "both"} \/ ~ passed.now)

\* Mutant: a failed simulator completes the execution like any other end.
EndDialogComplete ==
  /\ pc = "final" /\ row' = [row EXCEPT !.complete = TRUE]
  /\ Goto(IF EndCheckOwed THEN "endcheck" ELSE "return")
  /\ UNCHANGED <<cfg, turn, pairs, talk, spent, last, reason, graded, tele>>

EndDialog ==
  /\ pc = "final" /\ row' = [row EXCEPT !.complete = reason # "error"]
  /\ Goto(IF EndCheckOwed THEN "endcheck" ELSE "return")
  /\ UNCHANGED <<cfg, turn, pairs, talk, spent, last, reason, graded, tele>>

Return ==
  /\ pc = "return" /\ tele' = <<reason, turn>> /\ Goto("finally")
  /\ UNCHANGED <<cfg, turn, pairs, talk, spent, last, reason, graded, row>>

\* Mutant: the utterance nobody answered is dropped.
UnansweredDropped == recs

\* The utterance nobody answered, once an agent turn was tried.
Unanswered ==
  IF user.pending # 0 /\ turn > 0
  THEN Append(recs, [kind |-> "standalone_user", no |-> turn, says |-> user.pending]) ELSE recs

\* Mutant: the telemetry is written again on the way out.
TelemetryAgain == <<IF reason = "none" THEN "error" ELSE reason, turn>>

\* The telemetry of an exit through an exception.
Telemetry == IF tele = <<>> THEN <<IF reason = "none" THEN "error" ELSE reason, turn>> ELSE tele

\* The loop's `finally'.  A cancellation inside simulator.stop leaves its
\* scratch directory.
Finally ==
  /\ pc = "finally"
  /\ recs' = Unanswered /\ tele' = Telemetry /\ pc' = "verdict"
  /\ \/ user' = [user EXCEPT !.pending = 0, !.up = FALSE] /\ UNCHANGED exc
     \/ user.up /\ exc # "cancel" /\ exc' = "cancel" /\ user' = [user EXCEPT !.pending = 0]
  /\ UNCHANGED <<cfg, turn, pairs, spent, last, reason, graded, row>>

-----------------------------------------------------------------------------
\* What run() makes of it.

\* _terminal_status.
Terminal ==
  IF passed.all THEN "SUCCESS"
  ELSE IF ~ cfg.grade THEN "NOT_GRADED"
  ELSE IF last.maxed THEN "MAX_TURNS_EXHAUSTED"
  ELSE "FAILURE"

\* _handle_grading_error: the phase says whether a detached grade can repair
\* the row; an execution fact is not replaced.
GradingFailed ==
  IF row.status = "BUDGET_EXCEEDED" THEN row
  ELSE [row EXCEPT !.status = "ERROR", !.phase = IF row.complete THEN "grading" ELSE "execution"]

Judgement ==
  CASE exc = "none"                  -> [row EXCEPT !.status = Terminal]
    [] exc \in {"crash", "tampered"} -> [row EXCEPT !.status = "ERROR", !.phase = "execution"]
    [] exc = "limit"                 -> [row EXCEPT !.status = "BUDGET_EXCEEDED", !.phase = "execution"]
    [] exc = "cancel"                -> [row EXCEPT !.status = "TIMEOUT", !.phase = "execution"]
    [] exc = "grading"               -> GradingFailed

Verdict ==
  /\ pc = "verdict" /\ row' = Judgement /\ pc' = "over"
  /\ UNCHANGED <<cfg, exc, turn, pairs, talk, spent, last, reason, graded, tele>>

Next ==
  \/ StartUser \/ Opener \/ AgentTurn \/ AgentFails \/ TurnCheck \/ LimitCheck \/ EndCheck
  \/ BreakLimit \/ Gate \/ UserSpeaks \/ EndDialog \/ Return \/ Finally \/ Verdict

Spec == Init /\ [][Next]_vars

-----------------------------------------------------------------------------
\* A graded dialog that ends by itself or at a run limit is judged on the
\* state its last turn left, whichever turns were checked on the way, and it
\* succeeds exactly if that check passed; a row that says "grading failed",
\* which invites a detached grade, is the row of a dialog that came to an end
\* of its own.
VerdictOfLastTurn ==
  /\ TypeOK
  /\ pc = "over" =>
       /\ cfg.grade /\ turn > 0 /\ exc \in {"none", "limit"} => vec.of = turn
       /\ row.status = "SUCCESS" <=> exc = "none" /\ vec.of = turn /\ vec.pass
       /\ row.phase = "grading" => reason \notin {"none", "error"}

\* The utterances 1 to n are on the records, each on one, in order.
Spoken(records, n) ==
  /\ \A k \in 1..n : \E i \in DOMAIN records : records[i].says = k
  /\ \A i \in DOMAIN records : records[i].says \in 0..n
  /\ \A i, j \in DOMAIN records :
       i < j /\ records[j].says # 0 => records[i].says < records[j].says

\* Every utterance of the user is on exactly one record, in order, also the
\* one nobody answered; and the judge calls of all checks are on the vector
\* of the last, unless the judge's own check raised in that one.
NothingLost ==
  pc = "over" =>
    /\ Spoken(recs, user.said)
    /\ vec.of # 0 /\ ~ vec.plain => vec.usage = judge.calls

\* What a stop reason claims.
ReasonHolds(r) ==
  CASE r \in {"max_turns", "script_exhausted"} -> turn = cfg.maxTurns
    [] r = "budget"             -> spent >= cfg.budget
    [] r = "agent_max_turns"    -> last.maxed
    [] r = "run_limit_exceeded" -> LimitBroken(recs)
    [] r = "criteria_passed"    -> cfg.stopOnPass
    [] OTHER                    -> TRUE

\* The stop reason is recorded once and is true of the dialog it ended: a
\* broken run limit is never reported as anything else but an error on top
\* of it, and a limit or a budget that was not reached is never reported.
StopsOnce ==
  [][tele' # tele =>
       /\ tele = <<>> /\ tele'[2] = turn
       /\ ReasonHolds(tele'[1])
       /\ last.broken => tele'[1] \in {"run_limit_exceeded", "error"}]_vars

\* The row of a dialog is one account of it: its verdict is that of the last
\* turn, and no utterance and no judge call is missing from it.
DialogTold == VerdictOfLastTurn /\ NothingLost
=============================================================================
