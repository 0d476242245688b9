------------------------------- MODULE RetryPlan -------------------------------
(***************************************************************************)
(* What becomes of an operation that fails: the failure's category, from   *)
(* its type, then its message, then the component it came from, and the    *)
(* attempts and delays that the category's policy allows.                  *)
(***************************************************************************)
EXTENDS Integers, Sequences, FiniteSets, SequencesExt

CONSTANTS
  Components,   \* the component hints callers give: "sandbox", "agent", ...
  Caps          \* the values of max_attempts; 10, the safety limit, when the caller gives none

VARIABLES
  case,   \* the component and the cap
  at,     \* calling, failed, sleeping, done, raised, cancelled
  out     \* the attempt, its failure, the callbacks made, the delay planned
vars == <<case, at, out>>

NoError == [type |-> "none", words |-> {}]
NoDelay == [base |-> 0, jitter |-> 0]

Types == {"plain", "evalTimeout", "budget", "config", "timeout", "notFound", "memory", "rateLimit", "auth", "crash"}

\* _categorize_by_message: the patterns, in order.  A pattern that only means
\* something of an agent ends the search for the other components too.
MessageRules ==
  << [word |-> "auth",    gives |-> "AUTH",    agentOnly |-> FALSE],
     [word |-> "billing", gives |-> "BILLING", agentOnly |-> FALSE],
     [word |-> "rate",    gives |-> "RATE",    agentOnly |-> FALSE],
     [word |-> "timeout", gives |-> "TIMEOUT", agentOnly |-> TRUE],
     [word |-> "filter",  gives |-> "INVALID", agentOnly |-> FALSE],
     [word |-> "network", gives |-> "API",     agentOnly |-> TRUE],
     [word |-> "disk",    gives |-> "DISK",    agentOnly |-> FALSE],
     [word |-> "memory",  gives |-> "MEMORY",  agentOnly |-> FALSE] >>

\* _categorize_by_component: words, in order, then the component's default.
ComponentRules ==
  [sandbox   |-> << <<"venv", "VENV">>, <<"install", "PACKAGE">>, <<"git", "GIT">>, <<"template", "TEMPLATE">> >>,
   agent     |-> << <<"crash", "CRASH">>, <<"invalid", "INVALID">> >>,
   evaluator |-> << >>,
   task      |-> << <<"invalid", "TASK_INVALID">> >>]

Words == {MessageRules[i].word : i \in DOMAIN MessageRules} \cup
         {"venv", "install", "git", "template", "crash", "invalid", "task"}

\* Bound: at most two telling words in a message.
Errors == [type : Types, words : {ws \in SUBSET Words : Cardinality(ws) <= 2}]

Nothing == "none"

\* Mutant: any TimeoutError is the agent's.
TypedAlways(e, comp) == IF e.type = "timeout" THEN "TIMEOUT" ELSE Nothing

\* _categorize_by_exception_type
TypedAs(e, comp) ==
  CASE e.type = "evalTimeout" -> "TIMEOUT"
    [] e.type = "budget" -> "BUDGET"
    [] e.type = "config" -> "CONFIG"
    [] e.type = "timeout" /\ comp = "agent" -> "TIMEOUT"
    [] e.type = "notFound" /\ "task" \in e.words -> "TASK_NOT_FOUND"
    [] e.type = "memory" -> "MEMORY"
    [] e.type = "rateLimit" -> "RATE"
    [] e.type = "auth" -> "AUTH"
    [] OTHER -> Nothing

\* Mutant: the agent's patterns are looked at before the account's.
SaidLastFirst(e, comp) ==
  LET hit == SelectLastInSeq(MessageRules, LAMBDA r : r.word \in e.words)
  IN IF hit = 0 \/ (MessageRules[hit].agentOnly /\ comp # "agent") THEN Nothing ELSE MessageRules[hit].gives

SaidAs(e, comp) ==
  LET hit == SelectInSeq(MessageRules, LAMBDA r : r.word \in e.words)
  IN IF hit = 0 \/ (MessageRules[hit].agentOnly /\ comp # "agent") THEN Nothing ELSE MessageRules[hit].gives

Default(e, comp) ==
  CASE comp = "sandbox" -> "SANDBOX"
    [] comp = "agent" -> IF e.type = "crash" THEN "CRASH" ELSE "API"
    [] comp = "evaluator" -> "CRITERION"
    [] comp = "task" -> "TASK_NOT_FOUND"

OfComponent(e, comp) ==
  IF comp \notin DOMAIN ComponentRules THEN Nothing
  ELSE LET rules == ComponentRules[comp]
           hit   == SelectInSeq(rules, LAMBDA r : r[1] \in e.words)
       IN IF hit = 0 THEN Default(e, comp) ELSE rules[hit][2]

\* categorize_error: the first group that knows the failure.
Category(e, comp) ==
  CASE TypedAs(e, comp) # Nothing -> TypedAs(e, comp)
    [] TypedAs(e, comp) = Nothing /\ SaidAs(e, comp) # Nothing -> SaidAs(e, comp)
    [] OTHER -> IF OfComponent(e, comp) # Nothing THEN OfComponent(e, comp)
                ELSE IF e.type = "crash" THEN "CRASH" ELSE "UNKNOWN"

\* RETRY_CONFIG: retries, the first delay in seconds, the multiplier in halves.
Policy(retries, delay, halves) == [retries |-> retries, delay |-> delay, halves |-> halves]
PolicyOf(c) ==
  CASE c = "API" -> Policy(3, 5, 4)
    [] c = "RATE" -> Policy(5, 60, 6)
    [] c \in {"CRASH", "PACKAGE", "VENV"} -> Policy(2, 5, 4)
    [] c = "SANDBOX" -> Policy(2, 10, 3)
    [] c = "TEMPLATE" -> Policy(2, 5, 3)
    [] c = "GIT" -> Policy(3, 10, 4)
    [] OTHER -> Policy(0, 5, 4)

ShouldRetry(c, attempt) == attempt < PolicyOf(c).retries

\* compute_backoff, in quarters of a second, rounded down.
Backoff(c, attempt) == (4 * PolicyOf(c).delay * PolicyOf(c).halves ^ attempt) \div 2 ^ attempt

-----------------------------------------------------------------------------
(* execute_with_retry                                                      *)

Init ==
  /\ case \in [of : {"retry"}, component : Components, cap : Caps]
  /\ at = "calling"
  /\ out = [attempt |-> 0, error |-> NoError, told |-> 0, delay |-> NoDelay]

Succeed   == at = "calling" /\ at' = "done" /\ UNCHANGED <<case, out>>
Cancelled == at \in {"calling", "sleeping"} /\ at' = "cancelled" /\ UNCHANGED <<case, out>>

\* A failure, told to on_attempt_error before anything is decided; what the
\* callback itself raises is swallowed.
OperationFails ==
  /\ at = "calling"
  /\ \E e \in Errors : out' = [out EXCEPT !.error = e, !.told = @ + 1]
  /\ at' = "failed"
  /\ UNCHANGED case

Chosen == Category(out.error, case.component)

GiveUp ==
  /\ at = "failed"
  /\ ~ ShouldRetry(Chosen, out.attempt) \/ out.attempt + 1 >= case.cap
  /\ at' = "raised"
  /\ UNCHANGED <<case, out>>

\* The jitter: up to a quarter of the base delay.
PlanRetry ==
  /\ at = "failed" /\ ShouldRetry(Chosen, out.attempt) /\ out.attempt + 1 < case.cap
  /\ LET base == Backoff(Chosen, out.attempt)
     IN \E jitter \in {0, base \div 4} : out' = [out EXCEPT !.delay = [base |-> base, jitter |-> jitter]]
  /\ at' = "sleeping"
  /\ UNCHANGED case

Wake ==
  /\ at = "sleeping"
  /\ at' = "calling"
  /\ out' = [out EXCEPT !.attempt = @ + 1, !.error = NoError, !.delay = NoDelay]
  /\ UNCHANGED case

Next == case.of = "retry" /\ (Succeed \/ Cancelled \/ OperationFails \/ GiveUp \/ PlanRetry \/ Wake)

Spec == Init /\ [][Next]_vars

-----------------------------------------------------------------------------
Retry == case.of = "retry"

\* What another attempt cannot mend, whatever else the failure says.
Permanent(e) == \/ e.type \in {"evalTimeout", "budget", "config", "memory", "auth"}
                \/ e.type # "rateLimit" /\ e.words \cap {"auth", "billing"} # {}

\* The signs that a failure of a sandbox is more than a hitch of it.
Telling == {"auth", "billing", "filter", "disk", "memory"}

\* The retries of an operation: however the failures of its attempts mix, there
\* are at most six, and never more than the caller allows; each failure is told
\* once, before the next attempt; a breached limit, a missing prerequisite or a
\* refused account is never tried again whatever else its message says
\* (_categorize_by_message: "a false negative wastes every retry on an error that
\* will never succeed"); and a sandbox failure that names only a timeout or the
\* network has its retry (_categorize_by_exception_type: "instead of dead-ending
\* at UNKNOWN").
RetriesSound ==
  Retry =>
    /\ out.attempt < case.cap /\ out.attempt <= 5
    /\ at \in {"failed", "sleeping", "raised"} => out.told = out.attempt + 1
    /\ at \in {"calling", "done"} => out.told = out.attempt
    /\ at = "sleeping" => ~ Permanent(out.error)
    /\ at = "raised" /\ case.component = "sandbox" /\ out.attempt = 0 /\ case.cap > 1 =>
         \/ Permanent(out.error) \/ out.error.words \cap Telling # {}
         \/ out.error.type = "notFound" /\ "task" \in out.error.words
    /\ at = "sleeping" => /\ 4 * 5 <= out.delay.base /\ out.delay.base <= 4 * 4860
                          /\ out.delay.jitter * 4 <= out.delay.base
=============================================================================
