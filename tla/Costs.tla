-------------------------------- MODULE Costs --------------------------------
(***************************************************************************)
(* The money of a run.  A turn's cost is an estimate of the rate card; for *)
(* the LiteLLM backend the proxy's log of calls replaces it, iteration by  *)
(* iteration; and the row adds up what the agent, the judges and the       *)
(* simulator spent.  The rate card itself grows by the plugins' batches.   *)
(***************************************************************************)
EXTENDS Integers, Sequences, FiniteSets, FiniteSetsExt, Functions

CONSTANTS
  TurnLists,   \* sequences of [iteration, generated, usage, cost]
  Logs,        \* sequences of calls [loads, shape, ours, iteration, cost, tokens]
  Judges,      \* what a row's judges report: sequences of [tokens, cost]
  Statuses,    \* statuses of the row, "TIMEOUT" among them
  BuiltIn,     \* the rate card: a function from bare model ids to rates
  Batches,     \* the batches plugins register
  Spellings    \* qualified ids: sequences of prefixes that end in a bare id

VARIABLES
  case,   \* the run, or the rate card
  at,     \* loading, planning, crediting, adding, done; open
  out     \* what is known so far
vars == <<case, at, out>>

None == -1

\* sum_costs: what was priced, None when nothing was.
SumCosts(costs) ==
  LET priced == {x \in DOMAIN costs : costs[x] # None}
  IN IF priced = {} THEN None ELSE FoldFunctionOnSet(+, 0, costs, priced)

-----------------------------------------------------------------------------
(* _join_litellm_actual_cost                                               *)

NoRow == [agent |-> None, total |-> None, complete |-> TRUE]

Init ==
  \/ /\ case \in [of : {"costs"}, turns : TurnLists, log : Logs, judges : Judges, status : Statuses]
     /\ at = "loading"
     /\ out = [records |-> {}, plan |-> [i \in {} |-> 0], turns |-> case.turns, next |-> 1, row |-> NoRow]
  \/ /\ case = [of |-> "rates"]
     /\ at = "open"
     /\ out = [registered |-> [m \in {} |-> 0], seen |-> {}]

\* load_cost_records: a garbled line is passed over.
LoadRecords ==
  /\ at = "loading"
  /\ out' = [out EXCEPT !.records = {i \in DOMAIN case.log : case.log[i].loads}]
  /\ at' = "planning"
  /\ UNCHANGED case

\* The records of this run, task and attempt.
Mine == {i \in out.records : case.log[i].ours}

\* Mutant: the calls without a cost are left out, and the rest is joined.
PricedOnly(iteration) == {i \in Mine : case.log[i].iteration = iteration /\ case.log[i].cost # None}

\* _reports_no_usage: neither a cost nor a token.
Usable(iteration) ==
  {i \in Mine : /\ case.log[i].iteration = iteration
                /\ case.log[i].cost # None \/ case.log[i].tokens}

Creditable(calls) == calls # {} /\ \A i \in calls : case.log[i].cost # None

\* Phase 1: nothing is changed before every record has been read.
PlanJoin ==
  /\ at = "planning"
  /\ \A i \in Mine : case.log[i].shape
  /\ LET its == {case.log[i].iteration : i \in Mine}
         paid == {it \in its : Creditable(Usable(it))}
     IN out' = [out EXCEPT !.plan = [it \in paid |-> SumCosts([i \in Usable(it) |-> case.log[i].cost])]]
  /\ at' = "crediting"
  /\ UNCHANGED case

\* A record that does not validate, or a log that is of someone else.
KeepStatic ==
  /\ at = "planning"
  /\ (\E i \in Mine : ~ case.log[i].shape) \/ Mine = {}
  /\ at' = "adding"
  /\ UNCHANGED <<case, out>>

\* Mutant: a sibling keeps its estimate next to the calls of the survivor.
SiblingKept(t) == t

\* A sibling of the survivor: its calls are credited there.
SiblingZeroed(t) == IF t.usage = "none" THEN t ELSE [t EXCEPT !.cost = 0]

\* _survivor_index: the last turn that generated, or the last.
Survivor(turns, iteration) ==
  LET all == {i \in DOMAIN turns : turns[i].iteration = iteration}
      gen == {i \in all : turns[i].generated}
  IN Max(IF gen # {} THEN gen ELSE all)

\* Phase 2, one turn at a time.
Credited(t, i) ==
  IF t.iteration \notin DOMAIN out.plan THEN t
  ELSE IF Survivor(out.turns, t.iteration) # i THEN SiblingZeroed(t)
  ELSE [t EXCEPT !.cost = out.plan[t.iteration], !.usage = IF @ = "none" THEN "empty" ELSE @]

CreditTurn ==
  /\ at = "crediting" /\ out.next <= Len(out.turns)
  /\ out' = [out EXCEPT !.turns[out.next] = Credited(@, out.next), !.next = @ + 1]
  /\ UNCHANGED <<case, at>>

AllCredited ==
  /\ at = "crediting" /\ out.next > Len(out.turns)
  /\ at' = "adding"
  /\ UNCHANGED <<case, out>>

-----------------------------------------------------------------------------
(* _aggregate_token_usage and eval_result_to_task_dict                     *)

AgentCost(turns) == SumCosts([i \in {j \in DOMAIN turns : turns[j].usage # "none"} |-> turns[i].cost])

\* _cost_complete: no TIMEOUT row, and no tokens of a turn without a price.
CostComplete(turns) ==
  /\ case.status # "TIMEOUT"
  /\ \A i \in DOMAIN turns : turns[i].usage = "tokens" => turns[i].cost # None

JudgeCost == SumCosts([i \in DOMAIN case.judges |-> case.judges[i].cost])

AddUp ==
  /\ at = "adding"
  /\ out' = [out EXCEPT !.row =
       [agent    |-> AgentCost(out.turns),
        total    |-> SumCosts(<<AgentCost(out.turns), JudgeCost>>),
        complete |-> CostComplete(out.turns)]]
  /\ at' = "done"
  /\ UNCHANGED case

-----------------------------------------------------------------------------
(* The rate card                                                           *)

\* _lookup_rate: the plugins' rates over the built-in ones.
Lookup(registered, m) ==
  IF m \in DOMAIN registered THEN registered[m]
  ELSE IF m \in DOMAIN BuiltIn THEN BuiltIn[m] ELSE None

\* _normalize_model: one routing prefix, one region, the vendor.
Routes  == {"bedrock/converse/", "bedrock/", "converse/", "openrouter/"}
Regions == {"eu.", "us.", "apac.", "global."}
Strip(id, prefixes) == IF Len(id) > 1 /\ id[1] \in prefixes THEN Tail(id) ELSE id
Normalize(id) == Strip(Strip(Strip(id, Routes), Regions), {"anthropic."})

Price(registered, id) == LET bare == Normalize(id) IN IF Len(bare) = 1 THEN Lookup(registered, bare[1]) ELSE None

\* Mutant: the keys of a batch before the conflict stay.
MergedTillConflict(registered, batch) ==
  LET fits == {m \in DOMAIN batch : Lookup(registered, m) \in {None, batch[m]}}
  IN [m \in DOMAIN registered \cup fits |-> IF m \in fits THEN batch[m] ELSE registered[m]]

\* register_pricing: every key is looked at before any is taken.
Merged(registered, batch) ==
  IF \E m \in DOMAIN batch : Lookup(registered, m) \notin {None, batch[m]} THEN registered
  ELSE [m \in DOMAIN registered \cup DOMAIN batch |-> IF m \in DOMAIN batch THEN batch[m] ELSE registered[m]]

\* seen: the prices given so far, kept for the property.
RegisterPricing ==
  /\ at = "open"
  /\ \E batch \in Batches :
       out' = [registered |-> Merged(out.registered, batch),
               seen |-> out.seen \cup {<<id, Price(Merged(out.registered, batch), id)>> : id \in Spellings}]
  /\ UNCHANGED <<case, at>>

Next == \/ case.of = "costs" /\ (LoadRecords \/ PlanJoin \/ KeepStatic \/ CreditTurn \/ AllCredited \/ AddUp)
        \/ case.of = "rates" /\ RegisterPricing

Spec == Init /\ [][Next]_vars

-----------------------------------------------------------------------------
\* The spend on the record is the spend of the calls: an iteration is joined as a
\* whole or not at all, and one that is joined books each of its calls once,
\* however many turns share it ("the spend is never dropped"); a log that cannot
\* be read to the end changes nothing.
JoinedWhole ==
  LET its == {case.turns[i].iteration : i \in DOMAIN case.turns}
      of(it) == {i \in DOMAIN case.turns : case.turns[i].iteration = it}
      calls(it) == {i \in Mine : case.log[i].iteration = it}
  IN \A it \in its :
       \/ \A i \in of(it) : out.turns[i] = case.turns[i]
       \/ /\ \A i \in Mine : case.log[i].shape
          /\ \A i \in calls(it) : case.log[i].tokens => case.log[i].cost # None
          /\ SumCosts([i \in of(it) |-> out.turns[i].cost]) = SumCosts([i \in calls(it) |-> case.log[i].cost])

\* The agent's bill is the turns' once each, and a row that is called complete
\* has a price on everything its turns burned.
BillIsSum ==
  /\ out.row.agent = SumCosts([i \in DOMAIN out.turns |-> out.turns[i].cost])
  /\ out.row.complete => \A i \in DOMAIN out.turns : out.turns[i].usage = "tokens" => out.turns[i].cost # None

\* A model has one price for as long as the program runs, in every spelling that
\* a route gives its id, and a batch that clashes with it leaves nothing behind
\* (register_pricing: "All-or-nothing").
RatesStand ==
  /\ \A p, q \in out.seen : Normalize(p[1]) = Normalize(q[1]) => p[2] = q[2] \/ None \in {p[2], q[2]}
  /\ \A m \in DOMAIN out.registered :
       \E b \in Batches : m \in DOMAIN b /\ \A n \in DOMAIN b : n \in DOMAIN out.registered /\ out.registered[n] = b[n]

\* What a run is said to have cost is what it cost, as far as it is known.
CostsTold ==
  /\ case.of = "costs" /\ at = "done" => JoinedWhole /\ BillIsSum
  /\ case.of = "rates" => RatesStand

\* The rate-card warning of a batch: "any judge call ... will book its tokens with
\* no cost, so run-level totals will understate the bill (RunSummary.cost_complete
\* reports false)" (orchestration/batch.py:80-82, evaluation/judge_usage.py:44-45).
\* No run: the code does not keep it (README).
JudgeGapTold ==
  case.of = "costs" /\ at = "done" /\ (\E i \in DOMAIN case.judges : case.judges[i].tokens /\ case.judges[i].cost = None) => ~ out.row.complete
=============================================================================
