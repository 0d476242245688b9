------------------------------- MODULE Published -------------------------------
(***************************************************************************)
(* What a finished batch publishes: the run summary, the experiment's      *)
(* variants with their replicates folded, the rollups of dataset suites,   *)
(* the JUnit report and the exit code.  Every table has its own counts of  *)
(* the same rows.  Scores are in twelfths, a rate is <<part, whole>>.      *)
(***************************************************************************)
EXTENDS Integers, Sequences, FiniteSets, FiniteSetsExt

CONSTANTS
  Cells,      \* the rows of the batch: <<task, variant, replicate>>, all of one suite
  Variants,   \* the variants, in the order of their ids
  Gates       \* suite_thresholds of the suite's criterion: none, accuracy, mean, completion

VARIABLES
  case,   \* the command, its rows, the gate, and whether an earlier suite.json is there
  at,     \* summing, folding, comparing, rolling, reporting, exiting, exited
  out     \* what has been published so far
vars == <<case, at, out>>

Full == 12
None == -1

-----------------------------------------------------------------------------
(* The rows a batch can end with.  checked: what the suite's criterion says *)
(* of the row: no result, a right or a wrong label, or a failed check.      *)

Row(status, score, checked) == [status |-> status, score |-> score, checked |-> checked]
Kinds(grade) ==
  {Row("ungraded", None, "none"), Row("error", None, "none")} \cup
  IF grade THEN {Row("succeeded", Full, "hit"), Row("failed", 4, "miss"), Row("failed", 0, "broken"),
                 Row("failed", 0, "none"), Row("error", 0, "none")}
  ELSE {Row("failed", None, "none")}

NoRate == <<0, 0>>
Rate(part, whole) == IF whole = 0 THEN NoRate ELSE <<part, whole>>

Init ==
  /\ \E grade \in BOOLEAN :
       case \in [of : {"report"}, grade : {grade}, rows : [Cells -> Kinds(grade)], gate : Gates, stale : BOOLEAN]
  /\ at = "summing"
  /\ out = [summary |-> << >>, folded |-> << >>, tasks |-> << >>, variants |-> << >>, rollups |-> << >>,
            junit |-> << >>, exit |-> None]

Tasks == {c[1] : c \in Cells}
VariantIds == {Variants[i] : i \in DOMAIN Variants}
RowsOf(v) == {c \in Cells : c[2] = v}
Groups == {<<c[1], c[2]>> : c \in Cells}
Replicates(g) == {c \in Cells : <<c[1], c[2]>> = g}

In(rows, cells, status) == {c \in cells : rows[c].status = status}

\* nothing_was_measured: ungraded rows, and no verdict among the others.
NothingMeasured(notGraded, measured) == notGraded > 0 /\ measured = 0

-----------------------------------------------------------------------------
(* build_run_summary                                                       *)

Counts(rows, cells) ==
  [run       |-> Cardinality(cells),
   succeeded |-> Cardinality(In(rows, cells, "succeeded")),
   failed    |-> Cardinality(In(rows, cells, "failed")),
   error     |-> Cardinality(In(rows, cells, "error")),
   ungraded  |-> Cardinality(In(rows, cells, "ungraded")),
   measured  |-> Cardinality({c \in cells : rows[c].score # None})]

PassRate(n) ==
  IF NothingMeasured(n.ungraded, n.measured) THEN NoRate ELSE Rate(n.succeeded, n.run - n.ungraded)

BuildRunSummary ==
  /\ at = "summing"
  /\ out' = [out EXCEPT !.summary = Counts(case.rows, Cells)]
  /\ at' = "folding"
  /\ UNCHANGED case

-----------------------------------------------------------------------------
(* aggregate_results                                                       *)

\* Mutant: only a row with a score is averaged.
ScoredOnly(rows, cells) == {c \in cells : rows[c].score # None}

\* _measured_scores: only what is ungraded leaves the mean.
MeasuredRows(rows, cells) == {c \in cells : rows[c].status # "ungraded"}

MeanScore(rows, cells) ==
  LET measured == MeasuredRows(rows, cells)
  IN IF measured = {} THEN None
     ELSE FoldFunctionOnSet(+, 0, [c \in measured |-> IF rows[c].score = None THEN 0 ELSE rows[c].score], measured)
            \div Cardinality(measured)

Urgency == [error |-> 0, failed |-> 1, succeeded |-> 2, ungraded |-> 3]

\* Mutant: the best replicate speaks for the task.
BestStatus(rows, cells) ==
  CHOOSE s \in {rows[c].status : c \in cells} : \A c \in cells : Urgency[s] >= Urgency[rows[c].status]

\* _pick_worst_status
WorstStatus(rows, cells) ==
  CHOOSE s \in {rows[c].status : c \in cells} : \A c \in cells : Urgency[s] <= Urgency[rows[c].status]

Folded(rows, g) == [status |-> WorstStatus(rows, Replicates(g)), score |-> MeanScore(rows, Replicates(g))]

\* _fold_replicates, one task of one variant.
FoldReplicates ==
  /\ at = "folding"
  /\ \E g \in Groups \ DOMAIN out.folded :
       out' = [out EXCEPT !.folded = [h \in DOMAIN @ \cup {g} |-> IF h = g THEN Folded(case.rows, g) ELSE @[h]]]
  /\ UNCHANGED <<case, at>>

Position(v) == CHOOSE i \in DOMAIN Variants : Variants[i] = v

\* The best variant of a task: the highest score, the later id among equals; with
\* no score at all, the first id, and a tie of all.
BestOf(folded, t) ==
  LET of     == {g[2] : g \in {h \in DOMAIN folded : h[1] = t}}
      score(v) == folded[<<t, v>>].score
      scored == {v \in of : score(v) # None}
      top    == {v \in scored : \A w \in scored : score(w) <= score(v)}
      last(S)  == CHOOSE v \in S : \A w \in S : Position(w) <= Position(v)
      first(S) == CHOOSE v \in S : \A w \in S : Position(w) >= Position(v)
  IN IF scored # {} THEN [best |-> last(top), tie |-> Cardinality(top) > 1]
     ELSE [best |-> first(of), tie |-> Cardinality(of) > 1]

\* A variant's counts are over its tasks, with a task's replicates folded.
VariantAggregate(folded, v) ==
  LET of == {g \in DOMAIN folded : g[2] = v}
  IN [counts |-> Counts(folded, of), average |-> MeanScore(folded, of)]

AggregateResults ==
  /\ at = "folding" /\ DOMAIN out.folded = Groups
  /\ out' = [out EXCEPT !.tasks = [t \in Tasks |-> BestOf(out.folded, t)],
                        !.variants = [v \in VariantIds |-> VariantAggregate(out.folded, v)]]
  /\ at' = "rolling"
  /\ UNCHANGED case

-----------------------------------------------------------------------------
(* write_suite_rollups                                                     *)

\* The rows with a result of the criterion, and those of them with labels.
Checked(cells) == {c \in cells : case.rows[c].checked # "none"}
Labelled(cells) == {c \in cells : case.rows[c].checked \in {"hit", "miss"}}
Hits(cells) == {c \in cells : case.rows[c].checked = "hit"}

\* aggregate and overlay_classification_metrics: a metric is a rate, or not emitted.
Metric(name, cells) ==
  CASE name = "completion" -> Rate(Cardinality(Checked(cells)), Cardinality(cells))
    [] name = "mean"       -> Rate(Cardinality(Hits(cells)), Cardinality(Checked(cells)))
    [] name = "accuracy"   -> Rate(Cardinality(Hits(cells)), Cardinality(Labelled(cells)))

\* _evaluate_thresholds: at least a half; a metric that is missing fails.
Meets(rate) == rate # NoRate /\ 2 * rate[1] >= rate[2]

\* Mutant: a criterion without an aggregate is passed over.
GatePassedOver(cells) == case.gate = "none" \/ Checked(cells) = {} \/ Meets(Metric(case.gate, cells))

\* A criterion without a result in any row has no aggregate, and fails its gate.
GatePassed(cells) == case.gate = "none" \/ (Checked(cells) # {} /\ Meets(Metric(case.gate, cells)))

Rollup(v) == [counts |-> Counts(case.rows, RowsOf(v)), passed |-> GatePassed(RowsOf(v))]

\* `execute` writes no rollup.
WriteSuiteRollups ==
  /\ at = "rolling"
  /\ out' = [out EXCEPT !.rollups = IF case.grade THEN [v \in VariantIds |-> Rollup(v)] ELSE << >>]
  /\ at' = "reporting"
  /\ UNCHANGED case

FailedGates == {v \in DOMAIN out.rollups : ~ out.rollups[v].passed}

-----------------------------------------------------------------------------
(* generate_junit_xml, and the exit code                                   *)

\* The suite gates are read from the directory, an earlier command's with them.
GateCases == Cardinality(FailedGates) + (IF case.stale THEN 1 ELSE 0)

WriteJUnit ==
  /\ at = "reporting"
  /\ out' = [out EXCEPT !.junit = [failures |-> out.summary.failed + GateCases,
                                   errors   |-> out.summary.error,
                                   skipped  |-> out.summary.ungraded]]
  /\ at' = "exiting"
  /\ UNCHANGED case

\* Mutant: the gates of the suites do not count.
RowsOnly == out.summary.failed > 0 \/ out.summary.error > 0

Failing ==
  \/ out.summary.failed > 0 \/ out.summary.error > 0
  \/ FailedGates # {}
  \/ case.grade /\ out.summary.ungraded > 0

Exit ==
  /\ at = "exiting"
  /\ out' = [out EXCEPT !.exit = IF Failing THEN 1 ELSE 0]
  /\ at' = "exited"
  /\ UNCHANGED case

Next == case.of = "report" /\ (BuildRunSummary \/ FoldReplicates \/ AggregateResults \/ WriteSuiteRollups \/ WriteJUnit \/ Exit)
Spec == Init /\ [][Next]_vars

-----------------------------------------------------------------------------
Exited == case.of = "report" /\ at = "exited"

\* The average of a variant, had its rows been these.
AverageWith(rows, v) ==
  LET folded == [g \in {h \in Groups : h[2] = v} |-> Folded(rows, g)] IN MeanScore(folded, DOMAIN folded)

\* No variant is ever better off for a row that crashed instead ("the exact 'bonus
\* for erroring' the run-level rates are written to avoid", _measured_scores).
ErringEarnsNothing ==
  \A v \in VariantIds : \A c \in RowsOf(v) :
    LET before == AverageWith(case.rows, v)
        after  == AverageWith([case.rows EXCEPT ![c] = Row("error", None, "none")], v)
    IN before # None => after <= before

\* A task counts as passed for a variant only when none of its replicates failed
\* or crashed, and a variant that wins it is beaten by none.
ComparisonHolds ==
  /\ \A g \in Groups : out.folded[g].status = "succeeded" =>
       \A c \in Replicates(g) : case.rows[c].status \in {"succeeded", "ungraded"}
  /\ \A t \in Tasks : ~ out.tasks[t].tie =>
       \A v \in VariantIds \ {out.tasks[t].best} :
         <<t, v>> \in Groups => out.folded[<<t, v>>].score < out.folded[<<t, out.tasks[t].best>>].score

\* The exit code and the report say the same, but for rows left ungraded and for
\* the gates of an earlier command; and no gate is passed that measured nothing.
OneVerdict ==
  /\ out.exit = 0 => out.junit.errors = 0 /\ (out.junit.failures = 0 \/ case.stale)
  /\ out.junit.errors = 0 /\ out.junit.failures = 0 => out.exit = 0 \/ (case.grade /\ out.junit.skipped > 0)
  /\ case.gate # "none" => \A v \in DOMAIN out.rollups : out.rollups[v].passed => Checked(RowsOf(v)) # {}

\* What a batch publishes is one account of its rows.
ReportsHonest == Exited => ErringEarnsNothing /\ ComparisonHolds /\ OneVerdict

\* VariantAggregate.pass_rate: "a variant where no row produced a verdict has no
\* rate at all ... Both now route through nothing_was_measured" (models/experiment.py).
RatesAgree ==
  Exited => \A v \in VariantIds :
    out.variants[v].counts.ungraded > 0 /\ (\A c \in RowsOf(v) : case.rows[c].score = None)
      => PassRate(out.variants[v].counts) = NoRate
=============================================================================
