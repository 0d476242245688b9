----------------------------- MODULE FileCriteria -----------------------------
(***************************************************************************)
(* The criteria that read the sandbox: one file and one criterion, the     *)
(* score that its checker gives, and what becomes of an exception in it.   *)
(* Scores are in twelfths.                                                 *)
(***************************************************************************)
EXTENDS Integers, Sequences, FiniteSets, FiniteSetsExt, SequencesExt

CONSTANTS
  Files,       \* [present, decodes, words, json, label]: what lies at the criterion's path
  References,  \* the state of the reference: none, escapes, unreadable, empty, there
  Outcomes,    \* [exit, first, expected]: what a command of a criterion came to
  Criteria     \* the criteria, by type

VARIABLES
  case,   \* the criterion, the file, the reference and the command's outcome
  at,     \* checking, raised, scored, escalated
  out     \* the result
vars == <<case, at, out>>

Full == 12
None == -1
Share(n, d) == (Full * n) \div d
Mean(scores) == FoldSeq(+, 0, scores) \div Len(scores)
Count(seq, Test(_)) == Cardinality({i \in DOMAIN seq : Test(seq[i])})

NoOutcome == [exit |-> "other", first |-> "", expected |-> "none"]
NoResult == [score |-> None, error |-> FALSE, raised |-> "none", label |-> "none"]
Result(score, error) == [NoResult EXCEPT !.score = score, !.error = error]
Raise(kind) == [NoResult EXCEPT !.raised = kind]

\* What a criterion does not look at is held at one value.
ReferencesFor(c) == IF c.type = "reference_comparison" THEN References ELSE {"none"}
OutcomesFor(c) == IF c.type \in {"run_command", "uipath_eval"} THEN Outcomes ELSE {NoOutcome}

Init ==
  /\ \E c \in Criteria :
       case \in [of : {"file"}, c : {c}, file : Files, reference : ReferencesFor(c), outcome : OutcomesFor(c)]
  /\ at = "checking"
  /\ out = NoResult

Missing == Result(0, TRUE)

-----------------------------------------------------------------------------
(* The checkers: a result, or the exception that left them.                *)

Read(f, result) == IF ~ f.present THEN Missing ELSE IF ~ f.decodes THEN Raise("other") ELSE result

FileExists(c, f) == Result(IF f.present THEN Full ELSE 0, FALSE)

IncludesScore(c, f) == Share(Cardinality(c.includes \cap f.words), Cardinality(c.includes))
ExcludesScore(c, f) == Share(Cardinality(c.excludes \ f.words), Cardinality(c.excludes))
Active(c, f) == (IF c.includes # {} THEN <<IncludesScore(c, f)>> ELSE << >>) \o
                (IF c.excludes # {} THEN <<ExcludesScore(c, f)>> ELSE << >>)

FileContains(c, f) == Read(f, Result(IF Active(c, f) = << >> THEN Full ELSE Mean(Active(c, f)), FALSE))

\* A pattern holds when it is found, or when it must not be and is not; one that
\* does not compile holds never.
Holds(p, f) == p.compiles /\ (p.word \in f.words) = p.mustMatch

FileMatchesRegex(c, f) ==
  Read(f, IF ~ c.pattern.compiles THEN Missing ELSE Result(IF Holds(c.pattern, f) THEN Full ELSE 0, FALSE))

\* Mutant: a pattern that does not compile is left out of the mean.
PatternsThatCompile(c, f) ==
  LET ps == SelectSeq(c.patterns, LAMBDA p : p.compiles)
  IN IF ps = << >> THEN Full ELSE Share(Count(ps, LAMBDA p : Holds(p, f)), Len(ps))

PatternsScore(c, f) == Share(Count(c.patterns, LAMBDA p : Holds(p, f)), Len(c.patterns))

\* Existence alone is asked without reading the file.
FileCheck(c, f) ==
  LET parts == Active(c, f) \o (IF c.patterns # << >> THEN <<PatternsScore(c, f)>> ELSE << >>)
  IN IF f.present /\ c.includes = {} /\ c.excludes = {} /\ c.patterns = << >> THEN Result(Full, FALSE)
     ELSE Read(f, Result(Mean(parts), FALSE))

\* The schema gates the assertions; an assertion that raises has failed.
JsonCheck(c, f) ==
  LET schema == IF c.schema = "none" THEN << >> ELSE <<IF c.schema = "holds" THEN Full ELSE 0>>
      found  == IF c.assertions = << >> THEN << >> ELSE <<Share(Count(c.assertions, LAMBDA a : a = "holds"), Len(c.assertions))>>
  IN Read(f, IF ~ f.json THEN Missing
             ELSE IF schema \o found = << >> THEN Result(Full, FALSE)
             ELSE IF schema = <<0>> THEN Result(0, FALSE)
             ELSE Result(Mean(schema \o found), FALSE))

\* _canonicalize: the allowed label that a text is, up to case if the task says so.
Canonical(c, text) ==
  IF ~ c.caseSensitive /\ text \in {"yes", "Yes"} THEN "yes" ELSE text
Observed(c, f) ==
  IF ~ f.present \/ f.label = "" THEN "(none)"
  ELSE LET seen == Canonical(c, f.label) IN IF seen \in c.allowed \cup {"(none)"} THEN seen ELSE "(other)"

ClassificationMatch(c, f) ==
  IF f.present /\ ~ f.decodes THEN Raise("other")
  ELSE [Result(IF Observed(c, f) = Canonical(c, c.expected) THEN Full ELSE 0, FALSE) EXCEPT !.label = Observed(c, f)]

\* Mutant: a reference that cannot be read is a criterion that scored nothing.
ReferenceScoresZero(c, f, reference) == IF reference # "there" THEN Missing ELSE Read(f, Result(c.similarity, FALSE))

\* A reference that is not what the task says is the task's mistake; a file of
\* the agent that is missing or cannot be compared is the agent's.
ReferenceComparison(c, f, reference) ==
  IF reference = "none" THEN Missing
  ELSE IF reference # "there" THEN Raise("misuse")
  ELSE IF ~ f.present \/ ~ f.decodes \/ c.similarity = None THEN Missing
  ELSE Result(c.similarity, FALSE)

\* The score on the first line of the output, clamped.
FromStdout(o) ==
  IF o.exit # "expected" \/ o.first \in {"", "nan", "text"} THEN Missing
  ELSE Result(CASE o.first = "below" -> 0 [] o.first = "half" -> 6 [] o.first = "above" -> Full, FALSE)

RunCommand(c, o) ==
  IF c.fromStdout THEN FromStdout(o)
  ELSE Result(IF o.exit = "expected" /\ o.expected \in {"none", "matches"} THEN Full ELSE 0, FALSE)

\* _calculate_metrics: an evaluator's mean, a score that is no number counting as 0.
EvaluatorMean(scores) == Mean([i \in DOMAIN scores |-> IF scores[i] = None THEN 0 ELSE scores[i]])
Metrics(c) ==
  LET means == [e \in DOMAIN c.results |-> EvaluatorMean(c.results[e])]
      macro == IF DOMAIN means = {} THEN 0 ELSE MapThenSumSet(LAMBDA e : means[e], DOMAIN means) \div Cardinality(DOMAIN means)
  IN [m \in DOMAIN means \cup {"*"} |-> IF m = "*" THEN macro ELSE means[m]]

UiPathEval(c, f, o) ==
  LET met == {m \in DOMAIN c.thresholds : m \in DOMAIN Metrics(c) /\ Metrics(c)[m] >= c.thresholds[m]}
  IN IF o.exit # "expected" \/ ~ f.present \/ ~ f.decodes \/ ~ f.json THEN Result(0, FALSE)
     ELSE IF DOMAIN c.thresholds = {} THEN Result(Full, FALSE)
     ELSE Result(Share(Cardinality(met), Cardinality(DOMAIN c.thresholds)), FALSE)

-----------------------------------------------------------------------------
(* check, and the wrapper around it                                        *)

Checked(c, f) ==
  CASE c.type = "file_exists" -> FileExists(c, f)
    [] c.type = "file_contains" -> FileContains(c, f)
    [] c.type = "file_matches_regex" -> FileMatchesRegex(c, f)
    [] c.type = "file_check" -> FileCheck(c, f)
    [] c.type = "json_check" -> JsonCheck(c, f)
    [] c.type = "classification_match" -> ClassificationMatch(c, f)
    [] c.type = "reference_comparison" -> ReferenceComparison(c, f, case.reference)
    [] c.type = "run_command" -> RunCommand(c, case.outcome)
    [] c.type = "uipath_eval" -> UiPathEval(c, f, case.outcome)

Check ==
  /\ at = "checking"
  /\ out' = Checked(case.c, case.file)
  /\ at' = IF out'.raised = "none" THEN "scored" ELSE "raised"
  /\ UNCHANGED case

\* handle_criterion_errors: a misuse goes on up, the rest is a failed result.
Escalate == at = "raised" /\ out.raised = "misuse" /\ at' = "escalated" /\ UNCHANGED <<case, out>>
Capture  == at = "raised" /\ out.raised # "misuse" /\ at' = "scored" /\ out' = Missing /\ UNCHANGED case

Next == case.of = "file" /\ (Check \/ Escalate \/ Capture)
Spec == Init /\ [][Next]_vars

-----------------------------------------------------------------------------
\* What a criterion demands of the sandbox, said without arithmetic.
Demanded(c, f) ==
  CASE c.type = "file_exists" -> f.present
    [] c.type = "file_contains" -> f.present /\ f.decodes /\ c.includes \subseteq f.words /\ c.excludes \cap f.words = {}
    [] c.type = "file_matches_regex" -> f.present /\ f.decodes /\ Holds(c.pattern, f)
    [] c.type = "file_check" ->
         /\ f.present
         /\ c.includes \subseteq f.words /\ c.excludes \cap f.words = {}
         /\ \A i \in DOMAIN c.patterns : Holds(c.patterns[i], f)
         /\ c.includes \cup c.excludes # {} \/ c.patterns # << >> => f.decodes
    [] c.type = "json_check" -> /\ f.present /\ f.decodes /\ f.json /\ c.schema \in {"none", "holds"}
                                /\ \A i \in DOMAIN c.assertions : c.assertions[i] = "holds"
    [] c.type = "classification_match" -> ~ (f.present /\ ~ f.decodes) /\ Observed(c, f) = Canonical(c, c.expected)
    [] c.type = "reference_comparison" -> case.reference = "there" /\ f.present /\ f.decodes /\ c.similarity = Full
    [] c.type = "run_command" -> /\ case.outcome.exit = "expected"
                                 /\ IF c.fromStdout THEN case.outcome.first = "above" ELSE case.outcome.expected \in {"none", "matches"}
    [] c.type = "uipath_eval" -> /\ case.outcome.exit = "expected" /\ f.present /\ f.decodes /\ f.json
                                 /\ \A m \in DOMAIN c.thresholds : m \in DOMAIN Metrics(c) /\ Metrics(c)[m] >= c.thresholds[m]

\* A criterion gives full marks exactly when all that it demands holds; what is
\* missing, unreadable or malformed on the agent's side scores and never stops the
\* row, a broken reference of the task's stops the row and never scores ("the
\* agent-side failures further down deliberately do the opposite"); and a check
\* that two criteria can express scores the same in both.
CriterionHonest ==
  case.of = "file" =>
    /\ at = "scored" => /\ out.score \in 0..Full
                        /\ out.score = Full <=> Demanded(case.c, case.file)
                        /\ out.error => out.score = 0
                        /\ case.c.type = "reference_comparison" => case.reference \in {"none", "there"}
    /\ at = "escalated" => case.c.type = "reference_comparison" /\ case.reference \notin {"none", "there"}
    /\ at = "scored" /\ case.c.type = "file_check" /\ case.c.patterns = << >> /\ case.file.decodes =>
         out.score = FileContains(case.c, case.file).score
=============================================================================
