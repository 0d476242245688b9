------------------------------- MODULE MCRules -------------------------------
(***************************************************************************)
(* The rules that decide on one thing at a time, each a family of bounded  *)
(* cases: a state is one case and how far its evaluation has come, and the *)
(* families share the three variables.                                     *)
(***************************************************************************)
EXTENDS Rules
vars == <<case, at, out>>

MCConfigGroups == {{"prompt", "promptFile"}, {"sdk.a", "sdk.b"}, {"settings", "settings.a"}, {"docker.image", "docker.network"},
                   {"env", "templates"}, {"pre", "post"}, {"persona", "goal"}, {"model", "driver"}}

File(id, loads, skip, rows, bad, misarmed, tags, trials) ==
  [id |-> id, loads |-> loads, skip |-> skip, rows |-> rows, unresolvable |-> bad,
   misarmed |-> misarmed, tags |-> tags, trials |-> trials]
TaskFiles == { File("a", TRUE, FALSE, <<"-">>, {}, FALSE, {"t"}, 1),
               File("b", TRUE, FALSE, <<"r1", "r2">>, {}, FALSE, {"t", "u"}, 1),
               File("c", TRUE, FALSE, <<"r1", "r2">>, {"r2"}, FALSE, {}, 1),
               File("d", TRUE, FALSE, <<"r1", "r1">>, {}, FALSE, {"t"}, 1),
               File("e", TRUE, TRUE, <<"-">>, {}, FALSE, {"u"}, 2),
               File("f", FALSE, FALSE, <<"-">>, {}, FALSE, {"t"}, 1),
               File("a", TRUE, FALSE, <<"-">>, {}, FALSE, {"u"}, 2),
               File("h", TRUE, FALSE, <<"-">>, {}, TRUE, {"t"}, 1) }
MCTaskSuites == [1..2 -> TaskFiles] \cup { <<f, g, h>> : f, g, h \in {t \in TaskFiles : t.id \in {"a", "b", "c"}} }
MCTaskVariants == <<"v", "w">>
MCTaskFilters == {[include |-> {}, exclude |-> {}], [include |-> {"t"}, exclude |-> {}], [include |-> {}, exclude |-> {"u"}]}

Pattern(tool, verbs, positional, preds, min, max) ==
  [tool |-> tool, verbs |-> verbs, positional |-> positional, preds |-> preds,
   valueFlags |-> {"output", "folder"}, ignore |-> {"output"}, min |-> min, max |-> max]
Yes(kind) == [flag |-> "yes", aliases |-> {"y"}, kind |-> kind, value |-> ""]
Meaning(tool, words, flags) == [tool |-> tool, words |-> words, flags |-> flags]
Cli == INSTANCE CliLog
  WITH Patterns <- { Pattern("uip", {<<"delete">>, <<"remove">>}, <<"p1">>, {}, 0, 0),
                     Pattern("*", {<<"delete">>}, << >>, {Yes("present")}, 1, 9),
                     Pattern("uip", {<<"delete">>}, <<"-1">>, {Yes("absent")}, 1, 1),
                     Pattern("uip", {<<"delete">>}, << >>, {[flag |-> "folder", aliases |-> {}, kind |-> "equals", value |-> "p1"]}, 0, 0) },
       Meanings <- { Meaning("uip", <<"delete", "p1">>, {<<"yes", "">>, <<"output", "json">>}),
                     Meaning("uip", <<"remove", "p1">>, {<<"verbose", "">>}),
                     Meaning("git", <<"delete", "p1">>, {}),
                     Meaning("uip", <<"delete", "-1">>, {<<"folder", "p1">>}),
                     Meaning("uip", <<"list", "delete">>, {<<"yes", "">>}) },
       Calls <- 2

MCSandboxConfigs ==
  [sources : {<<{"app"}>>, <<{"app", "data"}, {"app", "mocks/uip"}>>, <<{"app", "recorder/old"}>>},
   mocks : BOOLEAN, record : BOOLEAN, venv : BOOLEAN, packages : BOOLEAN, node : BOOLEAN, preserve : {"move", "capture", "none"}]
MCSandboxFrom == <<"source1", "source2">>

None == -1
Turn(iteration, generated, usage, cost) == [iteration |-> iteration, generated |-> generated, usage |-> usage, cost |-> cost]
Turns == {Turn(i, g, "tokens", c) : i \in {1, 2}, g \in BOOLEAN, c \in {None, 5}} \cup {Turn(1, FALSE, "none", None), Turn(1, TRUE, "empty", None)}
Call(iteration, cost, tokens) == [loads |-> TRUE, shape |-> TRUE, ours |-> TRUE, iteration |-> iteration, cost |-> cost, tokens |-> tokens]
Calls == {Call(1, 2, TRUE), Call(1, None, TRUE), Call(1, None, FALSE), Call(2, 3, TRUE), Call(3, 4, TRUE),
          [Call(1, 7, TRUE) EXCEPT !.ours = FALSE], [Call(1, 7, TRUE) EXCEPT !.loads = FALSE], [Call(2, 7, TRUE) EXCEPT !.shape = FALSE]}
MCCostTurns ==
  [1..2 -> Turns] \cup { <<Turn(1, TRUE, "tokens", 5), a, b>> :
                           a, b \in {Turn(1, TRUE, "tokens", None), Turn(1, FALSE, "tokens", 5), Turn(2, TRUE, "tokens", 5)} }
MCCostLogs == {<< >>} \cup [1..2 -> Calls] \cup {<<Call(1, 2, TRUE), Call(1, None, FALSE), c>> : c \in Calls}
MCCostJudges == {<< >>, <<[tokens |-> TRUE, cost |-> None], [tokens |-> TRUE, cost |-> 1]>>}
MCCostBuiltIn == [m \in {"opus"} |-> 5]
MCCostBatches == {[m \in {"opus", "new"} |-> 5], [m \in {"new", "other"} |-> 5], [m \in {"new"} |-> 6],
                  [m \in {"other", "opus"} |-> IF m = "opus" THEN 6 ELSE 7]}
MCCostSpellings == {<<"opus">>, <<"bedrock/converse/", "eu.", "anthropic.", "opus">>, <<"us.", "anthropic.", "opus">>,
                    <<"openrouter/", "new">>, <<"new">>, <<"other">>}

Ran(tool, ok, hit, skills) == [tool |-> tool, ok |-> ok, hit |-> hit, skills |-> skills]
Counts(min, max, requireSuccess) == [type |-> "commands", tool |-> "Bash", min |-> min, max |-> max, requireSuccess |-> requireSuccess, skill |-> "s", expected |-> 0]
Lengths == {1, 2, 3, 4, 5, 7, 9}
Ends(l) == LET sum[n \in 0..Len(l)] == IF n = 0 THEN 0 ELSE sum[n - 1] + l[n] IN [i \in DOMAIN l |-> sum[i]]
MCTextEnds ==
  {Ends(l) : l \in {l \in UNION {[1..n -> Lengths \cup {0}] : n \in 1..4} : \A i \in 1..(Len(l) - 1) : l[i] # 0}}
MCTextScripts == {<<"uip">>, <<"uip", "list">>, <<"bash", "-c">>}
MCTextCommands == {Ran("Bash", ok, hit, sk) : ok \in BOOLEAN, hit \in BOOLEAN, sk \in {{}, {"s"}, {"s", "d"}}} \cup {Ran("Read", TRUE, TRUE, {"d"})}
MCTextCriteria == {Counts(b[1], b[2], rs) : b \in {<<0, None>>, <<1, None>>, <<2, None>>, <<0, 0>>, <<1, 1>>, <<1, 2>>}, rs \in BOOLEAN}
                  \cup {[Counts(0, 0, FALSE) EXCEPT !.type = "skill", !.expected = e] : e \in {"s", "d"}}
                  \cup {[Counts(0, 0, FALSE) EXCEPT !.type = "efficiency", !.expected = 2]}

Regex(word, mustMatch, compiles) == [word |-> word, mustMatch |-> mustMatch, compiles |-> compiles]
Regexes == {Regex("a", TRUE, TRUE), Regex("b", FALSE, TRUE), Regex("a", TRUE, FALSE)}
Includes == {{}, {"a"}, {"a", "b"}}
Excludes == {{}, {"b"}, {"b", "c"}}
MCCheckedCriteria == [type : {"file_exists"}]
  \cup [type : {"file_contains"}, includes : Includes, excludes : Excludes]
  \cup [type : {"file_matches_regex"}, pattern : Regexes]
  \cup [type : {"file_check"}, includes : Includes, excludes : Excludes, patterns : {<< >>} \cup [1..1 -> Regexes] \cup [1..3 -> Regexes]]
  \cup [type : {"json_check"}, schema : {"none", "holds", "fails", "missing", "malformed"}, assertions : UNION {[1..n -> {"holds", "fails", "raises"}] : n \in 0..2}]
  \cup [type : {"classification_match"}, expected : {"yes", "no", "(none)"}, allowed : {{"yes", "no"}}, caseSensitive : BOOLEAN]
  \cup [type : {"reference_comparison"}, similarity : {None, 0, 6, 12}]
  \cup [type : {"run_command"}, fromStdout : BOOLEAN]
  \cup [type : {"uipath_eval"}, results : {[e \in {"x"} |-> <<12, None>>], [e \in {"x", "y"} |-> IF e = "x" THEN <<12>> ELSE <<0, 6>>], [e \in {} |-> << >>]},
        thresholds : {[m \in {} |-> 0], [m \in {"x", "*"} |-> 6], [m \in {"y"} |-> 12]}]
MCCheckedFiles ==
  [present : {TRUE}, decodes : {TRUE}, words : SUBSET {"a", "b"}, json : BOOLEAN, label : {"yes", "Yes", "", "maybe"}]
  \cup [present : BOOLEAN, decodes : {FALSE}, words : {{}}, json : {FALSE}, label : {""}]
MCCheckedOutcomes ==
  [exit : {"expected", "other"}, first : {"", "nan", "text", "below", "half", "above"}, expected : {"none", "matches", "differs"}]

MCReportedCells == {<<"t1", "A", 0>>, <<"t1", "A", 1>>, <<"t1", "B", 0>>, <<"t2", "A", 0>>}
MCReportedVariants == <<"A", "B">>

Init == \/ Config!Init \/ Plan!Init \/ Time!Init \/ Cli!Init \/ Tree!Init
        \/ Retry!Init \/ Money!Init \/ Text!Init \/ Sandboxed!Init \/ Report!Init
Next == \/ Config!Next \/ Plan!Next \/ Time!Next \/ Cli!Next \/ Tree!Next
        \/ Retry!Next \/ Money!Next \/ Text!Next \/ Sandboxed!Next \/ Report!Next
Spec == Init /\ [][Next]_vars

\* A guard on recorded calls is never passed by a log that is not whole.
GuardHonest == Cli!GuardHonest

\* A judge without a price makes the bill incomplete, as its warning says.
\* No run: the code does not keep it (README).
JudgeGapTold == Money!JudgeGapTold

\* The variant's pass rate is absent where the run's is, as its docstring says.
RatesAgree == Report!RatesAgree
=============================================================================
