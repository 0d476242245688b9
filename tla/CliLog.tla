-------------------------------- MODULE CliLog --------------------------------
(***************************************************************************)
(* A recorded tool: the shim that stands for it appends every invocation   *)
(* to a log and answers from rules, and the cli_called criterion counts    *)
(* the invocations of the log that match a pattern.  Both read an argv     *)
(* with the same matcher.  The agent may write the call in many ways, the  *)
(* log may refuse a record, and the log lies where the agent can reach it. *)
(***************************************************************************)
EXTENDS Integers, Sequences, FiniteSets, SequencesExt, Folds

CONSTANTS
  Patterns,   \* criteria: [tool, verbs, positional, preds, valueFlags, ignore, min, max]
  Meanings,   \* what a call says: [tool, words, flags], flags a set of <<name, value>>
  Calls       \* bound: the calls of the agent

VARIABLES
  case,   \* [of, pattern]
  at,     \* running, checked
  out     \* [log, exists, sentinel, ran, removed, lost, score]
vars == <<case, at, out>>

AnyTool == "*"
NoValue == ""

\* Tokens of an argv: a word, --name, --name=value, a cluster of short names,
\* a negative number, and the -- that ends the flags.
Word(w)    == [kind |-> "word", text |-> w]
Long(n)    == [kind |-> "long", text |-> n]
Bound(n, v) == [kind |-> "eq", text |-> n, value |-> v]
Short(cs)  == [kind |-> "short", text |-> cs[1], chars |-> cs]
Number(w)  == [kind |-> "number", text |-> w]
EndOfFlags == [kind |-> "end", text |-> "--"]

-----------------------------------------------------------------------------
(* argv_match                                                              *)

Names(pred)   == {pred.flag} \cup pred.aliases
AllNames(p)   == UNION {Names(q) : q \in p.preds}
ValueFlags(p) == UNION {Names(q) : q \in {r \in p.preds : r.kind \notin {"present", "absent"}}} \cup p.valueFlags
Known(p)      == AllNames(p) \cup p.ignore

\* positional, the flags that were passed, whether -- was seen, and the name of
\* the flag the next token is the value of.
NothingParsed == [positional |-> << >>, flags |-> {}, ended |-> FALSE, wants |-> NoValue]
Note(st, p, name, value) == IF name \in p.ignore THEN st ELSE [st EXCEPT !.flags = @ \cup {<<name, value>>}]
Place(st, w) == [st EXCEPT !.positional = Append(@, w)]

\* Mutant: a switch that is not declared takes the next token.
GreedySwitch(st, p, name) == [st EXCEPT !.wants = name]

\* A declared flag takes the next token, any other name is a switch.
Switch(st, p, name) == IF name \in ValueFlags(p) THEN [st EXCEPT !.wants = name] ELSE Note(st, p, name, NoValue)

\* Mutant: a cluster of short names is one name.
ClusterWhole(st, p, cs) == Note(st, p, cs[1] \o cs[2], NoValue)

\* -rf is -r -f, and -ojson is -o json when -o takes a value.
Cluster(st, p, cs) ==
  IF cs[1] \in ValueFlags(p) THEN Note(st, p, cs[1], cs[2])
  ELSE Note(Note(st, p, cs[1], NoValue), p, cs[2], NoValue)

\* split_flags, one token.
ReadToken(st, p, t) ==
  IF st.wants # NoValue THEN Note([st EXCEPT !.wants = NoValue], p, st.wants, t.text)
  ELSE CASE st.ended \/ t.kind \in {"word", "number"} -> Place(st, t.text)
         [] ~ st.ended /\ t.kind = "end"  -> [st EXCEPT !.ended = TRUE]
         [] ~ st.ended /\ t.kind = "eq"   -> Note(st, p, t.text, t.value)
         [] ~ st.ended /\ t.kind = "long" -> Switch(st, p, t.text)
         [] ~ st.ended /\ t.kind = "short" ->
              IF Len(t.chars) = 1 THEN Switch(st, p, t.text) ELSE Cluster(st, p, t.chars)

SplitFlags(p, argv) ==
  LET st == FoldLeft(LAMBDA s, t : ReadToken(s, p, t), NothingParsed, argv)
  IN  IF st.wants = NoValue THEN st ELSE Note(st, p, st.wants, NoValue)

\* flag_matches over the values of every spelling of a flag.
FlagMatches(pred, flags) ==
  LET values == {f[2] : f \in {g \in flags : g[1] \in Names(pred)}}
  IN  CASE pred.kind = "absent"  -> values = {}
        [] pred.kind = "present" -> values # {}
        [] OTHER                 -> pred.value \in values

\* argv_matches; a verb that matches at all matches in one spelling only.
ArgvMatches(p, argv) ==
  LET st  == SplitFlags(p, argv)
      pos == st.positional
  IN  /\ \E v \in p.verbs : IsPrefix(v \o p.positional, pos)
      /\ \A q \in p.preds : FlagMatches(q, st.flags)

-----------------------------------------------------------------------------
(* The ways to write a call.                                               *)

FlagTokens(f) ==
  IF f[2] # NoValue THEN {<<Long(f[1]), Word(f[2])>>, <<Bound(f[1], f[2])>>}
  ELSE IF f[1] = "yes" THEN {<<Long("yes")>>, <<Short(<<"y">>)>>, <<Short(<<"y", "q">>)>>}
  ELSE {<<Long(f[1])>>}
Worded(words) == [i \in DOMAIN words |-> IF words[i] = "-1" THEN Number("-1") ELSE Word(words[i])]
InsertedAt(argv, i, ts) == SubSeq(argv, 1, i) \o ts \o SubSeq(argv, i + 1, Len(argv))

\* One flag after the other is put in front of a word or at the end; a word may
\* be protected by --.
Renderings(m) ==
  LET bare  == Worded(m.words)
      fs    == SetToSeq(m.flags)
      add(as, f) == UNION { {InsertedAt(a, i, ts) : i \in {j \in 0..Len(a) : j = 0 \/ a[j].kind # "long" \/ a[j].text \in {"yes", "verbose"}}, ts \in FlagTokens(f)} : a \in as }
      flagged == FoldLeft(add, {bare}, fs)
  IN  flagged \cup {InsertedAt(a, Len(a) - 1, <<EndOfFlags>>) : a \in {b \in flagged : b # << >> /\ Len(b) > 1 /\ b[Len(b)].kind = "word" /\ b[Len(b) - 1].kind = "word"}}

Init ==
  /\ case \in [of : {"cli"}, pattern : Patterns]
  /\ at = "running"
  /\ out = [log |-> << >>, exists |-> TRUE, sentinel |-> FALSE, ran |-> << >>,
            removed |-> FALSE, lost |-> FALSE, score |-> 0]

\* Mutant: a record that cannot be written leaves nothing behind.
NoSentinel(o) == o

\* A log write that fails leaves a note beside the log.
WriteRefused(o) == [o EXCEPT !.sentinel = TRUE]

\* What the recorder notes of a call: its argv, and whether its matcher could
\* not be imported or a rule raised.
Faults == {"none", "rules"}
Entry(m, argv, fault) == [tool |-> m.tool, argv |-> argv, fault |-> fault]
Written(o, e) == [o EXCEPT !.log = IF o.exists THEN Append(@, e) ELSE <<e>>, !.exists = TRUE]

\* main of the shim: it answers, appends its record, or fails to.  When neither
\* the record nor the note can be written the record is lost.
Invoke ==
  /\ at = "running" /\ Len(out.ran) < Calls
  /\ \E m \in Meanings, fault \in Faults :
       \E argv \in Renderings(m) :
         LET o == [out EXCEPT !.ran = Append(@, m)] IN
         \/ out' = Written(o, Entry(m, argv, fault))
         \/ fault = "none" /\ out' = WriteRefused(o)
         \/ fault = "none" /\ out' = [o EXCEPT !.lost = TRUE]
  /\ UNCHANGED <<case, at>>

\* The agent removes the log, or spoils a line of it.
RemoveLog ==
  /\ at = "running" /\ out.exists /\ out.log # << >>
  /\ out' = [out EXCEPT !.exists = FALSE, !.log = << >>, !.removed = TRUE]
  /\ UNCHANGED <<case, at>>
SpoilLine ==
  /\ at = "running" /\ out.exists /\ Len(out.log) = 1 /\ out.log[1].argv # << >>
  /\ out' = [out EXCEPT !.log[1].argv = << >>]
  /\ UNCHANGED <<case, at>>

\* _check_impl: the five refusals, then the count.
Mine(e)   == case.pattern.tool \in {AnyTool, e.tool}
Usable(e) == e.argv # << >>
Matching  == {i \in DOMAIN out.log : Usable(out.log[i]) /\ Mine(out.log[i]) /\ ArgvMatches(case.pattern, out.log[i].argv)}
InRange(n) == n >= case.pattern.min /\ n <= case.pattern.max

\* Mutant: a line that cannot be read is passed over.
SpoiledIgnored ==
  ~ out.exists \/ out.sentinel \/ \E i \in DOMAIN out.log : Usable(out.log[i]) /\ Mine(out.log[i]) /\ out.log[i].fault # "none"

Refused ==
  \/ ~ out.exists
  \/ out.sentinel
  \/ \E i \in DOMAIN out.log : Usable(out.log[i]) /\ Mine(out.log[i]) /\ out.log[i].fault # "none"
  \/ \E i \in DOMAIN out.log : ~ Usable(out.log[i])

Check ==
  /\ at = "running"
  /\ out' = [out EXCEPT !.score = IF ~ Refused /\ InRange(Cardinality(Matching)) THEN 1 ELSE 0]
  /\ at' = "checked"
  /\ UNCHANGED case

Next == case.of = "cli" /\ (Invoke \/ RemoveLog \/ SpoilLine \/ Check)

-----------------------------------------------------------------------------
\* What a call means, whatever way it is written.
Denotes(p, m) ==
  /\ p.tool \in {AnyTool, m.tool}
  /\ \E v \in p.verbs : IsPrefix(v \o p.positional, m.words)
  /\ \A q \in p.preds :
       LET values == {f[2] : f \in {g \in m.flags : g[1] \in Names(q)}}
       IN  CASE q.kind = "absent" -> values = {} [] q.kind = "present" -> values # {} [] OTHER -> q.value \in values
Meant == Cardinality({i \in DOMAIN out.ran : Denotes(case.pattern, out.ran[i])})
Checked == case.of = "cli" /\ at = "checked"

\* A criterion over a recorded tool passes only when the calls the agent really
\* made are in its range, whatever way they were written, whatever record was
\* refused and whatever line was spoiled; and it passes then unless something
\* was refused.  Left out are the two ways a record leaves no trace: the log
\* and its note refused at once, and a log the agent removed and began anew.
GuardHonest ==
  Checked /\ ~ out.lost /\ ~ out.removed =>
    /\ out.score = 1 => InRange(Meant)
    /\ ~ Refused => out.score = (IF InRange(Meant) THEN 1 ELSE 0)
=============================================================================
