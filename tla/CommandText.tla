----------------------------- MODULE CommandText -----------------------------
(***************************************************************************)
(* The criteria that read what the agent ran.  The text of a command is    *)
(* searched in windows of bounded length, raw and with its quoting and its *)
(* shell wrapper taken off; and the commands that match are counted, live  *)
(* while the agent works and once more at the end.                         *)
(***************************************************************************)
EXTENDS Integers, Sequences, FiniteSets

CONSTANTS
  Cap,        \* _MAX_PATTERN_SEARCH_LEN
  Overlap,    \* _WINDOW_OVERLAP, at most half the cap
  Texts,      \* command texts: where each of their logical lines ends
  Scripts,    \* the scripts that are spelt in several ways: sequences of words
  Commands,   \* [tool, ok, hit, skills]: what a criterion sees of a command
  Criteria,   \* the criteria that read commands
  MaxRun      \* bound: commands an agent runs

VARIABLES
  case,   \* a text, a spelling of a command, or a criterion and its threshold
  at,     \* scanning, spelt, split, running, ended, done
  out     \* the windows so far, the tokens, or the commands run
vars == <<case, at, out>>

None == -1

-----------------------------------------------------------------------------
(* Spellings: a script run bare, under a shell, quoted or joined.          *)

Shells == {"bash", "zsh"}
CommandFlags == {"-c", "-lc"}

\* A token is a word, or a quoted script that shlex leaves as one token.
Word(w) == [quoted |-> FALSE, words |-> <<w>>]
Quoted(ws) == [quoted |-> TRUE, words |-> ws]
Unquoted(ws) == [i \in DOMAIN ws |-> Word(ws[i])]

Spellings(script) ==
  {Unquoted(script)} \cup
  { <<Word(sh)>> \o flags \o body :
      sh \in Shells,
      flags \in {<<Word("-c")>>, <<Word("-lc")>>, <<Word("-l"), Word("-c")>>},
      body \in {<<Quoted(script)>>, Unquoted(script)} }

Init ==
  \/ /\ case \in [of : {"window"}, ends : Texts]
     /\ at = "scanning"
     /\ out = [line |-> 1, start |-> 0, end |-> 0, windows |-> {}]
  \/ /\ \E script \in Scripts : case \in [of : {"spelling"}, script : {script}, tokens : Spellings(script), parses : BOOLEAN]
     /\ at = "spelt"
     /\ out = [haystack |-> << >>]
  \/ /\ case \in [of : {"live"}, c : Criteria]
     /\ at = "running"
     /\ out = [commands |-> << >>, live |-> "undecided", score |-> None]

-----------------------------------------------------------------------------
(* _search_windows, one logical line at a time.                            *)

Total == case.ends[Len(case.ends)]
LineStart(i) == IF i = 1 THEN 0 ELSE case.ends[i - 1]
Fits == Total <= Cap

\* Mutant: the pieces of a long line do not overlap.
PiecesApart(start, lineEnd) ==
  {<<start + (k - 1) * Cap, start + k * Cap>> : k \in 1..((lineEnd - start - 1) \div Cap)}

\* A line longer than the cap is cut into pieces that overlap; what is left of
\* it then fits.
Step == Cap - Overlap
Cuts(n) == IF n <= Cap THEN 0 ELSE (n - Cap + Step - 1) \div Step
Pieces(start, lineEnd) ==
  {<<start + (k - 1) * Step, start + (k - 1) * Step + Cap>> : k \in 1..Cuts(lineEnd - start)}

\* The window that is being filled, once it holds something.
Filled == IF out.end > out.start THEN {<<out.start, out.end>>} ELSE {}

ScanLine ==
  /\ at = "scanning" /\ ~ Fits /\ out.line <= Len(case.ends)
  /\ LET lineEnd == case.ends[out.line]
         full == lineEnd - out.start > Cap
         from == IF out.end > out.start THEN out.end ELSE out.start
     IN out' = IF full
               THEN [out EXCEPT !.line = @ + 1, !.start = from + Cuts(lineEnd - from) * Step, !.end = lineEnd,
                                !.windows = @ \cup Filled \cup Pieces(from, lineEnd)]
               ELSE [out EXCEPT !.line = @ + 1, !.end = lineEnd]
  /\ UNCHANGED <<case, at>>

\* The leading window comes first; the window that starts at 0 lies within it.
ScanDone ==
  /\ at = "scanning"
  /\ Fits \/ out.line > Len(case.ends)
  /\ out' = [out EXCEPT !.windows = IF Fits THEN {<<0, Total>>}
                                    ELSE {<<0, Cap>>} \cup {w \in @ \cup Filled : w[1] > 0}]
  /\ at' = "done"
  /\ UNCHANGED case

-----------------------------------------------------------------------------
(* _normalize_shell                                                        *)

Plain(t) == IF t.quoted THEN "" ELSE t.words[1]
IsShell(t) == Plain(t) \in Shells
IsCommandFlag(t) == Plain(t) \in CommandFlags
IsFlag(t) == Plain(t) \in CommandFlags \cup {"-l"}

\* The first flag that introduces the command string, 0 without one: the scan
\* ends at the first positional, and a flag needs a token after it.
FlagAt(tokens) ==
  LET hits == {i \in 2..(Len(tokens) - 1) : IsCommandFlag(tokens[i]) /\ \A j \in 2..(i - 1) : IsFlag(tokens[j])}
  IN IF hits = {} THEN 0 ELSE CHOOSE i \in hits : \A j \in hits : i <= j

\* The words of the tokens, one after the other.
Joined(tokens) ==
  LET words[n \in 0..Len(tokens)] == IF n = 0 THEN << >> ELSE words[n - 1] \o tokens[n].words
  IN words[Len(tokens)]

\* Mutant: what follows the flag is taken as it is spelt.
WrapperKept(tokens) == Joined(tokens)

Unwrapped(tokens) ==
  LET i == IF IsShell(tokens[1]) THEN FlagAt(tokens) ELSE 0
  IN Joined(SubSeq(tokens, i + 1, Len(tokens)))

\* Text that does not parse keeps its raw form only.
Normalize ==
  /\ at = "spelt"
  /\ out' = [haystack |-> IF case.parses THEN Unwrapped(case.tokens) ELSE << >>]
  /\ at' = "split"
  /\ UNCHANGED case

-----------------------------------------------------------------------------
(* command_executed, skill_triggered and commands_efficiency               *)

Full == 12
MatchCount(c, cmds) ==
  Cardinality({i \in DOMAIN cmds : /\ cmds[i].tool = c.tool
                                   /\ c.requireSuccess => cmds[i].ok
                                   /\ cmds[i].hit})
Engaged(c, cmds) == \E i \in DOMAIN cmds : c.skill \in cmds[i].skills

SkillScore(c, cmds) == IF Engaged(c, cmds) = (c.expected = c.skill) THEN Full ELSE 0
EfficiencyScore(c, cmds) == IF cmds = << >> THEN 0 ELSE (Full * c.expected) \div (IF Len(cmds) > c.expected THEN Len(cmds) ELSE c.expected)

\* With an upper bound the criterion is met or not; without one it has partial credit.
CommandsScore(c, cmds) ==
  LET n == MatchCount(c, cmds)
  IN IF c.max # None THEN IF c.min <= n /\ n <= c.max THEN Full ELSE 0
     ELSE IF c.min <= n THEN Full ELSE (Full * n) \div c.min

\* The final score.
Score(c, cmds) ==
  CASE c.type = "skill" -> SkillScore(c, cmds)
    [] c.type = "efficiency" -> EfficiencyScore(c, cmds)
    [] c.type = "commands" -> CommandsScore(c, cmds)

\* Seen once, a skill stays seen.
SkillVerdict(c, cmds) == IF ~ Engaged(c, cmds) THEN "undecided" ELSE IF c.expected = c.skill THEN "pass" ELSE "fail"

\* Mutant: a criterion with an upper bound passes live as well.
PassesWithinBounds(c, cmds) ==
  IF c.min > 0 /\ MatchCount(c, cmds) >= c.min THEN "pass" ELSE "undecided"

CommandsVerdict(c, cmds) ==
  LET n == MatchCount(c, cmds)
  IN IF c.max # None THEN IF n > c.max THEN "fail" ELSE "undecided"
     ELSE IF c.min > 0 /\ n >= c.min THEN "pass" ELSE "undecided"

\* live_verdict: only what no later command can change.
LiveVerdict(c, cmds) ==
  CASE c.type = "skill" -> SkillVerdict(c, cmds)
    [] c.type = "commands" -> CommandsVerdict(c, cmds)
    [] OTHER -> "undecided"

\* The first verdict that decides is the one the watcher acts on.
RunCommand ==
  /\ at = "running" /\ Len(out.commands) < MaxRun
  /\ \E cmd \in Commands :
       LET cmds == Append(out.commands, cmd)
       IN out' = [out EXCEPT !.commands = cmds, !.live = IF @ = "undecided" THEN LiveVerdict(case.c, cmds) ELSE @]
  /\ UNCHANGED <<case, at>>

FinalCheck ==
  /\ at = "running"
  /\ out' = [out EXCEPT !.score = Score(case.c, out.commands)]
  /\ at' = "ended"
  /\ UNCHANGED case

Next == \/ case.of = "window" /\ (ScanLine \/ ScanDone)
        \/ case.of = "spelling" /\ Normalize
        \/ case.of = "live" /\ (RunCommand \/ FinalCheck)

Spec == Init /\ [][Next]_vars

-----------------------------------------------------------------------------
\* What is not to be cut in two: what lies in the leading window, in a line the
\* cap holds, or in a longer line over at most the overlap.
Unsplit(from, to) ==
  \/ to <= Cap
  \/ \E i \in DOMAIN case.ends :
       /\ LineStart(i) <= from /\ to <= case.ends[i]
       /\ to - from <= Overlap \/ case.ends[i] - LineStart(i) <= Cap

\* No window is longer than the cap, what is not to be cut in two is in one of
\* them, and nothing is searched in more than three.
WindowsCover ==
  /\ \A w \in out.windows : w[2] - w[1] <= Cap
  /\ \A from \in 0..(Total - 1), to \in 1..Total :
       from < to /\ Unsplit(from, to) => \E w \in out.windows : w[1] <= from /\ to <= w[2]
  /\ \A p \in 0..(Total - 1) : Cardinality({w \in out.windows : w[1] <= p /\ p < w[2]}) <= 3

\* A criterion sees the same commands however the text was split, quoted or
\* wrapped ("regardless of how the agent happened to quote an argument"), and a
\* verdict that stopped the agent early is the verdict of the finished run.
CommandsSeen ==
  /\ case.of = "window" /\ at = "done" => WindowsCover
  /\ case.of = "spelling" /\ at = "split" => out.haystack \in {case.script, << >>} /\ (case.parses => out.haystack # << >>)
  /\ case.of = "live" /\ at = "ended" =>
       /\ out.live = "pass" => out.score = Full
       /\ out.live = "fail" => out.score = 0
=============================================================================
