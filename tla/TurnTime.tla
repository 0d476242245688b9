------------------------------- MODULE TurnTime -------------------------------
(***************************************************************************)
(* The wall clock and the tokens of one turn, from the events of the       *)
(* stream to the four buckets of its record.  A harness publishes its      *)
(* generation windows raw and tiling; tool calls overlap them, the head    *)
(* and the tail; and the collector takes the tools out of all of them      *)
(* once, so that head, generation, tools and tail are the whole turn.      *)
(***************************************************************************)
EXTENDS Integers, Sequences, FiniteSets, FiniteSetsExt

CONSTANTS
  Ticks,     \* bound: the length of a turn
  Flushes,   \* bound: the generation windows of a turn
  Tools,     \* the ids of the main thread's tool calls
  Child      \* the id of a call a sub-agent makes, inside one of Tools

VARIABLES
  case,   \* the family
  at,     \* running, ended, built
  out     \* the events so far, and the record
vars == <<case, at, out>>

None == -1
NoRecord == [startup |-> None, net |-> << >>, tools |-> None, teardown |-> None, booked |-> 0]

\* now: the turn's clock; mark: where the next window opens; messages: windows;
\* calls: what the collector holds of each tool call; used: the reported usage.
Init ==
  /\ case = [of |-> "time"]
  /\ at = "running"
  /\ out = [now |-> 0, mark |-> None, messages |-> << >>, calls |-> [t \in {} |-> 0],
            ended |-> None, used |-> 0, record |-> NoRecord]

Running  == at = "running"
Begun(t) == t \in DOMAIN out.calls
IsOpen(t) == Begun(t) /\ out.calls[t].from # None /\ out.calls[t].open
Span(from, to, open) == [from |-> from, to |-> to, open |-> open]
SetCall(t, c) == [x \in DOMAIN out.calls \cup {t} |-> IF x = t THEN c ELSE out.calls[x]]

Tick ==
  /\ Running /\ out.now < Ticks
  /\ out' = [out EXCEPT !.now = @ + 1]
  /\ UNCHANGED <<case, at>>

\* The first model output opens the first window.
FirstOutput ==
  /\ Running /\ out.mark = None
  /\ out' = [out EXCEPT !.mark = out.now]
  /\ UNCHANGED <<case, at>>

\* close_window: a message's window runs from the previous flush to now; one
\* window may be split into two messages, which then share its bounds.
Raws(span) == {<<span>>} \cup {<<a, span - a>> : a \in 1..(span - 1)}
Message(raw, parent, owns) ==
  [from |-> out.mark, to |-> out.now, raw |-> raw, parent |-> parent, owns |-> owns, tokens |-> 1]

Flush ==
  /\ Running /\ out.mark # None /\ Len(out.messages) < Flushes
  /\ \E raws \in Raws(out.now - out.mark) :
       out' = [out EXCEPT !.messages = @ \o [i \in DOMAIN raws |-> Message(raws[i], None, {})], !.mark = out.now]
  /\ UNCHANGED <<case, at>>

\* A generation of a sub-agent bubbles into the stream, tagged with its parent.
ChildFlush ==
  /\ Running /\ out.mark # None /\ Len(out.messages) < Flushes /\ IsOpen(Child)
  /\ out' = [out EXCEPT !.messages = Append(@, Message(out.now - out.mark, 0, {Child}))]
  /\ UNCHANGED <<case, at>>

ToolStart ==
  /\ Running
  /\ \E t \in Tools \cup {Child} :
       /\ ~ Begun(t)
       /\ t = Child => \E p \in Tools : IsOpen(p)
       /\ out' = [out EXCEPT !.calls = SetCall(t, Span(out.now, None, TRUE))]
  /\ UNCHANGED <<case, at>>

ToolEnd ==
  /\ Running
  /\ \E t \in DOMAIN out.calls :
       /\ IsOpen(t)
       /\ t \in Tools => ~ IsOpen(Child)
       /\ out' = [out EXCEPT !.calls = SetCall(t, Span(out.calls[t].from, out.now, FALSE))]
  /\ UNCHANGED <<case, at>>

\* AgentEnd: a call still open is closed without a time, and the usage the
\* provider billed need not be what the messages say.
AgentEnd ==
  /\ Running
  /\ \E used \in 0..2 : out' = [out EXCEPT !.ended = out.now, !.used = used]
  /\ at' = "ended"
  /\ UNCHANGED case

-----------------------------------------------------------------------------
(* build_turn_record                                                       *)

ChildCalls(ms) == UNION {ms[i].owns : i \in {j \in DOMAIN ms : ms[j].parent # None}}

\* main_thread_tool_spans
MainSpans(ms, calls) == {t \in DOMAIN calls : ~ calls[t].open /\ t \notin ChildCalls(ms)}

\* The ticks of [lo, hi] in which a call of ts was running.
Busy(ts, calls, lo, hi) ==
  {k \in lo..(hi - 1) : \E t \in ts : calls[t].from <= k /\ k < calls[t].to}

\* Mutant: overlapping calls are added up.
SummedMs(ts, calls, lo, hi) == MapThenSumSet(LAMBDA t : Cardinality(Busy({t}, calls, lo, hi)), ts)

\* busy_ms: the union of the spans, clipped to the window.
BusyMs(ts, calls, lo, hi) == Cardinality(Busy(ts, calls, lo, hi))

\* union_ms: over the spans' own extent.
UnionMs(ts, calls) ==
  IF ts = {} THEN None
  ELSE BusyMs(ts, calls, Min({calls[t].from : t \in ts}), Max({calls[t].to : t \in ts}))

\* Main-thread messages of the same bounds share one subtraction.
Group(ms, i) == {j \in DOMAIN ms : ms[j].parent = None /\ ms[j].from = ms[i].from /\ ms[j].to = ms[i].to}
SumOf(S, op(_)) == FoldFunctionOnSet(+, 0, [i \in S |-> op(i)], S)

\* Mutant: every message of a window gives up the tools of the whole window.
NetEach(ms, ts, calls, i) == Max({0, ms[i].raw - BusyMs(ts, calls, ms[i].from, ms[i].to)})

\* subtract_tool_time: the shares of a group; the last takes the remainder.
Net(ms, ts, calls, i) ==
  LET g     == Group(ms, i)
      total == SumOf(g, LAMBDA j : ms[j].raw)
      net   == Max({0, total - BusyMs(ts, calls, ms[i].from, ms[i].to)})
      share(j) == (net * ms[j].raw) \div total
  IN  IF ms[i].parent # None \/ total = 0 THEN ms[i].raw
      ELSE IF i = Max(g) THEN net - SumOf(g \ {i}, share) ELSE share(i)

\* decompose_turn: what lies before the first window and after the last.
Startup(ms, main, ts, calls) ==
  LET first == Min({ms[i].from : i \in main}) IN Max({0, first - BusyMs(ts, calls, 0, first)})
Teardown(ms, main, ts, calls, end) ==
  LET last == Max({ms[i].to : i \in main}) IN Max({0, end - last - BusyMs(ts, calls, last, end)})

\* _reconciled_messages: the residual of the usage, when a usage was reported.
Booked(ms, used) == IF used = 0 THEN 0 ELSE used - SumOf(DOMAIN ms, LAMBDA i : ms[i].tokens)

Record ==
  LET ms    == out.messages
      ts    == MainSpans(ms, out.calls)
      main  == {i \in DOMAIN ms : ms[i].parent = None}
  IN [startup |-> IF main = {} THEN None ELSE Startup(ms, main, ts, out.calls),
      net    |-> [i \in DOMAIN ms |-> Net(ms, ts, out.calls, i)],
      tools  |-> UnionMs(ts, out.calls),
      teardown |-> IF main = {} THEN None ELSE Teardown(ms, main, ts, out.calls, out.ended),
      booked |-> Booked(ms, out.used)]

BuildTurnRecord ==
  /\ at = "ended"
  /\ out' = [out EXCEPT !.record = Record]
  /\ at' = "built"
  /\ UNCHANGED case

Next == case.of = "time" /\ (Tick \/ FirstOutput \/ Flush \/ ChildFlush \/ ToolStart \/ ToolEnd \/ AgentEnd \/ BuildTurnRecord)
Spec == Init /\ [][Next]_vars

-----------------------------------------------------------------------------
Built == case.of = "time" /\ at = "built"
Main  == {i \in DOMAIN out.messages : out.messages[i].parent = None}
Measured(x) == IF x = None THEN 0 ELSE x

\* The four buckets of a turn are disjoint and leave nothing over, however the
\* calls overlap the windows, the ends of the turn and one another, and no
\* bucket is negative (decompose_turn: "head + generation + UNION(tool) + tail
\* is the whole turn"); the transcript's tokens sum to the usage reported.
TurnAccounted ==
  Built =>
    /\ Main # {} =>
         out.record.startup + SumOf(Main, LAMBDA i : out.record.net[i]) + Measured(out.record.tools) + out.record.teardown = out.ended
    /\ \A i \in Main : out.record.net[i] \in 0..out.messages[i].raw
    /\ out.used > 0 => SumOf(DOMAIN out.messages, LAMBDA i : out.messages[i].tokens) + out.record.booked = out.used
=============================================================================
