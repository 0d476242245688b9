------------------------------- MODULE TaskList -------------------------------
(***************************************************************************)
(* The list of runs of a command: every task file is loaded, its dataset   *)
(* expanded to one task per row, each row resolved for every variant and   *)
(* fanned out into replicates.  A file whose resolution fails is dropped   *)
(* as a whole and reported; tags filter what is left, equal keys refuse    *)
(* the command, and the list is sorted so that the first replicates of     *)
(* all tasks run first.                                                    *)
(***************************************************************************)
EXTENDS Integers, Sequences, FiniteSets

CONSTANTS
  Suites,     \* sequences of task files
  Variants,   \* the variants of the experiment, in their order
  Repeats,    \* the values of repeats to enumerate
  Filters     \* the tag filters: [include, exclude]

VARIABLES
  case,   \* [files, repeats, filter, skips, sample]
  at,     \* where the resolution is
  out     \* [file, row, variant, buffer, resolved, skipped, errors, attempted]
vars == <<case, at, out>>

\* A task file: its id, whether it loads, whether it says skip, the ids of its
\* dataset's rows, the rows no variant can be resolved for, whether its early
\* stop is misconfigured, its tags, and the trials of its simulation.
NoSample == 0

Init ==
  /\ case \in [of : {"tasks"}, files : Suites, repeats : Repeats, filter : Filters,
               skips : BOOLEAN, sample : {NoSample, 1}]
  /\ at = "load"
  /\ out = [file |-> 1, rows |-> << >>, row |-> 1, variant |-> 1, buffer |-> << >>,
            resolved |-> << >>, skipped |-> {}, errors |-> {}, attempted |-> 0]

File == case.files[out.file]
NextFile(o) == [o EXCEPT !.file = @ + 1, !.rows = << >>, !.row = 1, !.variant = 1, !.buffer = << >>]
MoreFiles == at = "load" /\ out.file <= Len(case.files)

Members(s) == {s[i] : i \in DOMAIN s}

\* load_task fails, or expand_dataset: no rows, or two rows of the same id
\* among those that were drawn.
Unusable(rows) == File.loads = FALSE \/ Len(rows) = 0 \/ Cardinality(Members(rows)) < Len(rows)

\* --sample draws that many rows of a larger dataset, in the order of the draw.
Drawn(rows) ==
  IF case.sample # NoSample /\ case.sample < Len(rows)
  THEN { [i \in 1..case.sample |-> rows[p[i]]] : p \in {q \in [1..case.sample -> DOMAIN rows] : \A i, j \in 1..case.sample : i # j => q[i] # q[j]} }
  ELSE {rows}

SkipQuarantined ==
  /\ MoreFiles /\ File.loads /\ File.skip /\ ~ case.skips
  /\ out' = NextFile([out EXCEPT !.skipped = @ \cup {out.file}])
  /\ UNCHANGED <<case, at>>

LoadFile ==
  /\ MoreFiles /\ ~ (File.loads /\ File.skip /\ ~ case.skips)
  /\ \E rows \in Drawn(File.rows) :
       IF Unusable(rows)
       THEN /\ out' = NextFile([out EXCEPT !.skipped = @ \cup {out.file}])
            /\ at' = "load"
       ELSE /\ out' = [out EXCEPT !.rows = rows, !.attempted = @ + 1]
            /\ at' = "resolve"
  /\ UNCHANGED case

\* One entry per replicate: the trials of a simulation before the repeats.
Copies(t) == IF t.trials > 1 THEN t.trials ELSE case.repeats
Entry(rep) ==
  [file |-> out.file, id |-> <<File.id, out.rows[out.row]>>, variant |-> Variants[out.variant], rep |-> rep, tags |-> File.tags]

ResolveOne ==
  /\ at = "resolve" /\ ~ File.misarmed
  /\ out.rows[out.row] \notin File.unresolvable
  /\ LET b == out.buffer \o [r \in 1..Copies(File) |-> Entry(r - 1)] IN
     IF out.variant < Len(Variants) THEN out' = [out EXCEPT !.buffer = b, !.variant = @ + 1] /\ at' = at
     ELSE IF out.row < Len(out.rows) THEN out' = [out EXCEPT !.buffer = b, !.row = @ + 1, !.variant = 1] /\ at' = at
     ELSE out' = NextFile([out EXCEPT !.resolved = @ \o b]) /\ at' = "load"
  /\ UNCHANGED case

\* Mutant: the entries that were resolved before the failure are kept.
PartKept(o) == NextFile([o EXCEPT !.errors = @ \cup {o.file}, !.resolved = @ \o o.buffer])

\* The buffer of a file goes with its error.
Discarded(o) == NextFile([o EXCEPT !.errors = @ \cup {o.file}])

ResolutionFails ==
  /\ at = "resolve" /\ out.rows[out.row] \in File.unresolvable
  /\ out' = Discarded(out)
  /\ at' = "load"
  /\ UNCHANGED case

\* EarlyStopConfigError is never demoted to a skipped file.
EarlyStopRefused ==
  /\ at = "resolve" /\ File.misarmed /\ out.rows[out.row] \notin File.unresolvable
  /\ at' = "refused"
  /\ UNCHANGED <<case, out>>

\* Every file that reached the resolution failed.
AllFailed == out.errors # {} /\ Cardinality(out.errors) = out.attempted

NothingResolved ==
  /\ at = "load" /\ out.file > Len(case.files) /\ AllFailed
  /\ at' = "refused"
  /\ UNCHANGED <<case, out>>

\* filter_tasks_by_tags, and the ids of what it kept.
Passes(tags) ==
  /\ case.filter.include # {} => tags \cap case.filter.include # {}
  /\ tags \cap case.filter.exclude = {}
KeptIds(s) == {s[i].id : i \in {j \in DOMAIN s : Passes(s[j].tags)}}
Kept(s)    == {i \in DOMAIN s : s[i].id \in KeptIds(s)}

Key(e) == <<e.id, e.variant, e.rep>>
Duplicates(s, kept) == \E i, j \in kept : i # j /\ Key(s[i]) = Key(s[j])

\* The key the runs are sorted by: replicate, file, variant.  The sort is
\* stable: what has the same key stays in its order.
Rank(v)    == CHOOSE i \in DOMAIN Variants : Variants[i] = v
SortKey(e) == <<e.rep, e.file, Rank(e.variant)>>
Less(x, y) == x[1] < y[1] \/ (x[1] = y[1] /\ (x[2] < y[2] \/ (x[2] = y[2] /\ x[3] < y[3])))
Before(s, i, j) ==
  Less(SortKey(s[i]), SortKey(s[j])) \/ (SortKey(s[i]) = SortKey(s[j]) /\ i < j)

\* What is kept of s, in that order.
Ahead(s, kept, i) == Cardinality({j \in kept : Before(s, j, i)})
Interleaved(s, kept) ==
  [n \in 1..Cardinality(kept) |-> s[CHOOSE i \in kept : Ahead(s, kept, i) = n - 1]]

ListTasks ==
  /\ at = "load" /\ out.file > Len(case.files) /\ ~ AllFailed
  /\ LET kept == Kept(out.resolved) IN
     IF Duplicates(out.resolved, kept) THEN at' = "refused" /\ UNCHANGED out
     ELSE /\ at' = "listed"
          /\ out' = [out EXCEPT !.resolved = Interleaved(@, kept), !.skipped = @ \cup out.errors]
  /\ UNCHANGED case

Next == case.of = "tasks" /\ (SkipQuarantined \/ LoadFile \/ ResolveOne \/ ResolutionFails \/ EarlyStopRefused
                              \/ NothingResolved \/ ListTasks)

Spec == Init /\ [][Next]_vars

-----------------------------------------------------------------------------
Listed == case.of = "tasks" /\ at = "listed"
EntriesOf(f) == {out.resolved[i] : i \in {j \in DOMAIN out.resolved : out.resolved[j].file = f}}

\* The ids and the keys of some runs, and the keys that ids call for.
IdsOf(E) == {e.id : e \in E}
KeysOf(E) == {Key(e) : e \in E}
KeysFor(ids, n) == {<<id, v, r>> : id \in ids, v \in Members(Variants), r \in 0..(n - 1)}

\* What a file owes the run: every row that was drawn, for every variant, in
\* every replicate, once.
Whole(f) ==
  LET t == case.files[f]
      n == IF case.sample # NoSample /\ case.sample < Len(t.rows) THEN case.sample ELSE Len(t.rows)
  IN  /\ Cardinality(IdsOf(EntriesOf(f))) = n
      /\ KeysOf(EntriesOf(f)) = KeysFor(IdsOf(EntriesOf(f)), Copies(t))

\* Every file of a listed command is accounted for exactly once: it is
\* reported as skipped, it is left out by its tags, or all of it runs; no two
\* runs share a directory; and the runs start with the first replicate of every
\* task before any second one, the tasks in the order of their files.
TasksAccounted ==
  Listed =>
    /\ \A f \in DOMAIN case.files :
         \/ f \in out.skipped /\ EntriesOf(f) = {}
         \/ f \notin out.skipped /\ EntriesOf(f) = {} /\ ~ Passes(case.files[f].tags)
         \/ f \notin out.skipped /\ Whole(f)
    /\ \A i, j \in DOMAIN out.resolved : i < j =>
         LET a == out.resolved[i]  b == out.resolved[j] IN
         Key(a) # Key(b) /\ (a.rep < b.rep \/ (a.rep = b.rep /\ a.file <= b.file))
=============================================================================
