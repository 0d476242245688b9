-------------------------- MODULE PermissionStack --------------------------
(***************************************************************************)
(* fs_permissions: the process-wide stack of chmod windows that hides the  *)
(* reference from the agent.  A window is a coroutine (its async with      *)
(* block) and the worker thread asyncio.to_thread gives it for the chmods; *)
(* every push and pop of one path is atomic under the registry's lock.     *)
(* The coroutine may be cancelled at each of its awaits, all of which      *)
(* shield the worker.  The signal handler runs restore_all on the loop's   *)
(* thread: no coroutine moves meanwhile, but the workers do.               *)
(*                                                                         *)
(* Windows are strict, as Sandbox.set_permissions opens them.  Not         *)
(* modelled: paths that do not exist, a second signal inside the handler.  *)
(***************************************************************************)
EXTENDS Naturals, Sequences, FiniteSets

CONSTANTS
  Windows, Paths,     \* Paths: the sequence each window shields
  Original,           \* the mode of every path before any window
  ModeOf,             \* the mode a window applies
  Outer,              \* the window a window is nested in, or itself
  MaxCancels,         \* bound: cancellations
  MaxRefusals,        \* bound: chmods refused
  Signals,            \* which of SIGINT and SIGTERM may arrive
  MaxSignals          \* bound: signals that arrive

ASSUME PermissionsAssumption ==
  /\ IsFiniteSet(Windows)
  /\ Paths \in Seq(STRING) /\ Paths # << >>
  /\ Outer \in [Windows -> Windows]
  /\ DOMAIN ModeOf = Windows
  /\ Signals \subseteq {"SIGINT", "SIGTERM"}
  /\ MaxCancels \in Nat /\ MaxRefusals \in Nat /\ MaxSignals \in Nat

VARIABLES
  disk,      \* mode of each path
  entries,   \* _entries: the modes applied over the original, innermost last
  co,        \* the coroutine of each window
  worker,    \* its worker thread: the job, the paths to do and those done
  held,      \* the paths it must pop
  handler,   \* the signal handler: off, or the entries it has yet to restore
  exited,
  cancels, refusals, signals

vars == <<disk, entries, co, worker, held, handler, exited, cancels, refusals, signals>>
bounds == <<cancels, refusals, signals>>

PathSet == {Paths[i] : i \in DOMAIN Paths}
NoEntry == [original |-> Original, applied |-> << >>, present |-> FALSE]
NoJob   == [job |-> "none", todo |-> << >>, got |-> << >>]
Off     == [on |-> FALSE, todo |-> {}]

Init ==
  /\ disk = [p \in PathSet |-> Original]
  /\ entries = [p \in PathSet |-> NoEntry]
  /\ co = [w \in Windows |-> "closed"]
  /\ worker = [w \in Windows |-> NoJob]
  /\ held = [w \in Windows |-> << >>]
  /\ handler = Off /\ exited = FALSE
  /\ cancels = 0 /\ refusals = 0 /\ signals = 0

\* Mutants: push takes the mode it finds for the original; an exit goes back
\* to the original whatever encloses it; restore_all finds no entry.
PushedEntryAsFound(p, mode) ==
  [original |-> disk[p], applied |-> Append(entries[p].applied, mode), present |-> TRUE]
FallbackToOriginal(p) == entries[p].original
NoneOutstanding == {}

\* What push and pop leave in the registry.
PushedEntry(p, mode) ==
  [original |-> IF entries[p].present THEN entries[p].original ELSE disk[p],
   applied  |-> Append(entries[p].applied, mode),
   present  |-> TRUE]
Enclosing(p) == SubSeq(entries[p].applied, 1, Len(entries[p].applied) - 1)
Fallback(p) ==
  LET left == Enclosing(p)
  IN  IF left = << >> THEN entries[p].original ELSE left[Len(left)]

LoopRuns == ~ handler.on /\ ~ exited
Inner(w) == {v \in Windows \ {w} : Outer[v] = w}

-----------------------------------------------------------------------------
(* The coroutine. *)

Enter(w) ==
  /\ LoopRuns /\ co[w] = "closed"
  /\ Outer[w] = w \/ co[Outer[w]] = "body"
  /\ co' = [co EXCEPT ![w] = "entering"]
  /\ worker' = [worker EXCEPT ![w] = [job |-> "push", todo |-> Paths, got |-> << >>]]
  /\ UNCHANGED <<disk, entries, held, handler, exited, bounds>>

\* The push task is done: into the body, or, cancelled meanwhile, straight
\* to the unwind.  A refused push raises here, and leaves nothing to pop.
Pushed(w) ==
  /\ LoopRuns /\ co[w] \in {"entering", "joining"}
  /\ \/ /\ worker[w].job = "pushed"
        /\ held' = [held EXCEPT ![w] = worker[w].got]
        /\ IF co[w] = "entering"
             THEN /\ co' = [co EXCEPT ![w] = "body"]
                  /\ worker' = [worker EXCEPT ![w] = NoJob]
             ELSE /\ co' = [co EXCEPT ![w] = "unwinding"]
                  /\ worker' = [worker EXCEPT ![w] = [NoJob EXCEPT !.job = "pop", !.todo = worker[w].got]]
     \/ /\ worker[w].job = "refused"
        /\ co' = [co EXCEPT ![w] = "out"]
        /\ worker' = [worker EXCEPT ![w] = NoJob]
        /\ UNCHANGED held
  /\ UNCHANGED <<disk, entries, handler, exited, bounds>>

Leave(w) ==
  /\ LoopRuns /\ co[w] = "body"
  /\ \A v \in Inner(w) : co[v] \in {"closed", "out"}
  /\ co' = [co EXCEPT ![w] = "unwinding"]
  /\ worker' = [worker EXCEPT ![w] = [NoJob EXCEPT !.job = "pop", !.todo = held[w]]]
  /\ UNCHANGED <<disk, entries, held, handler, exited, bounds>>

Unwound(w) ==
  /\ LoopRuns /\ co[w] = "unwinding" /\ worker[w].job = "none"
  /\ co' = [co EXCEPT ![w] = "out"]
  /\ UNCHANGED <<disk, entries, worker, held, handler, exited, bounds>>

\* Cancelled at an await outside the body (Leave stands for a body that is
\* cut).  The worker goes on; the join, cancelled in turn, is abandoned.
Cancel(w) ==
  /\ LoopRuns /\ cancels < MaxCancels
  /\ co[w] \in {"entering", "joining", "unwinding"}
  /\ co' = [co EXCEPT ![w] = IF co[w] = "entering" THEN "joining" ELSE "out"]
  /\ cancels' = cancels + 1
  /\ UNCHANGED <<disk, entries, worker, held, handler, exited, refusals, signals>>

-----------------------------------------------------------------------------
(* The worker thread: one path at a time. *)

PushOne(w) ==
  /\ ~ exited /\ worker[w].job = "push"
  /\ LET p == Head(worker[w].todo)
         left == Tail(worker[w].todo)
     IN  \/ /\ entries' = [entries EXCEPT ![p] = PushedEntry(p, ModeOf[w])]
            /\ disk' = [disk EXCEPT ![p] = ModeOf[w]]
            /\ worker' = [worker EXCEPT ![w] =
                            [job |-> IF left = << >> THEN "pushed" ELSE "push",
                             todo |-> left, got |-> Append(worker[w].got, p)]]
            /\ UNCHANGED refusals
         \/ /\ refusals < MaxRefusals
            /\ refusals' = refusals + 1
            /\ worker' = [worker EXCEPT ![w].job = "refused"]
            /\ UNCHANGED <<entries, disk>>
  /\ UNCHANGED <<co, held, handler, exited, cancels, signals>>

\* A refused chmod keeps the entry, for restore_all.
PopOne(w) ==
  /\ ~ exited /\ worker[w].job = "pop"
  /\ LET p == Head(worker[w].todo)
         left == Tail(worker[w].todo)
     IN  /\ worker' = [worker EXCEPT ![w] = IF left = << >> THEN NoJob ELSE [@ EXCEPT !.todo = left]]
         /\ \/ /\ ~ entries[p].present
               /\ UNCHANGED <<entries, disk, refusals>>
            \/ /\ entries[p].present
               /\ entries' = [entries EXCEPT ![p] = IF Enclosing(p) = << >> THEN NoEntry
                                                    ELSE [@ EXCEPT !.applied = Enclosing(p)]]
               /\ disk' = [disk EXCEPT ![p] = Fallback(p)]
               /\ UNCHANGED refusals
            \/ /\ entries[p].present /\ refusals < MaxRefusals
               /\ refusals' = refusals + 1
               /\ entries' = [entries EXCEPT ![p].applied = Enclosing(p)]
               /\ UNCHANGED disk
  /\ UNCHANGED <<co, held, handler, exited, cancels, signals>>

-----------------------------------------------------------------------------
(* The crash handlers. *)

Outstanding == {p \in PathSet : entries[p].present}

\* restore_all forgets every entry under the lock, then chmods outside it.
Signal ==
  /\ LoopRuns /\ signals < MaxSignals
  /\ signals' = signals + 1
  /\ handler' = [on |-> TRUE,
                 todo |-> {[path |-> p, mode |-> entries[p].original] : p \in Outstanding}]
  /\ entries' = [p \in PathSet |-> NoEntry]
  /\ UNCHANGED <<disk, co, worker, held, exited, cancels, refusals>>

RestoreOne ==
  /\ handler.on
  /\ \E e \in handler.todo :
       /\ disk' = [disk EXCEPT ![e.path] = e.mode]
       /\ handler' = [handler EXCEPT !.todo = @ \ {e}]
  /\ UNCHANGED <<entries, co, worker, held, exited, bounds>>

\* The chained handler: SIGINT becomes a cancellation, SIGTERM terminates.
Chain ==
  /\ handler.on /\ handler.todo = {}
  /\ handler' = Off
  /\ \E s \in Signals : exited' = (s = "SIGTERM")
  /\ UNCHANGED <<disk, entries, co, worker, held, bounds>>

\* atexit: the executor's threads are joined by then.
AtExit ==
  /\ LoopRuns
  /\ \A w \in Windows : co[w] \in {"closed", "out"} /\ worker[w].job \in {"none", "pushed", "refused"}
  /\ disk' = [p \in PathSet |-> IF entries[p].present THEN entries[p].original ELSE disk[p]]
  /\ entries' = [p \in PathSet |-> NoEntry]
  /\ exited' = TRUE
  /\ UNCHANGED <<co, worker, held, handler, bounds>>

Gone == exited /\ UNCHANGED vars

Next ==
  \/ \E w \in Windows : \/ Enter(w) \/ Pushed(w) \/ Leave(w) \/ Unwound(w)
                        \/ Cancel(w) \/ PushOne(w) \/ PopOne(w)
  \/ Signal \/ RestoreOne \/ Chain \/ AtExit \/ Gone

Spec == Init /\ [][Next]_vars

-----------------------------------------------------------------------------
(* Properties. *)

\* The window may still change a mode.
Active(w) == co[w] \notin {"closed", "out"} \/ worker[w].job \in {"push", "pop"}

\* While a body runs, each of its paths has the mode of a window that is
\* active: the exit of a window that overlaps it never uncovers it (push and
\* pop; windows of one mode, for an exit pops whatever is innermost).
Shielded ==
  signals = 0 =>
    \A w \in Windows, p \in PathSet :
      co[w] = "body" => disk[p] \in {ModeOf[v] : v \in {u \in Windows : Active(u)}}

\* Back in the outer body, alone, the outer mode is in force again ("Exiting
\* restores the enclosing window's mode").
EnclosingInForce ==
  signals = 0 =>
    \A w \in Windows, p \in PathSet :
      co[w] = "body" /\ (\A v \in Windows \ {w} : ~ Active(v)) => disk[p] = ModeOf[w]

\* Once no window is active, however they overlapped, every path has its
\* pre-window mode and the registry is empty, unless a chmod was refused or
\* cancellations hit one window twice (a join that is abandoned).
RestoredWhenClosed ==
  (\A w \in Windows : ~ Active(w)) /\ cancels < 2 /\ refusals = 0 /\ signals = 0 =>
    \A p \in PathSet : disk[p] = Original /\ ~ entries[p].present

\* A process that ended left no path restricted, also when a strict push was
\* refused half-way, a pop was refused or a join was abandoned (atexit); and
\* also after a signal if there was only one window for it to interrupt.
RestoredAtExit ==
  exited /\ (signals > 0 => \A v, w \in Windows : co[v] # "closed" /\ co[w] # "closed" => v = w)
    => \A p \in PathSet : disk[p] = Original

\* The mode of a path is that of a window which covers it, and its own again
\* when none does, in whatever order overlapping windows come and go.
ModesHold == Shielded /\ EnclosingInForce /\ RestoredWhenClosed
=============================================================================
