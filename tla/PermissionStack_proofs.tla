----------------------- MODULE PermissionStack_proofs -----------------------
(***************************************************************************)
(* Theorems about PermissionStack, for every finite set of windows,        *)
(* however they nest or overlap, every sequence of paths, every mode, and  *)
(* any number of cancellations, refused chmods and signals.                *)
(***************************************************************************)
EXTENDS PermissionStack, FiniteSetTheorems, SequenceTheorems, TLAPS

Applied == {ModeOf[w] : w \in Windows}
Mode == Applied \cup {Original}
Entry == [original : {Original}, applied : Seq(Applied), present : BOOLEAN]

\* What the proofs need of the types, while no signal has arrived.
Typed ==
  /\ disk \in [PathSet -> Mode]
  /\ entries \in [PathSet -> Entry]
  /\ exited \in BOOLEAN
  /\ handler = Off

\* A path without an entry is as the first window found it, an entry names
\* the mode from before every window (its type), and a process that ended
\* left no entry.  This is what makes atexit's restore complete: whatever a
\* refused chmod or an abandoned join left restricted still has its entry.
Honest ==
  /\ \A p \in PathSet : ~ entries[p].present => disk[p] = Original
  /\ exited => \A p \in PathSet : ~ entries[p].present

Registry == Typed /\ Honest

\* A worker has done a prefix of the paths when it pushes, and has a suffix
\* of them left when it pops.
N == Len(Paths)
Begun(s) == Len(s) <= N /\ \A i \in 1 .. Len(s) : s[i] = Paths[i]
Left(s)  == Len(s) \in 1 .. N /\ \A i \in 1 .. Len(s) : s[i] = Paths[N - Len(s) + i]

Jobs == {"none", "push", "pushed", "refused", "pop"}
Places == {"closed", "entering", "joining", "body", "unwinding", "out"}

\* Which jobs a worker can have, by the await of its coroutine.
JobPlaced(w) ==
  LET job == worker[w].job
  IN  /\ co[w] = "closed" => job = "none"
      /\ co[w] \in {"entering", "joining"} => job \in {"push", "pushed", "refused"}
      /\ co[w] = "body" => job = "none" /\ held[w] \in Seq(STRING) /\ Begun(held[w]) /\ Len(held[w]) = N
      /\ co[w] = "unwinding" => job \in {"none", "pop"}

\* How far it is.
JobTrue(w) ==
  LET job == worker[w].job
  IN  /\ job \in {"push", "pushed", "refused"} => Begun(worker[w].got)
      /\ job \in {"push", "pop"} => Left(worker[w].todo)
      /\ job = "push" => Len(worker[w].got) + Len(worker[w].todo) = N
      /\ job = "pushed" => Len(worker[w].got) = N

\* What it took to get here.
Cost(w) ==
  /\ worker[w].job = "refused" => refusals > 0
  /\ co[w] = "joining" => cancels > 0
  /\ co[w] = "out" /\ worker[w].job \in {"push", "pushed"} => cancels > 1

WorkerTrue ==
  /\ co \in [Windows -> Places]
  /\ held \in [Windows -> Seq(STRING)]
  /\ worker \in [Windows -> [job : Jobs, todo : Seq(STRING), got : Seq(STRING)]]
  /\ cancels \in Nat /\ refusals \in Nat
  /\ \A w \in Windows : JobPlaced(w) /\ JobTrue(w) /\ Cost(w)

\* The pushes that wait for their pop, as pairs of a window and an index in
\* the list of paths (a path may be listed twice).
Owed(w) ==
  {i \in 1 .. N : \/ worker[w].job \in {"push", "pushed", "refused"} /\ i <= Len(worker[w].got)
                  \/ worker[w].job = "pop" /\ i > N - Len(worker[w].todo)
                  \/ co[w] = "body"}
Debt(p) == {d \in Windows \X (1 .. N) : d[2] \in Owed(d[1]) /\ Paths[d[2]] = p}

\* The registry holds a mode for each of them, and no other unless a chmod
\* was refused; a path that has a mode applied is on the disk in that mode.
Counted ==
  ~ exited =>
    \A p \in PathSet :
      /\ Cardinality(Debt(p)) <= Len(entries[p].applied)
      /\ refusals = 0 => /\ Cardinality(Debt(p)) = Len(entries[p].applied)
                         /\ entries[p].present => entries[p].applied # << >>
      /\ entries[p].applied # << >> => entries[p].present /\ disk[p] \in Applied

Quiet == exited => \A w \in Windows : co[w] \in {"closed", "out"}

StackInv == signals = 0 => Registry /\ WorkerTrue /\ Counted /\ Quiet

-----------------------------------------------------------------------------
\* A pop leaves modes that were applied (_PermissionStack.pop).
LEMMA EnclosingTyped ==
  ASSUME NEW p \in PathSet, entries \in [PathSet -> Entry]
  PROVE  Enclosing(p) \in Seq(Applied)
<1>1. entries[p].applied \in Seq(Applied)
  BY DEF Entry
<1> DEFINE s == entries[p].applied
<1>2. SubSeq(s, 1, Len(s) - 1) \in Seq(Applied)
  BY <1>1
<1> QED
  BY <1>2 DEF Enclosing

\* The mode a pop falls back to is one the path had (_PermissionStack.pop).
LEMMA FallbackTyped ==
  ASSUME NEW p \in PathSet, entries \in [PathSet -> Entry]
  PROVE  /\ Fallback(p) \in Mode
         /\ IF Enclosing(p) = << >> THEN Fallback(p) = Original ELSE Fallback(p) \in Applied
<1>1. Enclosing(p) \in Seq(Applied)
  BY EnclosingTyped
<1>2. entries[p].original = Original
  BY DEF Entry
<1>3. CASE Enclosing(p) = << >>
  BY <1>2, <1>3 DEF Fallback, Mode
<1>4. CASE Enclosing(p) # << >>
  <2>1. Len(Enclosing(p)) \in 1 .. Len(Enclosing(p))
    BY <1>1, <1>4
  <2>2. Enclosing(p)[Len(Enclosing(p))] \in Applied
    BY <1>1, <2>1
  <2> QED
    BY <1>4, <2>2 DEF Fallback, Mode
<1> QED
  BY <1>3, <1>4

\* A push takes the original from the first of the windows on its path
\* (_PermissionStack.push).
LEMMA PushedEntryTyped ==
  ASSUME entries \in [PathSet -> Entry], NEW p \in PathSet, NEW w \in Windows,
         ~ entries[p].present => disk[p] = Original
  PROVE  PushedEntry(p, ModeOf[w]) \in Entry /\ PushedEntry(p, ModeOf[w]).present
<1>1. entries[p].applied \in Seq(Applied) /\ entries[p].original = Original
      /\ entries[p].present \in BOOLEAN
  BY DEF Entry
<1>2. ModeOf[w] \in Applied
  BY DEF Applied
<1>3. Append(entries[p].applied, ModeOf[w]) \in Seq(Applied)
  BY <1>1, <1>2
<1> QED
  BY <1>1, <1>3 DEF PushedEntry, Entry

-----------------------------------------------------------------------------
\* The registry starts honest.
LEMMA InitHonest == Init => Registry
<1> SUFFICES ASSUME Init PROVE Registry
  OBVIOUS
<1>1. NoEntry \in Entry /\ ~ NoEntry.present
  <2>1. << >> \in Seq(Applied)
    OBVIOUS
  <2> QED
    BY <2>1 DEF NoEntry, Entry
<1>2. Original \in Mode
  BY DEF Mode
<1> QED
  BY <1>1, <1>2 DEF Init, Registry, Typed, Honest

\* A worker's push keeps it honest.
LEMMA PushHonest ==
  ASSUME Registry, NEW w \in Windows, PushOne(w)
  PROVE  Registry'
<1> DEFINE p == Head(worker[w].todo)
<1>1. UNCHANGED <<handler, exited, signals>> /\ ~ exited
  BY DEF PushOne
<1>2. CASE UNCHANGED <<entries, disk>>
  BY <1>1, <1>2 DEF Registry, Typed, Honest
<1>3. CASE /\ entries' = [entries EXCEPT ![p] = PushedEntry(p, ModeOf[w])]
           /\ disk' = [disk EXCEPT ![p] = ModeOf[w]]
  <2>1. p \in PathSet =>
          PushedEntry(p, ModeOf[w]) \in Entry /\ PushedEntry(p, ModeOf[w]).present
    BY PushedEntryTyped DEF Registry, Typed, Honest
  <2>2. ModeOf[w] \in Mode
    BY DEF Mode, Applied
  <2>3. Typed'
    BY <1>1, <1>3, <2>1, <2>2 DEF Registry, Typed
  <2>4. Honest'
    BY <1>1, <1>3, <2>1 DEF Registry, Typed, Honest
  <2> QED
    BY <2>3, <2>4 DEF Registry
<1> QED
  BY <1>2, <1>3 DEF PushOne

\* A worker's pop keeps it honest, refused or not: an entry goes away only
\* with the restore of the original mode.
LEMMA PopHonest ==
  ASSUME Registry, NEW w \in Windows, PopOne(w)
  PROVE  Registry'
<1> DEFINE p == Head(worker[w].todo)
<1>1. UNCHANGED <<handler, exited, signals>> /\ ~ exited
  BY DEF PopOne
<1>2. CASE UNCHANGED <<entries, disk>>
  BY <1>1, <1>2 DEF Registry, Typed, Honest
<1> DEFINE Kept == [entries[p] EXCEPT !.applied = Enclosing(p)]
<1>3. p \in PathSet =>
        /\ entries[p] \in Entry
        /\ Enclosing(p) \in Seq(Applied)
        /\ Fallback(p) \in Mode
        /\ Enclosing(p) = << >> => Fallback(p) = Original
  BY EnclosingTyped, FallbackTyped DEF Registry, Typed
<1>4. p \in PathSet => Kept \in Entry /\ Kept.present = entries[p].present
  BY <1>3 DEF Entry
<1>5. NoEntry \in Entry /\ ~ NoEntry.present
  <2>1. << >> \in Seq(Applied)
    OBVIOUS
  <2> QED
    BY <2>1 DEF NoEntry, Entry
<1>6. CASE /\ entries[p].present
           /\ entries' = [entries EXCEPT ![p] = IF Enclosing(p) = << >> THEN NoEntry ELSE Kept]
           /\ disk' = [disk EXCEPT ![p] = Fallback(p)]
  <2>1. Typed'
    BY <1>1, <1>3, <1>4, <1>5, <1>6 DEF Registry, Typed
  <2>2. Honest'
    BY <1>1, <1>3, <1>4, <1>5, <1>6 DEF Registry, Typed, Honest
  <2> QED
    BY <2>1, <2>2 DEF Registry
<1>7. CASE /\ entries[p].present
           /\ entries' = [entries EXCEPT ![p] = Kept]
           /\ UNCHANGED disk
  <2>1. Typed'
    BY <1>1, <1>4, <1>7 DEF Registry, Typed
  <2>2. Honest'
    BY <1>1, <1>4, <1>7 DEF Registry, Typed, Honest
  <2> QED
    BY <2>1, <2>2 DEF Registry
<1>8. \/ UNCHANGED <<entries, disk>>
      \/ /\ entries[p].present
         /\ entries' = [entries EXCEPT ![p] = IF Enclosing(p) = << >> THEN NoEntry ELSE Kept]
         /\ disk' = [disk EXCEPT ![p] = Fallback(p)]
      \/ /\ entries[p].present
         /\ entries' = [entries EXCEPT ![p] = Kept]
         /\ UNCHANGED disk
  BY DEF PopOne
<1> QED
  BY <1>2, <1>6, <1>7, <1>8

\* atexit's restore keeps it honest, and leaves nothing.
LEMMA AtExitHonest ==
  ASSUME Registry, AtExit
  PROVE  Registry'
<1>1. NoEntry \in Entry /\ ~ NoEntry.present
  <2>1. << >> \in Seq(Applied)
    OBVIOUS
  <2> QED
    BY <2>1 DEF NoEntry, Entry
<1>2. \A p \in PathSet :
        (IF entries[p].present THEN entries[p].original ELSE disk[p]) = Original
  BY DEF Registry, Typed, Honest, Entry
<1>3. Original \in Mode
  BY DEF Mode
<1> QED
  BY <1>1, <1>2, <1>3 DEF AtExit, Registry, Typed, Honest, bounds

-----------------------------------------------------------------------------
(* Which pushes wait for their pop. *)

\* The pushes that wait are counted, for there are finitely many windows
\* (_PermissionStack._entries).
LEMMA DebtFinite ==
  ASSUME NEW p
  PROVE  IsFiniteSet(Debt(p)) /\ Cardinality(Debt(p)) \in Nat
<1>1. N \in Nat
  BY PermissionsAssumption DEF N
<1>2. IsFiniteSet(Windows \X (1 .. N))
  <2>1. IsFiniteSet(1 .. N)
    BY <1>1, FS_Interval
  <2>2. IsFiniteSet(Windows)
    BY PermissionsAssumption
  <2> QED
    BY <2>1, <2>2, FS_Product
<1>3. Debt(p) \subseteq Windows \X (1 .. N)
  BY DEF Debt
<1> QED
  BY <1>2, <1>3, FS_Subset, FS_CardinalityType

\* A step of one window changes what it owes, and only that
\* (a coroutine and its worker own their state).
LEMMA OwedLocal ==
  ASSUME WorkerTrue, NEW w \in Windows, NEW v \in Windows \ {w},
         \/ UNCHANGED <<co, worker>>
         \/ \E c, k : co' = [co EXCEPT ![w] = c] /\ worker' = [worker EXCEPT ![w] = k]
         \/ \E k : co' = co /\ worker' = [worker EXCEPT ![w] = k]
         \/ \E c : co' = [co EXCEPT ![w] = c] /\ worker' = worker
  PROVE  co'[v] = co[v] /\ worker'[v] = worker[v] /\ Owed(v)' = Owed(v)
<1>1. co'[v] = co[v] /\ worker'[v] = worker[v]
  BY DEF WorkerTrue
<1> QED
  BY <1>1 DEF Owed, N

\* A window that owes the same leaves every path's count alone.
LEMMA DebtSame ==
  ASSUME \A v \in Windows : Owed(v)' = Owed(v), NEW p
  PROVE  Debt(p)' = Debt(p)
  BY DEF Debt, N

\* A window that owes less owes no path more.
LEMMA DebtShrinks ==
  ASSUME \A v \in Windows : Owed(v)' \subseteq Owed(v), NEW p
  PROVE  Cardinality(Debt(p)') <= Cardinality(Debt(p)) /\ Cardinality(Debt(p)') \in Nat
<1>1. Debt(p)' \subseteq Debt(p)
  BY DEF Debt, N
<1> QED
  BY <1>1, DebtFinite, FS_Subset, FS_CardinalityType

\* A push of the path at index k adds one on that path.
LEMMA DebtAdds ==
  ASSUME NEW w \in Windows, NEW k \in 1 .. N, k \notin Owed(w),
         Owed(w)' = Owed(w) \cup {k},
         \A v \in Windows \ {w} : Owed(v)' = Owed(v),
         NEW p
  PROVE  Cardinality(Debt(p)') = Cardinality(Debt(p)) + (IF Paths[k] = p THEN 1 ELSE 0)
<1>1. CASE Paths[k] = p
  <2>1. Debt(p)' = Debt(p) \cup {<<w, k>>} /\ <<w, k>> \notin Debt(p)
    BY <1>1 DEF Debt, N
  <2> QED
    BY <1>1, <2>1, DebtFinite, FS_AddElement
<1>2. CASE Paths[k] # p
  <2>1. Debt(p)' = Debt(p)
    BY <1>2 DEF Debt, N
  <2> QED
    BY <1>2, <2>1, DebtFinite
<1> QED
  BY <1>1, <1>2

\* A pop of the path at index k takes one off that path.
LEMMA DebtDrops ==
  ASSUME NEW w \in Windows, NEW k \in 1 .. N, k \in Owed(w),
         Owed(w)' = Owed(w) \ {k},
         \A v \in Windows \ {w} : Owed(v)' = Owed(v),
         NEW p
  PROVE  Cardinality(Debt(p)') = Cardinality(Debt(p)) - (IF Paths[k] = p THEN 1 ELSE 0)
<1>1. CASE Paths[k] = p
  <2>1. Debt(p)' = Debt(p) \ {<<w, k>>} /\ <<w, k>> \in Debt(p)
    BY <1>1 DEF Debt, N
  <2> QED
    BY <1>1, <2>1, DebtFinite, FS_RemoveElement
<1>2. CASE Paths[k] # p
  <2>1. Debt(p)' = Debt(p)
    BY <1>2 DEF Debt, N
  <2> QED
    BY <1>2, <2>1, DebtFinite
<1> QED
  BY <1>1, <1>2

-----------------------------------------------------------------------------
(* The workers. *)

WorkerRecord == [job : Jobs, todo : Seq(STRING), got : Seq(STRING)]

\* A step of one window: the other windows keep their state, and the
\* counters only grow.
LocalStep(w) ==
  /\ co' \in [Windows -> Places]
  /\ held' \in [Windows -> Seq(STRING)]
  /\ worker' \in [Windows -> WorkerRecord]
  /\ \A v \in Windows \ {w} : co'[v] = co[v] /\ worker'[v] = worker[v] /\ held'[v] = held[v]
  /\ cancels' \in Nat /\ cancels' >= cancels
  /\ refusals' \in Nat /\ refusals' >= refusals

\* A step of one window keeps the workers true if it keeps its own.
LEMMA WorkerLocal ==
  ASSUME WorkerTrue, NEW w \in Windows, LocalStep(w),
         JobPlaced(w)', JobTrue(w)', Cost(w)'
  PROVE  WorkerTrue'
<1>1. ASSUME NEW v \in Windows, v # w
      PROVE  JobPlaced(v)' /\ JobTrue(v)' /\ Cost(v)'
  <2>1. co'[v] = co[v] /\ worker'[v] = worker[v] /\ held'[v] = held[v]
    BY <1>1 DEF LocalStep
  <2>2. JobPlaced(v) /\ JobTrue(v) /\ Cost(v)
    BY DEF WorkerTrue
  <2>3. JobPlaced(v)' /\ JobTrue(v)'
    BY <2>1, <2>2 DEF JobPlaced, JobTrue, Begun, Left, N
  <2>4. Cost(v)'
    BY <2>1, <2>2 DEF Cost, WorkerTrue, LocalStep
  <2> QED
    BY <2>3, <2>4
<1> QED
  BY <1>1 DEF WorkerTrue, WorkerRecord, LocalStep

\* What WorkerTrue says of one window.
LEMMA WorkerFacts ==
  ASSUME WorkerTrue, NEW w \in Windows
  PROVE  /\ co[w] \in Places /\ worker[w] \in WorkerRecord /\ held[w] \in Seq(STRING)
         /\ JobPlaced(w) /\ JobTrue(w) /\ Cost(w)
         /\ co = [co EXCEPT ![w] = co[w]]
         /\ worker = [worker EXCEPT ![w] = worker[w]]
         /\ held = [held EXCEPT ![w] = held[w]]
         /\ cancels \in Nat /\ refusals \in Nat
  BY DEF WorkerTrue, WorkerRecord

\* The list of paths a push starts with.
LEMMA PathsList == Paths \in Seq(STRING) /\ N \in Nat /\ N >= 1 /\ Left(Paths) /\ Begun(<< >>) /\ << >> \in Seq(STRING)
<1>1. Paths \in Seq(STRING) /\ Paths # << >>
  BY PermissionsAssumption
<1>2. N \in Nat /\ N >= 1
  BY <1>1 DEF N
<1>3. Left(Paths)
  BY <1>1, <1>2 DEF Left, N
<1>4. Begun(<< >>)
  BY <1>2 DEF Begun
<1> QED
  BY <1>1, <1>2, <1>3, <1>4

\* A window opens: nothing is pushed yet (set_permissions, its first await).
LEMMA EnterWorker ==
  ASSUME WorkerTrue, NEW w \in Windows, Enter(w)
  PROVE  WorkerTrue' /\ \A v \in Windows : Owed(v)' = Owed(v)
<1> DEFINE k == [job |-> "push", todo |-> Paths, got |-> << >>]
<1>1. /\ co' = [co EXCEPT ![w] = "entering"] /\ worker' = [worker EXCEPT ![w] = k]
      /\ co[w] = "closed" /\ UNCHANGED <<held, cancels, refusals>>
  BY DEF Enter, bounds
<1>2. k \in WorkerRecord /\ co'[w] = "entering" /\ worker'[w] = k
  BY <1>1, PathsList DEF WorkerTrue, WorkerRecord, Jobs
<1>3. JobPlaced(w)' /\ Cost(w)'
  BY <1>2 DEF JobPlaced, Cost
<1>4. JobTrue(w)'
  <2>1. Left(Paths)' /\ Begun(<< >>)'
    BY PathsList DEF Left, Begun, N
  <2>2. Len(Paths) = N /\ Len(<< >>) = 0 /\ N \in Nat
    BY PathsList DEF N
  <2>3. N' = N
    BY DEF N
  <2> QED
    BY <1>2, <2>1, <2>2, <2>3 DEF JobTrue
<1>5. WorkerTrue'
  <2>1. LocalStep(w)
    BY <1>1, <1>2, <1>3, <1>4, WorkerFacts DEF LocalStep, WorkerTrue, WorkerRecord, Places
  <2> QED
    BY <2>1, <1>1, <1>2, <1>3, <1>4, WorkerLocal
<1>6. worker[w].job = "none"
  BY <1>1, WorkerFacts DEF JobPlaced
<1>7. Owed(w)' = Owed(w)
  BY <1>1, <1>2, <1>6, PathsList DEF Owed, N
<1>8. \A v \in Windows \ {w} : Owed(v)' = Owed(v)
  BY <1>1, OwedLocal
<1> QED
  BY <1>5, <1>7, <1>8

\* The push is done: the window holds every path, or begins to pop every
\* path; if it was refused, what it pushed is left to atexit.
LEMMA PushedWorker ==
  ASSUME WorkerTrue, NEW w \in Windows, Pushed(w)
  PROVE  /\ WorkerTrue'
         /\ \A v \in Windows : Owed(v)' \subseteq Owed(v)
         /\ refusals = 0 => \A v \in Windows : Owed(v)' = Owed(v)
<1>1. UNCHANGED <<cancels, refusals>> /\ co[w] \in {"entering", "joining"}
  BY DEF Pushed, bounds
<1>2. worker[w] \in WorkerRecord /\ JobTrue(w) /\ Cost(w) /\ N \in Nat /\ N >= 1
  BY WorkerFacts, PathsList
<1>3. CASE worker[w].job = "pushed" /\ co[w] = "entering"
  <2>1. /\ held' = [held EXCEPT ![w] = worker[w].got]
        /\ co' = [co EXCEPT ![w] = "body"]
        /\ worker' = [worker EXCEPT ![w] = NoJob]
    BY <1>3 DEF Pushed
  <2>2. /\ NoJob \in WorkerRecord /\ co'[w] = "body" /\ worker'[w] = NoJob
        /\ held'[w] = worker[w].got /\ worker[w].got \in Seq(STRING)
    BY <2>1, <1>2, PathsList DEF WorkerTrue, WorkerRecord, NoJob, Jobs
  <2>3. Begun(worker[w].got) /\ Len(worker[w].got) = N
    BY <1>2, <1>3 DEF JobTrue
  <2>4. JobPlaced(w)' /\ Cost(w)' /\ JobTrue(w)'
    BY <2>2, <2>3 DEF JobPlaced, Cost, JobTrue, NoJob, Begun, N
  <2>5. WorkerTrue'
    <3>1. LocalStep(w)
      BY <1>1, <2>1, <2>2, <2>4, WorkerFacts DEF LocalStep, WorkerTrue, WorkerRecord, Places
    <3> QED
      BY <3>1, <1>1, <2>1, <2>2, <2>4, WorkerLocal
  <2>6. Owed(w)' = Owed(w)
    BY <1>2, <1>3, <2>2, <2>3 DEF Owed, N, NoJob
  <2>7. \A v \in Windows \ {w} : Owed(v)' = Owed(v)
    BY <2>1, OwedLocal
  <2> QED
    BY <2>5, <2>6, <2>7
<1>4. CASE worker[w].job = "pushed" /\ co[w] = "joining"
  <2> DEFINE k == [NoJob EXCEPT !.job = "pop", !.todo = worker[w].got]
  <2>1. /\ held' = [held EXCEPT ![w] = worker[w].got]
        /\ co' = [co EXCEPT ![w] = "unwinding"]
        /\ worker' = [worker EXCEPT ![w] = k]
    BY <1>4 DEF Pushed
  <2>2. /\ k \in WorkerRecord /\ co'[w] = "unwinding" /\ worker'[w] = k
        /\ worker[w].got \in Seq(STRING)
        /\ k.job = "pop" /\ k.todo = worker[w].got
    BY <2>1, <1>2, PathsList DEF WorkerTrue, WorkerRecord, NoJob, Jobs
  <2>3. Begun(worker[w].got) /\ Len(worker[w].got) = N
    BY <1>2, <1>4 DEF JobTrue
  <2>4. JobPlaced(w)' /\ Cost(w)'
    BY <2>2 DEF JobPlaced, Cost
  <2>5. Left(worker[w].got)
    BY <2>2, <2>3, <1>2 DEF Begun, Left
  <2>6. JobTrue(w)'
    BY <2>2, <2>5 DEF JobTrue, Left, N
  <2>7. WorkerTrue'
    <3>1. LocalStep(w)
      BY <1>1, <2>1, <2>2, <2>4, <2>6, WorkerFacts DEF LocalStep, WorkerTrue, WorkerRecord, Places
    <3> QED
      BY <3>1, <1>1, <2>1, <2>2, <2>4, <2>6, WorkerLocal
  <2>8. Owed(w)' = Owed(w)
    BY <1>2, <1>4, <2>2, <2>3 DEF Owed, N
  <2>9. \A v \in Windows \ {w} : Owed(v)' = Owed(v)
    BY <2>1, OwedLocal
  <2> QED
    BY <2>7, <2>8, <2>9
<1>5. CASE worker[w].job = "refused"
  <2>1. /\ held' = held
        /\ co' = [co EXCEPT ![w] = "out"]
        /\ worker' = [worker EXCEPT ![w] = NoJob]
    BY <1>5 DEF Pushed
  <2>2. NoJob \in WorkerRecord /\ co'[w] = "out" /\ worker'[w] = NoJob
    BY <2>1, PathsList DEF WorkerTrue, WorkerRecord, NoJob, Jobs
  <2>3. JobPlaced(w)' /\ Cost(w)' /\ JobTrue(w)'
    BY <2>2 DEF JobPlaced, Cost, JobTrue, NoJob
  <2>4. WorkerTrue'
    <3>1. LocalStep(w)
      BY <1>1, <2>1, <2>2, <2>3, WorkerFacts DEF LocalStep, WorkerTrue, WorkerRecord, Places
    <3> QED
      BY <3>1, <1>1, <2>1, <2>2, <2>3, WorkerLocal
  <2>5. Owed(w)' = {}
    BY <2>2 DEF Owed, NoJob
  <2>6. \A v \in Windows \ {w} : Owed(v)' = Owed(v)
    BY <2>1, OwedLocal
  <2>7. refusals # 0
    BY <1>2, <1>5, WorkerFacts DEF Cost
  <2> QED
    BY <2>4, <2>5, <2>6, <2>7
<1> QED
  BY <1>1, <1>3, <1>4, <1>5 DEF Pushed

\* The body is left: the worker begins to pop what the window holds.
LEMMA LeaveWorker ==
  ASSUME WorkerTrue, NEW w \in Windows, Leave(w)
  PROVE  WorkerTrue' /\ \A v \in Windows : Owed(v)' = Owed(v)
<1> DEFINE k == [NoJob EXCEPT !.job = "pop", !.todo = held[w]]
<1>1. /\ co' = [co EXCEPT ![w] = "unwinding"] /\ worker' = [worker EXCEPT ![w] = k]
      /\ co[w] = "body" /\ UNCHANGED <<held, cancels, refusals>>
  BY DEF Leave, bounds
<1>2. /\ k \in WorkerRecord /\ co'[w] = "unwinding" /\ worker'[w] = k
      /\ k.job = "pop" /\ k.todo = held[w]
  BY <1>1, PathsList DEF WorkerTrue, WorkerRecord, NoJob, Jobs
<1>3. held[w] \in Seq(STRING) /\ Begun(held[w]) /\ Len(held[w]) = N
  BY <1>1, WorkerFacts DEF JobPlaced
<1>4. JobPlaced(w)' /\ Cost(w)'
  BY <1>2 DEF JobPlaced, Cost
<1>5. Left(held[w])
  BY <1>3, PathsList DEF Begun, Left
<1>6. JobTrue(w)'
  BY <1>2, <1>5 DEF JobTrue, Left, N
<1>7. WorkerTrue'
  <2>1. LocalStep(w)
    BY <1>1, <1>2, <1>4, <1>6, WorkerFacts DEF LocalStep, WorkerTrue, WorkerRecord, Places
  <2> QED
    BY <2>1, <1>1, <1>2, <1>4, <1>6, WorkerLocal
<1>8. Owed(w)' = Owed(w)
  <2>1. Owed(w) = 1 .. N
    BY <1>1 DEF Owed
  <2>2. \A i \in 1 .. N : i > N - Len(held[w])
    BY <1>3, PathsList
  <2>3. Owed(w)' = 1 .. N
    BY <1>2, <2>2 DEF Owed, N
  <2> QED
    BY <2>1, <2>3
<1>9. \A v \in Windows \ {w} : Owed(v)' = Owed(v)
  BY <1>1, OwedLocal
<1> QED
  BY <1>7, <1>8, <1>9

\* The window is closed.
LEMMA UnwoundWorker ==
  ASSUME WorkerTrue, NEW w \in Windows, Unwound(w)
  PROVE  WorkerTrue' /\ \A v \in Windows : Owed(v)' = Owed(v)
<1>1. /\ co' = [co EXCEPT ![w] = "out"] /\ co[w] = "unwinding" /\ worker[w].job = "none"
      /\ UNCHANGED <<worker, held, cancels, refusals>>
  BY DEF Unwound, bounds
<1>2. co'[w] = "out"
  BY <1>1 DEF WorkerTrue
<1>3. JobPlaced(w)' /\ Cost(w)' /\ JobTrue(w)'
  BY <1>1, <1>2 DEF JobPlaced, Cost, JobTrue
<1>4. WorkerTrue'
  <2>1. LocalStep(w)
    BY <1>1, <1>3, WorkerFacts DEF LocalStep, WorkerTrue, WorkerRecord, Places
  <2> QED
    BY <2>1, <1>1, <1>3, WorkerLocal
<1>5. Owed(w)' = Owed(w)
  BY <1>1, <1>2 DEF Owed, N
<1>6. \A v \in Windows \ {w} : Owed(v)' = Owed(v)
  BY <1>1, OwedLocal
<1> QED
  BY <1>4, <1>5, <1>6

\* A cancellation leaves the worker at work.
LEMMA CancelWorker ==
  ASSUME WorkerTrue, NEW w \in Windows, Cancel(w)
  PROVE  WorkerTrue' /\ \A v \in Windows : Owed(v)' = Owed(v)
<1> DEFINE c == IF co[w] = "entering" THEN "joining" ELSE "out"
<1>1. /\ co' = [co EXCEPT ![w] = c] /\ co[w] \in {"entering", "joining", "unwinding"}
      /\ cancels' = cancels + 1
      /\ UNCHANGED <<worker, held, refusals>>
  BY DEF Cancel
<1>2. co'[w] = c /\ c \in Places
  BY <1>1 DEF WorkerTrue, Places
<1>3. cancels \in Nat /\ refusals \in Nat /\ JobPlaced(w) /\ JobTrue(w) /\ Cost(w)
  BY WorkerFacts
<1>4. JobPlaced(w)'
  BY <1>1, <1>2, <1>3 DEF JobPlaced
<1>5. JobTrue(w)'
  BY <1>1, <1>3 DEF JobTrue, Begun, Left, N
<1>6. Cost(w)'
  BY <1>1, <1>2, <1>3 DEF Cost, JobPlaced
<1>7. WorkerTrue'
  <2>1. LocalStep(w)
    BY <1>1, <1>2, <1>3, <1>4, <1>5, <1>6, WorkerFacts DEF LocalStep, WorkerTrue, WorkerRecord, Places
  <2> QED
    BY <2>1, <1>1, <1>2, <1>3, <1>4, <1>5, <1>6, WorkerLocal
<1>8. Owed(w)' = Owed(w)
  BY <1>1, <1>2 DEF Owed, N
<1>9. \A v \in Windows \ {w} : Owed(v)' = Owed(v)
  BY <1>1, OwedLocal
<1> QED
  BY <1>7, <1>8, <1>9

\* What is left of a list without its head: the paths of a worker, by index.
LEMMA HeadAndTail ==
  ASSUME NEW s \in Seq(STRING), Left(s)
  PROVE  /\ N - Len(s) + 1 \in 1 .. N
         /\ Head(s) = Paths[N - Len(s) + 1] /\ Head(s) \in PathSet /\ Head(s) \in STRING
         /\ Tail(s) \in Seq(STRING) /\ Len(Tail(s)) = Len(s) - 1
         /\ Tail(s) # << >> => Left(Tail(s))
         /\ Tail(s) = << >> <=> Len(s) = 1
<1>1. s # << >> /\ Len(s) \in Nat /\ Len(s) >= 1 /\ Len(s) <= N /\ N \in Nat
  BY PathsList DEF Left
<1>2. Head(s) = s[1] /\ s[1] \in STRING /\ s[1] = Paths[N - Len(s) + 1]
  BY <1>1 DEF Left
<1>3. N - Len(s) + 1 \in 1 .. N /\ DOMAIN Paths = 1 .. N
  BY <1>1, PathsList DEF N
<1>4. Paths[N - Len(s) + 1] \in PathSet
  BY <1>3 DEF PathSet
<1>5. /\ Tail(s) \in Seq(STRING) /\ Len(Tail(s)) = Len(s) - 1
      /\ \A i \in 1 .. Len(Tail(s)) : Tail(s)[i] = s[i + 1]
  BY <1>1
<1>6. Tail(s) # << >> => Left(Tail(s))
  <2> SUFFICES ASSUME Tail(s) # << >> PROVE Left(Tail(s))
    OBVIOUS
  <2>1. Len(Tail(s)) \in 1 .. N
    BY <1>1, <1>5
  <2>2. ASSUME NEW i \in 1 .. Len(Tail(s)) PROVE Tail(s)[i] = Paths[N - Len(Tail(s)) + i]
    <3>1. Tail(s)[i] = s[i + 1] /\ i + 1 \in 1 .. Len(s)
      BY <1>1, <1>5
    <3>2. s[i + 1] = Paths[N - Len(s) + (i + 1)]
      BY <3>1 DEF Left
    <3>3. N - Len(s) + (i + 1) = N - Len(Tail(s)) + i
      BY <1>1, <1>5
    <3> QED
      BY <3>1, <3>2, <3>3
  <2> QED
    BY <2>1, <2>2 DEF Left
<1>7. Tail(s) = << >> <=> Len(s) = 1
  <2>1. Tail(s) = << >> <=> Len(Tail(s)) = 0
    BY <1>5, EmptySeq
  <2> QED
    BY <1>1, <1>5, <2>1
<1> QED
  BY <1>2, <1>3, <1>4, <1>5, <1>6, <1>7

\* A worker pushes the next path of the list, and owes it; a refused chmod
\* ends its push (fs_permissions._push_all).
LEMMA PushOneWorker ==
  ASSUME WorkerTrue, NEW w \in Windows, PushOne(w)
  PROVE  /\ WorkerTrue'
         /\ \A v \in Windows \ {w} : Owed(v)' = Owed(v)
         /\ Head(worker[w].todo) \in PathSet
         /\ \/ /\ UNCHANGED <<entries, disk>>
               /\ refusals' > 0
               /\ Owed(w)' = Owed(w)
            \/ /\ entries' = [entries EXCEPT ![Head(worker[w].todo)] =
                                PushedEntry(Head(worker[w].todo), ModeOf[w])]
               /\ disk' = [disk EXCEPT ![Head(worker[w].todo)] = ModeOf[w]]
               /\ UNCHANGED refusals
               /\ \E k \in 1 .. N : /\ k \notin Owed(w) /\ Owed(w)' = Owed(w) \cup {k}
                                    /\ Paths[k] = Head(worker[w].todo)
<1> DEFINE todo == worker[w].todo
           got  == worker[w].got
           p    == Head(todo)
           left == Tail(todo)
           k    == Len(got) + 1
<1>1. /\ worker[w].job = "push" /\ UNCHANGED <<co, held, cancels>>
  BY DEF PushOne
<1>2. /\ worker[w] \in WorkerRecord /\ N \in Nat
      /\ JobPlaced(w) /\ JobTrue(w) /\ Cost(w)
      /\ refusals \in Nat /\ cancels \in Nat
  BY WorkerFacts, PathsList
<1>3. /\ todo \in Seq(STRING) /\ got \in Seq(STRING) /\ Len(todo) \in Nat /\ Len(got) \in Nat
      /\ todo = worker[w].todo /\ got = worker[w].got /\ p = Head(todo) /\ left = Tail(todo)
      /\ k = Len(got) + 1
  BY <1>2 DEF WorkerRecord
<1>4. /\ Begun(got) /\ Left(todo) /\ Len(got) + Len(todo) = N
  BY <1>1, <1>2 DEF JobTrue
<1>5. /\ N - Len(todo) + 1 = k
      /\ k \in 1 .. N /\ p = Paths[k] /\ p \in PathSet /\ p \in STRING
      /\ left \in Seq(STRING) /\ Len(left) = Len(todo) - 1
      /\ left # << >> => Left(left)
      /\ left = << >> <=> Len(todo) = 1
  <2>1. Len(got) \in Nat /\ Len(todo) \in Nat
    BY <1>3
  <2>2. N - Len(todo) + 1 = k
    <3>1. \A a, b, c \in Nat : a + b = c => c - b + 1 = a + 1
      OBVIOUS
    <3> QED
      BY <1>2, <1>4, <2>1, <3>1
  <2> QED
    BY <1>3, <1>4, <2>2, HeadAndTail
<1> HIDE DEF todo, got, p, left, k
<1>6. co[w] \in {"entering", "joining", "out"}
  BY <1>1, <1>2, WorkerFacts DEF JobPlaced, Places
<1>7. Owed(w) = 1 .. Len(got)
  BY <1>1, <1>2, <1>3, <1>4, <1>6 DEF Owed, Begun
<1>8. \A v \in Windows \ {w} : Owed(v)' = Owed(v)
  <2>1. \E r : worker' = [worker EXCEPT ![w] = r]
    BY DEF PushOne
  <2> QED
    BY <1>1, <2>1, OwedLocal
<1>9. CASE /\ refusals' = refusals + 1
           /\ worker' = [worker EXCEPT ![w].job = "refused"]
           /\ UNCHANGED <<entries, disk>>
  <2> DEFINE r == [worker[w] EXCEPT !.job = "refused"]
  <2>1. /\ r \in WorkerRecord /\ r.job = "refused" /\ r.got = got
        /\ worker'[w] = r /\ worker' = [worker EXCEPT ![w] = r]
    BY <1>2, <1>3, <1>9 DEF WorkerRecord, Jobs, WorkerTrue
  <2>2. LocalStep(w)
    BY <1>1, <1>2, <1>9, <2>1, WorkerFacts DEF LocalStep, WorkerTrue, WorkerRecord
  <2>3. JobPlaced(w)' /\ Cost(w)'
    BY <1>1, <1>2, <1>6, <1>9, <2>1 DEF JobPlaced, Cost
  <2>4. JobTrue(w)'
    BY <1>4, <2>1 DEF JobTrue, Begun, N
  <2>5. WorkerTrue'
    BY <2>2, <2>3, <2>4, WorkerLocal
  <2>6. Owed(w)' = Owed(w)
    BY <1>1, <1>6, <2>1 DEF Owed, N
  <2> QED
    BY <1>2, <1>3, <1>5, <1>8, <1>9, <2>5, <2>6
<1>10. CASE /\ entries' = [entries EXCEPT ![p] = PushedEntry(p, ModeOf[w])]
            /\ disk' = [disk EXCEPT ![p] = ModeOf[w]]
            /\ worker' = [worker EXCEPT ![w] =
                            [job |-> IF left = << >> THEN "pushed" ELSE "push",
                             todo |-> left, got |-> Append(got, p)]]
            /\ UNCHANGED refusals
  <2> DEFINE r == [job |-> IF left = << >> THEN "pushed" ELSE "push",
                   todo |-> left, got |-> Append(got, p)]
  <2>1. /\ Append(got, p) \in Seq(STRING) /\ Len(Append(got, p)) = k
        /\ \A i \in 1 .. Len(got) : Append(got, p)[i] = got[i]
        /\ Append(got, p)[k] = p
    BY <1>3, <1>5
  <2>2. r \in WorkerRecord /\ worker'[w] = r
    BY <1>2, <1>5, <1>10, <2>1 DEF WorkerRecord, Jobs, WorkerTrue
  <2>3. LocalStep(w)
    BY <1>1, <1>2, <1>10, <2>2, WorkerFacts DEF LocalStep, WorkerTrue, WorkerRecord
  <2>4. JobPlaced(w)' /\ Cost(w)'
    BY <1>1, <1>2, <1>6, <1>10, <2>2 DEF JobPlaced, Cost
  <2>5. Begun(Append(got, p))
    BY <1>3, <1>4, <1>5, <2>1 DEF Begun
  <2>6. left # << >> => Left(left)
    BY <1>5
  <2>7. /\ left # << >> => Len(Append(got, p)) + Len(left) = N
        /\ left = << >> => Len(Append(got, p)) = N
    <3>1. /\ Len(got) \in Nat /\ Len(todo) \in Nat /\ N \in Nat
          /\ Len(got) + Len(todo) = N
      BY <1>2, <1>3, <1>4
    <3>2. Len(got) + 1 + (Len(todo) - 1) = N
      BY ONLY <3>1
    <3>3. Len(todo) = 1 => Len(got) + 1 = N
      BY ONLY <3>1
    <3>4. Len(Append(got, p)) = Len(got) + 1 /\ Len(left) = Len(todo) - 1
      BY <1>3, <1>5, <2>1
    <3> QED
      BY <1>5, <3>2, <3>3, <3>4
  <2>8. JobTrue(w)'
    BY <2>2, <2>5, <2>6, <2>7 DEF JobTrue, Begun, Left, N
  <2>9. WorkerTrue'
    BY <2>3, <2>4, <2>8, WorkerLocal
  <2>10. Owed(w)' = 1 .. k
    BY <1>1, <1>2, <1>5, <1>6, <2>1, <2>2 DEF Owed, N
  <2>11. k \notin Owed(w) /\ Owed(w)' = Owed(w) \cup {k}
    BY <1>3, <1>7, <2>10
  <2> QED
    BY <1>3, <1>5, <1>8, <1>10, <2>9, <2>11
<1> QED
  BY <1>9, <1>10 DEF PushOne, todo, got, p, left, k

\* A worker pops the next path of the list, and owes it no more, refused or
\* not (fs_permissions._pop_all).
LEMMA PopOneWorker ==
  ASSUME WorkerTrue, NEW w \in Windows, PopOne(w)
  PROVE  /\ WorkerTrue'
         /\ \A v \in Windows \ {w} : Owed(v)' = Owed(v)
         /\ Head(worker[w].todo) \in PathSet
         /\ \E k \in 1 .. N : /\ k \in Owed(w) /\ Owed(w)' = Owed(w) \ {k}
                              /\ Paths[k] = Head(worker[w].todo)
<1> DEFINE todo == worker[w].todo
           left == Tail(todo)
           k    == N - Len(todo) + 1
           r    == IF left = << >> THEN NoJob ELSE [worker[w] EXCEPT !.todo = left]
<1>1. /\ worker[w].job = "pop" /\ UNCHANGED <<co, held, cancels>>
      /\ worker' = [worker EXCEPT ![w] = r]
  BY DEF PopOne
<1>2. /\ worker[w] \in WorkerRecord /\ N \in Nat
      /\ JobPlaced(w) /\ JobTrue(w) /\ Cost(w)
      /\ refusals \in Nat /\ cancels \in Nat
  BY WorkerFacts, PathsList
<1>3. /\ todo \in Seq(STRING) /\ Left(todo) /\ Len(todo) \in Nat
      /\ todo = worker[w].todo /\ left = Tail(todo) /\ k = N - Len(todo) + 1
  BY <1>1, <1>2 DEF WorkerRecord, JobTrue
<1>4. /\ k \in 1 .. N /\ Head(todo) = Paths[k] /\ Head(todo) \in PathSet
      /\ left \in Seq(STRING) /\ Len(left) = Len(todo) - 1
      /\ left # << >> => Left(left)
      /\ left = << >> <=> Len(todo) = 1
  BY <1>3, HeadAndTail
<1>5. co[w] \in {"unwinding", "out"}
  BY <1>1, <1>2, WorkerFacts DEF JobPlaced, Places
<1>6. \A v \in Windows \ {w} : Owed(v)' = Owed(v)
  BY <1>1, OwedLocal
<1> HIDE DEF todo, left, k
<1>7. /\ r \in WorkerRecord /\ worker'[w] = r
      /\ left = << >> => r.job = "none"
      /\ left # << >> => r.job = "pop" /\ r.todo = left
  BY <1>1, <1>2, <1>3, <1>4, PathsList DEF WorkerRecord, Jobs, WorkerTrue, NoJob
<1>8. refusals' \in Nat /\ refusals' >= refusals
  BY <1>2 DEF PopOne
<1> HIDE DEF r
<1>9. LocalStep(w)
  BY <1>1, <1>2, <1>7, <1>8, WorkerFacts DEF LocalStep, WorkerTrue, WorkerRecord
<1>10. JobPlaced(w)' /\ Cost(w)'
  BY <1>1, <1>5, <1>7 DEF JobPlaced, Cost
<1>11. JobTrue(w)'
  <2>1. left # << >> => Left(left)
    BY <1>4
  <2> QED
    BY <1>7, <2>1 DEF JobTrue, Left, N
<1>12. WorkerTrue'
  BY <1>9, <1>10, <1>11, WorkerLocal
<1>13. Owed(w) = k .. N
  <2>1. Owed(w) = {i \in 1 .. N : i > N - Len(todo)}
    BY <1>1, <1>3, <1>5 DEF Owed
  <2>2. \A n, l \in Nat : {i \in 1 .. n : i > n - l} = {i \in 1 .. n : i >= n - l + 1}
    OBVIOUS
  <2>3. Owed(w) = {i \in 1 .. N : i >= k}
    BY <1>2, <1>3, <2>1, <2>2
  <2> QED
    BY <1>2, <1>4, <2>3
<1>14. Owed(w)' = (k + 1) .. N
  <2>1. CASE left = << >>
    <3>1. Owed(w)' = {}
      BY <1>1, <1>5, <1>7, <2>1 DEF Owed
    <3>2. k = N
      <4>1. \A n \in Nat : n - 1 + 1 = n
        OBVIOUS
      <4> QED
        BY <1>2, <1>3, <1>4, <2>1, <4>1
    <3> QED
      BY <1>2, <3>1, <3>2
  <2>2. CASE left # << >>
    <3>1. Owed(w)' = {i \in 1 .. N : i > N - Len(left)}
      BY <1>1, <1>5, <1>7, <2>2 DEF Owed, N
    <3>2. N - Len(left) = k
      <4>1. \A n, l \in Nat : n - (l - 1) = n - l + 1
        OBVIOUS
      <4> QED
        BY <1>2, <1>3, <1>4, <4>1
    <3> QED
      BY <1>2, <1>4, <3>1, <3>2
  <2> QED
    BY <2>1, <2>2
<1>15. k \in Owed(w) /\ Owed(w)' = Owed(w) \ {k}
  <2>1. k \in Nat
    BY <1>2, <1>3, <1>4
  <2> QED
    BY <1>2, <1>4, <1>13, <1>14, <2>1
<1> QED
  BY <1>3, <1>4, <1>6, <1>12, <1>15

-----------------------------------------------------------------------------
(* The count. *)

\* A step that touches no path keeps the count, if no window owes more, and
\* owes less only after a refused chmod.
LEMMA CountKept ==
  ASSUME Counted, WorkerTrue, UNCHANGED <<entries, disk, exited, refusals>>,
         \A v \in Windows : Owed(v)' \subseteq Owed(v),
         refusals = 0 => \A v \in Windows : Owed(v)' = Owed(v)
  PROVE  Counted'
<1> SUFFICES ASSUME ~ exited, NEW p \in PathSet
             PROVE  /\ Cardinality(Debt(p)') <= Len(entries[p].applied)
                    /\ refusals = 0 => Cardinality(Debt(p)') = Len(entries[p].applied)
  BY DEF Counted, PathSet
<1>1. /\ Cardinality(Debt(p)') <= Cardinality(Debt(p)) /\ Cardinality(Debt(p)') \in Nat
      /\ Cardinality(Debt(p)) \in Nat
  BY DebtShrinks, DebtFinite
<1>2. refusals = 0 => Debt(p)' = Debt(p)
  BY DebtSame
<1>3. /\ Cardinality(Debt(p)) <= Len(entries[p].applied)
      /\ refusals = 0 => Cardinality(Debt(p)) = Len(entries[p].applied)
  BY DEF Counted
<1> QED
  BY <1>1, <1>2, <1>3

\* A push adds a mode on its path, and a wait for its pop; refused, neither.
LEMMA PushCounted ==
  ASSUME Registry, WorkerTrue, Counted, NEW w \in Windows, PushOne(w)
  PROVE  Counted'
<1> DEFINE p == Head(worker[w].todo)
<1>1. /\ \A v \in Windows \ {w} : Owed(v)' = Owed(v)
      /\ p \in PathSet
      /\ \/ UNCHANGED <<entries, disk>> /\ refusals' > 0 /\ Owed(w)' = Owed(w)
         \/ /\ entries' = [entries EXCEPT ![p] = PushedEntry(p, ModeOf[w])]
            /\ disk' = [disk EXCEPT ![p] = ModeOf[w]]
            /\ UNCHANGED refusals
            /\ \E k \in 1 .. N : /\ k \notin Owed(w) /\ Owed(w)' = Owed(w) \cup {k}
                                 /\ Paths[k] = p
  BY PushOneWorker
<1>2. ~ exited /\ UNCHANGED exited /\ refusals \in Nat /\ PathSet' = PathSet
  BY WorkerFacts DEF PushOne, PathSet
<1>3. CASE UNCHANGED <<entries, disk>> /\ refusals' > 0 /\ Owed(w)' = Owed(w)
  <2>1. \A v \in Windows : Owed(v)' = Owed(v)
    BY <1>1, <1>3
  <2>2. ASSUME NEW q \in PathSet PROVE Debt(q)' = Debt(q)
    BY <2>1, DebtSame
  <2>3. refusals' # 0
    BY <1>3
  <2> QED
    BY <1>2, <1>3, <2>2, <2>3 DEF Counted
<1>4. CASE /\ entries' = [entries EXCEPT ![p] = PushedEntry(p, ModeOf[w])]
           /\ disk' = [disk EXCEPT ![p] = ModeOf[w]]
           /\ UNCHANGED refusals
           /\ \E k \in 1 .. N : /\ k \notin Owed(w) /\ Owed(w)' = Owed(w) \cup {k}
                                /\ Paths[k] = p
  <2>1. PICK k \in 1 .. N : k \notin Owed(w) /\ Owed(w)' = Owed(w) \cup {k} /\ Paths[k] = p
    BY <1>4
  <2>2. ASSUME NEW q \in PathSet
        PROVE  /\ Cardinality(Debt(q)') = Cardinality(Debt(q)) + (IF q = p THEN 1 ELSE 0)
               /\ Cardinality(Debt(q)) \in Nat
    BY <1>1, <2>1, DebtAdds, DebtFinite
  <2> DEFINE e == PushedEntry(p, ModeOf[w])
  <2>3. /\ entries[p].applied \in Seq(Applied) /\ ModeOf[w] \in Applied
        /\ e.applied = Append(entries[p].applied, ModeOf[w]) /\ e.present = TRUE
    BY <1>1 DEF Registry, Typed, Entry, Applied, PushedEntry
  <2>4. Len(e.applied) = Len(entries[p].applied) + 1 /\ e.applied # << >>
    <3>1. ASSUME NEW t \in Seq(Applied), NEW m \in Applied
          PROVE  Len(Append(t, m)) = Len(t) + 1 /\ Append(t, m) # << >>
      BY AppendProperties
    <3> QED
      BY <2>3, <3>1
  <2>5. /\ entries'[p] = e /\ disk'[p] = ModeOf[w]
        /\ \A q \in PathSet : q # p => entries'[q] = entries[q] /\ disk'[q] = disk[q]
    BY <1>1, <1>4 DEF Registry, Typed
  <2>6. Len(entries[p].applied) \in Nat
    BY <2>3
  <2> HIDE DEF e, p
  <2> SUFFICES ASSUME NEW q \in PathSet
               PROVE  /\ Cardinality(Debt(q)') <= Len(entries'[q].applied)
                      /\ refusals = 0 => /\ Cardinality(Debt(q)') = Len(entries'[q].applied)
                                         /\ entries'[q].present => entries'[q].applied # << >>
                      /\ entries'[q].applied # << >> => entries'[q].present /\ disk'[q] \in Applied
    BY <1>2, <1>4 DEF Counted
  <2>7. /\ Cardinality(Debt(q)) <= Len(entries[q].applied)
        /\ refusals = 0 => /\ Cardinality(Debt(q)) = Len(entries[q].applied)
                           /\ entries[q].present => entries[q].applied # << >>
        /\ entries[q].applied # << >> => entries[q].present /\ disk[q] \in Applied
    BY <1>2 DEF Counted
  <2>8. CASE q = p
    BY <2>2, <2>3, <2>4, <2>5, <2>6, <2>7, <2>8
  <2>9. CASE q # p
    BY <2>2, <2>5, <2>7, <2>9
  <2> QED
    BY <2>8, <2>9
<1> QED
  BY <1>1, <1>3, <1>4

\* A pop takes a mode off its path, and the wait for it; refused, the disk
\* stays as it is and the entry with it.
LEMMA PopCounted ==
  ASSUME Registry, WorkerTrue, Counted, NEW w \in Windows, PopOne(w)
  PROVE  Counted'
<1> DEFINE p == Head(worker[w].todo)
           Kept == [entries[p] EXCEPT !.applied = Enclosing(p)]
<1>1. /\ \A v \in Windows \ {w} : Owed(v)' = Owed(v)
      /\ p \in PathSet
      /\ \E k \in 1 .. N : k \in Owed(w) /\ Owed(w)' = Owed(w) \ {k} /\ Paths[k] = p
  BY PopOneWorker
<1>2. ~ exited /\ UNCHANGED exited /\ refusals \in Nat
  BY WorkerFacts DEF PopOne
<1>3. PICK k \in 1 .. N : k \in Owed(w) /\ Owed(w)' = Owed(w) \ {k} /\ Paths[k] = p
  BY <1>1
<1>4. ASSUME NEW q \in PathSet
      PROVE  /\ Cardinality(Debt(q)') = Cardinality(Debt(q)) - (IF q = p THEN 1 ELSE 0)
             /\ Cardinality(Debt(q)) \in Nat /\ IsFiniteSet(Debt(q))
  BY <1>1, <1>3, DebtDrops, DebtFinite
<1>5. Cardinality(Debt(p)) # 0
  <2>1. <<w, k>> \in Debt(p)
    BY <1>3 DEF Debt
  <2> QED
    BY <1>1, <1>4, <2>1, FS_EmptySet
<1>6. ASSUME NEW q \in PathSet
      PROVE  /\ Cardinality(Debt(q)) <= Len(entries[q].applied)
             /\ refusals = 0 => /\ Cardinality(Debt(q)) = Len(entries[q].applied)
                                /\ entries[q].present => entries[q].applied # << >>
             /\ entries[q].applied # << >> => entries[q].present /\ disk[q] \in Applied
  BY <1>2 DEF Counted
<1>7. /\ entries[p] \in Entry /\ entries[p].applied \in Seq(Applied)
      /\ Len(entries[p].applied) \in Nat
  BY <1>1 DEF Registry, Typed, Entry
<1>8. Len(entries[p].applied) >= 1 /\ entries[p].applied # << >> /\ entries[p].present
  <2>1. Len(entries[p].applied) >= 1
    BY <1>1, <1>4, <1>5, <1>6, <1>7
  <2>2. entries[p].applied # << >>
    BY <2>1, EmptySeq
  <2> QED
    BY <1>1, <1>6, <2>1, <2>2
<1>9. /\ Enclosing(p) \in Seq(Applied) /\ Len(Enclosing(p)) = Len(entries[p].applied) - 1
      /\ Enclosing(p) # << >> => Fallback(p) \in Applied
      /\ Enclosing(p) = << >> => Len(Enclosing(p)) = 0
  <2>1. Enclosing(p) \in Seq(Applied) /\ (Enclosing(p) # << >> => Fallback(p) \in Applied)
    BY <1>1, EnclosingTyped, FallbackTyped DEF Registry, Typed
  <2>2. Len(Enclosing(p)) = Len(entries[p].applied) - 1
    BY <1>7, <1>8 DEF Enclosing
  <2> QED
    BY <2>1, <2>2
<1>10. Kept.applied = Enclosing(p) /\ Kept.present = entries[p].present
       /\ NoEntry.applied = << >> /\ NoEntry.present = FALSE
  BY <1>7 DEF Entry, NoEntry
<1>11. ASSUME NEW q \in PathSet, q # p
       PROVE  entries'[q] = entries[q] /\ disk'[q] = disk[q]
  BY <1>1, <1>11 DEF PopOne, Registry, Typed
<1>12. \/ /\ refusals' = refusals
          /\ entries'[p] = IF Enclosing(p) = << >> THEN NoEntry ELSE Kept
          /\ disk'[p] = Fallback(p)
       \/ /\ refusals' = refusals + 1
          /\ entries'[p] = Kept
          /\ disk'[p] = disk[p]
  <2>1. \/ /\ refusals' = refusals
           /\ entries' = [entries EXCEPT ![p] = IF Enclosing(p) = << >> THEN NoEntry ELSE Kept]
           /\ disk' = [disk EXCEPT ![p] = Fallback(p)]
        \/ /\ refusals' = refusals + 1
           /\ entries' = [entries EXCEPT ![p].applied = Enclosing(p)]
           /\ disk' = disk
    BY <1>8 DEF PopOne
  <2> QED
    BY <1>1, <2>1 DEF Registry, Typed
<1> HIDE DEF p, Kept
<1> SUFFICES ASSUME NEW q \in PathSet
             PROVE  /\ Cardinality(Debt(q)') <= Len(entries'[q].applied)
                    /\ refusals' = 0 => /\ Cardinality(Debt(q)') = Len(entries'[q].applied)
                                        /\ entries'[q].present => entries'[q].applied # << >>
                    /\ entries'[q].applied # << >> => entries'[q].present /\ disk'[q] \in Applied
  BY <1>2 DEF Counted
<1>13. refusals' = 0 => refusals = 0
  BY <1>2, <1>12
<1>14. CASE q # p
  BY <1>4, <1>6, <1>11, <1>13, <1>14
<1>15. CASE q = p
  <2>1. Len(entries'[q].applied) = Len(entries[q].applied) - 1
    BY <1>9, <1>10, <1>12, <1>15
  <2>2. /\ entries'[q].applied # << >> => entries'[q].present /\ disk'[q] \in Applied
    BY <1>6, <1>8, <1>9, <1>10, <1>12, <1>15
  <2>3. refusals' = 0 /\ entries'[q].present => entries'[q].applied # << >>
    BY <1>2, <1>9, <1>10, <1>12, <1>15
  <2>4. /\ Cardinality(Debt(q)') = Cardinality(Debt(q)) - 1
        /\ Cardinality(Debt(q)) \in Nat
    BY <1>4, <1>15
  <2>5. /\ Cardinality(Debt(q)) <= Len(entries[q].applied)
        /\ refusals = 0 => Cardinality(Debt(q)) = Len(entries[q].applied)
        /\ Len(entries[q].applied) \in Nat
    BY <1>6, <1>7, <1>15
  <2> QED
    BY <1>13, <2>1, <2>2, <2>3, <2>4, <2>5
<1> QED
  BY <1>14, <1>15

-----------------------------------------------------------------------------
(* The invariant of the registry. *)

\* No window is open at first, so none owes a pop.
LEMMA InitStack == Init => signals \in Nat /\ StackInv
<1> SUFFICES ASSUME Init PROVE signals \in Nat /\ StackInv
  OBVIOUS
<1>1. Registry
  BY InitHonest
<1>2. NoJob \in WorkerRecord /\ NoJob.job = "none" /\ NoJob.todo = << >> /\ NoJob.got = << >>
  BY PathsList DEF NoJob, WorkerRecord, Jobs
<1>3. WorkerTrue
  <2>1. \A w \in Windows : co[w] = "closed" /\ worker[w] = NoJob
    BY DEF Init
  <2>2. \A w \in Windows : JobPlaced(w) /\ JobTrue(w) /\ Cost(w)
    BY <1>2, <2>1 DEF JobPlaced, JobTrue, Cost
  <2>3. /\ co \in [Windows -> Places] /\ held \in [Windows -> Seq(STRING)]
        /\ worker \in [Windows -> WorkerRecord] /\ cancels \in Nat /\ refusals \in Nat
    BY <1>2, PathsList DEF Init, Places
  <2> QED
    BY <2>2, <2>3 DEF WorkerTrue, WorkerRecord
<1>4. Counted
  <2>1. \A w \in Windows : Owed(w) = {}
    BY <1>2 DEF Init, Owed
  <2>2. ASSUME NEW p \in PathSet PROVE Cardinality(Debt(p)) = 0
    <3>1. Debt(p) = {}
      BY <2>1 DEF Debt
    <3> QED
      BY <3>1, FS_EmptySet
  <2>3. \A p \in PathSet : entries[p] = NoEntry
    BY DEF Init
  <2>4. NoEntry.applied = << >> /\ NoEntry.present = FALSE /\ Len(<< >>) = 0
    BY DEF NoEntry
  <2> QED
    BY <2>2, <2>3, <2>4 DEF Counted
<1>5. Quiet
  BY DEF Init, Quiet
<1> QED
  BY <1>1, <1>3, <1>4, <1>5 DEF Init, StackInv

\* A coroutine's step touches no path.
LEMMA CoroutineStack ==
  ASSUME Registry, WorkerTrue, Counted, Quiet, NEW w \in Windows,
         Enter(w) \/ Pushed(w) \/ Leave(w) \/ Unwound(w) \/ Cancel(w)
  PROVE  (Registry /\ WorkerTrue /\ Counted /\ Quiet)'
<1>1. UNCHANGED <<disk, entries, handler, exited, refusals>> /\ ~ exited
  BY DEF Enter, Pushed, Leave, Unwound, Cancel, bounds, LoopRuns
<1>2. Registry'
  BY <1>1 DEF Registry, Typed, Honest
<1>3. /\ WorkerTrue'
      /\ \A v \in Windows : Owed(v)' \subseteq Owed(v)
      /\ refusals = 0 => \A v \in Windows : Owed(v)' = Owed(v)
  BY EnterWorker, PushedWorker, LeaveWorker, UnwoundWorker, CancelWorker
<1>4. Counted'
  BY <1>1, <1>3, CountKept
<1>5. Quiet'
  BY <1>1 DEF Quiet
<1> QED
  BY <1>2, <1>3, <1>4, <1>5

\* The registry counts every window until a signal clears it.
LEMMA StackInductive == Spec => [](signals \in Nat /\ StackInv)
<1>1. Init => signals \in Nat /\ StackInv
  BY InitStack
<1>2. (signals \in Nat /\ StackInv) /\ [Next]_vars => (signals \in Nat /\ StackInv)'
  <2> SUFFICES ASSUME signals \in Nat, StackInv, [Next]_vars
               PROVE  signals' \in Nat /\ StackInv'
    OBVIOUS
  <2>1. CASE UNCHANGED vars
    BY <2>1 DEF vars, StackInv, Registry, Typed, Honest, WorkerTrue, JobPlaced, JobTrue, Cost,
                Counted, Debt, Owed, Quiet
  <2>2. CASE Signal
    BY <2>2 DEF Signal, StackInv
  <2>3. ASSUME signals = 0, NEW w \in Windows,
               Enter(w) \/ Pushed(w) \/ Leave(w) \/ Unwound(w) \/ Cancel(w)
        PROVE  signals' \in Nat /\ StackInv'
    <3>1. signals' = signals
      BY <2>3 DEF Enter, Pushed, Leave, Unwound, Cancel, bounds
    <3> QED
      BY <2>3, <3>1, CoroutineStack DEF StackInv
  <2>4. ASSUME signals = 0, NEW w \in Windows, PushOne(w)
        PROVE  signals' \in Nat /\ StackInv'
    <3>1. UNCHANGED <<signals, exited>> /\ ~ exited
      BY <2>4 DEF PushOne
    <3>2. Registry' /\ WorkerTrue' /\ Counted' /\ Quiet'
      BY <2>4, <3>1, PushHonest, PushOneWorker, PushCounted DEF StackInv, Quiet
    <3> QED
      BY <3>1, <3>2 DEF StackInv
  <2>5. ASSUME signals = 0, NEW w \in Windows, PopOne(w)
        PROVE  signals' \in Nat /\ StackInv'
    <3>1. UNCHANGED <<signals, exited>> /\ ~ exited
      BY <2>5 DEF PopOne
    <3>2. Registry' /\ WorkerTrue' /\ Counted' /\ Quiet'
      BY <2>5, <3>1, PopHonest, PopOneWorker, PopCounted DEF StackInv, Quiet
    <3> QED
      BY <3>1, <3>2 DEF StackInv
  <2>6. ASSUME signals = 0 PROVE ~ RestoreOne /\ ~ Chain
    BY <2>6 DEF RestoreOne, Chain, StackInv, Registry, Typed, Off
  <2>7. ASSUME signals = 0, AtExit
        PROVE  signals' \in Nat /\ StackInv'
    <3>1. /\ UNCHANGED <<co, worker, held, cancels, refusals, signals>> /\ exited'
          /\ \A w \in Windows : co[w] \in {"closed", "out"}
      BY <2>7 DEF AtExit, bounds
    <3>2. Registry'
      BY <2>7, AtExitHonest DEF StackInv
    <3>3. WorkerTrue'
      BY <2>7, <3>1 DEF StackInv, WorkerTrue, JobPlaced, JobTrue, Cost
    <3>4. Counted' /\ Quiet'
      BY <3>1 DEF Counted, Quiet
    <3> QED
      BY <3>1, <3>2, <3>3, <3>4 DEF StackInv
  <2>8. CASE Gone
    BY <2>1, <2>8 DEF Gone
  <2>9. ASSUME signals # 0, Next PROVE signals' \in Nat /\ StackInv'
    <3>1. signals' \in {signals, signals + 1}
      BY <2>9 DEF Next, Enter, Pushed, Leave, Unwound, Cancel, PushOne, PopOne, Signal,
                  RestoreOne, Chain, AtExit, Gone, bounds, vars
    <3> QED
      BY <2>9, <3>1 DEF StackInv
  <2> QED
    BY <2>1, <2>2, <2>3, <2>4, <2>5, <2>6, <2>7, <2>8, <2>9 DEF Next
<1> QED
  BY <1>1, <1>2, PTL DEF Spec

-----------------------------------------------------------------------------
(* A signal that interrupts the only window.                               *)

\* Only one window has been opened so far.
Lone == \A v, w \in Windows : co[v] # "closed" /\ co[w] # "closed" => v = w

\* The paths restore_all has yet to chmod, and those a worker has yet to push.
Pending   == {e.path : e \in handler.todo}
ToPush(w) == {i \in 1 .. N : worker[w].job = "push" /\ i > N - Len(worker[w].todo)}

\* A path is in its original mode unless the registry or the handler still
\* holds that mode; and what a worker has yet to push neither of them holds,
\* so that its push finds the original.
Restoring ==
  /\ disk \in [PathSet -> Mode] /\ entries \in [PathSet -> Entry] /\ exited \in BOOLEAN
  /\ handler \in [on : BOOLEAN, todo : SUBSET [path : PathSet, mode : {Original}]]
  /\ ~ handler.on => Pending = {}
  /\ exited => ~ handler.on
  /\ \A p \in PathSet : entries[p].present \/ p \in Pending \/ disk[p] = Original
  /\ exited => \A p \in PathSet : ~ entries[p].present
  /\ \A w \in Windows : \A i \in ToPush(w) : ~ entries[Paths[i]].present /\ Paths[i] \notin Pending
  /\ (\A w \in Windows : co[w] = "closed") =>
       Pending = {} /\ \A p \in PathSet : ~ entries[p].present

LoneInv == Lone => Restoring

\* A registry entry that holds nothing (_PermissionStack._entries, popped).
LEMMA NoEntryTyped == NoEntry \in Entry /\ ~ NoEntry.present
<1>1. << >> \in Seq(Applied)
  OBVIOUS
<1> QED
  BY <1>1 DEF NoEntry, Entry

\* A window that has been opened is never unopened.
LEMMA LoneBefore ==
  ASSUME WorkerTrue, [Next]_vars, Lone'
  PROVE  Lone
<1>1. ASSUME NEW v \in Windows, co[v] # "closed" PROVE co'[v] # "closed"
  BY <1>1 DEF WorkerTrue, Next, Enter, Pushed, Leave, Unwound, Cancel, PushOne, PopOne, Signal,
              RestoreOne, Chain, AtExit, Gone, vars
<1> QED
  BY <1>1 DEF Lone

\* Every step keeps the workers true, with or without signals.
LEMMA WorkersStay ==
  ASSUME WorkerTrue, [Next]_vars
  PROVE  WorkerTrue'
<1>1. CASE UNCHANGED <<co, worker, held, cancels, refusals>>
  BY <1>1 DEF WorkerTrue, JobPlaced, JobTrue, Cost
<1>2. Signal \/ RestoreOne \/ Chain \/ AtExit \/ Gone \/ UNCHANGED vars
        => UNCHANGED <<co, worker, held, cancels, refusals>>
  BY DEF Signal, RestoreOne, Chain, AtExit, Gone, vars, bounds
<1> QED
  BY <1>1, <1>2, EnterWorker, PushedWorker, LeaveWorker, UnwoundWorker, CancelWorker,
     PushOneWorker, PopOneWorker DEF Next

\* The coroutine's steps touch no path, and the first window to open finds
\* everything as it was (set_permissions).
LEMMA CoroutineRestoring ==
  ASSUME WorkerTrue, Restoring, Lone', NEW w \in Windows,
         Enter(w) \/ Pushed(w) \/ Leave(w) \/ Unwound(w) \/ Cancel(w)
  PROVE  Restoring'
<1>1. UNCHANGED <<disk, entries, handler, exited>>
  BY DEF Enter, Pushed, Leave, Unwound, Cancel
<1>2. co \in [Windows -> Places] /\ worker \in [Windows -> WorkerRecord]
  BY DEF WorkerTrue, WorkerRecord
<1>3. co'[w] # "closed"
  BY <1>2 DEF Enter, Pushed, Leave, Unwound, Cancel
<1>4. Pending' = Pending
  BY <1>1 DEF Pending
<1>5. ASSUME NEW v \in Windows, NEW i \in ToPush(v)'
      PROVE  ~ entries[Paths[i]].present /\ Paths[i] \notin Pending
  <2>1. i \in 1 .. N /\ Paths[i] \in PathSet
    BY <1>5, PathsList DEF ToPush, PathSet, N
  <2>2. CASE Enter(w)
    <3>1. \A u \in Windows : co[u] = "closed"
      BY <1>2, <1>3, <2>2 DEF Enter, Lone
    <3> QED
      BY <2>1, <3>1 DEF Restoring
  <2>3. CASE ~ Enter(w)
    <3>1. worker'[w] = worker[w] \/ worker'[w].job # "push"
      <4>1. CASE Pushed(w)
        <5> DEFINE r == [NoJob EXCEPT !.job = "pop", !.todo = worker[w].got]
        <5>1. NoJob.job # "push" /\ r.job # "push"
          BY DEF NoJob
        <5>2. \/ worker' = [worker EXCEPT ![w] = NoJob]
              \/ worker' = [worker EXCEPT ![w] = r]
          BY <4>1 DEF Pushed
        <5> HIDE DEF r
        <5> QED
          BY <1>2, <5>1, <5>2
      <4>2. CASE Leave(w)
        BY <1>2, <4>2 DEF Leave, NoJob
      <4>3. CASE Unwound(w) \/ Cancel(w)
        BY <4>3 DEF Unwound, Cancel
      <4> QED
        BY <2>3, <4>1, <4>2, <4>3
    <3>2. \A u \in Windows : u # w => worker'[u] = worker[u]
      BY <1>2, <2>3 DEF Pushed, Leave, Unwound, Cancel
    <3>3. i \in ToPush(v)
      BY <1>5, <3>1, <3>2 DEF ToPush
    <3> QED
      BY <3>3 DEF Restoring
  <2> QED
    BY <2>2, <2>3
<1> QED
  BY <1>1, <1>3, <1>4, <1>5 DEF Restoring

\* A worker's push records the original, and no path is left to push twice
\* (_PermissionStack.push).
LEMMA PushRestoring ==
  ASSUME \A i, j \in 1 .. N : Paths[i] = Paths[j] => i = j,
         WorkerTrue, Lone, Restoring, NEW w \in Windows, PushOne(w)
  PROVE  Restoring'
<1> DEFINE s == worker[w].todo
           p == Head(s)
           k == N - Len(s) + 1
<1>1. /\ worker \in [Windows -> WorkerRecord] /\ co \in [Windows -> Places]
      /\ s \in Seq(STRING) /\ Left(s) /\ worker[w].job = "push"
      /\ \A v \in Windows : JobPlaced(v)
  BY DEF PushOne, WorkerTrue, WorkerRecord, JobTrue
<1>2. /\ k \in 1 .. N /\ p = Paths[k] /\ p \in PathSet
      /\ Tail(s) \in Seq(STRING) /\ Len(Tail(s)) = Len(s) - 1
  BY <1>1, HeadAndTail
<1>3. Len(s) \in Nat /\ N \in Nat
  BY <1>1, PathsList
<1>4. k \in ToPush(w)
  BY <1>1, <1>2, <1>3 DEF ToPush
<1>5. ~ entries[p].present /\ p \notin Pending /\ disk[p] = Original
  BY <1>2, <1>4 DEF Restoring
<1>6. UNCHANGED <<co, handler, exited>> /\ ~ exited
  BY DEF PushOne
<1>7. Pending' = Pending
  BY <1>6 DEF Pending
<1>8. co[w] # "closed"
  BY <1>1 DEF JobPlaced
<1>9. \A v \in Windows : worker'[v].job = "push" => v = w
  <2>1. \A v \in Windows : v # w => worker'[v] = worker[v]
    BY <1>1 DEF PushOne
  <2>2. \A v \in Windows : v # w => worker[v].job = "none"
    BY <1>1, <1>8 DEF Lone, JobPlaced
  <2> QED
    BY <2>1, <2>2
<1>10. CASE UNCHANGED <<entries, disk>> /\ worker' = [worker EXCEPT ![w].job = "refused"]
  <2>1. \A v \in Windows : ToPush(v)' = {}
    BY <1>1, <1>9, <1>10 DEF ToPush, WorkerRecord
  <2> QED
    BY <1>6, <1>7, <1>8, <1>10, <2>1 DEF Restoring
<1>11. CASE /\ entries' = [entries EXCEPT ![p] = PushedEntry(p, ModeOf[w])]
            /\ disk' = [disk EXCEPT ![p] = ModeOf[w]]
            /\ worker'[w].todo = Tail(s)
  <2>1. PushedEntry(p, ModeOf[w]) \in Entry /\ PushedEntry(p, ModeOf[w]).present
    BY <1>2, <1>5, PushedEntryTyped DEF Restoring
  <2>2. ModeOf[w] \in Mode
    BY DEF Mode, Applied
  <2>3. ASSUME NEW v \in Windows, NEW i \in ToPush(v)'
        PROVE  ~ entries'[Paths[i]].present /\ Paths[i] \notin Pending
    <3>1. v = w /\ i \in 1 .. N /\ i > N - (Len(s) - 1)
      BY <1>2, <1>9, <1>11, <2>3 DEF ToPush
    <3>2. i > N - Len(s) /\ i # N - Len(s) + 1
      <4>1. \A n, l \in Nat : \A j \in 1 .. n : j > n - (l - 1) => j > n - l /\ j # n - l + 1
        OBVIOUS
      <4> HIDE DEF s
      <4> QED
        BY <1>3, <3>1, <4>1
    <3>3. i \in ToPush(w)
      BY <1>1, <3>1, <3>2 DEF ToPush
    <3>4. Paths[i] # p
      BY <1>2, <3>1, <3>2
    <3>5. Paths[i] \in PathSet
      BY <3>1, PathsList DEF PathSet, N
    <3> QED
      BY <1>11, <3>3, <3>4, <3>5 DEF Restoring
  <2> QED
    BY <1>2, <1>6, <1>7, <1>8, <1>11, <2>1, <2>2, <2>3 DEF Restoring
<1>12. \/ UNCHANGED <<entries, disk>> /\ worker' = [worker EXCEPT ![w].job = "refused"]
       \/ /\ entries' = [entries EXCEPT ![p] = PushedEntry(p, ModeOf[w])]
          /\ disk' = [disk EXCEPT ![p] = ModeOf[w]]
          /\ worker'[w].todo = Tail(s)
  <2> DEFINE r == [job |-> IF Tail(s) = << >> THEN "pushed" ELSE "push",
                   todo |-> Tail(s), got |-> Append(worker[w].got, p)]
  <2>1. \/ UNCHANGED <<entries, disk>> /\ worker' = [worker EXCEPT ![w].job = "refused"]
        \/ /\ entries' = [entries EXCEPT ![p] = PushedEntry(p, ModeOf[w])]
           /\ disk' = [disk EXCEPT ![p] = ModeOf[w]]
           /\ worker' = [worker EXCEPT ![w] = r]
    BY DEF PushOne
  <2>2. r.todo = Tail(s)
    OBVIOUS
  <2> HIDE DEF r
  <2>3. worker' = [worker EXCEPT ![w] = r] => worker'[w] = r
    BY <1>1
  <2> QED
    BY <2>1, <2>2, <2>3
<1> QED
  BY <1>10, <1>11, <1>12

\* A worker's pop forgets an entry only with the original on the disk
\* (_PermissionStack.pop).
LEMMA PopRestoring ==
  ASSUME WorkerTrue, Lone, Restoring, NEW w \in Windows, PopOne(w)
  PROVE  Restoring'
<1> DEFINE p == Head(worker[w].todo)
           Kept == [entries[p] EXCEPT !.applied = Enclosing(p)]
<1>1. p \in PathSet
  BY PopOneWorker
<1>2. UNCHANGED <<co, handler, exited>> /\ ~ exited /\ worker[w].job = "pop"
  BY DEF PopOne
<1>3. worker \in [Windows -> WorkerRecord] /\ co \in [Windows -> Places] /\ \A v \in Windows : JobPlaced(v)
  BY DEF WorkerTrue, WorkerRecord
<1>4. co[w] # "closed" /\ Pending' = Pending
  BY <1>2, <1>3 DEF JobPlaced, Pending
<1>5. \A v \in Windows : ToPush(v)' = {}
  <2>1. worker'[w].job \in {"none", "pop"} /\ \A v \in Windows : v # w => worker'[v] = worker[v]
    BY <1>2, <1>3 DEF PopOne, NoJob, WorkerRecord
  <2>2. \A v \in Windows : v # w => worker[v].job = "none"
    BY <1>3, <1>4 DEF Lone, JobPlaced
  <2> QED
    BY <2>1, <2>2 DEF ToPush
<1>6. /\ entries[p] \in Entry
      /\ Enclosing(p) \in Seq(Applied)
      /\ Fallback(p) \in Mode
      /\ Enclosing(p) = << >> => Fallback(p) = Original
  BY <1>1, EnclosingTyped, FallbackTyped DEF Restoring
<1>7. Kept \in Entry /\ Kept.present = entries[p].present
  BY <1>6 DEF Entry
<1>8. \/ UNCHANGED <<entries, disk>>
      \/ /\ entries[p].present
         /\ entries' = [entries EXCEPT ![p] = IF Enclosing(p) = << >> THEN NoEntry ELSE Kept]
         /\ disk' = [disk EXCEPT ![p] = Fallback(p)]
      \/ /\ entries[p].present
         /\ entries' = [entries EXCEPT ![p] = Kept]
         /\ UNCHANGED disk
  BY DEF PopOne
<1>9. disk' \in [PathSet -> Mode] /\ entries' \in [PathSet -> Entry]
  BY <1>1, <1>6, <1>7, <1>8, NoEntryTyped DEF Restoring
<1>10. \A q \in PathSet : entries'[q].present \/ q \in Pending \/ disk'[q] = Original
  BY <1>1, <1>6, <1>7, <1>8, NoEntryTyped DEF Restoring
<1> QED
  BY <1>2, <1>4, <1>5, <1>9, <1>10 DEF Restoring

\* The handler takes over what the registry held, path by path, and the exit
\* restores what is there (restore_all, the chained handler, atexit).
LEMMA HandlerRestoring ==
  ASSUME Signals \subseteq {"SIGINT"}, WorkerTrue, Restoring, Signal \/ RestoreOne \/ Chain \/ AtExit
  PROVE  Restoring'
<1>1. UNCHANGED <<co, worker>> /\ \A w \in Windows : ToPush(w)' = ToPush(w)
  BY DEF Signal, RestoreOne, Chain, AtExit, ToPush
<1>2. \A w \in Windows : \A i \in ToPush(w) : Paths[i] \in PathSet
  BY PathsList DEF ToPush, PathSet, N
<1>3. CASE Signal
  <2> DEFINE todo == {[path |-> p, mode |-> entries[p].original] : p \in Outstanding}
  <2>1. /\ handler' = [on |-> TRUE, todo |-> todo] /\ ~ exited
        /\ entries' = [p \in PathSet |-> NoEntry] /\ UNCHANGED <<disk, exited>>
        /\ ~ handler.on
    BY <1>3 DEF Signal, LoopRuns
  <2>2. Pending = {}
    BY <2>1 DEF Restoring
  <2>3. todo \subseteq [path : PathSet, mode : {Original}]
    BY DEF Restoring, Entry, Outstanding
  <2>4. Pending' = Outstanding
    <3>1. Pending' = {e.path : e \in todo}
      BY <2>1 DEF Pending
    <3>2. ASSUME NEW p \in Outstanding PROVE \E e \in todo : e.path = p
      <4>1. [path |-> p, mode |-> entries[p].original] \in todo
        OBVIOUS
      <4>2. [path |-> p, mode |-> entries[p].original].path = p
        OBVIOUS
      <4> HIDE DEF todo
      <4> QED
        BY <4>1, <4>2
    <3>3. \A e \in todo : e.path \in Outstanding
      OBVIOUS
    <3> QED
      BY <3>1, <3>2, <3>3
  <2>5. \A p \in PathSet : p \in Outstanding <=> entries[p].present
    BY DEF Outstanding
  <2>6. handler' \in [on : BOOLEAN, todo : SUBSET [path : PathSet, mode : {Original}]]
    BY <2>1, <2>3
  <2>7. (\A w \in Windows : co[w] = "closed") => Outstanding = {}
    BY <2>5 DEF Restoring, Outstanding
  <2> QED
    BY <1>1, <1>2, <2>1, <2>2, <2>4, <2>5, <2>6, <2>7, NoEntryTyped DEF Restoring
<1>4. CASE RestoreOne
  <2>1. PICK e \in handler.todo :
          /\ disk' = [disk EXCEPT ![e.path] = e.mode]
          /\ handler' = [handler EXCEPT !.todo = @ \ {e}]
    BY <1>4 DEF RestoreOne
  <2>2. e \in [path : PathSet, mode : {Original}] /\ handler.on /\ UNCHANGED <<entries, exited>>
    BY <1>4 DEF Restoring, RestoreOne
  <2>3. e.path \in PathSet /\ e.mode = Original /\ Original \in Mode
    BY <2>2 DEF Mode
  <2>4. Pending' \subseteq Pending /\ \A q \in Pending : q = e.path \/ q \in Pending'
    BY <2>1 DEF Pending, Restoring
  <2>5. handler' \in [on : BOOLEAN, todo : SUBSET [path : PathSet, mode : {Original}]] /\ handler'.on
    BY <2>1, <2>2 DEF Restoring
  <2>6. disk' \in [PathSet -> Mode] /\ disk'[e.path] = Original
        /\ \A q \in PathSet : q # e.path => disk'[q] = disk[q]
    BY <2>1, <2>3 DEF Restoring
  <2> QED
    BY <1>1, <2>2, <2>3, <2>4, <2>5, <2>6 DEF Restoring
<1>5. CASE Chain
  <2>1. handler' = Off /\ handler.todo = {} /\ exited' = FALSE /\ UNCHANGED <<disk, entries>>
    BY <1>5 DEF Chain
  <2>2. Pending = {} /\ Pending' = {}
    BY <2>1 DEF Pending, Off
  <2>3. handler' \in [on : BOOLEAN, todo : SUBSET [path : PathSet, mode : {Original}]]
    BY <2>1 DEF Off
  <2> QED
    BY <1>1, <2>1, <2>2, <2>3 DEF Restoring
<1>6. CASE AtExit
  <2>1. /\ disk' = [p \in PathSet |-> IF entries[p].present THEN entries[p].original ELSE disk[p]]
        /\ entries' = [p \in PathSet |-> NoEntry] /\ exited' = TRUE /\ UNCHANGED handler /\ ~ handler.on
    BY <1>6 DEF AtExit, LoopRuns
  <2>2. Pending = {} /\ Pending' = {}
    BY <2>1 DEF Restoring, Pending
  <2>3. \A p \in PathSet : disk'[p] = Original
    BY <2>1, <2>2 DEF Restoring, Entry
  <2>4. Original \in Mode
    BY DEF Mode
  <2>5. disk' \in [PathSet -> Mode]
    BY <2>1, <2>3, <2>4
  <2> QED
    BY <1>1, <1>2, <2>1, <2>2, <2>3, <2>5, NoEntryTyped DEF Restoring
<1> QED
  BY <1>3, <1>4, <1>5, <1>6

\* While there is one window, nothing is lost to a signal.
LEMMA LoneInductive ==
  ASSUME Signals \subseteq {"SIGINT"}, \A i, j \in 1 .. N : Paths[i] = Paths[j] => i = j
  PROVE  Spec => []LoneInv
<1>1. Init => WorkerTrue /\ LoneInv
  <2> SUFFICES ASSUME Init PROVE WorkerTrue /\ Restoring
    BY DEF LoneInv
  <2>1. WorkerTrue
    BY InitStack DEF Init, StackInv
  <2>2. Registry
    BY InitHonest
  <2>3. Pending = {} /\ handler \in [on : BOOLEAN, todo : SUBSET [path : PathSet, mode : {Original}]]
    BY DEF Init, Off, Pending
  <2>4. \A w \in Windows : ToPush(w) = {}
    BY DEF Init, NoJob, ToPush
  <2>5. \A p \in PathSet : ~ entries[p].present
    BY DEF Init, NoEntry
  <2>6. ~ handler.on /\ ~ exited
    BY DEF Init, Off
  <2> QED
    BY <2>1, <2>2, <2>3, <2>4, <2>5, <2>6 DEF Restoring, Registry, Typed, Honest
<1>2. (WorkerTrue /\ LoneInv) /\ [Next]_vars => (WorkerTrue /\ LoneInv)'
  <2> SUFFICES ASSUME WorkerTrue, LoneInv, [Next]_vars, Lone' PROVE Restoring'
    BY WorkersStay DEF LoneInv
  <2>1. Lone /\ Restoring
    BY LoneBefore DEF LoneInv
  <2>2. CASE UNCHANGED vars
    BY <2>1, <2>2 DEF vars, Restoring, Pending, ToPush
  <2>3. CASE Next
    <3>1. Gone => UNCHANGED vars
      BY DEF Gone
    <3> QED
      BY <2>1, <2>2, <2>3, <3>1, CoroutineRestoring, PushRestoring, PopRestoring, HandlerRestoring DEF Next
  <2> QED
    BY <2>2, <2>3
<1> QED
  BY <1>1, <1>2, PTL DEF Spec

-----------------------------------------------------------------------------
(* Results. *)

\* A process that ends leaves no path restricted: atexit restores what
\* refused chmods and abandoned joins left, and an interrupt what the only
\* window had pushed, wherever it hits it, between two paths of a push or of
\* a pop included (fs_permissions.restore_all, as the atexit hook and in the
\* signal handler).  For signals: SIGINT, and no path listed twice.
THEOREM AtExitRestores ==
  ASSUME \/ MaxSignals = 0
         \/ Signals \subseteq {"SIGINT"} /\ \A i, j \in 1 .. N : Paths[i] = Paths[j] => i = j
  PROVE  Spec => []RestoredAtExit
<1>1. signals = 0 /\ StackInv => RestoredAtExit
  BY DEF StackInv, Registry, Honest, RestoredAtExit
<1>2. CASE MaxSignals = 0
  <2>1. Init => signals = 0
    BY DEF Init
  <2>2. signals = 0 /\ [Next]_vars => (signals = 0)'
    <3>1. signals = 0 => ~ Signal
      BY <1>2 DEF Signal
    <3> QED
      BY <3>1 DEF Next, Enter, Pushed, Leave, Unwound, Cancel, PushOne, PopOne,
                  RestoreOne, Chain, AtExit, Gone, bounds, vars
  <2>3. Spec => [](signals = 0)
    BY <2>1, <2>2, PTL DEF Spec
  <2> QED
    BY <1>1, <2>3, StackInductive, PTL
<1>3. CASE Signals \subseteq {"SIGINT"} /\ \A i, j \in 1 .. N : Paths[i] = Paths[j] => i = j
  <2>1. Spec => []LoneInv
    BY <1>3, LoneInductive
  <2>2. signals \in Nat /\ StackInv /\ LoneInv => RestoredAtExit
    <3> SUFFICES ASSUME signals \in Nat, LoneInv, signals # 0 PROVE RestoredAtExit
      BY <1>1
    <3>1. Lone /\ exited => \A p \in PathSet : disk[p] = Original
      BY DEF LoneInv, Restoring
    <3> QED
      BY <3>1 DEF Lone, RestoredAtExit
  <2> QED
    BY <2>1, <2>2, StackInductive, PTL
<1> QED
  BY <1>2, <1>3

\* While a window's body runs, its push waits for its pop on every path.
LEMMA BodyCovers ==
  ASSUME StackInv, signals = 0, NEW w \in Windows, co[w] = "body", NEW p \in PathSet
  PROVE  disk[p] \in Applied
<1>1. ~ exited
  BY DEF StackInv, Quiet
<1>2. PICK i \in 1 .. N : Paths[i] = p
  BY PathsList DEF PathSet, N
<1>3. <<w, i>> \in Debt(p)
  <2>1. i \in Owed(w)
    BY DEF Owed
  <2> QED
    BY <1>2, <2>1 DEF Debt
<1>4. Cardinality(Debt(p)) # 0 /\ Cardinality(Debt(p)) \in Nat
  BY <1>3, DebtFinite, FS_EmptySet
<1>5. /\ Cardinality(Debt(p)) <= Len(entries[p].applied)
      /\ entries[p].applied # << >> => disk[p] \in Applied
  BY <1>1 DEF StackInv, Counted
<1>6. entries[p].applied # << >>
  <2>1. Len(entries[p].applied) # 0
    <3>1. entries[p].applied \in Seq(Applied)
      BY DEF StackInv, Registry, Typed, Entry
    <3> QED
      BY <1>4, <1>5, <3>1
  <2> QED
    BY <2>1, EmptySeq
<1> QED
  BY <1>5, <1>6

\* While a body runs its paths have the window's mode, however windows nest
\* and overlap, and once none is active every path has its own: for windows
\* of one mode, which is how Sandbox.set_permissions is called, with any
\* number of refused chmods and cancellations, until a signal arrives
\* (_PermissionStack.push and pop).
THEOREM WindowsHold ==
  ASSUME \A v, w \in Windows : ModeOf[v] = ModeOf[w]
  PROVE  Spec => []ModesHold
<1>1. StackInv => Shielded /\ EnclosingInForce
  <2> SUFFICES ASSUME StackInv, signals = 0, NEW w \in Windows, NEW p \in PathSet, co[w] = "body"
               PROVE  /\ disk[p] \in {ModeOf[v] : v \in {u \in Windows : Active(u)}}
                      /\ disk[p] = ModeOf[w]
    BY DEF Shielded, EnclosingInForce
  <2>1. disk[p] \in Applied
    BY BodyCovers
  <2>2. disk[p] = ModeOf[w]
    BY <2>1 DEF Applied
  <2>3. Active(w)
    BY DEF Active
  <2> QED
    BY <2>2, <2>3
<1>2. StackInv => RestoredWhenClosed
  <2> SUFFICES ASSUME StackInv, \A w \in Windows : ~ Active(w), cancels < 2, refusals = 0,
                      signals = 0, NEW p \in PathSet
               PROVE  disk[p] = Original /\ ~ entries[p].present
    BY DEF RestoredWhenClosed
  <2>1. ~ entries[p].present => disk[p] = Original
    BY DEF StackInv, Registry, Honest
  <2>2. CASE exited
    BY <2>1, <2>2 DEF StackInv, Registry, Honest
  <2>3. CASE ~ exited
    <3>1. ASSUME NEW w \in Windows PROVE Owed(w) = {}
      <4>1. /\ co[w] \in {"closed", "out"} /\ worker[w].job \in Jobs \ {"push", "pop"}
            /\ JobPlaced(w) /\ Cost(w) /\ cancels \in Nat
        BY WorkerFacts DEF Active, StackInv, WorkerRecord
      <4>2. worker[w].job = "none"
        BY <4>1 DEF JobPlaced, Cost, Jobs
      <4> QED
        BY <4>1, <4>2 DEF Owed
    <3>2. Debt(p) = {}
      BY <3>1 DEF Debt
    <3>3. Cardinality(Debt(p)) = 0
      BY <3>2, FS_EmptySet
    <3>4. /\ Len(entries[p].applied) = 0
          /\ entries[p].present => entries[p].applied # << >>
      BY <2>3, <3>3 DEF StackInv, Counted
    <3>5. entries[p].applied \in Seq(Applied)
      BY DEF StackInv, Registry, Typed, Entry
    <3>6. entries[p].applied = << >>
      BY <3>4, <3>5, EmptySeq
    <3> QED
      BY <2>1, <3>4, <3>6
  <2> QED
    BY <2>2, <2>3
<1> QED
  BY <1>1, <1>2, StackInductive, PTL DEF ModesHold
=============================================================================
