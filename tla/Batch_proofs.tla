---------------------------- MODULE Batch_proofs ----------------------------
(***************************************************************************)
(* A run directory under any sequence of commands, for every set of tasks, *)
(* every number of slots, and every number of commands, kills and faults:  *)
(* --resume pays for nothing twice, and run.json and the scores are true.  *)
(* And the list of runs it starts from, for every set of task files.       *)
(***************************************************************************)
EXTENDS Batch, Rules, FiniteSetTheorems, TLAPS

-----------------------------------------------------------------------------
(* The inductive invariant.                                                *)

\* The places of the tasks before they have left the slots.
Coming == {"clear", "queue", "publish", "save"}

\* Which places a phase knows, and which command runs it.
PlacesIn(p) == CASE p = "clear" -> {"clear", "queue", "grade", "done"}
                [] p = "grade" -> {"queue", "grade", "done"}
                [] p = "run"   -> {"queue", "publish", "save", "done"}
                [] p = "dying" -> Places
                [] OTHER       -> {"out"}

PhaseTrue ==
  /\ \A t \in Tasks : place[t] \in PlacesIn(cmd.phase)
  /\ cmd.phase \in {"clear", "grade", "run"} => cmd.kind \in {"fresh", "resume"}
  /\ cmd.phase = "refresh" => cmd.kind \in {"evaluate", "rebuild"}
  /\ orphans # {} => In("idle") /\ cmd.exit = "killed"

\* A row on disk has a category, and one that succeeded has a score.
RowSound(r) == r # NoRow => r.cat # "absent" /\ (r.cat = "succeeded" => r.scored)

\* A task has a result when it is done: its row, or an error in memory.
ResultsTrue ==
  \A t \in Tasks :
    /\ place[t] # "done" => res[t] = NoResult
    /\ place[t] = "done" => res[t] = InMemory \/ (row[t] # NoRow /\ res[t] = OnDisk(row[t]))

\* A task that is still coming has no row, unless the command ran over an
\* old one; what is to be graded owes a grade.
OwedOnly ==
  \A t \in Tasks :
    /\ place[t] \in Coming /\ (t \notin mixed \/ cmd.kind = "resume") => row[t] = NoRow
    /\ place[t] = "grade" /\ cmd.phase \in {"clear", "grade"} => OwesAGrade(row[t])

\* The files of a task are those of the execution its row stands for, or of
\* the one that is running.
OwnFiles ==
  \A t \in Tasks \ mixed :
    /\ row[t] # NoRow => files[t] \subseteq {row[t].agent}
    /\ place[t] = "queue" => files[t] = {}
    /\ place[t] \in {"publish", "save"} => files[t] \subseteq {agents[t]}
    /\ t \in orphans => row[t] = NoRow /\ files[t] \subseteq {agents[t]}

BatchInv ==
  /\ TypeOK
  /\ PhaseTrue
  /\ \A t \in Tasks : RowSound(row[t])
  /\ ResultsTrue
  /\ OwedOnly
  /\ OwnFiles
  /\ SummaryTrue
  /\ ScoresOwnFiles

-----------------------------------------------------------------------------
(* Rows.                                                                   *)

\* The row that is not there.
LEMMA NoRowType == NoRow \in Row
BY DEF NoRow, Row, Categories

\* The result of a task that raised.
LEMMA ErrorResultType ==
  /\ ErrorResult \in Row /\ ErrorResult # NoRow /\ RowSound(ErrorResult)
  /\ ErrorResult.cat = "error" /\ ~ ErrorResult.scored
BY DEF ErrorResult, NoRow, Row, Categories, RowSound

\* A result knows whether it is a row.
LEMMA ResultTypes ==
  /\ NoResult \in [row : Row, disk : BOOLEAN]
  /\ InMemory \in [row : Row, disk : BOOLEAN]
  /\ InMemory # NoResult /\ ~ InMemory.disk /\ InMemory.row.cat = "error"
  /\ \A r \in Row : /\ OnDisk(r) \in [row : Row, disk : BOOLEAN]
                    /\ OnDisk(r) # NoResult /\ OnDisk(r).disk /\ OnDisk(r).row = r
BY NoRowType, ErrorResultType DEF NoResult, InMemory, OnDisk

\* A grade leaves the row its execution, and gives it a score.
LEMMA GradedRow ==
  ASSUME NEW r \in Row, r # NoRow, RowSound(r), NEW v \in {"succeeded", "failed"}, NEW s \in SUBSET Nat
  PROVE  LET g == Graded(r, v, s)
         IN  g \in Row /\ g # NoRow /\ RowSound(g) /\ g.agent = r.agent /\ g.seen = s
BY DEF Graded, Row, Categories, NoRow, RowSound

\* A cancelled task's row has no score.
LEMMA CancelledRow ==
  ASSUME NEW r \in Row, cmd.grade \in BOOLEAN
  PROVE  LET c == Cancelled(r)
         IN  c \in Row /\ c # NoRow /\ RowSound(c) /\ c.agent = r.agent /\ c.seen = {}
BY DEF Cancelled, Row, Categories, NoRow, RowSound

\* An executed row has no score yet.
LEMMA ExecutedRow ==
  ASSUME NEW t \in Tasks, agents[t] \in Nat
  PROVE  Executed(t) \in Row /\ Executed(t).agent = agents[t] /\ Executed(t).seen = {}
BY DEF Executed, Row, Categories, NoRow

\* Whatever a run makes of its row, the row stands for this execution, and a
\* score has seen what is visible.
LEMMA FinalizedRow ==
  ASSUME NEW t \in Tasks, agents[t] \in Nat, files[t] \in SUBSET Nat, NEW g \in BOOLEAN, NEW r \in Finalized(t, g)
  PROVE  /\ r \in Row /\ r # NoRow /\ RowSound(r)
         /\ r.agent = agents[t] /\ (r.scored => r.seen = Visible(t))
<1>1. Visible(t) \in SUBSET Nat
  BY DEF Visible
<1> DEFINE r0 == IF g THEN [Executed(t) EXCEPT !.scored = TRUE, !.seen = Visible(t)] ELSE Executed(t)
<1>2. /\ r0 \in Row /\ r0.agent = agents[t] /\ r0.scored = g
      /\ g => r0.seen = Visible(t)
  <2>1. Executed(t) \in Row /\ Executed(t).agent = agents[t] /\ ~ Executed(t).scored
    BY DEF Executed, NoRow, Row, Categories
  <2> HIDE DEF r0
  <2>2. r0 = IF g THEN [Executed(t) EXCEPT !.scored = TRUE, !.seen = Visible(t)] ELSE Executed(t)
    BY DEF r0
  <2> QED BY <1>1, <2>1, <2>2 DEF Row
<1>3. \/ r = [r0 EXCEPT !.cat = "error", !.broke = TRUE]
      \/ g /\ r = [r0 EXCEPT !.cat = "succeeded"]
      \/ r = [r0 EXCEPT !.cat = "failed"]
      \/ r = [r0 EXCEPT !.cat = "error", !.grading = TRUE]
      \/ r = [r0 EXCEPT !.cat = "ungraded"]
  BY DEF Finalized
<1> HIDE DEF r0
<1>4. /\ r \in Row /\ r.cat # "absent" /\ r.agent = r0.agent
      /\ r.scored = r0.scored /\ r.seen = r0.seen /\ (r.cat = "succeeded" => g)
  BY <1>2, <1>3 DEF Row, Categories
<1> QED BY <1>2, <1>4 DEF NoRow, RowSound
-----------------------------------------------------------------------------
(* The steps.                                                              *)

\* A fresh command takes over every task; what it finds is mixed from then on.
LEMMA FreshKeeps ==
  ASSUME BatchInv, NEW g \in BOOLEAN, Fresh(g)
  PROVE  BatchInv'
<1> USE DEF BatchInv, TypeOK, Fresh, Command, In, Phases, Places, Busy
<1>1. NoResult \in [row : Row, disk : BOOLEAN] /\ InMemory # NoResult
  BY ResultTypes
<1>2. TypeOK'
  BY <1>1, BatchAssumption
<1>3. PhaseTrue'
  BY <1>1 DEF PhaseTrue, PlacesIn
<1>4. \A u \in Tasks : RowSound(row'[u])
  BY <1>1
<1>5. ResultsTrue'
  BY <1>1 DEF ResultsTrue, PhaseTrue, PlacesIn
<1>6. OwedOnly'
  BY <1>1 DEF OwedOnly, Coming, PhaseTrue, PlacesIn
<1>7. OwnFiles'
  BY <1>1 DEF OwnFiles, PhaseTrue, OwedOnly, Coming
<1>8. SummaryTrue'
  BY <1>2 DEF SummaryTrue
<1>9. ScoresOwnFiles'
  BY <1>1 DEF ScoresOwnFiles, OwnFiles
<1> QED BY <1>2, <1>3, <1>4, <1>5, <1>6, <1>7, <1>8, <1>9

\* A resume puts a task where its row says.
LEMMA ResumeKeeps ==
  ASSUME BatchInv, NEW g \in BOOLEAN, Resume(g)
  PROVE  BatchInv'
<1> USE DEF BatchInv, TypeOK, Resume, Command, In, Phases, Places, Busy, Partition, disk
<1>1. NoResult \in [row : Row, disk : BOOLEAN] /\ InMemory # NoResult /\ \A r \in Row : OnDisk(r) \in [row : Row, disk : BOOLEAN]
  BY ResultTypes
<1>2. TypeOK'
  BY <1>1, BatchAssumption
<1>3. PhaseTrue'
  BY <1>1 DEF PhaseTrue, PlacesIn
<1>4. \A u \in Tasks : RowSound(row'[u])
  BY <1>1
<1>5. ResultsTrue'
  BY <1>1 DEF ResultsTrue, PhaseTrue, PlacesIn
<1>6. OwedOnly'
  BY <1>1 DEF OwedOnly, Coming, PhaseTrue, PlacesIn
<1>7. OwnFiles'
  BY <1>1 DEF OwnFiles, PhaseTrue, OwedOnly, Coming
<1>8. SummaryTrue'
  BY <1>2 DEF SummaryTrue
<1>9. ScoresOwnFiles'
  BY <1>1 DEF ScoresOwnFiles, OwnFiles
<1> QED BY <1>2, <1>3, <1>4, <1>5, <1>6, <1>7, <1>8, <1>9

\* evaluate grades one row.
LEMMA EvaluateKeeps ==
  ASSUME BatchInv, NEW t \in Tasks, Evaluate(t)
  PROVE  BatchInv'
<1> USE DEF BatchInv, TypeOK, Evaluate, Command, In, Phases, Places, Busy
<1>1. PICK v \in {"succeeded", "failed"} : row' = [row EXCEPT ![t] = Graded(row[t], v, files[t])]
  OBVIOUS
<1>2. row[t] \in Row /\ files[t] \in SUBSET Nat /\ row[t] # NoRow
  OBVIOUS
<1>3. /\ row'[t] \in Row /\ row'[t] # NoRow /\ RowSound(row'[t])
       /\ row'[t].agent = row[t].agent /\ row'[t].seen = files[t]
  BY <1>1, <1>2, GradedRow
<1>4. \A u \in Tasks : u # t => row'[u] = row[u]
  BY <1>1
<1>5. row' \in [Tasks -> Row]
  BY <1>1, <1>3
<1>6. TypeOK'
  BY <1>1, <1>2, <1>3, <1>4, <1>5, BatchAssumption
<1>7. PhaseTrue'
  BY <1>1, <1>2, <1>3, <1>4, <1>5 DEF PhaseTrue, PlacesIn
<1>8. \A u \in Tasks : RowSound(row'[u])
  BY <1>1, <1>2, <1>3, <1>4, <1>5
<1>9. ResultsTrue'
  BY <1>1, <1>2, <1>3, <1>4, <1>5 DEF ResultsTrue, PhaseTrue, PlacesIn
<1>10. OwedOnly'
  BY <1>1, <1>2, <1>3, <1>4, <1>5 DEF OwedOnly, Coming, PhaseTrue, PlacesIn
<1>11. OwnFiles'
  BY <1>1, <1>2, <1>3, <1>4, <1>5 DEF OwnFiles, PhaseTrue, OwedOnly, Coming
<1>12. SummaryTrue'
  BY <1>6 DEF SummaryTrue
<1>13. ScoresOwnFiles'
  BY <1>1, <1>2, <1>3, <1>4, <1>5 DEF ScoresOwnFiles, OwnFiles
<1> QED BY <1>6, <1>7, <1>8, <1>9, <1>10, <1>11, <1>12, <1>13

\* rebuild reads the rows.
LEMMA RebuildKeeps ==
  ASSUME BatchInv, Rebuild
  PROVE  BatchInv'
<1> USE DEF BatchInv, TypeOK, Rebuild, Command, In, Phases, Places, Busy, disk
<1>1. TypeOK'
  BY BatchAssumption
<1>2. PhaseTrue'
  BY DEF PhaseTrue, PlacesIn
<1>3. \A u \in Tasks : RowSound(row'[u])
  OBVIOUS
<1>4. ResultsTrue'
  BY DEF ResultsTrue, PhaseTrue, PlacesIn
<1>5. OwedOnly'
  BY DEF OwedOnly, Coming, PhaseTrue, PlacesIn
<1>6. OwnFiles'
  BY DEF OwnFiles, PhaseTrue, OwedOnly, Coming
<1>7. SummaryTrue'
  BY <1>1 DEF SummaryTrue
<1>8. ScoresOwnFiles'
  BY DEF ScoresOwnFiles, OwnFiles
<1> QED BY <1>1, <1>2, <1>3, <1>4, <1>5, <1>6, <1>7, <1>8

\* The directory of a task that runs again is cleared, or it is mixed.
LEMMA ClearKeeps ==
  ASSUME BatchInv, NEW t \in Tasks, ClearRerunArtifacts(t)
  PROVE  BatchInv'
<1> USE DEF BatchInv, TypeOK, ClearRerunArtifacts, Fault, Places, In, Cleared
<1>1. TypeOK'
  <2>1. CASE files' = [files EXCEPT ![t] = {}] /\ UNCHANGED <<env, mixed>>
    BY <2>1
  <2>2. CASE Fault /\ mixed' = mixed \cup {t} /\ UNCHANGED files
    BY <2>2, BatchAssumption
  <2> QED BY <2>1, <2>2
<1>2. PhaseTrue'
  BY DEF PhaseTrue, PlacesIn
<1>3. \A u \in Tasks : RowSound(row'[u])
  OBVIOUS
<1>4. ResultsTrue'
  BY DEF ResultsTrue, PhaseTrue, PlacesIn
<1>5. OwedOnly'
  BY DEF OwedOnly, Coming, PhaseTrue, PlacesIn
<1>6. OwnFiles'
  BY DEF OwnFiles, PhaseTrue, OwedOnly, Coming
<1>7. SummaryTrue'
  BY <1>1 DEF SummaryTrue
<1>8. ScoresOwnFiles'
  BY DEF ScoresOwnFiles, OwnFiles
<1> QED BY <1>1, <1>2, <1>3, <1>4, <1>5, <1>6, <1>7, <1>8

\* A refused command ends.
LEMMA RefuseKeeps ==
  ASSUME BatchInv, NEW p \in {"clear", "grade"}, NEW q, Refuse(p, q)
  PROVE  BatchInv'
<1> USE DEF BatchInv, TypeOK, Refuse, In, Over, disk, Phases, Places
<1>1. NoResult \in [row : Row, disk : BOOLEAN]
  BY ResultTypes
<1>2. TypeOK'
  BY <1>1, BatchAssumption
<1>3. PhaseTrue'
  BY <1>1 DEF PhaseTrue, PlacesIn
<1>4. \A u \in Tasks : RowSound(row'[u])
  BY <1>1
<1>5. ResultsTrue'
  BY <1>1 DEF ResultsTrue, PhaseTrue, PlacesIn
<1>6. OwedOnly'
  BY <1>1 DEF OwedOnly, Coming, PhaseTrue, PlacesIn
<1>7. OwnFiles'
  BY <1>1 DEF OwnFiles, PhaseTrue, OwedOnly, Coming
<1>8. SummaryTrue'
  BY <1>2 DEF SummaryTrue
<1>9. ScoresOwnFiles'
  BY <1>1 DEF ScoresOwnFiles, OwnFiles
<1> QED BY <1>2, <1>3, <1>4, <1>5, <1>6, <1>7, <1>8, <1>9

\* One phase follows the other.
LEMMA ProceedKeeps ==
  ASSUME BatchInv, \/ Proceed("clear", {"clear"}, "grade", "grade")
         \/ Proceed("grade", {"grade"}, "run", "queue")
  PROVE  BatchInv'
<1> USE DEF BatchInv, TypeOK, Proceed, In, None, Enter, disk, Phases
<1>1. TypeOK'
  BY BatchAssumption
<1>2. PhaseTrue'
  BY DEF PhaseTrue, PlacesIn
<1>3. \A u \in Tasks : RowSound(row'[u])
  OBVIOUS
<1>4. ResultsTrue'
  BY DEF ResultsTrue, PhaseTrue, PlacesIn
<1>5. OwedOnly'
  BY DEF OwedOnly, Coming, PhaseTrue, PlacesIn
<1>6. OwnFiles'
  BY DEF OwnFiles, PhaseTrue, OwedOnly, Coming
<1>7. SummaryTrue'
  BY <1>1 DEF SummaryTrue
<1>8. ScoresOwnFiles'
  BY DEF ScoresOwnFiles, OwnFiles
<1> QED BY <1>1, <1>2, <1>3, <1>4, <1>5, <1>6, <1>7, <1>8

\* A row that owes a grade gets one, or stays.
LEMMA GradeKeeps ==
  ASSUME BatchInv, NEW t \in Tasks, GradeResumedTask(t)
  PROVE  BatchInv'
<1> USE DEF BatchInv, GradeResumedTask, TypeOK, In, Put, Fault, Ungraded, Places
<1>1. row[t] \in Row /\ files[t] \in SUBSET Nat /\ row[t] # NoRow /\ row[t].agent \in Nat
  BY DEF OwedOnly, OwesAGrade, NoRow, Row
<1>2. /\ row'[t] \in Row /\ row'[t] # NoRow /\ RowSound(row'[t]) /\ row'[t].agent = row[t].agent
      /\ row'[t] = row[t] \/ row'[t].seen = files[t]
      /\ \A u \in Tasks : u # t => row'[u] = row[u]
      /\ row' \in [Tasks -> Row] /\ res' = [res EXCEPT ![t] = OnDisk(row'[t])]
  <2>1. CASE UNCHANGED row /\ Put(t, "done", Ungraded(t))
    BY <1>1, <2>1
  <2>2. ASSUME NEW v \in {"succeeded", "failed"}, row' = [row EXCEPT ![t] = Graded(row[t], v, files[t])],
               Put(t, "done", OnDisk(row'[t]))
        PROVE  /\ row'[t] \in Row /\ row'[t] # NoRow /\ RowSound(row'[t]) /\ row'[t].agent = row[t].agent
               /\ row'[t].seen = files[t]
               /\ \A u \in Tasks : u # t => row'[u] = row[u]
               /\ row' \in [Tasks -> Row] /\ res' = [res EXCEPT ![t] = OnDisk(row'[t])]
    <3>1. row'[t] = Graded(row[t], v, files[t])
      BY <2>2
    <3>2. /\ row'[t] \in Row /\ row'[t] # NoRow /\ RowSound(row'[t]) /\ row'[t].agent = row[t].agent
          /\ row'[t].seen = files[t]
      BY <1>1, <3>1, GradedRow
    <3> QED BY <2>2, <3>2
  <2> QED BY <2>1, <2>2
<1>3. OnDisk(row'[t]) \in [row : Row, disk : BOOLEAN]
  BY <1>2, ResultTypes
<1>4. TypeOK'
  BY <1>1, <1>2, <1>3, BatchAssumption
<1>5. PhaseTrue'
  BY <1>1, <1>2, <1>3 DEF PhaseTrue, PlacesIn
<1>6. \A u \in Tasks : RowSound(row'[u])
  BY <1>1, <1>2, <1>3
<1>7. ResultsTrue'
  BY <1>1, <1>2, <1>3 DEF ResultsTrue, PhaseTrue, PlacesIn
<1>8. OwedOnly'
  BY <1>1, <1>2, <1>3 DEF OwedOnly, Coming, PhaseTrue, PlacesIn
<1>9. OwnFiles'
  BY <1>1, <1>2, <1>3 DEF OwnFiles, PhaseTrue, OwedOnly, Coming
<1>10. SummaryTrue'
  BY <1>4 DEF SummaryTrue
<1>11. ScoresOwnFiles'
  BY <1>1, <1>2, <1>3 DEF ScoresOwnFiles, OwnFiles
<1> QED BY <1>4, <1>5, <1>6, <1>7, <1>8, <1>9, <1>10, <1>11

\* An agent starts in a slot.
LEMMA StartKeeps ==
  ASSUME BatchInv, NEW t \in Tasks, StartTask(t)
  PROVE  BatchInv'
<1> USE DEF BatchInv, TypeOK, StartTask, In, Places
<1>1. TypeOK'
  BY BatchAssumption
<1>2. PhaseTrue'
  BY DEF PhaseTrue, PlacesIn
<1>3. \A u \in Tasks : RowSound(row'[u])
  OBVIOUS
<1>4. ResultsTrue'
  BY DEF ResultsTrue, PhaseTrue, PlacesIn
<1>5. OwedOnly'
  BY DEF OwedOnly, Coming, PhaseTrue, PlacesIn
<1>6. OwnFiles'
  BY DEF OwnFiles, PhaseTrue, OwedOnly, Coming
<1>7. SummaryTrue'
  BY <1>1 DEF SummaryTrue
<1>8. ScoresOwnFiles'
  BY DEF ScoresOwnFiles, OwnFiles
<1> QED BY <1>1, <1>2, <1>3, <1>4, <1>5, <1>6, <1>7, <1>8

\* A task is refused in its slot.
LEMMA RefuseUnconfinedKeeps ==
  ASSUME BatchInv, NEW t \in Tasks, RefuseUnconfined(t)
  PROVE  BatchInv'
<1> USE DEF BatchInv, TypeOK, RefuseUnconfined, In, Put, disk, Places
<1>1. NoResult \in [row : Row, disk : BOOLEAN] /\ InMemory \in [row : Row, disk : BOOLEAN] /\ InMemory # NoResult
  BY ResultTypes
<1>2. TypeOK'
  BY <1>1, BatchAssumption
<1>3. PhaseTrue'
  BY <1>1 DEF PhaseTrue, PlacesIn
<1>4. \A u \in Tasks : RowSound(row'[u])
  BY <1>1
<1>5. ResultsTrue'
  BY <1>1 DEF ResultsTrue, PhaseTrue, PlacesIn
<1>6. OwedOnly'
  BY <1>1 DEF OwedOnly, Coming, PhaseTrue, PlacesIn
<1>7. OwnFiles'
  BY <1>1 DEF OwnFiles, PhaseTrue, OwedOnly, Coming
<1>8. SummaryTrue'
  BY <1>2 DEF SummaryTrue
<1>9. ScoresOwnFiles'
  BY <1>1 DEF ScoresOwnFiles, OwnFiles
<1> QED BY <1>2, <1>3, <1>4, <1>5, <1>6, <1>7, <1>8, <1>9

\* A sandbox is moved into the directory.
LEMMA PublishKeeps ==
  ASSUME BatchInv, NEW t \in Tasks, Publish(t)
  PROVE  BatchInv'
<1> USE DEF BatchInv, TypeOK, Publish, In, Places
<1>1. TypeOK'
  BY BatchAssumption
<1>2. PhaseTrue'
  BY DEF PhaseTrue, PlacesIn
<1>3. \A u \in Tasks : RowSound(row'[u])
  OBVIOUS
<1>4. ResultsTrue'
  BY DEF ResultsTrue, PhaseTrue, PlacesIn
<1>5. OwedOnly'
  BY DEF OwedOnly, Coming, PhaseTrue, PlacesIn
<1>6. OwnFiles'
  BY DEF OwnFiles, PhaseTrue, OwedOnly, Coming
<1>7. SummaryTrue'
  BY <1>1 DEF SummaryTrue
<1>8. ScoresOwnFiles'
  BY DEF ScoresOwnFiles, OwnFiles
<1> QED BY <1>1, <1>2, <1>3, <1>4, <1>5, <1>6, <1>7, <1>8

\* A run saves its row.
LEMMA SaveKeeps ==
  ASSUME BatchInv, NEW t \in Tasks, SaveRow(t)
  PROVE  BatchInv'
<1> USE DEF BatchInv, TypeOK, SaveRow, In, Put, Fault, Places
<1>1. agents[t] \in Nat /\ files[t] \in SUBSET Nat /\ cmd.grade \in BOOLEAN
  OBVIOUS
<1>2. PICK r \in Finalized(t, cmd.grade) :
         /\ row' = [row EXCEPT ![t] = r]
         /\ \/ Put(t, "done", OnDisk(r)) /\ UNCHANGED env
            \/ Put(t, "done", InMemory) /\ Fault
  OBVIOUS
<1>3. /\ r \in Row /\ r # NoRow /\ RowSound(r)
      /\ r.agent = agents[t] /\ (r.scored => r.seen = Visible(t))
  BY <1>1, <1>2, FinalizedRow
<1>4. row' \in [Tasks -> Row] /\ row'[t] = r /\ \A u \in Tasks : u # t => row'[u] = row[u]
  BY <1>2, <1>3
<1>5. NoResult \in [row : Row, disk : BOOLEAN] /\ InMemory \in [row : Row, disk : BOOLEAN] /\ InMemory # NoResult
  BY ResultTypes
<1>6. OnDisk(r) \in [row : Row, disk : BOOLEAN]
  BY <1>3, ResultTypes
<1>7. t \notin mixed => Visible(t) \subseteq {agents[t]}
  BY DEF Visible, OwnFiles
<1>8. env' \in [commands : 0..MaxCommands, kills : 0..MaxKills, faults : 0..MaxFaults]
  BY <1>2, BatchAssumption
<1>9. res' \in [Tasks -> [row : Row, disk : BOOLEAN]] /\ place' \in [Tasks -> Places]
  <2>1. res[t] \in [row : Row, disk : BOOLEAN]
    OBVIOUS
  <2>2. place' = [place EXCEPT ![t] = "done"]
    BY <1>2
  <2>3. \E x \in [row : Row, disk : BOOLEAN] : res' = [res EXCEPT ![t] = x]
    BY <1>2, <1>5, <1>6
  <2> QED BY <2>2, <2>3
<1>10. TypeOK'
  BY <1>4, <1>8, <1>9
<1>11. PhaseTrue'
  BY <1>1, <1>2, <1>3, <1>4, <1>5, <1>6, <1>7, <1>8, <1>9 DEF PhaseTrue, PlacesIn
<1>12. \A u \in Tasks : RowSound(row'[u])
  BY <1>1, <1>2, <1>3, <1>4, <1>5, <1>6, <1>7, <1>8, <1>9
<1>13. ResultsTrue'
  BY <1>1, <1>2, <1>3, <1>4, <1>5, <1>6, <1>7, <1>8, <1>9 DEF ResultsTrue, PhaseTrue, PlacesIn
<1>14. OwedOnly'
  BY <1>1, <1>2, <1>3, <1>4, <1>5, <1>6, <1>7, <1>8, <1>9 DEF OwedOnly, Coming, PhaseTrue, PlacesIn
<1>15. OwnFiles'
  BY <1>1, <1>2, <1>3, <1>4, <1>5, <1>6, <1>7, <1>8, <1>9 DEF OwnFiles, PhaseTrue, OwedOnly, Coming
<1>16. SummaryTrue'
  BY <1>10 DEF SummaryTrue
<1>17. ScoresOwnFiles'
  BY <1>1, <1>2, <1>3, <1>4, <1>5, <1>6, <1>7, <1>8, <1>9 DEF ScoresOwnFiles, OwnFiles
<1> QED BY <1>10, <1>11, <1>12, <1>13, <1>14, <1>15, <1>16, <1>17

\* A task raises.
LEMMA RaiseKeeps ==
  ASSUME BatchInv, NEW t \in Tasks, TaskRaises(t)
  PROVE  BatchInv'
<1> USE DEF BatchInv, TypeOK, TaskRaises, In, Put, disk, Fault, FailedTask, Active, Places
<1>1. NoResult \in [row : Row, disk : BOOLEAN] /\ InMemory \in [row : Row, disk : BOOLEAN] /\ InMemory # NoResult
  BY ResultTypes
<1>2. TypeOK'
  BY <1>1, BatchAssumption
<1>3. PhaseTrue'
  BY <1>1 DEF PhaseTrue, PlacesIn
<1>4. \A u \in Tasks : RowSound(row'[u])
  BY <1>1
<1>5. ResultsTrue'
  BY <1>1 DEF ResultsTrue, PhaseTrue, PlacesIn
<1>6. OwedOnly'
  BY <1>1 DEF OwedOnly, Coming, PhaseTrue, PlacesIn
<1>7. OwnFiles'
  BY <1>1 DEF OwnFiles, PhaseTrue, OwedOnly, Coming
<1>8. SummaryTrue'
  BY <1>2 DEF SummaryTrue
<1>9. ScoresOwnFiles'
  BY <1>1 DEF ScoresOwnFiles, OwnFiles
<1> QED BY <1>2, <1>3, <1>4, <1>5, <1>6, <1>7, <1>8, <1>9

\* A container leaves nothing.
LEMMA ContainerFailsKeeps ==
  ASSUME BatchInv, NEW t \in Tasks, ContainerFails(t)
  PROVE  BatchInv'
<1> USE DEF BatchInv, TypeOK, ContainerFails, In, Put, Fault, FailedTask, Active, Places
<1>1. NoResult \in [row : Row, disk : BOOLEAN] /\ InMemory \in [row : Row, disk : BOOLEAN] /\ InMemory # NoResult
  BY ResultTypes
<1>2. agents[t] \in Nat /\ row[t] \in Row
  OBVIOUS
<1>3. LET e == [ErrorResult EXCEPT !.agent = agents[t]]
      IN  e \in Row /\ e # NoRow /\ RowSound(e) /\ e.agent = agents[t] /\ ~ e.scored
  BY <1>2, ErrorResultType DEF Row, NoRow, RowSound
<1>4. /\ row'[t] \in Row /\ RowSound(row'[t]) /\ row' \in [Tasks -> Row]
      /\ row'[t] = row[t] \/ (row[t] = NoRow /\ row'[t].agent = agents[t] /\ ~ row'[t].scored)
      /\ \A u \in Tasks : u # t => row'[u] = row[u]
  BY <1>2, <1>3
<1>5. TypeOK'
  BY <1>1, <1>2, <1>3, <1>4, BatchAssumption
<1>6. PhaseTrue'
  BY <1>1, <1>2, <1>3, <1>4 DEF PhaseTrue, PlacesIn
<1>7. \A u \in Tasks : RowSound(row'[u])
  BY <1>1, <1>2, <1>3, <1>4
<1>8. ResultsTrue'
  BY <1>1, <1>2, <1>3, <1>4 DEF ResultsTrue, PhaseTrue, PlacesIn
<1>9. OwedOnly'
  BY <1>1, <1>2, <1>3, <1>4 DEF OwedOnly, Coming, PhaseTrue, PlacesIn
<1>10. OwnFiles'
  BY <1>1, <1>2, <1>3, <1>4 DEF OwnFiles, PhaseTrue, OwedOnly, Coming
<1>11. SummaryTrue'
  BY <1>5 DEF SummaryTrue
<1>12. ScoresOwnFiles'
  BY <1>1, <1>2, <1>3, <1>4 DEF ScoresOwnFiles, OwnFiles
<1> QED BY <1>5, <1>6, <1>7, <1>8, <1>9, <1>10, <1>11, <1>12

\* run_batch's results become run.json.
LEMMA SummarizeKeeps ==
  ASSUME BatchInv, Summarize
  PROVE  BatchInv'
<1> USE DEF BatchInv, TypeOK, Summarize, Over, disk, Phases, Places, In, None
<1>1. NoResult \in [row : Row, disk : BOOLEAN] /\ InMemory \in [row : Row, disk : BOOLEAN] /\ InMemory # NoResult
  BY ResultTypes
<1>2. TypeOK'
  <2>1. summary' \in [{u \in Tasks : res[u] # NoResult} -> [row : Row, disk : BOOLEAN]]
    OBVIOUS
  <2>2. Listing(summary')
    BY <2>1 DEF Listing
  <2>3. cmd' = [cmd EXCEPT !.phase = "idle", !.exit = Exit(cmd.grade)] /\ Exit(cmd.grade) \in {"ok", "failed"}
    BY DEF Exit
  <2> QED BY <1>1, <2>2, <2>3
<1>3. PhaseTrue'
  BY <1>1 DEF PhaseTrue, PlacesIn
<1>4. \A u \in Tasks : RowSound(row'[u])
  BY <1>1
<1>5. ResultsTrue'
  BY <1>1 DEF ResultsTrue, PhaseTrue, PlacesIn
<1>6. OwedOnly'
  BY <1>1 DEF OwedOnly, Coming, PhaseTrue, PlacesIn
<1>7. OwnFiles'
  BY <1>1 DEF OwnFiles, PhaseTrue, OwedOnly, Coming
<1>8. SummaryTrue'
  <2>1. summary' = [t \in {u \in Tasks : res[u] # NoResult} |-> res[t]] /\ UNCHANGED row
    OBVIOUS
  <2>2. \A t \in Tasks : place[t] = "done"
    BY DEF PhaseTrue, PlacesIn
  <2>3. \A t \in Tasks : /\ res[t] # NoResult
                         /\ res[t] = InMemory \/ (row[t] # NoRow /\ res[t] = OnDisk(row[t]))
    BY <2>2, ResultTypes DEF ResultsTrue, OnDisk, NoResult
  <2>4. DOMAIN summary' = Tasks /\ \A t \in Tasks : summary'[t] = res[t]
    BY <2>1, <2>3
  <2>5. \A t \in Tasks : summary'[t].disk => summary'[t].row = row'[t] /\ row'[t] # NoRow
    BY <2>1, <2>3, <2>4, ResultTypes
  <2>6. ASSUME cmd'.exit = "ok", cmd'.grade, NEW t \in Tasks
        PROVE  row'[t].cat = "succeeded" /\ row'[t].scored
    <3>0. cmd.grade /\ Exit(cmd.grade) = "ok"
      BY <2>6
    <3>1. res[t].row.cat \notin {"failed", "error", "ungraded"}
      <4> HIDE DEF BatchInv, TypeOK, Summarize, disk
      <4> QED BY <2>3, <3>0 DEF Exit
    <3>2. row[t] # NoRow /\ res[t].row = row[t] /\ row[t] \in Row
      BY <2>3, <3>1, ResultTypes
    <3> QED BY <2>1, <3>1, <3>2 DEF RowSound, Row, Categories
  <2>7. cmd'.kind \in {"fresh", "resume"}
    BY DEF PhaseTrue
  <2> QED BY <1>2, <2>4, <2>5, <2>6, <2>7 DEF SummaryTrue
<1>9. ScoresOwnFiles'
  BY <1>1 DEF ScoresOwnFiles, OwnFiles
<1> QED BY <1>2, <1>3, <1>4, <1>5, <1>6, <1>7, <1>8, <1>9

\* evaluate and rebuild read the rows again.
LEMMA RefreshKeeps ==
  ASSUME BatchInv, Refresh
  PROVE  BatchInv'
<1> USE DEF BatchInv, TypeOK, Refresh, Over, disk, Phases, Places, In, Recovered
<1>1. NoResult \in [row : Row, disk : BOOLEAN] /\ InMemory \in [row : Row, disk : BOOLEAN] /\ InMemory # NoResult
  BY ResultTypes
<1>2. \A t \in Tasks : OnDisk(row[t]) \in [row : Row, disk : BOOLEAN] /\ OnDisk(row[t]).row = row[t]
  BY ResultTypes
<1>3. Recovered \in [{u \in Tasks : row[u] # NoRow} -> [row : Row, disk : BOOLEAN]]
  BY <1>2
<1>4. TypeOK'
  <2>1. Listing(Recovered)
    BY <1>3 DEF Listing
  <2>2. Listing(summary')
    BY <2>1
  <2> QED BY <1>1, <2>2
<1>5. PhaseTrue'
  BY <1>1, <1>2, <1>3 DEF PhaseTrue, PlacesIn
<1>6. \A u \in Tasks : RowSound(row'[u])
  BY <1>1, <1>2, <1>3
<1>7. ResultsTrue'
  BY <1>1, <1>2, <1>3 DEF ResultsTrue, PhaseTrue, PlacesIn
<1>8. OwedOnly'
  BY <1>1, <1>2, <1>3 DEF OwedOnly, Coming, PhaseTrue, PlacesIn
<1>9. OwnFiles'
  BY <1>1, <1>2, <1>3 DEF OwnFiles, PhaseTrue, OwedOnly, Coming
<1>10. SummaryTrue'
  <2>1. cmd'.kind = cmd.kind /\ cmd.kind \in {"evaluate", "rebuild"} /\ UNCHANGED row
    BY DEF PhaseTrue
  <2>2. \/ cmd.kind = "evaluate" /\ summary = << >> /\ summary' = << >>
        \/ summary' = Recovered
    OBVIOUS
  <2>3. CASE summary' = Recovered
    <3>1. \A t \in DOMAIN summary' : summary'[t] = OnDisk(row[t]) /\ row[t] # NoRow /\ t \in Tasks
      BY <2>3
    <3>2. \A t \in Tasks : row[t] # NoRow => t \in DOMAIN summary'
      BY <2>3
    <3> QED BY <1>4, <1>2, <2>1, <3>1, <3>2 DEF SummaryTrue
  <2>4. CASE cmd.kind = "evaluate" /\ summary' = << >>
    <3>1. DOMAIN summary' = {}
      BY <2>4
    <3> QED BY <1>4, <2>1, <2>4, <3>1 DEF SummaryTrue
  <2> QED BY <2>2, <2>3, <2>4
<1>11. ScoresOwnFiles'
  BY <1>1, <1>2, <1>3 DEF ScoresOwnFiles, OwnFiles
<1> QED BY <1>4, <1>5, <1>6, <1>7, <1>8, <1>9, <1>10, <1>11

\* Ctrl-C cancels the tasks, and perhaps a grade in place.
LEMMA InterruptKeeps ==
  ASSUME BatchInv, Interrupt
  PROVE  BatchInv'
<1> USE DEF BatchInv, Interrupt, TypeOK, In, Cut, Enter, Busy, Phases, Places
<1>1. \/ UNCHANGED row
      \/ \E t \in Tasks : /\ place[t] = "grade" /\ row' = [row EXCEPT ![t] = Cancelled(row[t])]
                          /\ row[t] \in Row /\ cmd.grade \in BOOLEAN
  OBVIOUS
<1>2. \A u \in Tasks :
        \/ row'[u] = row[u]
        \/ /\ place[u] = "grade" /\ row'[u] \in Row /\ row'[u] # NoRow /\ RowSound(row'[u])
           /\ row'[u].seen = {} /\ row'[u].agent = row[u].agent
  BY <1>1, CancelledRow
<1>3. row' \in [Tasks -> Row]
  BY <1>1, CancelledRow
<1>4. \A u \in Tasks : place[u] = "grade" => row[u] # NoRow
  BY DEF OwedOnly, PhaseTrue, PlacesIn, OwesAGrade, NoRow
<1>5. TypeOK'
  BY <1>1, <1>2, <1>3, <1>4, BatchAssumption
<1>6. PhaseTrue'
  BY <1>1, <1>2, <1>3, <1>4 DEF PhaseTrue, PlacesIn
<1>7. \A u \in Tasks : RowSound(row'[u])
  BY <1>1, <1>2, <1>3, <1>4
<1>8. ResultsTrue'
  BY <1>1, <1>2, <1>3, <1>4 DEF ResultsTrue, PhaseTrue, PlacesIn
<1>9. OwedOnly'
  BY <1>1, <1>2, <1>3, <1>4 DEF OwedOnly, Coming, PhaseTrue, PlacesIn
<1>10. OwnFiles'
  BY <1>1, <1>2, <1>3, <1>4 DEF OwnFiles, PhaseTrue, OwedOnly, Coming
<1>11. SummaryTrue'
  BY <1>5 DEF SummaryTrue
<1>12. ScoresOwnFiles'
  BY <1>1, <1>2, <1>3, <1>4 DEF ScoresOwnFiles, OwnFiles
<1> QED BY <1>5, <1>6, <1>7, <1>8, <1>9, <1>10, <1>11, <1>12

\* A cancelled task in a slot still writes its row.
LEMMA FinalizeCancelledKeeps ==
  ASSUME BatchInv, NEW t \in Tasks, FinalizeCancelled(t)
  PROVE  BatchInv'
<1> USE DEF BatchInv, TypeOK, FinalizeCancelled, In, Places
<1>1. agents[t] \in Nat /\ cmd.grade \in BOOLEAN
  OBVIOUS
<1>2. LET c == Cancelled(Executed(t))
      IN  c \in Row /\ c # NoRow /\ RowSound(c) /\ c.agent = agents[t] /\ c.seen = {}
  BY <1>1, ExecutedRow, CancelledRow
<1>3. /\ row' \in [Tasks -> Row]
      /\ \A u \in Tasks : u # t => row'[u] = row[u]
      /\ \/ row'[t] = row[t]
         \/ row'[t] # NoRow /\ RowSound(row'[t]) /\ row'[t].agent = agents[t] /\ row'[t].seen = {}
  BY <1>2
<1>4. TypeOK'
  BY <1>1, <1>2, <1>3, BatchAssumption
<1>5. PhaseTrue'
  BY <1>1, <1>2, <1>3 DEF PhaseTrue, PlacesIn
<1>6. \A u \in Tasks : RowSound(row'[u])
  BY <1>1, <1>2, <1>3
<1>7. ResultsTrue'
  BY <1>1, <1>2, <1>3 DEF ResultsTrue, PhaseTrue, PlacesIn
<1>8. OwedOnly'
  BY <1>1, <1>2, <1>3 DEF OwedOnly, Coming, PhaseTrue, PlacesIn
<1>9. OwnFiles'
  BY <1>1, <1>2, <1>3 DEF OwnFiles, PhaseTrue, OwedOnly, Coming
<1>10. SummaryTrue'
  BY <1>4 DEF SummaryTrue
<1>11. ScoresOwnFiles'
  BY <1>1, <1>2, <1>3 DEF ScoresOwnFiles, OwnFiles
<1> QED BY <1>4, <1>5, <1>6, <1>7, <1>8, <1>9, <1>10, <1>11

\* The interrupted process ends.
LEMMA DieKeeps ==
  ASSUME BatchInv, Die
  PROVE  BatchInv'
<1> USE DEF BatchInv, TypeOK, Die, In, Over, disk, Phases, Places
<1>1. NoResult \in [row : Row, disk : BOOLEAN] /\ InMemory \in [row : Row, disk : BOOLEAN] /\ InMemory # NoResult
  BY ResultTypes
<1>2. TypeOK'
  BY <1>1, BatchAssumption
<1>3. PhaseTrue'
  BY <1>1 DEF PhaseTrue, PlacesIn
<1>4. \A u \in Tasks : RowSound(row'[u])
  BY <1>1
<1>5. ResultsTrue'
  BY <1>1 DEF ResultsTrue, PhaseTrue, PlacesIn
<1>6. OwedOnly'
  BY <1>1 DEF OwedOnly, Coming, PhaseTrue, PlacesIn
<1>7. OwnFiles'
  BY <1>1 DEF OwnFiles, PhaseTrue, OwedOnly, Coming
<1>8. SummaryTrue'
  BY <1>2 DEF SummaryTrue
<1>9. ScoresOwnFiles'
  BY <1>1 DEF ScoresOwnFiles, OwnFiles
<1> QED BY <1>2, <1>3, <1>4, <1>5, <1>6, <1>7, <1>8, <1>9

\* A killed process leaves what is on disk, and its containers.
LEMMA KillKeeps ==
  ASSUME BatchInv, Kill
  PROVE  BatchInv'
<1> USE DEF BatchInv, TypeOK, Kill, Over, Phases, Places, In, Cut, Busy, Active
<1>1. NoResult \in [row : Row, disk : BOOLEAN] /\ InMemory \in [row : Row, disk : BOOLEAN] /\ InMemory # NoResult
  BY ResultTypes
<1>2. TypeOK'
  <2>1. env' \in [commands : 0..MaxCommands, kills : 0..MaxKills, faults : 0..MaxFaults]
    BY BatchAssumption
  <2>2. orphans' \subseteq Docker
    OBVIOUS
  <2>3. cmd' = [cmd EXCEPT !.phase = "idle", !.exit = "killed"]
    OBVIOUS
  <2> QED BY <1>1, <2>1, <2>2, <2>3
<1>3. PhaseTrue'
  BY <1>1 DEF PhaseTrue, PlacesIn
<1>4. \A u \in Tasks : RowSound(row'[u])
  BY <1>1
<1>5. ResultsTrue'
  BY <1>1 DEF ResultsTrue, PhaseTrue, PlacesIn
<1>6. OwedOnly'
  BY <1>1 DEF OwedOnly, Coming, PhaseTrue, PlacesIn
<1>7. OwnFiles'
  BY <1>1 DEF OwnFiles, PhaseTrue, OwedOnly, Coming
<1>8. SummaryTrue'
  BY <1>2 DEF SummaryTrue
<1>9. ScoresOwnFiles'
  BY <1>1 DEF ScoresOwnFiles, OwnFiles
<1> QED BY <1>2, <1>3, <1>4, <1>5, <1>6, <1>7, <1>8, <1>9

\* A container that outlived its host ends.
LEMMA OrphanKeeps ==
  ASSUME BatchInv, NEW t \in Tasks, OrphanEnds(t)
  PROVE  BatchInv'
<1> USE DEF BatchInv, OrphanEnds, TypeOK, In, Busy
<1>1. agents[t] \in Nat /\ files[t] \in SUBSET Nat /\ cmd.grade \in BOOLEAN
  OBVIOUS
<1>2. t \in Docker /\ Visible(t) = files[t] /\ In("idle") /\ cmd.exit = "killed" /\ place[t] = "out"
  BY DEF Visible, PhaseTrue, PlacesIn
<1>3. /\ row' \in [Tasks -> Row]
      /\ \A u \in Tasks : u # t => row'[u] = row[u]
      /\ \/ row'[t] = row[t]
         \/ /\ row'[t] # NoRow /\ RowSound(row'[t]) /\ row'[t].agent = agents[t]
            /\ row'[t].scored => row'[t].seen = files[t]
  <2>1. \A r \in Finalized(t, cmd.grade) :
          /\ r \in Row /\ r # NoRow /\ RowSound(r)
          /\ r.agent = agents[t] /\ (r.scored => r.seen = files[t])
    BY <1>1, <1>2, FinalizedRow
  <2> QED BY <2>1
<1>4. TypeOK'
  BY <1>1, <1>2, <1>3, BatchAssumption
<1>5. PhaseTrue'
  BY <1>1, <1>2, <1>3 DEF PhaseTrue, PlacesIn
<1>6. \A u \in Tasks : RowSound(row'[u])
  BY <1>1, <1>2, <1>3
<1>7. ResultsTrue'
  BY <1>1, <1>2, <1>3 DEF ResultsTrue, PhaseTrue, PlacesIn
<1>8. OwedOnly'
  BY <1>1, <1>2, <1>3 DEF OwedOnly, Coming, PhaseTrue, PlacesIn
<1>9. OwnFiles'
  BY <1>1, <1>2, <1>3 DEF OwnFiles, PhaseTrue, OwedOnly, Coming
<1>10. SummaryTrue'
  BY <1>4, <1>2 DEF SummaryTrue
<1>11. ScoresOwnFiles'
  BY <1>1, <1>2, <1>3 DEF ScoresOwnFiles, OwnFiles
<1> QED BY <1>4, <1>5, <1>6, <1>7, <1>8, <1>9, <1>10, <1>11

-----------------------------------------------------------------------------
(* The theorems.                                                           *)

\* The initial states.
LEMMA InitHolds == Init => BatchInv
<1> SUFFICES ASSUME Init PROVE BatchInv
  OBVIOUS
<1> USE DEF Init
<1>1. NoRow \in Row /\ NoResult \in [row : Row, disk : BOOLEAN]
  BY NoRowType, ResultTypes
<1>2. Listing(summary)
  <2>1. summary \in [{} -> [row : Row, disk : BOOLEAN]]
    OBVIOUS
  <2> QED BY <2>1 DEF Listing
<1>3. TypeOK
  <2>1. env \in [commands : 0..MaxCommands, kills : 0..MaxKills, faults : 0..MaxFaults]
    BY BatchAssumption
  <2>2. cmd \in [kind : {"none", "fresh", "resume", "evaluate", "rebuild"}, grade : BOOLEAN,
                  phase : Phases, exit : {"none", "ok", "failed", "refused", "killed"}]
    BY DEF Phases
  <2> QED BY <1>1, <1>2, <2>1, <2>2 DEF TypeOK, Places
<1>4. PhaseTrue /\ ResultsTrue
  BY DEF PhaseTrue, PlacesIn, ResultsTrue, In
<1>5. (\A t \in Tasks : RowSound(row[t])) /\ OwedOnly /\ OwnFiles
  BY DEF RowSound, OwedOnly, Coming, OwnFiles
<1>6. SummaryTrue /\ ScoresOwnFiles
  BY <1>3 DEF SummaryTrue, ScoresOwnFiles, In, NoRow
<1> QED BY <1>3, <1>4, <1>5, <1>6 DEF BatchInv

\* Every step of a command at work.
LEMMA WorkKeeps == ASSUME BatchInv, Work PROVE BatchInv'
<1>1. ASSUME NEW t \in Tasks,
             \/ ClearRerunArtifacts(t) \/ GradeResumedTask(t) \/ StartTask(t) \/ RefuseUnconfined(t)
             \/ Publish(t) \/ SaveRow(t) \/ TaskRaises(t) \/ ContainerFails(t) \/ FinalizeCancelled(t)
      PROVE  BatchInv'
  BY <1>1, ClearKeeps, GradeKeeps, StartKeeps, RefuseUnconfinedKeeps, PublishKeeps, SaveKeeps,
     RaiseKeeps, ContainerFailsKeeps, FinalizeCancelledKeeps
<1>2. CASE \/ None({"clear"}) /\ Refuse("clear", "grade")
           \/ None({"grade"}) /\ Refuse("grade", "queue")
  BY <1>2, RefuseKeeps
<1>3. CASE \/ Proceed("clear", {"clear"}, "grade", "grade") \/ Proceed("grade", {"grade"}, "run", "queue")
  BY <1>3, ProceedKeeps
<1>4. CASE Summarize \/ Refresh \/ Die
  BY <1>4, SummarizeKeeps, RefreshKeeps, DieKeeps
<1> QED BY <1>1, <1>2, <1>3, <1>4 DEF Work

\* Every step, and a stutter.
LEMMA StepHolds == ASSUME BatchInv, [Next]_vars PROVE BatchInv'
<1>1. CASE \E g \in BOOLEAN : Fresh(g) \/ Resume(g)
  BY <1>1, FreshKeeps, ResumeKeeps
<1>2. CASE \E t \in Tasks : Evaluate(t) \/ OrphanEnds(t)
  BY <1>2, EvaluateKeeps, OrphanKeeps
<1>3. CASE Rebuild \/ Interrupt \/ Kill
  BY <1>3, RebuildKeeps, InterruptKeeps, KillKeeps
<1>4. CASE Work
  BY <1>4, WorkKeeps
<1>5. CASE UNCHANGED vars
  <2>1. UNCHANGED <<setup, row, files, agents, orphans, mixed, cmd, place, res, summary, env>>
    BY <1>5 DEF vars, disk
  <2> QED BY <2>1 DEF BatchInv, TypeOK, PhaseTrue, PlacesIn, RowSound, ResultsTrue, OwedOnly, OwnFiles,
             SummaryTrue, ScoresOwnFiles, In, InMemory, OnDisk, NoResult, Coming
<1> QED BY <1>1, <1>2, <1>3, <1>4, <1>5 DEF Next

\* The invariant of a run directory.
LEMMA Inductive == Spec => []BatchInv
<1>1. BatchInv /\ [Next]_vars => BatchInv'
  BY StepHolds
<1> QED BY InitHolds, <1>1, PTL DEF Spec

\* Whatever is killed, raises or is cancelled, run.json agrees with the rows
\* on disk, an exit code 0 of `run' means that every task succeeded, and a
\* score is computed on the files of its own execution.
THEOREM DirectoryAgrees == Spec => []DirectoryTrue
<1>1. BatchInv => DirectoryTrue
  BY DEF BatchInv, DirectoryTrue
<1> QED BY Inductive, <1>1, PTL

\* A step of a resumed command starts an agent only where no row is, and
\* touches a row only where it owes a grade.
LEMMA ResumeStep ==
  ASSUME BatchInv, [Next]_vars, Busy, cmd.kind = "resume", NEW t \in Tasks
  PROVE  /\ agents'[t] # agents[t] => row[t] = NoRow
         /\ row'[t] # row[t] => ~ row[t].scored \/ row[t].grading
<1> USE DEF BatchInv
<1>1. /\ place[t] \in Coming => row[t] = NoRow
      /\ place[t] = "grade" /\ cmd.phase \in {"clear", "grade"} => ~ row[t].scored \/ row[t].grading
      /\ cmd.phase = "run" => place[t] # "grade"
      /\ orphans = {}
  BY DEF OwedOnly, OwesAGrade, PhaseTrue, PlacesIn, Busy, In
<1>2. ~ NoRow.scored
  BY DEF NoRow
<1>3. ASSUME NEW u \in Tasks,
             \/ StartTask(u) \/ SaveRow(u) \/ ContainerFails(u) \/ FinalizeCancelled(u)
      PROVE  /\ UNCHANGED agents \/ (place[u] \in Coming /\ agents' = [agents EXCEPT ![u] = agents[u] + 1])
             /\ UNCHANGED row \/ (place[u] \in Coming /\ \E r : row' = [row EXCEPT ![u] = r])
  BY <1>3 DEF StartTask, SaveRow, ContainerFails, FinalizeCancelled, Active, Coming
<1>4. ASSUME NEW u \in Tasks, GradeResumedTask(u)
      PROVE  /\ UNCHANGED agents
             /\ UNCHANGED row \/ (place[u] = "grade" /\ cmd.phase = "grade" /\ \E r : row' = [row EXCEPT ![u] = r])
  BY <1>4 DEF GradeResumedTask, In
<1>5. ASSUME Interrupt
      PROVE  /\ UNCHANGED agents
             /\ \/ UNCHANGED row
                \/ \E u \in Tasks : place[u] = "grade" /\ cmd.phase \in {"grade", "run"}
                                    /\ \E r : row' = [row EXCEPT ![u] = r]
  BY <1>5 DEF Interrupt
<1>6. ASSUME NEW u \in Tasks,
             \/ ClearRerunArtifacts(u) \/ RefuseUnconfined(u) \/ Publish(u) \/ TaskRaises(u)
      PROVE  UNCHANGED <<agents, row>>
  BY <1>6 DEF ClearRerunArtifacts, RefuseUnconfined, Publish, TaskRaises, disk
<1>7. ASSUME \/ \E p, q \in Phases \cup Places : Refuse(p, q)
             \/ Proceed("clear", {"clear"}, "grade", "grade") \/ Proceed("grade", {"grade"}, "run", "queue")
             \/ Summarize \/ Refresh \/ Die \/ Kill \/ UNCHANGED vars
      PROVE  UNCHANGED <<agents, row>>
  BY <1>7 DEF Refuse, Proceed, Summarize, Refresh, Die, Kill, vars, disk
<1>8. ~ Rebuild /\ \A g \in BOOLEAN : ~ Fresh(g) /\ ~ Resume(g)
  BY DEF Rebuild, Fresh, Resume, Command, Busy
<1>9. \A u \in Tasks : ~ Evaluate(u) /\ ~ OrphanEnds(u)
  BY <1>1 DEF Evaluate, OrphanEnds, Command, Busy
<1>10. row \in [Tasks -> Row] /\ agents \in [Tasks -> Nat]
  BY DEF TypeOK
<1>11. CASE \E u \in Tasks : StartTask(u) \/ SaveRow(u) \/ ContainerFails(u) \/ FinalizeCancelled(u)
  BY <1>1, <1>2, <1>3, <1>10, <1>11
<1>12. CASE \E u \in Tasks : GradeResumedTask(u)
  BY <1>1, <1>4, <1>10, <1>12
<1>13. CASE Interrupt
  BY <1>1, <1>5, <1>10, <1>13
<1>14. CASE UNCHANGED <<agents, row>>
  BY <1>14
<1> QED BY <1>6, <1>7, <1>8, <1>9, <1>11, <1>12, <1>13, <1>14 DEF Next, Work, Phases, Places

\* A resumed command pays for nothing twice.
THEOREM PaidOnce == Spec => NothingPaidTwice
<1>1. BatchInv /\ [Next]_vars =>
        (Busy /\ cmd.kind = "resume" =>
           \A t \in Tasks : /\ agents'[t] # agents[t] => row[t] = NoRow
                            /\ row'[t] # row[t] => ~ row[t].scored \/ row[t].grading)
  BY ResumeStep
<1> QED BY Inductive, <1>1, PTL DEF Spec, NothingPaidTwice

-----------------------------------------------------------------------------
(* The list of runs a command starts from (TaskList).                      *)

\* The replicates of a file, the rows it owes, and what --sample may draw of
\* them, for one case of the list.
Copied(c, f) == IF c.files[f].trials > 1 THEN c.files[f].trials ELSE c.repeats
Due(c, f) ==
  IF c.sample # 0 /\ c.sample < Len(c.files[f].rows) THEN c.sample ELSE Len(c.files[f].rows)
Draws(c, f) ==
  {[i \in 1..Due(c, f) |-> c.files[f].rows[p[i]]] : p \in [1..Due(c, f) -> DOMAIN c.files[f].rows]}

\* Rows that were drawn for a file and are fit to be resolved.
Fit(c, f, rows) == rows \in Draws(c, f) /\ Len(rows) > 0 /\ Cardinality(Plan!Members(rows)) = Len(rows)

\* The run of a file for one row, one variant and one replicate.
RunAt(c, f, x, v, r) ==
  [file |-> f, id |-> <<c.files[f].id, x>>, variant |-> v, rep |-> r, tags |-> c.files[f].tags]

\* The resolution goes through the rows, and for each through the variants.
Reached(i, k, line, variant) == i < line \/ (i = line /\ k < variant)

\* e is one of the runs the resolution of f has made; s holds all of them.
IsRun(e, c, f, rows, line, variant) ==
  \E i \in DOMAIN rows, k \in DOMAIN TaskVariants, r \in 0..(Copied(c, f) - 1) :
    Reached(i, k, line, variant) /\ e = RunAt(c, f, rows[i], TaskVariants[k], r)
HoldsRuns(s, c, f, rows, line, variant) ==
  \A i \in DOMAIN rows, k \in DOMAIN TaskVariants, r \in 0..(Copied(c, f) - 1) :
    Reached(i, k, line, variant) => \E n \in DOMAIN s : s[n] = RunAt(c, f, rows[i], TaskVariants[k], r)

\* All the runs of f, and no others of its.
AllRuns(s, c, f, rows) ==
  /\ \A n \in DOMAIN s : s[n].file = f => IsRun(s[n], c, f, rows, Len(rows) + 1, 1)
  /\ HoldsRuns(s, c, f, rows, Len(rows) + 1, 1)

\* A file the resolution is done with: it is among the skipped or the failed,
\* and has no run, or it has all of its runs.
Settled(f, c, o) ==
  \/ f \in o.skipped \cup o.errors /\ \A n \in DOMAIN o.resolved : o.resolved[n].file # f
  \/ f \notin o.skipped \cup o.errors /\ \E rows \in Draws(c, f) : Fit(c, f, rows) /\ AllRuns(o.resolved, c, f, rows)

SoFar(c, o) ==
  /\ o = [file |-> o.file, rows |-> o.rows, row |-> o.row, variant |-> o.variant, buffer |-> o.buffer,
          resolved |-> o.resolved, skipped |-> o.skipped, errors |-> o.errors, attempted |-> o.attempted]
  /\ o.file \in 1..(Len(c.files) + 1)
  /\ ListOf(o.resolved) /\ ListOf(o.buffer)
  /\ o.skipped \cup o.errors \subseteq 1..(o.file - 1)
  /\ \A n \in DOMAIN o.resolved : o.resolved[n].file \in 1..(o.file - 1)
  /\ \A f \in 1..(o.file - 1) : Settled(f, c, o)

\* The buffer of the file that is being resolved holds its runs so far.
Filling(c, o) ==
  /\ o.file <= Len(c.files)
  /\ Fit(c, o.file, o.rows)
  /\ o.row \in DOMAIN o.rows /\ o.variant \in DOMAIN TaskVariants
  /\ \A n \in DOMAIN o.buffer : IsRun(o.buffer[n], c, o.file, o.rows, o.row, o.variant)
  /\ HoldsRuns(o.buffer, c, o.file, o.rows, o.row, o.variant)

CaseIs(c) == c.files \in TaskSuites /\ c.repeats \in TaskRepeats /\ c.sample \in {0, 1}

PlanInv ==
  /\ CaseIs(case)
  /\ at \in {"load", "resolve"} => SoFar(case, out)
  /\ at = "load" => out.buffer = << >> /\ out.row = 1 /\ out.variant = 1
  /\ at = "resolve" => Filling(case, out)
  /\ TasksAccounted

-----------------------------------------------------------------------------
(* The order of the runs.                                                  *)

\* The counts of the instance are the counts of the library.
LEMMA PlanCardinality ==
  ASSUME NEW S
  PROVE  Plan!Cardinality(S) = Cardinality(S)
BY DEF Plan!Cardinality, Cardinality

\* The runs at the places K have keys that can be compared.
Keyed(s, K) ==
  /\ K \subseteq Nat
  /\ \A i \in K : s[i].rep \in Int /\ s[i].file \in Int /\ Plan!Rank(s[i].variant) \in Int

\* The key of one run, taken apart.
LEMMA BeforeIs ==
  ASSUME NEW s, NEW K, Keyed(s, K), NEW i \in K, NEW j \in K
  PROVE  Plan!Before(s, i, j) <=>
           \/ s[i].rep < s[j].rep
           \/ s[i].rep = s[j].rep /\ s[i].file < s[j].file
           \/ s[i].rep = s[j].rep /\ s[i].file = s[j].file /\ Plan!Rank(s[i].variant) < Plan!Rank(s[j].variant)
           \/ s[i].rep = s[j].rep /\ s[i].file = s[j].file /\ Plan!Rank(s[i].variant) = Plan!Rank(s[j].variant) /\ i < j
<1> DEFINE a == s[i].rep
           b == s[i].file
           v == Plan!Rank(s[i].variant)
           p == s[j].rep
           q == s[j].file
           w == Plan!Rank(s[j].variant)
<1>1. Plan!SortKey(s[i]) = <<a, b, v>> /\ Plan!SortKey(s[j]) = <<p, q, w>>
  BY DEF Plan!SortKey
<1>2. a \in Int /\ b \in Int /\ v \in Int /\ p \in Int /\ q \in Int /\ w \in Int
  BY DEF Keyed
<1> HIDE DEF a, b, v, p, q, w
<1>3. Plan!Less(<<a, b, v>>, <<p, q, w>>) <=> a < p \/ (a = p /\ (b < q \/ (b = q /\ v < w)))
  BY DEF Plan!Less
<1>4. <<a, b, v>> = <<p, q, w>> <=> a = p /\ b = q /\ v = w
  OBVIOUS
<1>5. Plan!Before(s, i, j) <=> \/ a < p
                               \/ a = p /\ b < q
                               \/ a = p /\ b = q /\ v < w
                               \/ a = p /\ b = q /\ v = w /\ i < j
  BY <1>1, <1>3, <1>4 DEF Plan!Before
<1> QED BY <1>5 DEF a, b, v, p, q, w

\* Of two places one is before the other, and what is before that is before it.
LEMMA BeforeOrders ==
  ASSUME NEW s, NEW K, Keyed(s, K)
  PROVE  /\ \A i \in K : ~ Plan!Before(s, i, i)
         /\ \A i, j \in K : i # j => Plan!Before(s, i, j) \/ Plan!Before(s, j, i)
         /\ \A i, j, k \in K : Plan!Before(s, i, j) /\ Plan!Before(s, j, k) => Plan!Before(s, i, k)
<1> DEFINE a(i) == s[i].rep
           b(i) == s[i].file
           v(i) == Plan!Rank(s[i].variant)
<1>1. \A i \in K : i \in Nat /\ a(i) \in Int /\ b(i) \in Int /\ v(i) \in Int
  BY DEF Keyed
<1>2. \A i, j \in K :
        Plan!Before(s, i, j) <=> \/ a(i) < a(j)
                                 \/ a(i) = a(j) /\ b(i) < b(j)
                                 \/ a(i) = a(j) /\ b(i) = b(j) /\ v(i) < v(j)
                                 \/ a(i) = a(j) /\ b(i) = b(j) /\ v(i) = v(j) /\ i < j
  BY BeforeIs
<1> HIDE DEF a, b, v
<1>3. \A i \in K : ~ Plan!Before(s, i, i)
  BY <1>1, <1>2
<1>4. \A i, j \in K : i # j => Plan!Before(s, i, j) \/ Plan!Before(s, j, i)
  BY <1>1, <1>2
<1>5. \A i, j, k \in K : Plan!Before(s, i, j) /\ Plan!Before(s, j, k) => Plan!Before(s, i, k)
  BY <1>1, <1>2
<1> QED BY <1>3, <1>4, <1>5

\* No two of the places have as many before them, and every number occurs.
LEMMA AheadPlaces ==
  ASSUME NEW s, NEW K, Keyed(s, K), IsFiniteSet(K)
  PROVE  /\ \A i, j \in K : Plan!Before(s, i, j) => Plan!Ahead(s, K, i) < Plan!Ahead(s, K, j)
         /\ \A i, j \in K : Plan!Ahead(s, K, i) = Plan!Ahead(s, K, j) => i = j
         /\ Cardinality(K) \in Nat
         /\ \A n \in 1..Cardinality(K) : \E i \in K : Plan!Ahead(s, K, i) = n - 1
         /\ \A i \in K : Plan!Ahead(s, K, i) \in 0..(Cardinality(K) - 1)
<1> DEFINE A(i) == {j \in K : Plan!Before(s, j, i)}
           B(i, j) == Plan!Before(s, i, j)
<1>1. /\ \A i \in K : ~ B(i, i)
      /\ \A i, j \in K : i # j => B(i, j) \/ B(j, i)
      /\ \A i, j, k \in K : B(i, j) /\ B(j, k) => B(i, k)
  BY BeforeOrders
<1>2. \A i : Plan!Ahead(s, K, i) = Cardinality(A(i))
  BY PlanCardinality DEF Plan!Ahead
<1>3. \A i : IsFiniteSet(A(i)) /\ A(i) \subseteq K
  <2> TAKE i
  <2>1. A(i) \subseteq K
    OBVIOUS
  <2>2. IsFiniteSet(A(i))
    BY <2>1, FS_Subset
  <2> QED BY <2>1, <2>2
<1>4. \A i : Cardinality(A(i)) \in Nat
  BY <1>3, FS_CardinalityType
<1>5. Cardinality(K) \in Nat
  BY FS_CardinalityType
<1>6. ASSUME NEW i \in K, NEW j \in K, B(i, j)
      PROVE  Cardinality(A(i)) < Cardinality(A(j))
  <2>1. A(i) \subseteq A(j)
    BY <1>1, <1>6
  <2>2. i \in A(j) /\ i \notin A(i)
    BY <1>1, <1>6
  <2>3. Cardinality(A(i)) <= Cardinality(A(j)) /\ Cardinality(A(i)) # Cardinality(A(j))
    BY <2>1, <2>2, <1>3, FS_Subset
  <2> QED BY <2>3, <1>4
<1>7. ASSUME NEW i \in K
      PROVE  Cardinality(A(i)) \in 0..(Cardinality(K) - 1)
  <2>1. i \notin A(i)
    BY <1>1
  <2>2. Cardinality(A(i)) <= Cardinality(K) /\ Cardinality(A(i)) # Cardinality(K)
    BY <2>1, <1>3, FS_Subset
  <2> QED BY <2>2, <1>4, <1>5
<1> DEFINE R == 0..(Cardinality(K) - 1)
           rank == [i \in K |-> Cardinality(A(i))]
<1>8. \A i, j \in K : Cardinality(A(i)) = Cardinality(A(j)) => i = j
  <2> SUFFICES ASSUME NEW i \in K, NEW j \in K, Cardinality(A(i)) = Cardinality(A(j)), i # j PROVE FALSE
    OBVIOUS
  <2>1. B(i, j) \/ B(j, i)
    BY <1>1
  <2>2. Cardinality(A(i)) < Cardinality(A(j)) \/ Cardinality(A(j)) < Cardinality(A(i))
    BY <2>1, <1>6
  <2> QED BY <2>2, <1>4
<1>9. IsFiniteSet(R) /\ Cardinality(R) = Cardinality(K)
  BY <1>5, FS_Interval
<1>10. rank \in Injection(K, R)
  <2>1. rank \in [K -> R]
    BY <1>7
  <2> QED BY <2>1, <1>8 DEF Injection, IsInjective
<1>11. rank \in Surjection(K, R)
  BY <1>9, <1>10, FS_Injection
<1>12. \A m \in R : \E i \in K : Cardinality(A(i)) = m
  BY <1>11 DEF Surjection
<1> HIDE DEF A, B
<1>13. \A n \in 1..Cardinality(K) : n - 1 \in R
  BY <1>5
<1>14. \A n \in 1..Cardinality(K) : \E i \in K : Cardinality(A(i)) = n - 1
  BY <1>12, <1>13
<1>15. \A i, j \in K : Plan!Before(s, i, j) => Cardinality(A(i)) < Cardinality(A(j))
  BY <1>6 DEF B
<1> QED BY <1>2, <1>5, <1>7, <1>8, <1>14, <1>15

\* Interleaved puts what is kept in that order, and keeps each once.
LEMMA InterleavedOrders ==
  ASSUME NEW s, NEW K, Keyed(s, K), IsFiniteSet(K)
  PROVE  /\ ListOf(Plan!Interleaved(s, K))
         /\ \A n \in DOMAIN Plan!Interleaved(s, K) : \E i \in K : Plan!Interleaved(s, K)[n] = s[i]
         /\ \A i \in K : \E n \in DOMAIN Plan!Interleaved(s, K) : Plan!Interleaved(s, K)[n] = s[i]
         /\ \A m, n \in DOMAIN Plan!Interleaved(s, K) :
              m < n => \E i, j \in K : /\ Plan!Interleaved(s, K)[m] = s[i] /\ Plan!Interleaved(s, K)[n] = s[j]
                                       /\ i # j /\ Plan!Before(s, i, j)
<1> DEFINE A(i) == Plan!Ahead(s, K, i)
           N == Cardinality(K)
           at0(n) == CHOOSE i \in K : A(i) = n - 1
           r == [n \in 1..N |-> s[at0(n)]]
<1>1. Plan!Interleaved(s, K) = r
  BY PlanCardinality DEF Plan!Interleaved
<1>2. /\ \A i, j \in K : Plan!Before(s, i, j) => A(i) < A(j)
      /\ \A i, j \in K : A(i) = A(j) => i = j
      /\ N \in Nat
      /\ \A n \in 1..N : \E i \in K : A(i) = n - 1
      /\ \A i \in K : A(i) \in 0..(N - 1)
  BY AheadPlaces
<1>3. /\ \A i \in K : ~ Plan!Before(s, i, i)
      /\ \A i, j \in K : i # j => Plan!Before(s, i, j) \/ Plan!Before(s, j, i)
  BY BeforeOrders
<1> HIDE DEF A, N
<1>4. \A n \in 1..N : at0(n) \in K /\ A(at0(n)) = n - 1
  BY <1>2
<1>5. \A i \in K : at0(A(i) + 1) = i /\ A(i) + 1 \in 1..N
  <2> TAKE i \in K
  <2>1. A(i) + 1 \in 1..N /\ (A(i) + 1) - 1 = A(i)
    BY <1>2
  <2>2. at0(A(i) + 1) \in K /\ A(at0(A(i) + 1)) = A(i)
    BY <1>4, <2>1
  <2> QED BY <2>1, <2>2, <1>2
<1> HIDE DEF at0
<1>6. DOMAIN r = 1..N /\ \A n \in 1..N : r[n] = s[at0(n)]
  OBVIOUS
<1>7. ListOf(r)
  <2>1. \A n \in 1..N : r[n] \in {r[i] : i \in DOMAIN r}
    BY <1>6
  <2>2. r = [n \in 1..N |-> r[n]]
    OBVIOUS
  <2>3. r \in [1..N -> {r[i] : i \in DOMAIN r}]
    BY <2>1, <2>2
  <2> QED BY <2>3, <1>2 DEF ListOf
<1> HIDE DEF r
<1>8. \A n \in DOMAIN r : \E i \in K : r[n] = s[i]
  BY <1>4, <1>6
<1>9. \A i \in K : \E n \in DOMAIN r : r[n] = s[i]
  BY <1>5, <1>6
<1>10. ASSUME NEW m \in DOMAIN r, NEW n \in DOMAIN r, m < n
       PROVE  /\ at0(m) \in K /\ at0(n) \in K /\ at0(m) # at0(n)
              /\ Plan!Before(s, at0(m), at0(n))
  <2>1. /\ m \in 1..N /\ n \in 1..N
        /\ at0(m) \in K /\ at0(n) \in K
        /\ A(at0(m)) = m - 1 /\ A(at0(n)) = n - 1
    BY <1>4, <1>6
  <2>2. at0(m) # at0(n)
    BY <2>1, <1>10
  <2>3. ~ Plan!Before(s, at0(n), at0(m))
    <3> SUFFICES ASSUME Plan!Before(s, at0(n), at0(m)) PROVE FALSE
      OBVIOUS
    <3>1. A(at0(n)) < A(at0(m))
      BY <2>1, <1>2
    <3> QED BY <3>1, <2>1, <1>10, <1>2
  <2> QED BY <2>1, <2>2, <2>3, <1>3
<1>11. \A m, n \in DOMAIN r :
         m < n => \E i, j \in K : /\ r[m] = s[i] /\ r[n] = s[j]
                                  /\ i # j /\ Plan!Before(s, i, j)
  BY <1>6, <1>10
<1> QED BY <1>1, <1>7, <1>8, <1>9, <1>11

-----------------------------------------------------------------------------
(* Lists.                                                                  *)

LEMMA ListIs ==
  ASSUME NEW s, ListOf(s)
  PROVE  Len(s) \in Nat /\ DOMAIN s = 1..Len(s)
BY DEF ListOf

LEMMA IsList ==
  ASSUME NEW s, NEW S, s \in Seq(S)
  PROVE  ListOf(s)
<1>1. PICK n \in Nat : s \in [1..n -> S]
  BY DEF Seq
<1>2. s \in [1..n -> {s[i] : i \in DOMAIN s}]
  BY <1>1
<1> QED BY <1>2 DEF ListOf

\* t holds what s and b hold, and nothing else.
Joins(s, b, t) ==
  /\ ListOf(t)
  /\ \A n \in DOMAIN t : (\E m \in DOMAIN s : t[n] = s[m]) \/ (\E m \in DOMAIN b : t[n] = b[m])
  /\ \A m \in DOMAIN s : \E n \in DOMAIN t : t[n] = s[m]
  /\ \A m \in DOMAIN b : \E n \in DOMAIN t : t[n] = b[m]

LEMMA ConcatJoins ==
  ASSUME NEW s, NEW b, ListOf(s), ListOf(b)
  PROVE  Joins(s, b, s \o b)
<1> DEFINE S == {s[i] : i \in DOMAIN s} \cup {b[i] : i \in DOMAIN b}
           t == s \o b
<1>1. s \in Seq(S) /\ b \in Seq(S)
  <2>1. Len(s) \in Nat /\ DOMAIN s = 1..Len(s) /\ Len(b) \in Nat /\ DOMAIN b = 1..Len(b)
    BY ListIs
  <2>2. s \in [1..Len(s) -> S] /\ b \in [1..Len(b) -> S]
    <3>1. s \in [DOMAIN s -> {s[i] : i \in DOMAIN s}] /\ b \in [DOMAIN b -> {b[i] : i \in DOMAIN b}]
      BY <2>1 DEF ListOf
    <3> QED BY <3>1, <2>1
  <2> QED BY <2>1, <2>2
<1> HIDE DEF S
<1>2. t \in Seq(S) /\ Len(t) = Len(s) + Len(b) /\ DOMAIN t = 1..(Len(s) + Len(b))
  BY <1>1
<1>3. /\ \A n \in 1..Len(s) : t[n] = s[n]
      /\ \A n \in (Len(s) + 1)..(Len(s) + Len(b)) : t[n] = b[n - Len(s)]
  BY <1>1
<1>4. Len(s) \in Nat /\ DOMAIN s = 1..Len(s) /\ Len(b) \in Nat /\ DOMAIN b = 1..Len(b)
  BY ListIs
<1>5. ListOf(t)
  BY <1>2, IsList
<1> HIDE DEF t
<1>6. ASSUME NEW n \in DOMAIN t
      PROVE  (\E m \in DOMAIN s : t[n] = s[m]) \/ (\E m \in DOMAIN b : t[n] = b[m])
  <2>1. CASE n \in 1..Len(s)
    BY <2>1, <1>3, <1>4
  <2>2. CASE n \in (Len(s) + 1)..(Len(s) + Len(b))
    <3>1. n - Len(s) \in DOMAIN b
      BY <2>2, <1>4
    <3> QED BY <2>2, <3>1, <1>3
  <2> QED BY <2>1, <2>2, <1>2, <1>4
<1>7. \A m \in DOMAIN s : \E n \in DOMAIN t : t[n] = s[m]
  BY <1>2, <1>3, <1>4
<1>8. ASSUME NEW m \in DOMAIN b
      PROVE  \E n \in DOMAIN t : t[n] = b[m]
  <2>1. Len(s) + m \in (Len(s) + 1)..(Len(s) + Len(b)) /\ (Len(s) + m) - Len(s) = m
    BY <1>4
  <2>2. Len(s) + m \in DOMAIN t
    BY <2>1, <1>2, <1>4
  <2> QED BY <2>1, <2>2, <1>3
<1> QED BY <1>5, <1>6, <1>7, <1>8 DEF t, Joins

-----------------------------------------------------------------------------
(* The files and what is drawn of them.                                    *)

\* What the assumptions say of a file.
LEMMA FileIs ==
  ASSUME NEW c, CaseIs(c), NEW f \in DOMAIN c.files
  PROVE  /\ ListOf(c.files) /\ ListOf(c.files[f].rows)
         /\ f \in Nat
         /\ Copied(c, f) \in Nat /\ Copied(c, f) > 0
         /\ Due(c, f) \in Nat /\ Due(c, f) <= Len(c.files[f].rows)
<1>1. TasksPlain
  BY RulesAssumption
<1>2. /\ ListOf(c.files) /\ ListOf(c.files[f].rows)
      /\ c.files[f].trials \in Nat \ {0} /\ c.repeats \in Nat \ {0} /\ c.sample \in {0, 1}
  BY <1>1 DEF TasksPlain, CaseIs
<1>3. f \in Nat /\ Len(c.files[f].rows) \in Nat
  BY <1>2, ListIs
<1>4. Copied(c, f) \in Nat /\ Copied(c, f) > 0
  BY <1>2 DEF Copied
<1>5. Due(c, f) \in Nat /\ Due(c, f) <= Len(c.files[f].rows)
  BY <1>2, <1>3 DEF Due
<1> QED BY <1>2, <1>3, <1>4, <1>5

\* Rows that were drawn are as many as are owed.
LEMMA DrawIs ==
  ASSUME NEW c, CaseIs(c), NEW f \in DOMAIN c.files, NEW rows \in Draws(c, f)
  PROVE  ListOf(rows) /\ Len(rows) = Due(c, f) /\ DOMAIN rows = 1..Due(c, f)
<1> DEFINE n == Due(c, f)
           R == c.files[f].rows
<1>1. n \in Nat
  BY FileIs
<1>2. PICK p \in [1..n -> DOMAIN R] : rows = [i \in 1..n |-> R[p[i]]]
  BY DEF Draws
<1> DEFINE S == {R[j] : j \in DOMAIN R}
<1> HIDE DEF n
<1>3. rows \in [1..n -> S]
  BY <1>2
<1>4. rows \in Seq(S) /\ Len(rows) = n /\ DOMAIN rows = 1..n
  BY <1>1, <1>3
<1> QED BY <1>4, IsList DEF n

\* What expand_dataset lets through is fit.
LEMMA DrawnFits ==
  ASSUME CaseIs(case), out.file \in DOMAIN case.files,
         NEW rows \in Plan!Drawn(case.files[out.file].rows), ~ Plan!Unusable(rows)
  PROVE  Fit(case, out.file, rows)
<1> DEFINE f == out.file
           R == case.files[f].rows
           n == Due(case, f)
<1>1. n \in Nat /\ ListOf(R) /\ Len(R) \in Nat /\ DOMAIN R = 1..Len(R)
  BY FileIs, ListIs
<1>2. rows \in Draws(case, f)
  <2>1. CASE case.sample # 0 /\ case.sample < Len(R)
    <3>1. n = case.sample
      BY <2>1 DEF Due
    <3>2. Plan!Drawn(R) = { [i \in 1..n |-> R[p[i]]] : p \in {q \in [1..n -> DOMAIN R] : \A i, j \in 1..n : i # j => q[i] # q[j]} }
      BY <2>1, <3>1 DEF Plan!Drawn, Plan!NoSample
    <3> HIDE DEF n, R
    <3>3. \E p \in [1..n -> DOMAIN R] : rows = [i \in 1..n |-> R[p[i]]]
      BY <3>2 DEF R
    <3> QED BY <3>3 DEF Draws, n, R
  <2>2. CASE ~ (case.sample # 0 /\ case.sample < Len(R))
    <3>1. n = Len(R) /\ rows = R
      BY <2>2 DEF Due, Plan!Drawn, Plan!NoSample
    <3> DEFINE p == [i \in 1..n |-> i]
    <3>2. p \in [1..n -> DOMAIN R]
      BY <3>1, <1>1
    <3>3. R = [i \in 1..Len(R) |-> R[i]]
      BY <1>1 DEF ListOf
    <3> HIDE DEF n, R
    <3>4. rows = [i \in 1..n |-> R[p[i]]]
      BY <3>1, <3>3
    <3> HIDE DEF p
    <3>5. \E q \in [1..n -> DOMAIN R] : rows = [i \in 1..n |-> R[q[i]]]
      BY <3>2, <3>4
    <3> QED BY <3>5 DEF Draws, n, R
  <2> QED BY <2>1, <2>2
<1>3. Len(rows) \in Nat /\ DOMAIN rows = 1..Len(rows)
  BY <1>2, DrawIs, FileIs
<1>4. Len(rows) # 0 /\ ~ (Cardinality(Plan!Members(rows)) < Len(rows))
  BY PlanCardinality DEF Plan!Unusable
<1> DEFINE g == [i \in 1..Len(rows) |-> rows[i]]
<1>5. Plan!Members(rows) = {rows[i] : i \in 1..Len(rows)}
  BY <1>3 DEF Plan!Members
<1>6. g \in Surjection(1..Len(rows), Plan!Members(rows))
  BY <1>5 DEF Surjection
<1>7. Cardinality(Plan!Members(rows)) <= Len(rows) /\ IsFiniteSet(Plan!Members(rows))
  <2>1. IsFiniteSet(1..Len(rows)) /\ Cardinality(1..Len(rows)) = Len(rows)
    <3>1. \A k \in Nat : IsFiniteSet(1..k) /\ Cardinality(1..k) = k
      BY FS_Interval
    <3> QED BY <1>3, <3>1
  <2> QED BY <2>1, <1>6, FS_Surjection
<1>8. Cardinality(Plan!Members(rows)) \in Nat
  BY <1>7, FS_CardinalityType
<1> QED BY <1>2, <1>3, <1>4, <1>7, <1>8 DEF Fit

\* A file is settled: the files before it stay settled.
LEMMA FileSettles ==
  ASSUME NEW c, NEW o, NEW p, CaseIs(c), SoFar(c, o), o.file <= Len(c.files),
         p = [file |-> o.file + 1, rows |-> << >>, row |-> 1, variant |-> 1, buffer |-> << >>,
              resolved |-> p.resolved, skipped |-> p.skipped, errors |-> p.errors, attempted |-> p.attempted],
         ListOf(p.resolved),
         o.skipped \cup o.errors \subseteq p.skipped \cup p.errors,
         p.skipped \cup p.errors \subseteq (o.skipped \cup o.errors) \cup {o.file},
         \A n \in DOMAIN p.resolved :
           (\E m \in DOMAIN o.resolved : p.resolved[n] = o.resolved[m]) \/ p.resolved[n].file = o.file,
         \A m \in DOMAIN o.resolved : \E n \in DOMAIN p.resolved : p.resolved[n] = o.resolved[m],
         Settled(o.file, c, p)
  PROVE  SoFar(c, p) /\ p.buffer = << >> /\ p.row = 1 /\ p.variant = 1
<1>1. /\ p.file = o.file + 1 /\ p.rows = << >> /\ p.row = 1 /\ p.variant = 1 /\ p.buffer = << >>
  OBVIOUS
<1>2. /\ o.file \in 1..(Len(c.files) + 1) /\ Len(c.files) \in Nat
      /\ o.skipped \cup o.errors \subseteq 1..(o.file - 1)
      /\ \A n \in DOMAIN o.resolved : o.resolved[n].file \in 1..(o.file - 1)
      /\ \A f \in 1..(o.file - 1) : Settled(f, c, o)
  <2>1. ListOf(c.files)
    BY RulesAssumption DEF TasksPlain, CaseIs
  <2> QED BY <2>1, ListIs DEF SoFar
<1>3. p.file \in 1..(Len(c.files) + 1)
  BY <1>1, <1>2
<1>4. ListOf(p.buffer)
  <2>1. p.buffer \in Seq({})
    BY <1>1
  <2> QED BY <2>1, IsList
<1>5. 1..(p.file - 1) = 1..(o.file - 1) \cup {o.file}
  BY <1>1, <1>2
<1>6. p.skipped \cup p.errors \subseteq 1..(p.file - 1)
  BY <1>2, <1>5
<1>7. \A n \in DOMAIN p.resolved : p.resolved[n].file \in 1..(p.file - 1)
  BY <1>2, <1>5
<1>8. ASSUME NEW f \in 1..(o.file - 1)
      PROVE  Settled(f, c, p)
  <2>1. f # o.file
    BY <1>2
  <2>2. f \in p.skipped \cup p.errors <=> f \in o.skipped \cup o.errors
    BY <2>1
  <2>3. \A n \in DOMAIN p.resolved : p.resolved[n].file = f => \E m \in DOMAIN o.resolved : p.resolved[n] = o.resolved[m]
    BY <2>1
  <2>4. CASE f \in o.skipped \cup o.errors
    <3>1. \A n \in DOMAIN o.resolved : o.resolved[n].file # f
      BY <2>4, <1>2 DEF Settled
    <3> QED BY <3>1, <2>2, <2>3, <2>4 DEF Settled
  <2>5. CASE f \notin o.skipped \cup o.errors
    <3>1. PICK rows \in Draws(c, f) : Fit(c, f, rows) /\ AllRuns(o.resolved, c, f, rows)
      BY <2>5, <1>2 DEF Settled
    <3>2. \A n \in DOMAIN p.resolved : p.resolved[n].file = f => IsRun(p.resolved[n], c, f, rows, Len(rows) + 1, 1)
      BY <3>1, <2>3 DEF AllRuns
    <3>3. HoldsRuns(p.resolved, c, f, rows, Len(rows) + 1, 1)
      <4>1. HoldsRuns(o.resolved, c, f, rows, Len(rows) + 1, 1)
        BY <3>1 DEF AllRuns
      <4> QED BY <4>1 DEF HoldsRuns
    <3> QED BY <3>1, <3>2, <3>3, <2>2, <2>5 DEF Settled, AllRuns
  <2> QED BY <2>4, <2>5
<1>9. \A f \in 1..(p.file - 1) : Settled(f, c, p)
  BY <1>5, <1>8
<1>10. p = [file |-> p.file, rows |-> p.rows, row |-> p.row, variant |-> p.variant, buffer |-> p.buffer,
            resolved |-> p.resolved, skipped |-> p.skipped, errors |-> p.errors, attempted |-> p.attempted]
  BY <1>1
<1> QED BY <1>1, <1>3, <1>4, <1>6, <1>7, <1>9, <1>10 DEF SoFar

-----------------------------------------------------------------------------
(* The steps of the resolution.                                            *)

\* A file that is skipped, or whose resolution fails, has no run.
LEMMA FileDropped ==
  ASSUME NEW c, NEW o, NEW p, CaseIs(c), SoFar(c, o), o.file <= Len(c.files),
         p = [file |-> o.file + 1, rows |-> << >>, row |-> 1, variant |-> 1, buffer |-> << >>,
              resolved |-> o.resolved, skipped |-> p.skipped, errors |-> p.errors, attempted |-> p.attempted],
         p.skipped \cup p.errors = (o.skipped \cup o.errors) \cup {o.file}
  PROVE  SoFar(c, p) /\ p.buffer = << >> /\ p.row = 1 /\ p.variant = 1
<1>1. p.resolved = o.resolved
  OBVIOUS
<1>2. ListOf(o.resolved) /\ o.file \in Int /\ \A n \in DOMAIN o.resolved : o.resolved[n].file \in 1..(o.file - 1)
  BY DEF SoFar
<1>3. Settled(o.file, c, p)
  <2>1. \A n \in DOMAIN p.resolved : p.resolved[n].file # o.file
    BY <1>1, <1>2
  <2> QED BY <2>1 DEF Settled
<1>4. p = [file |-> o.file + 1, rows |-> << >>, row |-> 1, variant |-> 1, buffer |-> << >>,
           resolved |-> p.resolved, skipped |-> p.skipped, errors |-> p.errors, attempted |-> p.attempted]
  BY <1>1
<1> HIDE DEF Settled
<1>5. /\ ListOf(p.resolved)
      /\ \A n \in DOMAIN p.resolved :
           (\E m \in DOMAIN o.resolved : p.resolved[n] = o.resolved[m]) \/ p.resolved[n].file = o.file
      /\ \A m \in DOMAIN o.resolved : \E n \in DOMAIN p.resolved : p.resolved[n] = o.resolved[m]
  BY <1>1, <1>2
<1>6. /\ o.skipped \cup o.errors \subseteq p.skipped \cup p.errors
      /\ p.skipped \cup p.errors \subseteq (o.skipped \cup o.errors) \cup {o.file}
  OBVIOUS
<1> QED BY <1>3, <1>4, <1>5, <1>6, FileSettles

\* The position of a file in the list.
LEMMA FileThere ==
  ASSUME NEW c, NEW o, CaseIs(c), SoFar(c, o), o.file <= Len(c.files)
  PROVE  o.file \in DOMAIN c.files /\ o.file \in Int
<1>1. ListOf(c.files)
  BY RulesAssumption DEF TasksPlain, CaseIs
<1>2. DOMAIN c.files = 1..Len(c.files) /\ Len(c.files) \in Nat
  BY <1>1, ListIs
<1> QED BY <1>2 DEF SoFar

LEMMA SkipStep ==
  ASSUME PlanInv, Plan!SkipQuarantined
  PROVE  PlanInv'
<1>1. CaseIs(case) /\ SoFar(case, out) /\ at = "load" /\ out.file <= Len(case.files)
  BY DEF PlanInv, Plan!SkipQuarantined, Plan!MoreFiles
<1> DEFINE p == [file |-> out.file + 1, rows |-> << >>, row |-> 1, variant |-> 1, buffer |-> << >>,
                 resolved |-> out.resolved, skipped |-> out.skipped \cup {out.file},
                 errors |-> out.errors, attempted |-> out.attempted]
<1>2. out = [file |-> out.file, rows |-> out.rows, row |-> out.row, variant |-> out.variant, buffer |-> out.buffer,
             resolved |-> out.resolved, skipped |-> out.skipped, errors |-> out.errors, attempted |-> out.attempted]
  BY <1>1 DEF SoFar
<1>3. out' = p /\ case' = case /\ at' = at
  BY <1>2 DEF Plan!SkipQuarantined, Plan!NextFile
<1>4. p = [file |-> out.file + 1, rows |-> << >>, row |-> 1, variant |-> 1, buffer |-> << >>,
           resolved |-> out.resolved, skipped |-> p.skipped, errors |-> p.errors, attempted |-> p.attempted]
      /\ p.skipped \cup p.errors = (out.skipped \cup out.errors) \cup {out.file}
  OBVIOUS
<1> HIDE DEF p
<1>5. SoFar(case, p) /\ p.buffer = << >> /\ p.row = 1 /\ p.variant = 1
  BY <1>1, <1>4, FileDropped
<1> QED BY <1>1, <1>3, <1>5 DEF PlanInv, TasksAccounted, Plan!TasksAccounted, Plan!Listed

LEMMA FailStep ==
  ASSUME PlanInv, Plan!ResolutionFails
  PROVE  PlanInv'
<1>1. CaseIs(case) /\ SoFar(case, out) /\ at = "resolve" /\ out.file <= Len(case.files)
  BY DEF PlanInv, Plan!ResolutionFails, Filling
<1> DEFINE p == [file |-> out.file + 1, rows |-> << >>, row |-> 1, variant |-> 1, buffer |-> << >>,
                 resolved |-> out.resolved, skipped |-> out.skipped,
                 errors |-> out.errors \cup {out.file}, attempted |-> out.attempted]
<1>2. out = [file |-> out.file, rows |-> out.rows, row |-> out.row, variant |-> out.variant, buffer |-> out.buffer,
             resolved |-> out.resolved, skipped |-> out.skipped, errors |-> out.errors, attempted |-> out.attempted]
  BY <1>1 DEF SoFar
<1>3. out' = p /\ case' = case /\ at' = "load"
  BY <1>2 DEF Plan!ResolutionFails, Plan!Discarded, Plan!NextFile
<1>4. p = [file |-> out.file + 1, rows |-> << >>, row |-> 1, variant |-> 1, buffer |-> << >>,
           resolved |-> out.resolved, skipped |-> p.skipped, errors |-> p.errors, attempted |-> p.attempted]
      /\ p.skipped \cup p.errors = (out.skipped \cup out.errors) \cup {out.file}
  OBVIOUS
<1> HIDE DEF p
<1>5. SoFar(case, p) /\ p.buffer = << >> /\ p.row = 1 /\ p.variant = 1
  BY <1>1, <1>4, FileDropped
<1> QED BY <1>1, <1>3, <1>5 DEF PlanInv, TasksAccounted, Plan!TasksAccounted, Plan!Listed

LEMMA LoadStep ==
  ASSUME PlanInv, Plan!LoadFile
  PROVE  PlanInv'
<1>1. /\ CaseIs(case) /\ SoFar(case, out) /\ at = "load" /\ out.file <= Len(case.files)
      /\ out.buffer = << >> /\ out.row = 1 /\ out.variant = 1 /\ case' = case
  BY DEF PlanInv, Plan!LoadFile, Plan!MoreFiles
<1>2. PICK rows \in Plan!Drawn(Plan!File.rows) :
        IF Plan!Unusable(rows)
        THEN /\ out' = Plan!NextFile([out EXCEPT !.skipped = @ \cup {out.file}])
             /\ at' = "load"
        ELSE /\ out' = [out EXCEPT !.rows = rows, !.attempted = @ + 1]
             /\ at' = "resolve"
  BY DEF Plan!LoadFile
<1>3. out = [file |-> out.file, rows |-> out.rows, row |-> out.row, variant |-> out.variant, buffer |-> out.buffer,
             resolved |-> out.resolved, skipped |-> out.skipped, errors |-> out.errors, attempted |-> out.attempted]
  BY <1>1 DEF SoFar
<1>4. CASE Plan!Unusable(rows)
  <2> DEFINE p == [file |-> out.file + 1, rows |-> << >>, row |-> 1, variant |-> 1, buffer |-> << >>,
                   resolved |-> out.resolved, skipped |-> out.skipped \cup {out.file},
                   errors |-> out.errors, attempted |-> out.attempted]
  <2>1. out' = p /\ at' = "load"
    BY <1>2, <1>3, <1>4 DEF Plan!NextFile
  <2>2. p = [file |-> out.file + 1, rows |-> << >>, row |-> 1, variant |-> 1, buffer |-> << >>,
             resolved |-> out.resolved, skipped |-> p.skipped, errors |-> p.errors, attempted |-> p.attempted]
        /\ p.skipped \cup p.errors = (out.skipped \cup out.errors) \cup {out.file}
    OBVIOUS
  <2> HIDE DEF p
  <2>3. SoFar(case, p) /\ p.buffer = << >> /\ p.row = 1 /\ p.variant = 1
    BY <1>1, <2>2, FileDropped
  <2> QED BY <1>1, <2>1, <2>3 DEF PlanInv, TasksAccounted, Plan!TasksAccounted, Plan!Listed
<1>5. CASE ~ Plan!Unusable(rows)
  <2> DEFINE p == [file |-> out.file, rows |-> rows, row |-> 1, variant |-> 1, buffer |-> << >>,
                   resolved |-> out.resolved, skipped |-> out.skipped,
                   errors |-> out.errors, attempted |-> out.attempted + 1]
  <2>1. out' = p /\ at' = "resolve"
    BY <1>1, <1>2, <1>3, <1>5
  <2>2. /\ p.file = out.file /\ p.rows = rows /\ p.row = 1 /\ p.variant = 1 /\ p.buffer = << >>
        /\ p.resolved = out.resolved /\ p.skipped = out.skipped /\ p.errors = out.errors
        /\ p = [file |-> p.file, rows |-> p.rows, row |-> p.row, variant |-> p.variant, buffer |-> p.buffer,
                 resolved |-> p.resolved, skipped |-> p.skipped, errors |-> p.errors, attempted |-> p.attempted]
    OBVIOUS
  <2> HIDE DEF p
  <2>3. SoFar(case, p)
    <3>1. \A f : Settled(f, case, out) => Settled(f, case, p)
      BY <2>2 DEF Settled
    <3> QED BY <1>1, <2>2, <3>1 DEF SoFar
  <2>4. Fit(case, out.file, rows)
    <3>1. out.file \in DOMAIN case.files
      BY <1>1, FileThere
    <3> QED BY <1>1, <1>2, <1>5, <3>1, DrawnFits DEF Plan!File
  <2>5. Len(rows) \in Nat /\ Len(rows) > 0 /\ DOMAIN rows = 1..Len(rows)
    <3>1. out.file \in DOMAIN case.files /\ rows \in Draws(case, out.file)
      BY <1>1, <2>4, FileThere DEF Fit
    <3>2. ListOf(rows)
      BY <1>1, <3>1, DrawIs
    <3> QED BY <2>4, <3>2, ListIs DEF Fit
  <2>6. Len(TaskVariants) \in Nat /\ Len(TaskVariants) > 0 /\ DOMAIN TaskVariants = 1..Len(TaskVariants)
    BY RulesAssumption, ListIs DEF TasksPlain
  <2>7. HoldsRuns(p.buffer, case, p.file, p.rows, p.row, p.variant)
    <3>1. \A i \in DOMAIN rows, k \in DOMAIN TaskVariants : ~ Reached(i, k, 1, 1)
      BY <2>5, <2>6 DEF Reached
    <3> QED BY <3>1, <2>2 DEF HoldsRuns
  <2>8. \A n \in DOMAIN p.buffer : FALSE
    BY <2>2
  <2>9. Filling(case, p)
    BY <1>1, <2>2, <2>4, <2>5, <2>6, <2>7, <2>8 DEF Filling
  <2> QED BY <1>1, <2>1, <2>2, <2>3, <2>9 DEF PlanInv, TasksAccounted, Plan!TasksAccounted, Plan!Listed
<1> QED BY <1>4, <1>5

-----------------------------------------------------------------------------
(* One row resolved for one variant.                                       *)

\* The replicates of one row and variant are appended: what was reached
\* before, and they, are what is reached then.
LEMMA CopiesFill ==
  ASSUME NEW c, NEW f, NEW rows, NEW line \in DOMAIN rows, NEW variant \in DOMAIN TaskVariants,
         NEW next, NEW then, NEW s, NEW b, ListOf(s),
         Copied(c, f) \in Nat,
         b = [r \in 1..Copied(c, f) |-> RunAt(c, f, rows[line], TaskVariants[variant], r - 1)],
         \A n \in DOMAIN s : IsRun(s[n], c, f, rows, line, variant),
         HoldsRuns(s, c, f, rows, line, variant),
         \A i \in DOMAIN rows, k \in DOMAIN TaskVariants :
           Reached(i, k, next, then) <=> Reached(i, k, line, variant) \/ (i = line /\ k = variant)
  PROVE  /\ ListOf(s \o b)
         /\ \A n \in DOMAIN (s \o b) : IsRun((s \o b)[n], c, f, rows, next, then)
         /\ HoldsRuns(s \o b, c, f, rows, next, then)
<1> DEFINE m == Copied(c, f)
           t == s \o b
           One(i, k, r) == RunAt(c, f, rows[i], TaskVariants[k], r)
<1>1. DOMAIN b = 1..m /\ (\A r \in 1..m : b[r] = One(line, variant, r - 1)) /\ ListOf(b)
  <2>1. DOMAIN b = 1..m /\ \A r \in 1..m : b[r] = One(line, variant, r - 1)
    OBVIOUS
  <2> DEFINE S == {One(line, variant, r - 1) : r \in 1..m}
  <2>2. b \in [1..m -> S]
    OBVIOUS
  <2> HIDE DEF S
  <2>3. b \in Seq(S)
    BY <2>2
  <2> QED BY <2>1, <2>3, IsList
<1>2. /\ ListOf(t)
      /\ \A n \in DOMAIN t : (\E j \in DOMAIN s : t[n] = s[j]) \/ (\E j \in DOMAIN b : t[n] = b[j])
      /\ \A j \in DOMAIN s : \E n \in DOMAIN t : t[n] = s[j]
      /\ \A j \in DOMAIN b : \E n \in DOMAIN t : t[n] = b[j]
  <2>1. Joins(s, b, s \o b)
    BY <1>1, ConcatJoins
  <2> QED BY <2>1 DEF Joins
<1>3. \A r \in 1..m : r - 1 \in 0..(m - 1)
  OBVIOUS
<1>4. \A r \in 0..(m - 1) : r + 1 \in 1..m /\ (r + 1) - 1 = r
  OBVIOUS
<1>5. \A n \in DOMAIN s : \E i \in DOMAIN rows, k \in DOMAIN TaskVariants, r \in 0..(m - 1) :
        Reached(i, k, line, variant) /\ s[n] = One(i, k, r)
  BY DEF IsRun
<1>6. \A i \in DOMAIN rows, k \in DOMAIN TaskVariants, r \in 0..(m - 1) :
        Reached(i, k, line, variant) => \E n \in DOMAIN s : s[n] = One(i, k, r)
  BY DEF HoldsRuns
<1> HIDE DEF One, m, t
<1>7. ASSUME NEW n \in DOMAIN t
      PROVE  \E i \in DOMAIN rows, k \in DOMAIN TaskVariants, r \in 0..(m - 1) :
               Reached(i, k, next, then) /\ t[n] = One(i, k, r)
  <2>1. CASE \E j \in DOMAIN s : t[n] = s[j]
    BY <2>1, <1>5
  <2>2. CASE \E j \in DOMAIN b : t[n] = b[j]
    <3>1. PICK j \in 1..m : t[n] = One(line, variant, j - 1)
      BY <2>2, <1>1
    <3>2. Reached(line, variant, next, then)
      OBVIOUS
    <3> QED BY <3>1, <3>2, <1>3
  <2> QED BY <2>1, <2>2, <1>2
<1>8. ASSUME NEW i \in DOMAIN rows, NEW k \in DOMAIN TaskVariants, NEW r \in 0..(m - 1), Reached(i, k, next, then)
      PROVE  \E n \in DOMAIN t : t[n] = One(i, k, r)
  <2>1. CASE Reached(i, k, line, variant)
    BY <2>1, <1>2, <1>6
  <2>2. CASE i = line /\ k = variant
    <3>1. r + 1 \in DOMAIN b /\ b[r + 1] = One(i, k, r)
      BY <2>2, <1>1, <1>4
    <3> QED BY <3>1, <1>2
  <2> QED BY <2>1, <2>2, <1>8
<1> QED BY <1>2, <1>7, <1>8 DEF IsRun, HoldsRuns, One, m, t

LEMMA ResolveStep ==
  ASSUME PlanInv, Plan!ResolveOne
  PROVE  PlanInv'
<1> DEFINE f == out.file
           rows == out.rows
           b == [r \in 1..Copied(case, f) |-> RunAt(case, f, rows[out.row], TaskVariants[out.variant], r - 1)]
           t == out.buffer \o b
<1>1. /\ CaseIs(case) /\ SoFar(case, out) /\ at = "resolve" /\ case' = case
      /\ Filling(case, out) /\ f <= Len(case.files)
  BY DEF PlanInv, Plan!ResolveOne, Filling
<1>2. /\ Fit(case, f, rows) /\ out.row \in DOMAIN rows /\ out.variant \in DOMAIN TaskVariants
      /\ \A n \in DOMAIN out.buffer : IsRun(out.buffer[n], case, f, rows, out.row, out.variant)
      /\ HoldsRuns(out.buffer, case, f, rows, out.row, out.variant)
      /\ ListOf(out.buffer) /\ ListOf(out.resolved)
  BY <1>1 DEF Filling, SoFar
<1>3. f \in DOMAIN case.files /\ f \in Int
  BY <1>1, FileThere
<1>4. Copied(case, f) \in Nat
  BY <1>1, <1>3, FileIs
<1>5. Len(rows) \in Nat /\ DOMAIN rows = 1..Len(rows) /\ out.row \in 1..Len(rows)
  <2>1. ListOf(rows)
    BY <1>1, <1>2, <1>3, DrawIs DEF Fit
  <2> QED BY <1>2, <2>1, ListIs
<1>6. Len(TaskVariants) \in Nat /\ DOMAIN TaskVariants = 1..Len(TaskVariants) /\ out.variant \in 1..Len(TaskVariants)
  BY <1>2, RulesAssumption, ListIs DEF TasksPlain
<1>7. out.buffer \o [r \in 1..Plan!Copies(Plan!File) |-> Plan!Entry(r - 1)] = t
  BY DEF Plan!Copies, Copied, Plan!File, Plan!Entry, RunAt
<1>8. out = [file |-> out.file, rows |-> out.rows, row |-> out.row, variant |-> out.variant, buffer |-> out.buffer,
             resolved |-> out.resolved, skipped |-> out.skipped, errors |-> out.errors, attempted |-> out.attempted]
  BY <1>1 DEF SoFar
<1>9. IF out.variant < Len(TaskVariants) THEN out' = [out EXCEPT !.buffer = t, !.variant = @ + 1] /\ at' = at
      ELSE IF out.row < Len(rows) THEN out' = [out EXCEPT !.buffer = t, !.row = @ + 1, !.variant = 1] /\ at' = at
      ELSE out' = Plan!NextFile([out EXCEPT !.resolved = @ \o t]) /\ at' = "load"
  BY <1>7 DEF Plan!ResolveOne
<1> DEFINE Fills(next, then) ==
             /\ ListOf(t)
             /\ \A n \in DOMAIN t : IsRun(t[n], case, f, rows, next, then)
             /\ HoldsRuns(t, case, f, rows, next, then)
           Goes(next, then) ==
             \A i \in DOMAIN rows, k \in DOMAIN TaskVariants :
               Reached(i, k, next, then) <=> Reached(i, k, out.row, out.variant) \/ (i = out.row /\ k = out.variant)
<1>10. ASSUME NEW next, NEW then, Goes(next, then)
       PROVE  Fills(next, then)
  BY <1>2, <1>4, <1>10, CopiesFill
<1>11. ASSUME NEW p, NEW next \in DOMAIN rows, NEW then \in DOMAIN TaskVariants, Goes(next, then),
              p = [file |-> f, rows |-> rows, row |-> next, variant |-> then, buffer |-> t,
                   resolved |-> out.resolved, skipped |-> out.skipped, errors |-> out.errors, attempted |-> out.attempted],
              out' = p, at' = "resolve"
       PROVE  PlanInv'
  <2>1. Fills(next, then)
    BY <1>10, <1>11
  <2> HIDE DEF Goes, t
  <2>2. /\ p.file = f /\ p.rows = rows /\ p.row = next /\ p.variant = then /\ p.buffer = t
        /\ p.resolved = out.resolved /\ p.skipped = out.skipped /\ p.errors = out.errors
        /\ p = [file |-> p.file, rows |-> p.rows, row |-> p.row, variant |-> p.variant, buffer |-> p.buffer,
                 resolved |-> p.resolved, skipped |-> p.skipped, errors |-> p.errors, attempted |-> p.attempted]
    BY <1>11
  <2>3. SoFar(case, p)
    <3>1. \A g : Settled(g, case, out) => Settled(g, case, p)
      BY <2>2 DEF Settled
    <3> QED BY <1>1, <2>1, <2>2, <3>1 DEF SoFar
  <2>4. Filling(case, p)
    BY <1>1, <1>2, <1>11, <2>1, <2>2 DEF Filling
  <2> QED BY <1>1, <1>11, <2>3, <2>4 DEF PlanInv, TasksAccounted, Plan!TasksAccounted, Plan!Listed
<1>12. CASE out.variant < Len(TaskVariants)
  <2> DEFINE p == [file |-> f, rows |-> rows, row |-> out.row, variant |-> out.variant + 1, buffer |-> t,
                   resolved |-> out.resolved, skipped |-> out.skipped, errors |-> out.errors, attempted |-> out.attempted]
  <2> HIDE DEF t, b
  <2>1. out' = p /\ at' = "resolve"
    BY <1>1, <1>8, <1>9, <1>12
  <2>2. out.variant + 1 \in DOMAIN TaskVariants
    BY <1>6, <1>12
  <2>3. Goes(out.row, out.variant + 1)
    BY <1>5, <1>6 DEF Reached
  <2> HIDE DEF Goes
  <2> QED BY <1>2, <1>11, <2>1, <2>2, <2>3
<1>13. CASE ~ (out.variant < Len(TaskVariants)) /\ out.row < Len(rows)
  <2> DEFINE p == [file |-> f, rows |-> rows, row |-> out.row + 1, variant |-> 1, buffer |-> t,
                   resolved |-> out.resolved, skipped |-> out.skipped, errors |-> out.errors, attempted |-> out.attempted]
  <2> HIDE DEF t, b
  <2>1. out' = p /\ at' = "resolve"
    BY <1>1, <1>8, <1>9, <1>13
  <2>2. out.row + 1 \in DOMAIN rows /\ 1 \in DOMAIN TaskVariants
    BY <1>5, <1>6, <1>13
  <2>3. Goes(out.row + 1, 1)
    BY <1>5, <1>6, <1>13 DEF Reached
  <2> HIDE DEF Goes
  <2> QED BY <1>11, <2>1, <2>2, <2>3
<1>14. CASE ~ (out.variant < Len(TaskVariants)) /\ ~ (out.row < Len(rows))
  <2> DEFINE z == out.resolved \o t
             p == [file |-> f + 1, rows |-> << >>, row |-> 1, variant |-> 1, buffer |-> << >>,
                   resolved |-> z, skipped |-> out.skipped, errors |-> out.errors, attempted |-> out.attempted]
  <2> HIDE DEF t, b
  <2>1. out' = p /\ at' = "load"
    BY <1>8, <1>9, <1>14 DEF Plan!NextFile
  <2>2. Goes(Len(rows) + 1, 1)
    BY <1>5, <1>6, <1>14 DEF Reached
  <2>3. Fills(Len(rows) + 1, 1)
    BY <1>10, <2>2
  <2> HIDE DEF Goes
  <2>4. Joins(out.resolved, t, z)
    <3>1. ListOf(t)
      BY <2>3
    <3> QED BY <1>2, <3>1, ConcatJoins
  <2> HIDE DEF z
  <2>5. /\ p.resolved = z /\ p.skipped = out.skipped /\ p.errors = out.errors
        /\ p = [file |-> f + 1, rows |-> << >>, row |-> 1, variant |-> 1, buffer |-> << >>,
                 resolved |-> p.resolved, skipped |-> p.skipped, errors |-> p.errors, attempted |-> p.attempted]
    OBVIOUS
  <2> HIDE DEF p
  <2>6. \A n \in DOMAIN t : IsRun(t[n], case, f, rows, Len(rows) + 1, 1) /\ t[n].file = f
    <3>1. \A e : IsRun(e, case, f, rows, Len(rows) + 1, 1) => e.file = f
      BY DEF IsRun, RunAt
    <3> QED BY <2>3, <3>1
  <2>7. \A m \in DOMAIN out.resolved : out.resolved[m].file # f
    BY <1>1, <1>3 DEF SoFar
  <2>8. AllRuns(p.resolved, case, f, rows)
    <3>1. \A n \in DOMAIN p.resolved : p.resolved[n].file = f => IsRun(p.resolved[n], case, f, rows, Len(rows) + 1, 1)
      BY <2>4, <2>5, <2>6, <2>7 DEF Joins
    <3>2. HoldsRuns(t, case, f, rows, Len(rows) + 1, 1)
      BY <2>3
    <3>3. HoldsRuns(p.resolved, case, f, rows, Len(rows) + 1, 1)
      BY <2>4, <2>5, <3>2 DEF HoldsRuns, Joins
    <3> QED BY <3>1, <3>3 DEF AllRuns
  <2>9. f \notin p.skipped \cup p.errors
    BY <1>1, <1>3, <2>5 DEF SoFar
  <2>10. Settled(f, case, p)
    BY <1>2, <2>8, <2>9 DEF Settled, Fit
  <2>11. /\ ListOf(p.resolved)
         /\ out.skipped \cup out.errors \subseteq p.skipped \cup p.errors
         /\ p.skipped \cup p.errors \subseteq (out.skipped \cup out.errors) \cup {f}
         /\ \A n \in DOMAIN p.resolved :
              (\E m \in DOMAIN out.resolved : p.resolved[n] = out.resolved[m]) \/ p.resolved[n].file = f
         /\ \A m \in DOMAIN out.resolved : \E n \in DOMAIN p.resolved : p.resolved[n] = out.resolved[m]
    BY <2>4, <2>5, <2>6 DEF Joins
  <2>12. SoFar(case, p) /\ p.buffer = << >> /\ p.row = 1 /\ p.variant = 1
    BY <1>1, <2>5, <2>10, <2>11, FileSettles
  <2> QED BY <1>1, <2>1, <2>12 DEF PlanInv, TasksAccounted, Plan!TasksAccounted, Plan!Listed
<1> QED BY <1>12, <1>13, <1>14

-----------------------------------------------------------------------------
(* The list.                                                               *)

\* What a run says of its file, and that it can be sorted.
LEMMA RunTells ==
  ASSUME NEW e, NEW c, CaseIs(c), NEW f \in DOMAIN c.files, NEW rows, NEW line, NEW variant,
         IsRun(e, c, f, rows, line, variant)
  PROVE  /\ e.file = f /\ e.tags = c.files[f].tags
         /\ e.rep \in Int /\ e.file \in Int /\ Plan!Rank(e.variant) \in Int
<1>1. PICK i \in DOMAIN rows, k \in DOMAIN TaskVariants, r \in 0..(Copied(c, f) - 1) :
        e = RunAt(c, f, rows[i], TaskVariants[k], r)
  BY DEF IsRun
<1>2. e.file = f /\ e.tags = c.files[f].tags /\ e.rep = r /\ e.variant = TaskVariants[k]
  BY <1>1 DEF RunAt
<1>3. f \in Int
  BY FileIs
<1>4. DOMAIN TaskVariants = 1..Len(TaskVariants) /\ Len(TaskVariants) \in Nat
  BY RulesAssumption, ListIs DEF TasksPlain
<1>5. Plan!Rank(e.variant) \in DOMAIN TaskVariants
  BY <1>2 DEF Plan!Rank
<1> QED BY <1>2, <1>3, <1>4, <1>5

\* Every run of the list is one of a file that has them all.
LEMMA RunsKnown ==
  ASSUME NEW c, NEW o, CaseIs(c), SoFar(c, o), ~ (o.file <= Len(c.files)), NEW n \in DOMAIN o.resolved
  PROVE  \E f \in DOMAIN c.files :
           \E rows \in Draws(c, f) :
             /\ Fit(c, f, rows) /\ AllRuns(o.resolved, c, f, rows)
             /\ IsRun(o.resolved[n], c, f, rows, Len(rows) + 1, 1)
             /\ o.resolved[n].file = f
<1> DEFINE f == o.resolved[n].file
<1>1. f \in 1..(o.file - 1) /\ Settled(f, c, o)
  BY DEF SoFar
<1>2. f \in DOMAIN c.files
  <2>1. ListOf(c.files)
    BY RulesAssumption DEF TasksPlain, CaseIs
  <2> QED BY <2>1, <1>1, ListIs DEF SoFar
<1>3. PICK rows \in Draws(c, f) : Fit(c, f, rows) /\ AllRuns(o.resolved, c, f, rows)
  BY <1>1 DEF Settled
<1>4. IsRun(o.resolved[n], c, f, rows, Len(rows) + 1, 1)
  BY <1>3 DEF AllRuns
<1> HIDE DEF f
<1> QED BY <1>2, <1>3, <1>4 DEF f

\* The resolution of a file has reached every row and variant in the end.
LEMMA AllReached ==
  ASSUME NEW c, CaseIs(c), NEW f \in DOMAIN c.files, NEW rows, Fit(c, f, rows),
         NEW i \in DOMAIN rows
  PROVE  \A k : Reached(i, k, Len(rows) + 1, 1)
<1>1. ListOf(rows)
  BY DrawIs DEF Fit
<1>2. DOMAIN rows = 1..Len(rows) /\ Len(rows) \in Nat
  BY <1>1, ListIs
<1> QED BY <1>2 DEF Reached

\* The first replicate of a row, for the first variant, is in the list.
LEMMA FirstListed ==
  ASSUME NEW c, CaseIs(c), NEW f \in DOMAIN c.files, NEW rows, Fit(c, f, rows), NEW s,
         AllRuns(s, c, f, rows), NEW i \in DOMAIN rows
  PROVE  \E n \in DOMAIN s : s[n] = RunAt(c, f, rows[i], TaskVariants[1], 0)
<1>1. 1 \in DOMAIN TaskVariants
  <2>1. ListOf(TaskVariants) /\ Len(TaskVariants) > 0
    BY RulesAssumption DEF TasksPlain
  <2> QED BY <2>1, ListIs
<1>2. 0 \in 0..(Copied(c, f) - 1)
  BY FileIs
<1>3. Reached(i, 1, Len(rows) + 1, 1)
  BY AllReached
<1> QED BY <1>1, <1>2, <1>3 DEF AllRuns, HoldsRuns

\* filter_tasks_by_tags goes by ids: where no key occurs twice among what is
\* kept, it has kept exactly the runs whose own tags pass.
LEMMA KeptByTags ==
  ASSUME CaseIs(case), SoFar(case, out), ~ (out.file <= Len(case.files)),
         ~ Plan!Duplicates(out.resolved, Plan!Kept(out.resolved)),
         NEW n \in DOMAIN out.resolved
  PROVE  n \in Plan!Kept(out.resolved) <=> Plan!Passes(out.resolved[n].tags)
<1> DEFINE s == out.resolved
           K == Plan!Kept(s)
<1>1. \A j \in DOMAIN s : j \in K <=> \E m \in DOMAIN s : Plan!Passes(s[m].tags) /\ s[m].id = s[j].id
  BY DEF Plan!Kept, Plan!KeptIds
<1>2. \A i, j \in K : i # j => Plan!Key(s[i]) # Plan!Key(s[j])
  BY DEF Plan!Duplicates
<1> HIDE DEF K
<1>3. ASSUME n \in K, ~ Plan!Passes(s[n].tags)
      PROVE  FALSE
  <2>1. PICK m \in DOMAIN s : Plan!Passes(s[m].tags) /\ s[m].id = s[n].id
    BY <1>1, <1>3
  <2>2. PICK f \in DOMAIN case.files : \E rf \in Draws(case, f) :
          /\ Fit(case, f, rf) /\ AllRuns(s, case, f, rf)
          /\ IsRun(s[n], case, f, rf, Len(rf) + 1, 1)
    BY RunsKnown
  <2>2a. PICK rf \in Draws(case, f) :
          /\ Fit(case, f, rf) /\ AllRuns(s, case, f, rf)
          /\ IsRun(s[n], case, f, rf, Len(rf) + 1, 1)
    BY <2>2
  <2>3. PICK g \in DOMAIN case.files : \E rg \in Draws(case, g) :
          /\ Fit(case, g, rg) /\ AllRuns(s, case, g, rg)
          /\ IsRun(s[m], case, g, rg, Len(rg) + 1, 1)
    BY RunsKnown
  <2>3a. PICK rg \in Draws(case, g) :
          /\ Fit(case, g, rg) /\ AllRuns(s, case, g, rg)
          /\ IsRun(s[m], case, g, rg, Len(rg) + 1, 1)
    BY <2>3
  <2>4. f # g
    <3>1. s[n].tags = case.files[f].tags /\ s[m].tags = case.files[g].tags
      BY <2>2a, <2>3a, RunTells
    <3> QED BY <3>1, <2>1, <1>3
  <2>5. PICK i \in DOMAIN rf : s[n].id = <<case.files[f].id, rf[i]>>
    BY <2>2a DEF IsRun, RunAt
  <2>6. PICK j \in DOMAIN rg : s[m].id = <<case.files[g].id, rg[j]>>
    BY <2>3a DEF IsRun, RunAt
  <2>7. PICK p \in DOMAIN s : s[p] = RunAt(case, f, rf[i], TaskVariants[1], 0)
    BY <2>2a, FirstListed
  <2>8. PICK q \in DOMAIN s : s[q] = RunAt(case, g, rg[j], TaskVariants[1], 0)
    BY <2>3a, FirstListed
  <2>9. /\ s[p].file = f /\ s[p].id = s[n].id /\ s[p].variant = TaskVariants[1] /\ s[p].rep = 0
        /\ s[q].file = g /\ s[q].id = s[m].id /\ s[q].variant = TaskVariants[1] /\ s[q].rep = 0
    BY <2>5, <2>6, <2>7, <2>8 DEF RunAt
  <2>10. p # q
    BY <2>4, <2>9
  <2>11. p \in K /\ q \in K
    BY <1>1, <2>1, <2>9
  <2>12. Plan!Key(s[p]) = Plan!Key(s[q])
    BY <2>1, <2>9 DEF Plan!Key
  <2> QED BY <1>2, <2>10, <2>11, <2>12
<1>4. Plan!Passes(s[n].tags) => n \in K
  BY <1>1
<1> QED BY <1>3, <1>4 DEF K

\* All the runs of a file are what it owes.
LEMMA RunsAreWhole ==
  ASSUME NEW c, CaseIs(c), NEW f \in DOMAIN c.files, NEW rows, Fit(c, f, rows), NEW E,
         \A e \in E : IsRun(e, c, f, rows, Len(rows) + 1, 1),
         \A i \in DOMAIN rows, k \in DOMAIN TaskVariants, r \in 0..(Copied(c, f) - 1) :
           RunAt(c, f, rows[i], TaskVariants[k], r) \in E
  PROVE  Cardinality(Plan!IdsOf(E)) = Due(c, f) /\ Plan!KeysOf(E) = Plan!KeysFor(Plan!IdsOf(E), Copied(c, f))
<1> DEFINE m == Copied(c, f)
           name == c.files[f].id
           M == Plan!Members(rows)
           Ids == Plan!IdsOf(E)
           Idf == {<<name, x>> : x \in M}
<1>1. M = {rows[i] : i \in DOMAIN rows}
  BY DEF Plan!Members
<1>2. \A e \in E : \E i \in DOMAIN rows, k \in DOMAIN TaskVariants, r \in 0..(m - 1) :
        e.id = <<name, rows[i]>> /\ e.variant = TaskVariants[k] /\ e.rep = r
  BY DEF IsRun, RunAt
<1>3. \A i \in DOMAIN rows, k \in DOMAIN TaskVariants, r \in 0..(m - 1) :
        \E e \in E : e.id = <<name, rows[i]>> /\ e.variant = TaskVariants[k] /\ e.rep = r
  BY DEF RunAt
<1>4. 1 \in DOMAIN TaskVariants /\ 0 \in 0..(m - 1)
  <2>1. ListOf(TaskVariants) /\ Len(TaskVariants) > 0
    BY RulesAssumption DEF TasksPlain
  <2>2. m \in Nat /\ m > 0
    BY FileIs
  <2> QED BY <2>1, <2>2, ListIs
<1> HIDE DEF m, name
<1>5. Ids = Idf
  <2>1. \A id \in Ids : id \in Idf
    BY <1>1, <1>2 DEF Plan!IdsOf
  <2>2. ASSUME NEW x \in M
        PROVE  <<name, x>> \in Ids
    <3>1. PICK i \in DOMAIN rows : x = rows[i]
      BY <1>1
    <3>2. PICK e \in E : e.id = <<name, rows[i]>>
      BY <1>3, <1>4
    <3> QED BY <3>1, <3>2 DEF Plan!IdsOf
  <2> QED BY <2>1, <2>2
<1>6. Cardinality(M) = Len(rows) /\ Len(rows) = Due(c, f) /\ IsFiniteSet(M)
  <2>1. rows \in Draws(c, f) /\ Cardinality(M) = Len(rows)
    BY DEF Fit
  <2>2. Len(rows) = Due(c, f) /\ DOMAIN rows = 1..Due(c, f) /\ Due(c, f) \in Nat
    BY <2>1, DrawIs, FileIs
  <2> DEFINE g == [i \in 1..Due(c, f) |-> rows[i]]
  <2>3. g \in Surjection(1..Due(c, f), M)
    BY <1>1, <2>2 DEF Surjection
  <2>4. IsFiniteSet(1..Due(c, f))
    BY <2>2, FS_Interval
  <2>5. IsFiniteSet(M)
    BY <2>3, <2>4, FS_Surjection
  <2> QED BY <2>1, <2>2, <2>5
<1>7. Cardinality(Idf) = Cardinality(M)
  <2> DEFINE g == [x \in M |-> <<name, x>>]
  <2>1. g \in Bijection(M, Idf)
    <3>1. g \in [M -> Idf]
      OBVIOUS
    <3>2. \A x, y \in M : g[x] = g[y] => x = y
      OBVIOUS
    <3>3. \A z \in Idf : \E x \in M : g[x] = z
      OBVIOUS
    <3> QED BY <3>1, <3>2, <3>3 DEF Bijection, Injection, IsInjective, Surjection
  <2>2. ExistsBijection(M, Idf)
    BY <2>1 DEF ExistsBijection
  <2> QED BY <2>2, <1>6, FS_Bijection
<1>8. Cardinality(Ids) = Due(c, f)
  BY <1>5, <1>6, <1>7
<1> DEFINE V == Plan!Members(TaskVariants)
           Keys == Plan!KeysOf(E)
           Owed == Plan!KeysFor(Ids, m)
<1>9. V = {TaskVariants[k] : k \in DOMAIN TaskVariants}
  BY DEF Plan!Members
<1> HIDE DEF V
<1>10. \A z \in Keys : z \in Owed
  <2> TAKE z \in Keys
  <2>0. PICK e \in E : z = Plan!Key(e)
    BY DEF Plan!KeysOf
  <2>1. e.id \in Ids /\ e.variant \in V /\ e.rep \in 0..(m - 1)
    BY <1>2, <1>9 DEF Plan!IdsOf
  <2> HIDE DEF Ids
  <2> QED BY <2>0, <2>1 DEF Plan!Key, Plan!KeysFor, V
<1>11. ASSUME NEW id \in Ids, NEW v \in V, NEW r \in 0..(m - 1)
       PROVE  <<id, v, r>> \in Keys
  <2>1. PICK i \in DOMAIN rows : id = <<name, rows[i]>>
    BY <1>2 DEF Plan!IdsOf
  <2>2. PICK k \in DOMAIN TaskVariants : v = TaskVariants[k]
    BY <1>9
  <2>3. PICK e \in E : e.id = id /\ e.variant = v /\ e.rep = r
    BY <2>1, <2>2, <1>3
  <2> QED BY <2>3 DEF Plan!Key, Plan!KeysOf
<1>12. Keys = Owed
  <2>1. ASSUME NEW z \in Owed
        PROVE  z \in Keys
    <3>1. PICK id \in Ids, v \in V, r \in 0..(m - 1) : z = <<id, v, r>>
      BY DEF Plan!KeysFor, V
    <3> QED BY <3>1, <1>11
  <2> HIDE DEF Keys, Owed
  <2> QED BY <1>10, <2>1
<1> QED BY <1>8, <1>12 DEF m

\* The runs of a file in the list t.
EntriesIn(t, f) == {t[i] : i \in {j \in DOMAIN t : t[j].file = f}}

\* The list that is kept can be sorted, and the sort keeps it.
LEMMA KeptSorts ==
  ASSUME CaseIs(case), SoFar(case, out), ~ (out.file <= Len(case.files))
  PROVE  Keyed(out.resolved, Plan!Kept(out.resolved)) /\ IsFiniteSet(Plan!Kept(out.resolved))
<1> DEFINE s == out.resolved
           K == Plan!Kept(s)
<1>1. ListOf(s)
  BY DEF SoFar
<1>2. DOMAIN s = 1..Len(s) /\ Len(s) \in Nat
  BY <1>1, ListIs
<1>3. K \subseteq DOMAIN s
  BY DEF Plan!Kept
<1>4. ASSUME NEW n \in DOMAIN s
      PROVE  s[n].rep \in Int /\ s[n].file \in Int /\ Plan!Rank(s[n].variant) \in Int
  <2>1. PICK f \in DOMAIN case.files : \E rows \in Draws(case, f) :
          IsRun(s[n], case, f, rows, Len(rows) + 1, 1)
    BY RunsKnown
  <2>2. PICK rows \in Draws(case, f) : IsRun(s[n], case, f, rows, Len(rows) + 1, 1)
    BY <2>1
  <2> QED BY <2>2, RunTells
<1>5. IsFiniteSet(K)
  <2>1. IsFiniteSet(1..Len(s))
    BY <1>2, FS_Interval
  <2> QED BY <2>1, <1>2, <1>3, FS_Subset
<1>6. K \subseteq Nat
  BY <1>2, <1>3
<1> QED BY <1>3, <1>4, <1>5, <1>6 DEF Keyed

\* A file of the list is skipped, left out by its tags, or whole.
LEMMA FileAccounted ==
  ASSUME CaseIs(case), SoFar(case, out), ~ (out.file <= Len(case.files)),
         ~ Plan!Duplicates(out.resolved, Plan!Kept(out.resolved)),
         NEW t, t = Plan!Interleaved(out.resolved, Plan!Kept(out.resolved)),
         NEW f \in DOMAIN case.files
  PROVE  \/ f \in out.skipped \cup out.errors /\ EntriesIn(t, f) = {}
         \/ f \notin out.skipped \cup out.errors /\ EntriesIn(t, f) = {} /\ ~ Plan!Passes(case.files[f].tags)
         \/ /\ f \notin out.skipped \cup out.errors
            /\ Cardinality(Plan!IdsOf(EntriesIn(t, f))) = Due(case, f)
            /\ Plan!KeysOf(EntriesIn(t, f)) = Plan!KeysFor(Plan!IdsOf(EntriesIn(t, f)), Copied(case, f))
<1> DEFINE s == out.resolved
           K == Plan!Kept(s)
<1>1. Keyed(s, K) /\ IsFiniteSet(K) /\ K \subseteq DOMAIN s
  BY KeptSorts DEF Plan!Kept
<1>2. \A n \in DOMAIN s : n \in K <=> Plan!Passes(s[n].tags)
  BY KeptByTags
<1> HIDE DEF K
<1>3. /\ \A n \in DOMAIN t : \E i \in K : t[n] = s[i]
      /\ \A i \in K : \E n \in DOMAIN t : t[n] = s[i]
  BY <1>1, InterleavedOrders DEF K
<1>4. Settled(f, case, out)
  <2>1. ListOf(case.files)
    BY RulesAssumption DEF TasksPlain, CaseIs
  <2> QED BY <2>1, ListIs DEF SoFar
<1>5. CASE f \in out.skipped \cup out.errors
  <2>1. \A n \in DOMAIN s : s[n].file # f
    BY <1>4, <1>5 DEF Settled
  <2>2. \A n \in DOMAIN t : t[n].file # f
    BY <2>1, <1>1, <1>3
  <2> QED BY <2>2, <1>5 DEF EntriesIn
<1>6. CASE f \notin out.skipped \cup out.errors
  <2>1. PICK rows \in Draws(case, f) : Fit(case, f, rows) /\ AllRuns(s, case, f, rows)
    BY <1>4, <1>6 DEF Settled
  <2>2. \A n \in DOMAIN s : s[n].file = f => IsRun(s[n], case, f, rows, Len(rows) + 1, 1) /\ s[n].tags = case.files[f].tags
    BY <2>1, RunTells DEF AllRuns
  <2>3. CASE ~ Plan!Passes(case.files[f].tags)
    <3>1. \A i \in K : s[i].file # f
      BY <2>2, <2>3, <1>1, <1>2
    <3>2. \A n \in DOMAIN t : t[n].file # f
      BY <3>1, <1>3
    <3> QED BY <3>2, <1>6, <2>3 DEF EntriesIn
  <2>4. CASE Plan!Passes(case.files[f].tags)
    <3>1. \A e \in EntriesIn(t, f) : IsRun(e, case, f, rows, Len(rows) + 1, 1)
      BY <2>2, <1>1, <1>3 DEF EntriesIn
    <3>2. ASSUME NEW i \in DOMAIN rows, NEW k \in DOMAIN TaskVariants, NEW r \in 0..(Copied(case, f) - 1)
          PROVE  RunAt(case, f, rows[i], TaskVariants[k], r) \in EntriesIn(t, f)
      <4>1. Reached(i, k, Len(rows) + 1, 1)
        BY <2>1, AllReached
      <4>2. PICK n \in DOMAIN s : s[n] = RunAt(case, f, rows[i], TaskVariants[k], r)
        BY <2>1, <4>1 DEF AllRuns, HoldsRuns
      <4>3. s[n].file = f
        BY <4>2 DEF RunAt
      <4>4. n \in K
        BY <4>3, <2>2, <2>4, <1>2
      <4>5. PICK j \in DOMAIN t : t[j] = s[n]
        BY <4>4, <1>3
      <4> QED BY <4>2, <4>3, <4>5 DEF EntriesIn
    <3>3. Cardinality(Plan!IdsOf(EntriesIn(t, f))) = Due(case, f)
          /\ Plan!KeysOf(EntriesIn(t, f)) = Plan!KeysFor(Plan!IdsOf(EntriesIn(t, f)), Copied(case, f))
      BY <2>1, <3>1, <3>2, RunsAreWhole
    <3> QED BY <3>3, <1>6
  <2> QED BY <2>3, <2>4
<1> QED BY <1>5, <1>6

\* Two runs of the list have two keys, and the order of the replicates.
LEMMA OrderAccounted ==
  ASSUME CaseIs(case), SoFar(case, out), ~ (out.file <= Len(case.files)),
         ~ Plan!Duplicates(out.resolved, Plan!Kept(out.resolved)),
         NEW t, t = Plan!Interleaved(out.resolved, Plan!Kept(out.resolved)),
         NEW m \in DOMAIN t, NEW n \in DOMAIN t, m < n
  PROVE  /\ Plan!Key(t[m]) # Plan!Key(t[n])
         /\ t[m].rep < t[n].rep \/ (t[m].rep = t[n].rep /\ t[m].file <= t[n].file)
<1> DEFINE s == out.resolved
           K == Plan!Kept(s)
<1>1. Keyed(s, K) /\ IsFiniteSet(K)
  BY KeptSorts
<1>2. \A i, j \in K : i # j => Plan!Key(s[i]) # Plan!Key(s[j])
  BY DEF Plan!Duplicates
<1> HIDE DEF K
<1>3. PICK i \in K, j \in K : t[m] = s[i] /\ t[n] = s[j] /\ i # j /\ Plan!Before(s, i, j)
  BY <1>1, InterleavedOrders DEF K
<1>4. s[i].rep < s[j].rep \/ (s[i].rep = s[j].rep /\ s[i].file <= s[j].file)
  <2>1. s[i].rep \in Int /\ s[j].rep \in Int /\ s[i].file \in Int /\ s[j].file \in Int
    BY <1>1 DEF Keyed
  <2> QED BY <2>1, <1>1, <1>3, BeforeIs
<1> QED BY <1>2, <1>3, <1>4

LEMMA ListStep ==
  ASSUME PlanInv, Plan!ListTasks
  PROVE  PlanInv'
<1> DEFINE s == out.resolved
           K == Plan!Kept(s)
           t == Plan!Interleaved(s, K)
<1>1. /\ CaseIs(case) /\ SoFar(case, out) /\ ~ (out.file <= Len(case.files)) /\ case' = case
  <2>1. ListOf(case.files) /\ CaseIs(case) /\ SoFar(case, out)
    BY RulesAssumption DEF PlanInv, Plan!ListTasks, TasksPlain, CaseIs
  <2>2. Len(case.files) \in Nat /\ out.file \in Int
    BY <2>1, ListIs DEF SoFar
  <2> QED BY <2>1, <2>2 DEF Plan!ListTasks
<1>2. CASE Plan!Duplicates(s, K)
  <2>1. at' = "refused" /\ out' = out
    BY <1>2 DEF Plan!ListTasks
  <2> QED BY <1>1, <2>1 DEF PlanInv, TasksAccounted, Plan!TasksAccounted, Plan!Listed
<1>3. CASE ~ Plan!Duplicates(s, K)
  <2>1. at' = "listed" /\ out' = [out EXCEPT !.resolved = t, !.skipped = @ \cup out.errors]
    BY <1>3 DEF Plan!ListTasks
  <2>2. out = [file |-> out.file, rows |-> out.rows, row |-> out.row, variant |-> out.variant, buffer |-> out.buffer,
               resolved |-> out.resolved, skipped |-> out.skipped, errors |-> out.errors, attempted |-> out.attempted]
    BY <1>1 DEF SoFar
  <2> HIDE DEF t
  <2>3. out'.resolved = t /\ out'.skipped = out.skipped \cup out.errors
    BY <2>1, <2>2
  <2>4. \A f : Plan!EntriesOf(f)' = EntriesIn(t, f)
    BY <2>3 DEF Plan!EntriesOf, EntriesIn
  <2>5. ASSUME NEW f \in DOMAIN case.files,
               Cardinality(Plan!IdsOf(EntriesIn(t, f))) = Due(case, f),
               Plan!KeysOf(EntriesIn(t, f)) = Plan!KeysFor(Plan!IdsOf(EntriesIn(t, f)), Copied(case, f))
        PROVE  Plan!Whole(f)'
    <3>1. Plan!EntriesOf(f)' = EntriesIn(t, f)
      BY <2>4
    <3>2. Plan!Copies(case.files[f])' = Copied(case, f)
      BY <1>1 DEF Plan!Copies, Copied
    <3>3. Plan!Cardinality(Plan!IdsOf(EntriesIn(t, f))) = Due(case, f)
      BY <2>5, PlanCardinality
    <3> QED BY <1>1, <2>5, <3>1, <3>2, <3>3 DEF Plan!Whole, Due, Plan!NoSample
  <2>6. ASSUME NEW f \in DOMAIN case.files
        PROVE  \/ f \in out'.skipped /\ Plan!EntriesOf(f)' = {}
               \/ f \notin out'.skipped /\ Plan!EntriesOf(f)' = {} /\ ~ Plan!Passes(case.files[f].tags)
               \/ f \notin out'.skipped /\ Plan!Whole(f)'
    <3>1. \/ f \in out.skipped \cup out.errors /\ EntriesIn(t, f) = {}
          \/ f \notin out.skipped \cup out.errors /\ EntriesIn(t, f) = {} /\ ~ Plan!Passes(case.files[f].tags)
          \/ /\ f \notin out.skipped \cup out.errors
             /\ Cardinality(Plan!IdsOf(EntriesIn(t, f))) = Due(case, f)
             /\ Plan!KeysOf(EntriesIn(t, f)) = Plan!KeysFor(Plan!IdsOf(EntriesIn(t, f)), Copied(case, f))
      BY <1>1, <1>3, FileAccounted DEF t
    <3> QED BY <3>1, <2>3, <2>4, <2>5
  <2>7. ASSUME NEW i \in DOMAIN t, NEW j \in DOMAIN t, i < j
        PROVE  /\ Plan!Key(t[i]) # Plan!Key(t[j])
               /\ t[i].rep < t[j].rep \/ (t[i].rep = t[j].rep /\ t[i].file <= t[j].file)
    BY <1>1, <1>3, <2>7, OrderAccounted DEF t
  <2>8. TasksAccounted'
    <3>1. \A f : Plan!Passes(case.files[f].tags)' <=> Plan!Passes(case.files[f].tags)
      BY <1>1 DEF Plan!Passes
    <3>2. \A f \in (DOMAIN case.files)' :
            \/ f \in out'.skipped /\ Plan!EntriesOf(f)' = {}
            \/ f \notin out'.skipped /\ Plan!EntriesOf(f)' = {} /\ ~ Plan!Passes(case.files[f].tags)'
            \/ f \notin out'.skipped /\ Plan!Whole(f)'
      BY <1>1, <2>6, <3>1
    <3>3. \A i, j \in DOMAIN out'.resolved : i < j =>
            /\ Plan!Key(out'.resolved[i]) # Plan!Key(out'.resolved[j])
            /\ \/ out'.resolved[i].rep < out'.resolved[j].rep
               \/ out'.resolved[i].rep = out'.resolved[j].rep /\ out'.resolved[i].file <= out'.resolved[j].file
      BY <2>3, <2>7
    <3> QED BY <3>2, <3>3 DEF TasksAccounted, Plan!TasksAccounted
  <2> QED BY <1>1, <2>1, <2>8 DEF PlanInv
<1> QED BY <1>2, <1>3

\* Every task of a suite is run, or named among the skipped, once: whatever the
\* suites, the experiment, the tags and the sample (resolve_all_tasks).
THEOREM TasksStayAccounted == Plan!Spec => []TasksAccounted
<1>1. Plan!Init => PlanInv
  <2> SUFFICES ASSUME Plan!Init PROVE PlanInv
    OBVIOUS
  <2>1. CaseIs(case)
    BY DEF Plan!Init, CaseIs, Plan!NoSample
  <2>2. /\ at = "load"
        /\ out = [file |-> 1, rows |-> << >>, row |-> 1, variant |-> 1, buffer |-> << >>,
                  resolved |-> << >>, skipped |-> {}, errors |-> {}, attempted |-> 0]
    BY DEF Plan!Init
  <2>3. Len(case.files) \in Nat
    BY <2>1, RulesAssumption, ListIs DEF TasksPlain, CaseIs
  <2>4. ListOf(<< >>)
    <3>1. << >> \in Seq({})
      OBVIOUS
    <3> QED BY <3>1, IsList
  <2>5. SoFar(case, out)
    <3>1. 1..(1 - 1) = {}
      OBVIOUS
    <3>2. /\ out.file = 1 /\ out.rows = << >> /\ out.row = 1 /\ out.variant = 1 /\ out.buffer = << >>
          /\ out.resolved = << >> /\ out.skipped = {} /\ out.errors = {} /\ out.attempted = 0
      BY <2>2
    <3>3. \A n \in DOMAIN out.resolved : FALSE
      BY <3>2
    <3> QED BY <2>2, <2>3, <2>4, <3>1, <3>2, <3>3 DEF SoFar
  <2>6. out.buffer = << >> /\ out.row = 1 /\ out.variant = 1
    BY <2>2
  <2> QED BY <2>1, <2>2, <2>5, <2>6 DEF PlanInv, TasksAccounted, Plan!TasksAccounted, Plan!Listed
<1>2. PlanInv /\ [Plan!Next]_(Plan!vars) => PlanInv'
  <2> SUFFICES ASSUME PlanInv, [Plan!Next]_(Plan!vars) PROVE PlanInv'
    OBVIOUS
  <2>1. CASE Plan!EarlyStopRefused
    BY <2>1 DEF Plan!EarlyStopRefused, PlanInv, TasksAccounted, Plan!TasksAccounted, Plan!Listed
  <2>2. CASE Plan!NothingResolved
    BY <2>2 DEF Plan!NothingResolved, PlanInv, TasksAccounted, Plan!TasksAccounted, Plan!Listed
  <2>3. CASE UNCHANGED Plan!vars
    <3>1. case' = case /\ at' = at /\ out' = out
      BY <2>3 DEF Plan!vars
    <3>2. TasksAccounted' <=> TasksAccounted
      BY <3>1 DEF TasksAccounted, Plan!TasksAccounted, Plan!Listed, Plan!EntriesOf, Plan!Whole, Plan!Passes, Plan!Copies
    <3> QED BY <3>1, <3>2 DEF PlanInv
  <2> QED BY <2>1, <2>2, <2>3, SkipStep, LoadStep, ResolveStep, FailStep, ListStep DEF Plan!Next
<1>3. PlanInv => TasksAccounted
  BY DEF PlanInv
<1> QED BY <1>1, <1>2, <1>3, PTL DEF Plan!Spec
=============================================================================
