-------------------------- MODULE Container_proofs --------------------------
(***************************************************************************)
(* One dispatch into a container, for every configuration and every number *)
(* of cancellations and faults: what it leaves behind when it ends, and    *)
(* which results it hands on.                                              *)
(***************************************************************************)
EXTENDS Container, FiniteSetTheorems, TLAPS
-----------------------------------------------------------------------------
(* The inductive invariant.                                                *)

\* Where the coroutine is before the container, and after egress_scope.
Staging   == {"prep", "build", "record", "contract"} \cup StagePcs
Unspawned == Staging \cup EgressPcs \cup {"spawn"}
Left      == {"synth", "heartoff", "rmtree", "restore", "ended"}

\* Which exception is in flight where.
ExcTrue ==
  /\ h.pc \in (Unspawned \ {"record"}) \cup {"openlog", "stream", "parse", "denials"} => h.exc = "none"
  /\ h.pc = "record" => h.exc = "docker"
  /\ h.pc = "synth" => h.exc = "egress"
  /\ h.exc = "none" /\ h.pc \in InnerPcs \ {"spawn", "openlog", "stream"} => ~ Running
  /\ h.exc = "egress" => d.ctr = "none" /\ h.pc \in Left \cup {"teardown", "dead"}

\* What the daemon holds before anything was asked of it.
Nothing ==
  /\ h.pc \in Unspawned => d.ctr = "none"
  /\ h.pc = "openlog" => d.ctr # "none"
  /\ h.pc \in Staging \/ ~ cfg.llm => ~ d.net /\ d.side = "none"
  /\ h.pc \in EgressPcs => cfg.llm
  /\ d.ctr = "none" => box = "off" /\ watch = "none" /\ ~ d.grading /\ d.log = {}
  /\ watch # "none" => GradingPhase

\* Which row lies in the run directory.
RowKept ==
  /\ h.pc \in Unspawned => fs.row = "none"
  /\ h.exc = "none" /\ h.pc \in {"denials", "teardown", "heartoff", "rmtree", "restore", "ended"}
       => fs.row = "real" /\ ~ Running
  /\ h.exc = "docker" => fs.row \in {"none", "synthetic"} /\ ~ Running
  /\ h.exc = "egress" /\ h.pc \in {"teardown", "synth"} => fs.row = "none"
  /\ h.exc = "egress" /\ h.pc \in Left \ {"synth"} => fs.row = "synthetic"

\* What is still up, and why.
TornTrue ==
  /\ Undisturbed(Unguarded) /\ Running => h.pc \in {"openlog", "stream", "closelog", "kill", "dead"}
  /\ h.pc \in Left => d.side = "none" /\ (Undisturbed(Unguarded) => ~ d.net)

\* The modes of the graded workspace.
ModesTrue ==
  /\ h.pc \in Staging \ {"heart"} => ~ ws.wide
  /\ ws.wide => ws.recorded \/ ~ Undisturbed({"grant", "rmtree", "restore"})
  /\ h.pc = "ended" /\ ws.wide => ~ Undisturbed({"grant", "rmtree", "restore"})

\* The handshake: nobody asks before the agent is done.
AskTrue ==
  /\ h.pc = "spawn" /\ cfg.llm => ~ fs.req /\ fs.ack = "none"
  /\ box \in {"boot", "agent", "ask"} => ~ d.grading /\ watch \in {"none", "poll"} /\ (cfg.llm => ~ fs.req)
  /\ watch = "ok" => d.grading
  /\ box # "off" /\ cfg.llm /\ fs.ack = "ok" => d.grading
  /\ box \in {"agent", "ask", "wait"} => cfg.kind # "regrade"
  /\ box = "grade" /\ GradingPhase /\ cfg.widens => d.grading

\* A refusal is in the log of its phase.
LogTrue ==
  /\ cfg.kind = "regrade" => "agent" \notin d.log
  /\ fs.noted => d.log \cap {"grade", "grading"} # {}

ContainerInv ==
  /\ TypeOK /\ ExcTrue /\ Nothing /\ RowKept /\ TornTrue /\ ModesTrue /\ AskTrue /\ LogTrue
-----------------------------------------------------------------------------
(* What the steps are made of.                                             *)

\* The bounds of the environment.
EnvOK == env \in [cuts : SUBSET Pcs, faults : 0..MaxFaults] /\ Cardinality(env.cuts) <= MaxCuts

\* Cancellations and faults stay within their bounds.
LEMMA EnvKept ==
  ASSUME TypeOK, Ok \/ Fault \/ \E p, to \in Pcs : Cut(p, to)
  PROVE  EnvOK'
<1>1. CASE Ok
  BY <1>1 DEF Ok, TypeOK, EnvOK
<1>2. CASE Fault
  <2>1. env.faults \in Nat /\ env.faults < MaxFaults /\ MaxFaults \in Nat
    BY <1>2, ContainerAssumption DEF Fault, TypeOK
  <2>2. env'.cuts = env.cuts /\ env'.faults = env.faults + 1 /\ env' \in [cuts : SUBSET Pcs, faults : Nat]
    BY <1>2, <2>1 DEF Fault, TypeOK
  <2> QED BY <2>1, <2>2 DEF TypeOK, EnvOK
<1>3. ASSUME NEW p \in Pcs, NEW to \in Pcs, Cut(p, to)
      PROVE  EnvOK'
  <2>1. /\ env'.cuts = env.cuts \cup {p} /\ env'.faults = env.faults
        /\ env' \in [cuts : SUBSET Pcs, faults : 0..MaxFaults]
    BY <1>3 DEF Cut, TypeOK
  <2> QED BY <1>3, <2>1 DEF Cut, EnvOK
<1> QED BY <1>1, <1>2, <1>3

\* The other steps leave them alone.
LEMMA EnvStays == ASSUME TypeOK, UNCHANGED env PROVE EnvOK'
BY DEF TypeOK, EnvOK

\* What is left of a handshake that was removed.
LEMMA HandshakeGone ==
  ASSUME TypeOK
  PROVE  /\ NoHandshake \in [row : Rows, inputs : BOOLEAN, req : BOOLEAN, ack : {"none", "ok", "error"}, noted : BOOLEAN]
         /\ NoHandshake.row = fs.row /\ NoHandshake.noted = fs.noted
         /\ ~ NoHandshake.req /\ NoHandshake.ack = "none"
BY DEF TypeOK, NoHandshake

\* What is left of the daemon's objects behind egress_scope.
LEMMA TornType ==
  ASSUME TypeOK
  PROVE  /\ Torn \in [ctr : {"none", "running", "gone"}, net : BOOLEAN, side : {"none", "created", "running"},
                        grading : BOOLEAN, log : SUBSET {"agent", "grade", "grading"}]
         /\ Torn.ctr = d.ctr /\ Torn.grading = d.grading /\ Torn.log = d.log
         /\ Torn.side = "none" /\ (Torn.net => d.net /\ Running)
<1>1. (d.net /\ Running) \in BOOLEAN
  BY DEF TypeOK, Running
<1> QED BY <1>1 DEF TypeOK, Torn, Running

-----------------------------------------------------------------------------
(* The steps.                                                              *)

\* The steps of the preparation that leave nothing behind.
LEMMA PrepareKeeps ==
  ASSUME ContainerInv, \/ Preflight \/ BuildImage \/ ImageContract \/ ResolvePlan
         \/ HostMounts \/ ReferenceMount \/ TaskDirMount \/ EgressDir
  PROVE  ContainerInv'
<1> USE DEF ContainerInv, TypeOK, Preflight, BuildImage, ImageContract, ResolvePlan, HostMounts,
           ReferenceMount, TaskDirMount, EgressDir, CopyStep, At, Goto, Raise, Pcs, StagePcs,
           EgressPcs, InnerPcs, FinalPcs, Over, Staging, Unspawned, Left, Running, Cut, Ok, Fault
<1>1. EnvOK'
  BY EnvKept
<1>2. TypeOK'
  BY <1>1 DEF EnvOK, Rows, Exceptions, BoxPcs
<1>3. ExcTrue'
  BY DEF ExcTrue, Nothing
<1>4. Nothing'
  BY DEF ExcTrue, Nothing, GradingPhase
<1>5. RowKept'
  BY DEF ExcTrue, Nothing, RowKept
<1>6. TornTrue'
  BY DEF ExcTrue, Nothing, TornTrue, Undisturbed, Unguarded
<1>7. ModesTrue'
  BY DEF ModesTrue, Undisturbed
<1>8. AskTrue'
  BY DEF Nothing, AskTrue, GradingPhase
<1>9. LogTrue'
  BY DEF Nothing, AskTrue, LogTrue, GradingPhase
<1> QED BY <1>2, <1>3, <1>4, <1>5, <1>6, <1>7, <1>8, <1>9

\* A failed build leaves a synthetic row.
LEMMA RecordBuildFailureKeeps ==
  ASSUME ContainerInv, RecordBuildFailure
  PROVE  ContainerInv'
<1> USE DEF ContainerInv, TypeOK, RecordBuildFailure, Synthetic, At, Goto, Raise, Pcs, StagePcs,
           EgressPcs, InnerPcs, FinalPcs, Over, Staging, Unspawned, Left, Running, Cut, Ok, Fault
<1>1. EnvOK'
  BY EnvKept
<1>2. TypeOK'
  BY <1>1 DEF EnvOK, Rows, Exceptions, BoxPcs
<1>3. ExcTrue'
  BY DEF ExcTrue, Nothing
<1>4. Nothing'
  BY DEF ExcTrue, Nothing, GradingPhase
<1>5. RowKept'
  BY DEF ExcTrue, Nothing, RowKept
<1>6. TornTrue'
  BY DEF ExcTrue, Nothing, TornTrue, Undisturbed, Unguarded
<1>7. ModesTrue'
  BY DEF ModesTrue, Undisturbed
<1>8. AskTrue'
  BY DEF Nothing, AskTrue, GradingPhase
<1>9. LogTrue'
  BY DEF Nothing, AskTrue, LogTrue, GradingPhase
<1> QED BY <1>2, <1>3, <1>4, <1>5, <1>6, <1>7, <1>8, <1>9

\* The inputs are staged.
LEMMA StageInputsKeeps ==
  ASSUME ContainerInv, StageInputs
  PROVE  ContainerInv'
<1> USE DEF ContainerInv, TypeOK, StageInputs, At, Goto, Raise, Pcs, StagePcs, EgressPcs, InnerPcs,
           FinalPcs, Over, Staging, Unspawned, Left, Running, Cut, Ok, Fault
<1>1. EnvOK'
  BY EnvKept
<1>2. TypeOK'
  <2>1. fs' \in [row : Rows, inputs : BOOLEAN, req : BOOLEAN, ack : {"none", "ok", "error"}, noted : BOOLEAN]
    OBVIOUS
  <2> QED
  BY <1>1, <2>1 DEF EnvOK, Rows, Exceptions, BoxPcs
<1>3. ExcTrue'
  BY DEF ExcTrue, Nothing
<1>4. Nothing'
  BY DEF ExcTrue, Nothing, GradingPhase
<1>5. RowKept'
  BY DEF ExcTrue, Nothing, RowKept
<1>6. TornTrue'
  BY DEF ExcTrue, Nothing, TornTrue, Undisturbed, Unguarded
<1>7. ModesTrue'
  BY DEF ModesTrue, Undisturbed
<1>8. AskTrue'
  BY DEF Nothing, AskTrue, GradingPhase
<1>9. LogTrue'
  BY DEF Nothing, AskTrue, LogTrue, GradingPhase
<1> QED BY <1>2, <1>3, <1>4, <1>5, <1>6, <1>7, <1>8, <1>9

\* The graded workspace is widened.
LEMMA GrantKeeps ==
  ASSUME ContainerInv, Grant
  PROVE  ContainerInv'
<1> USE DEF ContainerInv, TypeOK, Grant, At, Goto, Raise, Pcs, StagePcs, EgressPcs, InnerPcs,
           FinalPcs, Over, Staging, Unspawned, Left, Running, Cut
<1>1. EnvOK'
  BY EnvKept
<1>2. TypeOK'
  <2>1. CASE cfg.kind = "regrade" /\ Goto("heart") /\ Ok /\ ws' = [wide |-> TRUE, recorded |-> TRUE]
    BY <1>1, <2>1 DEF EnvOK
  <2>2. CASE UNCHANGED ws /\ Goto("heart")
    BY <1>1, <2>2 DEF EnvOK
  <2>3. CASE /\ Raise("heartoff", "os") \/ Cut("grant", "heartoff")
             /\ \E started \in BOOLEAN : ws' = [ws EXCEPT !.wide = started]
    <3>1. ws' \in [wide : BOOLEAN, recorded : BOOLEAN]
      BY <2>3
    <3> QED BY <1>1, <2>3, <3>1 DEF EnvOK, Exceptions
  <2> QED BY <2>1, <2>2, <2>3
<1>3. ExcTrue'
  BY DEF ExcTrue, Nothing, Ok, Fault
<1>4. Nothing'
  BY DEF ExcTrue, Nothing, GradingPhase, Ok, Fault
<1>5. RowKept'
  BY DEF ExcTrue, Nothing, RowKept, Ok, Fault
<1>6. TornTrue'
  BY DEF ExcTrue, Nothing, TornTrue, Undisturbed, Unguarded, Ok, Fault
<1>7. ModesTrue'
  BY DEF ModesTrue, Undisturbed, Ok, Fault
<1>8. AskTrue'
  BY DEF Nothing, AskTrue, GradingPhase, Ok, Fault
<1>9. LogTrue'
  BY DEF Nothing, AskTrue, LogTrue, GradingPhase, Ok, Fault
<1> QED BY <1>2, <1>3, <1>4, <1>5, <1>6, <1>7, <1>8, <1>9

\* The heartbeat starts, and ends.
LEMMA HeartbeatKeeps ==
  ASSUME ContainerInv, StartHeartbeat \/ StopHeartbeat
  PROVE  ContainerInv'
<1> USE DEF ContainerInv, TypeOK, StartHeartbeat, StopHeartbeat, At, Goto, Raise, Pcs, StagePcs,
           EgressPcs, InnerPcs, FinalPcs, Over, Staging, Unspawned, Left, Running, Cut, Ok
<1>1. EnvOK'
  BY EnvKept
<1>2. TypeOK'
  <2>1. hb' \in BOOLEAN
    OBVIOUS
  <2> QED
  BY <1>1, <2>1 DEF EnvOK, Rows, Exceptions, BoxPcs
<1>3. ExcTrue'
  BY DEF ExcTrue, Nothing
<1>4. Nothing'
  BY DEF ExcTrue, Nothing, GradingPhase
<1>5. RowKept'
  BY DEF ExcTrue, Nothing, RowKept
<1>6. TornTrue'
  BY DEF ExcTrue, Nothing, TornTrue, Undisturbed, Unguarded
<1>7. ModesTrue'
  BY DEF ModesTrue, Undisturbed
<1>8. AskTrue'
  BY DEF Nothing, AskTrue, GradingPhase
<1>9. LogTrue'
  BY DEF Nothing, AskTrue, LogTrue, GradingPhase
<1> QED BY <1>2, <1>3, <1>4, <1>5, <1>6, <1>7, <1>8, <1>9

\* Network and sidecar come up.
LEMMA EgressUpKeeps ==
  ASSUME ContainerInv, EgressUp
  PROVE  ContainerInv'
<1>0. d' \in [ctr : {"none", "running", "gone"}, net : BOOLEAN, side : {"none", "created", "running"},
             grading : BOOLEAN, log : SUBSET {"agent", "grade", "grading"}]
  BY DEF ContainerInv, TypeOK, EgressUp, EgressStep, Cut
<1> USE DEF ContainerInv, TypeOK, EgressUp, EgressStep, At, Goto, Raise, Pcs, StagePcs, EgressPcs,
           InnerPcs, FinalPcs, Over, Staging, Unspawned, Left, Cut, Running, Ok, Fault
<1>1. EnvOK'
  BY EnvKept
<1>2. TypeOK'
  BY <1>1, <1>0 DEF EnvOK, Rows, Exceptions, BoxPcs
<1>3. ExcTrue'
  BY DEF ExcTrue, Nothing
<1>4. Nothing'
  BY DEF ExcTrue, Nothing, GradingPhase
<1>5. RowKept'
  BY DEF ExcTrue, Nothing, RowKept
<1>6. TornTrue'
  BY DEF ExcTrue, Nothing, TornTrue, Undisturbed, Unguarded
<1>7. ModesTrue'
  BY DEF ModesTrue, Undisturbed
<1>8. AskTrue'
  BY DEF Nothing, AskTrue, GradingPhase
<1>9. LogTrue'
  BY DEF Nothing, AskTrue, LogTrue, GradingPhase
<1> QED BY <1>2, <1>3, <1>4, <1>5, <1>6, <1>7, <1>8, <1>9

\* An old handshake is removed.
LEMMA ClearHandshakeKeeps ==
  ASSUME ContainerInv, ClearHandshake
  PROVE  ContainerInv'
<1> USE DEF ContainerInv, TypeOK, ClearHandshake, At, Goto, Raise, Pcs, StagePcs, EgressPcs,
           InnerPcs, FinalPcs, Over, Staging, Unspawned, Left, Running, Cut, Ok, Fault
<1>1. EnvOK'
  BY EnvKept
<1>2. TypeOK'
  BY <1>1, HandshakeGone DEF EnvOK, Rows, Exceptions, BoxPcs
<1>3. ExcTrue'
  BY HandshakeGone DEF ExcTrue, Nothing
<1>4. Nothing'
  BY HandshakeGone DEF ExcTrue, Nothing, GradingPhase
<1>5. RowKept'
  BY HandshakeGone DEF ExcTrue, Nothing, RowKept
<1>6. TornTrue'
  BY HandshakeGone DEF ExcTrue, Nothing, TornTrue, Undisturbed, Unguarded
<1>7. ModesTrue'
  BY HandshakeGone DEF ModesTrue, Undisturbed
<1>8. AskTrue'
  BY HandshakeGone DEF Nothing, AskTrue, GradingPhase
<1>9. LogTrue'
  BY HandshakeGone DEF Nothing, AskTrue, LogTrue, GradingPhase
<1> QED BY <1>2, <1>3, <1>4, <1>5, <1>6, <1>7, <1>8, <1>9

\* The container starts.
LEMMA SpawnKeeps ==
  ASSUME ContainerInv, Spawn
  PROVE  ContainerInv'
<1> USE DEF ContainerInv, TypeOK, Spawn, Started, At, Goto, Raise, Pcs, StagePcs, EgressPcs,
           InnerPcs, FinalPcs, Over, Staging, Unspawned, Left, Running, Cut, Ok, Fault
<1>1. EnvOK'
  BY EnvKept
<1>2. TypeOK'
  BY <1>1 DEF EnvOK, Rows, Exceptions, BoxPcs
<1>3. ExcTrue'
  BY DEF ExcTrue, Nothing
<1>4. Nothing'
  BY DEF ExcTrue, Nothing, GradingPhase
<1>5. RowKept'
  BY DEF ExcTrue, Nothing, RowKept
<1>6. TornTrue'
  BY DEF ExcTrue, Nothing, TornTrue, Undisturbed, Unguarded
<1>7. ModesTrue'
  BY DEF ModesTrue, Undisturbed
<1>8. AskTrue'
  BY DEF Nothing, AskTrue, GradingPhase
<1>9. LogTrue'
  BY DEF Nothing, AskTrue, LogTrue, GradingPhase
<1> QED BY <1>2, <1>3, <1>4, <1>5, <1>6, <1>7, <1>8, <1>9

\* The watcher starts with the log.
LEMMA OpenLogKeeps ==
  ASSUME ContainerInv, OpenLog
  PROVE  ContainerInv'
<1> USE DEF ContainerInv, TypeOK, OpenLog, At, Goto, Raise, Pcs, StagePcs, EgressPcs, InnerPcs,
           FinalPcs, Over, Staging, Unspawned, Left, Running, Cut, Ok, Fault
<1>1. EnvOK'
  BY EnvKept
<1>2. TypeOK'
  BY <1>1 DEF EnvOK, Rows, Exceptions, BoxPcs
<1>3. ExcTrue'
  BY DEF ExcTrue, Nothing
<1>4. Nothing'
  BY DEF ExcTrue, Nothing, GradingPhase
<1>5. RowKept'
  BY DEF ExcTrue, Nothing, RowKept
<1>6. TornTrue'
  BY DEF ExcTrue, Nothing, TornTrue, Undisturbed, Unguarded
<1>7. ModesTrue'
  BY DEF ModesTrue, Undisturbed
<1>8. AskTrue'
  BY DEF Nothing, AskTrue, GradingPhase
<1>9. LogTrue'
  BY DEF Nothing, AskTrue, LogTrue, GradingPhase
<1> QED BY <1>2, <1>3, <1>4, <1>5, <1>6, <1>7, <1>8, <1>9

\* The output ends with the container, and its log is closed.
LEMMA StreamKeeps ==
  ASSUME ContainerInv, Stream \/ CloseLog
  PROVE  ContainerInv'
<1> USE DEF ContainerInv, TypeOK, Stream, CloseLog, At, Goto, Raise, Pcs, StagePcs, EgressPcs,
           InnerPcs, FinalPcs, Over, Staging, Unspawned, Left, Running, Cut, Ok, Fault
<1>1. EnvOK'
  BY EnvKept
<1>2. TypeOK'
  BY <1>1 DEF EnvOK, Rows, Exceptions, BoxPcs
<1>3. ExcTrue'
  BY DEF ExcTrue, Nothing
<1>4. Nothing'
  BY DEF ExcTrue, Nothing, GradingPhase
<1>5. RowKept'
  BY DEF ExcTrue, Nothing, RowKept
<1>6. TornTrue'
  BY DEF ExcTrue, Nothing, TornTrue, Undisturbed, Unguarded
<1>7. ModesTrue'
  BY DEF ModesTrue, Undisturbed
<1>8. AskTrue'
  BY DEF Nothing, AskTrue, GradingPhase
<1>9. LogTrue'
  BY DEF Nothing, AskTrue, LogTrue, GradingPhase
<1> QED BY <1>2, <1>3, <1>4, <1>5, <1>6, <1>7, <1>8, <1>9

\* The container is killed.
LEMMA KillKeeps ==
  ASSUME ContainerInv, Kill
  PROVE  ContainerInv'
<1> USE DEF ContainerInv, TypeOK, Kill, Gone, At, Goto, Raise, Pcs, StagePcs, EgressPcs, InnerPcs,
           FinalPcs, Over, Staging, Unspawned, Left, Running, Cut, Ok, Fault
<1>1. EnvOK'
  BY EnvKept
<1>2. TypeOK'
  BY <1>1 DEF EnvOK, Rows, Exceptions, BoxPcs
<1>3. ExcTrue'
  BY DEF ExcTrue, Nothing
<1>4. Nothing'
  BY DEF ExcTrue, Nothing, GradingPhase
<1>5. RowKept'
  BY DEF ExcTrue, Nothing, RowKept
<1>6. TornTrue'
  BY DEF ExcTrue, Nothing, TornTrue, Undisturbed, Unguarded
<1>7. ModesTrue'
  BY DEF ModesTrue, Undisturbed
<1>8. AskTrue'
  BY DEF Nothing, AskTrue, GradingPhase
<1>9. LogTrue'
  BY DEF Nothing, AskTrue, LogTrue, GradingPhase
<1> QED BY <1>2, <1>3, <1>4, <1>5, <1>6, <1>7, <1>8, <1>9

\* The watcher is stopped.
LEMMA StopWatchKeeps ==
  ASSUME ContainerInv, StopWatch
  PROVE  ContainerInv'
<1> USE DEF ContainerInv, TypeOK, StopWatch, At, Goto, Raise, Pcs, StagePcs, EgressPcs, InnerPcs,
           FinalPcs, Over, Staging, Unspawned, Left, Running, Cut, Ok
<1>1. EnvOK'
  BY EnvKept
<1>2. TypeOK'
  BY <1>1, HandshakeGone DEF EnvOK, Rows, Exceptions, BoxPcs
<1>3. ExcTrue'
  BY HandshakeGone DEF ExcTrue, Nothing
<1>4. Nothing'
  BY HandshakeGone DEF ExcTrue, Nothing, GradingPhase
<1>5. RowKept'
  BY HandshakeGone DEF ExcTrue, Nothing, RowKept
<1>6. TornTrue'
  BY HandshakeGone DEF ExcTrue, Nothing, TornTrue, Undisturbed, Unguarded
<1>7. ModesTrue'
  BY HandshakeGone DEF ModesTrue, Undisturbed
<1>8. AskTrue'
  BY HandshakeGone DEF Nothing, AskTrue, GradingPhase
<1>9. LogTrue'
  BY HandshakeGone DEF Nothing, AskTrue, LogTrue, GradingPhase
<1> QED BY <1>2, <1>3, <1>4, <1>5, <1>6, <1>7, <1>8, <1>9

\* The row is read, or replaced.
LEMMA ParseKeeps ==
  ASSUME ContainerInv, Parse
  PROVE  ContainerInv'
<1> USE DEF ContainerInv, TypeOK, Parse, Synthetic, At, Goto, Raise, Pcs, StagePcs, EgressPcs,
           InnerPcs, FinalPcs, Over, Staging, Unspawned, Left, Running, Cut, Ok
<1>1. EnvOK'
  BY EnvKept
<1>2. TypeOK'
  BY <1>1 DEF EnvOK, Rows, Exceptions, BoxPcs
<1>3. ExcTrue'
  BY DEF ExcTrue, Nothing
<1>4. Nothing'
  BY DEF ExcTrue, Nothing, GradingPhase
<1>5. RowKept'
  BY DEF ExcTrue, Nothing, RowKept
<1>6. TornTrue'
  BY DEF ExcTrue, Nothing, TornTrue, Undisturbed, Unguarded
<1>7. ModesTrue'
  BY DEF ModesTrue, Undisturbed
<1>8. AskTrue'
  BY DEF Nothing, AskTrue, GradingPhase
<1>9. LogTrue'
  BY DEF Nothing, AskTrue, LogTrue, GradingPhase
<1> QED BY <1>2, <1>3, <1>4, <1>5, <1>6, <1>7, <1>8, <1>9

\* The refused hosts are noted.
LEMMA DenialsKeeps ==
  ASSUME ContainerInv, Denials
  PROVE  ContainerInv'
<1>0. fs' \in [row : Rows, inputs : BOOLEAN, req : BOOLEAN, ack : {"none", "ok", "error"}, noted : BOOLEAN]
  BY DEF ContainerInv, TypeOK, Denials, GradingDenials
<1> USE DEF ContainerInv, TypeOK, Denials, GradingDenials, At, Goto, Raise, Pcs, StagePcs,
           EgressPcs, InnerPcs, FinalPcs, Over, Staging, Unspawned, Left, Running, Cut, Ok
<1>1. EnvOK'
  BY EnvKept
<1>2. TypeOK'
  BY <1>1, <1>0 DEF EnvOK, Rows, Exceptions, BoxPcs
<1>3. ExcTrue'
  BY DEF ExcTrue, Nothing
<1>4. Nothing'
  BY DEF ExcTrue, Nothing, GradingPhase
<1>5. RowKept'
  BY DEF ExcTrue, Nothing, RowKept
<1>6. TornTrue'
  BY DEF ExcTrue, Nothing, TornTrue, Undisturbed, Unguarded
<1>7. ModesTrue'
  BY DEF ModesTrue, Undisturbed
<1>8. AskTrue'
  BY DEF Nothing, AskTrue, GradingPhase
<1>9. LogTrue'
  BY DEF Nothing, AskTrue, LogTrue, GradingPhase
<1> QED BY <1>2, <1>3, <1>4, <1>5, <1>6, <1>7, <1>8, <1>9

\* Sidecar and network are removed.
LEMMA TeardownKeeps ==
  ASSUME ContainerInv, Teardown
  PROVE  ContainerInv'
<1> USE DEF ContainerInv, TypeOK, Teardown, AfterScope, At, Goto, Raise, Pcs, StagePcs, EgressPcs,
           InnerPcs, FinalPcs, Over, Staging, Unspawned, Left, Running, Cut, Ok
<1>1. EnvOK'
  BY EnvKept
<1>2. TypeOK'
  BY <1>1, TornType DEF EnvOK, Rows, Exceptions, BoxPcs
<1>3. ExcTrue'
  BY TornType DEF ExcTrue, Nothing
<1>4. Nothing'
  BY TornType DEF ExcTrue, Nothing, GradingPhase
<1>5. RowKept'
  BY TornType DEF ExcTrue, Nothing, RowKept
<1>6. TornTrue'
  BY TornType DEF ExcTrue, Nothing, TornTrue, Undisturbed, Unguarded
<1>7. ModesTrue'
  BY TornType DEF ModesTrue, Undisturbed
<1>8. AskTrue'
  BY TornType DEF Nothing, AskTrue, GradingPhase
<1>9. LogTrue'
  BY TornType DEF Nothing, AskTrue, LogTrue, GradingPhase
<1> QED BY <1>2, <1>3, <1>4, <1>5, <1>6, <1>7, <1>8, <1>9

\* A failed egress set-up leaves a synthetic row.
LEMMA SynthRowKeeps ==
  ASSUME ContainerInv, SynthRow
  PROVE  ContainerInv'
<1> USE DEF ContainerInv, TypeOK, SynthRow, Synthetic, At, Goto, Raise, Pcs, StagePcs, EgressPcs,
           InnerPcs, FinalPcs, Over, Staging, Unspawned, Left, Running, Cut, Ok
<1>1. EnvOK'
  BY EnvKept
<1>2. TypeOK'
  BY <1>1 DEF EnvOK, Rows, Exceptions, BoxPcs
<1>3. ExcTrue'
  BY DEF ExcTrue, Nothing
<1>4. Nothing'
  BY DEF ExcTrue, Nothing, GradingPhase
<1>5. RowKept'
  BY DEF ExcTrue, Nothing, RowKept
<1>6. TornTrue'
  BY DEF ExcTrue, Nothing, TornTrue, Undisturbed, Unguarded
<1>7. ModesTrue'
  BY DEF ModesTrue, Undisturbed
<1>8. AskTrue'
  BY DEF Nothing, AskTrue, GradingPhase
<1>9. LogTrue'
  BY DEF Nothing, AskTrue, LogTrue, GradingPhase
<1> QED BY <1>2, <1>3, <1>4, <1>5, <1>6, <1>7, <1>8, <1>9

\* The staged copies are removed.
LEMMA RemoveStagingKeeps ==
  ASSUME ContainerInv, RemoveStaging
  PROVE  ContainerInv'
<1> USE DEF ContainerInv, TypeOK, RemoveStaging, At, Goto, Raise, Pcs, StagePcs, EgressPcs,
           InnerPcs, FinalPcs, Over, Staging, Unspawned, Left, Running, Cut, Ok
<1>1. EnvOK'
  BY EnvKept
<1>2. TypeOK'
  <2>1. fs' \in [row : Rows, inputs : BOOLEAN, req : BOOLEAN, ack : {"none", "ok", "error"}, noted : BOOLEAN]
    OBVIOUS
  <2> QED
  BY <1>1, <2>1 DEF EnvOK, Rows, Exceptions, BoxPcs
<1>3. ExcTrue'
  BY DEF ExcTrue, Nothing
<1>4. Nothing'
  BY DEF ExcTrue, Nothing, GradingPhase
<1>5. RowKept'
  BY DEF ExcTrue, Nothing, RowKept
<1>6. TornTrue'
  BY DEF ExcTrue, Nothing, TornTrue, Undisturbed, Unguarded
<1>7. ModesTrue'
  BY DEF ModesTrue, Undisturbed
<1>8. AskTrue'
  BY DEF Nothing, AskTrue, GradingPhase
<1>9. LogTrue'
  BY DEF Nothing, AskTrue, LogTrue, GradingPhase
<1> QED BY <1>2, <1>3, <1>4, <1>5, <1>6, <1>7, <1>8, <1>9

\* The modes are restored.
LEMMA RestoreKeeps ==
  ASSUME ContainerInv, Restore
  PROVE  ContainerInv'
<1> USE DEF ContainerInv, TypeOK, Restore, At, Goto, Raise, Pcs, StagePcs, EgressPcs, InnerPcs,
           FinalPcs, Over, Staging, Unspawned, Left, Running, Cut, Ok
<1>1. EnvOK'
  BY EnvKept
<1>2. TypeOK'
  <2>1. ws' \in [wide : BOOLEAN, recorded : BOOLEAN]
    OBVIOUS
  <2> QED
  BY <1>1, <2>1 DEF EnvOK, Rows, Exceptions, BoxPcs
<1>3. ExcTrue'
  BY DEF ExcTrue, Nothing
<1>4. Nothing'
  BY DEF ExcTrue, Nothing, GradingPhase
<1>5. RowKept'
  BY DEF ExcTrue, Nothing, RowKept
<1>6. TornTrue'
  BY DEF ExcTrue, Nothing, TornTrue, Undisturbed, Unguarded
<1>7. ModesTrue'
  <2>1. ws.wide \in BOOLEAN /\ ws.recorded \in BOOLEAN /\ ws'.recorded = ws.recorded
    OBVIOUS
  <2>2. CASE Goto("ended") /\ Ok /\ ws' = [ws EXCEPT !.wide = @ /\ ~ ws.recorded]
    <3>1. ws'.wide => ws.wide /\ ~ ws.recorded
      BY <2>2
    <3> QED BY <2>1, <2>2, <3>1 DEF ModesTrue, Undisturbed
  <2>3. CASE Cut("restore", "ended")
    <3>1. "restore" \in env'.cuts
      BY <2>3
    <3> QED BY <2>3, <3>1 DEF ModesTrue, Undisturbed
  <2> QED BY <2>2, <2>3
<1>8. AskTrue'
  BY DEF Nothing, AskTrue, GradingPhase
<1>9. LogTrue'
  BY DEF Nothing, AskTrue, LogTrue, GradingPhase
<1> QED BY <1>2, <1>3, <1>4, <1>5, <1>6, <1>7, <1>8, <1>9

\* The host is killed.
LEMMA HostDiesKeeps ==
  ASSUME ContainerInv, HostDies
  PROVE  ContainerInv'
<1> USE DEF ContainerInv, TypeOK, Running, HostDies, Goto, Pcs, StagePcs, EgressPcs, InnerPcs,
           FinalPcs, Over, Staging, Unspawned, Left, Nothing
<1>1. EnvOK'
  BY EnvStays
<1>2. TypeOK'
  <2>1. hb' \in BOOLEAN
    OBVIOUS
  <2> QED
  BY <1>1, <2>1 DEF EnvOK, Rows, Exceptions, BoxPcs
<1>3. ExcTrue'
  BY DEF ExcTrue
<1>4. Nothing'
  BY DEF ExcTrue, GradingPhase
<1>5. RowKept'
  BY DEF ExcTrue, RowKept
<1>6. TornTrue'
  BY DEF ExcTrue, TornTrue, Undisturbed, Unguarded
<1>7. ModesTrue'
  BY DEF ModesTrue, Undisturbed
<1>8. AskTrue'
  BY DEF AskTrue, GradingPhase
<1>9. LogTrue'
  BY DEF AskTrue, LogTrue, GradingPhase
<1> QED BY <1>2, <1>3, <1>4, <1>5, <1>6, <1>7, <1>8, <1>9

\* The watcher sees a request.
LEMMA SeeRequestKeeps ==
  ASSUME ContainerInv, SeeRequest
  PROVE  ContainerInv'
<1> USE DEF ContainerInv, TypeOK, Running, SeeRequest, Pcs, StagePcs, EgressPcs, InnerPcs,
           FinalPcs, Over, Staging, Unspawned, Left, Nothing
<1>1. EnvOK'
  BY EnvStays
<1>2. TypeOK'
  BY <1>1 DEF EnvOK, Rows, Exceptions, BoxPcs
<1>3. ExcTrue'
  BY DEF ExcTrue
<1>4. Nothing'
  BY DEF ExcTrue, GradingPhase
<1>5. RowKept'
  BY DEF ExcTrue, RowKept
<1>6. TornTrue'
  BY DEF ExcTrue, TornTrue, Undisturbed, Unguarded
<1>7. ModesTrue'
  BY DEF ModesTrue, Undisturbed
<1>8. AskTrue'
  BY DEF AskTrue, GradingPhase
<1>9. LogTrue'
  BY DEF AskTrue, LogTrue, GradingPhase
<1> QED BY <1>2, <1>3, <1>4, <1>5, <1>6, <1>7, <1>8, <1>9

\* The proxy switches.
LEMMA SwitchKeeps ==
  ASSUME ContainerInv, Switch
  PROVE  ContainerInv'
<1>0. d' \in [ctr : {"none", "running", "gone"}, net : BOOLEAN, side : {"none", "created", "running"},
             grading : BOOLEAN, log : SUBSET {"agent", "grade", "grading"}]
  BY DEF ContainerInv, TypeOK, Switch
<1> USE DEF ContainerInv, TypeOK, Switch, Pcs, StagePcs, EgressPcs, InnerPcs, FinalPcs, Over,
           Staging, Unspawned, Left, Running, Fault, Ok
<1>1. EnvOK'
  BY EnvKept
<1>2. TypeOK'
  BY <1>1, <1>0 DEF EnvOK, Rows, Exceptions, BoxPcs
<1>3. ExcTrue'
  BY DEF ExcTrue, Nothing
<1>4. Nothing'
  BY DEF ExcTrue, Nothing, GradingPhase
<1>5. RowKept'
  BY DEF ExcTrue, Nothing, RowKept
<1>6. TornTrue'
  BY DEF ExcTrue, Nothing, TornTrue, Undisturbed, Unguarded
<1>7. ModesTrue'
  BY DEF ModesTrue, Undisturbed
<1>8. AskTrue'
  BY DEF Nothing, AskTrue, GradingPhase
<1>9. LogTrue'
  BY DEF Nothing, AskTrue, LogTrue, GradingPhase
<1> QED BY <1>2, <1>3, <1>4, <1>5, <1>6, <1>7, <1>8, <1>9

\* The watcher answers.
LEMMA AnswerKeeps ==
  ASSUME ContainerInv, Answer
  PROVE  ContainerInv'
<1> USE DEF ContainerInv, TypeOK, Running, Answer, Pcs, StagePcs, EgressPcs, InnerPcs, FinalPcs,
           Over, Staging, Unspawned, Left, Nothing
<1>1. EnvOK'
  BY EnvStays
<1>2. TypeOK'
  BY <1>1 DEF EnvOK, Rows, Exceptions, BoxPcs
<1>3. ExcTrue'
  BY DEF ExcTrue
<1>4. Nothing'
  BY DEF ExcTrue, GradingPhase
<1>5. RowKept'
  BY DEF ExcTrue, RowKept
<1>6. TornTrue'
  BY DEF ExcTrue, TornTrue, Undisturbed, Unguarded
<1>7. ModesTrue'
  BY DEF ModesTrue, Undisturbed
<1>8. AskTrue'
  BY DEF AskTrue, GradingPhase
<1>9. LogTrue'
  BY DEF AskTrue, LogTrue, GradingPhase
<1> QED BY <1>2, <1>3, <1>4, <1>5, <1>6, <1>7, <1>8, <1>9

\* The sidecar stops by itself.
LEMMA SidecarStopsKeeps ==
  ASSUME ContainerInv, SidecarStops
  PROVE  ContainerInv'
<1> USE DEF ContainerInv, TypeOK, Running, SidecarStops, Pcs, StagePcs, EgressPcs, InnerPcs,
           FinalPcs, Over, Staging, Unspawned, Left, Nothing
<1>1. EnvOK'
  BY EnvStays
<1>2. TypeOK'
  BY <1>1 DEF EnvOK, Rows, Exceptions, BoxPcs
<1>3. ExcTrue'
  BY DEF ExcTrue
<1>4. Nothing'
  BY DEF ExcTrue, GradingPhase
<1>5. RowKept'
  BY DEF ExcTrue, RowKept
<1>6. TornTrue'
  BY DEF ExcTrue, TornTrue, Undisturbed, Unguarded
<1>7. ModesTrue'
  BY DEF ModesTrue, Undisturbed
<1>8. AskTrue'
  BY DEF AskTrue, GradingPhase
<1>9. LogTrue'
  BY DEF AskTrue, LogTrue, GradingPhase
<1> QED BY <1>2, <1>3, <1>4, <1>5, <1>6, <1>7, <1>8, <1>9

\* The entry point takes its inputs.
LEMMA BootKeeps ==
  ASSUME ContainerInv, Boot
  PROVE  ContainerInv'
<1>0. fs' \in [row : Rows, inputs : BOOLEAN, req : BOOLEAN, ack : {"none", "ok", "error"}, noted : BOOLEAN]
  BY DEF ContainerInv, TypeOK, Boot, Gone, In, HostSame
<1> USE DEF ContainerInv, Boot, Gone, In, HostSame, TypeOK, Running, Pcs, StagePcs, EgressPcs,
           InnerPcs, FinalPcs, Over, Staging, Unspawned, Left
<1>1. EnvOK'
  BY EnvStays
<1>2. TypeOK'
  BY <1>1, <1>0 DEF EnvOK, Rows, Exceptions, BoxPcs
<1>3. ExcTrue'
  BY DEF ExcTrue, Nothing
<1>4. Nothing'
  BY DEF ExcTrue, Nothing, GradingPhase
<1>5. RowKept'
  BY DEF ExcTrue, Nothing, RowKept
<1>6. TornTrue'
  BY DEF ExcTrue, Nothing, TornTrue, Undisturbed, Unguarded
<1>7. ModesTrue'
  BY DEF ModesTrue, Undisturbed
<1>8. AskTrue'
  BY DEF Nothing, AskTrue, GradingPhase
<1>9. LogTrue'
  BY DEF Nothing, AskTrue, LogTrue, GradingPhase
<1> QED BY <1>2, <1>3, <1>4, <1>5, <1>6, <1>7, <1>8, <1>9

\* The agent runs.
LEMMA AgentPhaseKeeps ==
  ASSUME ContainerInv, AgentPhase
  PROVE  ContainerInv'
<1> USE DEF ContainerInv, AgentPhase, Refused, In, HostSame, TypeOK, Running, Pcs, StagePcs,
           EgressPcs, InnerPcs, FinalPcs, Over, Staging, Unspawned, Left
<1>1. EnvOK'
  BY EnvStays
<1>2. TypeOK'
  BY <1>1 DEF EnvOK, Rows, Exceptions, BoxPcs
<1>3. ExcTrue'
  BY DEF ExcTrue, Nothing
<1>4. Nothing'
  BY DEF ExcTrue, Nothing, GradingPhase
<1>5. RowKept'
  BY DEF ExcTrue, Nothing, RowKept
<1>6. TornTrue'
  BY DEF ExcTrue, Nothing, TornTrue, Undisturbed, Unguarded
<1>7. ModesTrue'
  BY DEF ModesTrue, Undisturbed
<1>8. AskTrue'
  BY DEF Nothing, AskTrue, GradingPhase
<1>9. LogTrue'
  BY DEF Nothing, AskTrue, LogTrue, GradingPhase
<1> QED BY <1>2, <1>3, <1>4, <1>5, <1>6, <1>7, <1>8, <1>9

\* The container asks for the grading phase.
LEMMA AskKeeps ==
  ASSUME ContainerInv, Ask
  PROVE  ContainerInv'
<1>0. fs' \in [row : Rows, inputs : BOOLEAN, req : BOOLEAN, ack : {"none", "ok", "error"}, noted : BOOLEAN]
  BY DEF ContainerInv, TypeOK, Ask, In, HostSame
<1> USE DEF ContainerInv, TypeOK, Ask, In, HostSame, Running, Pcs, StagePcs, EgressPcs, InnerPcs,
           FinalPcs, Over, Staging, Unspawned, Left
<1>1. EnvOK'
  BY EnvStays
<1>2. TypeOK'
  BY <1>1, <1>0 DEF EnvOK, Rows, Exceptions, BoxPcs
<1>3. ExcTrue'
  BY DEF ExcTrue, Nothing
<1>4. Nothing'
  BY DEF ExcTrue, Nothing, GradingPhase
<1>5. RowKept'
  BY DEF ExcTrue, Nothing, RowKept
<1>6. TornTrue'
  BY DEF ExcTrue, Nothing, TornTrue, Undisturbed, Unguarded
<1>7. ModesTrue'
  BY DEF ModesTrue, Undisturbed
<1>8. AskTrue'
  BY DEF Nothing, AskTrue, GradingPhase
<1>9. LogTrue'
  BY DEF Nothing, AskTrue, LogTrue, GradingPhase
<1> QED BY <1>2, <1>3, <1>4, <1>5, <1>6, <1>7, <1>8, <1>9

\* It goes on when it may.
LEMMA AnsweredKeeps ==
  ASSUME ContainerInv, Answered
  PROVE  ContainerInv'
<1> USE DEF ContainerInv, TypeOK, Running, Answered, In, HostSame, Pcs, StagePcs, EgressPcs,
           InnerPcs, FinalPcs, Over, Staging, Unspawned, Left, Nothing
<1>1. EnvOK'
  BY EnvStays
<1>2. TypeOK'
  BY <1>1 DEF EnvOK, Rows, Exceptions, BoxPcs
<1>3. ExcTrue'
  BY DEF ExcTrue
<1>4. Nothing'
  BY DEF ExcTrue, GradingPhase
<1>5. RowKept'
  BY DEF ExcTrue, RowKept
<1>6. TornTrue'
  BY DEF ExcTrue, TornTrue, Undisturbed, Unguarded
<1>7. ModesTrue'
  BY DEF ModesTrue, Undisturbed
<1>8. AskTrue'
  BY DEF AskTrue, GradingPhase
<1>9. LogTrue'
  BY DEF AskTrue, LogTrue, GradingPhase
<1> QED BY <1>2, <1>3, <1>4, <1>5, <1>6, <1>7, <1>8, <1>9

\* The criteria run.
LEMMA GradePhaseKeeps ==
  ASSUME ContainerInv, GradePhase
  PROVE  ContainerInv'
<1> USE DEF ContainerInv, GradePhase, Gone, Refused, In, HostSame, TypeOK, Running, Pcs, StagePcs,
           EgressPcs, InnerPcs, FinalPcs, Over, Staging, Unspawned, Left
<1>1. EnvOK'
  BY EnvStays
<1>2. TypeOK'
  BY <1>1 DEF EnvOK, Rows, Exceptions, BoxPcs
<1>3. ExcTrue'
  BY DEF ExcTrue, Nothing
<1>4. Nothing'
  BY DEF ExcTrue, Nothing, GradingPhase
<1>5. RowKept'
  BY DEF ExcTrue, Nothing, RowKept
<1>6. TornTrue'
  BY DEF ExcTrue, Nothing, TornTrue, Undisturbed, Unguarded
<1>7. ModesTrue'
  BY DEF ModesTrue, Undisturbed
<1>8. AskTrue'
  BY DEF Nothing, AskTrue, GradingPhase
<1>9. LogTrue'
  BY DEF Nothing, AskTrue, LogTrue, GradingPhase
<1> QED BY <1>2, <1>3, <1>4, <1>5, <1>6, <1>7, <1>8, <1>9

\* The row is written.
LEMMA WriteRowKeeps ==
  ASSUME ContainerInv, WriteRow
  PROVE  ContainerInv'
<1> USE DEF ContainerInv, WriteRow, Gone, In, HostSame, TypeOK, Running, Pcs, StagePcs, EgressPcs,
           InnerPcs, FinalPcs, Over, Staging, Unspawned, Left
<1>1. EnvOK'
  BY EnvStays
<1>2. TypeOK'
  BY <1>1 DEF EnvOK, Rows, Exceptions, BoxPcs
<1>3. ExcTrue'
  BY DEF ExcTrue, Nothing
<1>4. Nothing'
  BY DEF ExcTrue, Nothing, GradingPhase
<1>5. RowKept'
  BY DEF ExcTrue, Nothing, RowKept
<1>6. TornTrue'
  BY DEF ExcTrue, Nothing, TornTrue, Undisturbed, Unguarded
<1>7. ModesTrue'
  BY DEF ModesTrue, Undisturbed
<1>8. AskTrue'
  BY DEF Nothing, AskTrue, GradingPhase
<1>9. LogTrue'
  BY DEF Nothing, AskTrue, LogTrue, GradingPhase
<1> QED BY <1>2, <1>3, <1>4, <1>5, <1>6, <1>7, <1>8, <1>9

\* The container dies, or ends itself.
LEMMA DeathKeeps ==
  ASSUME ContainerInv, Crash \/ Reap
  PROVE  ContainerInv'
<1> USE DEF ContainerInv, Crash, Reap, Gone, HostSame, TypeOK, Running, Pcs, StagePcs, EgressPcs,
           InnerPcs, FinalPcs, Over, Staging, Unspawned, Left
<1>1. EnvOK'
  BY EnvStays
<1>2. TypeOK'
  BY <1>1 DEF EnvOK, Rows, Exceptions, BoxPcs
<1>3. ExcTrue'
  BY DEF ExcTrue, Nothing
<1>4. Nothing'
  BY DEF ExcTrue, Nothing, GradingPhase
<1>5. RowKept'
  BY DEF ExcTrue, Nothing, RowKept
<1>6. TornTrue'
  BY DEF ExcTrue, Nothing, TornTrue, Undisturbed, Unguarded
<1>7. ModesTrue'
  BY DEF ModesTrue, Undisturbed
<1>8. AskTrue'
  BY DEF Nothing, AskTrue, GradingPhase
<1>9. LogTrue'
  BY DEF Nothing, AskTrue, LogTrue, GradingPhase
<1> QED BY <1>2, <1>3, <1>4, <1>5, <1>6, <1>7, <1>8, <1>9

-----------------------------------------------------------------------------
(* The theorems.                                                           *)

\* The initial states.
LEMMA InitHolds == Init => ContainerInv
<1> SUFFICES ASSUME Init PROVE ContainerInv
  OBVIOUS
<1> USE DEF Init, Staging, StagePcs, Unspawned, EgressPcs, InnerPcs, FinalPcs, Over, Pcs, Left
<1>1. TypeOK
  <2>1. Cardinality({}) = 0 /\ 0 <= MaxCuts /\ 0 \in 0..MaxFaults
    BY ContainerAssumption, FS_EmptySet
  <2>2. env \in [cuts : SUBSET Pcs, faults : 0..MaxFaults] /\ Cardinality(env.cuts) <= MaxCuts
    BY <2>1
  <2>3. hb \in BOOLEAN
    OBVIOUS
  <2>4. ws \in [wide : BOOLEAN, recorded : BOOLEAN]
    OBVIOUS
  <2>5. d \in [ctr : {"none", "running", "gone"}, net : BOOLEAN, side : {"none", "created", "running"},
              grading : BOOLEAN, log : SUBSET {"agent", "grade", "grading"}]
    OBVIOUS
  <2>6. fs \in [row : Rows, inputs : BOOLEAN, req : BOOLEAN, ack : {"none", "ok", "error"}, noted : BOOLEAN]
    BY DEF Rows
  <2>7. box \in BoxPcs /\ (box # "off") = Running
    BY DEF BoxPcs, Running
  <2> QED BY <2>2, <2>3, <2>4, <2>5, <2>6, <2>7 DEF TypeOK, Exceptions
<1>2. ExcTrue /\ Nothing /\ RowKept
  BY DEF ExcTrue, Nothing, RowKept, Running
<1>3. TornTrue /\ ModesTrue /\ AskTrue /\ LogTrue
  BY DEF TornTrue, ModesTrue, AskTrue, LogTrue, Running
<1> QED BY <1>1, <1>2, <1>3 DEF ContainerInv

\* A step of the host coroutine.
LEMMA HostStepKeeps == ASSUME ContainerInv, HostStep PROVE ContainerInv'
<1>1. CASE \/ Preflight \/ BuildImage \/ ImageContract \/ ResolvePlan
           \/ HostMounts \/ ReferenceMount \/ TaskDirMount \/ EgressDir
  BY <1>1, PrepareKeeps
<1>2. CASE RecordBuildFailure \/ StageInputs \/ Grant \/ StartHeartbeat \/ StopHeartbeat
  BY <1>2, RecordBuildFailureKeeps, StageInputsKeeps, GrantKeeps, HeartbeatKeeps
<1>3. CASE EgressUp \/ ClearHandshake \/ Spawn \/ OpenLog \/ Stream \/ CloseLog \/ Kill
  BY <1>3, EgressUpKeeps, ClearHandshakeKeeps, SpawnKeeps, OpenLogKeeps, StreamKeeps, KillKeeps
<1>4. CASE StopWatch \/ Parse \/ Denials \/ Teardown \/ SynthRow \/ RemoveStaging \/ Restore
  BY <1>4, StopWatchKeeps, ParseKeeps, DenialsKeeps, TeardownKeeps, SynthRowKeeps, RemoveStagingKeeps, RestoreKeeps
<1> QED BY <1>1, <1>2, <1>3, <1>4 DEF HostStep

\* Every step, and a stutter.
LEMMA StepHolds == ASSUME ContainerInv, [Next]_vars PROVE ContainerInv'
<1>1. CASE HostStep \/ HostDies
  BY <1>1, HostStepKeeps, HostDiesKeeps
<1>2. CASE WatchStep \/ SidecarStops
  BY <1>2, SeeRequestKeeps, SwitchKeeps, AnswerKeeps, SidecarStopsKeeps DEF WatchStep
<1>3. CASE BoxStep \/ Reap
  BY <1>3, BootKeeps, AgentPhaseKeeps, AskKeeps, AnsweredKeeps, GradePhaseKeeps, WriteRowKeeps, DeathKeeps
     DEF BoxStep
<1>4. CASE UNCHANGED vars
  BY <1>4 DEF vars, ContainerInv, TypeOK, ExcTrue, Nothing, RowKept, TornTrue, ModesTrue, AskTrue, LogTrue,
     Running, GradingPhase, Undisturbed
<1> QED BY <1>1, <1>2, <1>3, <1>4 DEF Next

\* The invariant of a dispatch.
LEMMA Inductive == Spec => []ContainerInv
<1>1. ContainerInv /\ [Next]_vars => ContainerInv'
  BY StepHolds
<1> QED BY InitHolds, <1>1, PTL DEF Spec

\* A dispatch that ends leaves no sidecar, no container and no network unless a
\* cancellation or a failure hit the awaits around the guarded block, and the
\* modes the graded workspace had.
THEOREM DispatchCleansUp == Spec => []CleanedUp
<1>1. ContainerInv => CleanedUp
  <2> SUFFICES ASSUME ContainerInv, h.pc = "ended" PROVE CleanedUp
    BY DEF ContainerInv, CleanedUp
  <2>1. Undisturbed(Unguarded) => ~ Running /\ ~ d.net
    BY DEF ContainerInv, TornTrue, Left
  <2>2. d.side = "none" /\ (Undisturbed({"grant", "rmtree", "restore"}) => ~ ws.wide)
    BY DEF ContainerInv, TypeOK, TornTrue, ModesTrue, Left
  <2> QED BY <2>1, <2>2 DEF ContainerInv, CleanedUp
<1> QED BY Inductive, <1>1, PTL

\* A result that is handed on is the container's own, and its grading ran behind
\* the proxy's grading phase and not before.
THEOREM DispatchEarnsResult == Spec => []ResultsEarned
<1>1. ContainerInv => RefusedNotPublished
  BY DEF ContainerInv, RowKept, RefusedNotPublished, Left
<1>2. ContainerInv => GradingSwitch
  BY DEF ContainerInv, AskTrue, LogTrue, GradingSwitch
<1> QED BY Inductive, <1>1, <1>2, PTL DEF ResultsEarned
=============================================================================
