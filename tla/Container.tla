------------------------------ MODULE Container -----------------------------
(***************************************************************************)
(* One dispatch of a task into a Docker container: DockerRunner.run on the *)
(* host, the egress sidecar and its network (egress_scope, egress_proxy),  *)
(* and the entry point inside the container (run_task_internal_command).   *)
(* The host coroutine may be cancelled at every await and the host process *)
(* may be killed; the container may crash, outlive the host, or speak an   *)
(* older contract.  Times are not modelled: a stale heartbeat is a         *)
(* heartbeat nobody writes any more.                                       *)
(***************************************************************************)
EXTENDS Naturals, FiniteSets

CONSTANTS
  MaxCuts,    \* await points that a cancellation hits, at most
  MaxFaults   \* docker steps and file operations that fail, at most

Kinds == {"execute", "graded", "regrade"}

\* Dispatches: every kind, with and without an egress sidecar, a grading that
\* widens the egress or not, and an image of this version or of another.
Configs ==
  {c \in [llm : BOOLEAN, kind : Kinds, widens : BOOLEAN, skewed : BOOLEAN] :
     c.widens => c.llm /\ c.kind = "graded"}

ASSUME ContainerAssumption == MaxCuts \in Nat /\ MaxFaults \in Nat

VARIABLES
  cfg,    \* the dispatch
  h,      \* the coroutine: where it is, the exception in flight
  env,    \* the awaits that were cancelled, the faults so far
  hb,     \* TRUE while the heartbeat task writes
  watch,  \* _serve_grading_request
  d,      \* the daemon's objects: container, network, sidecar; the proxy's phase and log
  box,    \* where the process in the container is
  ws,     \* the modes of the graded workspace, and whether the widening is recorded
  fs      \* the run directory: task.json, the handshake files; the staged inputs

vars == <<cfg, h, env, hb, watch, d, box, ws, fs>>

\* The awaits of run(), of egress_scope, and the ends.
EgressPcs == {"network", "sidecar", "start", "probe", "clear"}
InnerPcs  == {"spawn", "openlog", "stream", "closelog", "kill", "stopwatch", "parse", "denials"}
FinalPcs  == {"teardown", "synth", "heartoff", "rmtree", "restore"}
Over      == {"ended", "dead"}
StagePcs  == {"plan", "stage", "home", "reference", "taskdir", "egressdir", "grant", "heart"}
Pcs == {"prep", "build", "record", "contract"} \cup StagePcs \cup EgressPcs \cup InnerPcs \cup FinalPcs \cup Over

Exceptions == {"none", "cancel", "docker", "egress", "os"}
Rows       == {"none", "real", "malformed", "unhonored", "synthetic"}
BoxPcs     == {"off", "boot", "agent", "ask", "wait", "grade", "write"}
Running    == d.ctr = "running"

\* The container announces its grading: EgressPlan.grading_phase.
GradingPhase == cfg.llm /\ cfg.kind = "graded"

TypeOK ==
  /\ cfg \in Configs
  /\ h \in [pc : Pcs, exc : Exceptions]
  /\ env \in [cuts : SUBSET Pcs, faults : 0..MaxFaults] /\ Cardinality(env.cuts) <= MaxCuts
  /\ hb \in BOOLEAN
  /\ watch \in {"none", "poll", "switch", "ok", "error", "done"}
  /\ d \in [ctr : {"none", "running", "gone"}, net : BOOLEAN, side : {"none", "created", "running"},
            grading : BOOLEAN, log : SUBSET {"agent", "grade", "grading"}]
  /\ box \in BoxPcs /\ (box # "off") = Running
  /\ ws \in [wide : BOOLEAN, recorded : BOOLEAN]
  /\ fs \in [row : Rows, inputs : BOOLEAN, req : BOOLEAN, ack : {"none", "ok", "error"}, noted : BOOLEAN]

\* A handshake of an earlier dispatch may still lie in the run directory.
Init ==
  /\ cfg \in Configs
  /\ h = [pc |-> "prep", exc |-> "none"]
  /\ env = [cuts |-> {}, faults |-> 0]
  /\ hb = FALSE /\ watch = "none" /\ box = "off"
  /\ d = [ctr |-> "none", net |-> FALSE, side |-> "none", grading |-> FALSE, log |-> {}]
  /\ ws = [wide |-> FALSE, recorded |-> FALSE]
  /\ \E stale \in BOOLEAN :
       fs = [row |-> "none", inputs |-> FALSE, req |-> stale,
             ack |-> IF stale THEN "ok" ELSE "none", noted |-> FALSE]

-----------------------------------------------------------------------------
(* The host coroutine.                                                     *)

At(p)    == h.pc = p
Goto(p)  == h' = [h EXCEPT !.pc = p]
Raise(p, e) == h' = [pc |-> p, exc |-> e]
Ok       == UNCHANGED env
Fault    == env.faults < MaxFaults /\ env' = [env EXCEPT !.faults = @ + 1]

\* A cancellation delivered at await point p: it replaces the exception.
Cut(p, to) ==
  /\ h.pc = p /\ Cardinality(env.cuts \cup {p}) <= MaxCuts
  /\ env' = [env EXCEPT !.cuts = @ \cup {p}]
  /\ Raise(to, "cancel")

\* _write_synthetic_task_json: only where no row is.
Synthetic(row) == IF row = "none" THEN "synthetic" ELSE row

\* _preflight: no docker, no dispatch; it awaits nothing.
Preflight ==
  /\ At("prep")
  /\ \/ Goto("build") /\ Ok
     \/ Raise("ended", "docker") /\ Fault
  /\ UNCHANGED <<cfg, hb, watch, d, box, ws, fs>>

\* _build_image, in a worker thread.
BuildImage ==
  /\ At("build")
  /\ \/ Goto("contract") /\ Ok
     \/ Raise("record", "docker") /\ Fault
     \/ Cut("build", "ended")
  /\ UNCHANGED <<cfg, hb, watch, d, box, ws, fs>>

\* _record_build_failure, best effort: a synthetic row where none is.
RecordBuildFailure ==
  /\ At("record")
  /\ \/ Goto("ended") /\ Ok /\ fs' = [fs EXCEPT !.row = Synthetic(@)]
     \/ Goto("ended") /\ Fault /\ UNCHANGED fs
     \/ Cut("record", "ended") /\ fs' \in {fs, [fs EXCEPT !.row = Synthetic(@)]}
  /\ UNCHANGED <<cfg, hb, watch, d, box, ws>>

\* _preflight_image_contract: a label of another version, or none, is refused
\* before anything is staged.
ImageContract ==
  /\ At("contract")
  /\ \/ Goto("plan") /\ Ok
     \/ Raise("ended", "docker") /\ Fault
     \/ Cut("contract", "ended")
  /\ UNCHANGED <<cfg, hb, watch, d, box, ws, fs>>

\* _resolve_egress_plan: no await; a target that cannot be allowlisted.
ResolvePlan ==
  /\ At("plan")
  /\ \/ Goto("stage") /\ Ok
     \/ cfg.llm /\ Raise("synth", "egress") /\ Fault
  /\ UNCHANGED <<cfg, hb, watch, d, box, ws, fs>>

\* _stage_inputs: the task and its context, for the entry point to read.
StageInputs ==
  /\ At("stage")
  /\ \/ Goto("home") /\ Ok /\ fs' = [fs EXCEPT !.inputs = TRUE]
     \/ Raise("heartoff", "os") /\ Fault /\ UNCHANGED fs
     \/ Cut("stage", "heartoff") /\ UNCHANGED fs
  /\ UNCHANGED <<cfg, hb, watch, d, box, ws>>

\* One of the copies that are mounted, in a worker thread.
CopyStep(p, to) ==
  /\ At(p)
  /\ \/ Goto(to) /\ Ok
     \/ Raise("heartoff", "os") /\ Fault
     \/ Cut(p, "heartoff")
  /\ UNCHANGED <<cfg, hb, watch, d, box, ws, fs>>

HostMounts     == CopyStep("home", "reference")
ReferenceMount == CopyStep("reference", "taskdir")
TaskDirMount   == CopyStep("taskdir", "egressdir")

\* _prepare_egress_dir fails as an egress set-up; then the directories the
\* harness owns are widened.
EgressDir ==
  \/ CopyStep("egressdir", "grant")
  \/ /\ At("egressdir") /\ cfg.llm /\ Raise("synth", "egress") /\ Fault
     /\ UNCHANGED <<cfg, hb, watch, d, box, ws, fs>>

\* Mutant: what was widened is not recorded.
GrantUnrecorded ==
  /\ At("grant") /\ Goto("heart") /\ Ok
  /\ ws' = [ws EXCEPT !.wide = cfg.kind = "regrade"]
  /\ UNCHANGED <<cfg, hb, watch, d, box, fs>>

\* grant_container_access on the graded workspace, in a worker thread: what
\* it widened is known only when it returns.
Grant ==
  /\ At("grant")
  /\ \/ Goto("heart") /\ Ok
        /\ ws' = IF cfg.kind = "regrade" THEN [wide |-> TRUE, recorded |-> TRUE] ELSE ws
     \/ /\ cfg.kind = "regrade"
        /\ \/ Raise("heartoff", "os") /\ Fault
           \/ Cut("grant", "heartoff")
        /\ \E started \in BOOLEAN : ws' = [ws EXCEPT !.wide = started]
  /\ UNCHANGED <<cfg, hb, watch, d, box, fs>>

StartHeartbeat ==
  /\ At("heart")
  /\ \/ hb' = TRUE /\ Ok /\ Goto(IF cfg.llm THEN "network" ELSE "spawn")
     \/ Cut("heart", "heartoff") /\ UNCHANGED hb
  /\ UNCHANGED <<cfg, watch, d, box, ws, fs>>

\* One docker command of egress_scope: a failure may come after the effect
\* (a timeout), and a cancellation waits for the command.
EgressStep(p, to, effect) ==
  /\ At(p)
  /\ \/ Goto(to) /\ Ok /\ d' = effect
     \/ (Raise("teardown", "egress") /\ Fault) /\ d' \in {d, effect}
     \/ Cut(p, "teardown") /\ d' \in {d, effect}
  /\ UNCHANGED <<cfg, hb, watch, box, ws, fs>>

EgressUp ==
  \/ EgressStep("network", "sidecar", [d EXCEPT !.net = TRUE])
  \/ EgressStep("sidecar", "start", [d EXCEPT !.side = "created"])
  \/ EgressStep("start", "probe", [d EXCEPT !.side = "running"])
  \/ EgressStep("probe", "clear", d)

\* _remove_grading_handshake.
NoHandshake == [fs EXCEPT !.req = FALSE, !.ack = "none"]

\* Mutant: a request that is left over is not removed.
ClearNothing ==
  /\ At("clear") /\ Goto("spawn") /\ Ok
  /\ UNCHANGED <<cfg, hb, watch, d, box, ws, fs>>

ClearHandshake ==
  /\ At("clear")
  /\ \/ Goto("spawn") /\ Ok /\ fs' = NoHandshake
     \/ Raise("teardown", "egress") /\ Fault /\ UNCHANGED fs
     \/ Cut("clear", "teardown") /\ fs' \in {fs, NoHandshake}
  /\ UNCHANGED <<cfg, hb, watch, d, box, ws>>

\* The container starts at its entry point.
Started == d' = [d EXCEPT !.ctr = "running"] /\ box' = "boot"

\* create_subprocess_exec of `docker run --rm'.
Spawn ==
  /\ At("spawn")
  /\ \/ Goto("openlog") /\ Ok /\ Started
     \/ Raise("teardown", "os") /\ Fault /\ UNCHANGED <<d, box>>
     \/ Cut("spawn", "teardown") /\ (Started \/ UNCHANGED <<d, box>>)
  /\ UNCHANGED <<cfg, hb, watch, ws, fs>>

\* log_path.open, outside the guarded block; then the watcher is created.
OpenLog ==
  /\ At("openlog")
  /\ \/ Goto("stream") /\ Ok /\ watch' = IF GradingPhase THEN "poll" ELSE "none"
     \/ Raise("teardown", "os") /\ Fault /\ UNCHANGED watch
     \/ Cut("openlog", "teardown") /\ UNCHANGED watch
  /\ UNCHANGED <<cfg, hb, d, box, ws, fs>>

\* _stream_container_output: it ends with the container.
Stream ==
  /\ At("stream")
  /\ \/ ~ Running /\ Goto("closelog") /\ Ok
     \/ Raise("closelog", "os") /\ Fault
     \/ Cut("stream", "closelog")
  /\ UNCHANGED <<cfg, hb, watch, d, box, ws, fs>>

\* The inner `finally': log_fh.close, then _kill_container if the CLI lives.
CloseLog ==
  /\ At("closelog")
  /\ \/ Goto(IF Running THEN "kill" ELSE "stopwatch") /\ Ok
     \/ Cut("closelog", "teardown")
  /\ UNCHANGED <<cfg, hb, watch, d, box, ws, fs>>

\* The container ends, and the process in it.
Gone == d' = [d EXCEPT !.ctr = "gone"] /\ box' = "off"

\* Mutant: only the docker CLI is killed, not the container.
KillClientOnly ==
  /\ At("kill") /\ Goto("stopwatch") /\ Ok
  /\ UNCHANGED <<cfg, hb, watch, d, box, ws, fs>>

\* _kill_container: docker kill may hang or be refused, never raises; it may
\* find the container gone; a cancelled one leaves its thread running.
Kill ==
  /\ At("kill")
  /\ \/ Goto("stopwatch") /\ Ok /\ Gone
     \/ Goto("stopwatch") /\ Fault /\ UNCHANGED <<d, box>>
     \/ Cut("kill", "teardown") /\ (Gone \/ UNCHANGED <<d, box>>)
  /\ UNCHANGED <<cfg, hb, watch, ws, fs>>

\* Mutant: the watcher is awaited without being cancelled.
StopWatchPatiently ==
  /\ At("stopwatch") /\ watch \in {"none", "done"}
  /\ Goto(IF h.exc = "none" THEN "parse" ELSE "teardown") /\ Ok
  /\ watch' = "none" /\ fs' = NoHandshake
  /\ UNCHANGED <<cfg, hb, d, box, ws>>

\* _stop_grading_watch: a switch in flight is run to its end first.  A
\* cancellation during the await of the watcher is suppressed with its own.
StopWatch ==
  /\ At("stopwatch") /\ watch # "switch"
  /\ \/ /\ Goto(IF h.exc = "none" THEN "parse" ELSE "teardown") /\ Ok
        /\ fs' = IF GradingPhase THEN NoHandshake ELSE fs
     \/ Cut("stopwatch", "teardown") /\ UNCHANGED fs
  /\ watch' = "none"
  /\ UNCHANGED <<cfg, hb, d, box, ws>>

\* Mutant: a refused record stays where it is.
ParseInPlace ==
  /\ At("parse")
  /\ IF fs.row = "real" THEN Goto("denials") /\ UNCHANGED fs
     ELSE Raise("teardown", "docker") /\ fs' = [fs EXCEPT !.row = Synthetic(@)]
  /\ Ok /\ UNCHANGED <<cfg, hb, watch, d, box, ws>>

\* _parse_result_or_raise: no row, a malformed one and one whose echo differs
\* are replaced by a synthetic one; the refused record is moved aside first.
Parse ==
  /\ At("parse")
  /\ \/ fs.row = "real" /\ Goto("denials") /\ Ok /\ UNCHANGED fs
     \/ fs.row # "real" /\ Raise("teardown", "docker") /\ Ok /\ fs' = [fs EXCEPT !.row = Synthetic("none")]
     \/ Cut("parse", "teardown") /\ UNCHANGED fs
  /\ UNCHANGED <<cfg, hb, watch, d, box, ws>>

\* Mutant: the refusals are counted from the first line of the log.
AllDenials == d.log

\* grading_denials: the refusals behind the PHASE line, or all of them for a
\* container that only grades.
GradingDenials ==
  IF cfg.kind = "regrade" THEN d.log \ {"grading"} ELSE d.log \cap {"grading"}

\* _record_grading_denials rewrites the row with the refused hosts.
Denials ==
  /\ At("denials")
  /\ \/ /\ Goto("teardown") /\ Ok
        /\ fs' = [fs EXCEPT !.noted = cfg.llm /\ cfg.kind # "execute" /\ GradingDenials # {}]
     \/ Cut("denials", "teardown") /\ UNCHANGED fs
  /\ UNCHANGED <<cfg, hb, watch, d, box, ws>>

\* _teardown: the network cannot be removed while a container is attached.
Torn == [d EXCEPT !.side = "none", !.net = @ /\ Running]
AfterScope(e) == IF e = "egress" THEN "synth" ELSE "heartoff"

\* Mutant: a cancellation ends the teardown where it is.
TeardownCut ==
  /\ At("teardown")
  /\ \/ Goto(AfterScope(h.exc)) /\ Ok /\ d' = IF cfg.llm THEN Torn ELSE d
     \/ Cut("teardown", "heartoff") /\ UNCHANGED d
  /\ UNCHANGED <<cfg, hb, watch, box, ws, fs>>

\* egress_scope's `finally', run to completion before a cancel is raised.
Teardown ==
  /\ At("teardown")
  /\ d' = IF cfg.llm THEN Torn ELSE d
  /\ \/ Goto(AfterScope(h.exc)) /\ Ok
     \/ cfg.llm /\ Cut("teardown", "heartoff")
  /\ UNCHANGED <<cfg, hb, watch, box, ws, fs>>

\* `except EgressSetupError'.
SynthRow ==
  /\ At("synth")
  /\ \/ Goto("heartoff") /\ Ok /\ fs' = [fs EXCEPT !.row = Synthetic(@)]
     \/ Cut("synth", "heartoff") /\ fs' \in {fs, [fs EXCEPT !.row = Synthetic(@)]}
  /\ UNCHANGED <<cfg, hb, watch, d, box, ws>>

\* Mutant: the heartbeat outlives the dispatch.
HeartbeatStays ==
  /\ At("heartoff") /\ Goto("rmtree") /\ Ok
  /\ UNCHANGED <<cfg, hb, watch, d, box, ws, fs>>

\* The outer `finally'; a cancellation of the await is suppressed here.
StopHeartbeat ==
  /\ At("heartoff")
  /\ hb' = FALSE /\ Goto("rmtree") /\ Ok
  /\ UNCHANGED <<cfg, watch, d, box, ws, fs>>

RemoveStaging ==
  /\ At("rmtree")
  /\ \/ Goto("restore") /\ Ok
     \/ Cut("rmtree", "ended")
  /\ fs' = [fs EXCEPT !.inputs = FALSE]
  /\ UNCHANGED <<cfg, hb, watch, d, box, ws>>

\* restore_modes: what is recorded.
Restore ==
  /\ At("restore")
  /\ \/ Goto("ended") /\ Ok /\ ws' = [ws EXCEPT !.wide = @ /\ ~ ws.recorded]
     \/ Cut("restore", "ended") /\ ws' \in {ws, [ws EXCEPT !.wide = @ /\ ~ ws.recorded]}
  /\ UNCHANGED <<cfg, hb, watch, d, box, fs>>

\* SIGKILL of the host: nothing of the above runs.
HostDies ==
  /\ h.pc \notin Over \cup {"prep"} /\ MaxCuts > 0
  /\ Goto("dead") /\ hb' = FALSE /\ watch' = "none"
  /\ UNCHANGED <<cfg, env, d, box, ws, fs>>

-----------------------------------------------------------------------------
(* The watcher on the host, and the proxy's control port.                  *)

SeeRequest ==
  /\ watch = "poll" /\ fs.req
  /\ watch' = "switch"
  /\ UNCHANGED <<cfg, h, env, hb, d, box, ws, fs>>

\* Mutant: the answer precedes the switch.
SwitchLater ==
  /\ watch = "switch" /\ watch' = "ok"
  /\ UNCHANGED <<cfg, h, env, hb, d, box, ws, fs>>

\* enter_grading: the switch is one way; its confirmation may be lost.
Switch ==
  /\ watch = "switch"
  /\ \/ d.side = "running" /\ d' = [d EXCEPT !.grading = TRUE] /\ watch' = "ok" /\ Ok
     \/ Fault /\ watch' = "error" /\ \E g \in BOOLEAN : d' = [d EXCEPT !.grading = @ \/ g]
     \/ d.side # "running" /\ watch' = "error" /\ Ok /\ UNCHANGED d
  /\ UNCHANGED <<cfg, h, hb, box, ws, fs>>

Answer ==
  /\ watch \in {"ok", "error"}
  /\ fs' = [fs EXCEPT !.ack = watch] /\ watch' = "done"
  /\ UNCHANGED <<cfg, h, env, hb, d, box, ws>>

\* watch_heartbeat in the sidecar.
SidecarStops ==
  /\ d.side = "running" /\ ~ hb
  /\ d' = [d EXCEPT !.side = "created"]
  /\ UNCHANGED <<cfg, h, env, hb, watch, box, ws, fs>>

-----------------------------------------------------------------------------
(* The process in the container.                                           *)

In(p) == Running /\ box = p
HostSame == UNCHANGED <<cfg, h, env, hb, watch, ws>>

\* Policy.permits refuses a host: one DENY line, by what the container does.
Refused(act) ==
  /\ cfg.llm /\ d.side = "running"
  /\ d' = [d EXCEPT !.log = @ \cup {IF d.grading THEN "grading" ELSE act}]
  /\ UNCHANGED <<box, fs>>

\* Load, and scrub the inputs; without them the entry point exits with 2.
Boot ==
  /\ In("boot") /\ HostSame
  /\ IF fs.inputs
     THEN /\ box' = IF cfg.kind = "regrade" THEN "grade" ELSE "agent"
          /\ fs' = [fs EXCEPT !.inputs = FALSE] /\ UNCHANGED d
     ELSE Gone /\ UNCHANGED fs

\* The agent phase; a run that fails in it writes its row without grading.
AgentPhase ==
  /\ In("agent") /\ HostSame
  /\ \/ Refused("agent")
     \/ box' = "write" /\ UNCHANGED <<d, fs>>
     \/ /\ cfg.kind = "graded" /\ UNCHANGED <<d, fs>>
        /\ box' = IF cfg.llm THEN "ask" ELSE "grade"

\* request_grading_egress: unlink the answer, write the request, wait.
Ask ==
  /\ In("ask") /\ HostSame /\ UNCHANGED d
  /\ \/ fs.ack # "none" /\ fs' = [fs EXCEPT !.ack = "none"] /\ UNCHANGED box
     \/ fs.ack = "none" /\ fs' = [fs EXCEPT !.req = TRUE] /\ box' = "wait"

\* A refusal or no answer in time is fatal only to a switch that widens.
Answered ==
  /\ In("wait") /\ HostSame /\ UNCHANGED <<d, fs>>
  /\ box' \in (IF fs.ack = "ok" THEN {"grade"} ELSE {IF cfg.widens THEN "write" ELSE "grade"})

\* The criteria; a detached grade that is refused exits with 2, no row.
GradePhase ==
  /\ In("grade") /\ HostSame
  /\ \/ Refused("grade")
     \/ box' = "write" /\ UNCHANGED <<d, fs>>
     \/ cfg.kind = "regrade" /\ Gone /\ UNCHANGED fs

WriteRow ==
  /\ In("write") /\ HostSame
  /\ \E row \in (IF cfg.skewed THEN {"malformed", "unhonored"} ELSE {"real"}) : fs' = [fs EXCEPT !.row = row]
  /\ Gone

\* The container is killed from outside, or the process dies.
Crash == Running /\ Gone /\ HostSame /\ UNCHANGED fs

\* The watchdog of the entry point: a heartbeat nobody writes.
Reap == Running /\ ~ hb /\ Gone /\ HostSame /\ UNCHANGED fs

-----------------------------------------------------------------------------
\* What the event loop owes a coroutine that is ready.
HostStep ==
  \/ Preflight \/ BuildImage \/ RecordBuildFailure \/ ImageContract \/ ResolvePlan
  \/ StageInputs \/ HostMounts \/ ReferenceMount \/ TaskDirMount \/ EgressDir \/ Grant \/ StartHeartbeat \/ EgressUp \/ ClearHandshake
  \/ Spawn \/ OpenLog \/ Stream \/ CloseLog \/ Kill \/ StopWatch \/ Parse \/ Denials
  \/ Teardown \/ SynthRow \/ StopHeartbeat \/ RemoveStaging \/ Restore

WatchStep == SeeRequest \/ Switch \/ Answer
BoxStep == Boot \/ AgentPhase \/ Ask \/ Answered \/ GradePhase \/ WriteRow \/ Crash

Next == HostStep \/ HostDies \/ WatchStep \/ BoxStep \/ SidecarStops \/ Reap

Spec == Init /\ [][Next]_vars
        /\ WF_vars(HostStep) /\ WF_vars(Switch) /\ WF_vars(Reap) /\ WF_vars(SidecarStops)

-----------------------------------------------------------------------------
\* What run() returns is a row that the container wrote and whose contract
\* echo matched; a refused, torn or missing record never stays in its place,
\* because a resume or a rebuild would read it off the disk.
RefusedNotPublished ==
  h.pc = "ended" => /\ h.exc = "none" => fs.row = "real"
                    /\ h.exc = "docker" => fs.row \in {"none", "synthetic"}
                    /\ h.exc = "egress" => fs.row = "synthetic"

Undisturbed(awaits) == env.cuts \cap awaits = {} /\ env.faults = 0

\* The awaits around the guarded block, where a cancellation skips the kill.
Unguarded == {"spawn", "openlog", "closelog", "kill"}

\* What run() leaves behind when it ends, whatever failed or was cancelled:
\* no container, unless a cancellation hit the awaits around the guarded block
\* or the daemon did not answer; no sidecar ever, and no network unless that
\* container hangs on it; the graded workspace with the modes it had, unless
\* the widening or the restoring itself was cut.
CleanedUp ==
  TypeOK /\ (h.pc = "ended" =>
    /\ Undisturbed(Unguarded) => ~ Running /\ ~ d.net
    /\ d.side = "none"
    /\ Undisturbed({"grant", "rmtree", "restore"}) => ~ ws.wide)

\* The proxy never enters its grading phase before the container asked; a
\* grading that needs more hosts starts only behind the switch; and the row
\* names refused hosts only for what grading asked for, never for what the
\* agent tried.
GradingSwitch ==
  /\ d.grading => box \notin {"boot", "agent", "ask"}
  /\ box = "grade" /\ GradingPhase /\ cfg.widens => d.grading
  /\ fs.noted => d.log \cap {"grade", "grading"} # {}

\* However the host went away, neither a container nor a sidecar runs for
\* ever: both watch the heartbeat.
OrphansStop == h.pc \in Over ~> ~ Running /\ d.side # "running"

\* An exception reaches the caller: no clean-up waits for something that
\* does not come.
RunEnds == h.exc # "none" ~> h.pc \in Over

\* docs/DOCKER_ISOLATION.md:96: sidecar and network are removed on every path.
\* No run: the code does not keep it (README).
NetworkGone == h.pc = "ended" => ~ d.net

\* A result is published only if the container earned it, and its grading ran
\* behind the proxy's grading phase and not before.
ResultsEarned == RefusedNotPublished /\ GradingSwitch

\* Nothing of a dispatch goes on for ever, whether its host lives or dies.
NothingHangs == OrphansStop /\ RunEnds
=============================================================================
