----------------------------- MODULE SandboxTree -----------------------------
(***************************************************************************)
(* The directory a task runs in.  setup() builds it in order: template     *)
(* sources, recording shims, execute bits, a virtual environment and its   *)
(* packages, node packages; adopt() takes over a directory that exists and *)
(* only provisions what is missing.  Any step may fail, the directory may  *)
(* belong to the caller, and the same one may be used again.               *)
(***************************************************************************)
EXTENDS Integers, Sequences, FiniteSets

CONSTANTS
  Configs,  \* [sources, mocks, record, venv, packages, node, preserve]
  From      \* what the i-th template source writes

VARIABLES
  case,   \* [of, config]
  at,     \* the step that is next
  out     \* [mode, tree, executable, source, owned, exists, published, again]
vars == <<case, at, out>>

\* Files of the directory, by who looks after them.
Recorder == {"recorder/uip", "recorder/log", "recorder/old"}
Mocks    == {"mocks/uip"}
Private  == {"credentials"}                  \* _WORKSPACE_CAPTURE_IGNORE
Noise    == {"venv", "node"}
Paths    == {"app", "data"} \cup Recorder \cup Mocks \cup Private \cup Noise
Absent   == "absent"
Empty    == [p \in Paths |-> Absent]
Present(t) == {p \in Paths : t[p] # Absent}
C == case.config
Modes == {"temp", "target", "adopt"}

\* What an earlier run may have left in a directory that is used again.
Found == {Empty, [Empty EXCEPT !["recorder/old"] = "stale", !["recorder/log"] = "stale", !["app"] = "stale"]}

Init ==
  /\ case \in [of : {"sandbox"}, config : Configs]
  /\ at = "enter"
  /\ \E mode \in Modes, t \in Found :
       /\ mode = "temp" => t = Empty
       /\ out = [mode |-> mode, tree |-> t, executable |-> {}, source |-> 1, owned |-> FALSE, exists |-> FALSE,
                 published |-> Empty, again |-> 0]

Goes(next, o) == at' = next /\ out' = o /\ UNCHANGED case
Set(o, S, v) == [o EXCEPT !.tree = [p \in Paths |-> IF p \in S THEN v ELSE o.tree[p]]]

\* A fresh temporary directory, the caller's target, or one to adopt; only the
\* first is ours to remove.
Enter ==
  /\ at = "enter"
  /\ Goes(IF out.mode = "adopt" THEN "executable" ELSE "template", [out EXCEPT !.owned = (out.mode = "temp"), !.exists = TRUE])

\* Mutant: the target of the caller is cleared as well.
ClearedAlways(o) == [Set(o, Paths, Absent) EXCEPT !.exists = FALSE]

\* A failed setup removes the directory it made, and no other.
Cleared(o) == IF o.owned THEN [Set(o, Paths, Absent) EXCEPT !.exists = FALSE] ELSE o

\* Mutant: what a failed provisioning built stays.
PartLeft(o, p) == o

\* A failed provisioning of an adopted directory takes its part back out.
PartRemoved(o, p) == Set(o, {p}, Absent)

Fail(o, part) ==
  Goes("failed", IF o.mode = "adopt" THEN PartRemoved(o, part) ELSE Cleared(o))

\* One template source, later ones over earlier ones; it may be missing or
\* name a path outside the directory.
ApplySource ==
  /\ at = "template" /\ out.source <= Len(C.sources)
  /\ \/ Goes("template", [Set(out, C.sources[out.source], From[out.source]) EXCEPT !.source = @ + 1])
     \/ Fail(out, "app")
TemplateDone == at = "template" /\ out.source > Len(C.sources) /\ Goes("recorders", out)

\* Mutant: the shims are written over what the directory holds.
Unwiped(o) == Set(o, {"recorder/uip"}, "shim")

\* The recorder directory is wiped, its log seeded, its shims written.
Recorded(o) == Set(Set(Set(o, Recorder, Absent), {"recorder/uip"}, "shim"), {"recorder/log"}, "seeded")

\* Mutant: a mock of the task's own is shadowed.
NoClash == FALSE

\* A mock of the same name in the task's own mock directory.
Clash == C.mocks /\ out.tree["mocks/uip"] # Absent

GenerateRecorders ==
  /\ at = "recorders"
  /\ IF ~ C.record THEN Goes("executable", out)
     ELSE IF Clash THEN Fail(out, "app")
     ELSE Goes("executable", Recorded(out))

\* The plain files of the directories that go on the PATH.
OnPath(t) == (IF C.record THEN {"recorder/uip"} ELSE {}) \cup (IF C.mocks THEN Mocks ELSE {})
MarkExecutable ==
  /\ at = "executable"
  /\ Goes("venv", [out EXCEPT !.executable = OnPath(out.tree) \cap Present(out.tree)])

\* A virtual environment is whole once its packages are in it; adopt() takes
\* the one it finds, and makes one only for packages.
SetupVenv ==
  /\ at = "venv"
  /\ IF ~ C.venv \/ (out.mode = "adopt" /\ (out.tree["venv"] # Absent \/ ~ C.packages)) THEN Goes("node", out)
     ELSE \/ Goes(IF C.packages THEN "packages" ELSE "node", Set(out, {"venv"}, IF C.packages THEN "half" ELSE "whole"))
          \/ Fail(Set(out, {"venv"}, "half"), "venv")
InstallPackages ==
  /\ at = "packages"
  /\ Goes("node", Set(out, {"venv"}, "whole")) \/ Fail(out, "venv")
InstallNode ==
  /\ at = "node"
  /\ IF ~ C.node \/ (out.mode = "adopt" /\ out.tree["node"] # Absent) THEN Goes("ready", out)
     ELSE Goes("ready", Set(out, {"node"}, "whole")) \/ Fail(Set(out, {"node"}, "half"), "node")

\* The agent and the commands write into the directory.
Work ==
  /\ at = "ready"
  /\ Goes("worked", IF out.mode = "adopt" THEN out
                    ELSE LET o == Set(Set(out, {"app"}, "agent"), Private, "agent") IN
                         IF C.record THEN Set(o, {"recorder/log"}, "calls") ELSE o)

\* Mutant: everything is captured.
CapturedAll(t) == t

\* capture_as leaves out credentials and what the set-up made.
Captured(t) == [p \in Paths |-> IF p \in Private \cup Noise THEN Absent ELSE t[p]]

\* How the run keeps the tree: a temporary directory is moved out, a workspace
\* of the container is captured, a target of the caller already is the record.
Keeps == IF out.mode = "temp" THEN (IF C.preserve = "move" THEN "moved" ELSE "dropped")
         ELSE IF C.preserve = "capture" THEN "captured" ELSE "inPlace"

\* preserve_as moves the directory, which is then not ours to remove any more;
\* a failure of it is logged and the clean-up still follows.
Preserve ==
  /\ at = "worked" /\ out.mode # "adopt"
  /\ \/ Keeps = "moved"    /\ Goes("preserved", [out EXCEPT !.published = out.tree, !.owned = FALSE])
     \/ Keeps = "captured" /\ Goes("preserved", [out EXCEPT !.published = Captured(out.tree)])
     \/ Keeps = "inPlace"  /\ Goes("preserved", [out EXCEPT !.published = out.tree])
     \/ Keeps = "dropped"  /\ Goes("preserved", out)
     \/ Keeps \in {"moved", "captured"} /\ Goes("preserved", out)
AdoptedStays == at = "worked" /\ out.mode = "adopt" /\ Goes("preserved", out)

Cleanup == at = "preserved" /\ Goes("ended", Cleared(out))

\* The directory of the caller is used again: the next run of the same target,
\* or a grading of what a run left whole.
UseAgain ==
  /\ out.again < 1 /\ out.mode # "temp"
  /\ \E mode \in {"target", "adopt"} :
       /\ at = "ended" \/ (at = "failed" /\ mode = out.mode)
       /\ Goes("enter", [out EXCEPT !.mode = mode, !.source = 1, !.again = @ + 1, !.executable = {}, !.published = Empty])

Next == case.of = "sandbox" /\ (Enter \/ ApplySource \/ TemplateDone \/ GenerateRecorders \/ MarkExecutable \/ SetupVenv
                                \/ InstallPackages \/ InstallNode \/ Work \/ Preserve \/ AdoptedStays \/ Cleanup \/ UseAgain)

Spec == Init /\ [][Next]_vars

-----------------------------------------------------------------------------
Here == case.of = "sandbox"
Sourced(p) == {i \in DOMAIN C.sources : p \in C.sources[i]}
Shim == "recorder/uip"

\* A directory is handed over only as its configuration says: the last source
\* of a file wins, the record of a run's calls starts empty although an earlier
\* run wrote one there, no shim stands before a mock of the task, what is on
\* the PATH can be executed, and an environment is whole, also one that was
\* found there and also after a failed attempt to provide it.
HandedOverWhole ==
  Here /\ at = "ready" =>
    /\ out.mode # "adopt" =>
         /\ \A p \in Paths \ Recorder : Sourced(p) # {} =>
              \E i \in Sourced(p) : out.tree[p] = From[i] /\ \A j \in Sourced(p) : j <= i
         /\ C.record => /\ {p \in Recorder : out.tree[p] = "stale" \/ out.tree[p] = "calls"} = {}
                        /\ ~ (C.mocks /\ out.tree["mocks/uip"] # Absent)
         /\ C.record => out.tree[Shim] = "shim"
    /\ OnPath(out.tree) \cap Present(out.tree) \subseteq out.executable
    /\ C.venv /\ (C.packages \/ out.mode # "adopt") => out.tree["venv"] = "whole"
    /\ C.node => out.tree["node"] = "whole"

\* A directory of the caller is never removed, one of ours always is unless it
\* was published; and what is published holds the agent's work and, when it is
\* captured from a container's own directory, no credentials.
EndsAsOwned ==
  Here =>
    /\ at # "enter" /\ out.mode # "temp" => out.exists
    /\ at = "failed" /\ out.mode = "temp" => ~ out.exists
    /\ at = "ended" /\ out.mode = "temp" => (out.exists <=> out.published # Empty)
    /\ at \in {"preserved", "ended"} /\ out.published # Empty =>
         /\ out.published["app"] = "agent"
         /\ Keeps = "captured" => \A p \in Private : out.published[p] = Absent

\* The directory of a task from its set-up to its end.
TreeAsPromised == HandedOverWhole /\ EndsAsOwned
=============================================================================
