----------------------------- MODULE ConfigLayers -----------------------------
(***************************************************************************)
(* The resolution of one task's configuration: the layers default,         *)
(* experiment defaults, task, variant are merged in this order, field by   *)
(* field, each by the strategy its field declares; a system prompt file is *)
(* inlined; and the -D overrides of the command line are merged on top, on *)
(* a seed that is the configuration resolved so far.  The lineage says,    *)
(* field by field, which layer a value came from.                          *)
(*                                                                         *)
(* A patch is the set of the leaves a layer sets, and a value is the layer *)
(* it was set by; the value of an append list is the sequence of its       *)
(* layers.                                                                 *)
(***************************************************************************)
EXTENDS Integers, Sequences, FiniteSets

CONSTANT Groups   \* sets of leaves that are resolved together, one per case

VARIABLES
  case,   \* the patch of every layer
  at,     \* where the resolution is
  out     \* next layer; main: [value, lineage]; twin: the same with the overrides in the variant
vars == <<case, at, out>>

Layers == <<"default", "experiment", "task", "variant", "cli">>
Task == 3  Variant == 4  Cli == 5

\* Agent fields, sandbox fields, commands, and the simulation block.
Pair     == {"prompt", "promptFile"}          \* _merge_exclusive_groups
Settings == {"settings", "settings.a", "settings.b"}   \* a path, or a dict
Appended == {"env", "templates", "pre", "post"}
Leaves   == Pair \cup Settings \cup Appended \cup
            {"model", "sdk.a", "sdk.b", "docker.image", "docker.network", "driver", "persona", "goal", "turns"}

\* Who may set what: pre_run and post_run are set by experiments and tasks, a
\* variant sets of the sandbox the driver and the templates, and the simulation
\* block is not reachable by -D.
Settable(l, leaf) ==
  CASE leaf \in {"pre", "post"}     -> l \in {2, Task}
    [] leaf \in {"env", "docker.image", "docker.network"} -> l # Variant
    [] leaf \in {"persona", "goal"} -> l # Cli
    [] OTHER                        -> TRUE

\* A field whose lineage is one entry for the whole block.
Entry(leaf) ==
  CASE leaf \in {"docker.image", "docker.network"} -> "docker"
    [] leaf \in {"persona", "goal"}                -> "simulation"
    [] OTHER                                       -> leaf

Empty == [x \in {} |-> {}]
With(f, S, v(_)) == [x \in DOMAIN f \cup S |-> IF x \in S THEN v(x) ELSE f[x]]
Without(f, S) == [x \in DOMAIN f \ S |-> f[x]]

Cases ==
  UNION { { p \in [DOMAIN Layers -> SUBSET g] :
              \A l \in DOMAIN Layers : (\A x \in p[l] : Settable(l, x))
                                       /\ ({"settings"} \subseteq p[l] => p[l] = {"settings"}) } : g \in Groups }

Start == [value |-> Empty, lineage |-> Empty]

Init ==
  /\ case \in { [of |-> "config", patch |-> p] : p \in Cases }
  /\ at = "merge"
  /\ out = [next |-> 1, main |-> Start, twin |-> Start]

-----------------------------------------------------------------------------
(* merge_layers, one layer.                                                *)

\* Mutant: the other member of an exclusive group stays.
SiblingsKept(p) == {}

\* What a layer that sets a member of an exclusive group clears.
Siblings(p) == IF p \cap Pair # {} THEN Pair \ p ELSE {}

\* A dict replaces a value that is none, and such a value a dict.
Reshaped(p) ==
  IF "settings" \in p THEN Settings \ p ELSE IF p \cap Settings # {} THEN {"settings"} ELSE {}

\* Mutant: overlays of a higher layer go first everywhere.
AppendedFirst(s, leaf, l) == <<l>> \o s

\* append, with the order its field declares; templates and -D come in the
\* order their layers are handed over.
AppendedTo(s, leaf, l) == IF leaf = "post" THEN <<l>> \o s ELSE Append(s, l)

MergeValue(v, p, l) ==
  LET base == Without(v, Siblings(p) \cup Reshaped(p))
      old(x) == IF x \in DOMAIN base THEN base[x] ELSE << >>
  IN  With(base, p, LAMBDA x : IF x \in Appended THEN AppendedTo(old(x), x, l) ELSE l)

\* Mutant: the cleared sibling stays in the record.
RecordLineageOnly(g, p, l) == With(g, {Entry(x) : x \in p}, LAMBDA x : l)

\* _record_lineage, after the cleared siblings are dropped.
RecordLineage(g, p, l) == With(Without(g, Siblings(p)), {Entry(x) : x \in p}, LAMBDA x : l)

Merge(o, p, l) == [value |-> MergeValue(o.value, p, l), lineage |-> RecordLineage(o.lineage, p \ {"pre", "post"}, l)]

-----------------------------------------------------------------------------
(* resolve_task_for_variant.                                               *)

\* The layer that is merged n-th, and what of its patch is merged then: the
\* templates come last, the task's first; those of the default experiment are
\* taken out of its sandbox block and not put back (_build_sandbox_layers).
Order == <<1, 2, Task, Variant, Task, 2, Variant>>
Part(p, n) ==
  IF n <= 4 THEN p[Order[n]] \ {"templates"} ELSE p[Order[n]] \cap {"templates"}

\* The twin: the overrides are given to a variant that sets nothing itself.
Moved(p) == [p EXCEPT ![Variant] = p[Cli], ![Cli] = {}]
HasTwin  == case.patch[Variant] = {}

MergeLayer ==
  /\ at = "merge"
  /\ LET n == out.next IN
     /\ out' = [next |-> n + 1,
                main |-> Merge(out.main, Part(case.patch, n), Order[n]),
                twin |-> Merge(out.twin, Part(Moved(case.patch), n), Order[n])]
     /\ at' = IF n = Len(Order) THEN "built" ELSE "merge"
  /\ UNCHANGED case

\* What the constructors reject: two system prompts, half a simulation block.
Valid(v) ==
  /\ ~ Pair \subseteq DOMAIN v
  /\ {"persona", "goal"} \cap DOMAIN v # {} => {"persona", "goal"} \subseteq DOMAIN v

Refuse ==
  /\ at \in {"built", "overridden"} /\ ~ Valid(out.main.value)
  /\ at' = "refused"
  /\ UNCHANGED <<case, out>>

\* resolve_task_files: the file's text becomes the system prompt.
Inlined(v) ==
  IF "promptFile" \in DOMAIN v
  THEN With(Without(v, Pair), {"prompt"}, LAMBDA x : v["promptFile"]) ELSE v

InlineFiles ==
  /\ at = "built" /\ Valid(out.main.value)
  /\ out' = [out EXCEPT !.main.value = Inlined(@), !.twin.value = Inlined(@)]
  /\ at' = "resolved"
  /\ UNCHANGED case

\* Mutant: the seed writes its own lineage.
SeedRecorded(o) == [o EXCEPT !.lineage = With(o.lineage, {Entry(x) : x \in DOMAIN o.value}, LAMBDA x : Cli)]

\* The seed of the overrides is the resolved configuration: each of its lists
\* is taken as a whole, and its lineage is left as it is.
Seed(o) == o

\* apply_overrides
ApplyOverrides ==
  /\ at = "resolved"
  /\ out' = [out EXCEPT !.main = Merge(Seed(@), case.patch[Cli], Cli)]
  /\ at' = "overridden"
  /\ UNCHANGED case

Finish ==
  /\ at = "overridden" /\ Valid(out.main.value)
  /\ at' = "done"
  /\ UNCHANGED <<case, out>>

Next == case.of = "config" /\ (MergeLayer \/ Refuse \/ InlineFiles \/ ApplyOverrides \/ Finish)
Spec == Init /\ [][Next]_vars

-----------------------------------------------------------------------------
(* Properties.                                                             *)

Done   == case.of = "config" /\ at = "done"
Sets(leaf) == {l \in DOMAIN Layers : leaf \in case.patch[l]}
Last(S) == CHOOSE l \in S : \A k \in S : k <= l

\* The layers that decide on a leaf: of an exclusive group the highest that
\* sets one of its members; of a dict those above the last plain value.
Deciding(leaf) ==
  CASE leaf \in Pair -> LET any == Sets("prompt") \cup Sets("promptFile") IN Sets(leaf) \cap {Last(any)}
    [] leaf \in Settings \ {"settings"} -> {l \in Sets(leaf) : \A k \in Sets("settings") : k < l}
    [] leaf = "settings" -> {l \in Sets(leaf) : \A k \in Sets("settings.a") \cup Sets("settings.b") : k < l}
    [] OTHER -> Sets(leaf)

\* What a list has of one layer, and the layers in the order they come in.
Given(leaf, l) == IF leaf \in case.patch[l] THEN <<l>> ELSE << >>
Expected(leaf) ==
  CASE leaf \in {"env", "pre"} -> Given(leaf, 1) \o Given(leaf, 2) \o Given(leaf, Task) \o Given(leaf, Variant) \o Given(leaf, Cli)
    [] leaf = "post"           -> Given(leaf, Task) \o Given(leaf, 2)
    [] leaf = "templates"      -> Given(leaf, Task) \o Given(leaf, 2) \o Given(leaf, Variant) \o Given(leaf, Cli)
    [] OTHER                   -> Last(Deciding(leaf))

\* A system prompt may come from a file.
Source(leaf) ==
  IF leaf = "prompt" /\ "prompt" \notin DOMAIN out.main.lineage THEN "promptFile" ELSE Entry(leaf)

\* The resolved configuration is the one the precedence chain describes, and
\* its lineage names, for every value that stands, the layer that set it; of a
\* block with one entry, the highest layer that touched it (merge_layers: "a
\* record never advertises a sibling the resolved model no longer carries").
LayersRespected ==
  Done =>
    /\ \A leaf \in DOMAIN out.main.value \ Pair : out.main.value[leaf] = Expected(leaf)
    /\ \A leaf \in Leaves \ (Pair \cup {"templates"}) : (leaf \in DOMAIN out.main.value) = (Deciding(leaf) # {})
    /\ Pair \cap DOMAIN out.main.value # {} =>
         \E leaf \in Pair : /\ Pair \cap DOMAIN out.main.lineage = {leaf}
                            /\ Deciding(leaf) = {out.main.lineage[leaf]}
    /\ \A leaf \in DOMAIN out.main.value \ {"pre", "post"} :
         LET l == out.main.lineage[Source(leaf)] IN
         IF leaf \in Appended THEN l \in Sets(leaf) /\ \A k \in Sets(leaf) : k = 1 \/ l # 1
         ELSE IF Entry(leaf) = leaf THEN l = out.main.value[leaf] ELSE l >= out.main.value[leaf]

\* A field merges the same whichever layer supplies it: an override gives the
\* value a variant would have given (config_merge: "that value-equality is the
\* unification invariant").  A file of a system prompt is not a value yet.
Unified ==
  Done /\ HasTwin /\ "promptFile" \notin case.patch[Cli] =>
    LET as(v) == IF v = Variant THEN Cli ELSE v IN
    DOMAIN out.main.value = DOMAIN out.twin.value
    /\ \A leaf \in DOMAIN out.main.value :
         IF leaf \in Appended THEN out.main.value[leaf] = [i \in DOMAIN out.twin.value[leaf] |-> as(out.twin.value[leaf][i])]
         ELSE out.main.value[leaf] = as(out.twin.value[leaf])
=============================================================================
