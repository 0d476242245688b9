-------------------------------- MODULE Rules --------------------------------
(***************************************************************************)
(* The rules that decide on one thing at a time, as far as they are proved *)
(* about: the list of runs of a command, the retries around what may fail, *)
(* the directory a task runs in, its configuration, the time of its turns, *)
(* what its run has cost, the criteria that read its files and its         *)
(* commands, and what a batch publishes.  Each is a module of its own that *)
(* works on one case at a time; they share the three variables.            *)
(***************************************************************************)
EXTENDS Integers, Sequences, FiniteSets

CONSTANTS
  TaskSuites, TaskVariants, TaskRepeats, TaskFilters, \* the task files, the variants, the replicates, the tags
  RetryComponents, RetryCaps,   \* who retries, and how often at most
  SandboxConfigs, SandboxFrom,  \* the configurations of a directory, and the texts of its sources
  ConfigGroups,                 \* the leaves of a configuration that are resolved together
  TurnTicks, TurnFlushes, TurnTools, TurnChild,       \* the length of a turn, its windows, its calls
  CostTurns, CostLogs, CostJudges, CostStatuses,      \* what a run's turns, the proxy and the judges report
  CostBuiltIn, CostBatches, CostSpellings,            \* the rate card, the plugins' batches, the spellings of ids
  CheckedFiles, CheckedReferences, CheckedOutcomes,   \* what the criteria find
  CheckedCriteria,                                    \* and what they are
  TextCap, TextOverlap, TextEnds, TextScripts,        \* the length of a window, the texts of commands, the scripts
  TextCommands, TextCriteria, TextRun,                \* the commands of an agent, and the criteria that read them
  ReportedCells, ReportedVariants, ReportedGates      \* the rows of a batch, its variants, the gates of its suite

VARIABLES case, at, out

Plan  == INSTANCE TaskList WITH Suites <- TaskSuites, Variants <- TaskVariants, Repeats <- TaskRepeats, Filters <- TaskFilters
Retry == INSTANCE RetryPlan WITH Components <- RetryComponents, Caps <- RetryCaps
Tree  == INSTANCE SandboxTree WITH Configs <- SandboxConfigs, From <- SandboxFrom
Config == INSTANCE ConfigLayers WITH Groups <- ConfigGroups
Time  == INSTANCE TurnTime WITH Ticks <- TurnTicks, Flushes <- TurnFlushes, Tools <- TurnTools, Child <- TurnChild
Money == INSTANCE Costs
           WITH TurnLists <- CostTurns, Logs <- CostLogs, Judges <- CostJudges, Statuses <- CostStatuses,
                BuiltIn <- CostBuiltIn, Batches <- CostBatches, Spellings <- CostSpellings
Sandboxed == INSTANCE FileCriteria
               WITH Files <- CheckedFiles, References <- CheckedReferences, Outcomes <- CheckedOutcomes,
                    Criteria <- CheckedCriteria
Text == INSTANCE CommandText
          WITH Cap <- TextCap, Overlap <- TextOverlap, Texts <- TextEnds, Scripts <- TextScripts,
               Commands <- TextCommands, Criteria <- TextCriteria, MaxRun <- TextRun
Report == INSTANCE Published WITH Cells <- ReportedCells, Variants <- ReportedVariants, Gates <- ReportedGates

-----------------------------------------------------------------------------
(* What the theorems assume of the constants: what the code's models       *)
(* validate, and one default of the sandbox (see ConfigsPlain).            *)

\* A caller of a retry allows one attempt at least (max_attempts).
CapsPlain == RetryCaps \subseteq Nat \ {0}

\* A task's sources are as many as have a text, and none writes into an
\* environment: the default patterns leave .venv and node_modules out of every
\* template (_should_ignore_template_file), and no task re-includes them.
ConfigsPlain ==
  \A c \in SandboxConfigs :
    /\ c.sources \in Seq(SUBSET (Tree!Paths \ Tree!Noise))
    /\ DOMAIN c.sources \subseteq DOMAIN SandboxFrom

\* The leaves of a case are leaves of a configuration.
ConfigPlain == \A g \in ConfigGroups : g \subseteq Config!Leaves

\* Costs and rates are no less than nothing, and a turn that reports no usage
\* reports no cost: the cost is a field of the usage (TokenUsage.total_cost_usd).
Prices == Nat \cup {-1}
Bills  == {t \in [iteration : Int, generated : BOOLEAN, usage : {"none", "empty", "tokens"}, cost : Prices] :
             t.usage = "none" => t.cost = -1}
LogLines == [loads : BOOLEAN, shape : BOOLEAN, ours : BOOLEAN, iteration : Int, cost : Prices, tokens : BOOLEAN]
MoneyPlain ==
  /\ CostTurns \subseteq Seq(Bills)
  /\ CostLogs \subseteq Seq(LogLines)
  /\ \A m \in DOMAIN CostBuiltIn : CostBuiltIn[m] \in Nat
  /\ \A b \in CostBatches : \A m \in DOMAIN b : b[m] \in Nat

\* What has so many entries, one after the other.
ListOf(s) == s \in Seq({s[i] : i \in DOMAIN s})

\* An experiment has a variant (validate_variants), and a replicate and a trial
\* is run once at least (repeats and n_trials are validated with ge=1).
TasksPlain ==
  /\ \A s \in TaskSuites :
       /\ ListOf(s)
       /\ \A i \in DOMAIN s : ListOf(s[i].rows) /\ s[i].trials \in Nat \ {0}
  /\ ListOf(TaskVariants) /\ Len(TaskVariants) > 0
  /\ TaskRepeats \subseteq Nat \ {0}

\* Strings and patterns of a criterion are finitely many, a similarity is a
\* score, and a threshold is set for finitely many metrics.
CriteriaPlain ==
  /\ \A f \in CheckedFiles : f.present \in BOOLEAN /\ f.decodes \in BOOLEAN /\ f.json \in BOOLEAN
  /\ \A o \in CheckedOutcomes : o.first \in {"", "nan", "text", "below", "half", "above"}
  /\ \A c \in CheckedCriteria :
       \/ c.type \in {"file_exists", "classification_match", "run_command"}
       \/ c.type = "file_matches_regex"
       \/ c.type = "file_contains" /\ IsFiniteSet(c.includes) /\ IsFiniteSet(c.excludes)
       \/ c.type = "file_check" /\ IsFiniteSet(c.includes) /\ IsFiniteSet(c.excludes) /\ ListOf(c.patterns)
       \/ c.type = "json_check" /\ c.schema \in {"none", "holds", "fails", "missing", "malformed"} /\ ListOf(c.assertions)
       \/ c.type = "reference_comparison" /\ c.similarity \in (0 .. 12) \cup {-1}
       \/ c.type = "uipath_eval" /\ IsFiniteSet(DOMAIN c.thresholds)

\* Windows overlap by half their length at most (_MAX_PATTERN_SEARCH_LEN and
\* _WINDOW_OVERLAP), lines end one after the other, and a script does not wrap
\* another: what wraps one is a spelling of it.
TextPlain ==
  /\ TextCap \in Nat \ {0} /\ TextOverlap \in Nat /\ 2 * TextOverlap <= TextCap
  /\ \A ends \in TextEnds :
       /\ ends \in Seq(Nat) /\ Len(ends) > 0
       /\ \A i, j \in DOMAIN ends : i <= j => ends[i] <= ends[j]
  /\ \A script \in TextScripts :
       /\ ListOf(script) /\ Len(script) > 0
       /\ script[1] \in Text!Shells => Text!FlagAt(Text!Unquoted(script)) = 0
  /\ \A c \in TextCriteria :
       \/ c.type \in {"skill", "efficiency"}
       \/ c.type = "commands" /\ c.min \in Nat /\ c.max \in Nat \cup {-1}

\* A batch has finitely many rows, and each belongs to a variant of the list.
ReportPlain ==
  /\ IsFiniteSet(ReportedCells)
  /\ ListOf(ReportedVariants)
  /\ \A c \in ReportedCells : \E i \in DOMAIN ReportedVariants : ReportedVariants[i] = c[2]

ASSUME RulesAssumption ==
  /\ TasksPlain
  /\ CapsPlain
  /\ ConfigsPlain
  /\ ConfigPlain
  /\ MoneyPlain
  /\ CriteriaPlain
  /\ TextPlain
  /\ ReportPlain

-----------------------------------------------------------------------------
(* Properties.                                                             *)

\* Every task of a suite is run, or named among the skipped, once (planning).
TasksAccounted == Plan!TasksAccounted

\* What another attempt cannot mend is not tried again (error categories, retry).
RetriesSound == Retry!RetriesSound

\* A sandbox directory holds what its configuration promises (set-up and adoption).
TreeAsPromised == Tree!TreeAsPromised

\* A resolved configuration is the last layer's where one spoke, and one
\* configuration however a prompt or a setting was spelt (merge and lineage).
ConfigResolved == Config!LayersRespected /\ Config!Unified

\* The time of a turn is booked once, to the model or to a tool (turn timing).
TurnAccounted == Time!TurnAccounted

\* What a run is said to have cost is what its calls cost (cost join, rate card).
CostsTold == Money!CostsTold

\* Full marks are for what the criterion demands (the checkers of the sandbox).
CriterionHonest == Sandboxed!CriterionHonest

\* No command is missed for how it is spelt, and no live verdict is taken back
\* (search windows, shell spellings, live verdicts).
CommandsSeen == Text!CommandsSeen

\* What a batch publishes is one account of its rows (summary, experiment, suites, JUnit).
ReportsHonest == Report!ReportsHonest
=============================================================================
