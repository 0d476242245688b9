SPECIFICATION Spec
CONSTANTS
  TaskSuites <- MCTaskSuites
  TaskVariants <- MCTaskVariants
  TaskRepeats = {1, 2}
  TaskFilters <- MCTaskFilters
  RetryComponents = {"sandbox", "agent", "evaluator", "task", "orchestrator"}
  RetryCaps = {1, 2, 10}
  SandboxConfigs <- MCSandboxConfigs
  SandboxFrom <- MCSandboxFrom
  ConfigGroups <- MCConfigGroups
  TurnTicks = 3
  TurnFlushes = 2
  TurnTools = {"t", "u"}
  TurnChild = "child"
  CostTurns <- MCCostTurns
  CostLogs <- MCCostLogs
  CostJudges <- MCCostJudges
  CostStatuses = {"SUCCESS", "TIMEOUT"}
  CostBuiltIn <- MCCostBuiltIn
  CostBatches <- MCCostBatches
  CostSpellings <- MCCostSpellings
  CheckedFiles <- MCCheckedFiles
  CheckedReferences = {"none", "escapes", "unreadable", "empty", "there"}
  CheckedOutcomes <- MCCheckedOutcomes
  CheckedCriteria <- MCCheckedCriteria
  TextCap = 4
  TextOverlap = 2
  TextEnds <- MCTextEnds
  TextScripts <- MCTextScripts
  TextCommands <- MCTextCommands
  TextCriteria <- MCTextCriteria
  TextRun = 3
  ReportedCells <- MCReportedCells
  ReportedVariants <- MCReportedVariants
  ReportedGates = {"none", "accuracy", "mean", "completion"}
INVARIANTS  TasksAccounted TurnAccounted GuardHonest  RetriesSound CostsTold CommandsSeen  ReportsHonest
CHECK_DEADLOCK FALSE
