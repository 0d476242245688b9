SPECIFICATION FairSpec
CONSTANTS
  MaxAttempts = 2
  NPostRun = 2
  TaskTimeout = TRUE
  EnforcesWindows = FALSE
  SwallowsCancel = TRUE
  MaxInterrupts = 0
  Modes = {"run", "execute", "bare", "regrade"}
  Priors <- PriorRows
INVARIANTS RowTold IterationStable
PROPERTIES FactKept DeadlineHolds Terminates
