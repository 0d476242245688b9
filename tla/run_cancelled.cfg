SPECIFICATION Spec
CONSTANTS
  MaxAttempts = 3
  NPostRun = 1
  TaskTimeout = FALSE
  EnforcesWindows = TRUE
  SwallowsCancel = FALSE
  MaxInterrupts = 1
  Modes = {"run", "execute", "regrade", "copy", "bare"}
  Priors <- PriorRows
INVARIANTS CancellationSeen TornDown
