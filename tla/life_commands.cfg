SPECIFICATION SpecDir
CONSTANTS
  MaxAttempts = 1
  NPostRun = 1
  TaskTimeout = TRUE
  EnforcesWindows = FALSE
  SwallowsCancel = TRUE
  MaxInterrupts = 0
  Modes = {"run", "execute", "regrade"}
  Priors = {}
  MaxCommands = 3
  MaxKills = 1
INVARIANTS DirectoryKept
PROPERTIES LedgerKept PassesRespectRow
