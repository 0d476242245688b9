SPECIFICATION Spec
CONSTANTS
  Vectors <- MCVectors
  MaxCalls = 2
  MaxCancels = 2
  Docker = TRUE
  Passes <- MCPasses
  MaxPasses = 2
  MaxEdits = 1
  MaxFaults = 1
CHECK_DEADLOCK FALSE
INVARIANTS  PassLeavesNothing
PROPERTIES PassEnds
