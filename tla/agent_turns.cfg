SPECIFICATION Spec
CONSTANTS
  Configs <- MCConfigs
  Tools = {t1, t2}
  Shell = {t2}
  MaxCalls = 2
  MaxSteps = 2
  MaxNoise = 1
  RequireTokenTelemetry = TRUE
INVARIANTS CallsKeptApart
PROPERTIES ContractKept ResultsStand TurnEnds
\* An agent that is interrupted is not called again.
CHECK_DEADLOCK FALSE
