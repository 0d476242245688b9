SPECIFICATION Spec
CONSTANTS
  d = d
  h = h
  Tasks <- TwoTasks
  Docker <- OneDocker
  Setups <- SetupsHere
  MaxCommands = 3
  MaxKills = 1
  MaxFaults = 1
INVARIANTS DirectoryTrue
PROPERTIES NothingPaidTwice BatchEnds
CHECK_DEADLOCK FALSE
