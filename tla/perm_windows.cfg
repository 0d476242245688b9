SPECIFICATION Spec
CONSTANTS
  Windows = {"outer", "inner", "side"}
  Paths <- TwoPaths
  Original = 755
  ModeOf <- Same
  Outer <- Layout
  MaxCancels = 2
  MaxRefusals = 2
  Signals = {"SIGINT"}
  MaxSignals = 1
INVARIANTS ModesHold RestoredAtExit
