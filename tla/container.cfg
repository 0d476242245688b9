SPECIFICATION Spec
CONSTANTS
  MaxCuts = 2
  MaxFaults = 1
INVARIANTS  ResultsEarned
PROPERTIES NothingHangs
\* A dispatch ends.
CHECK_DEADLOCK FALSE
