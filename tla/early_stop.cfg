SPECIFICATION Spec
CONSTANTS
  NoLimit = NoLimit
  Armed <- Criteria
  Weight <- Weights
  MinCount <- Minima
  MaxCount <- Maxima
  NeedsSuccess = {"deploy"}
  OnPassStop = {"load"}
  DecideWithin <- Deadlines
  Kinds <- CallKinds
  Matching <- Counts
  Gates = {40, 100}
  MaxCalls = 3
  MaxCrashes = 1
INVARIANTS LatchFaithful
PROPERTIES TimeoutsTrue StopsAgreeWithGate
