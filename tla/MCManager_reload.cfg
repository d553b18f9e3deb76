SPECIFICATION FairSpec
CONSTANTS
  Files = {1, 2}
  Workflows <- Flows
  Channels = {"c", "d"}
  Endpoints = {"e1", "e2", "e3"}
  Names = {"a", "b", "c", "d"}
  None = None
  Bad = Bad
  Start <- Two
  MaxEdits = 2
  MaxSignals = 2
INVARIANTS
  AllOrNone
  Unambiguous
PROPERTIES
  ReloadArrives
  Stops
CHECK_DEADLOCK FALSE
