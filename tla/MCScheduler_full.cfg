SPECIFICATION FairSpec
CONSTANTS
  Threads = {"a", "b"}
  Flows = {"f"}
  FlowOf <- OneFlow
  InitCfg = {"f"}
  Configs = {}
  MaxRuns = 1
  MaxQueued = 1
  Workers = 1
  LateCommits = TRUE
  SlowLookups = FALSE
  Calm = TRUE
  Old = {"a"}
  Due = {"b"}
  New = {}
  MaxFaults = 1
  Movable = {"b"}
  MaxChanges = 1
PROPERTIES
  EveryThreadSettles
CHECK_DEADLOCK FALSE
