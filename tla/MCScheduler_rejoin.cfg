SPECIFICATION Spec
CONSTANTS
  Threads = {"a", "b"}
  Flows = {"f"}
  FlowOf <- OneFlow
  InitCfg = {"f"}
  Configs = {}
  MaxRuns = 1
  MaxQueued = 2
  Workers = 1
  LateCommits = FALSE
  SlowLookups = FALSE
  Calm = FALSE
  Old = {"a"}
  Due = {"a", "b"}
  New = {}
  MaxFaults = 0
  Movable = {"b"}
  MaxChanges = 2
INVARIANT
  PendingWorkKept
