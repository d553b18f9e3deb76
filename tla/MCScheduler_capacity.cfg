SPECIFICATION Spec
CONSTANTS
  Threads = {"a", "b"}
  Flows = {"f"}
  FlowOf <- OneFlow
  InitCfg = {"f"}
  Configs = {{"f"}, {}}
  MaxRuns = 1
  MaxQueued = 2
  Workers = 2
  LateCommits = FALSE
  SlowLookups = FALSE
  Calm = FALSE
  Old = {"a"}
  Due = {}
  New = {"b"}
  MaxFaults = 0
  Movable = {"b"}
  MaxChanges = 1
INVARIANTS
  RunLimit
  PendingWorkKept
  NoIdleWaiter
