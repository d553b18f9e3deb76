SPECIFICATION FairSpec
CONSTANTS
  Revs = {"r1","r2"}
  BadRevs = {"r2"}
  Standings = {"in"}
  Outcomes = {"completed"}
  Losable = TRUE
  HasSandbox = FALSE
  Window = 1
  TooBig = {}
  FilePosts = {}
  MaxBatch = 2
  MaxAttach = 1
  Denials = {}
  LateRequests = TRUE
  Stragglers = FALSE
  MaxTime = 2
  MaxEdits = 0
  Deletable = {2}
  MaxFaults = 1
  MaxCrashes = 1
  MaxChanges = 0
PROPERTIES
  EveryTriggerAccounted
  EveryDebtPaid
