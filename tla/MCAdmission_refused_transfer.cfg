SPECIFICATION Spec
CONSTANTS
  Revs = {"r1","r2"}
  BadRevs = {"r2"}
  Standings = {"in"}
  Outcomes = {"completed"}
  Losable = FALSE
  HasSandbox = FALSE
  Window = 0
  TooBig = {}
  FilePosts = {}
  MaxBatch = 2
  MaxAttach = 1
  Denials = {}
  LateRequests = TRUE
  Stragglers = FALSE
  MaxTime = 2
  MaxEdits = 0
  Deletable = {}
  MaxFaults = 0
  MaxCrashes = 0
  MaxChanges = 1
PROPERTIES
  RefusedTransferOnce
