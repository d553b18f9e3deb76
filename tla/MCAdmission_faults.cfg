SPECIFICATION Spec
CONSTANTS
  Revs = {"r1","r2"}
  BadRevs = {}
  Standings = {"in","out"}
  Outcomes = {"completed"}
  Losable = FALSE
  HasSandbox = TRUE
  Window = 0
  TooBig = {}
  FilePosts = {2,3}
  MaxBatch = 2
  MaxAttach = 1
  Denials = {404}
  LateRequests = TRUE
  Stragglers = FALSE
  MaxTime = 3
  MaxEdits = 0
  Deletable = {}
  MaxFaults = 1
  MaxCrashes = 1
  MaxChanges = 1
INVARIANTS
  TriggerAcceptedOnce
  NoRival
  FilesPrepared
  AttachmentQuota
  RevisionCoherent
PROPERTIES
  KeepsPromise
CHECK_DEADLOCK FALSE
