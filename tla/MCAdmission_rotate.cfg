SPECIFICATION Spec
CONSTANTS
  Revs = {"r1","r2"}
  BadRevs = {}
  Standings = {"in","draining"}
  Outcomes = {"completed"}
  Losable = FALSE
  HasSandbox = FALSE
  Window = 1
  TooBig <- FirstVersionOfFirstPost
  FilePosts = {}
  MaxBatch = 1
  MaxAttach = 1
  Denials = {}
  LateRequests = FALSE
  Stragglers = FALSE
  MaxTime = 3
  MaxEdits = 1
  Deletable = {}
  MaxFaults = 0
  MaxCrashes = 0
  MaxChanges = 1
INVARIANTS
  SingleActive
  InOrder
PROPERTIES
  TransferFirst
