SPECIFICATION Spec
CONSTANTS
  Ids = {1, 2, 3, 4}
  Root = 1
  Far <- Other
  Kind <- Kinds
  Link <- LinkTo
  Cost <- Costs
  Window = 1
  Tokens = 100
  MaxBytes = 11
  Near = 1
  MaxLinks = 1
  MaxPosts = 2
  PageSize = 2
  Editable = {1, 2, 4}
  Deletable = {2}
  MaxTime = 2
  MaxChanges = 1
  MaxSessions = 2
  MaxRuns = 2
  None = None
INVARIANTS
  ReadWhole
  NotSwallowed
  SaidOnce
  ReferencesKnown
PROPERTIES
  NothingPassedOver
CHECK_DEADLOCK FALSE
