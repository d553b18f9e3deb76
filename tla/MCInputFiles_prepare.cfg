SPECIFICATION FairSpec
CONSTANTS
  None = None
  Files = {1, 2}
  LastAnchor = 3
  Drafts <- Attachments
  Importers = {1, 2}
  MaxRuns = 3
  MaxFaults = 2
  MaxDamage = 1
INVARIANTS
  BatchCommitted
  NothingForgotten
  RefusalExplained
PROPERTIES
  RequestFrozen
  ReadyIntact
  HookEnds
CHECK_DEADLOCK FALSE
