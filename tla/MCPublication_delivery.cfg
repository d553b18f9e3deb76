SPECIFICATION FairSpec
CONSTANTS
  Messages <- Talk
  Files = {"x", "y"}
  Exports <- NoneOrBoth
  Commentary = TRUE
  Deletable = {"notice", "p", "a", "files", "status", "empty"}
  MaxFaults = 1
  MaxTampers = 1
INVARIANTS
  PartOnce
  ConflictExplained
  NoFalseAlarm
  InOrder
PROPERTY
  EverythingDelivered
