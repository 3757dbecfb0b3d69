SPECIFICATION FairSpec
CONSTANTS
  MaxId = 4
  Faults = {"statement", "connection", "crash"}
  Names = {"widget", "o'clock"}
  RejectedNames = {"o'clock"}
  SerialRules = {"refused", "blank", "given"}
  SeedCount = 0
  SeedRels <- MCNoRels
INVARIANT TreeInv
INVARIANT NoDangling
INVARIANT UniqueParent
INVARIANT TreeTerminates
INVARIANT EdgesAgree
INVARIANT RowsAreCached
PROPERTY CallsReturn
