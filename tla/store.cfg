SPECIFICATION FairSpec
CONSTANTS
  MaxId = 7
  Faults = {"connection", "crash"}
  Names = {"widget", "o'clock"}
  RejectedNames = {"o'clock"}
  SerialRules = {"refused", "blank", "given"}
  SeedCount = 5
  SeedRels <- MCReference
INVARIANT TransactionInv
INVARIANT CacheCoversDatabase
INVARIANT ShownIsCommitted
PROPERTY RemovalOrphansNothing
PROPERTY AddReturnsDurable
PROPERTY StoreSpec
