SPECIFICATION RoutesSpec
CONSTANTS
  MaxId = 3
  Faults = {"crash", "statement"}
  Names = {"widget", "", "o'clock"}
  RejectedNames = {"o'clock"}
  SerialRules = {"refused", "blank", "given"}
  SeedCount = 0
  SeedRels <- MCNoRels
  IntBits = 4
  LongBits = 6
  Numbers <- MCNumbers
INVARIANT AcknowledgedSurvive
