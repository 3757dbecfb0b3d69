SPECIFICATION Spec
CONSTANTS
  MaxId = 3
  Faults = {}
  Names = {"widget", "o'clock"}
  RejectedNames = {"o'clock"}
  SerialRules = {"refused", "blank", "given"}
  SeedCount = 3
  SeedRels <- MCFamily
PROPERTY SiblingsKeepParent
