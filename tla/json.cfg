SPECIFICATION Spec
CONSTANTS
  MaxDepth = 5
INVARIANT OnlyWholeTexts
INVARIANT ReadsAreMeant
CHECK_DEADLOCK FALSE
