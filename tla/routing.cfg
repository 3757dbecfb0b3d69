SPECIFICATION Spec
CONSTANTS
  Rules <- MCRules
  URLs <- MCURLs
  MaxRules = 3
  MaxDigits = 2
INVARIANT AnswerIsDue
CHECK_DEADLOCK FALSE
