SPECIFICATION Spec
CONSTANTS
  c1 = c1
  c2 = c2
  Conns = {c1, c2}
  Chunks <- MCChunks
  MaxChunks <- MCMaxChunks
  Timeout = 1
INVARIANT NoForgottenDeadline
INVARIANT OpenIsServed
PROPERTY CloseIsHonoured
PROPERTY AnswersInOrder
PROPERTY RequestsAreAnswered
CHECK_DEADLOCK FALSE
