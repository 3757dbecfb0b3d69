SPECIFICATION Spec
CONSTANTS
  Scripts <- MCScripts
  Misreadings <- MCMisreadings
  Sizes = {125, 126, 65535, 65536}
  MaxPayload = 200
  BufferSize = 128
  MaxSends = 2
INVARIANT MessagesAsSent
INVARIANT NothingOutstanding
INVARIANT CloseIsReported
INVARIANT FramesAreSized
PROPERTY GoneIsDeleted
CHECK_DEADLOCK FALSE
