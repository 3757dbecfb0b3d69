SPECIFICATION Spec
CONSTANTS
  AppSize = 5
  Local = {3, 5}
  Connections = {one, two}
  one = one
  two = two
  MaxIds = 2
  MaxValue = 2
  Lifetime = 1
  MaxTime = 2
  MaxEvictions = 1
  MaxRequests = 3
  Requests <- MCRequests
INVARIANT SessionsAreKept
INVARIANT CachedWhileInUse
INVARIANT CallsAreNested
PROPERTY ExpiryIsKept
SYMMETRY MCSymmetry
CHECK_DEADLOCK FALSE
