CONSTANTS
  Sessions = {s1, s2}
  MaxQueue = 2
  CallIds = {}
  Reuse = TRUE
SPECIFICATION FairSpec
INVARIANT UnregisteredStays
PROPERTY TryingEnds
