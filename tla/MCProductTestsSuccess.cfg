CONSTANTS
  N = 2
  Secret <- NoSecrets
  NoSecret = NoSecret
  Unset = Unset
  Leftover <- None
  WatchMayClose = FALSE
  MaxTouches = 0
  MaxFaults = 0
SPECIFICATION Spec
INVARIANTS
  SuccessIsOwn
