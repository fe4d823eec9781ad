CONSTANTS
  N = 3
  Secret <- MixedSecrets
  NoSecret = NoSecret
  Unset = Unset
  Leftover <- Second
  WatchMayClose = TRUE
  MaxTouches = 1
  MaxFaults = 1
SPECIFICATION Spec
INVARIANTS
  VerdictIsOwn
  AllDoneAtReturn
PROPERTIES
  Ends
