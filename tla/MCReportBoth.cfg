CONSTANTS
  Zips = {z1}
  Downtimes = {d1}
  Jobs <- OneEach
  System <- SystemOfEach
  NoTagging <- None
  Configs <- BothEntries
  Required <- RequiredByBoth
  MayBreak = {}
  MaxFaults = 0
SPECIFICATION Spec
INVARIANTS
  ArchivedIsProcessed
  DuplicateBound
PROPERTIES
  FullTagsStay
