CONSTANTS
  Zips = {z1}
  Downtimes <- None
  Jobs <- Overlapping
  System <- SystemOfOverlapping
  NoTagging <- NoTaggingAgain
  Configs <- ResultsEntry
  Required <- RequiredByResults
  MayBreak = {"polarion"}
  MaxFaults = 2
SPECIFICATION FairSpec
INVARIANTS
  NothingLost
  ArchivedIsProcessed
  TagsAreTrue
PROPERTIES
  EventuallyArchived
  StoreSpec
