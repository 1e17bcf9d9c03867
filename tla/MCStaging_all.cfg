\* A POST that goes well, one that may be cut off or refused, one that fails; faults.
SPECIFICATION Spec
CONSTANTS
  Uploads = {"u", "v", "w"}
  FlowFiles = {"a", "b", "c", "e"}
  Content <- MCContent
  Sum <- MCSum
  Empty = {"e"}
  NoFile = NoFile
  RemovePartial = TRUE
  Leaving = {"v"}
  DiskMayFail = TRUE
  StagerMayCrash = TRUE
  MaxTries = 2
  MaxFaults = 2
  Unwanted = {"v"}
  NoUpload = NoUpload
INVARIANTS
  TypeOK
  PublishedIsWhole
  NothingLost
  OnlyVerifiedReplayed
PROPERTIES
  EverythingReplayed
CHECK_DEADLOCK FALSE
