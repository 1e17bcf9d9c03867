\* A file of three segments and a link to it, then it is sent changed.
SPECIFICATION Spec
CONSTANTS
  Names = {"a", "b", "c"}
  Data = {"X", "Y"}
  Files <- MCFiles
  Threads = 2
  Retries = 1
  Zeros = Zeros
  NoFile = NoFile
  Short = Short
  MaxConnections = 4
  MaxFaults = 1
INVARIANTS
  TransferTypeOK
  DoneMeansStored
  DoneMeansVerified
  ProgressTellsTruth
PROPERTIES
  RunEnds
CHECK_DEADLOCK FALSE
