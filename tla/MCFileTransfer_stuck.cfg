\* ff-receiver is restarted while a segment is being saved.
SPECIFICATION Spec
CONSTANTS
  Names = {"a", "b", "c"}
  Data = {"X", "Y"}
  Files <- MCFiles
  Threads = 1
  Retries = 1
  Zeros = Zeros
  NoFile = NoFile
  Short = Short
  MaxConnections = 0
  MaxFaults = 1
PROPERTIES
  WaitEnds
CHECK_DEADLOCK FALSE
