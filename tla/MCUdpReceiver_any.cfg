\* Any packets of two FlowFiles on two ports; the window holds a whole file.
SPECIFICATION ReceiverSpec
CONSTANTS
  Posts = {"a", "b"}
  Uuids = {"zero", "a", "b"}
  NoUuid = "zero"
  Uuid <- MCUuid
  HeaderLen <- MCHeaderLen
  PayloadLen <- MCPayloadLen
  Sum <- MCSum
  AddChecksum = FALSE
  SumLen = 1
  Ports = {1, 2}
  Mtu = 2
  Block = 3
  Window = 6
  MaxCell = 6
  Hole = Hole
  Junk = Junk
  Threads = {1, 2}
  QueueCap = 1
  ZeroLed = {"b"}
  RetryCount = 1
  SendMayFail = TRUE
  Unanswered = {"a", "b"}
  NoJob = NoJob
  NoPost = NoPost
INVARIANTS
  TypeOK
  QueuedIsComplete
  ForwardedIntact
  IntactNotRejected
  NoNilJob
  NoStrayTmpFile
