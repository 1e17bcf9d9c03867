\* A file longer than the window.
SPECIFICATION ReceiverSpec
CONSTANTS
  Posts = {"a", "b"}
  Uuids = {"zero", "a", "b"}
  NoUuid = "zero"
  Uuid <- MCUuid
  HeaderLen <- MCHeaderLen
  PayloadLen <- MCPayloadLong
  Sum <- MCSum
  AddChecksum = FALSE
  SumLen = 1
  Ports = {1}
  Mtu = 2
  Block = 3
  Window = 4
  MaxCell = 8
  Hole = Hole
  Junk = Junk
  Threads = {1}
  QueueCap = 1
  ZeroLed = {}
  RetryCount = 0
  SendMayFail = TRUE
  Unanswered = {}
  NoJob = NoJob
  NoPost = NoPost
INVARIANTS
  ForwardedIntact
