\* A file longer than the window, and one without a uuid attribute to which a
\* checksum longer than its payload is added, so that not even its header arrives.
\* The process stops when it follows a nil job.
SPECIFICATION ReceiverSpec
CONSTANTS
  Posts = {"a", "b"}
  Uuids = {"zero", "a", "b"}
  NoUuid = "zero"
  Uuid <- MCUuidMissing
  HeaderLen <- MCHeaderShort
  PayloadLen <- MCPayloadChunks
  Sum <- MCSumMissing
  AddChecksum = TRUE
  SumLen = 2
  Ports = {1}
  Mtu = 2
  Block = 2
  Window = 4
  MaxCell = 9
  Hole = Hole
  Junk = Junk
  Threads = {1}
  QueueCap = 1
  ZeroLed = {}
  RetryCount = 0
  SendMayFail = TRUE
  Unanswered = {}
  NoJob = NoJob
  NoPost = NoPost
INVARIANTS
  PassedIsIntact
CHECK_DEADLOCK FALSE
