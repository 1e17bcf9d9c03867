\* Two FlowFiles, each posted up to twice, over a port that loses packets.
\* Clients post a bounded number of times and then stop.
SPECIFICATION Spec
CONSTANTS
  Posts = {"a", "b"}
  Uuids = {"zero", "a", "b"}
  NoUuid = "zero"
  Uuid <- MCUuid
  HeaderLen <- MCHeaderLen
  PayloadLen <- MCPayloadLen
  Sum <- MCSum
  AddChecksum = FALSE
  SumLen = 1
  Ports = {1}
  Mtu = 2
  Block = 3
  Window = 4
  MaxCell = 4
  Hole = Hole
  Junk = Junk
  Threads = {1}
  QueueCap = 1
  ZeroLed = {"b"}
  RetryCount = 1
  SendMayFail = FALSE
  Unanswered = {"a"}
  NoJob = NoJob
  NoPost = NoPost
  MaxSends = 1
  MaxAttempts = 2
  Leavers = {"a", "b"}
  NetCap = 1
  NoPort = NoPort
  MayLose = TRUE
  Overtake = 0
INVARIANTS
  NothingMissed
PROPERTIES
  ImplementsDelivery
CHECK_DEADLOCK FALSE
