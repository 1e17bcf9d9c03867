\* One FlowFile of four packets, posted once, over a port that loses packets
\* and lets up to two overtake an older one.  Its client then stops.
SPECIFICATION Spec
CONSTANTS
  Posts = {"a"}
  Uuids = {"zero", "a"}
  NoUuid = "zero"
  Uuid <- MCUuid
  HeaderLen <- MCHeaderLen
  PayloadLen <- MCPayloadFive
  Sum <- MCSum
  AddChecksum = FALSE
  SumLen = 1
  Ports = {1}
  Mtu = 2
  Block = 3
  Window = 7
  MaxCell = 7
  Hole = Hole
  Junk = Junk
  Threads = {1}
  QueueCap = 1
  ZeroLed = {}
  RetryCount = 1
  SendMayFail = FALSE
  Unanswered = {"a"}
  NoJob = NoJob
  NoPost = NoPost
  MaxSends = 1
  MaxAttempts = 1
  Leavers = {"a"}
  NetCap = 4
  NoPort = NoPort
  MayLose = TRUE
  Overtake = 2
PROPERTIES
  TwoCopiesSuffice
CHECK_DEADLOCK FALSE
