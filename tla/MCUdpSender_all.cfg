\* Three FlowFiles, one of them refused, over two workers and one send slot.
\* Clients may hang up while their files are sent, those of b and c during the
\* upload as well; they post once and then stop.
SPECIFICATION SenderSpec
CONSTANTS
  Posts = {"a", "b", "c"}
  Uuids = {"zero", "a", "b", "c"}
  NoUuid = "zero"
  Uuid <- MCUuid
  HeaderLen <- MCHeaderLen
  PayloadLen <- MCPayloadLen
  Sum <- MCSum
  AddChecksum = FALSE
  SumLen = 1
  Ports = {1, 2}
  Mtu = 2
  MaxSends = 1
  MaxAttempts = 1
  Leavers = {"b", "c"}
  NetCap = 12
  NoPort = NoPort
INVARIANTS
  SenderTypeOK
  WorkersConserved
  OnlyVerifiedSent
  PortsCarryWholeFiles
  OkMeansSentTwice
PROPERTIES
  EveryPostReturns
CHECK_DEADLOCK FALSE
