\* One client that sends up to three packets and its EOF; two posts at a time.
SPECIFICATION Spec
CONSTANTS
  Ids = {"c"}
  MaxSessions = 3
  MaxPackets <- MCMaxPackets
  MaxPosts = 2
INVARIANTS
  SocketTypeOK
  NothingSkipped
  InOrder
  NothingStranded
  ClosedAfterAll
  OneConnection
PROPERTIES
  EveryPacketArrives
CHECK_DEADLOCK FALSE
