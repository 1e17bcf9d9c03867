\* Two packets whose posts run side by side.
SPECIFICATION Spec
CONSTANTS
  Ids = {"c"}
  MaxSessions = 2
  MaxPackets <- MCMaxPackets
  MaxPosts = 2
INVARIANTS
  PlayedUpToHere
CHECK_DEADLOCK FALSE
