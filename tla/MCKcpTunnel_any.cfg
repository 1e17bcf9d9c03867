\* Three POSTs, two threads, no room in the pool for more; either end verifies.
SPECIFICATION Spec
CONSTANTS
  Posts = {"p", "q", "r"}
  Block <- MCBlock
  Sum <- MCSum
  Conns = {1, 2, 3}
  EOF = EOF
  MayRefuse = TRUE
  Threads = 2
  Checkers <- MCCheckers
  Slack = 0
  NoConn = 0
  NoLook = NoLook
  Failing = {"p"}
INVARIANTS
  KcpTypeOK
  OkIsForItsBlock
  BlocksApart
  OnlyVerifiedPassed
  PoolIsClean
  WorkersAccounted
PROPERTIES
  EveryPostAnswered
CHECK_DEADLOCK FALSE
