SPECIFICATION PathFairSpec
CONSTANTS
  parser = parser
  speedThread = speedThread
  Threads <- BothThreads
  Blocking <- Nobody
  Msgs <- Packets
  MaxPackets = 4
  HeapUnits = 3
  OtherUnits = 1
  JunkWord = JunkWord
  PoolSize = 32
  MsgSize = 16
  HdrSize = 4
  AlignSize = 4
CHECK_DEADLOCK FALSE
INVARIANTS
  LastAcceptedInForce
  HeapAccounted
PROPERTIES
  CommandsInOrder
  RefusedOnlyWhenBehind
  AcceptedIsApplied
