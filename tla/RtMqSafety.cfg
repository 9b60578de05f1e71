SPECIFICATION Spec
CONSTANTS
  t1 = t1
  t2 = t2
  t3 = t3
  m1 = m1
  m2 = m2
  Threads <- AllThreads
  Blocking <- TwoBlocking
  Msgs <- TwoMsgs
  JunkWord = JunkWord
  PoolSize = 40
  MsgSize = 16
  HdrSize = 4
  AlignSize = 4
INVARIANTS
  BlocksPartitioned
  ListsWellFormed
  NoTornMessage
  NoLostWakeup
  WaitListsExact
PROPERTIES ImplementsDeque
