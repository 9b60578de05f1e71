SPECIFICATION FairSpec
CONSTANTS
  t1 = t1
  t2 = t2
  t3 = t3
  m1 = m1
  m2 = m2
  Threads <- AllThreads
  Blocking <- TwoBlocking
  Msgs <- OneMsg
  JunkWord = JunkWord
  PoolSize = 20
  MsgSize = 16
  HdrSize = 4
  AlignSize = 4

PROPERTY WaitersServed
