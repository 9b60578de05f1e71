SPECIFICATION FairSpec
CONSTANTS
  MaxPackets = 3
  MaxTexts = 1
  Sizes = {0, 3}
  MaxWire = 5
  recv_bufsz = 2
  sizeof_temp = 2
INVARIANTS DeliveredIntact LossHasCause ResponseClean
PROPERTY UrcReturns
CHECK_DEADLOCK FALSE
