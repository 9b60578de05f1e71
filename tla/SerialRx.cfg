SPECIFICATION FairSpec
CONSTANTS
  bufsz = 8
  MaxBytes = 9
  MaxLate = 4
INVARIANTS TypeOK PutIndexFollowsDma BytesAccounted AsleepOnlyAfterReset
PROPERTIES ImplementsStream EveryByteRead
CHECK_DEADLOCK FALSE
