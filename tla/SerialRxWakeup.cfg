SPECIFICATION Spec
CONSTANTS
  bufsz = 4
  MaxBytes = 4
  MaxLate = 1
INVARIANTS TimeoutMeansNoData
CHECK_DEADLOCK FALSE
