\* Two sessions and a ring of 3 bytes that overflows.
SPECIFICATION FairSpec
CONSTANTS
  size = 3
  RT_ALIGN_SIZE = 1
  MaxBytes = 5
  MaxSessions = 2
  MaxNew = 2
  Failures = TRUE
INVARIANTS NoticePerByte PrintedInOrder SessionLeavesNoTrace StopHasCause
PROPERTY RingDrains
CHECK_DEADLOCK FALSE
