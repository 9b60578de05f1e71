SPECIFICATION Spec
CONSTANTS
  Garbage = Garbage
  NaN = NaN
  WindowLen = 2
  Wheels <- OneWheel
  CntHalf = 4
  TickRange = 16
  RpmScale = 2
  VxGain = 2
  VwGain = 1
  RefMax = 4
  Kp = 2
  Ki = 1
  Kd = 1
  PidMax = 10
  Period = 10
  MIN_PULSE = 2
  PrintEvery = 1
  Commands <- StraightCommands
  Uninit <- UninitValues
  StartTick = 14
  StartPos = 2
  MaxStep = 1
  MaxStall = 3
  MaxTicks = 5
CHECK_DEADLOCK FALSE
INVARIANTS
  TypeOK
  SamplesAreTrue
  FilterIsRecent
  ChannelsExclusive
