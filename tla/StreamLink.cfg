SPECIFICATION Spec
CONSTANTS
  Crc16 <- MCCrc16
  PayloadSize <- MCPayloadSize
  Lines <- MCLines
  MaxFrames = 2
  Timeouts = {0, 1, 2}
  TicksPerMs = 2
  HalfClock = 16
  IntMax = 2
  MaxNow = 7
  MaxSlip = 1
  ReadSize = 10
  MaxErrors = 1
INVARIANTS
  TypeOK
  DeadlineKept
  TimeoutIsNotEarly
  NothingLostBetweenCalls
  NeverWaitsOnAFrame
