SPECIFICATION Spec
CONSTANTS
  Crc16 <- MCCrc16
  PayloadSize <- MCPayloadSize
  Lines <- MCLines
  MaxFrames = 1
  Timeouts = {0, 1, 15}
  TicksPerMs = 2
  HalfClock = 16
  IntMax = 2
  MaxNow = 4
  MaxSlip = 1
  ReadSize = 10
  MaxErrors = 0
INVARIANT TimeoutIsNotEarly
