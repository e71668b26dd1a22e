SPECIFICATION Spec
CONSTANTS
  Crc16 <- MCCrc16
  PayloadSize <- MCPayloadSize
  Mail <- MCMail
  MaxMail = 2
  Timeouts = {0, 2}
  TicksPerMs = 2
  HalfClock = 16
  IntMax = 2
  MaxNow = 6
  MaxSlip = 1
  QueueSize = 2
  MaxCopies = 1
  MaxErrors = 1
INVARIANTS
  TypeOK
  DeadlineKept
  TimeoutIsNotEarly
  SameFramesAsTheStream
  ReadsInOrder
