SPECIFICATION Spec
CONSTANTS
  Crc16 <- MCCrc16
  PayloadSize <- MCPayloadSize
  Mail <- MCMail
  MaxMail = 1
  Timeouts = {0, 2}
  TicksPerMs = 2
  HalfClock = 16
  IntMax = 2
  MaxNow = 6
  MaxSlip = 0
  QueueSize = 2
  MaxCopies = 0
  MaxErrors = 0
INVARIANT KeepsWaitingForItsType
