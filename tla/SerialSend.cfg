SPECIFICATION SendSpec
CONSTANTS
  Crc16 <- MCCrc16
  Frames <- MCFrames
  MaxSends = 3
  MaxShort = 2
INVARIANT SendTypeOK
INVARIANT HalvesLackAByteAA
INVARIANT OnlyReportedFramesArrive
INVARIANT ReportedFramesArrive
CHECK_DEADLOCK FALSE
