SPECIFICATION FairSpec
CONSTANTS
  Crc16 <- MCCrc16
  Wires <- MCWires
  MaxPieces = 3
  MaxWire = 22
INVARIANTS
  TypeOK
  BufIsTail
  ReturnedFramesAreValid
  NoFrameLost
  BacklogIsOneHalfFrame
  ChunksDoNotMatter
  CallIsNextFrame
PROPERTIES
  CallReturns
  ImplementsStream
