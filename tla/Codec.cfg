SPECIFICATION CodecSpec
CONSTANTS
  Crc16 <- crc16
  GoldenCrc <- golden_crc16
  SentPackets <- MCPackets
  Deltas <- MCDeltas
  Tails <- MCTails
INVARIANT FieldsWhereTheSchemaSays
INVARIANT FirmwareReadsThePacket
INVARIANT GoldenIsEncoded
INVARIANT RoundTrip
INVARIANT DamageIsDetected
CHECK_DEADLOCK FALSE
