---------------------------- MODULE MCSerialSend -----------------------------
(***************************************************************************)
(* SerialSend for TLC: a short frame, a longer one that holds a start pair *)
(* in its payload, and one whose last byte is the start byte AA.           *)
(***************************************************************************)
EXTENDS SerialSend, Crc

Framed(payload, type) ==
  LET body == << kProtocolVersion, Len(payload), type >> \o payload
  IN  << kStx0, kStx1 >> \o body \o PutU16LE(crc16(body))

Short   == Framed(<< >>, kTypeCmd)
StxIn   == Framed(<< 7, kStx0, kStx1, kProtocolVersion, 0, 8, 9 >>, kTypeTele)
EndsInA == Framed(<< CHOOSE b \in Byte : crc16(<< kProtocolVersion, 1, kTypeCmd, b >>) \div 256 = kStx0 >>, kTypeCmd)

MCFrames == { Short, StxIn, EndsInA }

(* The checksums of whole frames, computed once. *)
BodyOf(f) == SubSeq(f, 3, Len(f) - 2)

CrcTable == [m \in { BodyOf(f) : f \in MCFrames } |-> crc16(m)]

MCCrc16(m) == IF m \in DOMAIN CrcTable THEN CrcTable[m] ELSE crc16(m)

ASSUME FramesAreEncoded == Short = EncodeFrame(<< >>, kTypeCmd)

=============================================================================
