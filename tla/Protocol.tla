------------------------------ MODULE Protocol ------------------------------
(***************************************************************************)
(* The wire format of ou_sdk v0.2.0 (src/protocol.cpp, generated/ou):      *)
(*                                                                         *)
(*    AA 55 | ver | len | type | payload (len bytes) | crc16 (LE)          *)
(*                                                                         *)
(* A byte is a number in 0..255 and a byte string a sequence of bytes.     *)
(* Positions are offsets, as in the code: the byte at offset p of b is     *)
(* b[p + 1].  The checksum is a parameter, so that what is proved of the   *)
(* framing holds for every checksum; the checks give it the code's crc16.  *)
(***************************************************************************)
EXTENDS Integers, Sequences

CONSTANT Crc16(_)

Byte == 0..255
Word == 0..65535

kStx0            == 170
kStx1            == 85
kProtocolVersion == 2
kTypeCmd         == 1
kTypeTele        == 2
kFrameOverhead   == 7
kMaxFrame        == kFrameOverhead + 255

-----------------------------------------------------------------------------
(* Little-endian words. *)
PutU16LE(v) == << v % 256, v \div 256 >>

GetU16LE(b, off) == b[off + 1] + 256 * b[off + 2]

(* encodeFrame: the length byte is payload.size() cast to uint8_t. *)
EncodeFrame(payload, type) ==
  LET body == << kProtocolVersion, Len(payload) % 256, type >> \o payload
  IN  << kStx0, kStx1 >> \o body \o PutU16LE(Crc16(body))

(* What the parser reads of a candidate frame at offset p of b. *)
StxAt(b, p)    == b[p + 1] = kStx0 /\ b[p + 2] = kStx1
VerAt(b, p)    == b[p + 3]
TotalAt(b, p)  == kFrameOverhead + b[p + 4]

(* Mutant of CrcOkAt: the checksum is compared in eight bits. *)
CrcLowOkAt(b, p) ==
  Crc16(SubSeq(b, p + 3, p + TotalAt(b, p) - 2)) % 256 = b[p + TotalAt(b, p) - 1]

CrcOkAt(b, p) ==
  Crc16(SubSeq(b, p + 3, p + TotalAt(b, p) - 2)) = GetU16LE(b, p + TotalAt(b, p) - 2)

FrameAt(b, p) == SubSeq(b, p + 1, p + TotalAt(b, p))

(* All the bytes of the candidate at offset p have arrived. *)
CompleteAt(b, p) ==
  /\ p + kFrameOverhead <= Len(b)
  /\ p + TotalAt(b, p) <= Len(b)

(* A whole, well-formed frame of any type starts at offset p. *)
ValidAt(b, p) ==
  /\ CompleteAt(b, p)
  /\ StxAt(b, p)
  /\ VerAt(b, p) = kProtocolVersion
  /\ CrcOkAt(b, p)

(* The bytes that have arrived rule out a frame at offset p, whatever
   follows them. *)
RefutedAt(b, p) ==
  \/ p + 1 <= Len(b) /\ b[p + 1] # kStx0
  \/ p + 2 <= Len(b) /\ b[p + 2] # kStx1
  \/ p + 3 <= Len(b) /\ VerAt(b, p) # kProtocolVersion
  \/ CompleteAt(b, p) /\ ~CrcOkAt(b, p)

-----------------------------------------------------------------------------
(* What the layers above make of these reads. *)

(* FrameParser::next_frame as a function of buf_, for the modules that use
   the parser as a part: FrameParser shows the loop and its theorems that the
   loop does this (its buffer may keep a few bytes that are refuted already). *)
NoFrame == << >>

NextFrame(b) ==
  LET start == CHOOSE p \in 0..Len(b) :
                 /\ p < Len(b) => ~RefutedAt(b, p)
                 /\ \A q \in 0..(p - 1) : RefutedAt(b, q)
      found == start < Len(b) /\ ValidAt(b, start)
      keep  == start + (IF found THEN TotalAt(b, start) ELSE 0)
  IN  [frame |-> IF found THEN FrameAt(b, start) ELSE NoFrame,
       rest  |-> SubSeq(b, keep + 1, Len(b))]

(* The frames next_frame finds, called until nullopt, when all of b is fed at
   once: it stops where a frame may still be arriving. *)
FramesIn(b) ==
  LET found[p \in 0..Len(b)] ==
        IF p = Len(b) THEN << >>
        ELSE IF RefutedAt(b, p) THEN found[p + 1]
        ELSE IF ValidAt(b, p) THEN << FrameAt(b, p) >> \o found[p + TotalAt(b, p)]
        ELSE << >>
  IN  found[0]

(* Mutant of IsDatagramFrame: bytes behind the frame are let through. *)
IsDatagramFrameWithTail(data) ==
  /\ Len(data) >= kFrameOverhead
  /\ Len(data) >= TotalAt(data, 0)
  /\ StxAt(data, 0)
  /\ VerAt(data, 0) = kProtocolVersion
  /\ CrcOkAt(data, 0)

(* UdpFrameLink: the datagram is exactly one frame. *)
IsDatagramFrame(data) ==
  /\ Len(data) >= kFrameOverhead
  /\ Len(data) = TotalAt(data, 0)
  /\ StxAt(data, 0)
  /\ VerAt(data, 0) = kProtocolVersion
  /\ CrcOkAt(data, 0)

(* validateFrameHeader: a frame of this type and payload size; bytes behind
   it are not looked at. *)
ValidateFrameHeader(frame, type, size) ==
  /\ Len(frame) >= kFrameOverhead + size
  /\ StxAt(frame, 0)
  /\ VerAt(frame, 0) = kProtocolVersion
  /\ frame[4] = size
  /\ frame[5] = type
  /\ Crc16(SubSeq(frame, 3, 5 + size)) = GetU16LE(frame, kFrameOverhead + size - 2)

=============================================================================
