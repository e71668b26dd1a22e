---------------------------- MODULE MCStreamLink -----------------------------
(***************************************************************************)
(* StreamLink for TLC: two packet types with payloads of one and two       *)
(* bytes, and lines of frames of the type waited for, of the other type,   *)
(* of the right type with the wrong size, without a payload, and damaged   *)
(* ones, each in two chunks that a call may end between.                   *)
(***************************************************************************)
EXTENDS StreamLink, TLC, Crc

CONSTANT MaxFrames   \* bound: frames on a line

Framed(payload, type) ==
  LET body == << kProtocolVersion, Len(payload), type >> \o payload
  IN  << kStx0, kStx1 >> \o body \o PutU16LE(crc16(body))

Damaged(f) == [f EXCEPT ![Len(f)] = (@ + 1) % 256]

Cmd      == Framed(<< 7 >>, kTypeCmd)
Tele     == Framed(<< 8, 9 >>, kTypeTele)
WideCmd  == Framed(<< 8, 9 >>, kTypeCmd)     \* not the size of a Cmd packet
EmptyCmd == Framed(<< >>, kTypeCmd)          \* no room for a payload

Frames == { Cmd, Tele, WideCmd, EmptyCmd, Damaged(Tele) }

InTwo(f) == << SubSeq(f, 1, 4), SubSeq(f, 5, Len(f)) >>

Joined[n \in 0..MaxFrames] ==
  IF n = 0 THEN { << >> }
  ELSE { l \o InTwo(f) : l \in Joined[n - 1], f \in Frames }

MCLines == Joined[MaxFrames]

MCPayloadSize == kTypeCmd :> 1 @@ kTypeTele :> 2

(* The checksums of the frames, computed once. *)
BodyOf(f) == SubSeq(f, 3, Len(f) - 2)

CrcTable == [m \in { BodyOf(f) : f \in Frames } |-> crc16(m)]

MCCrc16(m) == IF m \in DOMAIN CrcTable THEN CrcTable[m] ELSE crc16(m)

ASSUME FramesAreEncoded == Cmd = EncodeFrame(<< 7 >>, kTypeCmd)

=============================================================================
