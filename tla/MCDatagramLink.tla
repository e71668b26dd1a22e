--------------------------- MODULE MCDatagramLink ----------------------------
(***************************************************************************)
(* DatagramLink for TLC: datagrams that are one frame of either type, of   *)
(* the right type with the wrong size, and those that are no frame: a      *)
(* frame with a byte behind it or one missing, a damaged one, an empty     *)
(* one.                                                                    *)
(***************************************************************************)
EXTENDS DatagramLink, TLC, Crc

CONSTANT MaxMail   \* bound: datagrams sent

Framed(payload, type) ==
  LET body == << kProtocolVersion, Len(payload), type >> \o payload
  IN  << kStx0, kStx1 >> \o body \o PutU16LE(crc16(body))

Cmd     == Framed(<< 7 >>, kTypeCmd)
Tele    == Framed(<< 8, 9 >>, kTypeTele)
WideCmd == Framed(<< 8, 9 >>, kTypeCmd)

Datagrams ==
  { Cmd, Tele, WideCmd, Cmd \o << 255 >>, SubSeq(Cmd, 1, Len(Cmd) - 1),
    [Cmd EXCEPT ![6] = 8], << >> }

MCMail == [1..MaxMail -> Datagrams]

MCPayloadSize == kTypeCmd :> 1 @@ kTypeTele :> 2

(* The checksums the links may ask for, computed once. *)
CrcTable ==
  [m \in { SubSeq(d, 3, TotalAt(d, 0) - 2) :
             d \in { e \in Datagrams : CompleteAt(e, 0) } } |-> crc16(m)]

MCCrc16(m) == IF m \in DOMAIN CrcTable THEN CrcTable[m] ELSE crc16(m)

ASSUME FramesAreEncoded ==
  /\ Cmd = EncodeFrame(<< 7 >>, kTypeCmd)
  /\ Tele = EncodeFrame(<< 8, 9 >>, kTypeTele)

=============================================================================
