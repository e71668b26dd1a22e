--------------------------- MODULE MCFrameParser ----------------------------
(***************************************************************************)
(* FrameParser for TLC: the code's checksum, and streams put together from *)
(* the pieces that meet every branch of next_frame: frames, noise, half    *)
(* start pairs, headers that announce bytes which never come, and damaged  *)
(* frames.  Feed takes every number of bytes, so every way to cut each     *)
(* stream into feeds is explored.                                          *)
(***************************************************************************)
EXTENDS FrameParser, Crc

CONSTANTS
  MaxPieces,    \* a stream is put together from at most this many pieces
  MaxWire       \* and has at most this many bytes

(* A frame of any protocol version; with this one's it is EncodeFrame's. *)
Framed(ver, payload, type) ==
  LET body == << ver, Len(payload), type >> \o payload
  IN  << kStx0, kStx1 >> \o body \o PutU16LE(crc16(body))

Damaged(frame) == [frame EXCEPT ![Len(frame)] = (@ + 1) % 256]

Empty      == Framed(kProtocolVersion, << >>, kTypeCmd)
One        == Framed(kProtocolVersion, << 7 >>, kTypeTele)
StxIn      == Framed(kProtocolVersion, << kStx0, kStx1 >>, kTypeTele)
Nested     == Framed(kProtocolVersion, Empty, kTypeTele)
OldVersion == Framed(1, << >>, kTypeCmd)

Pieces ==
  { Empty, One, StxIn, Nested,
    Damaged(Empty), Damaged(Nested), OldVersion,
    << kStx0 >>,                                    \* half a start pair
    << 9 >>,                                        \* noise
    << kStx0, kStx1, kProtocolVersion, 1, 7 >>,     \* a frame cut short
    << kStx0, kStx1, kProtocolVersion, 200 >> }     \* a header out of noise

Joined[n \in 0..MaxPieces] ==
  IF n = 0 THEN { << >> }
  ELSE { w \o p : w \in Joined[n - 1], p \in Pieces }

MCWires == { w \in UNION { Joined[n] : n \in 1..MaxPieces } : Len(w) <= MaxWire }

(* The checksums next_frame may ask for on these streams, computed once. *)
Bodies ==
  UNION { { SubSeq(w, p + 3, p + TotalAt(w, p) - 2) :
              p \in { q \in 0..(Len(w) - kFrameOverhead) :
                        StxAt(w, q) /\ CompleteAt(w, q) } } : w \in MCWires }

CrcTable == [m \in Bodies |-> crc16(m)]

MCCrc16(m) == IF m \in Bodies THEN CrcTable[m] ELSE crc16(m)

ASSUME PiecesAreEncoded ==
  /\ Empty = EncodeFrame(<< >>, kTypeCmd)
  /\ One = EncodeFrame(<< 7 >>, kTypeTele)
  /\ Nested = EncodeFrame(Empty, kTypeTele)

=============================================================================
