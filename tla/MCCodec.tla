------------------------------- MODULE MCCodec -------------------------------
(***************************************************************************)
(* Codec for TLC: packets whose payload bytes are all different, so that a *)
(* field that is read or written one byte off is seen, once counting up    *)
(* from 1 and once down from 255 (bytes and halves with their top bit set).*)
(***************************************************************************)
EXTENDS Codec, Crc

(* The value whose payload bytes are at(0), at(1), ... *)
Filled(kind, at(_)) ==
  LET fields == Fields[kind]
      offset == ComputeLayout(fields)
      half(o) == at(o) + 256 * at(o + 1)
      index(name) == CHOOSE i \in 1..Len(fields) : fields[i].name = name
  IN  [kind |-> kind,
       value |->
         [name \in { fields[i].name : i \in 1..Len(fields) } |->
            LET i == index(name)
            IN  [j \in 1..fields[i].count |->
                   IF fields[i].type = "u8" THEN at(offset[i] + j - 1)
                   ELSE << half(offset[i] + 4 * (j - 1)), half(offset[i] + 4 * (j - 1) + 2) >>]]]

Up(o)   == o + 1
Down(o) == 255 - o

(* The packet that is taken for a command when two of its frame's bytes change:
   percent is where the checksum of the shorter frame is looked for. *)
Chameleon ==
  LET head == << kProtocolVersion, kCmdPayloadSize, kTypeCmd >>
      crc  == crc16(head \o [i \in 1..kCmdPayloadSize |-> Up(i - 1)])
  IN  [Filled("Tele", Up) EXCEPT !.value.percent = << << crc, 0 >> >>]

MCPackets ==
  { Filled(kind, Up) : kind \in Kinds } \union { Filled(kind, Down) : kind \in Kinds }
    \union {Chameleon}

(* One bit up, one down, and 180 and 255 in a row: from a telemetry packet's
   length and type bytes to a command's. *)
MCDeltas == {1, 180, 255}

MCTails == { << 0 >>, << kStx0, kStx1 >> }

(* The check value of CRC-16/MODBUS (tests/test_protocol.cpp, generated/docs):
   the checksum of the characters "123456789". *)
ASSUME KnownAnswer ==
  LET digits == [i \in 1..9 |-> 48 + i]
  IN  crc16(digits) = 19255 /\ golden_crc16(digits) = 19255

ShortStrings == UNION { [1..n -> {0, 1, 128, 255}] : n \in 1..3 }

(* What the theorems about damage and about the golden vectors ask of the checksums,
   on short strings. *)
ASSUME BurstsAreDetected  == DetectsBursts(ShortStrings)
ASSUME ChecksumsAreTheSame == \A m \in ShortStrings : golden_crc16(m) = crc16(m)

=============================================================================
