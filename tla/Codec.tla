-------------------------------- MODULE Codec --------------------------------
(***************************************************************************)
(* encodeCmd, encodeTele, decodeCmd and decodeTele of src/protocol.cpp.    *)
(* They do not use the generated offsets: the encoders write the fields in *)
(* an order, and the decoders read them at offsets, that are written by    *)
(* hand.  One packet is encoded, its frame may be hurt on the way, and a   *)
(* receiver decodes it as either packet.                                   *)
(*                                                                         *)
(* A field's value is the sequence of its elements, a float the two halves *)
(* of its bit pattern, the low one first.                                  *)
(***************************************************************************)
EXTENDS Protocol, Layout, Artifacts

CONSTANTS
  SentPackets, \* the packets that are sent: [kind, value], value by field name
  Deltas,      \* what is added to a byte that is hurt
  Tails        \* bytes that may follow a frame

Kinds == {"Cmd", "Tele"}

Fields == [Cmd |-> CmdFields, Tele |-> TeleFields]
TypeByte == [Cmd |-> kTypeCmd, Tele |-> kTypeTele]

kCmdPayloadSize  == 52
kTelePayloadSize == 128
PayloadSize == [Cmd |-> kCmdPayloadSize, Tele |-> kTelePayloadSize]

FieldNames(kind) == { Fields[kind][i].name : i \in 1..Len(Fields[kind]) }

(* The values an element of a field can have: the types of protocol.hpp. *)
Element(type) == IF type = "u8" THEN Byte ELSE Word \X Word

(* A value of every field, with as many elements as the schema says. *)
ValueOK(kind, value) ==
  /\ value = [name \in FieldNames(kind) |-> value[name]]
  /\ \A i \in 1..Len(Fields[kind]) :
       LET field == Fields[kind][i]
       IN  value[field.name] \in [1..field.count -> Element(field.type)]

ASSUME CodecAssumption ==
  /\ \A p \in SentPackets : p.kind \in Kinds /\ ValueOK(p.kind, p.value)
  /\ Deltas \subseteq 1..255
  /\ Tails \subseteq Seq(Byte)

-----------------------------------------------------------------------------
(* Encoding: the order of the put calls. *)
CmdPuts == <<
  "mode", "armed", "reserved", "surge", "sway", "heave", "yaw", "target_depth",
  "target_heading", "target_north", "target_east", "reserved_tail" >>

TelePuts == <<
  "roll", "pitch", "heading", "yaw_rate", "depth", "altitude", "north", "east",
  "vn", "ve", "vd", "voltage", "current", "percent", "temperature", "water_temp",
  "salinity", "pressure_bar", "cable_tension", "thr", "leak", "armed", "mode",
  "reserved", "reserved_tail" >>

Puts == [Cmd |-> CmdPuts, Tele |-> TelePuts]

FieldNamed(kind, name) ==
  Fields[kind][CHOOSE i \in 1..Len(Fields[kind]) : Fields[kind][i].name = name]

(* Mutant of PutF32LE: the high half is written first. *)
PutF32HighFirst(v) == PutU16LE(v[2]) \o PutU16LE(v[1])

PutF32LE(v) == PutU16LE(v[1]) \o PutU16LE(v[2])

PutElement(type, v) == IF type = "u8" THEN << v >> ELSE PutF32LE(v)

PutField(kind, name, value) ==
  FlattenSeq([j \in 1..Len(value) |-> PutElement(FieldNamed(kind, name).type, value[j])])

Encode(kind, value) ==
  EncodeFrame(
    FlattenSeq([i \in 1..Len(Puts[kind]) |->
                  PutField(kind, Puts[kind][i], value[Puts[kind][i]])]),
    TypeByte[kind])

-----------------------------------------------------------------------------
(* Mutant of CmdGets: the last two floats are read from each other's place. *)
CmdGetsSwapped == [
  mode |-> 0, armed |-> 1, reserved |-> 2, surge |-> 4, sway |-> 8, heave |-> 12,
  yaw |-> 16, target_depth |-> 20, target_heading |-> 24, target_north |-> 32,
  target_east |-> 28, reserved_tail |-> 36 ]

(* Decoding: the offsets of the get calls, in the payload. *)
CmdGets == [
  mode |-> 0, armed |-> 1, reserved |-> 2, surge |-> 4, sway |-> 8, heave |-> 12,
  yaw |-> 16, target_depth |-> 20, target_heading |-> 24, target_north |-> 28,
  target_east |-> 32, reserved_tail |-> 36 ]

TeleGets == [
  roll |-> 0, pitch |-> 4, heading |-> 8, yaw_rate |-> 12, depth |-> 16,
  altitude |-> 20, north |-> 24, east |-> 28, vn |-> 32, ve |-> 36, vd |-> 40,
  voltage |-> 44, current |-> 48, percent |-> 52, temperature |-> 56,
  water_temp |-> 60, salinity |-> 64, pressure_bar |-> 68, cable_tension |-> 72,
  thr |-> 76, leak |-> 108, armed |-> 109, mode |-> 110, reserved |-> 111,
  reserved_tail |-> 112 ]

Gets == [Cmd |-> CmdGets, Tele |-> TeleGets]

kHeader == 5     \* bytes in front of the payload

GetF32LE(b, off) == << GetU16LE(b, off), GetU16LE(b, off + 2) >>

(* The elements of a field that starts at offset off of a byte string. *)
Elements(field, b, off) ==
  [j \in 1..field.count |->
     IF field.type = "u8" THEN b[off + j] ELSE GetF32LE(b, off + 4 * (j - 1))]

GetField(kind, name, f) ==
  Elements(FieldNamed(kind, name), f, kHeader + Gets[kind][name])

Nothing == [none |-> TRUE]    \* nullopt

(* Mutant of Decode: the checks of the header are left out. *)
DecodeUnchecked(kind, f) ==
  IF Len(f) >= kFrameOverhead + PayloadSize[kind]
  THEN [name \in DOMAIN Gets[kind] |-> GetField(kind, name, f)]
  ELSE Nothing

Decode(kind, f) ==
  IF ValidateFrameHeader(f, TypeByte[kind], PayloadSize[kind])
  THEN [name \in DOMAIN Gets[kind] |-> GetField(kind, name, f)]
  ELSE Nothing

-----------------------------------------------------------------------------
VARIABLES
  packet,    \* what is sent
  frame,     \* the bytes on their way, << >> before it is encoded
  hurt,      \* history: "no", "bytes" changed, "short", "tail" behind it
  reader,    \* the kind the receiver decoded it as, "nobody" before
  out        \* what decoding gave

codecVars == << packet, frame, hurt, reader, out >>

CodecInit ==
  /\ packet \in SentPackets
  /\ frame = << >> /\ hurt = "no" /\ reader = "nobody" /\ out = Nothing

Sent ==
  /\ frame = << >>
  /\ frame' = Encode(packet.kind, packet.value)
  /\ UNCHANGED << packet, hurt, reader, out >>

OnItsWay == frame # << >> /\ hurt = "no" /\ reader = "nobody"

(* One byte is changed, or two neighbours. *)
Damaged(f, i, d, e) ==
  [j \in 1..Len(f) |-> IF j = i THEN (f[j] + d) % 256
                       ELSE IF j = i + 1 THEN (f[j] + e) % 256
                       ELSE f[j]]

Damage(i, d, e) ==
  /\ OnItsWay
  /\ i \in 1..Len(frame) /\ (e = 0 \/ i < Len(frame))
  /\ frame' = Damaged(frame, i, d, e)
  /\ hurt' = "bytes"
  /\ UNCHANGED << packet, reader, out >>

Shorten(n) ==
  /\ OnItsWay
  /\ frame' = SubSeq(frame, 1, n)
  /\ hurt' = "short"
  /\ UNCHANGED << packet, reader, out >>

Lengthen(tail) ==
  /\ OnItsWay
  /\ frame' = frame \o tail
  /\ hurt' = "tail"
  /\ UNCHANGED << packet, reader, out >>

Received(kind) ==
  /\ frame # << >> /\ reader = "nobody"
  /\ reader' = kind
  /\ out' = Decode(kind, frame)
  /\ UNCHANGED << packet, frame, hurt >>

CodecNext ==
  \/ Sent
  \/ \E i \in 1..Len(frame), d \in Deltas, e \in Deltas \union {0} : Damage(i, d, e)
  \/ \E n \in 1..(Len(frame) - 1) : Shorten(n)
  \/ \E tail \in Tails : Lengthen(tail)
  \/ \E kind \in Kinds : Received(kind)

CodecSpec == CodecInit /\ [][CodecNext]_codecVars

-----------------------------------------------------------------------------
InOrder == frame # << >> /\ hurt = "no"

Holds(b, field, off) == Elements(field, b, kHeader + off) = packet.value[field.name]

(* The frame on its way has the size its length byte says, and every field is
   where codegen.py's layout and the offset constants of protocol.hpp say: the
   encoders' order and the sizes of their elements agree with both. *)
FieldsWhereTheSchemaSays ==
  InOrder =>
    LET fields == Fields[packet.kind]
        offset == ComputeLayout(fields)
        named  == IF packet.kind = "Cmd" THEN kCmdPacketOffset ELSE kTelemetryPacketOffset
    IN  /\ Len(frame) = kFrameOverhead + PacketSize(fields)
        /\ frame[4] = PacketSize(fields)
        /\ \A i \in 1..Len(fields) :
             Holds(frame, fields[i], offset[i]) /\ Holds(frame, fields[i], named[fields[i].name])

(* The firmware, built with ou_protocol.h alone, reads every field of every
   packet the host encodes, by the header's packed struct and by its offset
   macros: the checked-in C header is not behind the schema or src/. *)
FirmwareReadsThePacket ==
  InOrder =>
    LET kind   == packet.kind
        struct == IF kind = "Cmd" THEN CmdPacketStruct ELSE TelemetryPacketStruct
        macro  == IF kind = "Cmd" THEN OU_CMDPACKET_OFFSET ELSE OU_TELEMETRYPACKET_OFFSET
        size   == OU_FRAME.PAYLOAD_SIZE[kind]
    IN  /\ SubSeq(frame, 1, kHeader) =
             << OU_FRAME.STX0, OU_FRAME.STX1, OU_FRAME.PROTOCOL_VERSION, size, OU_FRAME.TYPE[kind] >>
        /\ Len(frame) = OU_FRAME.FRAME_OVERHEAD + size
        /\ OffsetOf(struct)[Len(struct) + 1] = size
        /\ \A i \in 1..Len(struct) :
             LET field == FieldNamed(kind, struct[i][1])
             IN  /\ SizeOf(field) = struct[i][2]
                 /\ Holds(frame, field, OffsetOf(struct)[i])
                 /\ Holds(frame, field, macro[field.name])

(* CONTRIBUTING.md: golden is the test anchor.  For every packet, not only the
   two of golden.h, golden_gen.py's encoder, which shares no code with src/,
   makes the frame encodeCmd and encodeTele make. *)
GoldenIsEncoded ==
  InOrder =>
    frame = BuildFrame(BuildPayload(Fields[packet.kind], packet.value), TypeByte[packet.kind])

(* A frame that arrives as it was sent, also with bytes behind it, decodes to
   every field of the packet that was encoded, and never as the other packet:
   the decoders' offsets are those the encoders' order gives. *)
RoundTrip ==
  reader # "nobody" /\ hurt \in {"no", "tail"} =>
    out = IF reader = packet.kind THEN packet.value ELSE Nothing

(* A telemetry frame whose length and type bytes were both changed to a command's:
   where the checksum of the shorter frame is looked for, there is payload. *)
TakenForCmd ==
  /\ packet.kind = "Tele" /\ reader = "Cmd" /\ hurt = "bytes"
  /\ frame[4] = kCmdPayloadSize /\ frame[5] = kTypeCmd

(* A frame that was cut short, or damaged in a byte or in two neighbours, start
   bytes, length, type and checksum included, decodes as neither packet, save for
   a telemetry frame that is taken for a command. *)
DamageIsDetected ==
  reader # "nobody" /\ hurt \in {"bytes", "short"} => out = Nothing \/ TakenForCmd

(* What a checksum has to do for that, on the strings of S: tell two strings apart
   that differ in a byte or in two neighbours; and where the change is in the last
   byte, by its high half, for the low one may have been changed with it. *)
DetectsBursts(S) ==
  \A m, w \in S : Len(m) = Len(w) =>
    /\ \A i \in 1..Len(m) :
         m[i] # w[i] /\ (\A j \in 1..Len(m) : j # i /\ j # i + 1 => m[j] = w[j])
           => Crc16(m) # Crc16(w)
    /\ \A i \in 1..Len(m) :
         m[i] # w[i] /\ i = Len(m) /\ (\A j \in 1..(i - 1) : m[j] = w[j])
           => Crc16(m) \div 256 # Crc16(w) \div 256

=============================================================================
