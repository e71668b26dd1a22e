----------------------------- MODULE Artifacts ------------------------------
(***************************************************************************)
(* What is checked in under generated/, as it stands there: the constants  *)
(* and offsets of ou/protocol.hpp, the macros and packed structs of        *)
(* ou_protocol.h, which the firmware is built with; and golden_gen.py's    *)
(* encoder, which does not use src/.  They are copies: nothing in the      *)
(* build makes them anew when schema/protocol.yaml changes.                *)
(***************************************************************************)
EXTENDS Layout, SequencesExt

CONSTANT GoldenCrc(_)   \* golden_gen.py's crc16

(* ou/protocol.hpp: kCmdPacket...Offset, kTelemetryPacket...Offset *)
kCmdPacketOffset == [
  mode |-> 0, armed |-> 1, reserved |-> 2, surge |-> 4, sway |-> 8, heave |-> 12,
  yaw |-> 16, target_depth |-> 20, target_heading |-> 24, target_north |-> 28,
  target_east |-> 32, reserved_tail |-> 36 ]

kTelemetryPacketOffset == [
  roll |-> 0, pitch |-> 4, heading |-> 8, yaw_rate |-> 12, depth |-> 16,
  altitude |-> 20, north |-> 24, east |-> 28, vn |-> 32, ve |-> 36, vd |-> 40,
  voltage |-> 44, current |-> 48, percent |-> 52, temperature |-> 56,
  water_temp |-> 60, salinity |-> 64, pressure_bar |-> 68, cable_tension |-> 72,
  thr |-> 76, leak |-> 108, armed |-> 109, mode |-> 110, reserved |-> 111,
  reserved_tail |-> 112 ]

-----------------------------------------------------------------------------
(* ou_protocol.h *)
OU_FRAME ==
  [STX0 |-> 170, STX1 |-> 85, PROTOCOL_VERSION |-> 2, FRAME_OVERHEAD |-> 7,
   TYPE |-> [Cmd |-> 1, Tele |-> 2], PAYLOAD_SIZE |-> [Cmd |-> 52, Tele |-> 128]]

(* Mutant of OU_CMDPACKET_OFFSET: a header from before the two targets moved. *)
OU_CMDPACKET_OFFSET_STALE == [
  mode |-> 0, armed |-> 1, reserved |-> 2, surge |-> 4, sway |-> 8, heave |-> 12,
  yaw |-> 16, target_depth |-> 20, target_heading |-> 24, target_north |-> 32,
  target_east |-> 28, reserved_tail |-> 36 ]

OU_CMDPACKET_OFFSET == [
  mode |-> 0, armed |-> 1, reserved |-> 2, surge |-> 4, sway |-> 8, heave |-> 12,
  yaw |-> 16, target_depth |-> 20, target_heading |-> 24, target_north |-> 28,
  target_east |-> 32, reserved_tail |-> 36 ]

OU_TELEMETRYPACKET_OFFSET == [
  roll |-> 0, pitch |-> 4, heading |-> 8, yaw_rate |-> 12, depth |-> 16,
  altitude |-> 20, north |-> 24, east |-> 28, vn |-> 32, ve |-> 36, vd |-> 40,
  voltage |-> 44, current |-> 48, percent |-> 52, temperature |-> 56,
  water_temp |-> 60, salinity |-> 64, pressure_bar |-> 68, cable_tension |-> 72,
  thr |-> 76, leak |-> 108, armed |-> 109, mode |-> 110, reserved |-> 111,
  reserved_tail |-> 112 ]

(* The packed structs: the size of each member, in their order. *)
CmdPacketStruct == <<
  << "mode", 1 >>, << "armed", 1 >>, << "reserved", 2 >>, << "surge", 4 >>,
  << "sway", 4 >>, << "heave", 4 >>, << "yaw", 4 >>, << "target_depth", 4 >>,
  << "target_heading", 4 >>, << "target_north", 4 >>, << "target_east", 4 >>,
  << "reserved_tail", 16 >> >>

TelemetryPacketStruct == <<
  << "roll", 4 >>, << "pitch", 4 >>, << "heading", 4 >>, << "yaw_rate", 4 >>,
  << "depth", 4 >>, << "altitude", 4 >>, << "north", 4 >>, << "east", 4 >>,
  << "vn", 4 >>, << "ve", 4 >>, << "vd", 4 >>, << "voltage", 4 >>,
  << "current", 4 >>, << "percent", 4 >>, << "temperature", 4 >>,
  << "water_temp", 4 >>, << "salinity", 4 >>, << "pressure_bar", 4 >>,
  << "cable_tension", 4 >>, << "thr", 32 >>, << "leak", 1 >>, << "armed", 1 >>,
  << "mode", 1 >>, << "reserved", 1 >>, << "reserved_tail", 16 >> >>

(* Where the compiler puts the i-th member of a packed struct, and behind the
   last one its size. *)
OffsetOf(struct) ==
  LET offset[i \in 1..(Len(struct) + 1)] ==
        IF i = 1 THEN 0 ELSE offset[i - 1] + struct[i - 1][2]
  IN  offset

-----------------------------------------------------------------------------
(* golden_gen.py.  A value is the sequence of its elements, a float the two
   halves of its bit pattern, the low one first. *)

(* Mutant of Pack: struct.pack without the "<", on a big-endian machine. *)
PackNative(type, v) ==
  IF type = "u8" THEN << v >>
  ELSE << v[2] \div 256, v[2] % 256, v[1] \div 256, v[1] % 256 >>

Pack(type, v) ==
  IF type = "u8" THEN << v >>
  ELSE << v[1] % 256, v[1] \div 256, v[2] % 256, v[2] \div 256 >>

BuildPayload(fields, values) ==
  FlattenSeq([i \in 1..Len(fields) |->
    FlattenSeq([j \in 1..fields[i].count |->
                  Pack(fields[i].type, values[fields[i].name][j])])])

BuildFrame(payload, frame_type) ==
  LET version == 2      \* written here, not read from the schema
      body    == << version, Len(payload), frame_type >> \o payload
      crc     == GoldenCrc(body)
  IN  << 170, 85 >> \o body \o << crc % 256, crc \div 256 >>

=============================================================================
