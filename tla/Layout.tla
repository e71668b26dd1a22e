------------------------------- MODULE Layout --------------------------------
(***************************************************************************)
(* The two packets of schema/protocol.yaml and where codegen.py puts their *)
(* fields (tools/codegen.py, compute_layout): one behind the other, in the *)
(* order of the schema, without padding.  The generated C header makes a   *)
(* packed struct of the same fields in the same order, which is what the   *)
(* firmware reads and writes.                                              *)
(***************************************************************************)
EXTENDS Integers, Sequences

U8(name, count)  == [name |-> name, type |-> "u8", count |-> count]
F32(name, count) == [name |-> name, type |-> "f32", count |-> count]

CmdFields == <<
  U8("mode", 1), U8("armed", 1), U8("reserved", 2),
  F32("surge", 1), F32("sway", 1), F32("heave", 1), F32("yaw", 1),
  F32("target_depth", 1), F32("target_heading", 1),
  F32("target_north", 1), F32("target_east", 1),
  U8("reserved_tail", 16) >>

TeleFields == <<
  F32("roll", 1), F32("pitch", 1), F32("heading", 1), F32("yaw_rate", 1),
  F32("depth", 1), F32("altitude", 1), F32("north", 1), F32("east", 1),
  F32("vn", 1), F32("ve", 1), F32("vd", 1),
  F32("voltage", 1), F32("current", 1), F32("percent", 1),
  F32("temperature", 1), F32("water_temp", 1), F32("salinity", 1),
  F32("pressure_bar", 1), F32("cable_tension", 1),
  F32("thr", 8),
  U8("leak", 1), U8("armed", 1), U8("mode", 1), U8("reserved", 1),
  U8("reserved_tail", 16) >>

TYPE_SIZE == [u8 |-> 1, f32 |-> 4]

SizeOf(field) == TYPE_SIZE[field.type] * field.count

(* Mutant of ComputeLayout: an array advances the offset by one element. *)
ComputeLayoutByElement(fields) ==
  LET offset[i \in 1..(Len(fields) + 1)] ==
        IF i = 1 THEN 0 ELSE offset[i - 1] + TYPE_SIZE[fields[i - 1].type]
  IN  offset

(* The offset of each field, and at the end the size of the packet. *)
ComputeLayout(fields) ==
  LET offset[i \in 1..(Len(fields) + 1)] ==
        IF i = 1 THEN 0 ELSE offset[i - 1] + SizeOf(fields[i - 1])
  IN  offset

PacketSize(fields) == ComputeLayout(fields)[Len(fields) + 1]

=============================================================================
