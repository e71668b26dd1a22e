-------------------------------- MODULE Crc ---------------------------------
(***************************************************************************)
(* crc16 of src/protocol.cpp: CRC-16/MODBUS, register of 16 bits, initial  *)
(* value FFFF, reflected polynomial A001, one shift per bit; and the same  *)
(* written again in Python, in tools/golden_gen.py.                        *)
(***************************************************************************)
EXTENDS Integers, Sequences, Bitwise

kCrcInit == 65535
kCrcPoly == 40961

(* One turn of the inner loop. *)
CrcShift(crc) ==
  IF crc % 2 = 1 THEN (crc \div 2) ^^ kCrcPoly ELSE crc \div 2

(* The inner loop: k shifts to go.  The register is an argument of the loops'
   functions, as it is the loops' variable in the code. *)
CrcByte(crc, byte) ==
  LET shift[k \in 0..8, c \in 0..65535] ==
        IF k = 0 THEN c ELSE shift[k - 1, CrcShift(c)]
  IN  shift[8, crc ^^ byte]

(* The outer loop: n is the offset of the next byte. *)
crc16(data) ==
  LET mix[n \in 0..Len(data), c \in 0..65535] ==
        IF n = Len(data) THEN c ELSE mix[n + 1, CrcByte(c, data[n + 1])]
  IN  mix[0, kCrcInit]

(* crc16 of golden_gen.py: Python's integers have no width, what is returned has. *)
golden_crc16(data) ==
  LET bits[k \in 0..8, crc \in 0..65535] ==
        IF k = 8 THEN crc
        ELSE bits[k + 1, IF crc % 2 = 1 THEN (crc \div 2) ^^ 40961 ELSE crc \div 2]
      bytes[n \in 1..(Len(data) + 1), crc \in 0..65535] ==
        IF n > Len(data) THEN crc ELSE bytes[n + 1, bits[0, crc ^^ data[n]]]
  IN  bytes[1, 65535] % 65536

=============================================================================
