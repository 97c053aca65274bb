------------------------------- MODULE Crc16 -------------------------------
(***************************************************************************)
(* crc16 of app/hid_pikvm.c, and the bytes of a keyboard report that it is *)
(* taken of.  The register and a byte are the sets of their bits that are  *)
(* one: exclusive or is the symmetric difference.                          *)
(***************************************************************************)
EXTENDS Naturals, Sequences

Weight == <<1, 2, 4, 8, 16, 32, 64, 128>>

Bits(byte) == {b \in 0 .. 7 : (byte \div Weight[b + 1]) % 2 = 1}

Xor(s, t) == (s \ t) \cup (t \ s)

\* 0xA001
Polinom == {15, 13, 0}

\* Mutant: the register starts at zero.
InitialZero == {}

\* 0xFFFF
Initial == 0 .. 15

ShiftRight(crc) == {b - 1 : b \in crc \ {0}}

\* Mutant: the polynomial is subtracted before the shift.
CrcBitXorFirst(crc) == ShiftRight(IF 0 \in crc THEN Xor(crc, Polinom) ELSE crc)

\* The polynomial is subtracted if the bit shifted out is one.
CrcBit(crc) == IF 0 \in crc THEN Xor(ShiftRight(crc), Polinom) ELSE ShiftRight(crc)

\* Mutant: a bit is left out of every byte.
CrcBitsSeven(crc) ==
  LET after[bit_count \in 0 .. 7] ==
        IF bit_count = 0 THEN crc ELSE CrcBit(after[bit_count - 1])
  IN after[7]

\* The inner loop.
CrcBits(crc) ==
  LET after[bit_count \in 0 .. 8] ==
        IF bit_count = 0 THEN crc ELSE CrcBit(after[bit_count - 1])
  IN after[8]

CrcByte(crc, byte) == CrcBits(Xor(crc, Bits(byte)))

\* The register after each of the bytes.
CrcRun(bytes) ==
  LET after[byte_count \in 0 .. Len(bytes)] ==
        IF byte_count = 0 THEN Initial ELSE CrcByte(after[byte_count - 1], bytes[byte_count])
  IN after

CrcOf(bytes) == CrcRun(bytes)[Len(bytes)]

\* hid_rpt + 1: modifiers, a reserved byte, six keys of which the first is used.
KeyReportBytes(mods, key) == <<mods, 0, key, 0, 0, 0, 0, 0>>
=============================================================================
