------------------------------ MODULE CrcLoop ------------------------------
(***************************************************************************)
(* The loop of crc16 over the bytes of a keyboard report, and what the     *)
(* handler of keys relies on: last_crc stands for the report sent last,    *)
(* and the value 0 for none.                                               *)
(***************************************************************************)
EXTENDS Integers, Crc16, KeyMap

CONSTANT CommonMods   \* some modifier bytes

\* Besides the left Ctrl and Shift, bits 0 and 1, they have one modifier at most.
ASSUME CommonAssumption ==
  /\ CommonMods \subseteq 0 .. 255
  /\ \A m, n \in CommonMods : \A i, j \in 2 .. 7 : i \in Bits(m) /\ j \in Bits(n) => i = j

VARIABLES mods, code,    \* the modifiers held and the key that is pressed
          byte_count,    \* the bytes gone through
          crc

vars == <<mods, code, byte_count, crc>>

Release == 0

\* The commands that a report is built for, with a modifier byte each: the press of a
\* key that the table knows and that is no modifier, and the release of any.
Presses == {c \in 1 .. 255 : KeyMapUsb(c) \notin ModifierUsage \cup {UndefinedUsage}}

Report(m, c) == IF c = Release THEN KeyReportBytes(0, 0) ELSE KeyReportBytes(m, KeyMapUsb(c))

Init == /\ mods \in 0 .. 255 /\ code \in Presses \cup {Release}
        /\ byte_count = 0
        /\ crc = Initial

Step == /\ byte_count < 8
        /\ crc' = CrcByte(crc, Report(mods, code)[byte_count + 1])
        /\ byte_count' = byte_count + 1
        /\ UNCHANGED <<mods, code>>

Next == Step

Spec == Init /\ [][Next]_vars

Done == byte_count = 8

-----------------------------------------------------------------------------
(* The checksum as its standard defines it: a remainder of polynomials     *)
(* over GF(2), written as the sets of their exponents.  The first bit, the *)
(* lowest of the first byte, has the highest exponent; the first 16 bits   *)
(* are complemented.                                                       *)

Generator == {16, 15, 2, 0}

\* The bits of the message that are one, in the order they are sent.
Ones(bytes) == {i \in 0 .. 8 * Len(bytes) - 1 : i % 8 \in Bits(bytes[(i \div 8) + 1])}

Message(bytes) ==
  LET top == 8 * Len(bytes) + 15
  IN Xor({top - i : i \in Ones(bytes)}, {top - i : i \in 0 .. 15})

Reduce(p, e) == IF e \in p THEN Xor(p, {g + e - 16 : g \in Generator}) ELSE p

\* The message, reduced by one exponent after the other, from the highest down to 16.
Reductions(bytes) ==
  LET after[i \in 0 .. 8 * Len(bytes)] ==
        IF i = 0 THEN Message(bytes) ELSE Reduce(after[i - 1], 8 * Len(bytes) + 16 - i)
  IN after

Remainder(bytes) == Reductions(bytes)[8 * Len(bytes)]

\* The loop computes the remainder (hid_pikvm.c:124-140).
CrcIsRemainder == Done => {15 - b : b \in crc} = Remainder(Report(mods, code))

\* No report has the checksum that stands for none (hid_pikvm.c:181, 310).
NoneIsFree == Done => crc # {}

\* Key presses with common modifiers only, and the release, are told apart by their
\* checksums, from the code that comes over the line to what last_crc remembers: no two
\* codes have one usage, and no press is taken for a repetition of another or of a
\* release (hid_pikvm.c:11-122, 304-307).
CommonSums == {<<CrcOf(Report(m, c)), m, c>> : m \in CommonMods, c \in Presses}
                \cup {<<CrcOf(Report(0, Release)), m, Release>> : m \in CommonMods}

CommonToldApart ==
  Done /\ mods \in CommonMods =>
    \A s \in CommonSums :
      s[1] = crc => s[3] = code /\ (code # Release => s[2] = mods)
=============================================================================
