---------------------------- MODULE CrcLoopProofs ----------------------------
(***************************************************************************)
(* The loop of crc16 computes CrcOf, no report has the checksum that       *)
(* stands for none, and the keys with common modifiers are told apart, for *)
(* every choice of these.                                                  *)
(***************************************************************************)
EXTENDS CrcLoop, DataLemmas

-----------------------------------------------------------------------------
(* The table of the keys.                                                  *)

LEMMA InRun ==
  ASSUME NEW c \in Int, NEW r \in KeyRuns, c \in r[1] .. r[2]
  PROVE  KeyMapUsb(c) = r[3] + (c - r[1])
<1>1. \A s \in KeyRuns : c \in s[1] .. s[2] => s = r
  BY DEF KeyRuns
<1>2. (CHOOSE s \in KeyRuns : c \in s[1] .. s[2]) = r
  BY <1>1
<1> QED BY <1>2 DEF KeyMapUsb

\* What a press sends, from the code of its key.
LEMMA PressUsage ==
  ASSUME NEW c \in Presses
  PROVE  /\ c \in 1 .. 255
         /\ \/ c \in 1 .. 46 /\ KeyMapUsb(c) = 4 + (c - 1)
            \/ c \in 47 .. 66 /\ KeyMapUsb(c) = 51 + (c - 47)
            \/ c \in 67 .. 76 /\ KeyMapUsb(c) = 73 + (c - 67)
            \/ c \in 85 .. 85 /\ KeyMapUsb(c) = 72 + (c - 85)
            \/ c \in 86 .. 86 /\ KeyMapUsb(c) = 71 + (c - 86)
            \/ c \in 87 .. 87 /\ KeyMapUsb(c) = 83 + (c - 87)
            \/ c \in 88 .. 88 /\ KeyMapUsb(c) = 101 + (c - 88)
            \/ c \in 89 .. 104 /\ KeyMapUsb(c) = 84 + (c - 89)
            \/ c \in 105 .. 105 /\ KeyMapUsb(c) = 102 + (c - 105)
            \/ c \in 106 .. 106 /\ KeyMapUsb(c) = 100 + (c - 106)
<1>1. c \in 1 .. 255 /\ KeyMapUsb(c) \notin ModifierUsage /\ KeyMapUsb(c) # UndefinedUsage
  BY DEF Presses
<1>2. PICK r \in KeyRuns : c \in r[1] .. r[2]
  BY <1>1 DEF KeyMapUsb
<1>3. KeyMapUsb(c) = r[3] + (c - r[1])
  BY <1>1, <1>2, InRun
<1>4. r # <<77, 84, 224>>
  BY <1>1, <1>2, <1>3 DEF ModifierUsage
<1> QED BY <1>1, <1>2, <1>3, <1>4 DEF KeyRuns

LEMMA UsageTells ==
  ASSUME NEW c \in Presses, NEW d \in Presses
  PROVE  /\ KeyMapUsb(c) \in 1 .. 255
         /\ KeyMapUsb(c) = KeyMapUsb(d) => c = d
<1>1. KeyMapUsb(c) \in 1 .. 255
  BY PressUsage
<1>2. ASSUME KeyMapUsb(c) = KeyMapUsb(d) PROVE c = d
  BY <1>2, PressUsage
<1> QED BY <1>1, <1>2

-----------------------------------------------------------------------------
(* The loop.                                                               *)

\* The bytes of a report: a modifier byte and a key.
SentMods(m, c) == IF c = Release THEN 0 ELSE m
SentKey(c) == IF c = Release THEN 0 ELSE KeyMapUsb(c)

LEMMA ReportOf ==
  ASSUME NEW m, NEW c
  PROVE  /\ Report(m, c) = KeyReportBytes(SentMods(m, c), SentKey(c))
         /\ Len(Report(m, c)) = 8
  BY DEF Report, SentMods, SentKey, KeyReportBytes

\* The register holds what crc16 makes of the bytes gone through.
LoopInv ==
  /\ mods \in 0 .. 255 /\ code \in Presses \cup {Release} /\ byte_count \in 0 .. 8
  /\ crc = CrcRun(Report(mods, code))[byte_count]

LEMMA LoopKeeps ==
  /\ Init => LoopInv
  /\ LoopInv /\ [Next]_vars => LoopInv'
<1>1. ASSUME Init PROVE LoopInv
  <2> DEFINE b == Report(mods, code)
  <2>1. Len(b) = 8
    BY ReportOf
  <2> HIDE DEF b
  <2>2. CrcRun(b)[0] = Initial
    BY <2>1, CrcRunSteps
  <2> QED BY <1>1, <2>2 DEF Init, LoopInv, b
<1>2. ASSUME LoopInv, Step PROVE LoopInv'
  <2> DEFINE b == Report(mods, code)
  <2>1. Len(b) = 8
    BY ReportOf
  <2>2. byte_count + 1 \in 1 .. 8 /\ (byte_count + 1) - 1 = byte_count
    BY <1>2 DEF LoopInv, Step
  <2>3. CrcRun(b)[byte_count + 1] = CrcByte(CrcRun(b)[byte_count], b[byte_count + 1])
    <3>1. Len(b) \in Nat /\ byte_count + 1 \in 1 .. Len(b)
      BY <2>1, <2>2
    <3> HIDE DEF b
    <3> QED BY <2>2, <3>1, CrcRunSteps
  <2>4. crc' = CrcRun(b)[byte_count'] /\ UNCHANGED <<mods, code>> /\ byte_count' = byte_count + 1
    BY <1>2, <2>3 DEF LoopInv, Step
  <2> QED BY <1>2, <2>2, <2>4 DEF LoopInv
<1>3. ASSUME LoopInv, UNCHANGED vars PROVE LoopInv'
  BY <1>3 DEF vars, LoopInv
<1> QED BY <1>1, <1>2, <1>3 DEF Next

LEMMA DoneIsSum ==
  ASSUME LoopInv, Done
  PROVE  crc = CrcOf(KeyReportBytes(SentMods(mods, code), SentKey(code)))
<1> DEFINE b == Report(mods, code)
<1>1. Len(b) = 8 /\ b = KeyReportBytes(SentMods(mods, code), SentKey(code))
  BY ReportOf
<1>2. crc = CrcRun(b)[8]
  BY DEF LoopInv, Done
<1> HIDE DEF b
<1>3. CrcOf(b) = CrcRun(b)[Len(b)]
  <2>1. Len(b) \in Nat
    BY <1>1
  <2> QED BY <2>1, CrcRunSteps
<1> QED BY <1>1, <1>2, <1>3

\* No report has the checksum that stands for none: a released key is never taken to have
\* been sent before.
THEOREM NoneStandsForNone == Spec => []NoneIsFree
<1>1. LoopInv => NoneIsFree
  BY DoneIsSum, SumsAreNotNone DEF NoneIsFree
<1> QED BY <1>1, LoopKeeps, PTL DEF Spec

\* Two of the common reports with one checksum are of one key, with the same modifiers.
LEMMA CommonSumsTell ==
  ASSUME NEW m \in CommonMods, NEW c \in Presses \cup {Release},
         NEW n \in CommonMods, NEW d \in Presses \cup {Release},
         CrcOf(Report(m, c)) = CrcOf(Report(n, d))
  PROVE  c = d /\ (d # Release => m = n)
<1> DEFINE mm == SentMods(m, c)
           nn == SentMods(n, d)
           k == SentKey(c)
           l == SentKey(d)
<1>1. mm \in 0 .. 255 /\ nn \in 0 .. 255
  BY CommonAssumption DEF SentMods
<1>2. /\ k \in 0 .. 255 /\ l \in 0 .. 255
      /\ k = l => c = d
  BY UsageTells DEF SentKey, Release
<1>3. \A i, j \in 2 .. 7 : i \in Differing(mm, nn) /\ j \in Differing(mm, nn) => i = j
  <2>1. Bits(mm) = {} \/ mm = m
    BY NoBits DEF SentMods
  <2>2. Bits(nn) = {} \/ nn = n
    BY NoBits DEF SentMods
  <2>3. Differing(mm, nn) \subseteq Bits(mm) \cup Bits(nn)
    BY DEF Differing, Xor
  <2> HIDE DEF mm, nn
  <2>4. Bits(mm) \subseteq Bits(m) /\ Bits(nn) \subseteq Bits(n)
    BY <2>1, <2>2
  <2> QED BY <2>3, <2>4, CommonAssumption
<1>4. CrcOf(KeyReportBytes(mm, k)) = CrcOf(KeyReportBytes(nn, l))
  BY ReportOf
<1> HIDE DEF mm, nn, k, l
<1>5. mm = nn /\ k = l
  BY <1>1, <1>2, <1>3, <1>4, CollisionsDiffer DEF MayCollide
<1>6. c = d
  BY <1>2, <1>5
<1>7. d # Release => m = n
  BY <1>5, <1>6 DEF mm, nn, SentMods
<1> QED BY <1>6, <1>7

\* The presses of keys with common modifiers, and the release, are told apart, whichever
\* modifiers are the common ones: left Ctrl, left Shift and one other.
THEOREM CommonKeysToldApart == Spec => []CommonToldApart
<1>1. LoopInv => CommonToldApart
  <2> SUFFICES ASSUME LoopInv, Done, mods \in CommonMods,
                      NEW s \in CommonSums, s[1] = crc
               PROVE  s[3] = code /\ (code # Release => s[2] = mods)
    BY DEF CommonToldApart
  <2>1. crc = CrcOf(Report(mods, code)) /\ code \in Presses \cup {Release}
    BY DoneIsSum, ReportOf DEF LoopInv
  <2>2. CASE \E m \in CommonMods, c \in Presses : s = <<CrcOf(Report(m, c)), m, c>>
    <3>1. PICK m \in CommonMods, c \in Presses : s = <<CrcOf(Report(m, c)), m, c>>
      BY <2>2
    <3>2. s[1] = CrcOf(Report(m, c)) /\ s[2] = m /\ s[3] = c
      BY <3>1
    <3> QED BY <2>1, <3>2, CommonSumsTell
  <2>3. CASE \E m \in CommonMods : s = <<CrcOf(Report(0, Release)), m, Release>>
    <3>1. PICK m \in CommonMods : s = <<CrcOf(Report(0, Release)), m, Release>>
      BY <2>3
    <3>2. s[1] = CrcOf(Report(0, Release)) /\ s[2] = m /\ s[3] = Release
      BY <3>1
    <3>3. Report(0, Release) = Report(m, Release)
      BY DEF Report
    <3> QED BY <2>1, <3>2, <3>3, CommonSumsTell
  <2> QED BY <2>2, <2>3 DEF CommonSums
<1> QED BY <1>1, LoopKeeps, PTL DEF Spec
-----------------------------------------------------------------------------
(* The loop divides polynomials, whatever the bytes and however many.      *)

\* The polynomial p, of which the i highest exponents from top down are gone: bit b of
\* the register is the exponent 15 - b of what is left of the division, moved up to top,
\* and those of the ones that are still to come (rest) are as they were in the message.
StandsFor(p, c, rest, i, top) ==
  /\ p \subseteq Int
  /\ \A x \in Int : x \in p <=> ~(top - i - x \in c <=> top - x \in rest)

LEMMA BitOf ==
  ASSUME NEW c \in Register, NEW y \in Int
  PROVE  y \in CrcBit(c) <=> y >= 0 /\ ~(y + 1 \in c <=> 0 \in c /\ y \in Polinom)
<1>1. y \in ShiftRight(c) <=> y >= 0 /\ y + 1 \in c
  <2>1. \A b \in c : b \in Int /\ b >= 0 /\ b <= 15
    BY DEF Register
  <2>2. ASSUME y \in ShiftRight(c) PROVE y >= 0 /\ y + 1 \in c
    <3>1. PICK b \in c \ {0} : y = b - 1
      BY <2>2 DEF ShiftRight
    <3> QED BY <2>1, <3>1
  <2>3. ASSUME y >= 0, y + 1 \in c PROVE y \in ShiftRight(c)
    <3>1. y + 1 \in c \ {0} /\ y = (y + 1) - 1
      BY <2>3
    <3> QED BY <3>1 DEF ShiftRight
  <2> QED BY <2>2, <2>3
<1>2. y \in Polinom => y >= 0
  BY DEF Polinom
<1>3. y \in CrcBit(c) <=> ~(y \in ShiftRight(c) <=> 0 \in c /\ y \in Polinom)
  BY DEF CrcBit, Xor
<1> QED BY <1>1, <1>2, <1>3

\* One turn of the inner loop subtracts the generator if the highest exponent is there.
LEMMA OneReduction ==
  ASSUME NEW p, NEW c \in Register, NEW rest, NEW i \in Nat, NEW top \in Nat,
         StandsFor(p, c, rest, i, top), \A j \in rest : j > i
  PROVE  StandsFor(Reduce(p, top - i), CrcBit(c), rest, i + 1, top)
<1> DEFINE e == top - i
           move == {g + e - 16 : g \in Generator}
<1>1. e \in Int /\ top - e = i /\ top - i - e = 0 /\ i \notin rest
  OBVIOUS
<1>2. e \in p <=> 0 \in c
  BY <1>1 DEF StandsFor
<1>3. /\ move \subseteq Int
      /\ \A x \in Int : x \in move <=> e - 1 - x \in Polinom \/ x = e
  <2>1. move = {e, e - 1, e - 14, e - 16}
    BY <1>1 DEF Generator
  <2> HIDE DEF move, e
  <2> QED BY <1>1, <2>1 DEF Polinom
<1>4. /\ Reduce(p, e) \subseteq Int
      /\ \A x : x \in Reduce(p, e) <=> ~(x \in p <=> 0 \in c /\ x \in move)
  BY <1>2, <1>3 DEF Reduce, Xor, StandsFor
<1>5. ASSUME NEW x \in Int
      PROVE  x \in Reduce(p, e) <=> ~(top - (i + 1) - x \in CrcBit(c) <=> top - x \in rest)
  <2> DEFINE y == e - 1 - x
  <2>1. /\ y \in Int /\ y + 1 = top - i - x /\ top - (i + 1) - x = y
        /\ x = e <=> y = 0 - 1
    OBVIOUS
  <2>2. x \in p <=> ~(y + 1 \in c <=> top - x \in rest)
    BY <2>1 DEF StandsFor
  <2>3. x \in move <=> y \in Polinom \/ x = e
    BY <1>3
  <2>4. x \in Reduce(p, e) <=> ~(x \in p <=> 0 \in c /\ x \in move)
    BY <1>4
  <2>5. y \in CrcBit(c) <=> y >= 0 /\ ~(y + 1 \in c <=> 0 \in c /\ y \in Polinom)
    BY <2>1, BitOf
  <2>6. y + 1 \in c => y + 1 >= 0
    BY <2>1 DEF Register
  <2>7. 0 - 1 \notin Polinom /\ (y \in Polinom => y >= 0)
    BY DEF Polinom
  <2>8. x = e => top - x \notin rest /\ y + 1 = 0
    BY <1>1, <2>1
  <2> HIDE DEF move, e, y
  <2>9. CASE x = e
    BY <2>1, <2>2, <2>3, <2>4, <2>5, <2>8, <2>9
  <2>10. CASE x # e /\ y >= 0
    BY <2>1, <2>2, <2>3, <2>4, <2>5, <2>10
  <2>11. CASE x # e /\ ~(y >= 0)
    <3>1. y + 1 \notin c /\ y \notin Polinom
      BY <2>1, <2>6, <2>7, <2>11
    <3> QED BY <2>1, <2>2, <2>3, <2>4, <2>5, <2>11, <3>1
  <2> QED BY <2>9, <2>10, <2>11
<1> QED BY <1>4, <1>5 DEF StandsFor

\* The ones of the bytes that have not been gone through.
Rest(bytes, k) == {j \in Ones(bytes) : j >= 8 * k}

\* Exclusive or with a byte moves its ones into the register.
LEMMA ByteTakenIn ==
  ASSUME NEW bytes, Len(bytes) \in Nat, NEW k \in Nat, k < Len(bytes),
         NEW p, NEW c \in Register, NEW top \in Nat,
         StandsFor(p, c, Rest(bytes, k), 8 * k, top)
  PROVE  StandsFor(p, Xor(c, Bits(bytes[k + 1])), Rest(bytes, k + 1), 8 * k, top)
<1> DEFINE ones == Bits(bytes[k + 1])
<1>1. ASSUME NEW b \in Int
      PROVE  8 * k + b \in Rest(bytes, k) <=> ~(b \in ones <=> 8 * k + b \in Rest(bytes, k + 1))
  <2>1. CASE b \in 0 .. 7
    <3>1. /\ (8 * k + b) % 8 = b /\ (8 * k + b) \div 8 = k
          /\ 8 * k + b \in 0 .. 8 * Len(bytes) - 1
          /\ 8 * k + b >= 8 * k /\ ~(8 * k + b >= 8 * (k + 1))
      BY <2>1
    <3> QED BY <3>1 DEF Rest, Ones
  <2>2. CASE b \notin 0 .. 7
    <3>1. b \notin ones
      BY <2>2, BitsType
    <3>2. 8 * k + b >= 8 * k <=> 8 * k + b >= 8 * (k + 1)
      BY <2>2
    <3> QED BY <3>1, <3>2 DEF Rest
  <2> QED BY <2>1, <2>2
<1>2. ASSUME NEW x \in Int
      PROVE  x \in p <=> ~(top - 8 * k - x \in Xor(c, ones) <=> top - x \in Rest(bytes, k + 1))
  <2> DEFINE b == top - 8 * k - x
  <2>1. b \in Int /\ top - x = 8 * k + b
    OBVIOUS
  <2>2. x \in p <=> ~(b \in c <=> top - x \in Rest(bytes, k))
    BY DEF StandsFor
  <2> HIDE DEF b, ones
  <2>3. top - x \in Rest(bytes, k) <=> ~(b \in ones <=> top - x \in Rest(bytes, k + 1))
    BY <1>1, <2>1
  <2>4. b \in Xor(c, ones) <=> ~(b \in c <=> b \in ones)
    BY DEF Xor
  <2> QED BY <2>2, <2>3, <2>4 DEF b
<1> QED BY <1>2 DEF StandsFor

LEMMA ReductionsSteps ==
  ASSUME NEW bytes, Len(bytes) \in Nat
  PROVE  /\ Reductions(bytes)[0] = Message(bytes)
         /\ \A i \in 1 .. 8 * Len(bytes) :
              Reductions(bytes)[i] = Reduce(Reductions(bytes)[i - 1], 8 * Len(bytes) + 16 - i)
<1> DEFINE m == Message(bytes)
           high == 8 * Len(bytes) + 16
           Runs(g, n) == g = [i \in 0 .. n |-> IF i = 0 THEN m ELSE Reduce(g[i - 1], high - i)]
           S == {n \in Nat : \E g : Runs(g, n)}
<1>1. Reductions(bytes) = CHOOSE g : Runs(g, 8 * Len(bytes))
  BY DEF Reductions
<1> HIDE DEF m, high
<1>2. 0 \in S
  <2> DEFINE g == [i \in 0 .. 0 |-> m]
  <2>1. Runs(g, 0)
    OBVIOUS
  <2> QED BY <2>1
<1>3. ASSUME NEW n \in Nat, n \in S PROVE n + 1 \in S
  <2>1. PICK g : Runs(g, n)
    BY <1>3
  <2> DEFINE h == [i \in 0 .. n + 1 |-> IF i <= n THEN g[i] ELSE Reduce(g[n], high - (n + 1))]
  <2>2. \A i \in 0 .. n + 1 : h[i] = IF i = 0 THEN m ELSE Reduce(h[i - 1], high - i)
    <3> TAKE i \in 0 .. n + 1
    <3>1. CASE i = 0
      BY <2>1, <3>1
    <3>2. CASE i \in 1 .. n
      <4>1. i \in 0 .. n /\ i - 1 \in 0 .. n + 1 /\ i - 1 <= n /\ i <= n /\ i # 0
        BY <3>2
      <4>2. h[i - 1] = g[i - 1] /\ h[i] = g[i]
        BY <4>1
      <4>3. g[i] = Reduce(g[i - 1], high - i)
        BY <2>1, <4>1
      <4> QED BY <4>1, <4>2, <4>3
    <3>3. CASE i = n + 1
      <4>1. i - 1 = n /\ n \in 0 .. n + 1 /\ n <= n /\ ~(i <= n) /\ i # 0
        BY <3>3
      <4> QED BY <4>1, <3>3
    <3> QED BY <3>1, <3>2, <3>3
  <2>3. Runs(h, n + 1)
    BY <2>2
  <2> HIDE DEF h, Runs
  <2> QED BY <2>3
<1>4. \E g : Runs(g, 8 * Len(bytes))
  <2> HIDE DEF Runs
  <2>1. Nat \subseteq S
    BY <1>2, <1>3, CountUp
  <2>2. 8 * Len(bytes) \in Nat
    OBVIOUS
  <2> QED BY <2>1, <2>2
<1>5. Runs(Reductions(bytes), 8 * Len(bytes))
  <2> HIDE DEF Runs
  <2> QED BY <1>1, <1>4
<1>6. \A i \in 0 .. 8 * Len(bytes) :
        Reductions(bytes)[i] = IF i = 0 THEN m ELSE Reduce(Reductions(bytes)[i - 1], high - i)
  BY <1>5
<1> QED BY <1>6 DEF m, high

\* One turn of the outer loop divides by eight exponents.
LEMMA ByteDivided ==
  ASSUME NEW bytes, Len(bytes) \in Nat, NEW k \in Nat, k < Len(bytes), NEW c \in Register,
         StandsFor(Reductions(bytes)[8 * k], c, Rest(bytes, k), 8 * k, 8 * Len(bytes) + 15)
  PROVE  StandsFor(Reductions(bytes)[8 * (k + 1)], CrcByte(c, bytes[k + 1]),
                   Rest(bytes, k + 1), 8 * (k + 1), 8 * Len(bytes) + 15)
<1> DEFINE top  == 8 * Len(bytes) + 15
           rest == Rest(bytes, k + 1)
           p    == Reductions(bytes)
           in   == Xor(c, Bits(bytes[k + 1]))
<1>1. in \in Register
  BY XorByte
<1>2. StandsFor(p[8 * k], in, rest, 8 * k, top)
  <2>1. top \in Nat
    OBVIOUS
  <2> HIDE DEF top
  <2>2. StandsFor(p[8 * k], c, Rest(bytes, k), 8 * k, top)
    BY DEF top
  <2> HIDE DEF p
  <2> QED BY <2>1, <2>2, ByteTakenIn
<1>3. PICK g \in [0 .. 8 -> Register] :
        /\ g[0] = in /\ CrcBits(in) = g[8]
        /\ \A i \in 1 .. 8 : g[i] = CrcBit(g[i - 1])
  BY <1>1, CrcBitsRun
<1>4. ASSUME NEW i \in 0 .. 7, StandsFor(p[8 * k + i], g[i], rest, 8 * k + i, top)
      PROVE  StandsFor(p[8 * k + (i + 1)], g[i + 1], rest, 8 * k + (i + 1), top)
  <2>1. /\ 8 * k + i \in Nat /\ top \in Nat
        /\ 8 * k + (i + 1) \in 1 .. 8 * Len(bytes) /\ 8 * k + (i + 1) = (8 * k + i) + 1
        /\ (8 * k + (i + 1)) - 1 = 8 * k + i
        /\ 8 * Len(bytes) + 16 - (8 * k + (i + 1)) = top - (8 * k + i)
    OBVIOUS
  <2>2. p[8 * k + (i + 1)] = Reduce(p[8 * k + i], top - (8 * k + i))
    <3>1. p[8 * k + (i + 1)] = Reduce(p[(8 * k + (i + 1)) - 1],
                                      8 * Len(bytes) + 16 - (8 * k + (i + 1)))
      BY <2>1, ReductionsSteps
    <3> HIDE DEF p, top
    <3> QED BY <2>1, <3>1
  <2>3. g[i] \in Register /\ g[i + 1] = CrcBit(g[i])
    <3>1. i + 1 \in 1 .. 8 /\ (i + 1) - 1 = i /\ i \in 0 .. 8
      OBVIOUS
    <3> QED BY <1>3, <3>1
  <2>4. \A j \in rest : j > 8 * k + i
    BY DEF Rest, Ones
  <2> HIDE DEF p, top, rest
  <2> QED BY <1>4, <2>1, <2>2, <2>3, <2>4, OneReduction
<1> DEFINE S == {i \in Nat : i <= 8 => StandsFor(p[8 * k + i], g[i], rest, 8 * k + i, top)}
<1>5. 0 \in S
  <2>1. 8 * k + 0 = 8 * k
    OBVIOUS
  <2> HIDE DEF p, top, rest
  <2> QED BY <1>2, <1>3, <2>1
<1>6. ASSUME NEW i \in Nat, i \in S PROVE i + 1 \in S
  <2> HIDE DEF p, top, rest
  <2> SUFFICES ASSUME i + 1 <= 8
               PROVE  StandsFor(p[8 * k + (i + 1)], g[i + 1], rest, 8 * k + (i + 1), top)
    OBVIOUS
  <2>1. i \in 0 .. 7 /\ i <= 8
    OBVIOUS
  <2>2. StandsFor(p[8 * k + i], g[i], rest, 8 * k + i, top)
    BY <1>6, <2>1
  <2> QED BY <1>4, <2>1, <2>2
<1>7. 8 \in S
  <2> HIDE DEF S
  <2>1. Nat \subseteq S
    BY <1>5, <1>6, CountUp
  <2> QED BY <2>1
<1>8. StandsFor(p[8 * k + 8], g[8], rest, 8 * k + 8, top)
  <2> HIDE DEF p, top, rest
  <2> QED BY <1>7
<1>9. 8 * (k + 1) = 8 * k + 8 /\ CrcByte(c, bytes[k + 1]) = g[8]
  BY <1>3 DEF CrcByte
<1> QED BY <1>8, <1>9

\* crc16 computes the remainder of its standard, for any number of bytes of any value: the
\* register starts with ones, the bits come lowest first, and so does the result.
THEOREM SumIsRemainder ==
  ASSUME NEW bytes, Len(bytes) \in Nat
  PROVE  {15 - b : b \in CrcOf(bytes)} = Remainder(bytes)
<1> DEFINE n   == Len(bytes)
           top == 8 * Len(bytes) + 15
           p   == Reductions(bytes)
           run == CrcRun(bytes)
           S   == {k \in Nat : k <= n => /\ run[k] \in Register
                                         /\ StandsFor(p[8 * k], run[k], Rest(bytes, k), 8 * k, top)}
<1>1. /\ p[0] = Message(bytes) /\ Remainder(bytes) = p[8 * n]
      /\ run[0] = Initial /\ CrcOf(bytes) = run[n]
      /\ \A k \in 1 .. n : run[k] = CrcByte(run[k - 1], bytes[k])
  BY ReductionsSteps, CrcRunSteps DEF Remainder
<1>2. StandsFor(Message(bytes), Initial, Rest(bytes, 0), 0, top)
  <2>1. Message(bytes) = Xor({top - i : i \in Ones(bytes)}, {top - i : i \in 0 .. 15})
    BY DEF Message
  <2>2. top \in Nat /\ Ones(bytes) \subseteq Nat /\ Rest(bytes, 0) = Ones(bytes)
    BY DEF Ones, Rest
  <2> HIDE DEF top
  <2>3. \A x \in Int : x \in {top - i : i \in Ones(bytes)} <=> top - x \in Ones(bytes)
    <3> TAKE x \in Int
    <3>1. x = top - (top - x)
      BY <2>2
    <3>2. \A i \in Ones(bytes) : x = top - i => top - x = i
      BY <2>2
    <3> QED BY <3>1, <3>2
  <2>4. \A x \in Int : x \in {top - i : i \in 0 .. 15} <=> top - 0 - x \in Initial
    BY <2>2 DEF Initial
  <2>5. Message(bytes) \subseteq Int
    <3>1. {top - i : i \in Ones(bytes)} \subseteq Int
      BY <2>2
    <3>2. {top - i : i \in 0 .. 15} \subseteq Int
      BY <2>2
    <3> QED BY <2>1, <3>1, <3>2, Zenon DEF Xor
  <2>6. \A x \in Int : x \in Message(bytes)
                         <=> ~(top - 0 - x \in Initial <=> top - x \in Ones(bytes))
    BY <2>1, <2>3, <2>4 DEF Xor
  <2> QED BY <2>2, <2>5, <2>6 DEF StandsFor
<1>3. 0 \in S
  <2>1. 8 * 0 = 0
    OBVIOUS
  <2> HIDE DEF p, top, run
  <2> QED BY <1>1, <1>2, <2>1, InitialType
<1>4. ASSUME NEW k \in Nat, k \in S PROVE k + 1 \in S
  <2> SUFFICES ASSUME k + 1 <= n
               PROVE  /\ run[k + 1] \in Register
                      /\ StandsFor(p[8 * (k + 1)], run[k + 1], Rest(bytes, k + 1), 8 * (k + 1), top)
    <3> HIDE DEF p, top, run
    <3> QED OBVIOUS
  <2>1. k <= n /\ k < Len(bytes) /\ k + 1 \in 1 .. n /\ (k + 1) - 1 = k
    OBVIOUS
  <2>2. run[k + 1] = CrcByte(run[k], bytes[k + 1])
    <3> HIDE DEF p, top, run
    <3> QED BY <1>1, <2>1
  <2>3. run[k] \in Register /\ StandsFor(p[8 * k], run[k], Rest(bytes, k), 8 * k, top)
    <3> HIDE DEF p, top, run
    <3> QED BY <1>4, <2>1
  <2>4. StandsFor(p[8 * (k + 1)], CrcByte(run[k], bytes[k + 1]), Rest(bytes, k + 1), 8 * (k + 1), top)
    <3> HIDE DEF run
    <3> QED BY <2>1, <2>3, ByteDivided
  <2> HIDE DEF p, top, run
  <2> QED BY <2>2, <2>3, <2>4, CrcByteType
<1>5. /\ run[n] \in Register
      /\ StandsFor(p[8 * n], run[n], Rest(bytes, n), 8 * n, top)
  <2> HIDE DEF S
  <2>1. Nat \subseteq S
    BY <1>3, <1>4, CountUp
  <2>2. n \in S
    BY <2>1
  <2> QED BY <2>2 DEF S
<1>6. \A x \in Int : x \in p[8 * n] <=> 15 - x \in run[n]
  <2> TAKE x \in Int
  <2>1. top - 8 * n - x = 15 - x
    OBVIOUS
  <2>2. top - x \notin Rest(bytes, n)
    BY DEF Rest, Ones
  <2> HIDE DEF p, top, run, n
  <2> QED BY <1>5, <2>1, <2>2 DEF StandsFor
<1>7. p[8 * n] \subseteq Int
  BY <1>5 DEF StandsFor
<1> HIDE DEF p, run, n
<1>8. {15 - b : b \in run[n]} = p[8 * n]
  <2>1. \A b \in run[n] : b \in Int /\ 15 - b \in Int /\ 15 - (15 - b) = b
    BY <1>5 DEF Register
  <2>2. \A x \in Int : x = 15 - (15 - x)
    OBVIOUS
  <2>3. \A x \in p[8 * n] : x \in {15 - b : b \in run[n]}
    BY <1>6, <1>7, <2>2
  <2>4. \A b \in run[n] : 15 - b \in p[8 * n]
    BY <1>6, <2>1
  <2> QED BY <2>3, <2>4
<1> QED BY <1>1, <1>8

\* The loop as it runs, over the report of any key, ends with the remainder of its bytes.
THEOREM LoopDivides == Spec => []CrcIsRemainder
<1>1. ASSUME LoopInv, Done PROVE {15 - b : b \in crc} = Remainder(Report(mods, code))
  <2>1. /\ Len(Report(mods, code)) = 8
        /\ Report(mods, code) = KeyReportBytes(SentMods(mods, code), SentKey(code))
    BY ReportOf
  <2>2. crc = CrcOf(Report(mods, code))
    BY <1>1, <2>1, DoneIsSum
  <2>3. Len(Report(mods, code)) \in Nat
    BY <2>1
  <2> QED BY <2>2, <2>3, SumIsRemainder
<1>2. LoopInv => CrcIsRemainder
  BY <1>1 DEF CrcIsRemainder
<1> QED BY <1>2, LoopKeeps, PTL DEF Spec
=============================================================================
