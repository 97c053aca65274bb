----------------------------- MODULE DataLemmas -----------------------------
(***************************************************************************)
(* Facts about data that several proofs need: induction over a count,      *)
(* sequences that grow at one end while another one is used up, and which  *)
(* reports crc16 tells apart.                                              *)
(***************************************************************************)
EXTENDS Integers, Crc16, SequenceTheorems, WellFoundedInduction, TLAPS

LEMMA LeastElement ==
  ASSUME NEW T, T \subseteq Nat, T # {}
  PROVE  \E m \in T : \A k \in T : ~(k < m)
<1> DEFINE R == {p \in Nat \X Nat : p[1] < p[2]}
<1>1. IsWellFoundedOn(R, Nat)
  BY NatLessThanWellFounded DEF OpToRel
<1>2. \A k, m \in Nat : k < m => <<k, m>> \in R
  OBVIOUS
<1> HIDE DEF R
<1>3. \E m \in T : \A k \in T : <<k, m>> \notin R
  BY <1>1, WFMin
<1> QED BY <1>2, <1>3

\* Induction, stated of a set so that it can be cited for any property.
LEMMA CountUp ==
  ASSUME NEW S, 0 \in S, \A n \in Nat : n \in S => n + 1 \in S
  PROVE  Nat \subseteq S
<1> SUFFICES ASSUME Nat \ S # {} PROVE FALSE
  OBVIOUS
<1>1. PICK m \in Nat \ S : \A k \in Nat \ S : ~(k < m)
  BY LeastElement
<1>2. m # 0 /\ m - 1 \in Nat /\ (m - 1) + 1 = m /\ m - 1 < m
  BY <1>1
<1>3. m - 1 \in S
  BY <1>1, <1>2
<1> QED BY <1>1, <1>2, <1>3

-----------------------------------------------------------------------------

\* One element moves from the front of one sequence to the end of the other.
LEMMA MoveByte ==
  ASSUME NEW S, NEW s \in Seq(S), NEW t \in Seq(S), t # <<>>
  PROVE  /\ s \o t = Append(s, Head(t)) \o Tail(t)
         /\ Append(s, Head(t)) \in Seq(S)
         /\ Tail(t) \in Seq(S)
<1>1. /\ Head(t) \in S /\ Tail(t) \in Seq(S) /\ Head(t) = t[1]
      /\ <<Head(t)>> \in Seq(S)
  BY HeadTailProperties
<1>2. Append(s, Head(t)) = s \o <<Head(t)>> /\ Append(s, Head(t)) \in Seq(S)
  BY <1>1, AppendIsConcat, AppendProperties
<1>3. t = <<Head(t)>> \o Tail(t)
  <2>1. 1 \in 1 .. Len(t) /\ Len(t) \in 1 .. Len(t)
    BY EmptySeq
  <2>2. SubSeq(t, 1, Len(t)) = <<t[1]>> \o SubSeq(t, 1 + 1, Len(t))
    BY <2>1, SubSeqRecursiveFirst
  <2>3. SubSeq(t, 1, Len(t)) = t /\ SubSeq(t, 2, Len(t)) = Tail(t)
    BY SubSeqFull, TailIsSubSeq
  <2> QED BY <1>1, <2>2, <2>3
<1>4. s \o (<<Head(t)>> \o Tail(t)) = (s \o <<Head(t)>>) \o Tail(t)
  BY <1>1, ConcatAssociative
<1> QED BY <1>1, <1>2, <1>3, <1>4

\* The part that stands behind the first one.
LEMMA SecondPart ==
  ASSUME NEW S, NEW s \in Seq(S), NEW t \in Seq(S)
  PROVE  SubSeq(s \o t, Len(s) + 1, Len(s \o t)) = t
<1>1. /\ Len(s) \in Nat /\ Len(t) \in Nat
      /\ Len(s \o t) = Len(s) + Len(t)
      /\ \A i \in 1 .. Len(s) + Len(t) : (s \o t)[i] = IF i <= Len(s) THEN s[i] ELSE t[i - Len(s)]
  BY ConcatProperties, LenProperties
<1>2. \A i \in 1 .. Len(t) : (s \o t)[Len(s) + i] = t[i]
  <2> TAKE i \in 1 .. Len(t)
  <2>1. Len(s) + i \in 1 .. Len(s) + Len(t) /\ ~(Len(s) + i <= Len(s)) /\ (Len(s) + i) - Len(s) = i
    BY <1>1
  <2> QED BY <1>1, <2>1
<1>3. \A i \in Len(s) + 1 .. Len(s \o t) : (s \o t)[i] \in S
  <2> TAKE i \in Len(s) + 1 .. Len(s \o t)
  <2>1. i - Len(s) \in 1 .. Len(t) /\ i = Len(s) + (i - Len(s))
    BY <1>1
  <2>2. t[i - Len(s)] \in S
    BY <2>1, ElementOfSeq
  <2> QED BY <1>2, <2>1, <2>2
<1> DEFINE u == SubSeq(s \o t, Len(s) + 1, Len(s \o t))
<1>4. /\ u \in Seq(S)
      /\ Len(u) = IF Len(s) + 1 <= Len(s \o t) THEN Len(s \o t) - (Len(s) + 1) + 1 ELSE 0
      /\ \A i \in 1 .. Len(s \o t) - (Len(s) + 1) + 1 : u[i] = (s \o t)[Len(s) + 1 + i - 1]
  <2>1. Len(s) + 1 \in Int /\ Len(s \o t) \in Int
    BY <1>1
  <2> QED BY <1>3, <2>1, SubSeqProperties
<1>5. Len(u) = Len(t)
  BY <1>1, <1>4
<1>6. \A i \in 1 .. Len(t) : u[i] = t[i]
  <2> TAKE i \in 1 .. Len(t)
  <2>1. i \in 1 .. Len(s \o t) - (Len(s) + 1) + 1 /\ Len(s) + 1 + i - 1 = Len(s) + i
    BY <1>1
  <2>2. u[i] = (s \o t)[Len(s) + i]
    BY <1>4, <2>1
  <2> QED BY <1>2, <2>2
<1> QED BY <1>4, <1>5, <1>6, SeqEqual

-----------------------------------------------------------------------------
(* crc16, step by step.                                                    *)

Register == SUBSET (0 .. 15)

\* One bit more: what becomes of every bit of the register when the lowest one is shifted
\* out, and it is or is not one.
BitStep(c, one, r) ==
  /\ 15 \in r <=> one
  /\ 14 \in r <=> 15 \in c
  /\ 13 \in r <=> ~(14 \in c <=> one)
  /\ 12 \in r <=> 13 \in c
  /\ 11 \in r <=> 12 \in c
  /\ 10 \in r <=> 11 \in c
  /\ 9 \in r <=> 10 \in c
  /\ 8 \in r <=> 9 \in c
  /\ 7 \in r <=> 8 \in c
  /\ 6 \in r <=> 7 \in c
  /\ 5 \in r <=> 6 \in c
  /\ 4 \in r <=> 5 \in c
  /\ 3 \in r <=> 4 \in c
  /\ 2 \in r <=> 3 \in c
  /\ 1 \in r <=> 2 \in c
  /\ 0 \in r <=> ~(1 \in c <=> one)

LEMMA Shifted ==
  ASSUME NEW c \in Register
  PROVE  /\ ShiftRight(c) \in Register
         /\ \A i \in 0 .. 15 : i \in ShiftRight(c) <=> i + 1 \in c
<1>1. \A b \in c : b \in Nat /\ b <= 15
  BY DEF Register
<1>2. \A i \in 0 .. 15 : i \in ShiftRight(c) <=> i + 1 \in c
  <2> TAKE i \in 0 .. 15
  <2>1. ASSUME i + 1 \in c PROVE i \in ShiftRight(c)
    <3>1. i + 1 \in c \ {0} /\ (i + 1) - 1 = i
      BY <2>1
    <3> QED BY <3>1 DEF ShiftRight
  <2>2. ASSUME i \in ShiftRight(c) PROVE i + 1 \in c
    <3>1. PICK b \in c \ {0} : i = b - 1
      BY <2>2 DEF ShiftRight
    <3> QED BY <1>1, <3>1
  <2> QED BY <2>1, <2>2
<1>3. \A i \in ShiftRight(c) : i \in 0 .. 15
  BY <1>1 DEF ShiftRight
<1> QED BY <1>2, <1>3 DEF Register

LEMMA CrcBitStep ==
  ASSUME NEW c \in Register
  PROVE  CrcBit(c) \in Register /\ BitStep(c, 0 \in c, CrcBit(c))
<1> DEFINE s == ShiftRight(c)
<1>1. s \in Register /\ \A i \in 0 .. 15 : i \in s <=> i + 1 \in c
  BY Shifted
<1>2. /\ 15 \notin s
      /\ 14 \in s <=> 15 \in c
      /\ 13 \in s <=> 14 \in c
      /\ 12 \in s <=> 13 \in c
      /\ 11 \in s <=> 12 \in c
      /\ 10 \in s <=> 11 \in c
      /\ 9 \in s <=> 10 \in c
      /\ 8 \in s <=> 9 \in c
      /\ 7 \in s <=> 8 \in c
      /\ 6 \in s <=> 7 \in c
      /\ 5 \in s <=> 6 \in c
      /\ 4 \in s <=> 5 \in c
      /\ 3 \in s <=> 4 \in c
      /\ 2 \in s <=> 3 \in c
      /\ 1 \in s <=> 2 \in c
      /\ 0 \in s <=> 1 \in c
  <2>1. 16 \notin c
    BY DEF Register
  <2> HIDE DEF s
  <2> QED BY <1>1, <2>1
<1> HIDE DEF s
<1>3. CrcBit(c) = IF 0 \in c THEN (s \ {15, 13, 0}) \cup ({15, 13, 0} \ s) ELSE s
  BY DEF CrcBit, Xor, Polinom, s
<1>4. CrcBit(c) \in Register
  BY <1>1, <1>3 DEF Register
<1>5. CASE 0 \in c
  <2>1. \A i : i \in CrcBit(c) <=> ~(i \in s <=> i \in {15, 13, 0})
    BY <1>3, <1>5
  <2>2. /\ 15 \in CrcBit(c) <=> 15 \notin s
        /\ 14 \in CrcBit(c) <=> 14 \in s
        /\ 13 \in CrcBit(c) <=> 13 \notin s
        /\ 12 \in CrcBit(c) <=> 12 \in s
        /\ 11 \in CrcBit(c) <=> 11 \in s
        /\ 10 \in CrcBit(c) <=> 10 \in s
        /\ 9 \in CrcBit(c) <=> 9 \in s
        /\ 8 \in CrcBit(c) <=> 8 \in s
        /\ 7 \in CrcBit(c) <=> 7 \in s
        /\ 6 \in CrcBit(c) <=> 6 \in s
        /\ 5 \in CrcBit(c) <=> 5 \in s
        /\ 4 \in CrcBit(c) <=> 4 \in s
        /\ 3 \in CrcBit(c) <=> 3 \in s
        /\ 2 \in CrcBit(c) <=> 2 \in s
        /\ 1 \in CrcBit(c) <=> 1 \in s
        /\ 0 \in CrcBit(c) <=> 0 \notin s
    BY <2>1
  <2> QED BY <1>2, <1>4, <1>5, <2>2 DEF BitStep
<1>6. CASE 0 \notin c
  <2>1. CrcBit(c) = s
    BY <1>3, <1>6
  <2> QED BY <1>2, <1>4, <1>6, <2>1 DEF BitStep
<1> QED BY <1>4, <1>5, <1>6

\* The inner loop: the registers it goes through.
LEMMA CrcBitsRun ==
  ASSUME NEW c \in Register
  PROVE  \E g \in [0 .. 8 -> Register] :
           /\ g[0] = c /\ CrcBits(c) = g[8]
           /\ \A i \in 1 .. 8 : g[i] = CrcBit(g[i - 1])
<1> DEFINE Runs(g) == g = [i \in 0 .. 8 |-> IF i = 0 THEN c ELSE CrcBit(g[i - 1])]
           c1 == CrcBit(c)
           c2 == CrcBit(c1)
           c3 == CrcBit(c2)
           c4 == CrcBit(c3)
           c5 == CrcBit(c4)
           c6 == CrcBit(c5)
           c7 == CrcBit(c6)
           c8 == CrcBit(c7)
           g == [i \in 0 .. 8 |-> IF i = 0 THEN c ELSE IF i = 1 THEN c1 ELSE IF i = 2 THEN c2 ELSE IF i = 3 THEN c3 ELSE IF i = 4 THEN c4 ELSE IF i = 5 THEN c5 ELSE IF i = 6 THEN c6 ELSE IF i = 7 THEN c7 ELSE c8]
<1>1. Runs(g)
  <2> HIDE DEF c1, c2, c3, c4, c5, c6, c7, c8
  <2>1. /\ c1 = CrcBit(c) /\ c2 = CrcBit(c1) /\ c3 = CrcBit(c2) /\ c4 = CrcBit(c3)
        /\ c5 = CrcBit(c4) /\ c6 = CrcBit(c5) /\ c7 = CrcBit(c6) /\ c8 = CrcBit(c7)
    BY DEF c1, c2, c3, c4, c5, c6, c7, c8
  <2>2. \A i \in 0 .. 8 : g[i] = IF i = 0 THEN c ELSE CrcBit(g[i - 1])
    BY <2>1
  <2> QED BY <2>2
<1>5. CrcBits(c) = (CHOOSE f : Runs(f))[8]
  BY DEF CrcBits
<1> DEFINE h == CHOOSE f : Runs(f)
<1>6. Runs(h)
  <2> HIDE DEF Runs, g
  <2> QED BY <1>1
<1>7. CrcBits(c) = h[8]
  BY <1>5
<1> HIDE DEF h
<1>8. h[0] = c /\ \A i \in 1 .. 8 : h[i] = CrcBit(h[i - 1])
  BY <1>6
<1>9. \A i \in 0 .. 8 : h[i] \in Register
  <2>0. h[0] \in Register
    BY <1>8
  <2>1. h[1] \in Register
    BY <1>8, <2>0, CrcBitStep
  <2>2. h[2] \in Register
    BY <1>8, <2>1, CrcBitStep
  <2>3. h[3] \in Register
    BY <1>8, <2>2, CrcBitStep
  <2>4. h[4] \in Register
    BY <1>8, <2>3, CrcBitStep
  <2>5. h[5] \in Register
    BY <1>8, <2>4, CrcBitStep
  <2>6. h[6] \in Register
    BY <1>8, <2>5, CrcBitStep
  <2>7. h[7] \in Register
    BY <1>8, <2>6, CrcBitStep
  <2>8. h[8] \in Register
    BY <1>8, <2>7, CrcBitStep
  <2> QED BY <2>0, <2>1, <2>2, <2>3, <2>4, <2>5, <2>6, <2>7, <2>8
<1>10. h \in [0 .. 8 -> Register]
  BY <1>6, <1>9
<1> QED BY <1>7, <1>8, <1>10

\* A whole byte.  s are the bits shifted out as ones: each is the sum of the bits of the
\* register up to it.
ShiftedOut(c, s) ==
  /\ 1 \in s <=> 0 \in c
  /\ 2 \in s <=> ~(1 \in c <=> 1 \in s)
  /\ 3 \in s <=> ~(2 \in c <=> 2 \in s)
  /\ 4 \in s <=> ~(3 \in c <=> 3 \in s)
  /\ 5 \in s <=> ~(4 \in c <=> 4 \in s)
  /\ 6 \in s <=> ~(5 \in c <=> 5 \in s)
  /\ 7 \in s <=> ~(6 \in c <=> 6 \in s)
  /\ 8 \in s <=> ~(7 \in c <=> 7 \in s)

ByteStep(c, s, r) ==
  /\ 15 \in r <=> 8 \in s
  /\ 14 \in r <=> 7 \in s
  /\ 13 \in r <=> ~(6 \in s <=> 8 \in s)
  /\ 12 \in r <=> ~(5 \in s <=> 7 \in s)
  /\ 11 \in r <=> ~(4 \in s <=> 6 \in s)
  /\ 10 \in r <=> ~(3 \in s <=> 5 \in s)
  /\ 9 \in r <=> ~(2 \in s <=> 4 \in s)
  /\ 8 \in r <=> ~(1 \in s <=> 3 \in s)
  /\ 7 \in r <=> ~(15 \in c <=> 2 \in s)
  /\ 6 \in r <=> ~(14 \in c <=> 1 \in s)
  /\ 5 \in r <=> 13 \in c
  /\ 4 \in r <=> 12 \in c
  /\ 3 \in r <=> 11 \in c
  /\ 2 \in r <=> 10 \in c
  /\ 1 \in r <=> 9 \in c
  /\ 0 \in r <=> ~(8 \in c <=> 8 \in s)

LEMMA CrcBitsStep ==
  ASSUME NEW c \in Register
  PROVE  /\ CrcBits(c) \in Register
         /\ \E s \in SUBSET (1 .. 8) : ShiftedOut(c, s) /\ ByteStep(c, s, CrcBits(c))
<1>1. PICK g \in [0 .. 8 -> Register] :
        /\ g[0] = c /\ CrcBits(c) = g[8]
        /\ \A i \in 1 .. 8 : g[i] = CrcBit(g[i - 1])
  BY CrcBitsRun
<1> DEFINE s == {i \in 1 .. 8 : 0 \in g[i - 1]}
<1>2. \A i \in 1 .. 8 : g[i - 1] \in Register /\ BitStep(g[i - 1], 0 \in g[i - 1], g[i])
  <2> TAKE i \in 1 .. 8
  <2>1. i - 1 \in 0 .. 8
    OBVIOUS
  <2> QED BY <1>1, <2>1, CrcBitStep
<1> DEFINE Steps(i, was, is) == BitStep(was, 0 \in was, is) /\ (i \in s <=> 0 \in was)
<1>3. \A i \in 1 .. 8 : Steps(i, g[i - 1], g[i])
  BY <1>2, Zenon
<1>4. s \in SUBSET (1 .. 8)
  OBVIOUS
<1> HIDE DEF s, Steps
<1>5. /\ Steps(1, g[0], g[1]) /\ Steps(2, g[1], g[2]) /\ Steps(3, g[2], g[3])
      /\ Steps(4, g[3], g[4]) /\ Steps(5, g[4], g[5]) /\ Steps(6, g[5], g[6])
      /\ Steps(7, g[6], g[7]) /\ Steps(8, g[7], g[8])
  BY <1>3
<1>6. ShiftedOut(c, s) /\ ByteStep(c, s, g[8])
  BY <1>1, <1>5 DEF Steps, BitStep, ShiftedOut, ByteStep
<1> QED BY <1>1, <1>4, <1>6

SameLow(c, d) == \A i \in 0 .. 7 : i \in c <=> i \in d
SameHigh(c, d) == \A i \in 8 .. 15 : i \in c <=> i \in d

LEMMA SameBits ==
  ASSUME NEW c \in Register, NEW d \in Register, SameLow(c, d), SameHigh(c, d)
  PROVE  c = d
<1>1. \A i \in 0 .. 15 : i \in 0 .. 7 \/ i \in 8 .. 15
  OBVIOUS
<1> QED BY <1>1 DEF Register, SameLow, SameHigh

\* The upper byte of the result tells what was shifted out, and with it the lower byte
\* of the register.
LEMMA UpperTells ==
  ASSUME NEW c \in Register, NEW d \in Register, SameHigh(CrcBits(c), CrcBits(d))
  PROVE  /\ SameLow(c, d)
         /\ \E s : ByteStep(c, s, CrcBits(c)) /\ ByteStep(d, s, CrcBits(d))
<1>1. PICK s \in SUBSET (1 .. 8) : ShiftedOut(c, s) /\ ByteStep(c, s, CrcBits(c))
  BY CrcBitsStep
<1>2. PICK t \in SUBSET (1 .. 8) : ShiftedOut(d, t) /\ ByteStep(d, t, CrcBits(d))
  BY CrcBitsStep
<1>3. /\ 8 \in s <=> 8 \in t
      /\ 7 \in s <=> 7 \in t
      /\ 6 \in s <=> 6 \in t
      /\ 5 \in s <=> 5 \in t
      /\ 4 \in s <=> 4 \in t
      /\ 3 \in s <=> 3 \in t
      /\ 2 \in s <=> 2 \in t
      /\ 1 \in s <=> 1 \in t
  BY <1>1, <1>2 DEF ByteStep, SameHigh
<1>4. SameLow(c, d)
  BY <1>1, <1>2, <1>3 DEF ShiftedOut, SameLow
<1>5. \A k \in 1 .. 8 : k \in s <=> k \in t
  BY <1>3
<1>6. s = t
  BY <1>5
<1> QED BY <1>1, <1>2, <1>4, <1>6

\* No two registers come to the same.
LEMMA CrcBitsInjective ==
  ASSUME NEW c \in Register, NEW d \in Register, CrcBits(c) = CrcBits(d)
  PROVE  c = d
<1>1. SameHigh(CrcBits(c), CrcBits(d))
  BY DEF SameHigh
<1>2. PICK s : ByteStep(c, s, CrcBits(c)) /\ ByteStep(d, s, CrcBits(d))
  BY <1>1, UpperTells
<1>3. SameHigh(c, d)
  BY <1>2 DEF ByteStep, SameHigh
<1> QED BY <1>1, <1>3, UpperTells, SameBits

-----------------------------------------------------------------------------
(* The bytes of a report.                                                  *)

LEMMA BitsType ==
  ASSUME NEW byte
  PROVE  Bits(byte) \subseteq 0 .. 7
  BY DEF Bits

LEMMA NoBits == Bits(0) = {}
<1>1. \A b \in 0 .. 7 : (0 \div Weight[b + 1]) % 2 # 1
  BY DEF Weight
<1> QED BY <1>1 DEF Bits

LEMMA LastBitTells ==
  ASSUME NEW a \in Nat, NEW b \in Nat, a \div 2 = b \div 2, (a % 2 = 1) <=> (b % 2 = 1)
  PROVE  a = b
  OBVIOUS

LEMMA BitsTell ==
  ASSUME NEW a \in 0 .. 255, NEW b \in 0 .. 255, Bits(a) = Bits(b)
  PROVE  a = b
<1>1. \A i \in 0 .. 7 : ((a \div Weight[i + 1]) % 2 = 1) <=> ((b \div Weight[i + 1]) % 2 = 1)
  BY DEF Bits
<1>2. /\ ((a \div 1) % 2 = 1) <=> ((b \div 1) % 2 = 1)
      /\ ((a \div 2) % 2 = 1) <=> ((b \div 2) % 2 = 1)
      /\ ((a \div 4) % 2 = 1) <=> ((b \div 4) % 2 = 1)
      /\ ((a \div 8) % 2 = 1) <=> ((b \div 8) % 2 = 1)
      /\ ((a \div 16) % 2 = 1) <=> ((b \div 16) % 2 = 1)
      /\ ((a \div 32) % 2 = 1) <=> ((b \div 32) % 2 = 1)
      /\ ((a \div 64) % 2 = 1) <=> ((b \div 64) % 2 = 1)
      /\ ((a \div 128) % 2 = 1) <=> ((b \div 128) % 2 = 1)
  BY <1>1 DEF Weight
<1>3. a \div 128 = b \div 128
  BY <1>2
<1>4. a \div 64 = b \div 64
  <2>1. /\ (a \div 64) \div 2 = a \div 128 /\ a \div 64 \in Nat
        /\ (b \div 64) \div 2 = b \div 128 /\ b \div 64 \in Nat
    OBVIOUS
  <2> QED BY <1>2, <1>3, <2>1, LastBitTells
<1>5. a \div 32 = b \div 32
  <2>1. /\ (a \div 32) \div 2 = a \div 64 /\ a \div 32 \in Nat
        /\ (b \div 32) \div 2 = b \div 64 /\ b \div 32 \in Nat
    OBVIOUS
  <2> QED BY <1>2, <1>4, <2>1, LastBitTells
<1>6. a \div 16 = b \div 16
  <2>1. /\ (a \div 16) \div 2 = a \div 32 /\ a \div 16 \in Nat
        /\ (b \div 16) \div 2 = b \div 32 /\ b \div 16 \in Nat
    OBVIOUS
  <2> QED BY <1>2, <1>5, <2>1, LastBitTells
<1>7. a \div 8 = b \div 8
  <2>1. /\ (a \div 8) \div 2 = a \div 16 /\ a \div 8 \in Nat
        /\ (b \div 8) \div 2 = b \div 16 /\ b \div 8 \in Nat
    OBVIOUS
  <2> QED BY <1>2, <1>6, <2>1, LastBitTells
<1>8. a \div 4 = b \div 4
  <2>1. /\ (a \div 4) \div 2 = a \div 8 /\ a \div 4 \in Nat
        /\ (b \div 4) \div 2 = b \div 8 /\ b \div 4 \in Nat
    OBVIOUS
  <2> QED BY <1>2, <1>7, <2>1, LastBitTells
<1>9. a \div 2 = b \div 2
  <2>1. /\ (a \div 2) \div 2 = a \div 4 /\ a \div 2 \in Nat
        /\ (b \div 2) \div 2 = b \div 4 /\ b \div 2 \in Nat
    OBVIOUS
  <2> QED BY <1>2, <1>8, <2>1, LastBitTells
<1> QED BY <1>2, <1>9, LastBitTells

LEMMA InitialType == Initial \in Register
  BY DEF Initial, Register

\* A byte changes the lower half only.
LEMMA XorByte ==
  ASSUME NEW c \in Register, NEW byte
  PROVE  /\ Xor(c, Bits(byte)) \in Register
         /\ \A i \in 0 .. 7 : i \in Xor(c, Bits(byte)) <=> ~(i \in c <=> i \in Bits(byte))
         /\ SameHigh(Xor(c, Bits(byte)), c)
<1>1. \A i \in 8 .. 15 : i \notin 0 .. 7
  OBVIOUS
<1>2. 0 .. 7 \subseteq 0 .. 15
  OBVIOUS
<1> QED BY <1>1, <1>2, BitsType DEF Xor, Register, SameHigh

LEMMA CrcByteType ==
  ASSUME NEW c \in Register, NEW byte
  PROVE  CrcByte(c, byte) \in Register
  BY XorByte, CrcBitsStep DEF CrcByte

LEMMA CrcByteInjective ==
  ASSUME NEW c \in Register, NEW d \in Register, NEW byte, CrcByte(c, byte) = CrcByte(d, byte)
  PROVE  c = d
<1>1. Xor(c, Bits(byte)) = Xor(d, Bits(byte))
  BY XorByte, CrcBitsInjective DEF CrcByte
<1>2. \A i \in 0 .. 15 : i \in 0 .. 7 \/ i \in 8 .. 15
  OBVIOUS
<1>3. SameLow(c, d)
  BY <1>1, XorByte DEF SameLow
<1>4. SameHigh(c, d)
  BY <1>1, XorByte DEF SameHigh
<1> QED BY <1>3, <1>4, SameBits

\* The outer loop, for any number of bytes.
LEMMA CrcRunSteps ==
  ASSUME NEW bytes, Len(bytes) \in Nat
  PROVE  /\ CrcRun(bytes)[0] = Initial
         /\ \A i \in 1 .. Len(bytes) : CrcRun(bytes)[i] = CrcByte(CrcRun(bytes)[i - 1], bytes[i])
         /\ CrcOf(bytes) = CrcRun(bytes)[Len(bytes)]
<1> DEFINE Runs(g, n) == g = [i \in 0 .. n |-> IF i = 0 THEN Initial
                                              ELSE CrcByte(g[i - 1], bytes[i])]
           S == {n \in Nat : \E g : Runs(g, n)}
<1>1. 0 \in S
  <2> DEFINE g == [i \in 0 .. 0 |-> Initial]
  <2>1. Runs(g, 0)
    OBVIOUS
  <2> QED BY <2>1
<1>2. ASSUME NEW n \in Nat, n \in S PROVE n + 1 \in S
  <2>1. PICK g : Runs(g, n)
    BY <1>2
  <2> DEFINE h == [i \in 0 .. n + 1 |-> IF i <= n THEN g[i] ELSE CrcByte(g[n], bytes[n + 1])]
  <2>2. \A i \in 0 .. n + 1 : h[i] = IF i = 0 THEN Initial ELSE CrcByte(h[i - 1], bytes[i])
    <3> TAKE i \in 0 .. n + 1
    <3>1. CASE i = 0
      BY <2>1, <3>1
    <3>2. CASE i \in 1 .. n
      <4>1. i \in 0 .. n /\ i - 1 \in 0 .. n + 1 /\ i - 1 <= n /\ i <= n /\ i # 0
        BY <3>2
      <4>2. h[i - 1] = g[i - 1] /\ h[i] = g[i]
        BY <4>1
      <4>3. g[i] = CrcByte(g[i - 1], bytes[i])
        BY <2>1, <4>1
      <4> QED BY <4>1, <4>2, <4>3
    <3>3. CASE i = n + 1
      <4>1. i - 1 = n /\ n \in 0 .. n + 1 /\ n <= n /\ ~(i <= n) /\ i # 0
        BY <3>3
      <4> QED BY <4>1, <3>3
    <3> QED BY <3>1, <3>2, <3>3
  <2>3. Runs(h, n + 1)
    BY <2>2
  <2> HIDE DEF h, Runs
  <2> QED BY <2>3
<1>3. \E g : Runs(g, Len(bytes))
  <2> HIDE DEF Runs
  <2>1. Nat \subseteq S
    BY <1>1, <1>2, CountUp
  <2> QED BY <2>1
<1>4. CrcRun(bytes) = CHOOSE g : Runs(g, Len(bytes))
  BY DEF CrcRun
<1>5. Runs(CrcRun(bytes), Len(bytes))
  <2> HIDE DEF Runs
  <2> QED BY <1>3, <1>4
<1>6. CrcOf(bytes) = CrcRun(bytes)[Len(bytes)]
  BY DEF CrcOf
<1> QED BY <1>5, <1>6

AfterMods(mods) == CrcBits(Xor(Initial, Bits(mods)))

AfterKey(mods, key) == CrcBits(Xor(CrcBits(AfterMods(mods)), Bits(key)))

LEMMA AfterKeyType ==
  ASSUME NEW m, NEW k
  PROVE  /\ Xor(Initial, Bits(m)) \in Register /\ AfterMods(m) \in Register
         /\ CrcBits(AfterMods(m)) \in Register
         /\ Xor(CrcBits(AfterMods(m)), Bits(k)) \in Register /\ AfterKey(m, k) \in Register
  BY InitialType, XorByte, CrcBitsStep DEF AfterMods, AfterKey

LEMMA XorNoBits ==
  ASSUME NEW c
  PROVE  Xor(c, Bits(0)) = c
  BY NoBits DEF Xor

\* The five keys that are not used do not hide the difference.
LEMMA ReportRun ==
  ASSUME NEW m, NEW k
  PROVE  \E g : /\ g[3] = AfterKey(m, k)
                /\ \A i \in 4 .. 8 : g[i] = CrcByte(g[i - 1], 0)
                /\ CrcOf(KeyReportBytes(m, k)) = g[8]
<1> DEFINE b == KeyReportBytes(m, k)
           g == CrcRun(b)
<1>1. /\ Len(b) = 8 /\ b[1] = m /\ b[2] = 0 /\ b[3] = k
      /\ \A i \in 4 .. 8 : b[i] = 0
  BY DEF KeyReportBytes
<1> HIDE DEF b
<1>2. /\ g[0] = Initial /\ CrcOf(b) = g[8]
      /\ \A i \in 1 .. 8 : g[i] = CrcByte(g[i - 1], b[i])
  <2>1. Len(b) \in Nat
    BY <1>1
  <2>2. /\ g[0] = Initial /\ CrcOf(b) = g[Len(b)]
        /\ \A i \in 1 .. Len(b) : g[i] = CrcByte(g[i - 1], b[i])
    BY <2>1, CrcRunSteps
  <2> HIDE DEF g
  <2> QED BY <1>1, <2>2
<1> HIDE DEF g
<1>3. g[1] = AfterMods(m)
  BY <1>1, <1>2 DEF AfterMods, CrcByte
<1>4. g[2] = CrcBits(AfterMods(m))
  BY <1>1, <1>2, <1>3, XorNoBits DEF CrcByte
<1>5. g[3] = AfterKey(m, k)
  BY <1>1, <1>2, <1>4 DEF CrcByte, AfterKey
<1>6. \A i \in 4 .. 8 : g[i] = CrcByte(g[i - 1], 0)
  BY <1>1, <1>2
<1> QED BY <1>2, <1>5, <1>6 DEF b

LEMMA SameAfterKey ==
  ASSUME NEW m, NEW k, NEW n, NEW l,
         CrcOf(KeyReportBytes(m, k)) = CrcOf(KeyReportBytes(n, l))
  PROVE  AfterKey(m, k) = AfterKey(n, l)
<1>1. PICK g : /\ g[3] = AfterKey(m, k)
               /\ \A i \in 4 .. 8 : g[i] = CrcByte(g[i - 1], 0)
               /\ CrcOf(KeyReportBytes(m, k)) = g[8]
  BY ReportRun
<1>2. PICK h : /\ h[3] = AfterKey(n, l)
               /\ \A i \in 4 .. 8 : h[i] = CrcByte(h[i - 1], 0)
               /\ CrcOf(KeyReportBytes(n, l)) = h[8]
  BY ReportRun
<1>3. /\ g[4] = CrcByte(g[3], 0) /\ g[5] = CrcByte(g[4], 0) /\ g[6] = CrcByte(g[5], 0)
      /\ g[7] = CrcByte(g[6], 0) /\ g[8] = CrcByte(g[7], 0)
  BY <1>1
<1>4. /\ h[4] = CrcByte(h[3], 0) /\ h[5] = CrcByte(h[4], 0) /\ h[6] = CrcByte(h[5], 0)
      /\ h[7] = CrcByte(h[6], 0) /\ h[8] = CrcByte(h[7], 0)
  BY <1>2
<1>5. /\ g[3] \in Register /\ g[4] \in Register /\ g[5] \in Register /\ g[6] \in Register
      /\ g[7] \in Register
  BY <1>1, <1>3, AfterKeyType, CrcByteType
<1>6. /\ h[3] \in Register /\ h[4] \in Register /\ h[5] \in Register /\ h[6] \in Register
      /\ h[7] \in Register
  BY <1>2, <1>4, AfterKeyType, CrcByteType
<1>7. g[8] = h[8]
  BY <1>1, <1>2
<1>8. g[7] = h[7] BY <1>3, <1>4, <1>5, <1>6, <1>7, CrcByteInjective
<1>9. g[6] = h[6] BY <1>3, <1>4, <1>5, <1>6, <1>8, CrcByteInjective
<1>10. g[5] = h[5] BY <1>3, <1>4, <1>5, <1>6, <1>9, CrcByteInjective
<1>11. g[4] = h[4] BY <1>3, <1>4, <1>5, <1>6, <1>10, CrcByteInjective
<1>12. g[3] = h[3] BY <1>3, <1>4, <1>5, <1>6, <1>11, CrcByteInjective
<1> QED BY <1>1, <1>2, <1>12

Differing(m, n) == Xor(Bits(m), Bits(n))

\* The sum of the modifiers is lost in the register where they differ in none of the two
\* lowest bits, and in more than one of the others.
LEMMA ModsTold ==
  ASSUME NEW m, NEW n, SameLow(AfterMods(m), AfterMods(n))
  PROVE  /\ 0 \notin Differing(m, n) /\ 1 \notin Differing(m, n)
         /\ \A j \in 2 .. 7 : Differing(m, n) # {j}
<1> DEFINE p == Xor(Initial, Bits(m))
           q == Xor(Initial, Bits(n))
<1>1. PICK s \in SUBSET (1 .. 8) : ShiftedOut(p, s) /\ ByteStep(p, s, CrcBits(p))
  BY AfterKeyType, CrcBitsStep
<1>2. PICK t \in SUBSET (1 .. 8) : ShiftedOut(q, t) /\ ByteStep(q, t, CrcBits(q))
  BY AfterKeyType, CrcBitsStep
<1>3. /\ 8 \in p /\ 14 \in p /\ 15 \in p /\ 8 \in q /\ 14 \in q /\ 15 \in q
  BY BitsType DEF Xor, Initial
<1>4. \A i \in 0 .. 7 : i \in Differing(m, n) <=> ~(i \in p <=> i \in q)
  BY DEF Xor, Initial, Differing
<1>5. SameLow(CrcBits(p), CrcBits(q))
  BY DEF AfterMods
<1> HIDE DEF p, q
<1>6. /\ 1 \in s <=> 1 \in t
      /\ 2 \in s <=> 2 \in t
      /\ 8 \in s <=> 8 \in t
  BY <1>1, <1>2, <1>3, <1>5 DEF ByteStep, SameLow
<1>7. /\ 0 \in p <=> 0 \in q
      /\ 1 \in p <=> 1 \in q
  BY <1>1, <1>2, <1>6 DEF ShiftedOut
<1>8. ASSUME NEW j \in 2 .. 7, Differing(m, n) = {j} PROVE FALSE
  <2>1. \A i \in 0 .. 7 : i # j => (i \in p <=> i \in q)
    BY <1>4, <1>8
  <2>2. ~(j \in p <=> j \in q)
    BY <1>4, <1>8
  <2>3. j \in {2, 3, 4, 5, 6, 7}
    OBVIOUS
  <2> QED BY <1>1, <1>2, <1>6, <2>1, <2>2, <2>3 DEF ShiftedOut
<1> QED BY <1>4, <1>7, <1>8

\* The reports differ in the key and in two modifiers at least, none of them the left Ctrl
\* or the left Shift.
MayCollide(m, k, n, l) ==
  /\ k # l
  /\ Differing(m, n) \subseteq 2 .. 7
  /\ \E i, j \in Differing(m, n) : i # j

\* Two reports with one checksum are the same or differ so.
LEMMA CollisionsDiffer ==
  ASSUME NEW m \in 0 .. 255, NEW k \in 0 .. 255, NEW n \in 0 .. 255, NEW l \in 0 .. 255,
         CrcOf(KeyReportBytes(m, k)) = CrcOf(KeyReportBytes(n, l))
  PROVE  (m = n /\ k = l) \/ MayCollide(m, k, n, l)
<1> DEFINE a == CrcBits(AfterMods(m))
           b == CrcBits(AfterMods(n))
<1>1. a \in Register /\ b \in Register
  BY AfterKeyType
<1>2. Xor(a, Bits(k)) = Xor(b, Bits(l))
  BY SameAfterKey, AfterKeyType, CrcBitsInjective DEF AfterKey
<1>3. SameHigh(a, b)
  BY <1>1, <1>2, XorByte DEF SameHigh
<1>4. SameLow(AfterMods(m), AfterMods(n))
  BY <1>3, AfterKeyType, UpperTells
<1>5. Differing(m, n) \subseteq 0 .. 7
  BY BitsType DEF Differing, Xor
<1>6. Differing(m, n) \subseteq 2 .. 7
  <2>1. \A i \in 0 .. 7 : i # 0 /\ i # 1 => i \in 2 .. 7
    OBVIOUS
  <2> QED BY <1>4, <1>5, <2>1, ModsTold
<1>7. ASSUME a = b PROVE m = n /\ k = l
  <2>1. AfterMods(m) = AfterMods(n)
    BY <1>7, AfterKeyType, CrcBitsInjective
  <2>2. Xor(Initial, Bits(m)) = Xor(Initial, Bits(n))
    BY <2>1, AfterKeyType, CrcBitsInjective DEF AfterMods
  <2>3. Bits(m) = Bits(n)
    BY <2>2 DEF Xor
  <2>4. Bits(k) = Bits(l)
    BY <1>2, <1>7 DEF Xor
  <2> QED BY <2>3, <2>4, BitsTell
<1>8. CASE Differing(m, n) = {}
  <2>1. Bits(m) = Bits(n)
    BY <1>8 DEF Differing, Xor
  <2> QED BY <1>7, <2>1, BitsTell
<1>9. CASE Differing(m, n) # {}
  <2>1. \E i, j \in Differing(m, n) : i # j
    <3>1. PICK j : j \in Differing(m, n)
      BY <1>9
    <3>2. Differing(m, n) # {j}
      BY <1>4, <1>6, <3>1, ModsTold
    <3> QED BY <3>1, <3>2
  <2>2. k # l
    <3> SUFFICES ASSUME k = l PROVE FALSE
      OBVIOUS
    <3>1. a = b
      BY <1>2 DEF Xor
    <3>2. m = n
      BY <1>7, <3>1
    <3> QED BY <1>9, <3>2 DEF Differing, Xor
  <2> QED BY <1>6, <2>1, <2>2 DEF MayCollide
<1> QED BY <1>8, <1>9

\* No report has the checksum that stands for none.
LEMMA SumsAreNotNone ==
  ASSUME NEW m, NEW k
  PROVE  CrcOf(KeyReportBytes(m, k)) # {}
<1> SUFFICES ASSUME CrcOf(KeyReportBytes(m, k)) = {} PROVE FALSE
  OBVIOUS
<1>1. {} \in Register
  BY DEF Register
<1>2. CrcBits({}) = {}
  <2>1. PICK s \in SUBSET (1 .. 8) : ShiftedOut({}, s) /\ ByteStep({}, s, CrcBits({}))
    BY <1>1, CrcBitsStep
  <2>2. /\ 1 \notin s /\ 2 \notin s /\ 3 \notin s /\ 4 \notin s
        /\ 5 \notin s /\ 6 \notin s /\ 7 \notin s /\ 8 \notin s
    BY <2>1 DEF ShiftedOut
  <2>3. SameLow(CrcBits({}), {}) /\ SameHigh(CrcBits({}), {})
    BY <2>1, <2>2 DEF ByteStep, SameLow, SameHigh
  <2> QED BY <1>1, <2>3, CrcBitsStep, SameBits
<1>3. CrcByte({}, 0) = {}
  BY <1>2, XorNoBits DEF CrcByte
<1>4. AfterKey(m, k) = {}
  <2>1. PICK g : /\ g[3] = AfterKey(m, k)
                 /\ \A i \in 4 .. 8 : g[i] = CrcByte(g[i - 1], 0)
                 /\ CrcOf(KeyReportBytes(m, k)) = g[8]
    BY ReportRun
  <2>2. /\ g[4] = CrcByte(g[3], 0) /\ g[5] = CrcByte(g[4], 0) /\ g[6] = CrcByte(g[5], 0)
        /\ g[7] = CrcByte(g[6], 0) /\ g[8] = CrcByte(g[7], 0)
    BY <2>1
  <2>3. /\ g[3] \in Register /\ g[4] \in Register /\ g[5] \in Register /\ g[6] \in Register
        /\ g[7] \in Register
    BY <2>1, <2>2, AfterKeyType, CrcByteType
  <2>4. g[8] = {} BY <2>1
  <2>5. g[7] = {} BY <1>1, <1>3, <2>2, <2>3, <2>4, CrcByteInjective
  <2>6. g[6] = {} BY <1>1, <1>3, <2>2, <2>3, <2>5, CrcByteInjective
  <2>7. g[5] = {} BY <1>1, <1>3, <2>2, <2>3, <2>6, CrcByteInjective
  <2>8. g[4] = {} BY <1>1, <1>3, <2>2, <2>3, <2>7, CrcByteInjective
  <2>9. g[3] = {} BY <1>1, <1>3, <2>2, <2>3, <2>8, CrcByteInjective
  <2> QED BY <2>1, <2>9
<1> DEFINE a == CrcBits(AfterMods(m))
<1>5. Xor(a, Bits(k)) = {}
  BY <1>1, <1>2, <1>4, AfterKeyType, CrcBitsInjective DEF AfterKey
<1>6. SameHigh(a, CrcBits({}))
  BY <1>2, <1>5, AfterKeyType, XorByte DEF SameHigh
<1>7. 1 \notin AfterMods(m)
  BY <1>1, <1>6, AfterKeyType, UpperTells DEF SameLow
<1>8. 1 \in AfterMods(m)
  <2> DEFINE p == Xor(Initial, Bits(m))
  <2>1. PICK s \in SUBSET (1 .. 8) : ByteStep(p, s, CrcBits(p))
    BY AfterKeyType, CrcBitsStep
  <2>2. 9 \in p
    BY BitsType DEF Xor, Initial
  <2> QED BY <2>1, <2>2 DEF ByteStep, AfterMods
<1> QED BY <1>7, <1>8
=============================================================================
