-------------------------- MODULE UartFramerProofs --------------------------
(***************************************************************************)
(* The framer hands over exactly the frames of the host, for every buffer  *)
(* length, tick period and set of frames.                                  *)
(***************************************************************************)
EXTENDS UartFramer, DataLemmas

IInv == TypeOK /\ ClockInv /\ InStep /\ SendingFrame /\ ExactFraming

\* A prefix of a well-formed frame is complete exactly when it is the frame.
LEMMA CompleteIsWhole ==
  ASSUME NEW f, WellFormed(f), NEW b \in Seq(Char), NEW t \in Seq(Char),
         b # <<>>, f = b \o t
  PROVE  Complete(b) <=> t = <<>>
<1>1. /\ f \in Seq(Char) /\ Len(b) \in Nat \ {0} /\ Len(t) \in Nat
      /\ Len(f) = Len(b) + Len(t)
      /\ \A i \in 1 .. Len(b) : f[i] = b[i]
      /\ t = <<>> <=> Len(t) = 0
  BY ConcatProperties, EmptySeq, LenProperties
<1>2. b[1] = f[1] /\ b[Len(b)] = f[Len(b)] /\ Len(b) \in 1 .. Len(f)
  BY <1>1
<1>3. CASE f[1] = "3" /\ Len(f) = PikvmLen
  BY <1>1, <1>2, <1>3 DEF Complete
<1>4. CASE /\ f[1] \in {"@", "#"}
           /\ \A i \in 1 .. Len(f) : f[i] \in {"cr", "lf"} <=> i = Len(f)
  BY <1>1, <1>2, <1>4 DEF Complete
<1> QED BY <1>3, <1>4 DEF WellFormed

\* The silence is measured to within one tick.
LEMMA ClockMeasures == TypeOK /\ ClockInv => SilenceMeasured
<1> SUFFICES ASSUME TypeOK, ClockInv PROVE SilenceMeasured
  OBVIOUS
<1>1. /\ now \in Nat /\ last \in Nat /\ idle \in Nat /\ TickMod \in Nat /\ GapTicks \in Nat
      /\ now < TickMod /\ last < TickMod /\ idle < TickMod
      /\ now = last + idle \/ now + TickMod = last + idle
  BY FramerAssumption DEF TypeOK, ClockInv
<1>2. CASE now >= last
  BY <1>1, <1>2 DEF SilenceMeasured, Elapsed
<1>3. CASE now < last
  BY <1>1, <1>3 DEF SilenceMeasured, Elapsed
<1> QED BY <1>1, <1>2, <1>3

\* What one interrupt does to the types.
LEMMA IsrType ==
  ASSUME TypeOK, NEW ch \in Char, Isr(ch)
  PROVE  /\ buf' \in Seq(Char) /\ Len(buf') <= BufLen /\ got' \in Seq(Char)
         /\ last' \in 0 .. TickMod - 1 /\ now' \in 0 .. TickMod - 1
         /\ idle' \in 0 .. TickMod - 1
         /\ ClockInv'
<1>1. Kept \in Seq(Char) /\ Len(Kept) < BufLen
  BY FramerAssumption, EmptySeq, LenProperties DEF TypeOK, Kept
<1>2. /\ Append(Kept, ch) \in Seq(Char)
      /\ Len(Append(Kept, ch)) = Len(Kept) + 1
      /\ <<>> \in Seq(Char) /\ Len(<<>>) = 0
      /\ Len(Kept) \in Nat
  BY <1>1, AppendProperties, EmptySeq, LenProperties
<1>3. /\ buf' = IF Complete(Append(Kept, ch)) THEN <<>> ELSE Append(Kept, ch)
      /\ got' = IF Complete(Append(Kept, ch)) THEN Append(Kept, ch) ELSE <<>>
      /\ last' = now /\ idle' = 0 /\ now' = now
  BY DEF Isr
<1>4. buf' \in Seq(Char) /\ Len(buf') <= BufLen /\ got' \in Seq(Char)
  BY <1>1, <1>2, <1>3, FramerAssumption
<1> QED BY <1>3, <1>4, FramerAssumption DEF TypeOK, ClockInv

LEMMA InitInv == Init => IInv
<1> QED BY FramerAssumption, EmptySeq
        DEF Init, IInv, TypeOK, ClockInv, InStep, SendingFrame, ExactFraming

\* A byte of a frame sent in step.
LEMMA ReceiveInStep ==
  ASSUME IInv, Receive, clean'
  PROVE  /\ buf' = IF left' = <<>> THEN <<>> ELSE Append(Kept, Head(left))
         /\ got' = IF left' = <<>> THEN cur ELSE <<>>
         /\ left' # <<>> => cur = buf' \o left'
<1>1. /\ left # <<>> /\ left \in Seq(Char) /\ buf \in Seq(Char)
      /\ left' = Tail(left) /\ cur \in Frame /\ WellFormed(cur) /\ cur \in Seq(Char)
      /\ Len(buf) \in Nat /\ Len(left) \in Nat \ {0}
  <2>1. cur \in Frame /\ WellFormed(cur) BY DEF Receive, IInv, SendingFrame
  <2>. QED BY <2>1, EmptySeq, LenProperties DEF Receive, IInv, TypeOK
<1>2. Kept \in Seq(Char) /\ cur = Kept \o left
  <2>1. SilenceMeasured
    BY ClockMeasures DEF IInv
  <2>2. CASE left = cur
    <3>1. clean => buf = <<>>
      <4> SUFFICES ASSUME clean PROVE buf = <<>>
        OBVIOUS
      <4>1. cur = buf \o left
        BY <1>1 DEF IInv, InStep
      <4> QED BY <1>1, <2>2, <4>1, ConcatEqualIffEmpty, ConcatProperties, EmptySeq
    <3>2. ~clean => Elapsed > GapTicks
      BY <1>1, <2>1, <2>2 DEF Receive, SilenceMeasured
    <3>3. Kept = <<>>
      BY <3>1, <3>2 DEF Kept
    <3> QED BY <1>1, <2>2, <3>3, ConcatEmptySeq, EmptySeq
  <2>3. CASE left # cur
    <3>1. clean /\ idle <= GapTicks
      BY <2>3 DEF Receive
    <3>2. cur = buf \o left
      BY <1>1, <3>1 DEF IInv, InStep
    <3>3. Len(buf) < BufLen
      <4>1. Len(cur) = Len(buf) + Len(left) /\ Len(cur) <= BufLen
        BY <1>1, <3>2, ConcatProperties DEF WellFormed
      <4> QED BY <4>1, <1>1, FramerAssumption
    <3>4. ~(Elapsed > GapTicks)
      BY <2>1, <3>1, FramerAssumption DEF SilenceMeasured, Elapsed, IInv, TypeOK
    <3>5. ~(Len(buf) >= BufLen)
      BY <3>3, <1>1, FramerAssumption
    <3>6. Kept = buf
      BY <3>4, <3>5 DEF Kept
    <3> QED BY <1>1, <3>2, <3>6
  <2> QED BY <2>2, <2>3
<1> DEFINE b == Append(Kept, Head(left))
<1>3. cur = b \o Tail(left) /\ b \in Seq(Char) /\ Tail(left) \in Seq(Char) /\ b # <<>>
  <2>1. Head(left) \in Char
    BY <1>1, HeadTailProperties
  <2>2. b \in Seq(Char) /\ b # <<>>
    BY <1>2, <2>1, AppendProperties
  <2>3. Kept \o left = b \o Tail(left) /\ Tail(left) \in Seq(Char)
    BY <1>1, <1>2, MoveByte
  <2> QED BY <1>2, <2>2, <2>3
<1>4. /\ buf' = IF Complete(b) THEN <<>> ELSE b
      /\ got' = IF Complete(b) THEN b ELSE <<>>
  BY DEF Receive, Isr
<1> HIDE DEF b
<1>5. Complete(b) <=> Tail(left) = <<>>
  BY <1>1, <1>3, CompleteIsWhole
<1>6. Tail(left) = <<>> => b = cur
  BY <1>3, ConcatEmptySeq
<1> QED BY <1>1, <1>3, <1>4, <1>5, <1>6 DEF b

LEMMA NextInv == IInv /\ [Next]_vars => IInv'
<1> SUFFICES ASSUME IInv, [Next]_vars PROVE IInv'
  OBVIOUS
<1>1. ASSUME NEW f \in Frame, StartFrame(f) PROVE IInv'
  <2>1. f \in Seq(Char) /\ f # <<>>
    BY FramerAssumption
  <2>2. <<>> \o f = f
    BY <2>1, ConcatEmptySeq
  <2> QED BY <1>1, <2>1, <2>2
          DEF StartFrame, IInv, TypeOK, ClockInv, InStep, SendingFrame, ExactFraming
<1>2. CASE Receive
  <2>1. left # <<>> /\ left \in Seq(Char) /\ left' = Tail(left) /\ cur' = cur
    BY <1>2 DEF Receive, IInv, TypeOK
  <2>2. Head(left) \in Char /\ Tail(left) \in Seq(Char) /\ Isr(Head(left))
    BY <1>2, <2>1, HeadTailProperties DEF Receive
  <2>3. /\ buf' \in Seq(Char) /\ Len(buf') <= BufLen /\ got' \in Seq(Char)
        /\ last' \in 0 .. TickMod - 1 /\ now' \in 0 .. TickMod - 1
        /\ idle' \in 0 .. TickMod - 1
        /\ ClockInv'
    BY <2>2, IsrType DEF IInv
  <2>4. TypeOK'
    <3>1. clean' \in BOOLEAN
      BY <1>2 DEF Receive
    <3> QED BY <2>1, <2>2, <2>3, <3>1 DEF TypeOK, IInv
  <2>5. InStep' /\ ExactFraming'
    BY <1>2, <2>1, ReceiveInStep DEF InStep, ExactFraming
  <2>6. SendingFrame'
    BY <1>2, <2>1 DEF Receive, IInv, SendingFrame
  <2> QED BY <2>3, <2>4, <2>5, <2>6 DEF IInv
<1>3. CASE LoseByte
  <2>1. Tail(left) \in Seq(Char)
    BY <1>3, HeadTailProperties DEF LoseByte, IInv, TypeOK
  <2> QED BY <1>3, <2>1
          DEF LoseByte, IInv, TypeOK, ClockInv, InStep, SendingFrame, ExactFraming
<1>4. ASSUME NEW ch \in Char, Noise(ch) PROVE IInv'
  <2>1. /\ buf' \in Seq(Char) /\ Len(buf') <= BufLen /\ got' \in Seq(Char)
        /\ last' \in 0 .. TickMod - 1 /\ now' \in 0 .. TickMod - 1
        /\ idle' \in 0 .. TickMod - 1
        /\ ClockInv'
    BY <1>4, IsrType DEF IInv, Noise
  <2> QED BY <1>4, <2>1 DEF Noise, IInv, TypeOK, InStep, SendingFrame, ExactFraming
<1>5. CASE Tick
  <2>1. /\ now \in Nat /\ now < TickMod /\ idle \in Nat /\ idle + 1 < TickMod
        /\ TickMod \in Nat \ {0} /\ last \in Nat /\ last < TickMod
    BY <1>5, FramerAssumption DEF Tick, IInv, TypeOK
  <2>2. now' = IF now + 1 = TickMod THEN 0 ELSE now + 1
    BY <1>5, <2>1 DEF Tick
  <2>3. TypeOK'
    BY <1>5, <2>1, <2>2 DEF Tick, IInv, TypeOK
  <2>4. ClockInv'
    <3>1. /\ now = last + idle \/ now + TickMod = last + idle
          /\ idle' = idle + 1 /\ last' = last
      BY <1>5 DEF Tick, IInv, ClockInv
    <3>2. now' = last + idle' \/ now' + TickMod = last + idle'
      BY <2>1, <2>2, <3>1
    <3> QED BY <3>1, <3>2 DEF ClockInv
  <2>5. InStep' /\ SendingFrame' /\ ExactFraming'
    BY <1>5 DEF Tick, IInv, InStep, SendingFrame, ExactFraming
  <2> QED BY <2>3, <2>4, <2>5 DEF IInv
<1>6. CASE UNCHANGED vars
  BY <1>6 DEF vars, IInv, TypeOK, ClockInv, InStep, SendingFrame, ExactFraming
<1> QED BY <1>1, <1>2, <1>3, <1>4, <1>5, <1>6 DEF Next

\* A frame that is sent in step is handed over whole, once, with its last byte: for
\* every set of frames, well formed or not, every buffer that can hold a request and
\* every tick period, after any loss or noise and after raw reports that were cut short.
THEOREM FramingExact == Spec => []ExactFraming
<1>1. IInv => ExactFraming
  BY DEF IInv
<1>2. IInv /\ [Next]_vars => IInv'
  BY NextInv
<1> QED BY <1>1, <1>2, InitInv, PTL DEF Spec

-----------------------------------------------------------------------------
(* The types and the clock, whatever is sent.                              *)

Clocked == TypeOK /\ ClockInv

LEMMA ClockedStep == ASSUME Clocked, [Next]_vars PROVE Clocked'
<1>. USE DEF Clocked
<1>1. ASSUME NEW f \in Frame, StartFrame(f) PROVE Clocked'
  <2>1. f \in Seq(Char) BY FramerAssumption
  <2>. QED BY <1>1, <2>1 DEF StartFrame, TypeOK, ClockInv
<1>2. ASSUME NEW ch \in Char, Isr(ch)
      PROVE  /\ buf' \in Seq(Char) /\ Len(buf') <= BufLen /\ got' \in Seq(Char)
             /\ last' \in 0 .. TickMod - 1 /\ now' \in 0 .. TickMod - 1
             /\ idle' \in 0 .. TickMod - 1 /\ ClockInv'
  BY <1>2, IsrType
<1>3. CASE Receive
  <2>1. left # <<>> /\ left \in Seq(Char) BY <1>3 DEF Receive, TypeOK
  <2>2. Head(left) \in Char /\ Tail(left) \in Seq(Char) BY <2>1, HeadTailProperties
  <2>3. Isr(Head(left)) /\ left' = Tail(left) /\ cur' = cur BY <1>3 DEF Receive
  <2>4. clean' \in BOOLEAN BY <1>3 DEF Receive
  <2>. QED BY <1>2, <2>2, <2>3, <2>4 DEF TypeOK
<1>4. CASE LoseByte
  <2>1. Tail(left) \in Seq(Char) BY <1>4, HeadTailProperties DEF LoseByte, TypeOK
  <2>. QED BY <1>4, <2>1 DEF LoseByte, TypeOK, ClockInv
<1>5. ASSUME NEW ch \in Char, Noise(ch) PROVE Clocked'
  BY <1>2, <1>5 DEF Noise, TypeOK
<1>6. CASE Tick
  <2>1. /\ now \in Nat /\ now < TickMod /\ idle \in Nat /\ idle + 1 < TickMod
        /\ TickMod \in Nat \ {0} /\ last \in Nat /\ last < TickMod
    BY <1>6, FramerAssumption DEF Tick, TypeOK
  <2>2. now' = IF now + 1 = TickMod THEN 0 ELSE now + 1 BY <1>6, <2>1 DEF Tick
  <2>3. TypeOK' BY <1>6, <2>1, <2>2 DEF Tick, TypeOK
  <2>4. idle' = idle + 1 /\ last' = last BY <1>6 DEF Tick
  <2>5. now = last + idle \/ now + TickMod = last + idle BY DEF ClockInv
  <2>6. now' = last + idle' \/ now' + TickMod = last + idle' BY <2>1, <2>2, <2>4, <2>5
  <2>. QED BY <2>3, <2>4, <2>6 DEF ClockInv
<1>7. CASE UNCHANGED vars BY <1>7 DEF vars, TypeOK, ClockInv
<1>. QED BY <1>1, <1>3, <1>4, <1>5, <1>6, <1>7 DEF Next

LEMMA ClockedInit == Init => Clocked
  BY InitInv DEF IInv, Clocked

\* The buffer never runs over: for every set of frames, well formed or not, every loss
\* and all noise, cmd_cnt stays within it.
THEOREM TypeCorrect == Spec => []TypeOK
<1>1. Clocked /\ [Next]_vars => Clocked' BY ClockedStep
<1>2. Clocked => TypeOK BY DEF Clocked
<1>. QED BY <1>1, <1>2, ClockedInit, PTL DEF Spec

\* The handler's measure of the silence on the line is right to a millisecond, also
\* when the tick counter has wrapped around since the latest interrupt, whatever frames
\* are sent.
THEOREM SilenceExact == Spec => []SilenceMeasured
<1>1. Clocked /\ [Next]_vars => Clocked' BY ClockedStep
<1>2. Clocked => SilenceMeasured BY ClockMeasures DEF Clocked
<1>. QED BY <1>1, <1>2, ClockedInit, PTL DEF Spec
=============================================================================
