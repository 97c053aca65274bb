----------------------------- MODULE UartFramer -----------------------------
(***************************************************************************)
(* The framing done by the UART receive interrupt, Hal_uart_isr of         *)
(* brd/uart.c: the bytes of the serial line are collected in a buffer and  *)
(* handed to the message queue frame by frame.  A frame that begins with   *)
(* '@' or '#' (raw report) ends with CR or LF, one that begins with '3'    *)
(* (Pi-KVM request) has a fixed length.  Nothing marks the beginning of a  *)
(* frame but a silence of more than GapTicks milliseconds before it.       *)
(*                                                                         *)
(* The host sends frames of the set Frame, with pauses wherever it likes;  *)
(* the line may lose a byte or add one.                                    *)
(***************************************************************************)
EXTENDS Naturals, Sequences

CONSTANTS Frame,      \* the frames the host sends
          Char,       \* the values of a byte
          BufLen,     \* UART_RX_BUF_LEN
          PikvmLen,   \* the length of a Pi-KVM request
          GapTicks,   \* the silence, in ms, after which a frame starts afresh
          TickMod     \* the tick counter counts modulo TickMod (2^32)

ASSUME FramerAssumption ==
  /\ Frame \subseteq Seq(Char) \ {<<>>}
  /\ {"@", "#", "3", "cr", "lf"} \subseteq Char
  /\ BufLen \in Nat /\ PikvmLen \in 1 .. BufLen
  /\ GapTicks \in Nat /\ TickMod \in Nat /\ GapTicks + 3 < TickMod

VARIABLES buf,     \* the bytes collected, cmd_buf[0 .. cmd_cnt - 1]
          last,    \* last_tick, the time of the latest interrupt
          now,     \* HAL_GetTick()
          idle,    \* how long the line has really been silent
          cur,     \* the frame the host is sending or has sent last
          left,    \* what of it has still to be sent
          got,     \* the frame the latest interrupt handed to Kernel_send_msg, if any
          clean    \* the host's frames and the collected bytes are in step

vars == <<buf, last, now, idle, cur, left, got, clean>>

Init == /\ buf = <<>> /\ got = <<>>
        /\ cur = <<>> /\ left = <<>>
        /\ last = 0 /\ now = 0 /\ idle = 0
        /\ clean = TRUE

-----------------------------------------------------------------------------
(* Hal_uart_isr.                                                           *)

\* Mutant: a counter that has wrapped around is taken for no time at all.
ElapsedNoWrap == IF now >= last THEN now - last ELSE 0

\* The time since the latest interrupt as the handler computes it.  After a wrap
\* of the counter it adds 0xffffffff, one less than the counter's period.
Elapsed == IF now >= last THEN now - last ELSE (now + (TickMod - 1)) - last

\* Mutant: the end of a raw report is only recognised by CR.
CompleteAtCR(b) == LET ch == b[Len(b)]
                   IN \/ b[1] \in {"@", "#"} /\ ch = "cr"
                      \/ b[1] = "3" /\ Len(b) = PikvmLen

Complete(b) == LET ch == b[Len(b)]
               IN \/ b[1] \in {"@", "#"} /\ ch \in {"cr", "lf"}
                  \/ b[1] = "3" /\ Len(b) = PikvmLen

\* Mutant: the buffer wraps one byte too late.
KeptTooLong == IF Elapsed > GapTicks \/ Len(buf) > BufLen THEN <<>> ELSE buf

\* The bytes that are kept when another one arrives.
Kept == IF Elapsed > GapTicks \/ Len(buf) >= BufLen THEN <<>> ELSE buf

\* Mutant: the buffer is not emptied when a frame has been handed over.
IsrKeepsFrame(ch) ==
  LET b == Append(Kept, ch)
  IN /\ buf' = b
     /\ got' = IF Complete(b) THEN b ELSE <<>>
     /\ last' = now /\ idle' = 0
     /\ UNCHANGED now

Isr(ch) ==
  LET b == Append(Kept, ch)
  IN /\ buf' = IF Complete(b) THEN <<>> ELSE b
     /\ got' = IF Complete(b) THEN b ELSE <<>>
     /\ last' = now /\ idle' = 0
     /\ UNCHANGED now

-----------------------------------------------------------------------------
(* The host and the line.                                                  *)

StartFrame(f) == /\ left = <<>>
                 /\ cur' = f /\ left' = f
                 /\ UNCHANGED <<buf, last, now, idle, got, clean>>

\* The frames that can be told apart on the line.
WellFormed(f) ==
  /\ f \in Seq(Char) /\ Len(f) \in 1 .. BufLen
  /\ \/ f[1] = "3" /\ Len(f) = PikvmLen
     \/ /\ f[1] \in {"@", "#"}
        /\ \A i \in 1 .. Len(f) : f[i] \in {"cr", "lf"} <=> i = Len(f)

\* A byte arrives.  A long silence before a frame puts the two in step, one in
\* the middle of a frame puts them out of step.  So does a frame that is not well
\* formed, as a raw report with a CR or LF among its bytes, which ends there.
Receive == /\ left # <<>>
           /\ Isr(Head(left))
           /\ left' = Tail(left)
           /\ clean' = IF left = cur THEN WellFormed(cur) /\ (clean \/ idle > GapTicks + 1)
                                     ELSE clean /\ idle <= GapTicks
           /\ UNCHANGED cur

LoseByte == /\ left # <<>>
            /\ left' = Tail(left)
            /\ clean' = FALSE
            /\ UNCHANGED <<buf, last, now, idle, cur, got>>

Noise(ch) == /\ Isr(ch)
             /\ clean' = FALSE
             /\ UNCHANGED <<cur, left>>

\* A millisecond passes.  The line is never silent for a whole period of the
\* counter (49 days); the bound stops one tick short of it.
Tick == /\ idle < TickMod - 1
        /\ now' = (now + 1) % TickMod
        /\ idle' = idle + 1
        /\ UNCHANGED <<buf, last, cur, left, got, clean>>

Next == \/ \E f \in Frame : StartFrame(f)
        \/ Receive
        \/ LoseByte
        \/ \E ch \in Char : Noise(ch)
        \/ Tick

Spec == Init /\ [][Next]_vars

-----------------------------------------------------------------------------

TypeOK == /\ buf \in Seq(Char) /\ Len(buf) <= BufLen
          /\ last \in 0 .. TickMod - 1
          /\ now \in 0 .. TickMod - 1
          /\ idle \in 0 .. TickMod - 1
          /\ cur \in Seq(Char) /\ left \in Seq(Char) /\ got \in Seq(Char)
          /\ clean \in BOOLEAN

\* Every frame the host sends in step is handed over once, whole, and exactly
\* when its last byte has arrived: whatever was lost or added before, and also after a
\* raw report that a CR or LF among its bytes has cut short, one silence of more than
\* GapTicks + 1 ms before a frame is enough (uart.c:112-140).
ExactFraming == clean /\ left # cur => got = IF left = <<>> THEN cur ELSE <<>>

\* The handler measures the silence up to one millisecond: a pause of GapTicks ms
\* never splits a frame, and one of GapTicks + 2 ms always ends it, also across a
\* wrap of the tick counter (uart.c:105-114).
SilenceMeasured == /\ idle <= GapTicks => Elapsed <= GapTicks
                   /\ idle > GapTicks + 1 => Elapsed > GapTicks
-----------------------------------------------------------------------------
(* What makes the properties inductive.                                    *)

\* The interval the handler works with, but for the wrap of the counter.
ClockInv == now = last + idle \/ now + TickMod = last + idle

\* In step, the bytes collected and the bytes to come make up the frame.
InStep == clean => IF left = <<>> THEN buf = <<>> ELSE cur = buf \o left

SendingFrame == left # <<>> => cur \in Frame /\ (clean /\ left # cur => WellFormed(cur))
=============================================================================
