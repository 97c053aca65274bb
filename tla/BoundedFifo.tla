---------------------------- MODULE BoundedFifo ----------------------------
(***************************************************************************)
(* What the byte queue between the UART interrupt and the command task     *)
(* promises: a first-in first-out queue of at most Capacity bytes, whose   *)
(* consumer holds the last byte it took in its hand.  The producer may     *)
(* throw the whole content away, which is how the interrupt handler reacts *)
(* to a message that does not fit.                                         *)
(***************************************************************************)
EXTENDS Naturals, Sequences

CONSTANTS Byte,      \* the values a queue entry can have
          Capacity   \* the number of bytes the queue can hold

VARIABLES fifo,      \* the bytes queued, the oldest first
          hand       \* the byte the consumer took last

fifoVars == <<fifo, hand>>

FifoInit == fifo = <<>> /\ hand \in Byte

Put(b) == /\ Len(fifo) < Capacity
          /\ fifo' = Append(fifo, b)
          /\ UNCHANGED hand

Take == /\ fifo # <<>>
        /\ hand' = Head(fifo)
        /\ fifo' = Tail(fifo)

Discard == fifo' = <<>> /\ UNCHANGED hand

FifoNext == (\E b \in Byte : Put(b)) \/ Take \/ Discard

FifoSpec == FifoInit /\ [][FifoNext]_fifoVars
=============================================================================
