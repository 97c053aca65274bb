----------------------------- MODULE KernelMsg -----------------------------
(***************************************************************************)
(* The message calls of kernel/kernel.c over the ring of kernel/msg.c:     *)
(* Kernel_send_msg, Kernel_recv_msg and Kernel_flush_msg, each run without *)
(* interruption on a ring that the task and the interrupt of IsrQueue have *)
(* left behind.                                                            *)
(***************************************************************************)
EXTENDS IsrQueue

CONSTANTS Message,   \* the byte strings that are sent
          MaxRecv    \* the largest count a receiver asks for

ASSUME MessageAssumption == Message \subseteq Seq(Byte) /\ MaxRecv \in Nat

\* What a receiver has got, and the queue it leaves.
Untouched(qq) == [data |-> <<>>, queue |-> qq]

\* One call of Kernel_msgQ_dequeue, which does nothing to an empty queue.
DequeueOne(r) == IF IsEmpty(r.queue) THEN r
                 ELSE [data  |-> Append(r.data, Oldest(r.queue)),
                       queue |-> Dequeue(r.queue)]

\* The results of 0 up to n calls.
Dequeues(qq, n) ==
  LET after[i \in 0 .. n] == IF i = 0 THEN Untouched(qq) ELSE DequeueOne(after[i - 1])
  IN after

DequeueN(qq, n) == Dequeues(qq, n)[n]

\* What a sender has put in before its first byte.
NoneStored(qq) == [ok |-> TRUE, stored |-> 0, queue |-> qq]

\* One call of Kernel_msgQ_enqueue, unless one before it has failed.
EnqueueOne(r, b) == IF r.ok /\ ~IsFull(r.queue)
                    THEN [ok |-> TRUE, stored |-> r.stored + 1, queue |-> Enqueue(r.queue, b)]
                    ELSE [r EXCEPT !.ok = FALSE]

\* The results of the calls for the bytes of a message, one after the other.
Enqueues(qq, msg) ==
  LET after[i \in 0 .. Len(msg)] ==
        IF i = 0 THEN NoneStored(qq) ELSE EnqueueOne(after[i - 1], msg[i])
  IN after

EnqueueAll(qq, msg) == Enqueues(qq, msg)[Len(msg)]

\* Mutant: a refused message is not rolled back at all.
SendMsgNoRollback(qq, msg) == [ok |-> EnqueueAll(qq, msg).ok, queue |-> EnqueueAll(qq, msg).queue]

\* Kernel_send_msg.  When a byte does not fit, as many bytes as were stored are
\* dequeued again, from the front of the queue.
SendMsg(qq, msg) ==
  LET r == EnqueueAll(qq, msg)
  IN [ok |-> r.ok, queue |-> IF r.ok THEN r.queue ELSE DequeueN(r.queue, r.stored).queue]

\* Kernel_recv_msg: up to count bytes, fewer when the queue runs empty.
RecvMsg(qq, count) == DequeueN(qq, count)

\* Kernel_flush_msg: dequeue until the queue is empty, which is so after QSize - 1
\* bytes at the latest.
FlushMsg(qq) == DequeueN(qq, QSize).queue

-----------------------------------------------------------------------------

\* A message that fits is appended whole.  One that does not replaces as many of the
\* oldest bytes as fitted by its own beginning.
SendPromise(msg) ==
  LET free == QSize - 1 - Len(Contents(q))
      c    == Contents(q) \o SubSeq(msg, 1, free)
      r    == SendMsg(q, msg)
  IN /\ r.ok <=> Len(msg) <= free
     /\ Contents(r.queue) = IF r.ok THEN Contents(q) \o msg ELSE SubSeq(c, free + 1, Len(c))

\* A receiver gets the oldest bytes, fewer than it asked for only if there are no more.
RecvPromise(count) ==
  LET r == RecvMsg(q, count)
  IN /\ Contents(q) = r.data \o Contents(r.queue)
     /\ Len(r.data) < count => Contents(r.queue) = <<>>

\* What the message calls, made of single bytes put in and taken out, do to the bytes
\* that are queued, wherever the ring has wrapped.  A flush empties it and leaves the
\* clear slots that the next bytes are to find (kernel.c:61-109).
CallsAsPromised ==
  todo = {} => /\ \A msg \in Message : SendPromise(msg)
               /\ \A count \in 0 .. MaxRecv : RecvPromise(count)
               /\ FlushMsg(q) = Flushed(q)
=============================================================================
