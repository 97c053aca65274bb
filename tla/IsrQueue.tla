------------------------------ MODULE IsrQueue ------------------------------
(***************************************************************************)
(* The byte queue as its two users see it.  The UART interrupt handler     *)
(* enqueues (Kernel_send_msg, brd/uart.c) and runs to completion; the      *)
(* command task dequeues (Kernel_recv_msg, app/cli_task.c) and can be      *)
(* interrupted between any two memory accesses of Kernel_msgQ_dequeue.     *)
(* The queue is not volatile and no interrupt is masked, so the three      *)
(* accesses that follow the emptiness test (store front, load the byte,    *)
(* clear its slot) may be emitted in any order that loads the byte before  *)
(* clearing it: the model takes them all.                                  *)
(***************************************************************************)
EXTENDS MsgQueue

VARIABLES q,        \* sMsgQ[KernelMsgQ_DebugCmd]
          todo,     \* the accesses Kernel_msgQ_dequeue has still to make
          idx,      \* its local variable idx
          out,      \* *out_data, the byte handed to the task
          ring      \* history: "exact", or "torn" once the queue was flushed in the
                    \*   middle of a dequeue, or "mended" when it was empty after that

vars == <<q, todo, idx, out, ring>>

Accesses == {"advance", "load", "clear"}

Init == /\ q = NewQueue
        /\ todo = {}
        /\ idx \in Slots
        /\ out \in Byte
        /\ ring = "exact"

-----------------------------------------------------------------------------
(* Kernel_msgQ_dequeue, called by the task.                                *)

\* A torn ring that is empty between two dequeues is as good as a new one.
Mend == ring' = IF ring = "torn" /\ todo' = {} /\ IsEmpty(q') THEN "mended" ELSE ring

\* The queue is not empty: the index of the oldest byte is computed.
TaskTest == /\ todo = {}
            /\ ~IsEmpty(q)
            /\ todo' = Accesses
            /\ idx' = Succ(q.front)
            /\ UNCHANGED <<q, out, ring>>

\* Mutant: front is moved on from where it stands, not to idx.
TaskAdvanceTwice == /\ "advance" \in todo
                    /\ todo' = todo \ {"advance"}
                    /\ q' = [q EXCEPT !.front = Succ(idx)]
                    /\ Mend
                    /\ UNCHANGED <<idx, out>>

\* The store does not look at front again, which a flush may have moved.
TaskAdvance == /\ "advance" \in todo
               /\ todo' = todo \ {"advance"}
               /\ q' = [q EXCEPT !.front = idx]
               /\ Mend
               /\ UNCHANGED <<idx, out>>

TaskLoad == /\ "load" \in todo
            /\ todo' = todo \ {"load"}
            /\ out' = q.slot[idx]
            /\ UNCHANGED <<q, idx, ring>>

\* Mutant: the slot is left as it is.
TaskClearSkipped == /\ "clear" \in todo /\ "load" \notin todo
                    /\ todo' = todo \ {"clear"}
                    /\ UNCHANGED <<q, idx, out>>
                    /\ Mend

TaskClear == /\ "clear" \in todo /\ "load" \notin todo
             /\ todo' = todo \ {"clear"}
             /\ q' = [q EXCEPT !.slot[idx] = Zero]
             /\ Mend
             /\ UNCHANGED <<idx, out>>

Task == TaskTest \/ TaskAdvance \/ TaskLoad \/ TaskClear

-----------------------------------------------------------------------------
(* Hal_uart_isr, which the task cannot interrupt.  A message is sent byte  *)
(* by byte; taking the bytes one at a time adds interleavings and hides    *)
(* none.                                                                   *)

IsrEnqueue(b) == /\ ~IsFull(q)
                 /\ q' = Enqueue(q, b)
                 /\ UNCHANGED <<todo, idx, out, ring>>

\* A byte does not fit: Kernel_send_msg gives the message up and the handler
\* flushes the queue.  What Kernel_send_msg dequeued before is flushed anyway.
\* The ring is not made for a second consumer: a flush in the middle of a dequeue
\* of the task tears it.
IsrOverflow == /\ IsFull(q)
               /\ q' = Flushed(q)
               /\ ring' = IF todo # {} THEN "torn"
                          ELSE IF ring = "torn" THEN "mended" ELSE ring
               /\ UNCHANGED <<todo, idx, out>>

Next == Task \/ (\E b \in Byte : IsrEnqueue(b)) \/ IsrOverflow

Spec == Init /\ [][Next]_vars

-----------------------------------------------------------------------------

TypeOK == /\ q \in Queue
          /\ todo \in SUBSET Accesses
          /\ idx \in Slots
          /\ out \in Byte
          /\ ring \in {"exact", "torn", "mended"}

Whole == ring # "torn"

\* The byte the task is taking out of the queue is safe from the interrupt: as
\* long as the queue is not flushed, no step but the task's changes its slot.
\* (Kernel_msgQ_is_full keeps the slot at front free, msg.c:48.)
SlotInUseIsStable ==
  [][Whole' /\ todo # {} => q'.slot[idx] = q.slot[idx] \/ TaskClear]_vars

\* Every slot without a queued byte reads zero: what a dequeue leaves behind is
\* cleared (msg.c:94), so that a flush in the middle of a dequeue, which may move
\* front back over the whole ring, brings up zeros.
FreeSlotsAreClear ==
  ring = "exact" =>
    \A i \in Slots : i \notin Occupied(q) /\ (todo # {} => i # idx) => q.slot[i] = Zero

\* How far an interrupted dequeue has come: what makes the two properties above
\* inductive.
DequeueInv ==
  Whole /\ todo # {} =>
    /\ "load" \in todo => "clear" \in todo
    /\ "clear" \notin todo => q.slot[idx] = Zero
    /\ IF "advance" \in todo THEN ~IsEmpty(q) /\ idx = Succ(q.front)
                              ELSE idx = q.front

-----------------------------------------------------------------------------
(* The interrupted dequeue is one atomic Take of a first-in first-out      *)
(* queue.  It takes effect with the first access that removes the byte or  *)
(* loads it.                                                               *)

Loaded == todo # {} /\ "load" \notin todo

AbstractFifo == IF Loaded /\ "advance" \in todo THEN Tail(Contents(q)) ELSE Contents(q)

AbstractHand == IF "load" \in todo /\ "advance" \notin todo THEN q.slot[idx] ELSE out

Fifo == INSTANCE BoundedFifo WITH Capacity <- QSize - 1,
                                  fifo <- AbstractFifo,
                                  hand <- AbstractHand

\* The task receives exactly the bytes the interrupt handler queued, each once
\* and in the order of their arrival, wherever the handler interrupts it.  A queue
\* that overflows in the middle of a dequeue is none until it has run empty once,
\* and then starts anew.
ImplementsFifo ==
  Fifo!FifoInit /\ [][Whole /\ Whole' => Fifo!FifoNext]_(Fifo!fifoVars)
=============================================================================
