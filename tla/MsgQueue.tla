------------------------------ MODULE MsgQueue ------------------------------
(***************************************************************************)
(* The ring buffer of kernel/msg.c: one queue of bytes with a front and a  *)
(* rear index.  The oldest byte is stored one slot after front and the     *)
(* newest one at rear, so one slot always stays unused and a ring of QSize *)
(* slots holds QSize - 1 bytes.                                            *)
(***************************************************************************)
EXTENDS Naturals, Sequences

CONSTANTS QSize,   \* MSG_Q_SIZE_BYTE
          Byte,    \* the values of a uint8_t that are told apart
          Zero     \* the value a slot is cleared to

ASSUME QueueAssumption == QSize \in Nat \ {0} /\ Zero \in Byte

Slots == 0 .. QSize - 1

Queue == [front : Slots, rear : Slots, slot : [Slots -> Byte]]

\* sMsgQ is a static array, zero from the start-up code on.
NewQueue == [front |-> 0, rear |-> 0, slot |-> [i \in Slots |-> Zero]]

\* Mutant: the index is not wrapped.
SuccUnwrapped(i) == i + 1

\* index++; index %= MSG_Q_SIZE_BYTE
Succ(i) == (i + 1) % QSize

IsEmpty(q) == q.front = q.rear

\* Mutant: the ring is taken to be full only when it has filled its last slot,
\* which front and rear cannot tell from an empty one.
IsFullNever(q) == FALSE

IsFull(q) == Succ(q.rear) = q.front

\* Mutant: the byte is stored before rear is moved on.
EnqueueBehind(q, b) == [q EXCEPT !.rear = Succ(@), !.slot[q.rear] = b]

Enqueue(q, b) == [q EXCEPT !.rear = Succ(@), !.slot[Succ(q.rear)] = b]

Oldest(q) == q.slot[Succ(q.front)]

Dequeue(q) == [q EXCEPT !.front = Succ(@), !.slot[Succ(q.front)] = Zero]

-----------------------------------------------------------------------------
(* The content of a ring, as the specification sees it.                    *)

Used(q) == IF q.rear >= q.front THEN q.rear - q.front
                                ELSE q.rear - q.front + QSize

\* The slot of the k-th oldest byte.
SlotOf(q, k) == IF q.front + k < QSize THEN q.front + k
                                       ELSE q.front + k - QSize

Contents(q) == [k \in 1 .. Used(q) |-> q.slot[SlotOf(q, k)]]

\* The slots that hold queued bytes.
Occupied(q) == {SlotOf(q, k) : k \in 1 .. Used(q)}

\* Kernel_flush_msg: dequeue until the ring is empty.
Flushed(q) == [q EXCEPT !.front = q.rear,
                        !.slot = [i \in Slots |-> IF i \in Occupied(q) THEN Zero
                                                                  ELSE q.slot[i]]]
=============================================================================
