---------------------------- MODULE QueueProofs ----------------------------
(***************************************************************************)
(* The byte queue, for rings of any size and messages of any length: what  *)
(* its operations do to the content; that a dequeue which is interrupted   *)
(* implements a first-in first-out queue, but for the time in which it is  *)
(* torn; what the message calls promise; and what becomes of a ring that   *)
(* overflows in the middle of a dequeue.                                   *)
(***************************************************************************)
EXTENDS TornQueue, DataLemmas

(* What the operations of the ring do to its content. *)

LEMMA SuccWraps ==
  ASSUME NEW i \in Slots
  PROVE  /\ Succ(i) = IF i + 1 < QSize THEN i + 1 ELSE 0
         /\ Succ(i) \in Slots
<1>1. QSize \in Nat \ {0} /\ i \in Nat /\ i < QSize
  BY QueueAssumption DEF Slots
<1>2. CASE i + 1 < QSize
  BY <1>1, <1>2 DEF Succ, Slots
<1>3. CASE i + 1 = QSize
  BY <1>1, <1>3 DEF Succ, Slots
<1> QED BY <1>1, <1>2, <1>3

\* The number of bytes queued, and where they are.
LEMMA UsedBounds ==
  ASSUME NEW qq \in Queue
  PROVE  /\ Used(qq) \in 0 .. QSize - 1
         /\ \A k \in 0 .. Used(qq) : SlotOf(qq, k) \in Slots
         /\ \A j, k \in 0 .. Used(qq) : SlotOf(qq, j) = SlotOf(qq, k) => j = k
         /\ IsEmpty(qq) <=> Used(qq) = 0
         /\ IsFull(qq) <=> Used(qq) = QSize - 1
         /\ SlotOf(qq, 0) = qq.front
         /\ SlotOf(qq, Used(qq)) = qq.rear
<1> DEFINE f == qq.front
           r == qq.rear
<1>1. /\ QSize \in Nat \ {0}
      /\ f \in Nat /\ f < QSize
      /\ r \in Nat /\ r < QSize
  BY QueueAssumption DEF Queue, Slots
<1>2. Succ(r) = IF r + 1 < QSize THEN r + 1 ELSE 0
  BY SuccWraps DEF Queue
<1> HIDE DEF f, r
<1>3. Used(qq) = IF r >= f THEN r - f ELSE r - f + QSize
  BY DEF Used, f, r
<1>4. \A k : SlotOf(qq, k) = IF f + k < QSize THEN f + k ELSE f + k - QSize
  BY DEF SlotOf, f
<1>5. Used(qq) \in 0 .. QSize - 1
  BY <1>1, <1>3
<1>6. \A k \in 0 .. Used(qq) : SlotOf(qq, k) \in Slots
  BY <1>1, <1>4, <1>5 DEF Slots
<1>7. \A j, k \in 0 .. Used(qq) : SlotOf(qq, j) = SlotOf(qq, k) => j = k
  BY <1>1, <1>4, <1>5
<1>8. IsEmpty(qq) <=> Used(qq) = 0
  BY <1>1, <1>3 DEF IsEmpty, f, r
<1>9. IsFull(qq) <=> Used(qq) = QSize - 1
  BY <1>1, <1>2, <1>3 DEF IsFull, f, r
<1>10. SlotOf(qq, 0) = f /\ SlotOf(qq, Used(qq)) = r
  BY <1>1, <1>3, <1>4
<1> QED BY <1>5, <1>6, <1>7, <1>8, <1>9, <1>10 DEF f, r

LEMMA ContentsType ==
  ASSUME NEW qq \in Queue
  PROVE  /\ Contents(qq) \in Seq(Byte)
         /\ Len(Contents(qq)) = Used(qq)
         /\ \A k \in 1 .. Used(qq) : Contents(qq)[k] = qq.slot[SlotOf(qq, k)]
<1>1. Used(qq) \in Nat /\ \A k \in 1 .. Used(qq) : SlotOf(qq, k) \in Slots
  BY UsedBounds, QueueAssumption
<1>2. \A k \in 1 .. Used(qq) : qq.slot[SlotOf(qq, k)] \in Byte
  BY <1>1 DEF Queue
<1>3. Contents(qq) \in [1 .. Used(qq) -> Byte]
  BY <1>2 DEF Contents
<1>4. Contents(qq) \in Seq(Byte)
  BY <1>1, <1>3, SeqDef
<1>5. Len(Contents(qq)) = Used(qq)
  BY <1>1, <1>3, <1>4, LenProperties
<1> QED BY <1>4, <1>5 DEF Contents

\* Kernel_msgQ_enqueue appends one byte, when the ring is not full.
LEMMA EnqueueAppends ==
  ASSUME NEW qq \in Queue, NEW b \in Byte, ~IsFull(qq)
  PROVE  /\ Enqueue(qq, b) \in Queue
         /\ Contents(Enqueue(qq, b)) = Append(Contents(qq), b)
         /\ Used(Enqueue(qq, b)) = Used(qq) + 1
         /\ \A k \in 0 .. Used(qq) : SlotOf(Enqueue(qq, b), k) = SlotOf(qq, k)
         /\ SlotOf(Enqueue(qq, b), Used(qq) + 1) = Succ(qq.rear)
<1> DEFINE p == Enqueue(qq, b)
<1>1. /\ QSize \in Nat \ {0}
      /\ qq.front \in Nat /\ qq.front < QSize
      /\ qq.rear \in Nat /\ qq.rear < QSize
  BY QueueAssumption DEF Queue, Slots
<1>2. /\ Succ(qq.rear) = IF qq.rear + 1 < QSize THEN qq.rear + 1 ELSE 0
      /\ Succ(qq.rear) \in Slots
  BY SuccWraps DEF Queue
<1>3. /\ p \in Queue
      /\ p.front = qq.front
      /\ p.rear = Succ(qq.rear)
      /\ p.slot = [qq.slot EXCEPT ![Succ(qq.rear)] = b]
  BY <1>2 DEF Enqueue, Queue
<1> HIDE DEF p
<1>4. Used(p) = Used(qq) + 1
  BY <1>1, <1>2, <1>3 DEF IsFull, Used
<1>5. \A k : SlotOf(p, k) = SlotOf(qq, k)
  BY <1>3 DEF SlotOf
<1>6. SlotOf(p, Used(qq) + 1) = Succ(qq.rear)
  BY <1>3, <1>4, UsedBounds
<1>7. \A k \in 1 .. Used(qq) : p.slot[SlotOf(p, k)] = qq.slot[SlotOf(qq, k)]
  <2> TAKE k \in 1 .. Used(qq)
  <2>1. k \in 0 .. Used(p) /\ Used(qq) + 1 \in 0 .. Used(p) /\ k # Used(qq) + 1
    BY <1>4, UsedBounds
  <2>2. SlotOf(p, k) # Succ(qq.rear) /\ SlotOf(p, k) \in Slots
    BY <2>1, <1>3, <1>6, UsedBounds
  <2> QED BY <2>2, <1>3, <1>5 DEF Queue
<1>8. p.slot[SlotOf(p, Used(qq) + 1)] = b
  BY <1>2, <1>3, <1>6 DEF Queue
<1>9. Contents(p) = Append(Contents(qq), b)
  <2>1. /\ Contents(qq) \in Seq(Byte) /\ Len(Contents(qq)) = Used(qq)
        /\ \A k \in 1 .. Used(qq) : Contents(qq)[k] = qq.slot[SlotOf(qq, k)]
    BY ContentsType
  <2>2. /\ Contents(p) \in Seq(Byte) /\ Len(Contents(p)) = Used(qq) + 1
        /\ \A k \in 1 .. Used(qq) + 1 : Contents(p)[k] = p.slot[SlotOf(p, k)]
    BY <1>3, <1>4, ContentsType
  <2>3. /\ Append(Contents(qq), b) \in Seq(Byte)
        /\ Len(Append(Contents(qq), b)) = Used(qq) + 1
        /\ \A k \in 1 .. Used(qq) : Append(Contents(qq), b)[k] = Contents(qq)[k]
        /\ Append(Contents(qq), b)[Used(qq) + 1] = b
    BY <2>1, AppendProperties
  <2>4. Used(qq) \in Nat
    BY UsedBounds
  <2>5. \A k \in 1 .. Used(qq) + 1 : Contents(p)[k] = Append(Contents(qq), b)[k]
    BY <2>1, <2>2, <2>3, <2>4, <1>7, <1>8
  <2> QED BY <2>2, <2>3, <2>5, SeqEqual
<1> QED BY <1>3, <1>4, <1>5, <1>6, <1>9 DEF p

\* Moving front on takes the oldest byte off the content.
LEMMA AdvanceTakesHead ==
  ASSUME NEW qq \in Queue, NEW p, p = [qq EXCEPT !.front = Succ(qq.front)], ~IsEmpty(qq)
  PROVE  /\ p \in Queue
         /\ Contents(qq) # <<>>
         /\ Head(Contents(qq)) = Oldest(qq)
         /\ Contents(p) = Tail(Contents(qq))
         /\ Used(p) = Used(qq) - 1
         /\ \A k \in 0 .. Used(p) : SlotOf(p, k) = SlotOf(qq, k + 1)
<1>1. /\ QSize \in Nat \ {0}
      /\ qq.front \in Nat /\ qq.front < QSize
      /\ qq.rear \in Nat /\ qq.rear < QSize
  BY QueueAssumption DEF Queue, Slots
<1>2. /\ Succ(qq.front) = IF qq.front + 1 < QSize THEN qq.front + 1 ELSE 0
      /\ Succ(qq.front) \in Slots
  BY SuccWraps DEF Queue
<1>3. /\ p \in Queue
      /\ p.front = Succ(qq.front) /\ p.rear = qq.rear /\ p.slot = qq.slot
  BY <1>2 DEF Queue
<1>4. Used(p) = Used(qq) - 1
  BY <1>1, <1>2, <1>3 DEF IsEmpty, Used
<1>5. \A k \in 0 .. Used(p) : SlotOf(p, k) = SlotOf(qq, k + 1)
  <2>1. Used(p) \in 0 .. QSize - 1
    BY <1>3, UsedBounds
  <2> QED BY <2>1, <1>1, <1>2, <1>3 DEF SlotOf
<1>6. /\ Contents(qq) \in Seq(Byte) /\ Len(Contents(qq)) = Used(qq)
      /\ \A k \in 1 .. Used(qq) : Contents(qq)[k] = qq.slot[SlotOf(qq, k)]
  BY ContentsType
<1>7. Used(qq) \in Nat \ {0} /\ Contents(qq) # <<>>
  BY <1>6, UsedBounds, EmptySeq
<1>8. Head(Contents(qq)) = Oldest(qq)
  <2>1. SlotOf(qq, 1) = Succ(qq.front)
    BY <1>1, <1>2 DEF SlotOf
  <2>2. Head(Contents(qq)) = Contents(qq)[1]
    BY <1>6, <1>7
  <2> QED BY <2>1, <2>2, <1>6, <1>7 DEF Oldest
<1>9. Contents(p) = Tail(Contents(qq))
  <2>1. /\ Contents(p) \in Seq(Byte) /\ Len(Contents(p)) = Used(qq) - 1
        /\ \A k \in 1 .. Used(p) : Contents(p)[k] = p.slot[SlotOf(p, k)]
    BY <1>3, <1>4, ContentsType
  <2>2. /\ Tail(Contents(qq)) \in Seq(Byte) /\ Len(Tail(Contents(qq))) = Used(qq) - 1
        /\ \A k \in 1 .. Used(qq) - 1 : Tail(Contents(qq))[k] = Contents(qq)[k + 1]
    BY <1>6, <1>7, HeadTailProperties
  <2>3. \A k \in 1 .. Used(qq) - 1 : Contents(p)[k] = Tail(Contents(qq))[k]
    <3> TAKE k \in 1 .. Used(qq) - 1
    <3>1. k \in 0 .. Used(p) /\ k \in 1 .. Used(p) /\ k + 1 \in 1 .. Used(qq)
      BY <1>4, <1>7
    <3>2. Contents(p)[k] = qq.slot[SlotOf(qq, k + 1)]
      BY <3>1, <2>1, <1>3, <1>5
    <3>3. Tail(Contents(qq))[k] = qq.slot[SlotOf(qq, k + 1)]
      BY <3>1, <2>2, <1>6
    <3> QED BY <3>2, <3>3
  <2> QED BY <2>1, <2>2, <2>3, SeqEqual
<1> QED BY <1>3, <1>4, <1>5, <1>7, <1>8, <1>9

\* Writing a slot that holds no queued byte leaves the content alone.
LEMMA FreeSlotWrite ==
  ASSUME NEW qq \in Queue, NEW i \in Slots, NEW b \in Byte, i \notin Occupied(qq),
         NEW p, p = [qq EXCEPT !.slot[i] = b]
  PROVE  /\ p \in Queue
         /\ Contents(p) = Contents(qq)
         /\ Occupied(p) = Occupied(qq)
<1>1. /\ p \in Queue
      /\ p.front = qq.front /\ p.rear = qq.rear /\ p.slot = [qq.slot EXCEPT ![i] = b]
  BY DEF Queue
<1>2. Used(p) = Used(qq) /\ \A k : SlotOf(p, k) = SlotOf(qq, k)
  BY <1>1 DEF Used, SlotOf
<1>3. \A k \in 1 .. Used(qq) : SlotOf(qq, k) \in Slots /\ SlotOf(qq, k) # i
  BY UsedBounds DEF Occupied
<1>4. \A k \in 1 .. Used(qq) : p.slot[SlotOf(p, k)] = qq.slot[SlotOf(qq, k)]
  BY <1>1, <1>2, <1>3 DEF Queue
<1> QED BY <1>1, <1>2, <1>4 DEF Contents, Occupied

\* Kernel_msgQ_dequeue takes the oldest byte off and clears its slot.
LEMMA DequeueTakesOldest ==
  ASSUME NEW qq \in Queue, ~IsEmpty(qq)
  PROVE  /\ Dequeue(qq) \in Queue
         /\ Contents(qq) # <<>> /\ Oldest(qq) = Head(Contents(qq))
         /\ Contents(Dequeue(qq)) = Tail(Contents(qq))
         /\ Used(Dequeue(qq)) = Used(qq) - 1
         /\ Dequeue(qq).rear = qq.rear
         /\ Dequeue(qq).slot = [qq.slot EXCEPT ![Succ(qq.front)] = Zero]
         /\ Occupied(qq) = Occupied(Dequeue(qq)) \cup {Succ(qq.front)}
         /\ Succ(qq.front) \notin Occupied(Dequeue(qq))
<1> DEFINE p == [qq EXCEPT !.front = Succ(qq.front)]
<1>1. Succ(qq.front) \in Slots /\ Used(qq) \in Nat \ {0}
  BY SuccWraps, UsedBounds DEF Queue
<1>2. /\ p \in Queue /\ p.front = Succ(qq.front) /\ p.rear = qq.rear /\ p.slot = qq.slot
      /\ Dequeue(qq) = [p EXCEPT !.slot[Succ(qq.front)] = Zero]
  BY <1>1 DEF Queue, Dequeue
<1>3. /\ Contents(qq) # <<>> /\ Head(Contents(qq)) = Oldest(qq)
      /\ Contents(p) = Tail(Contents(qq))
      /\ Used(p) = Used(qq) - 1
      /\ \A k \in 0 .. Used(p) : SlotOf(p, k) = SlotOf(qq, k + 1)
  BY AdvanceTakesHead
<1> HIDE DEF p
<1>4. SlotOf(p, 0) = Succ(qq.front) /\ Used(p) \in Nat
  BY <1>2, UsedBounds
<1>5. Succ(qq.front) \notin Occupied(p)
  <2>1. \A k \in 1 .. Used(p) : SlotOf(p, k) # SlotOf(p, 0)
    BY <1>2, <1>4, UsedBounds
  <2> QED BY <2>1, <1>4 DEF Occupied
<1>6. /\ Dequeue(qq) \in Queue /\ Contents(Dequeue(qq)) = Contents(p)
      /\ Occupied(Dequeue(qq)) = Occupied(p)
  BY <1>1, <1>2, <1>5, FreeSlotWrite, QueueAssumption
<1>7. /\ Dequeue(qq).rear = qq.rear /\ Dequeue(qq).front = p.front
      /\ Dequeue(qq).slot = [qq.slot EXCEPT ![Succ(qq.front)] = Zero]
  BY <1>1, <1>2 DEF Queue
<1>8. Used(Dequeue(qq)) = Used(p)
  BY <1>2, <1>7 DEF Used
<1>9. Occupied(qq) = Occupied(p) \cup {Succ(qq.front)}
  <2>1. SlotOf(qq, 1) = Succ(qq.front)
    BY <1>1, <1>3, <1>4
  <2>2. \A k \in 1 .. Used(p) : k + 1 \in 1 .. Used(qq) /\ SlotOf(p, k) = SlotOf(qq, k + 1)
    BY <1>1, <1>3, <1>4
  <2>3. \A k \in 1 .. Used(qq) : k = 1 \/ (k - 1 \in 1 .. Used(p) /\ (k - 1) + 1 = k)
    BY <1>1, <1>3
  <2>4. Occupied(p) \cup {Succ(qq.front)} \subseteq Occupied(qq)
    BY <1>1, <2>1, <2>2 DEF Occupied
  <2>5. Occupied(qq) \subseteq Occupied(p) \cup {Succ(qq.front)}
    <3> SUFFICES ASSUME NEW k \in 1 .. Used(qq), k # 1
                 PROVE  SlotOf(qq, k) \in Occupied(p)
      BY <2>1 DEF Occupied
    <3>1. SlotOf(qq, k) = SlotOf(p, k - 1) /\ k - 1 \in 1 .. Used(p)
      BY <2>2, <2>3
    <3> QED BY <3>1 DEF Occupied
  <2> QED BY <2>4, <2>5
<1> QED BY <1>3, <1>5, <1>6, <1>7, <1>8, <1>9

\* The slot the next byte goes to is apart from the slots in use and from the
\* one at front.
LEMMA NextSlotIsFree ==
  ASSUME NEW qq \in Queue, ~IsFull(qq)
  PROVE  /\ \A k \in 0 .. Used(qq) : SlotOf(qq, k) # Succ(qq.rear)
         /\ Succ(qq.rear) \notin Occupied(qq)
<1> DEFINE p == Enqueue(qq, Zero)
<1>1. /\ p \in Queue
      /\ Used(p) = Used(qq) + 1
      /\ \A k \in 0 .. Used(qq) : SlotOf(p, k) = SlotOf(qq, k)
      /\ SlotOf(p, Used(qq) + 1) = Succ(qq.rear)
  BY EnqueueAppends, QueueAssumption
<1> HIDE DEF p
<1>2. Used(qq) \in Nat
  BY UsedBounds
<1>3. \A j, k \in 0 .. Used(qq) + 1 : SlotOf(p, j) = SlotOf(p, k) => j = k
  BY <1>1, UsedBounds
<1>4. \A k \in 0 .. Used(qq) : SlotOf(qq, k) # Succ(qq.rear)
  <2> TAKE k \in 0 .. Used(qq)
  <2>1. k \in 0 .. Used(qq) + 1 /\ Used(qq) + 1 \in 0 .. Used(qq) + 1 /\ k # Used(qq) + 1
    BY <1>2
  <2> QED BY <2>1, <1>1, <1>3
<1> QED BY <1>4, <1>2 DEF Occupied

\* Kernel_flush_msg leaves an empty ring.
LEMMA FlushedIsEmpty ==
  ASSUME NEW qq \in Queue
  PROVE  /\ Flushed(qq) \in Queue
         /\ Contents(Flushed(qq)) = <<>>
         /\ Occupied(Flushed(qq)) = {}
         /\ \A i \in Slots : Flushed(qq).slot[i] =
                             IF i \in Occupied(qq) THEN Zero ELSE qq.slot[i]
<1>1. /\ Flushed(qq) \in Queue
      /\ Flushed(qq).front = qq.rear /\ Flushed(qq).rear = qq.rear
      /\ Flushed(qq).slot = [i \in Slots |-> IF i \in Occupied(qq) THEN Zero ELSE qq.slot[i]]
  BY QueueAssumption DEF Flushed, Queue
<1>2. Used(Flushed(qq)) = 0
  BY <1>1 DEF Used, Queue, Slots
<1>3. Contents(Flushed(qq)) = <<>>
  BY <1>1, <1>2, ContentsType, EmptySeq
<1> QED BY <1>1, <1>2, <1>3 DEF Occupied

-----------------------------------------------------------------------------

IInv == TypeOK /\ FreeSlotsAreClear /\ DequeueInv

\* The slot a dequeue in progress works on, as a place in the ring.
LEMMA SlotInUse ==
  ASSUME IInv, Whole, todo # {}
  PROVE  /\ "advance" \in todo => idx = SlotOf(q, 1) /\ 1 \in 1 .. Used(q)
         /\ "advance" \notin todo => idx = SlotOf(q, 0) /\ idx \notin Occupied(q)
<1>1. q \in Queue
  BY DEF IInv, TypeOK
<1>2. Used(q) \in Nat
  BY <1>1, UsedBounds
<1>3. CASE "advance" \in todo
  <2>1. ~IsEmpty(q) /\ idx = Succ(q.front)
    BY <1>3 DEF IInv, DequeueInv
  <2>2. Used(q) # 0
    BY <2>1, <1>1, UsedBounds
  <2>3. SlotOf(q, 1) = Succ(q.front)
    <3>1. q.front \in Slots
      BY <1>1 DEF Queue
    <3>2. Succ(q.front) = IF q.front + 1 < QSize THEN q.front + 1 ELSE 0
      BY <3>1, SuccWraps
    <3>3. SlotOf(q, 1) = IF q.front + 1 < QSize THEN q.front + 1 ELSE q.front + 1 - QSize
      BY DEF SlotOf
    <3> QED BY <3>1, <3>2, <3>3, QueueAssumption DEF Slots
  <2> QED BY <2>1, <2>2, <2>3, <1>2, <1>3
<1>4. CASE "advance" \notin todo
  <2>1. idx = SlotOf(q, 0)
    BY <1>1, <1>4, UsedBounds DEF IInv, DequeueInv
  <2>2. \A k \in 1 .. Used(q) : SlotOf(q, k) # SlotOf(q, 0)
    BY <1>1, <1>2, UsedBounds
  <2> QED BY <2>1, <2>2, <1>4 DEF Occupied
<1> QED BY <1>3, <1>4

\* The interrupt handler's next slot is never the one the task works on.
LEMMA IsrSlotIsAnother ==
  ASSUME IInv, Whole, todo # {}, ~IsFull(q)
  PROVE  Succ(q.rear) # idx
<1>1. q \in Queue /\ Used(q) \in Nat
  BY UsedBounds DEF IInv, TypeOK
<1>2. \A k \in 0 .. Used(q) : SlotOf(q, k) # Succ(q.rear)
  BY <1>1, NextSlotIsFree
<1>3. \E k \in 0 .. Used(q) : idx = SlotOf(q, k)
  BY <1>1, SlotInUse
<1> QED BY <1>2, <1>3

LEMMA InitInv == Init => IInv
<1> SUFFICES ASSUME Init PROVE IInv
  OBVIOUS
<1>1. q \in Queue
  BY QueueAssumption DEF Init, NewQueue, Queue, Slots
<1> QED BY <1>1, QueueAssumption DEF Init, NewQueue, IInv, TypeOK, FreeSlotsAreClear, DequeueInv

\* A step that keeps the ring whole leaves the history variable alone, and a flush
\* that does finds no dequeue under way.
LEMMA WholeSteps ==
  ASSUME [Next]_vars, Whole, Whole'
  PROVE  ring' = ring /\ (IsrOverflow => todo = {})
<1>1. CASE Task
  BY <1>1 DEF Task, TaskTest, TaskAdvance, TaskLoad, TaskClear, Mend, Whole, IsrOverflow
<1>2. CASE \E b \in Byte : IsrEnqueue(b)
  BY <1>2 DEF IsrEnqueue, IsrOverflow, Whole
<1>3. CASE IsrOverflow
  BY <1>3 DEF IsrOverflow, Whole
<1>4. CASE UNCHANGED vars
  BY <1>4 DEF vars, IsrOverflow, Whole
<1> QED BY <1>1, <1>2, <1>3, <1>4 DEF Next

\* A step that mends the ring ends between two dequeues.
LEMMA MendingSteps ==
  ASSUME [Next]_vars, ~Whole, Whole'
  PROVE  todo' = {} /\ ring' # "exact"
<1>1. CASE Task
  BY <1>1 DEF Task, TaskTest, TaskAdvance, TaskLoad, TaskClear, Mend, Whole
<1>2. CASE (\E b \in Byte : IsrEnqueue(b)) \/ IsrOverflow \/ UNCHANGED vars
  BY <1>2 DEF IsrEnqueue, IsrOverflow, vars, Whole
<1> QED BY <1>1, <1>2 DEF Next

LEMMA TypeStep == TypeOK /\ [Next]_vars => TypeOK'
<1> SUFFICES ASSUME TypeOK, [Next]_vars PROVE TypeOK'
  OBVIOUS
<1>1. q \in Queue /\ todo \in SUBSET Accesses /\ idx \in Slots /\ out \in Byte
  BY DEF TypeOK
<1>2. ring' \in {"exact", "torn", "mended"}
  BY DEF TypeOK, Next, Task, TaskTest, TaskAdvance, TaskLoad, TaskClear, Mend, IsrEnqueue,
         IsrOverflow, vars
<1>3. CASE TaskTest
  <2>1. Succ(q.front) \in Slots
    BY <1>1, SuccWraps DEF Queue
  <2> QED BY <1>1, <1>2, <1>3, <2>1 DEF TaskTest, TypeOK, Accesses
<1>4. CASE TaskAdvance
  <2>1. q' \in Queue
    BY <1>1, <1>4 DEF TaskAdvance, Queue
  <2> QED BY <1>1, <1>2, <1>4, <2>1 DEF TaskAdvance, TypeOK
<1>5. CASE TaskLoad
  BY <1>1, <1>2, <1>5 DEF TaskLoad, TypeOK, Queue
<1>6. CASE TaskClear
  <2>1. q' \in Queue
    BY <1>1, <1>6, QueueAssumption DEF TaskClear, Queue
  <2> QED BY <1>1, <1>2, <1>6, <2>1 DEF TaskClear, TypeOK
<1>7. ASSUME NEW b \in Byte, IsrEnqueue(b) PROVE TypeOK'
  <2>1. q' \in Queue
    BY <1>1, <1>7, EnqueueAppends DEF IsrEnqueue
  <2> QED BY <1>1, <1>2, <1>7, <2>1 DEF IsrEnqueue, TypeOK
<1>8. CASE IsrOverflow
  <2>1. q' \in Queue
    BY <1>1, <1>8, FlushedIsEmpty DEF IsrOverflow
  <2> QED BY <1>1, <1>2, <1>8, <2>1 DEF IsrOverflow, TypeOK
<1>9. CASE UNCHANGED vars
  BY <1>9 DEF vars, TypeOK
<1> QED BY <1>3, <1>4, <1>5, <1>6, <1>7, <1>8, <1>9 DEF Next, Task

\* As long as the ring stays whole, no step confuses the slots.
LEMMA WholeInv ==
  ASSUME IInv, [Next]_vars, Whole, Whole'
  PROVE  FreeSlotsAreClear' /\ DequeueInv'
<1>1. q \in Queue /\ todo \in SUBSET Accesses /\ idx \in Slots /\ out \in Byte
  BY DEF IInv, TypeOK
<1>0. ring' = ring /\ (IsrOverflow => todo = {})
  BY WholeSteps
<1>2. CASE TaskTest
  <2>2. DequeueInv'
    BY <1>1, <1>2 DEF TaskTest, DequeueInv, Accesses
  <2>3. FreeSlotsAreClear'
    BY <1>0, <1>2 DEF TaskTest, IInv, FreeSlotsAreClear
  <2> QED BY <2>2, <2>3
<1>3. CASE TaskAdvance
  <2>1. /\ ~IsEmpty(q) /\ idx = Succ(q.front)
        /\ "load" \in todo => "clear" \in todo
        /\ "clear" \notin todo => q.slot[idx] = Zero
    BY <1>3 DEF TaskAdvance, IInv, DequeueInv
  <2>2. /\ q' = [q EXCEPT !.front = Succ(q.front)]
        /\ q'.slot = q.slot /\ q'.front = idx
    BY <1>1, <1>3, <2>1 DEF TaskAdvance, Queue
  <2>3. /\ q' \in Queue /\ Used(q') = Used(q) - 1
        /\ \A k \in 0 .. Used(q') : SlotOf(q', k) = SlotOf(q, k + 1)
    BY <1>1, <2>1, <2>2, AdvanceTakesHead
  <2>4. DequeueInv'
    BY <1>1, <1>3, <2>1, <2>2 DEF TaskAdvance, DequeueInv, Accesses
  <2>5. Occupied(q) \subseteq Occupied(q') \union {idx}
    <3> SUFFICES ASSUME NEW k \in 1 .. Used(q), SlotOf(q, k) # idx
                 PROVE  SlotOf(q, k) \in Occupied(q')
      BY DEF Occupied
    <3>1. Used(q) \in Nat /\ idx = SlotOf(q, 1)
      BY <1>1, <1>3, SlotInUse, UsedBounds DEF TaskAdvance
    <3>2. k - 1 \in 1 .. Used(q') /\ k - 1 \in 0 .. Used(q') /\ (k - 1) + 1 = k
      BY <3>1, <2>3
    <3> QED BY <3>2, <2>3 DEF Occupied
  <2>6. FreeSlotsAreClear'
    <3> SUFFICES ASSUME ring' = "exact",
                        NEW i \in Slots, i \notin Occupied(q'), todo' # {} => i # idx'
                 PROVE  q'.slot[i] = Zero
      BY DEF FreeSlotsAreClear
    <3>1. CASE i = idx
      BY <3>1, <1>3, <2>1, <2>2 DEF TaskAdvance
    <3>2. CASE i # idx
      BY <1>0, <3>2, <1>3, <2>2, <2>5 DEF TaskAdvance, IInv, FreeSlotsAreClear
    <3> QED BY <3>1, <3>2
  <2> QED BY <2>4, <2>6
<1>4. CASE TaskLoad
  <2>1. DequeueInv'
    BY <1>1, <1>4 DEF TaskLoad, IInv, DequeueInv, Accesses
  <2>2. "clear" \in todo /\ todo # {}
    BY <1>4 DEF TaskLoad, IInv, DequeueInv
  <2>3. todo' # {} /\ q' = q /\ idx' = idx
    BY <1>4, <2>2 DEF TaskLoad
  <2>4. FreeSlotsAreClear'
    BY <1>0, <2>2, <2>3 DEF IInv, FreeSlotsAreClear
  <2> QED BY <2>1, <2>4
<1>5. CASE TaskClear
  <2>1. /\ q' = [q EXCEPT !.slot[idx] = Zero]
        /\ q' \in Queue /\ q'.front = q.front /\ q'.rear = q.rear
        /\ q'.slot = [q.slot EXCEPT ![idx] = Zero]
    BY <1>1, <1>5, QueueAssumption DEF TaskClear, Queue
  <2>2. IsEmpty(q') = IsEmpty(q) /\ Occupied(q') = Occupied(q)
    BY <2>1 DEF IsEmpty, Occupied, Used, SlotOf
  <2>4. DequeueInv'
    BY <1>1, <1>5, <2>1, <2>2 DEF TaskClear, IInv, DequeueInv, Accesses, Queue
  <2>5. FreeSlotsAreClear'
    BY <1>0, <1>1, <1>5, <2>1, <2>2 DEF TaskClear, IInv, FreeSlotsAreClear, Queue
  <2> QED BY <2>4, <2>5
<1>6. ASSUME NEW b \in Byte, IsrEnqueue(b) PROVE FreeSlotsAreClear' /\ DequeueInv'
  <2>1. /\ ~IsFull(q) /\ q' = Enqueue(q, b)
        /\ UNCHANGED <<todo, idx, out>>
    BY <1>6 DEF IsrEnqueue
  <2>2. /\ q' \in Queue /\ Used(q') = Used(q) + 1
        /\ \A k \in 0 .. Used(q) : SlotOf(q', k) = SlotOf(q, k)
        /\ SlotOf(q', Used(q) + 1) = Succ(q.rear)
    BY <1>1, <2>1, EnqueueAppends
  <2>3. /\ q'.front = q.front
        /\ q'.slot = [q.slot EXCEPT ![Succ(q.rear)] = b]
    BY <1>1, <2>1 DEF Enqueue, Queue
  <2>4. Used(q) \in Nat /\ Succ(q.rear) \in Slots
    BY <1>1, UsedBounds, SuccWraps DEF Queue
  <2>5. ~IsEmpty(q')
    BY <2>2, <2>4, UsedBounds
  <2>6. todo # {} => q'.slot[idx] = q.slot[idx]
    BY <1>1, <2>1, <2>3, IsrSlotIsAnother DEF Queue
  <2>8. DequeueInv'
    BY <2>1, <2>3, <2>5, <2>6 DEF IInv, DequeueInv
  <2>9. Occupied(q') = Occupied(q) \union {Succ(q.rear)}
    BY <2>2, <2>4 DEF Occupied
  <2>10. FreeSlotsAreClear'
    <3> SUFFICES ASSUME ring' = "exact",
                        NEW i \in Slots, i \notin Occupied(q'), todo' # {} => i # idx'
                 PROVE  q'.slot[i] = Zero
      BY DEF FreeSlotsAreClear
    <3> QED BY <1>0, <1>1, <2>1, <2>3, <2>4, <2>9 DEF IInv, FreeSlotsAreClear, Queue
  <2> QED BY <2>8, <2>10
<1>7. CASE IsrOverflow
  <2>1. q' = Flushed(q) /\ todo = {} /\ todo' = {}
    BY <1>0, <1>7 DEF IsrOverflow
  <2>2. FreeSlotsAreClear'
    BY <1>0, <1>1, <2>1, FlushedIsEmpty DEF IInv, FreeSlotsAreClear
  <2> QED BY <2>1, <2>2 DEF DequeueInv
<1>8. CASE UNCHANGED vars
  BY <1>8 DEF vars, IInv, FreeSlotsAreClear, DequeueInv
<1> QED BY <1>2, <1>3, <1>4, <1>5, <1>6, <1>7, <1>8 DEF Next, Task

LEMMA NextInv == IInv /\ [Next]_vars => IInv'
<1> SUFFICES ASSUME IInv, [Next]_vars PROVE IInv'
  OBVIOUS
<1>1. TypeOK'
  BY TypeStep DEF IInv
<1>2. CASE ~Whole'
  BY <1>1, <1>2 DEF Whole, IInv, FreeSlotsAreClear, DequeueInv
<1>3. CASE Whole /\ Whole'
  BY <1>1, <1>3, WholeInv DEF IInv
<1>4. CASE ~Whole /\ Whole'
  BY <1>1, <1>4, MendingSteps DEF IInv, FreeSlotsAreClear, DequeueInv
<1> QED BY <1>2, <1>3, <1>4

LEMMA Invariance == Spec => []IInv
<1> QED BY InitInv, NextInv, PTL DEF Spec

-----------------------------------------------------------------------------

\* An interrupted dequeue is one of the stages that the code leaves it in.
THEOREM DequeueInStages == Spec => []DequeueInv
<1>1. IInv => DequeueInv
  BY DEF IInv
<1> QED BY <1>1, Invariance, PTL

\* For a queue of any size, every variable keeps its type: in particular both
\* indices stay inside the ring, whatever the interrupt handler interrupts.
THEOREM TypeCorrect == Spec => []TypeOK
<1>1. IInv => TypeOK
  BY DEF IInv
<1> QED BY <1>1, Invariance, PTL

\* No byte that was taken is still readable in the ring.
THEOREM TakenBytesAreGone == Spec => []FreeSlotsAreClear
<1>1. IInv => FreeSlotsAreClear
  BY DEF IInv
<1> QED BY <1>1, Invariance, PTL

\* The interrupt handler never touches the slot the task is working on.
THEOREM NoSlotConflict == Spec => SlotInUseIsStable
<1> DEFINE Stable == Whole' /\ todo # {} => q'.slot[idx] = q.slot[idx] \/ TaskClear
<1>1. ASSUME IInv, [Next]_vars PROVE [Stable]_vars
  <2> SUFFICES ASSUME Whole', todo # {}, ~TaskClear, ~UNCHANGED vars
                PROVE  q'.slot[idx] = q.slot[idx]
    OBVIOUS
  <2>1. q \in Queue /\ idx \in Slots
    BY <1>1 DEF IInv, TypeOK
  <2>2. CASE TaskTest \/ TaskLoad
    BY <2>2 DEF TaskTest, TaskLoad
  <2>3. CASE TaskAdvance
    BY <2>1, <2>3 DEF TaskAdvance, Queue
  <2>4. ASSUME NEW b \in Byte, IsrEnqueue(b) PROVE q'.slot[idx] = q.slot[idx]
    <3>1. Succ(q.rear) # idx
      BY <1>1, <2>4, IsrSlotIsAnother DEF IsrEnqueue, Whole
    <3>2. q'.slot = [q.slot EXCEPT ![Succ(q.rear)] = b]
      BY <2>1, <2>4 DEF IsrEnqueue, Enqueue, Queue
    <3> QED BY <3>1, <3>2, <2>1 DEF Queue
  <2>5. CASE IsrOverflow
    BY <2>5 DEF IsrOverflow, Whole
  <2> QED BY <1>1, <2>2, <2>3, <2>4, <2>5 DEF Next, Task
<1> QED BY <1>1, Invariance, PTL DEF Spec, SlotInUseIsStable

-----------------------------------------------------------------------------
(* Refinement: each access of the interrupted dequeue is one Take or a     *)
(* stuttering step of the abstract queue.                                  *)

LEMMA TailShape ==
  ASSUME NEW s \in Seq(Byte), s # <<>>
  PROVE  /\ Tail(s) \in Seq(Byte)
         /\ Len(Tail(s)) = Len(s) - 1
         /\ \A k \in 1 .. Len(s) - 1 : Tail(s)[k] = s[k + 1]
<1>1. Len(Tail(s)) = Len(s) - 1 /\ Tail(s) \in Seq(Byte)
  BY HeadTailProperties
<1>2. \A k \in 1 .. Len(Tail(s)) : Tail(s)[k] = s[k + 1]
  BY HeadTailProperties
<1> QED BY <1>1, <1>2

\* Clearing the oldest byte after it was loaded, before front moves on, leaves
\* the bytes behind it alone.
LEMMA ClearOldest ==
  ASSUME NEW r \in Queue, ~IsEmpty(r),
         NEW p, p = [r EXCEPT !.slot[SlotOf(r, 1)] = Zero]
  PROVE  Tail(Contents(p)) = Tail(Contents(r))
<1>1. Used(r) \in Nat \ {0} /\ SlotOf(r, 1) \in Slots
  BY UsedBounds
<1>2. /\ p \in Queue /\ p.front = r.front /\ p.rear = r.rear
      /\ p.slot = [r.slot EXCEPT ![SlotOf(r, 1)] = Zero]
  BY <1>1, QueueAssumption DEF Queue
<1>3. Used(p) = Used(r) /\ \A k : SlotOf(p, k) = SlotOf(r, k)
  BY <1>2 DEF Used, SlotOf
<1>4. /\ Contents(r) \in Seq(Byte) /\ Len(Contents(r)) = Used(r) /\ Contents(r) # <<>>
      /\ \A k \in 1 .. Used(r) : Contents(r)[k] = r.slot[SlotOf(r, k)]
  BY <1>1, ContentsType, EmptySeq
<1>5. /\ Contents(p) \in Seq(Byte) /\ Len(Contents(p)) = Used(r) /\ Contents(p) # <<>>
      /\ \A k \in 1 .. Used(r) : Contents(p)[k] = p.slot[SlotOf(r, k)]
  BY <1>1, <1>2, <1>3, ContentsType, EmptySeq
<1>6. \A k \in 2 .. Used(r) : Contents(p)[k] = Contents(r)[k]
  <2> TAKE k \in 2 .. Used(r)
  <2>1. k \in 0 .. Used(r) /\ 1 \in 0 .. Used(r) /\ k # 1 /\ k \in 1 .. Used(r)
    BY <1>1
  <2>2. SlotOf(r, k) # SlotOf(r, 1) /\ SlotOf(r, k) \in Slots
    BY <2>1, UsedBounds
  <2> QED BY <2>1, <2>2, <1>1, <1>2, <1>4, <1>5 DEF Queue
<1>7. /\ Tail(Contents(r)) \in Seq(Byte) /\ Len(Tail(Contents(r))) = Used(r) - 1
      /\ \A k \in 1 .. Used(r) - 1 : Tail(Contents(r))[k] = Contents(r)[k + 1]
  BY <1>4, TailShape
<1>8. /\ Tail(Contents(p)) \in Seq(Byte) /\ Len(Tail(Contents(p))) = Used(r) - 1
      /\ \A k \in 1 .. Used(r) - 1 : Tail(Contents(p))[k] = Contents(p)[k + 1]
  BY <1>5, TailShape
<1>9. \A k \in 1 .. Used(r) - 1 : Tail(Contents(p))[k] = Tail(Contents(r))[k]
  <2> TAKE k \in 1 .. Used(r) - 1
  <2>1. k + 1 \in 2 .. Used(r) /\ k \in 1 .. Len(Tail(Contents(r)))
    BY <1>1, <1>7
  <2> QED BY <2>1, <1>6, <1>7, <1>8
<1> QED BY <1>7, <1>8, <1>9, SeqEqual

LEMMA InitRefines == Init => Fifo!FifoInit
<1> SUFFICES ASSUME Init PROVE Fifo!FifoInit
  OBVIOUS
<1>1. q \in Queue /\ todo = {} /\ out \in Byte
  BY InitInv DEF Init, IInv, TypeOK
<1>2. Used(q) = 0
  BY QueueAssumption DEF Init, NewQueue, Used
<1>3. Contents(q) = <<>>
  BY <1>1, <1>2, ContentsType, EmptySeq
<1> QED BY <1>1, <1>3 DEF Fifo!FifoInit, AbstractFifo, AbstractHand, Loaded

LEMMA NextRefines ==
  IInv /\ [Next]_vars => [Whole /\ Whole' => Fifo!FifoNext]_(Fifo!fifoVars)
<1> SUFFICES ASSUME IInv, [Next]_vars, Whole, Whole'
             PROVE  Fifo!FifoNext \/ UNCHANGED <<AbstractFifo, AbstractHand>>
  BY DEF Fifo!fifoVars
<1>1. q \in Queue /\ todo \in SUBSET Accesses /\ idx \in Slots /\ out \in Byte
  BY DEF IInv, TypeOK
<1>2. /\ Contents(q) \in Seq(Byte) /\ Len(Contents(q)) = Used(q)
      /\ Used(q) \in 0 .. QSize - 1
  BY <1>1, ContentsType, UsedBounds
<1>3. CASE TaskTest
  BY <1>3 DEF TaskTest, Accesses, AbstractFifo, AbstractHand, Loaded
<1>4. CASE TaskAdvance
  <2>1. ~IsEmpty(q) /\ idx = Succ(q.front)
    BY <1>4 DEF TaskAdvance, IInv, DequeueInv
  <2>2. q' = [q EXCEPT !.front = Succ(q.front)]
    BY <1>4, <2>1 DEF TaskAdvance
  <2>3. /\ Contents(q) # <<>> /\ Head(Contents(q)) = q.slot[idx]
        /\ Contents(q') = Tail(Contents(q))
    BY <1>1, <2>1, <2>2, AdvanceTakesHead DEF Oldest
  <2>4. q'.slot = q.slot
    BY <1>1, <2>2 DEF Queue
  <2>5. "advance" \in todo /\ todo' = todo \ {"advance"} /\ idx' = idx /\ out' = out
    BY <1>4 DEF TaskAdvance
  <2>6. CASE "load" \in todo
    BY <2>3, <2>4, <2>5, <2>6
       DEF Fifo!FifoNext, Fifo!Take, AbstractFifo, AbstractHand, Loaded
  <2>7. CASE "load" \notin todo
    BY <2>3, <2>5, <2>7 DEF AbstractFifo, AbstractHand, Loaded
  <2> QED BY <2>6, <2>7
<1>5. CASE TaskLoad
  <2>1. /\ "load" \in todo /\ "clear" \in todo /\ todo' = todo \ {"load"}
        /\ out' = q.slot[idx] /\ q' = q /\ idx' = idx
    BY <1>5 DEF TaskLoad, IInv, DequeueInv
  <2>2. CASE "advance" \in todo
    <3>1. ~IsEmpty(q) /\ idx = Succ(q.front)
      BY <2>2 DEF IInv, DequeueInv
    <3>2. Contents(q) # <<>> /\ Head(Contents(q)) = q.slot[idx]
      BY <1>1, <3>1, AdvanceTakesHead DEF Oldest
    <3> QED BY <2>1, <2>2, <3>2
            DEF Fifo!FifoNext, Fifo!Take, AbstractFifo, AbstractHand, Loaded
  <2>3. CASE "advance" \notin todo
    BY <2>1, <2>3 DEF AbstractFifo, AbstractHand, Loaded
  <2> QED BY <2>2, <2>3
<1>6. CASE TaskClear
  <2>1. /\ "load" \notin todo /\ todo # {} /\ todo' = todo \ {"clear"}
        /\ q' = [q EXCEPT !.slot[idx] = Zero] /\ idx' = idx /\ out' = out
    BY <1>6 DEF TaskClear
  <2>2. CASE "advance" \in todo
    <3>1. ~IsEmpty(q) /\ idx = SlotOf(q, 1)
      BY <2>2, SlotInUse DEF IInv, DequeueInv
    <3>2. Tail(Contents(q')) = Tail(Contents(q))
      BY <1>1, <2>1, <3>1, ClearOldest
    <3> QED BY <2>1, <2>2, <3>2 DEF AbstractFifo, AbstractHand, Loaded
  <2>3. CASE "advance" \notin todo
    <3>1. Contents(q') = Contents(q)
      BY <1>1, <2>1, <2>3, SlotInUse, FreeSlotWrite, QueueAssumption
    <3> QED BY <2>1, <2>3, <3>1 DEF AbstractFifo, AbstractHand, Loaded
  <2> QED BY <2>2, <2>3
<1>7. ASSUME NEW b \in Byte, IsrEnqueue(b) PROVE Fifo!FifoNext
  <2>1. ~IsFull(q) /\ q' = Enqueue(q, b) /\ UNCHANGED <<todo, idx, out>>
    BY <1>7 DEF IsrEnqueue
  <2>2. Contents(q') = Append(Contents(q), b)
    BY <1>1, <2>1, EnqueueAppends
  <2>3. Len(Contents(q)) < QSize - 1
    BY <1>1, <1>2, <2>1, UsedBounds, QueueAssumption
  <2>4. todo # {} => q'.slot[idx] = q.slot[idx]
    <3>1. q'.slot = [q.slot EXCEPT ![Succ(q.rear)] = b]
      BY <1>1, <2>1 DEF Enqueue, Queue
    <3> QED BY <1>1, <2>1, <3>1, IsrSlotIsAnother DEF Queue
  <2>5. UNCHANGED AbstractHand
    BY <2>1, <2>4 DEF AbstractHand
  <2>6. AbstractFifo' = Append(AbstractFifo, b) /\ Len(AbstractFifo) < QSize - 1
    <3>1. CASE Loaded /\ "advance" \in todo
      <4>1. Contents(q) # <<>>
        BY <1>1, <1>2, <3>1, EmptySeq, UsedBounds DEF Loaded, IInv, DequeueInv
      <4>2. Tail(Append(Contents(q), b)) = Append(Tail(Contents(q)), b)
        BY <1>2, <4>1, HeadTailAppend
      <4>3. Len(Tail(Contents(q))) = Used(q) - 1
        BY <1>2, <4>1, HeadTailProperties
      <4>4. AbstractFifo = Tail(Contents(q)) /\ AbstractFifo' = Tail(Contents(q'))
        BY <2>1, <3>1 DEF AbstractFifo, Loaded
      <4>5. Used(q) - 1 < QSize - 1
        BY <1>2, QueueAssumption
      <4> QED BY <2>2, <4>2, <4>3, <4>4, <4>5
    <3>2. CASE ~(Loaded /\ "advance" \in todo)
      BY <2>1, <2>2, <2>3, <3>2 DEF AbstractFifo, Loaded
    <3> QED BY <3>1, <3>2
  <2> QED BY <2>5, <2>6 DEF Fifo!FifoNext, Fifo!Put
<1>8. CASE IsrOverflow
  BY <1>1, <1>8, WholeSteps, FlushedIsEmpty
     DEF IsrOverflow, Fifo!FifoNext, Fifo!Discard, AbstractFifo, AbstractHand, Loaded
<1>9. CASE UNCHANGED vars
  BY <1>9 DEF vars, AbstractFifo, AbstractHand, Loaded
<1> QED BY <1>3, <1>4, <1>5, <1>6, <1>7, <1>8, <1>9 DEF Next, Task

\* The queue the interrupt handler and the task share is a first-in first-out
\* queue of QSize - 1 bytes, for every QSize and every interleaving of the two, but
\* from an overflow in the middle of a dequeue on until it has run empty.
THEOREM QueueIsFifo == Spec => ImplementsFifo
<1> QED BY InitRefines, NextRefines, Invariance, PTL
        DEF Spec, ImplementsFifo

-----------------------------------------------------------------------------
(* Taking and putting in many bytes, call by call.                         *)

\* The results of the calls exist: each is made from the one before.
LEMMA DequeuesDefined ==
  ASSUME NEW qq, NEW n \in Nat
  PROVE  Dequeues(qq, n) = [i \in 0 .. n |-> IF i = 0 THEN Untouched(qq)
                                             ELSE DequeueOne(Dequeues(qq, n)[i - 1])]
<1> DEFINE Runs(g, m) == g = [i \in 0 .. m |-> IF i = 0 THEN Untouched(qq)
                                              ELSE DequeueOne(g[i - 1])]
           S == {m \in Nat : \E g : Runs(g, m)}
<1>1. 0 \in S
  <2> DEFINE g == [i \in 0 .. 0 |-> Untouched(qq)]
  <2>1. Runs(g, 0)
    OBVIOUS
  <2> QED BY <2>1
<1>2. ASSUME NEW m \in Nat, m \in S PROVE m + 1 \in S
  <2>1. PICK g : Runs(g, m)
    BY <1>2
  <2> DEFINE h == [i \in 0 .. m + 1 |-> IF i <= m THEN g[i] ELSE DequeueOne(g[m])]
  <2>2. \A i \in 0 .. m + 1 : h[i] = IF i = 0 THEN Untouched(qq) ELSE DequeueOne(h[i - 1])
    <3> TAKE i \in 0 .. m + 1
    <3>1. CASE i = 0
      BY <2>1, <3>1
    <3>2. CASE i \in 1 .. m
      <4>1. i \in 0 .. m /\ i - 1 \in 0 .. m + 1 /\ i - 1 <= m /\ i <= m /\ i # 0
        BY <3>2
      <4>2. h[i - 1] = g[i - 1] /\ h[i] = g[i]
        BY <4>1
      <4>3. g[i] = DequeueOne(g[i - 1])
        BY <2>1, <4>1
      <4> QED BY <4>1, <4>2, <4>3
    <3>3. CASE i = m + 1
      <4>1. i - 1 = m /\ m \in 0 .. m + 1 /\ m <= m /\ ~(i <= m) /\ i # 0
        BY <3>3
      <4> QED BY <4>1
    <3> QED BY <3>1, <3>2, <3>3
  <2>3. Runs(h, m + 1)
    BY <2>2
  <2> HIDE DEF h, Runs
  <2> QED BY <2>3
<1>3. \E g : Runs(g, n)
  <2> HIDE DEF Runs
  <2>1. Nat \subseteq S
    BY <1>1, <1>2, CountUp
  <2> QED BY <2>1
<1>4. Dequeues(qq, n) = CHOOSE g : Runs(g, n)
  BY DEF Dequeues
<1>5. Runs(Dequeues(qq, n), n)
  <2> HIDE DEF Runs
  <2> QED BY <1>3, <1>4
<1> QED BY <1>5

-----------------------------------------------------------------------------
(* Taking bytes out.                                                       *)

\* After i calls the oldest bytes are out, as many as there were, and their slots are
\* clear; no other slot has changed.
TakenOut(qq, r, i) ==
  /\ r.queue \in Queue /\ r.data \in Seq(Byte)
  /\ Contents(qq) = r.data \o Contents(r.queue)
  /\ Len(r.data) <= i
  /\ Len(r.data) < i => IsEmpty(r.queue)
  /\ r.queue.rear = qq.rear
  /\ Occupied(r.queue) \subseteq Occupied(qq)
  /\ \A s \in Slots : r.queue.slot[s] = IF s \in Occupied(qq) \ Occupied(r.queue)
                                        THEN Zero ELSE qq.slot[s]

LEMMA NoneTakenOut ==
  ASSUME NEW qq \in Queue
  PROVE  TakenOut(qq, Untouched(qq), 0)
<1>1. Contents(qq) \in Seq(Byte) /\ <<>> \in Seq(Byte) /\ Len(<<>>) = 0
  BY ContentsType, EmptySeq
<1>2. Contents(qq) = <<>> \o Contents(qq)
  BY <1>1, ConcatEmptySeq
<1>3. Untouched(qq).queue = qq /\ Untouched(qq).data = <<>>
  BY DEF Untouched
<1> QED BY <1>1, <1>2, <1>3 DEF TakenOut

LEMMA OneMoreTakenOut ==
  ASSUME NEW qq \in Queue, NEW r, NEW i \in Nat, TakenOut(qq, r, i)
  PROVE  TakenOut(qq, DequeueOne(r), i + 1)
<1>1. /\ r.queue \in Queue /\ r.data \in Seq(Byte) /\ Len(r.data) \in Nat
      /\ Contents(qq) = r.data \o Contents(r.queue)
      /\ Len(r.data) <= i
  BY LenProperties DEF TakenOut
<1>2. CASE IsEmpty(r.queue)
  <2>1. DequeueOne(r) = r
    BY <1>2 DEF DequeueOne
  <2>2. Len(r.data) <= i + 1
    BY <1>1
  <2> QED BY <1>2, <2>1, <2>2 DEF TakenOut
<1>3. CASE ~IsEmpty(r.queue)
  <2> DEFINE b == Oldest(r.queue)
             p == Dequeue(r.queue)
             c == Contents(r.queue)
             s0 == Succ(r.queue.front)
  <2>1. /\ p \in Queue /\ c # <<>> /\ b = Head(c) /\ Contents(p) = Tail(c)
        /\ p.rear = r.queue.rear
        /\ p.slot = [r.queue.slot EXCEPT ![s0] = Zero]
        /\ Occupied(r.queue) = Occupied(p) \cup {s0} /\ s0 \notin Occupied(p)
    BY <1>1, <1>3, DequeueTakesOldest
  <2>2. DequeueOne(r).data = Append(r.data, b) /\ DequeueOne(r).queue = p
    BY <1>3 DEF DequeueOne
  <2>3. c \in Seq(Byte)
    BY <1>1, ContentsType
  <2> HIDE DEF b, p, c, s0
  <2>4. /\ r.data \o c = Append(r.data, b) \o Contents(p)
        /\ Append(r.data, b) \in Seq(Byte) /\ Len(Append(r.data, b)) = Len(r.data) + 1
    <3>1. b \in Byte
      BY <2>1, <2>3, HeadTailProperties
    <3>2. r.data \o c = Append(r.data, b) \o Tail(c)
      BY <1>1, <2>1, <2>3, MoveByte
    <3> QED BY <1>1, <2>1, <3>1, <3>2, AppendProperties
  <2>5. ~(Len(r.data) < i)
    BY <1>3 DEF TakenOut
  <2>6. Len(Append(r.data, b)) <= i + 1 /\ ~(Len(Append(r.data, b)) < i + 1)
    BY <1>1, <2>4, <2>5
  <2>7. \A s \in Slots : p.slot[s] = IF s = s0 THEN Zero ELSE r.queue.slot[s]
    BY <1>1, <2>1 DEF Queue
  <2>8. /\ Occupied(r.queue) \subseteq Occupied(qq)
        /\ \A s \in Slots : r.queue.slot[s] = IF s \in Occupied(qq) \ Occupied(r.queue)
                                              THEN Zero ELSE qq.slot[s]
        /\ r.queue.rear = qq.rear
    BY DEF TakenOut
  <2>9. \A s \in Slots : p.slot[s] = IF s \in Occupied(qq) \ Occupied(p)
                                     THEN Zero ELSE qq.slot[s]
    BY <2>1, <2>7, <2>8
  <2> QED BY <1>1, <2>1, <2>2, <2>4, <2>6, <2>8, <2>9 DEF TakenOut, c
<1> QED BY <1>2, <1>3

LEMMA DequeueNTakesOut ==
  ASSUME NEW qq \in Queue, NEW n \in Nat
  PROVE  TakenOut(qq, DequeueN(qq, n), n)
<1> DEFINE D == Dequeues(qq, n)
           S == {i \in Nat : i <= n => TakenOut(qq, D[i], i)}
<1>1. \A i \in 0 .. n : D[i] = IF i = 0 THEN Untouched(qq) ELSE DequeueOne(D[i - 1])
  BY DequeuesDefined
<1> HIDE DEF D
<1>2. 0 \in S
  BY <1>1, NoneTakenOut
<1>3. ASSUME NEW i \in Nat, i \in S PROVE i + 1 \in S
  <2> SUFFICES ASSUME i + 1 <= n PROVE TakenOut(qq, D[i + 1], i + 1)
    OBVIOUS
  <2>1. i <= n /\ i + 1 \in 0 .. n /\ i + 1 # 0 /\ (i + 1) - 1 = i
    OBVIOUS
  <2>2. TakenOut(qq, D[i], i)
    BY <1>3, <2>1
  <2>3. D[i + 1] = DequeueOne(D[i])
    BY <1>1, <2>1
  <2> QED BY <2>2, <2>3, OneMoreTakenOut
<1>4. Nat \subseteq S
  <2> HIDE DEF S
  <2> QED BY <1>2, <1>3, CountUp
<1>5. TakenOut(qq, D[n], n)
  BY <1>4
<1> QED BY <1>5 DEF DequeueN, D

-----------------------------------------------------------------------------
(* Putting bytes in.                                                       *)

LEMMA AppendBehind ==
  ASSUME NEW s \in Seq(Byte), NEW t \in Seq(Byte), NEW b \in Byte
  PROVE  Append(s \o t, b) = s \o Append(t, b)
<1>1. s \o t \in Seq(Byte) /\ <<b>> \in Seq(Byte)
  BY ConcatProperties
<1>2. Append(s \o t, b) = (s \o t) \o <<b>> /\ Append(t, b) = t \o <<b>>
  BY <1>1, AppendIsConcat
<1>3. (s \o t) \o <<b>> = s \o (t \o <<b>>)
  BY <1>1, ConcatAssociative
<1> QED BY <1>2, <1>3

LEMMA EnqueuesDefined ==
  ASSUME NEW qq, NEW msg \in Seq(Byte)
  PROVE  Enqueues(qq, msg) =
           [i \in 0 .. Len(msg) |-> IF i = 0 THEN NoneStored(qq)
                                    ELSE EnqueueOne(Enqueues(qq, msg)[i - 1], msg[i])]
<1> DEFINE Runs(g, m) == g = [i \in 0 .. m |-> IF i = 0 THEN NoneStored(qq)
                                              ELSE EnqueueOne(g[i - 1], msg[i])]
           S == {m \in Nat : \E g : Runs(g, m)}
<1>1. 0 \in S
  <2> DEFINE g == [i \in 0 .. 0 |-> NoneStored(qq)]
  <2>1. Runs(g, 0)
    OBVIOUS
  <2> QED BY <2>1
<1>2. ASSUME NEW m \in Nat, m \in S PROVE m + 1 \in S
  <2>1. PICK g : Runs(g, m)
    BY <1>2
  <2> DEFINE h == [i \in 0 .. m + 1 |-> IF i <= m THEN g[i] ELSE EnqueueOne(g[m], msg[m + 1])]
  <2>2. \A i \in 0 .. m + 1 : h[i] = IF i = 0 THEN NoneStored(qq) ELSE EnqueueOne(h[i - 1], msg[i])
    <3> TAKE i \in 0 .. m + 1
    <3>1. CASE i = 0
      BY <2>1, <3>1
    <3>2. CASE i \in 1 .. m
      <4>1. i \in 0 .. m /\ i - 1 \in 0 .. m + 1 /\ i - 1 <= m /\ i <= m /\ i # 0
        BY <3>2
      <4>2. h[i - 1] = g[i - 1] /\ h[i] = g[i]
        BY <4>1
      <4>3. g[i] = EnqueueOne(g[i - 1], msg[i])
        BY <2>1, <4>1
      <4> QED BY <4>1, <4>2, <4>3
    <3>3. CASE i = m + 1
      <4>1. i - 1 = m /\ m \in 0 .. m + 1 /\ m <= m /\ ~(i <= m) /\ i # 0
        BY <3>3
      <4> QED BY <3>3, <4>1
    <3> QED BY <3>1, <3>2, <3>3
  <2>3. Runs(h, m + 1)
    BY <2>2
  <2> HIDE DEF h, Runs
  <2> QED BY <2>3
<1>3. \E g : Runs(g, Len(msg))
  <2>1. Len(msg) \in Nat
    BY LenProperties
  <2> HIDE DEF Runs
  <2>2. Nat \subseteq S
    BY <1>1, <1>2, CountUp
  <2> QED BY <2>1, <2>2
<1>4. Enqueues(qq, msg) = CHOOSE g : Runs(g, Len(msg))
  BY DEF Enqueues
<1>5. Runs(Enqueues(qq, msg), Len(msg))
  <2> HIDE DEF Runs
  <2> QED BY <1>3, <1>4
<1> QED BY <1>5

Free(qq) == QSize - 1 - Len(Contents(qq))

\* After i calls the first bytes of the message are in the queue, as many as fit.
PutIn(qq, msg, r, i) ==
  /\ r \in [ok : BOOLEAN, stored : Nat, queue : Queue]
  /\ r.ok <=> i <= Free(qq)
  /\ r.stored = IF i <= Free(qq) THEN i ELSE Free(qq)
  /\ Contents(r.queue) = Contents(qq) \o SubSeq(msg, 1, r.stored)

LEMMA FreeIsNat ==
  ASSUME NEW qq \in Queue
  PROVE  /\ Free(qq) \in Nat /\ Len(Contents(qq)) = QSize - 1 - Free(qq)
         /\ IsFull(qq) <=> Free(qq) = 0
<1>1. Len(Contents(qq)) = Used(qq) /\ Used(qq) \in 0 .. QSize - 1
  BY ContentsType, UsedBounds
<1>2. IsFull(qq) <=> Used(qq) = QSize - 1
  BY UsedBounds
<1> QED BY <1>1, <1>2, QueueAssumption DEF Free

LEMMA NonePutIn ==
  ASSUME NEW qq \in Queue, NEW msg \in Seq(Byte)
  PROVE  PutIn(qq, msg, NoneStored(qq), 0)
<1>0. /\ NoneStored(qq) \in [ok : BOOLEAN, stored : Nat, queue : Queue]
      /\ NoneStored(qq).ok = TRUE /\ NoneStored(qq).stored = 0 /\ NoneStored(qq).queue = qq
  BY DEF NoneStored
<1>1. SubSeq(msg, 1, 0) = <<>>
  BY SubSeqEmpty
<1>2. Contents(qq) \o <<>> = Contents(qq)
  BY ContentsType, ConcatEmptySeq
<1>3. 0 <= Free(qq)
  BY FreeIsNat
<1> QED BY <1>0, <1>1, <1>2, <1>3 DEF PutIn

LEMMA OneMorePutIn ==
  ASSUME NEW qq \in Queue, NEW msg \in Seq(Byte), NEW r, NEW i \in Nat,
         i + 1 \in 1 .. Len(msg), PutIn(qq, msg, r, i)
  PROVE  PutIn(qq, msg, EnqueueOne(r, msg[i + 1]), i + 1)
<1> DEFINE b == msg[i + 1]
<1>1. /\ r \in [ok : BOOLEAN, stored : Nat, queue : Queue]
      /\ r.queue \in Queue /\ r.ok \in BOOLEAN /\ r.stored \in Nat
      /\ r.ok <=> i <= Free(qq)
      /\ r.stored = IF i <= Free(qq) THEN i ELSE Free(qq)
      /\ Contents(r.queue) = Contents(qq) \o SubSeq(msg, 1, r.stored)
  BY DEF PutIn
<1>2. b \in Byte /\ Len(msg) \in Nat /\ Free(qq) \in Nat
  BY ElementOfSeq, LenProperties, FreeIsNat
<1>3. r.stored <= Len(msg)
  BY <1>1, <1>2
<1>4. /\ Contents(qq) \in Seq(Byte) /\ SubSeq(msg, 1, r.stored) \in Seq(Byte)
      /\ Len(SubSeq(msg, 1, r.stored)) = r.stored
  <2>1. \A k \in 1 .. r.stored : msg[k] \in Byte
    BY <1>1, <1>2, <1>3, ElementOfSeq
  <2>2. /\ SubSeq(msg, 1, r.stored) \in Seq(Byte)
        /\ Len(SubSeq(msg, 1, r.stored)) = IF 1 <= r.stored THEN r.stored - 1 + 1 ELSE 0
    BY <1>1, <2>1, SubSeqProperties
  <2> QED BY <1>1, <2>2, ContentsType
<1>5. IsFull(r.queue) <=> r.stored = Free(qq)
  <2>1. Len(Contents(r.queue)) = Len(Contents(qq)) + r.stored
    BY <1>1, <1>4, ConcatProperties
  <2> QED BY <1>1, <1>2, <2>1, FreeIsNat, QueueAssumption DEF Free
<1>6. CASE r.ok /\ ~IsFull(r.queue)
  <2> DEFINE p == EnqueueOne(r, b)
  <2>1. p = [ok |-> TRUE, stored |-> r.stored + 1, queue |-> Enqueue(r.queue, b)]
    BY <1>6 DEF EnqueueOne
  <2>2. i + 1 <= Free(qq) /\ r.stored = i
    BY <1>1, <1>2, <1>5, <1>6
  <2>3. Enqueue(r.queue, b) \in Queue /\ Contents(Enqueue(r.queue, b)) = Append(Contents(r.queue), b)
    BY <1>1, <1>2, <1>6, EnqueueAppends
  <2>4. Append(Contents(r.queue), b) = Contents(qq) \o SubSeq(msg, 1, i + 1)
    <3>1. SubSeq(msg, 1, i + 1) = SubSeq(msg, 1, i) \o <<b>>
      <4>1. 1 \in 1 .. Len(msg) /\ i + 1 \in 1 .. Len(msg) /\ (i + 1) - 1 = i
        BY <1>2
      <4> QED BY <4>1, SubSeqRecursiveSecond
    <3>2. Contents(r.queue) = Contents(qq) \o SubSeq(msg, 1, i)
      BY <1>1, <2>2
    <3>3. Contents(qq) \in Seq(Byte) /\ SubSeq(msg, 1, i) \in Seq(Byte)
      BY <1>4, <2>2
    <3>4. b \in Byte
      BY <1>2
    <3>5. Append(SubSeq(msg, 1, i), b) = SubSeq(msg, 1, i) \o <<b>>
      BY <3>3, <3>4, AppendIsConcat
    <3>6. Append(Contents(qq) \o SubSeq(msg, 1, i), b) = Contents(qq) \o Append(SubSeq(msg, 1, i), b)
      BY <3>3, <3>4, AppendBehind
    <3> QED BY <3>1, <3>2, <3>5, <3>6
  <2> HIDE DEF b
  <2>5. p \in [ok : BOOLEAN, stored : Nat, queue : Queue]
    BY <1>1, <2>1, <2>3
  <2>6. p.ok = TRUE /\ p.stored = i + 1 /\ p.queue = Enqueue(r.queue, b)
    BY <2>1, <2>2
  <2>7. Contents(p.queue) = Contents(qq) \o SubSeq(msg, 1, p.stored)
    BY <2>3, <2>4, <2>6
  <2> HIDE DEF p
  <2>8. PutIn(qq, msg, p, i + 1)
    BY <2>2, <2>5, <2>6, <2>7 DEF PutIn
  <2> QED BY <2>8 DEF p, b
<1>7. CASE ~(r.ok /\ ~IsFull(r.queue))
  <2> DEFINE p == [r EXCEPT !.ok = FALSE]
  <2>1. EnqueueOne(r, b) = p
    BY <1>7 DEF EnqueueOne
  <2>2. p \in [ok : BOOLEAN, stored : Nat, queue : Queue] /\ p.ok = FALSE
        /\ p.stored = r.stored /\ p.queue = r.queue
    BY <1>1
  <2>3. ~(i + 1 <= Free(qq)) /\ r.stored = Free(qq)
    BY <1>1, <1>2, <1>5, <1>7
  <2> HIDE DEF p
  <2> QED BY <1>1, <2>1, <2>2, <2>3 DEF PutIn
<1> QED BY <1>6, <1>7

LEMMA EnqueueAllPutsIn ==
  ASSUME NEW qq \in Queue, NEW msg \in Seq(Byte)
  PROVE  PutIn(qq, msg, EnqueueAll(qq, msg), Len(msg))
<1> DEFINE E == Enqueues(qq, msg)
           n == Len(msg)
           S == {i \in Nat : i <= n => PutIn(qq, msg, E[i], i)}
<1>1. n \in Nat
  BY LenProperties
<1>2. \A i \in 0 .. n : E[i] = IF i = 0 THEN NoneStored(qq)
                               ELSE EnqueueOne(E[i - 1], msg[i])
  BY EnqueuesDefined
<1> HIDE DEF E
<1>3. 0 \in S
  BY <1>1, <1>2, NonePutIn
<1>4. ASSUME NEW i \in Nat, i \in S PROVE i + 1 \in S
  <2> SUFFICES ASSUME i + 1 <= n PROVE PutIn(qq, msg, E[i + 1], i + 1)
    OBVIOUS
  <2>1. i <= n /\ i + 1 \in 0 .. n /\ i + 1 \in 1 .. n /\ i + 1 # 0 /\ (i + 1) - 1 = i
    BY <1>1
  <2>2. PutIn(qq, msg, E[i], i)
    BY <1>4, <2>1
  <2>3. E[i + 1] = EnqueueOne(E[i], msg[i + 1])
    BY <1>2, <2>1
  <2> QED BY <2>1, <2>2, <2>3, OneMorePutIn
<1>5. Nat \subseteq S
  <2> HIDE DEF S
  <2> QED BY <1>3, <1>4, CountUp
<1>6. PutIn(qq, msg, E[n], n)
  BY <1>1, <1>5
<1> QED BY <1>6 DEF EnqueueAll, E

-----------------------------------------------------------------------------
(* The message calls.                                                      *)

LEMMA SendKeepsPromise ==
  ASSUME q \in Queue, NEW msg \in Seq(Byte)
  PROVE  SendPromise(msg)
<1> DEFINE free == Free(q)
           r == EnqueueAll(q, msg)
           s == SendMsg(q, msg)
           c == Contents(q) \o SubSeq(msg, 1, free)
<1>1. /\ r.queue \in Queue /\ r.ok \in BOOLEAN
      /\ r.ok <=> Len(msg) <= free
      /\ r.stored = IF Len(msg) <= free THEN Len(msg) ELSE free
      /\ Contents(r.queue) = Contents(q) \o SubSeq(msg, 1, r.stored)
  <2>1. PutIn(q, msg, r, Len(msg))
    BY EnqueueAllPutsIn
  <2> QED BY <2>1 DEF PutIn
<1>2. s.ok = r.ok /\ s.queue = IF r.ok THEN r.queue ELSE DequeueN(r.queue, r.stored).queue
  BY DEF SendMsg
<1>3. free \in Nat /\ Len(msg) \in Nat /\ QSize \in Nat /\ Len(Contents(q)) = QSize - 1 - free
      /\ Contents(q) \in Seq(Byte)
  BY FreeIsNat, LenProperties, ContentsType, QueueAssumption
<1> HIDE DEF s, r, free
<1>4. ASSUME r.ok PROVE Contents(s.queue) = Contents(q) \o msg
  BY <1>1, <1>2, <1>4, SubSeqFull
<1>5. ASSUME ~r.ok PROVE Contents(s.queue) = SubSeq(c, free + 1, Len(c))
  <2> DEFINE d == DequeueN(r.queue, free)
  <2>1. free < Len(msg) /\ r.stored = free /\ Contents(r.queue) = c
    BY <1>1, <1>3, <1>5
  <2>2. s.queue = d.queue
    BY <1>2, <1>5, <2>1
  <2>3. SubSeq(msg, 1, free) \in Seq(Byte) /\ Len(SubSeq(msg, 1, free)) = free
    <3>1. \A k \in 1 .. free : msg[k] \in Byte
      BY <1>3, <2>1, ElementOfSeq
    <3>2. /\ SubSeq(msg, 1, free) \in Seq(Byte)
          /\ Len(SubSeq(msg, 1, free)) = IF 1 <= free THEN free - 1 + 1 ELSE 0
      BY <1>3, <3>1, SubSeqProperties
    <3> QED BY <1>3, <3>2
  <2>4. Len(c) = QSize - 1
    <3>1. Len(c) = Len(Contents(q)) + Len(SubSeq(msg, 1, free))
      BY <1>3, <2>3, ConcatProperties
    <3> QED BY <1>3, <2>3, <3>1
  <2>5. TakenOut(r.queue, d, free)
    BY <1>1, <1>3, DequeueNTakesOut
  <2> HIDE DEF d, c
  <2>6. /\ d.queue \in Queue /\ d.data \in Seq(Byte)
        /\ c = d.data \o Contents(d.queue)
        /\ Len(d.data) <= free
        /\ Len(d.data) < free => IsEmpty(d.queue)
    BY <2>1, <2>5 DEF TakenOut
  <2>7. Contents(d.queue) \in Seq(Byte) /\ Len(d.data) \in Nat
    BY <2>6, ContentsType, LenProperties
  <2>8. Len(c) = Len(d.data) + Len(Contents(d.queue))
    BY <2>6, <2>7, ConcatProperties
  <2>9. ~(Len(d.data) < free)
    <3> SUFFICES ASSUME Len(d.data) < free PROVE FALSE
      OBVIOUS
    <3>1. Len(Contents(d.queue)) = 0
      BY <2>6, ContentsType, UsedBounds
    <3>2. Len(Contents(q)) \in Nat
      BY <1>3, LenProperties
    <3> QED BY <1>3, <2>4, <2>7, <2>8, <3>1, <3>2
  <2>10. Len(d.data) = free
    BY <1>3, <2>6, <2>7, <2>9
  <2>11. SubSeq(c, Len(d.data) + 1, Len(c)) = Contents(d.queue)
    BY <2>6, <2>7, SecondPart
  <2> QED BY <2>2, <2>10, <2>11
<1> QED BY <1>1, <1>2, <1>4, <1>5 DEF SendPromise, free, s, Free

LEMMA RecvKeepsPromise ==
  ASSUME q \in Queue, NEW count \in Nat
  PROVE  RecvPromise(count)
<1> DEFINE r == RecvMsg(q, count)
<1>1. TakenOut(q, r, count)
  BY DequeueNTakesOut DEF RecvMsg
<1> HIDE DEF r
<1>2. /\ r.queue \in Queue /\ Contents(q) = r.data \o Contents(r.queue)
      /\ Len(r.data) < count => IsEmpty(r.queue)
  BY <1>1 DEF TakenOut
<1>3. IsEmpty(r.queue) => Contents(r.queue) = <<>>
  BY <1>2, ContentsType, UsedBounds, EmptySeq
<1> QED BY <1>2, <1>3 DEF RecvPromise, r

LEMMA FlushEmpties ==
  ASSUME NEW qq \in Queue
  PROVE  FlushMsg(qq) = Flushed(qq)
<1> DEFINE r == DequeueN(qq, QSize)
<1>1. QSize \in Nat /\ TakenOut(qq, r, QSize)
  BY QueueAssumption, DequeueNTakesOut
<1> HIDE DEF r
<1>2. /\ r.queue \in Queue /\ r.data \in Seq(Byte)
      /\ Contents(qq) = r.data \o Contents(r.queue)
      /\ Len(r.data) < QSize => IsEmpty(r.queue)
      /\ r.queue.rear = qq.rear
      /\ \A s \in Slots : r.queue.slot[s] = IF s \in Occupied(qq) \ Occupied(r.queue)
                                            THEN Zero ELSE qq.slot[s]
  BY <1>1 DEF TakenOut
<1>3. Len(r.data) < QSize
  <2>1. Len(Contents(qq)) = Used(qq) /\ Used(qq) \in 0 .. QSize - 1
    BY ContentsType, UsedBounds
  <2>2. Contents(r.queue) \in Seq(Byte) /\ Len(Contents(r.queue)) \in Nat /\ Len(r.data) \in Nat
    BY <1>2, ContentsType, LenProperties
  <2>3. Len(Contents(qq)) = Len(r.data) + Len(Contents(r.queue))
    BY <1>2, <2>2, ConcatProperties
  <2>4. Used(qq) \in Nat /\ Used(qq) < QSize
    BY <2>1, QueueAssumption
  <2>5. Used(qq) = Len(r.data) + Len(Contents(r.queue))
    BY <2>1, <2>3, Zenon
  <2>6. \A i, j, k \in Nat : i = j + k => j <= i
    OBVIOUS
  <2>7. Len(r.data) <= Used(qq)
    BY <2>2, <2>4, <2>5, <2>6, Zenon
  <2> QED BY <2>2, <2>4, <2>7, QueueAssumption
<1>4. IsEmpty(r.queue) /\ Used(r.queue) = 0
  BY <1>2, <1>3, UsedBounds
<1>5. Occupied(r.queue) = {}
  BY <1>4 DEF Occupied
<1>6. r.queue.front = qq.rear
  BY <1>2, <1>4 DEF IsEmpty
<1>7. r.queue.slot = [s \in Slots |-> IF s \in Occupied(qq) THEN Zero ELSE qq.slot[s]]
  BY <1>2, <1>5 DEF Queue
<1>8. Flushed(qq) \in Queue /\ Flushed(qq).front = qq.rear /\ Flushed(qq).rear = qq.rear
      /\ Flushed(qq).slot = [s \in Slots |-> IF s \in Occupied(qq) THEN Zero ELSE qq.slot[s]]
  BY FlushedIsEmpty DEF Flushed, Queue
<1>9. r.queue = Flushed(qq)
  BY <1>2, <1>6, <1>7, <1>8 DEF Queue
<1> QED BY <1>9 DEF FlushMsg, r

-----------------------------------------------------------------------------
(* The observer changes nothing of what it observes.                       *)

LEMMA ObservedSteps == [TornNext]_<<vars, observed, struck>> => [Next]_vars
  BY DEF TornNext, Next, Task, vars

LEMMA ObserverHidesNothing == TornSpec => Spec
<1>1. TornInit => Init
  BY DEF TornInit
<1> QED BY <1>1, ObservedSteps, PTL DEF TornSpec, Spec

\* Between two dequeues the message calls do to the queued bytes what they promise,
\* for every size of the ring, every message and every count.
THEOREM CallsKeepPromise == TornSpec => []CallsAsPromised
<1>1. TypeOK => CallsAsPromised
  <2> SUFFICES ASSUME TypeOK PROVE CallsAsPromised
    OBVIOUS
  <2>1. q \in Queue
    BY DEF TypeOK
  <2>2. \A msg \in Message : SendPromise(msg)
    BY <2>1, SendKeepsPromise, MessageAssumption
  <2>3. \A count \in 0 .. MaxRecv : RecvPromise(count)
    BY <2>1, RecvKeepsPromise, MessageAssumption
  <2> QED BY <2>1, <2>2, <2>3, FlushEmpties DEF CallsAsPromised
<1>2. Spec => []TypeOK
  BY TypeCorrect
<1> QED BY <1>1, <1>2, ObserverHidesNothing, PTL

-----------------------------------------------------------------------------
(* The two bytes that are followed.                                        *)

\* The ring as the dequeue under way leaves it, unless it is struck again: front will
\* be stored whatever a flush makes of it.
Ahead == [q EXCEPT !.front = IF "advance" \in todo THEN idx ELSE q.front]

Followed == 1 .. 2

\* A byte is between its load and the clearing of its slot.
InHand(m) == at[m] = idx /\ "load" \notin todo /\ "clear" \in todo

\* A byte stands in the ring, and what the task loads next stands in front of it.
InRing(m) == at[m] \in Occupied(Ahead)

OnLoad(m) == "load" \in todo /\ at[m] = idx

TornTypeOK ==
  /\ at \in [Followed -> Slots \cup {Unsent, Lost}]
  /\ taken \in {<<>>, <<1>>, <<2>>, <<1, 2>>}
  /\ struck \in BOOLEAN
  /\ "load" \in todo => "clear" \in todo
  /\ at[1] = Unsent => at[2] = Unsent

Taken(m) == taken \in {<<m>>, <<1, 2>>}

\* What has been taken is out of the ring for good.
TakenIsOut == \A m \in Followed : Taken(m) => at[m] = Lost \/ InHand(m)

\* The slot that is being read is the one behind the ring, or, after a strike that
\* came too late for the store of front, the first of the ring.
ReadIsFirst == todo # {} /\ "advance" \notin todo =>
                 idx = q.front \/ (struck /\ idx = Succ(q.front))

\* The earlier byte stands in front of the later one.
EarlierIsFirst == \A j, k \in 1 .. Used(Ahead) :
                    at[1] = SlotOf(Ahead, j) /\ at[2] = SlotOf(Ahead, k) => j < k

\* Once the later byte is read, or about to be, the earlier one is out of the ring.
LaterIsLast == /\ OnLoad(2) => OnLoad(1) \/ ~InRing(1)
               /\ Taken(2) /\ ~Taken(1) => ~InRing(1) /\ ~OnLoad(1)

TornInv == TornTypeOK /\ TakenIsOut /\ ReadIsFirst /\ EarlierIsFirst /\ LaterIsLast

LEMMA AheadRing ==
  ASSUME TypeOK
  PROVE  /\ Ahead \in Queue
         /\ Ahead.front = IF "advance" \in todo THEN idx ELSE q.front
         /\ Ahead.rear = q.rear
BY DEF TypeOK, Ahead, Queue

\* Where the bytes stand depends on the indices alone.
LEMMA SameIndices ==
  ASSUME NEW p, NEW r, r.front = p.front, r.rear = p.rear
  PROVE  /\ Used(r) = Used(p) /\ \A k : SlotOf(r, k) = SlotOf(p, k)
         /\ Occupied(r) = Occupied(p)
BY DEF Used, SlotOf, Occupied

\* The slot that is written next is never one of the ring.
LEMMA NextSlotIsOutside ==
  ASSUME NEW p \in Queue
  PROVE  Succ(p.rear) \notin Occupied(p)
<1>1. CASE ~IsFull(p)
  BY <1>1, NextSlotIsFree
<1>2. CASE IsFull(p)
  <2>1. Succ(p.rear) = SlotOf(p, 0) /\ Used(p) \in Nat
    BY <1>2, UsedBounds DEF IsFull
  <2>2. \A k \in 1 .. Used(p) : SlotOf(p, k) # SlotOf(p, 0)
    BY <2>1, UsedBounds
  <2> QED BY <2>1, <2>2 DEF Occupied
<1> QED BY <1>1, <1>2

\* A full ring takes all the other slots.
LEMMA FullTakesTheRest ==
  ASSUME NEW p \in Queue, IsFull(p), NEW s \in Slots, s # Succ(p.rear)
  PROVE  s \in Occupied(p)
<1>1. Succ(p.rear) = p.front /\ Used(p) = QSize - 1
  BY UsedBounds DEF IsFull
<1>2. p.front \in Nat /\ p.front < QSize /\ s \in Nat /\ s < QSize /\ QSize \in Nat
  BY QueueAssumption DEF Queue, Slots
<1>3. CASE s > p.front
  <2>1. s - p.front \in 1 .. Used(p) /\ p.front + (s - p.front) = s
    BY <1>1, <1>2, <1>3
  <2>2. SlotOf(p, s - p.front) = s
    BY <1>2, <2>1 DEF SlotOf
  <2> QED BY <2>1, <2>2 DEF Occupied
<1>4. CASE s < p.front
  <2> DEFINE k == s + QSize - p.front
  <2>1. k \in 1 .. Used(p) /\ ~(p.front + k < QSize) /\ p.front + k - QSize = s
    BY <1>1, <1>2, <1>4
  <2>2. SlotOf(p, k) = s
    BY <2>1 DEF SlotOf
  <2> QED BY <2>1, <2>2 DEF Occupied
<1> QED BY <1>1, <1>2, <1>3, <1>4

\* What a byte more makes of a ring: it stands behind the others, or, when the ring
\* was full, rear has come round to front and all is lost.
LEMMA RearMovesOn ==
  ASSUME NEW p \in Queue, NEW r \in Queue, r.front = p.front, r.rear = Succ(p.rear)
  PROVE  /\ Used(p) \in Nat
         /\ IsFull(p) => Used(r) = 0 /\ Occupied(r) = {}
         /\ ~IsFull(p) => /\ Used(r) = Used(p) + 1
                          /\ \A k \in 1 .. Used(p) : SlotOf(r, k) = SlotOf(p, k)
                          /\ SlotOf(r, Used(p) + 1) = Succ(p.rear)
                          /\ Occupied(r) = Occupied(p) \cup {Succ(p.rear)}
<1>1. Used(p) \in Nat
  BY UsedBounds
<1>2. CASE IsFull(p)
  <2>1. Used(r) = 0
    BY <1>2, UsedBounds DEF IsFull, IsEmpty
  <2> QED BY <1>1, <1>2, <2>1 DEF Occupied
<1>3. CASE ~IsFull(p)
  <2> DEFINE e == Enqueue(p, Zero)
  <2>1. /\ Used(e) = Used(p) + 1
        /\ \A k \in 0 .. Used(p) : SlotOf(e, k) = SlotOf(p, k)
        /\ SlotOf(e, Used(p) + 1) = Succ(p.rear)
    BY <1>3, EnqueueAppends, QueueAssumption
  <2>2. e.front = p.front /\ e.rear = Succ(p.rear)
    BY DEF Enqueue, Queue
  <2> HIDE DEF e
  <2>3. Used(r) = Used(e) /\ \A k : SlotOf(r, k) = SlotOf(e, k)
    BY <2>2, SameIndices
  <2>4. /\ Used(r) = Used(p) + 1
        /\ \A k \in 1 .. Used(p) : SlotOf(r, k) = SlotOf(p, k)
        /\ SlotOf(r, Used(p) + 1) = Succ(p.rear)
    BY <1>1, <2>1, <2>3
  <2>5. Occupied(r) = Occupied(p) \cup {Succ(p.rear)}
    <3>1. \A k : k \in 1 .. Used(r) <=> k \in 1 .. Used(p) \/ k = Used(p) + 1
      BY <1>1, <2>4
    <3> QED BY <2>4, <3>1 DEF Occupied
  <2> QED BY <1>1, <1>3, <2>4, <2>5
<1> QED BY <1>2, <1>3

LEMMA TakenCases ==
  ASSUME TornTypeOK
  PROVE  /\ \/ taken = <<>> /\ ~Taken(1) /\ ~Taken(2)
            \/ taken = <<1>> /\ Taken(1) /\ ~Taken(2)
            \/ taken = <<2>> /\ ~Taken(1) /\ Taken(2)
            \/ taken = <<1, 2>> /\ Taken(1) /\ Taken(2)
         /\ \A m \in Followed : at[m] \in Slots \cup {Unsent, Lost}
         /\ Unsent \notin Slots /\ Lost \notin Slots /\ Unsent # Lost
<1>1. <<1>> # <<2>> /\ <<>> # <<1>> /\ <<>> # <<2>> /\ <<>> # <<1, 2>>
      /\ <<1>> # <<1, 2>> /\ <<2>> # <<1, 2>>
  OBVIOUS
<1>2. Unsent \notin Slots /\ Lost \notin Slots /\ Unsent # Lost
  BY QueueAssumption DEF Unsent, Lost, Slots
<1> QED BY <1>1, <1>2 DEF TornTypeOK, Taken

LEMMA TestKeepsOrder ==
  ASSUME TypeOK, TornInv, TaskTest, struck' = FALSE, UNCHANGED observed
  PROVE  TornInv'
<1>1. /\ q \in Queue /\ todo = {} /\ ~IsEmpty(q)
      /\ todo' = Accesses /\ idx' = Succ(q.front) /\ q' = q
      /\ at' = at /\ taken' = taken
  BY DEF TypeOK, TaskTest, observed
<1>2. Ahead = q /\ Ahead' = [q EXCEPT !.front = Succ(q.front)]
  <2>1. Ahead = [q EXCEPT !.front = q.front]
    BY <1>1 DEF Ahead
  <2> QED BY <1>1, <2>1 DEF Ahead, Accesses, Queue
<1>3. /\ Used(Ahead') = Used(q) - 1 /\ Used(q) \in Nat \ {0}
      /\ \A k \in 0 .. Used(Ahead') : SlotOf(Ahead', k) = SlotOf(q, k + 1)
  BY <1>1, <1>2, AdvanceTakesHead, UsedBounds
<1>4. idx' = SlotOf(q, 1)
  <2>1. 0 \in 0 .. Used(Ahead') /\ Ahead' \in Queue
    BY <1>1, <1>2, <1>3, AdvanceTakesHead
  <2>2. SlotOf(Ahead', 0) = Ahead'.front
    BY <2>1, UsedBounds
  <2> QED BY <1>1, <1>2, <1>3, <2>1, <2>2 DEF Queue
<1>5. Occupied(Ahead') \subseteq Occupied(q) /\ idx' \in Occupied(q) /\ idx' \notin Occupied(Ahead')
  <2>1. \A k \in 1 .. Used(Ahead') : k + 1 \in 1 .. Used(q) /\ k \in 0 .. Used(Ahead') /\ k + 1 # 1
    BY <1>3
  <2>2. 1 \in 1 .. Used(q)
    BY <1>3
  <2>3. \A k \in 1 .. Used(q) : SlotOf(q, k) = SlotOf(q, 1) => k = 1
    <3>1. \A k \in 1 .. Used(q) : k \in 0 .. Used(q)
      BY <1>3
    <3> QED BY <1>1, <2>2, <3>1, UsedBounds
  <2> QED BY <1>3, <1>4, <2>1, <2>2, <2>3 DEF Occupied
<1>6. \A m \in Followed : Taken(m) => at[m] = Lost
  BY <1>1 DEF TornInv, TakenIsOut, InHand
<1>7. TornTypeOK'
  BY <1>1 DEF TornInv, TornTypeOK, Accesses
<1>8. TakenIsOut'
  BY <1>1, <1>6 DEF TakenIsOut, Taken
<1>9. ReadIsFirst'
  BY <1>1 DEF ReadIsFirst, Accesses
<1>10. EarlierIsFirst'
  <2> SUFFICES ASSUME NEW j \in 1 .. Used(Ahead'), NEW k \in 1 .. Used(Ahead'),
                      at[1] = SlotOf(q, j + 1), at[2] = SlotOf(q, k + 1)
               PROVE  j < k
    BY <1>1, <1>3 DEF EarlierIsFirst
  <2>1. j + 1 \in 1 .. Used(q) /\ k + 1 \in 1 .. Used(q)
    BY <1>3
  <2>2. j + 1 < k + 1
    BY <1>2, <2>1 DEF TornInv, EarlierIsFirst
  <2> QED BY <1>3, <2>2
<1>11. LaterIsLast'
  <2>1. ASSUME at[2] = idx', at[1] \in Occupied(Ahead') PROVE FALSE
    <3>1. PICK j \in 1 .. Used(q) : at[1] = SlotOf(q, j)
      BY <1>5, <2>1 DEF Occupied
    <3>2. 1 \in 1 .. Used(q)
      BY <1>3
    <3>3. j < 1
      BY <1>2, <1>4, <2>1, <3>1, <3>2 DEF TornInv, EarlierIsFirst
    <3> QED BY <3>1, <3>3
  <2>2. Taken(2) /\ ~Taken(1) => at[1] \notin Occupied(q)
    BY <1>2 DEF TornInv, LaterIsLast, InRing
  <2> QED BY <1>1, <1>5, <2>1, <2>2 DEF LaterIsLast, OnLoad, InRing, Taken
<1> QED BY <1>7, <1>8, <1>9, <1>10, <1>11 DEF TornInv

\* Front is stored where the ring is taken to begin already.
LEMMA AdvanceKeepsOrder ==
  ASSUME TypeOK, TornInv, TaskAdvance, UNCHANGED <<observed, struck>>
  PROVE  TornInv'
<1>1. /\ q \in Queue /\ "advance" \in todo /\ todo' = todo \ {"advance"}
      /\ q' = [q EXCEPT !.front = idx] /\ idx' = idx /\ idx \in Slots
      /\ at' = at /\ taken' = taken /\ struck' = struck
  BY DEF TypeOK, TaskAdvance, observed
<1>2. Ahead' = Ahead /\ q'.front = idx
  BY <1>1 DEF Ahead, Queue
<1>3. "load" \in todo' <=> "load" \in todo
  BY <1>1
<1>4. "clear" \in todo' <=> "clear" \in todo
  BY <1>1
<1>5. TornTypeOK'
  BY <1>1, <1>3, <1>4 DEF TornInv, TornTypeOK
<1>6. TakenIsOut'
  BY <1>1, <1>3, <1>4 DEF TornInv, TakenIsOut, Taken, InHand
<1>7. ReadIsFirst'
  BY <1>1, <1>2 DEF ReadIsFirst
<1>8. EarlierIsFirst'
  BY <1>1, <1>2 DEF TornInv, EarlierIsFirst
<1>9. LaterIsLast'
  BY <1>1, <1>2, <1>3 DEF TornInv, LaterIsLast, OnLoad, InRing, Taken
<1> QED BY <1>5, <1>6, <1>7, <1>8, <1>9 DEF TornInv

\* The load takes a byte that was not taken yet, and not the earlier one after the
\* later one.
LEMMA LoadKeepsOrder ==
  ASSUME TypeOK, TornInv, TaskLoad, ObserveLoad, UNCHANGED struck
  PROVE  TornInv'
<1>1. /\ q' = q /\ idx' = idx /\ idx \in Slots
      /\ "load" \in todo /\ todo' = todo \ {"load"} /\ "clear" \in todo
      /\ at' = at /\ struck' = struck
  BY DEF TypeOK, TaskLoad, ObserveLoad, TornInv, TornTypeOK
<1>2. Ahead' = Ahead
  BY <1>1 DEF Ahead
<1>3. \A m \in Followed : Taken(m) => at[m] # idx
  BY <1>1, TakenCases DEF TornInv, TakenIsOut, InHand
<1>4. Taken(2) /\ ~Taken(1) => at[1] # idx
  BY <1>1 DEF TornInv, LaterIsLast, OnLoad
<1>5. /\ taken' \in {<<>>, <<1>>, <<2>>, <<1, 2>>}
      /\ \A m \in Followed : Taken(m)' => Taken(m) \/ at[m] = idx
      /\ \A m \in Followed : Taken(m) => Taken(m)'
  <2>1. CASE taken' = taken
    BY <2>1 DEF Taken, TornInv, TornTypeOK
  <2>2. ASSUME NEW m \in 1 .. 2, at[m] = idx, taken' = Append(taken, m)
        PROVE  <1>5
    <3>1. ~Taken(m) /\ (m = 1 => ~Taken(2))
      BY <1>3, <1>4, <2>2 DEF Followed
    <3>2. CASE taken = <<>>
      <4>1. taken' = <<m>>
        BY <2>2, <3>2
      <4> QED BY <2>2, <3>2, <4>1, TakenCases DEF Taken, Followed, TornInv
    <3>3. CASE taken = <<1>> /\ m = 2
      <4>1. Append(<<1>>, 2) = <<1, 2>>
        <5>1. <<1>> \in Seq(Nat) /\ <<1, 2>> \in Seq(Nat) /\ Len(<<1>>) = 1 /\ Len(<<1, 2>>) = 2
          OBVIOUS
        <5>2. /\ Append(<<1>>, 2) \in Seq(Nat) /\ Len(Append(<<1>>, 2)) = 1 + 1
              /\ Append(<<1>>, 2)[1] = 1 /\ Append(<<1>>, 2)[1 + 1] = 2
          BY <5>1, AppendProperties
        <5>3. \A i \in 1 .. 2 : Append(<<1>>, 2)[i] = <<1, 2>>[i]
          BY <5>2
        <5> DEFINE a == Append(<<1>>, 2)
                   b == <<1, 2>>
        <5>4. /\ a \in Seq(Nat) /\ b \in Seq(Nat) /\ Len(a) = 2 /\ Len(b) = 2
              /\ \A i \in 1 .. Len(a) : a[i] = b[i]
          BY <5>1, <5>2, <5>3
        <5> HIDE DEF a, b
        <5>5. a = b
          BY <5>4, SeqEqual
        <5> QED BY <5>5 DEF a, b
      <4>2. taken' = <<1, 2>>
        BY <2>2, <3>3, <4>1
      <4>3. Taken(1) /\ Taken(1)' /\ Taken(2)' /\ at[2] = idx
        BY <2>2, <3>3, <4>2 DEF Taken
      <4>4. \A i \in Followed : i = 1 \/ i = 2
        BY DEF Followed
      <4> QED BY <4>2, <4>3, <4>4
    <3> QED BY <3>1, <3>2, <3>3, TakenCases DEF TornInv
  <2> QED BY <2>1, <2>2 DEF ObserveLoad
<1>6. TornTypeOK'
  BY <1>1, <1>5 DEF TornInv, TornTypeOK
<1>7. TakenIsOut'
  <2> SUFFICES ASSUME NEW m \in Followed, Taken(m)' PROVE at[m] = Lost \/ InHand(m)'
    BY <1>1 DEF TakenIsOut
  <2>1. CASE Taken(m)
    BY <1>1, <2>1 DEF TornInv, TakenIsOut, InHand
  <2>2. CASE at[m] = idx
    BY <1>1, <2>2 DEF InHand
  <2> QED BY <1>5, <2>1, <2>2
<1>8. ReadIsFirst'
  BY <1>1 DEF TornInv, ReadIsFirst
<1>9. EarlierIsFirst'
  BY <1>1, <1>2 DEF TornInv, EarlierIsFirst
<1>10. LaterIsLast'
  <2>1. ~OnLoad(1)' /\ ~OnLoad(2)'
    BY <1>1 DEF OnLoad
  <2>2. ASSUME Taken(2)', ~Taken(1)' PROVE ~InRing(1)
    <3>1. ~Taken(1) /\ (Taken(2) \/ at[2] = idx)
      BY <1>5, <2>2 DEF Followed
    <3>2. CASE Taken(2)
      BY <3>1, <3>2 DEF TornInv, LaterIsLast
    <3>3. CASE at[2] = idx /\ at[1] # idx
      BY <1>1, <3>3 DEF TornInv, LaterIsLast, OnLoad
    <3>4. CASE at[2] = idx /\ at[1] = idx
      <4>1. InRing(1) => \E j \in 1 .. Used(Ahead) : at[1] = SlotOf(Ahead, j)
        BY DEF InRing, Occupied
      <4>2. \A j \in 1 .. Used(Ahead) : ~(j < j)
        OBVIOUS
      <4> QED BY <3>4, <4>1, <4>2 DEF TornInv, EarlierIsFirst
    <3> QED BY <3>1, <3>2, <3>3, <3>4
  <2> QED BY <1>1, <1>2, <2>1, <2>2 DEF LaterIsLast, InRing
<1> QED BY <1>6, <1>7, <1>8, <1>9, <1>10 DEF TornInv

\* A byte in hand leaves its slot.
LEMMA ClearKeepsOrder ==
  ASSUME TypeOK, TornInv, TaskClear, ObserveClear, UNCHANGED struck
  PROVE  TornInv'
<1>1. /\ q \in Queue /\ idx \in Slots /\ idx' = idx
      /\ "clear" \in todo /\ "load" \notin todo /\ todo' = todo \ {"clear"}
      /\ q' = [q EXCEPT !.slot[idx] = Zero] /\ taken' = taken /\ struck' = struck
  BY DEF TypeOK, TaskClear, ObserveClear
<1>2. \A m \in Followed : at'[m] = IF at[m] = idx THEN Lost ELSE at[m]
  <2>1. q'.slot[idx] = Zero
    BY <1>1 DEF Queue
  <2> QED BY <2>1 DEF ObserveClear, Without, Followed
<1>3. q'.front = q.front /\ q'.rear = q.rear
  BY <1>1 DEF Queue
<1>4. Used(Ahead') = Used(Ahead) /\ Occupied(Ahead') = Occupied(Ahead)
      /\ \A k : SlotOf(Ahead', k) = SlotOf(Ahead, k)
  <2>1. Ahead'.front = Ahead.front /\ Ahead'.rear = Ahead.rear
    BY <1>1, <1>3 DEF Ahead, Queue
  <2> QED BY <2>1, SameIndices
<1>5. Lost \notin Slots /\ Lost # Unsent
  BY TakenCases DEF TornInv
<1>6. Ahead \in Queue
  BY AheadRing
<1>7. TornTypeOK'
  <2>1. at' \in [Followed -> Slots \cup {Unsent, Lost}]
    BY DEF ObserveClear, Without, Followed, TornInv, TornTypeOK
  <2>2. at'[1] = Unsent => at'[2] = Unsent
    BY <1>1, <1>2, <1>5, TakenCases DEF TornInv, TornTypeOK, Followed
  <2> QED BY <1>1, <2>1, <2>2 DEF TornInv, TornTypeOK
<1>8. TakenIsOut'
  BY <1>1, <1>2 DEF TornInv, TakenIsOut, Taken, InHand
<1>9. ReadIsFirst'
  BY <1>1, <1>3 DEF TornInv, ReadIsFirst
<1>10. \A s \in Occupied(Ahead) : s # Lost
  BY <1>5, <1>6, UsedBounds DEF Occupied
<1>11. EarlierIsFirst'
  <2> SUFFICES ASSUME NEW j \in 1 .. Used(Ahead), NEW k \in 1 .. Used(Ahead),
                      at'[1] = SlotOf(Ahead, j), at'[2] = SlotOf(Ahead, k)
               PROVE  j < k
    BY <1>4 DEF EarlierIsFirst
  <2>1. at'[1] # Lost /\ at'[2] # Lost
    BY <1>10 DEF Occupied
  <2>2. at[1] = at'[1] /\ at[2] = at'[2]
    BY <1>2, <2>1 DEF Followed
  <2> QED BY <2>2 DEF TornInv, EarlierIsFirst
<1>12. LaterIsLast'
  <2>1. InRing(1)' => InRing(1)
    BY <1>2, <1>4, <1>10 DEF InRing, Followed
  <2>2. ~OnLoad(1)' /\ ~OnLoad(2)'
    BY <1>1 DEF OnLoad
  <2> QED BY <1>1, <2>1, <2>2 DEF TornInv, LaterIsLast, Taken
<1> QED BY <1>7, <1>8, <1>9, <1>11, <1>12 DEF TornInv

\* A new byte stands behind the others, and the byte that was in its slot is lost.
LEMMA EnqueueKeepsOrder ==
  ASSUME TypeOK, TornInv, NEW b \in Byte, IsrEnqueue(b), ObserveEnqueue(Succ(q.rear)),
         UNCHANGED struck
  PROVE  TornInv'
<1> DEFINE s == Succ(q.rear)
<1>1. /\ q \in Queue /\ q.front \in Slots /\ q.rear \in Slots /\ idx \in Slots /\ s \in Slots
      /\ ~IsFull(q) /\ q' = Enqueue(q, b) /\ q' \in Queue
      /\ todo' = todo /\ idx' = idx /\ taken' = taken /\ struck' = struck
  BY SuccWraps, EnqueueAppends DEF TypeOK, Queue, IsrEnqueue, ObserveEnqueue
<1>2. q'.front = q.front /\ q'.rear = s
  BY <1>1 DEF Enqueue, Queue
<1>3. /\ Unsent \notin Slots /\ Lost \notin Slots /\ Unsent # Lost
      /\ \A m \in Followed : at[m] \in Slots \cup {Unsent, Lost}
      /\ at \in [Followed -> Slots \cup {Unsent, Lost}]
      /\ at[1] = Unsent => at[2] = Unsent
  BY TakenCases DEF TornInv, TornTypeOK
<1>4. /\ \A m \in Followed : at'[m] = s => at[m] = Unsent /\ (m = 2 => at[1] # Unsent)
      /\ \A m \in Followed : at'[m] # s => at'[m] = IF at[m] = s THEN Lost ELSE at[m]
      /\ ~(at'[1] = s /\ at'[2] = s)
      /\ at' \in [Followed -> Slots \cup {Unsent, Lost}]
  <2> DEFINE w == Without({s})
  <2>1. /\ w \in [Followed -> Slots \cup {Unsent, Lost}]
        /\ \A m \in Followed : w[m] = IF at[m] = s THEN Lost ELSE at[m]
    BY <1>3 DEF Without, Followed
  <2>2. \A m \in Followed : w[m] # s
    BY <1>1, <1>3, <2>1
  <2>3. at' = w \/ \E m \in MayFollow : at' = [w EXCEPT ![m] = s]
    BY DEF ObserveEnqueue
  <2> HIDE DEF w, s
  <2>4. CASE at' = w
    BY <2>1, <2>2, <2>4 DEF Followed
  <2>5. ASSUME NEW m \in MayFollow, at' = [w EXCEPT ![m] = s]
        PROVE  <1>4
    <3>1. m \in Followed /\ at[m] = Unsent /\ (m = 2 => at[1] # Unsent)
      BY DEF MayFollow, Followed
    <3>2. \A i \in Followed : at'[i] = IF i = m THEN s ELSE w[i]
      BY <2>1, <2>5, <3>1
    <3>3. at' \in [Followed -> Slots \cup {Unsent, Lost}]
      BY <1>1, <2>1, <2>5
    <3> QED BY <2>1, <2>2, <3>1, <3>2, <3>3 DEF Followed
  <2> QED BY <2>3, <2>4, <2>5
<1>5. /\ Ahead \in Queue /\ Ahead.rear = q.rear
      /\ Ahead.front = IF "advance" \in todo THEN idx ELSE q.front
  BY AheadRing
<1>6. Ahead' \in Queue /\ Ahead'.front = Ahead.front /\ Ahead'.rear = Succ(Ahead.rear)
  BY <1>1, <1>2, <1>5 DEF Ahead, Queue
<1>7. /\ Used(Ahead) \in Nat
      /\ IsFull(Ahead) => Used(Ahead') = 0 /\ Occupied(Ahead') = {}
      /\ ~IsFull(Ahead) => /\ Used(Ahead') = Used(Ahead) + 1
                           /\ \A k \in 1 .. Used(Ahead) : SlotOf(Ahead', k) = SlotOf(Ahead, k)
                           /\ SlotOf(Ahead', Used(Ahead) + 1) = s
                           /\ Occupied(Ahead') = Occupied(Ahead) \cup {s}
  <2>1. Ahead \in Queue /\ Ahead' \in Queue /\ s = Succ(Ahead.rear)
    BY <1>5, <1>6
  <2> QED BY <1>6, <2>1, RearMovesOn
<1>8. s \notin Occupied(Ahead) /\ \A k \in 1 .. Used(Ahead) : SlotOf(Ahead, k) \in Slots
  BY <1>5, NextSlotIsOutside, UsedBounds
<1> HIDE DEF s
\* What stood in the ring before still does, unless rear has come round.
<1>9. ASSUME at[2] # Unsent
      PROVE  /\ at'[1] # s /\ (at'[1] = Lost \/ at'[1] = at[1])
             /\ InRing(1)' => InRing(1) /\ at'[1] = at[1]
  <2>1. at'[1] # s /\ (at'[1] = Lost \/ at'[1] = at[1])
    BY <1>3, <1>4, <1>9 DEF Followed
  <2>2. ASSUME InRing(1)' PROVE InRing(1) /\ at'[1] = at[1]
    <3>1. at'[1] \in Occupied(Ahead)
      BY <1>7, <2>1, <2>2 DEF InRing
    <3>2. at'[1] \in Slots
      BY <1>8, <3>1 DEF Occupied
    <3> QED BY <1>3, <2>1, <3>1, <3>2 DEF InRing
  <2> QED BY <2>1, <2>2
<1>10. \A m \in Followed : Taken(m) => at[m] # Unsent /\ (at[m] = Lost \/ InHand(m))
  BY <1>1, <1>3 DEF TornInv, TakenIsOut, InHand
<1>11. TornTypeOK'
  <2>1. at'[1] = Unsent => at'[2] = Unsent
    BY <1>1, <1>3, <1>4 DEF Followed
  <2> QED BY <1>1, <1>4, <2>1 DEF TornInv, TornTypeOK
<1>12. TakenIsOut'
  <2> SUFFICES ASSUME NEW m \in Followed, Taken(m) PROVE at'[m] = Lost \/ InHand(m)'
    BY <1>1 DEF TakenIsOut, Taken
  <2>1. at'[m] = Lost \/ at'[m] = at[m]
    BY <1>4, <1>10
  <2> QED BY <1>1, <1>10, <2>1 DEF InHand
<1>13. ReadIsFirst'
  BY <1>1, <1>2 DEF TornInv, ReadIsFirst
<1>14. EarlierIsFirst'
  <2> SUFFICES ASSUME NEW j \in 1 .. Used(Ahead'), NEW k \in 1 .. Used(Ahead'),
                      at'[1] = SlotOf(Ahead', j), at'[2] = SlotOf(Ahead', k)
               PROVE  j < k
    BY DEF EarlierIsFirst
  <2>1. /\ j \in 1 .. Used(Ahead) \/ (j = Used(Ahead) + 1 /\ at'[1] = s)
        /\ k \in 1 .. Used(Ahead) \/ (k = Used(Ahead) + 1 /\ at'[2] = s)
        /\ j \in 1 .. Used(Ahead) => at'[1] = SlotOf(Ahead, j)
        /\ k \in 1 .. Used(Ahead) => at'[2] = SlotOf(Ahead, k)
    BY <1>7
  <2>2. CASE at'[2] = s
    BY <1>4, <1>7, <1>8, <2>1, <2>2 DEF Occupied
  <2>3. CASE at'[2] # s
    <3>1. k \in 1 .. Used(Ahead) /\ at'[2] = SlotOf(Ahead, k)
      BY <2>1, <2>3
    <3>2. at'[2] \in Slots
      BY <1>8, <3>1
    <3>3. at[2] = at'[2]
      BY <1>3, <1>4, <2>3, <3>2 DEF Followed
    <3>4. at'[1] # s /\ (at'[1] = Lost \/ at'[1] = at[1])
      BY <1>3, <1>9, <3>2, <3>3
    <3>5. j \in 1 .. Used(Ahead) /\ at'[1] = SlotOf(Ahead, j)
      BY <2>1, <3>4
    <3>6. at[1] = at'[1]
      BY <1>3, <1>8, <3>4, <3>5
    <3> QED BY <3>1, <3>3, <3>5, <3>6 DEF TornInv, EarlierIsFirst
  <2> QED BY <2>2, <2>3
<1>15. LaterIsLast'
  <2>1. ASSUME OnLoad(2)', InRing(1)' PROVE OnLoad(1)'
    <3>1. "load" \in todo /\ at'[2] = idx /\ ~IsFull(Ahead)
      BY <1>1, <1>7, <2>1 DEF OnLoad, InRing
    <3>2. CASE at'[2] = s
      <4>1. "advance" \notin todo
        BY <1>5, <3>1, <3>2 DEF IsFull, s
      <4>2. idx = Succ(q.front)
        BY <1>1, <3>1, <3>2, <4>1 DEF TornInv, ReadIsFirst, IsFull, s
      <4>3. q.front = q.rear
        <5>1. Succ(q.front) = Succ(q.rear)
          BY <3>1, <3>2, <4>2 DEF s
        <5>2. q.front \in Nat /\ q.rear \in Nat /\ q.front < QSize /\ q.rear < QSize
          BY <1>1, QueueAssumption DEF Slots
        <5> QED BY <1>1, <5>1, <5>2, SuccWraps, QueueAssumption
      <4>4. Used(Ahead) = 0
        BY <1>5, <4>1, <4>3, UsedBounds DEF IsEmpty
      <4>5. Occupied(Ahead') = {s}
        BY <1>7, <3>1, <4>4 DEF Occupied
      <4> QED BY <1>4, <2>1, <3>2, <4>5 DEF InRing
    <3>3. CASE at'[2] # s
      <4>1. at[2] = idx
        BY <1>1, <1>3, <1>4, <3>1, <3>3 DEF Followed
      <4>2. InRing(1) /\ at'[1] = at[1]
        BY <1>1, <1>3, <1>9, <2>1, <4>1
      <4>3. OnLoad(1)
        BY <3>1, <4>1, <4>2 DEF TornInv, LaterIsLast, OnLoad
      <4> QED BY <1>1, <4>2, <4>3 DEF OnLoad
    <3> QED BY <3>2, <3>3
  <2>2. ASSUME Taken(2), ~Taken(1) PROVE ~InRing(1)' /\ ~OnLoad(1)'
    <3>1. at[2] # Unsent
      BY <1>10, <2>2 DEF Followed
    <3>2. ~InRing(1) /\ ~OnLoad(1)
      BY <2>2 DEF TornInv, LaterIsLast
    <3>3. ~OnLoad(1)'
      BY <1>1, <1>3, <1>9, <3>1, <3>2 DEF OnLoad
    <3> QED BY <1>9, <3>1, <3>2, <3>3
  <2> QED BY <1>1, <2>1, <2>2 DEF LaterIsLast, Taken
<1> QED BY <1>11, <1>12, <1>13, <1>14, <1>15 DEF TornInv

\* A flush loses every byte but the one in the slot that is written next.
LEMMA OverflowKeepsOrder ==
  ASSUME TypeOK, TornInv, MayStrike, IsrOverflow, ObserveFlush, struck' = (todo # {})
  PROVE  TornInv'
<1> DEFINE s == Succ(q.rear)
<1>1. /\ q \in Queue /\ q.front \in Slots /\ q.rear \in Slots /\ idx \in Slots
      /\ IsFull(q) /\ q' = Flushed(q) /\ q' \in Queue
      /\ todo' = todo /\ idx' = idx /\ taken' = taken
  BY FlushedIsEmpty DEF TypeOK, Queue, IsrOverflow, ObserveFlush
<1>2. q'.front = q.rear /\ q'.rear = q.rear /\ s = q.front
  BY <1>1 DEF Flushed, Queue, IsFull
<1>3. /\ Unsent \notin Slots /\ Lost \notin Slots /\ Unsent # Lost
      /\ \A m \in Followed : at[m] \in Slots \cup {Unsent, Lost}
      /\ at[1] = Unsent => at[2] = Unsent
  BY TakenCases DEF TornInv, TornTypeOK
<1>4. /\ \A m \in Followed : at'[m] = IF at[m] \in Occupied(q) THEN Lost ELSE at[m]
      /\ at' \in [Followed -> Slots \cup {Unsent, Lost}]
  BY <1>3 DEF ObserveFlush, Without, Followed
<1>5. \A m \in Followed : at'[m] \in Slots => at'[m] = s
  BY <1>1, <1>3, <1>4, FullTakesTheRest
<1>6. Ahead' \in Queue /\ Ahead'.rear = q.rear
  BY <1>1, <1>2 DEF Ahead, Queue
<1>7. \A m \in Followed : ~InRing(m)'
  <2>1. s \notin Occupied(Ahead') /\ Occupied(Ahead') \subseteq Slots
    <3>1. Succ(Ahead'.rear) \notin Occupied(Ahead')
      BY <1>6, NextSlotIsOutside
    <3>2. \A k \in 1 .. Used(Ahead') : SlotOf(Ahead', k) \in Slots
      BY <1>6, UsedBounds
    <3> QED BY <1>6, <3>1, <3>2 DEF Occupied
  <2> QED BY <1>5, <2>1 DEF InRing
<1> HIDE DEF s
<1>8. TornTypeOK'
  <2>1. at'[1] = Unsent => at'[2] = Unsent
    <3>1. Unsent \notin Occupied(q)
      BY <1>1, <1>3, UsedBounds DEF Occupied
    <3> QED BY <1>3, <1>4, <3>1 DEF Followed
  <2>2. struck' \in BOOLEAN
    OBVIOUS
  <2> QED BY <1>1, <1>4, <2>1, <2>2 DEF TornInv, TornTypeOK
<1>9. TakenIsOut'
  BY <1>1, <1>4 DEF TornInv, TakenIsOut, Taken, InHand
<1>10. ReadIsFirst'
  <2> SUFFICES ASSUME todo # {}, "advance" \notin todo
               PROVE  struck' /\ idx = Succ(q.rear)
    BY <1>1, <1>2 DEF ReadIsFirst
  <2>1. ~struck
    BY DEF MayStrike
  <2>2. idx = q.front
    BY <2>1 DEF TornInv, ReadIsFirst
  <2> QED BY <1>2, <2>2 DEF s
<1>11. EarlierIsFirst'
  BY <1>7 DEF EarlierIsFirst, InRing, Occupied, Followed
<1>12. LaterIsLast'
  <2>1. Taken(2) /\ ~Taken(1) => at[1] # idx \/ "load" \notin todo
    BY DEF TornInv, LaterIsLast, OnLoad
  <2> QED BY <1>1, <1>3, <1>4, <1>7, <2>1 DEF LaterIsLast, OnLoad, Taken, Followed
<1> QED BY <1>8, <1>9, <1>10, <1>11, <1>12 DEF TornInv

LEMMA TornInitInv == TornInit => TornInv
<1> SUFFICES ASSUME TornInit PROVE TornInv
  OBVIOUS
<1>1. /\ at \in [Followed -> Slots \cup {Unsent, Lost}] /\ at[1] = Unsent /\ at[2] = Unsent
      /\ taken = <<>> /\ struck = FALSE /\ todo = {} /\ q = NewQueue
  BY DEF TornInit, Init, Followed
<1>2. TornTypeOK
  BY <1>1 DEF TornTypeOK
<1>3. ~Taken(1) /\ ~Taken(2)
  BY <1>1, <1>2, TakenCases
<1>4. Used(Ahead) = 0
  <2>1. Ahead.front = 0 /\ Ahead.rear = 0
    BY <1>1 DEF Ahead, NewQueue
  <2> QED BY <2>1 DEF Used
<1> QED BY <1>1, <1>2, <1>3, <1>4
        DEF TornInv, TakenIsOut, ReadIsFirst, EarlierIsFirst, LaterIsLast, OnLoad, Followed

LEMMA TornStep == TypeOK /\ TornInv /\ [TornNext]_<<vars, observed, struck>> => TornInv'
<1> SUFFICES ASSUME TypeOK, TornInv, [TornNext]_<<vars, observed, struck>> PROVE TornInv'
  OBVIOUS
<1>1. CASE TaskTest /\ struck' = FALSE /\ UNCHANGED observed
  BY <1>1, TestKeepsOrder
<1>2. CASE TaskAdvance /\ UNCHANGED <<observed, struck>>
  BY <1>2, AdvanceKeepsOrder
<1>3. CASE TaskLoad /\ ObserveLoad /\ UNCHANGED struck
  BY <1>3, LoadKeepsOrder
<1>4. CASE TaskClear /\ ObserveClear /\ UNCHANGED struck
  BY <1>4, ClearKeepsOrder
<1>5. CASE (\E b \in Byte : IsrEnqueue(b) /\ ObserveEnqueue(Succ(q.rear))) /\ UNCHANGED struck
  BY <1>5, EnqueueKeepsOrder
<1>6. CASE MayStrike /\ IsrOverflow /\ ObserveFlush /\ struck' = (todo # {})
  BY <1>6, OverflowKeepsOrder
<1>7. CASE UNCHANGED <<vars, observed, struck>>
  BY <1>7 DEF vars, observed, TornInv, TornTypeOK, TakenIsOut, ReadIsFirst, EarlierIsFirst,
             LaterIsLast, InHand, InRing, OnLoad, Taken, Ahead
<1> QED BY <1>1, <1>2, <1>3, <1>4, <1>5, <1>6, <1>7 DEF TornNext

\* No byte is handed to the task twice, and none after a later one, however often the
\* ring overflows and wherever an overflow hits a dequeue, as long as no dequeue is hit
\* twice (MayStrike).
THEOREM NoneTakenTwice == TornSpec => []TakenOnceInOrder
<1>1. Spec => []TypeOK
  BY TypeCorrect
<1>2. TornInv => TakenOnceInOrder
  BY DEF TornInv, TornTypeOK, TakenOnceInOrder
<1> QED BY <1>1, <1>2, TornInitInv, TornStep, ObserverHidesNothing, PTL DEF TornSpec
=============================================================================
