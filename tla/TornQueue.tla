----------------------------- MODULE TornQueue -----------------------------
(***************************************************************************)
(* What an overflow can do that hits Kernel_msgQ_dequeue half way: the     *)
(* queue of IsrQueue with an observer that follows any two of the bytes    *)
(* that are sent, an earlier and a later one, through the slots.           *)
(***************************************************************************)
EXTENDS KernelMsg

VARIABLES at,      \* where the two bytes are: a slot, Unsent or Lost
          taken,   \* which of them the task has loaded, in this order
          struck   \* whether this dequeue has been hit

observed == <<at, taken>>

Unsent == QSize
Lost == QSize + 1

TornInit == Init /\ at = [m \in 1 .. 2 |-> Unsent] /\ taken = <<>> /\ struck = FALSE

Without(slots) == [m \in 1 .. 2 |-> IF at[m] \in slots THEN Lost ELSE at[m]]

\* Any byte may be the first one followed, any later byte the second one.
MayFollow == {m \in 1 .. 2 : at[m] = Unsent /\ (m = 2 => at[1] # Unsent)}

ObserveEnqueue(slot) ==
  /\ \/ at' = Without({slot})
     \/ \E m \in MayFollow : at' = [Without({slot}) EXCEPT ![m] = slot]
  /\ UNCHANGED taken

ObserveLoad == /\ \/ \E m \in 1 .. 2 : at[m] = idx /\ taken' = Append(taken, m)
                  \/ idx \notin {at[1], at[2]} /\ UNCHANGED taken
               /\ UNCHANGED at

\* A slot that reads zero holds no byte that could be taken.
ObserveClear == at' = Without({i \in {idx} : q'.slot[i] = Zero}) /\ UNCHANGED taken

ObserveFlush == at' = Without(Occupied(q)) /\ UNCHANGED taken

\* A full queue takes 44 ms to arrive again, far longer than a dequeue.
MayStrike == todo = {} \/ ~struck

TornNext == \/ TaskTest /\ struck' = FALSE /\ UNCHANGED observed
            \/ TaskAdvance /\ UNCHANGED <<observed, struck>>
            \/ TaskLoad /\ ObserveLoad /\ UNCHANGED struck
            \/ TaskClear /\ ObserveClear /\ UNCHANGED struck
            \/ /\ \E b \in Byte : IsrEnqueue(b) /\ ObserveEnqueue(Succ(q.rear))
               /\ UNCHANGED struck
            \/ /\ MayStrike /\ IsrOverflow /\ ObserveFlush
               /\ struck' = (todo # {})

TornSpec == TornInit /\ [][TornNext]_<<vars, observed, struck>>

\* Whatever the interrupt does to a dequeue, a byte is taken at most once and none
\* after a later one: an overflow loses bytes and may bring up zeros, but it never
\* makes up a command from old bytes (msg.c:88-94, uart.c:137).
TakenOnceInOrder == taken \in {<<>>, <<1>>, <<2>>, <<1, 2>>}
=============================================================================
