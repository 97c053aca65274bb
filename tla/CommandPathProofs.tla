-------------------------- MODULE CommandPathProofs --------------------------
(***************************************************************************)
(* To a host that waits for each answer the command path is a server of    *)
(* requests, for every set of readable frames, every size of the queue and *)
(* of the command buffer.                                                  *)
(***************************************************************************)
EXTENDS CommandPath, DataLemmas

\* Where the element taken stands in the whole.
LEMMA SplitAt ==
  ASSUME NEW S, NEW c \in Seq(S), NEW t \in Seq(S), t # <<>>
  PROVE  /\ c \o t \in Seq(S)
         /\ Len(c) \in Nat /\ Len(t) \in Nat \ {0} /\ Len(c \o t) = Len(c) + Len(t)
         /\ Head(t) \in S /\ Head(t) = (c \o t)[Len(c) + 1]
         /\ c # <<>> => Len(c) > 0 /\ c[1] = (c \o t)[1]
         /\ c = <<>> => Len(c) = 0
         /\ Len(Tail(t)) = Len(t) - 1
         /\ Tail(t) = <<>> <=> Len(t) = 1
         /\ Len(t) > 1 => Tail(t) # <<>>
<1>1. /\ Head(t) \in S /\ Tail(t) \in Seq(S)
      /\ Len(t) \in Nat \ {0} /\ Len(c) \in Nat
      /\ Len(Tail(t)) = Len(t) - 1
      /\ Head(t) = t[1]
  BY HeadTailProperties, EmptySeq, LenProperties
<1>2. c = <<>> <=> Len(c) = 0
  BY EmptySeq, LenProperties
<1>3. Tail(t) = <<>> <=> Len(Tail(t)) = 0
  BY <1>1, EmptySeq, LenProperties
<1>4. /\ c \o t \in Seq(S) /\ Len(c \o t) = Len(c) + Len(t)
      /\ \A i \in 1 .. Len(c) + Len(t) : (c \o t)[i] = IF i <= Len(c) THEN c[i] ELSE t[i - Len(c)]
  BY ConcatProperties
<1>5. (c \o t)[Len(c) + 1] = t[1]
  BY <1>1, <1>4
<1>6. Len(c) > 0 => (c \o t)[1] = c[1]
  BY <1>1, <1>4
<1>7. Len(t) > 1 => Len(Tail(t)) # 0
  BY <1>1
<1>8. Len(t) > 1 => Tail(t) # <<>>
  BY <1>3, <1>7, Zenon
<1> QED BY <1>1, <1>2, <1>3, <1>4, <1>5, <1>6, <1>8

\* The part before the last element.
LEMMA AllButLast ==
  ASSUME NEW S, NEW c \in Seq(S), NEW t \in Seq(S), Len(t) = 1
  PROVE  c = SubSeq(c \o t, 1, Len(c \o t) - 1)
<1>1. /\ c \o t \in Seq(S) /\ Len(c) \in Nat /\ Len(c \o t) = Len(c) + 1
      /\ \A i \in 1 .. Len(c) : (c \o t)[i] = c[i]
  <2>1. Len(c) \in Nat
    BY LenProperties
  <2>2. /\ c \o t \in Seq(S) /\ Len(c \o t) = Len(c) + Len(t)
        /\ \A i \in 1 .. Len(c) + Len(t) : (c \o t)[i] = IF i <= Len(c) THEN c[i] ELSE t[i - Len(c)]
    BY ConcatProperties
  <2> QED BY <2>1, <2>2
<1>2. /\ SubSeq(c \o t, 1, Len(c \o t) - 1) \in Seq(S)
      /\ Len(SubSeq(c \o t, 1, Len(c \o t) - 1)) = Len(c)
      /\ \A i \in 1 .. Len(c) : SubSeq(c \o t, 1, Len(c \o t) - 1)[i] = (c \o t)[i]
  BY <1>1, SubSeqProperties
<1> QED BY <1>1, <1>2, SeqEqual

-----------------------------------------------------------------------------
(* To a host that waits for each answer the path is a server.              *)

\* Nothing is under way; a request the host waits for is lost.
Idle == pc = "wait" /\ ~event /\ queue = <<>>

\* The request is in the queue and the event is set.
Queued(f) == /\ pc \in {"wait", "clear"} /\ event
             /\ waiting = <<f>> /\ queue = f

\* The request is being read.  The end of a raw report is never stored.
Reading(f) == /\ pc = "read" /\ ~event
              /\ waiting = <<f>> /\ f = cmd \o queue
              /\ f[1] # Magic => queue # <<>>

\* The request has been read.
Ready(f) == /\ pc = "handle" /\ ~event
            /\ waiting = <<f>> /\ queue = <<>> /\ cmd = Payload(f)

PathType == /\ polite = TRUE
            /\ queue \in Seq(Char) /\ cmd \in Seq(Char)
            /\ waiting = <<>> \/ \E f \in Frame : waiting = <<f>>

PathInv == /\ PathType
           /\ Idle \/ \E f \in Frame : Queued(f) \/ Reading(f) \/ Ready(f)

LEMMA PathInitInv == PoliteInit => PathInv
<1> QED BY EmptySeq DEF PoliteInit, Init, PathInv, PathType, Idle

\* A host that is allowed to send is not waiting for anything.
LEMMA NoneWaiting ==
  ASSUME Window = 1, PathType, MaySend
  PROVE  waiting = <<>>
<1>1. ASSUME NEW f \in Frame, waiting = <<f>> PROVE FALSE
  <2>1. Len(<<f>>) = 1
    OBVIOUS
  <2> QED BY <1>1, <2>1 DEF PathType, MaySend
<1> QED BY <1>1 DEF PathType

\* One byte of a request is stored.
LEMMA ReadByteInv ==
  ASSUME NEW f \in Frame, Readable(f), PathType, Reading(f), ReadByte
  PROVE  /\ cmd' \in Seq(Char) /\ queue' \in Seq(Char)
         /\ Reading(f)'
<1> DEFINE ch == Head(queue)
<1>1. /\ cmd \in Seq(Char) /\ queue \in Seq(Char) /\ queue # <<>> /\ f = cmd \o queue
      /\ MaxCmd \in Nat
  BY PathAssumption DEF PathType, Reading, ReadByte
<1>2. /\ Len(cmd) \in Nat /\ Len(queue) \in Nat \ {0} /\ Len(f) = Len(cmd) + Len(queue)
      /\ ch = f[Len(cmd) + 1]
      /\ cmd # <<>> => Len(cmd) > 0 /\ cmd[1] = f[1]
      /\ cmd = <<>> => Len(cmd) = 0
      /\ Len(queue) > 1 => Tail(queue) # <<>>
  BY <1>1, SplitAt
<1>3. /\ f = Append(cmd, ch) \o Tail(queue)
      /\ Append(cmd, ch) \in Seq(Char) /\ Tail(queue) \in Seq(Char)
  BY <1>1, MoveByte
<1>4. ASSUME f[1] # Magic PROVE Len(cmd) + 1 < Len(f) /\ Len(f) <= MaxCmd
  <2>0. /\ Len(f) \in 2 .. MaxCmd
        /\ \A i \in 1 .. Len(f) : f[i] \in Ends <=> i = Len(f)
    BY <1>4, Zenon DEF Readable
  <2>1. /\ Len(f) >= 2 /\ Len(f) <= MaxCmd
        /\ \A i \in 1 .. Len(f) : f[i] \in Ends <=> i = Len(f)
    BY <1>1, <2>0
  <2>2. CASE cmd = <<>>
    <3>1. Len(cmd) = 0
      BY <1>2, <2>2
    <3> QED BY <2>1, <3>1
  <2>3. CASE cmd # <<>>
    <3>1. ch \notin Ends
      BY <1>2, <1>4, <2>3 DEF ReadByte, MagicRead, EndsCommand
    <3>2. ASSUME Len(cmd) + 1 = Len(f) PROVE FALSE
      <4>1. f[Len(f)] \in Ends
        BY <2>1
      <4>2. ch = f[Len(f)]
        BY <1>2, <3>2
      <4> QED BY <3>1, <4>1, <4>2
    <3> QED BY <1>2, <2>1, <3>2
  <2> QED BY <2>2, <2>3
<1>5. Len(cmd) + 1 < MaxCmd
  <2>1. CASE f[1] = Magic
    BY <1>1, <1>2, <2>1 DEF Readable
  <2>2. CASE f[1] # Magic
    BY <1>1, <1>2, <1>4, <2>2
  <2> QED BY <2>1, <2>2
<1>6. /\ cmd' = Append(cmd, ch) /\ queue' = Tail(queue) /\ pc' = pc
      /\ event' = event /\ waiting' = waiting
  BY <1>5 DEF ReadByte, hostVars
<1>7. ASSUME f[1] # Magic PROVE Tail(queue) # <<>>
  <2>1. Len(cmd) + 1 < Len(f)
    BY <1>4, <1>7
  <2>2. Len(cmd) \in Nat /\ Len(queue) \in Nat /\ Len(f) = Len(cmd) + Len(queue)
    BY <1>2
  <2>3. Len(queue) > 1
    BY <2>1, <2>2
  <2>4. Len(queue) > 1 => Tail(queue) # <<>>
    BY <1>2, Zenon
  <2> QED BY <2>3, <2>4, Zenon
<1> QED BY <1>3, <1>6, <1>7 DEF Reading

\* The request has been read to its end.
LEMMA ReadEndInv ==
  ASSUME NEW f \in Frame, Readable(f), PathType, Reading(f), ReadEnd
  PROVE  Ready(f)'
<1>1. cmd \in Seq(Char) /\ queue \in Seq(Char) /\ f = cmd \o queue
  BY DEF PathType, Reading
<1>2. cmd' = cmd /\ pc' = "handle" /\ event' = event /\ waiting' = waiting
  BY DEF ReadEnd, hostVars
<1>3. CASE queue = <<>>
  <2>1. f = cmd /\ f[1] = Magic /\ queue' = queue
    BY <1>1, <1>3, ConcatEmptySeq DEF Reading, ReadEnd
  <2> QED BY <1>2, <1>3, <2>1 DEF Reading, Ready, Payload
<1>4. CASE queue # <<>>
  <2>1. /\ Len(cmd) \in Nat /\ Len(queue) \in Nat \ {0} /\ Len(f) = Len(cmd) + Len(queue)
        /\ Head(queue) = f[Len(cmd) + 1]
        /\ cmd # <<>> => Len(cmd) > 0 /\ cmd[1] = f[1]
        /\ cmd = <<>> => Len(cmd) = 0
        /\ Tail(queue) = <<>> <=> Len(queue) = 1
    BY <1>1, <1>4, SplitAt
  <2>2. /\ queue' = Tail(queue)
        /\ \E magic \in MagicRead : EndsCommand(Head(queue), magic)
    BY <1>4 DEF ReadEnd
  <2>3. Head(queue) \in Ends
    BY <2>2 DEF EndsCommand
  <2>4. f[1] # Magic
    <3>1. CASE cmd = <<>>
      BY <2>1, <2>3, <3>1 DEF Ends, Magic
    <3>2. CASE cmd # <<>>
      BY <2>1, <2>2, <3>2 DEF EndsCommand, MagicRead
    <3> QED BY <3>1, <3>2
  <2>5. Len(queue) = 1
    BY <2>1, <2>3, <2>4 DEF Readable
  <2>6. cmd = SubSeq(f, 1, Len(f) - 1)
    BY <1>1, <2>5, AllButLast
  <2> QED BY <1>2, <2>1, <2>2, <2>4, <2>5, <2>6 DEF Reading, Ready, Payload
<1> QED BY <1>3, <1>4

LEMMA PathNextInv ==
  ASSUME Window = 1, \A f \in Frame : Readable(f), PathInv, [Next]_vars
  PROVE  PathInv'
<1> USE PathAssumption
<1>1. ASSUME NEW f \in Frame, HostSend(f) PROVE PathInv'
  <2>1. waiting = <<>>
    BY <1>1, NoneWaiting DEF HostSend, PathInv
  <2>2. Idle
    BY <2>1 DEF PathInv, Queued, Reading, Ready
  <2>3. f \in Seq(Char) /\ Len(f) \in Nat /\ Len(f) <= Room /\ Len(queue) + Len(f) <= Room
    BY <2>2, EmptySeq, LenProperties DEF Readable, Idle
  <2>4. queue' = f /\ event' = TRUE
    BY <1>1, <2>2, <2>3, ConcatEmptySeq DEF HostSend, IsrFrame, Idle
  <2>5. waiting' = <<f>> /\ pc' = pc /\ cmd' = cmd /\ polite' = polite
    <3>1. Append(<<>>, f) = <<f>>
      OBVIOUS
    <3> QED BY <1>1, <2>1, <3>1 DEF HostSend, PathInv, PathType
  <2> QED BY <2>2, <2>3, <2>4, <2>5 DEF PathInv, PathType, Idle, Queued
<1>2. ASSUME NEW f \in Frame, HostSendLost(f) PROVE PathInv'
  <2>1. waiting = <<>>
    BY <1>2, NoneWaiting DEF HostSendLost, PathInv
  <2>2. Idle
    BY <2>1 DEF PathInv, Queued, Reading, Ready
  <2>3. waiting' = <<f>>
    <3>1. Append(<<>>, f) = <<f>>
      OBVIOUS
    <3> QED BY <1>2, <2>1, <3>1 DEF HostSendLost
  <2> QED BY <1>2, <2>2, <2>3 DEF HostSendLost, PathInv, PathType, Idle
<1>3. CASE HostTimeout
  <2>1. Idle
    BY <1>3 DEF HostTimeout, DeviceQuiet, PathInv, Queued, Reading, Ready
  <2> QED BY <1>3, <2>1 DEF HostTimeout, PathInv, PathType, Idle
<1>4. CASE HostBecomesPolite
  BY <1>4 DEF HostBecomesPolite, PathInv, PathType
<1>5. CASE SeeEvent
  <2>1. PICK f \in Frame : Queued(f)
    BY <1>5 DEF SeeEvent, PathInv, Idle, Reading, Ready
  <2> QED BY <1>5, <2>1 DEF SeeEvent, hostVars, PathInv, PathType, Queued
<1>6. CASE ClearEvent
  <2>1. PICK f \in Frame : Queued(f)
    BY <1>6 DEF ClearEvent, PathInv, Idle, Reading, Ready
  <2>2. <<>> \in Seq(Char) /\ f \in Seq(Char) /\ f = <<>> \o f /\ f # <<>>
    BY ConcatEmptySeq, EmptySeq
  <2> QED BY <1>6, <2>1, <2>2 DEF ClearEvent, hostVars, PathInv, PathType, Queued, Reading
<1>7. CASE ReadEnd
  <2>1. PICK f \in Frame : Reading(f)
    BY <1>7 DEF ReadEnd, PathInv, Idle, Queued, Ready
  <2>2. Ready(f)'
    BY <1>7, <2>1, ReadEndInv DEF PathInv
  <2>3. /\ cmd' = cmd /\ polite' = polite /\ waiting' = waiting
        /\ queue' \in Seq(Char)
    BY <1>7, <2>2, EmptySeq DEF ReadEnd, hostVars, Ready
  <2> QED BY <2>2, <2>3 DEF PathInv, PathType
<1>8. CASE ReadByte
  <2>1. PICK f \in Frame : Reading(f)
    BY <1>8 DEF ReadByte, PathInv, Idle, Queued, Ready
  <2>2. Reading(f)' /\ cmd' \in Seq(Char) /\ queue' \in Seq(Char)
    BY <1>8, <2>1, ReadByteInv DEF PathInv
  <2> QED BY <1>8, <2>2 DEF ReadByte, hostVars, PathInv, PathType
<1>9. CASE Handle
  <2>1. PICK f \in Frame : Ready(f)
    BY <1>9 DEF Handle, PathInv, Idle, Queued, Reading
  <2>2. waiting' = <<>>
    <3>1. <<f>> # <<>> /\ Tail(<<f>>) = <<>>
      OBVIOUS
    <3> QED BY <1>9, <2>1, <3>1 DEF Handle, Ready
  <2> QED BY <1>9, <2>1, <2>2, EmptySeq DEF Handle, PathInv, PathType, Ready, Idle
<1>10. CASE UNCHANGED vars
  BY <1>10 DEF vars, PathInv, PathType, Idle, Queued, Reading, Ready
<1> QED BY <1>1, <1>2, <1>3, <1>4, <1>5, <1>6, <1>7, <1>8, <1>9, <1>10 DEF Next, Task

\* Each step of the command path is a step of the server, or none.
LEMMA PathStepServes ==
  ASSUME Window = 1, \A f \in Frame : Readable(f), PathInv, [Next]_vars
  PROVE  [Server!ServerNext]_(Server!serverVars)
<1> USE DEF Server!ServerNext, Server!serverVars
<1>1. ASSUME NEW f \in Frame, HostSend(f) \/ HostSendLost(f)
      PROVE  Server!Submit(f)
  <2>1. waiting = <<>>
    BY <1>1, NoneWaiting DEF HostSend, HostSendLost, PathInv
  <2>2. Append(<<>>, f) = <<f>>
    OBVIOUS
  <2>3. waiting' = Append(waiting, f) /\ command' = command
    BY <1>1 DEF HostSend, HostSendLost, PathInv, PathType
  <2> QED BY <2>1, <2>2, <2>3 DEF Server!Submit
<1>2. CASE HostTimeout
  BY <1>2 DEF HostTimeout, Server!GiveUp
<1>3. CASE HostBecomesPolite
  BY <1>3 DEF HostBecomesPolite
<1>4. CASE SeeEvent \/ ClearEvent \/ ReadEnd \/ ReadByte
  BY <1>4 DEF SeeEvent, ClearEvent, ReadEnd, ReadByte, hostVars
<1>5. CASE Handle
  <2>1. PICK f \in Frame : Ready(f)
    BY <1>5 DEF Handle, PathInv, Idle, Queued, Reading
  <2>2. <<f>> # <<>> /\ Tail(<<f>>) = <<>> /\ <<f>>[1] = f
    OBVIOUS
  <2> QED BY <1>5, <2>1, <2>2 DEF Handle, Ready, Server!Serve
<1>6. CASE UNCHANGED vars
  BY <1>6 DEF vars
<1> QED BY <1>1, <1>2, <1>3, <1>4, <1>5, <1>6 DEF Next, Task

\* A host that waits for its answers, and gives up on lost requests only, gets the
\* answer to the very request it waits for: no command is cut, merged with
\* another, handled twice or answered for another one.
THEOREM CommandPathServes ==
  ASSUME Window = 1, \A f \in Frame : Readable(f)
  PROVE  PoliteSpec => ImplementsServer
<1>1. PoliteInit => Server!ServerInit
  BY DEF PoliteInit, Init, Server!ServerInit
<1>2. PathInv /\ [Next]_vars => PathInv'
  BY PathNextInv
<1>3. PathInv /\ [Next]_vars => [Server!ServerNext]_(Server!serverVars)
  BY PathStepServes
<1> QED BY <1>1, <1>2, <1>3, PathInitInv, PTL
        DEF PoliteSpec, ImplementsServer, Server!ServerSpec

-----------------------------------------------------------------------------
(* The types, for any host.                                                *)

LEMMA FrameTyped ==
  ASSUME TypeOK, NEW f \in Frame, IsrFrame(f)
  PROVE  queue' \in Seq(Char) /\ Len(queue') <= Room /\ event' \in BOOLEAN
<1>1. f \in Seq(Char) /\ Len(queue \o f) = Len(queue) + Len(f) /\ queue \o f \in Seq(Char)
  BY PathAssumption, ConcatProperties DEF TypeOK
<1>2. event' \in BOOLEAN BY DEF IsrFrame, TypeOK
<1>3. CASE Len(queue) + Len(f) <= Room
  <2>1. queue' = queue \o f BY <1>3 DEF IsrFrame
  <2>. QED BY <1>1, <1>2, <1>3, <2>1
<1>4. CASE ~(Len(queue) + Len(f) <= Room)
  <2>1. queue' = <<>> BY <1>4 DEF IsrFrame
  <2>2. <<>> \in Seq(Char) /\ Len(<<>>) = 0 /\ 0 <= Room BY EmptySeq, PathAssumption
  <2>. QED BY <1>2, <2>1, <2>2
<1>. QED BY <1>3, <1>4

LEMMA AccountTyped ==
  ASSUME TypeOK, NEW f \in Frame, MaySend, polite
  PROVE  Append(waiting, f) \in Seq(Frame) /\ Len(Append(waiting, f)) <= Window
<1>1. Len(waiting) \in Nat /\ Len(waiting) < Window BY LenProperties DEF MaySend, TypeOK
<1>2. Append(waiting, f) \in Seq(Frame) /\ Len(Append(waiting, f)) = Len(waiting) + 1
  BY AppendProperties DEF TypeOK
<1>. QED BY <1>1, <1>2, PathAssumption

LEMMA TaskTyped == ASSUME TypeOK, Task PROVE TypeOK'
<1>. USE DEF TypeOK
<1>1. <<>> \in Seq(Char) /\ Len(<<>>) = 0 /\ 0 < MaxCmd BY EmptySeq, PathAssumption
<1>2. CASE SeeEvent BY <1>2 DEF SeeEvent, hostVars
<1>3. CASE ClearEvent BY <1>1, <1>3 DEF ClearEvent, hostVars
<1>4. ASSUME queue # <<>>
      PROVE  Tail(queue) \in Seq(Char) /\ Len(Tail(queue)) <= Room /\ Head(queue) \in Char
  <2>1. /\ Tail(queue) \in Seq(Char) /\ Len(Tail(queue)) = Len(queue) - 1
        /\ Head(queue) \in Char
    BY <1>4, HeadTailProperties
  <2>2. Len(queue) \in Nat BY LenProperties
  <2>. QED BY <2>1, <2>2, PathAssumption
<1>5. CASE ReadEnd BY <1>4, <1>5 DEF ReadEnd, hostVars
<1>6. CASE ReadByte
  <2>1. queue' \in Seq(Char) /\ Len(queue') <= Room BY <1>4, <1>6 DEF ReadByte
  <2>2. Head(queue) \in Char BY <1>4, <1>6 DEF ReadByte
  <2>3. /\ Append(cmd, Head(queue)) \in Seq(Char)
        /\ Len(Append(cmd, Head(queue))) = Len(cmd) + 1
    BY <2>2, AppendProperties
  <2>4. cmd' \in Seq(Char) /\ Len(cmd') < MaxCmd /\ pc' \in {"read", "wait"}
    BY <1>1, <1>6, <2>3 DEF ReadByte
  <2>. QED BY <1>6, <2>1, <2>4 DEF ReadByte, hostVars
<1>7. CASE Handle
  <2>1. waiting' \in Seq(Frame) /\ Len(waiting') <= Window
    <3>1. CASE waiting = <<>> BY <1>7, <3>1 DEF Handle
    <3>2. CASE waiting # <<>>
      <4>1. Tail(waiting) \in Seq(Frame) /\ Len(Tail(waiting)) = Len(waiting) - 1
        BY <3>2, HeadTailProperties
      <4>2. Len(waiting) \in Nat BY LenProperties
      <4>. QED BY <1>7, <3>2, <4>1, <4>2, PathAssumption DEF Handle
    <3>. QED BY <3>1, <3>2
  <2>. QED BY <1>1, <1>7, <2>1 DEF Handle
<1>. QED BY <1>2, <1>3, <1>5, <1>6, <1>7 DEF Task

LEMMA TypeStep == TypeOK /\ [Next]_vars => TypeOK'
<1> SUFFICES ASSUME TypeOK, [Next]_vars PROVE TypeOK'
  OBVIOUS
<1>1. ASSUME NEW f \in Frame, HostSend(f) PROVE TypeOK'
  <2>1. queue' \in Seq(Char) /\ Len(queue') <= Room /\ event' \in BOOLEAN
    BY <1>1, FrameTyped DEF HostSend
  <2>2. waiting' \in Seq(Frame) /\ Len(waiting') <= Window
    BY <1>1, AccountTyped DEF HostSend, TypeOK
  <2>. QED BY <1>1, <2>1, <2>2 DEF HostSend, TypeOK
<1>2. ASSUME NEW f \in Frame, HostSendLost(f) PROVE TypeOK'
  BY <1>2, AccountTyped DEF HostSendLost, TypeOK
<1>3. CASE HostTimeout
  <2>1. <<>> \in Seq(Frame) /\ Len(<<>>) = 0 BY EmptySeq
  <2>. QED BY <1>3, <2>1, PathAssumption DEF HostTimeout, TypeOK
<1>4. CASE HostBecomesPolite BY <1>4 DEF HostBecomesPolite, TypeOK
<1>5. CASE UNCHANGED vars BY <1>5 DEF vars, TypeOK
<1>. QED BY <1>1, <1>2, <1>3, <1>4, <1>5, TaskTyped DEF Next

\* Whatever the host sends and however fast, the command buffer does not run over, the
\* queue keeps to its size and the host to its window.
THEOREM TypeCorrect == Spec => []TypeOK
<1>1. Init => TypeOK
  <2>1. <<>> \in Seq(Char) /\ <<>> \in Seq(Frame) /\ Len(<<>>) = 0 BY EmptySeq
  <2>2. 0 <= Room /\ 0 < MaxCmd /\ 0 <= Window BY PathAssumption
  <2> SUFFICES ASSUME Init PROVE TypeOK
    OBVIOUS
  <2>3. queue = <<>> /\ cmd = <<>> /\ waiting = <<>> /\ command = <<>> BY DEF Init
  <2>4. event = FALSE /\ pc = "wait" /\ polite \in BOOLEAN BY DEF Init
  <2>. QED BY <2>1, <2>2, <2>3, <2>4 DEF TypeOK
<1>. QED BY <1>1, TypeStep, PTL DEF Spec

-----------------------------------------------------------------------------
(* Nothing is left behind in the queue.                                    *)

\* A host that waits for each answer, whatever it did before: the task never goes to
\* sleep on a queued byte.
THEOREM NoneLeftBehind ==
  ASSUME Window = 1, \A f \in Frame : Readable(f)
  PROVE  Spec => NothingStranded
<1>1. PathInv => NoneStranded
  BY DEF PathInv, NoneStranded, DeviceQuiet, Idle, Queued, Reading, Ready
<1>2. PathInv /\ [Next]_vars => PathInv'
  BY PathNextInv
<1>3. TypeOK /\ polite /\ AtRest => PathInv
  BY DEF TypeOK, AtRest, DeviceQuiet, PathInv, PathType, Idle
<1> QED BY <1>1, <1>2, <1>3, TypeCorrect, PTL DEF Spec, NothingStranded

(* Several Pi-KVM requests of up to l bytes under way at a time.           *)

MagicFirst(s) == s = <<>> \/ s[1] = Magic

\* The bytes that are queued belong to requests that the host still counts as
\* unanswered, but for the one being handled; each event is for such a request.
BatchAwaited(l) ==
  /\ pc \in {"wait", "clear"}
  /\ MagicFirst(queue) /\ Len(queue) <= l * Len(waiting)
  /\ event => Len(waiting) >= 1
  /\ ~event => pc = "wait" /\ queue = <<>>

BatchRead(l) ==
  /\ pc = "read"
  /\ Len(waiting) >= 1 /\ (event => Len(waiting) >= 2)
  /\ Len(cmd) + Len(queue) <= l * Len(waiting)
  /\ IF cmd = <<>> THEN MagicFirst(queue) ELSE MagicFirst(cmd)

BatchHandled(l) ==
  /\ pc = "handle"
  /\ Len(waiting) >= 1 /\ (event => Len(waiting) >= 2)
  /\ MagicFirst(queue) /\ Len(queue) <= l * (Len(waiting) - 1)
  /\ ~event => queue = <<>>

BatchInv(l) == polite /\ (BatchAwaited(l) \/ BatchRead(l) \/ BatchHandled(l))

Batch(l) == /\ l \in Nat /\ l * Window < MaxCmd /\ l * Window <= Room
            /\ \A f \in Frame : f[1] = Magic /\ Len(f) <= l

\* What a request adds, and how much can be under way.
LEMMA BatchBounds ==
  ASSUME NEW l \in Nat, NEW n \in Nat
  PROVE  /\ l * n \in Nat /\ l * (n + 1) = l * n + l
         /\ n >= 1 => l * (n - 1) \in Nat /\ l * (n - 1) + l = l * n
         /\ n <= Window => l * n <= l * Window
<1>1. Window \in Nat
  BY PathAssumption
<1>2. l * n \in Nat /\ l * (n + 1) = l * n + l
  OBVIOUS
<1>3. n >= 1 => l * (n - 1) \in Nat /\ l * (n - 1) + l = l * n
  OBVIOUS
<1>4. ASSUME n <= Window PROVE l * n <= l * Window
  <2>1. PICK d \in Nat : Window = n + d
    <3>1. Window - n \in Nat /\ Window = n + (Window - n)
      BY <1>1, <1>4
    <3> QED BY <3>1
  <2>2. l * (n + d) = l * n + l * d /\ l * d \in Nat
    OBVIOUS
  <2> QED BY <1>2, <2>1, <2>2
<1> QED BY <1>2, <1>3, <1>4

LEMMA MagicKept ==
  ASSUME NEW s \in Seq(Char), NEW t \in Seq(Char), MagicFirst(s), t[1] = Magic, Len(t) > 0
  PROVE  MagicFirst(s \o t)
<1>1. CASE s = <<>>
  BY <1>1, ConcatEmptySeq DEF MagicFirst
<1>2. CASE s # <<>>
  <2>1. Len(s) \in Nat \ {0} /\ Len(t) \in Nat
    BY <1>2, EmptySeq, LenProperties
  <2>2. 1 \in 1 .. Len(s) + Len(t) /\ 1 <= Len(s)
    BY <2>1
  <2>3. (s \o t)[1] = s[1]
    BY <2>2, ConcatProperties
  <2> QED BY <1>2, <2>3 DEF MagicFirst
<1> QED BY <1>1, <1>2

\* What is queued fits, with one request more.
LEMMA BatchFits ==
  ASSUME NEW l, Batch(l), TypeOK, BatchInv(l)
  PROVE  /\ Len(waiting) \in Nat /\ Len(queue) \in Nat /\ Len(cmd) \in Nat
         /\ Len(queue) <= l * Len(waiting)
         /\ l * Len(waiting) < MaxCmd
         /\ \A f \in Frame : Len(waiting) < Window => Len(queue) + Len(f) <= Room
<1> DEFINE n == Len(waiting)
<1>1. /\ n \in Nat /\ n <= Window /\ Len(queue) \in Nat /\ Len(cmd) \in Nat /\ l \in Nat
      /\ Window \in Nat /\ MaxCmd \in Nat /\ Room \in Nat
      /\ pc \in {"wait", "clear", "read", "handle"}
  BY LenProperties, PathAssumption DEF TypeOK, Batch
<1>2. l * Window < MaxCmd /\ l * Window <= Room /\ l * Window \in Nat
  BY <1>1 DEF Batch
<1> HIDE DEF n
<1>3. l * n \in Nat /\ l * (n + 1) = l * n + l /\ l * n <= l * Window
  BY <1>1, BatchBounds
<1>4. Len(queue) <= l * n
  <2>1. CASE BatchAwaited(l)
    BY <2>1, Zenon DEF BatchAwaited, n
  <2>2. CASE BatchRead(l)
    <3>1. Len(cmd) + Len(queue) <= l * n
      BY <2>2, Zenon DEF BatchRead, n
    <3> QED BY <1>1, <1>3, <3>1
  <2>3. CASE BatchHandled(l)
    <3>1. Len(queue) <= l * (n - 1) /\ n >= 1
      BY <2>3, Zenon DEF BatchHandled, n
    <3>2. l * (n - 1) \in Nat /\ l * (n - 1) + l = l * n
      BY <1>1, <3>1, BatchBounds
    <3> QED BY <1>1, <3>1, <3>2
  <2> QED BY <2>1, <2>2, <2>3, Zenon DEF BatchInv
<1>5. ASSUME NEW f \in Frame, n < Window PROVE Len(queue) + Len(f) <= Room
  <2>1. Len(f) \in Nat /\ Len(f) <= l
    BY PathAssumption, LenProperties DEF Batch
  <2>2. l * (n + 1) <= l * Window
    BY <1>1, <1>5, BatchBounds
  <2> QED BY <1>1, <1>2, <1>3, <1>4, <2>1, <2>2
<1>6. l * n < MaxCmd
  BY <1>1, <1>2, <1>3
<1> QED BY <1>1, <1>4, <1>5, <1>6 DEF n

LEMMA SendKeepsBatch ==
  ASSUME NEW l, Batch(l), TypeOK, BatchInv(l), NEW f \in Frame, HostSend(f) \/ HostSendLost(f)
  PROVE  BatchInv(l)'
<1> DEFINE n == Len(waiting)
<1>1. /\ n \in Nat /\ Len(queue) \in Nat /\ Len(cmd) \in Nat /\ l \in Nat
      /\ f \in Seq(Char) /\ Len(f) \in Nat /\ Len(f) > 0 /\ Len(f) <= l /\ f[1] = Magic
      /\ queue \in Seq(Char) /\ waiting \in Seq(Frame)
      /\ pc \in {"wait", "clear", "read", "handle"}
      /\ polite
  BY BatchFits, LenProperties, PathAssumption DEF TypeOK, Batch, BatchInv
<1>2. /\ Len(waiting') = n + 1 /\ n < Window
      /\ pc' = pc /\ cmd' = cmd /\ polite' = polite
  BY <1>1, AppendProperties DEF HostSend, HostSendLost, MaySend
<1>3. \/ queue' = queue \o f /\ event' = TRUE
      \/ queue' = queue /\ event' = event
  BY <1>1, <1>2, BatchFits DEF HostSend, HostSendLost, IsrFrame
<1>4. Len(queue') \in Nat /\ Len(queue') <= Len(queue) + l
  BY <1>1, <1>3, ConcatProperties
<1>5. MagicFirst(queue) => MagicFirst(queue')
  BY <1>1, <1>3, MagicKept
<1>6. (event' = event /\ queue' = queue) \/ event' = TRUE
  BY <1>3
<1>7. /\ l * n \in Nat /\ l * (n + 1) = l * n + l
      /\ n >= 1 => l * (n - 1) \in Nat /\ l * (n - 1) + l = l * n
  BY <1>1, BatchBounds
<1> HIDE DEF n
<1>8. CASE BatchAwaited(l)
  <2>1. /\ pc \in {"wait", "clear"} /\ MagicFirst(queue) /\ Len(queue) <= l * n
        /\ ~event => pc = "wait" /\ queue = <<>>
    BY <1>8, Zenon DEF BatchAwaited, n
  <2>2. Len(queue') <= l * (n + 1)
    BY <1>1, <1>4, <1>7, <2>1
  <2>3. ~event' => pc' = "wait" /\ queue' = <<>>
    BY <1>2, <1>6, <2>1, Zenon
  <2>4. Len(waiting') >= 1
    BY <1>1, <1>2
  <2>5. MagicFirst(queue')
    BY <1>5, <2>1, Zenon
  <2>6. BatchAwaited(l)'
    BY <1>2, <2>1, <2>2, <2>3, <2>4, <2>5, Zenon DEF BatchAwaited
  <2> QED BY <1>1, <1>2, <2>6 DEF BatchInv
<1>9. CASE BatchRead(l)
  <2>1. /\ pc = "read" /\ n >= 1 /\ Len(cmd) + Len(queue) <= l * n
        /\ IF cmd = <<>> THEN MagicFirst(queue) ELSE MagicFirst(cmd)
    BY <1>9, Zenon DEF BatchRead, n
  <2>2. Len(cmd) + Len(queue') <= l * (n + 1)
    BY <1>1, <1>4, <1>7, <2>1
  <2>3. Len(waiting') >= 1 /\ Len(waiting') >= 2
    BY <1>1, <1>2, <2>1
  <2>4. IF cmd' = <<>> THEN MagicFirst(queue') ELSE MagicFirst(cmd')
    BY <1>2, <1>5, <2>1
  <2>5. BatchRead(l)'
    BY <1>2, <2>1, <2>2, <2>3, <2>4, Zenon DEF BatchRead
  <2> QED BY <1>1, <1>2, <2>5 DEF BatchInv
<1>10. CASE BatchHandled(l)
  <2>1. /\ pc = "handle" /\ n >= 1 /\ MagicFirst(queue) /\ Len(queue) <= l * (n - 1)
        /\ ~event => queue = <<>>
    BY <1>10, Zenon DEF BatchHandled, n
  <2>2. (n + 1) - 1 = n /\ Len(queue') <= l * n
    BY <1>1, <1>4, <1>7, <2>1
  <2>3. Len(waiting') >= 1 /\ Len(waiting') >= 2
    BY <1>1, <1>2, <2>1
  <2>4. ~event' => queue' = <<>>
    BY <1>6, <2>1, Zenon
  <2>5. MagicFirst(queue')
    BY <1>5, <2>1, Zenon
  <2>6. BatchHandled(l)'
    BY <1>2, <2>1, <2>2, <2>3, <2>4, <2>5, Zenon DEF BatchHandled
  <2> QED BY <1>1, <1>2, <2>6 DEF BatchInv
<1> QED BY <1>8, <1>9, <1>10 DEF BatchInv

\* A Pi-KVM request is read to the end of the queue.
LEMMA ReadKeepsBatch ==
  ASSUME NEW l, Batch(l), TypeOK, BatchInv(l), ReadByte \/ ReadEnd
  PROVE  BatchInv(l)'
<1> DEFINE n == Len(waiting)
<1>1. /\ pc = "read" /\ waiting' = waiting /\ event' = event /\ polite' = polite
      /\ polite /\ n >= 1 /\ (event => n >= 2)
      /\ Len(cmd) + Len(queue) <= l * n
      /\ IF cmd = <<>> THEN MagicFirst(queue) ELSE MagicFirst(cmd)
      /\ cmd \in Seq(Char) /\ queue \in Seq(Char)
      /\ n \in Nat /\ l \in Nat /\ Len(cmd) \in Nat /\ Len(queue) \in Nat
      /\ l * n < MaxCmd /\ MaxCmd \in Nat
  <2>1. pc = "read" /\ waiting' = waiting /\ event' = event /\ polite' = polite
    BY DEF ReadByte, ReadEnd, hostVars
  <2>2. polite /\ BatchRead(l)
    BY <2>1 DEF BatchInv, BatchAwaited, BatchHandled
  <2>3. /\ n >= 1 /\ (event => n >= 2)
        /\ Len(cmd) + Len(queue) <= l * n
        /\ IF cmd = <<>> THEN MagicFirst(queue) ELSE MagicFirst(cmd)
    BY <2>2, Zenon DEF BatchRead, n
  <2>4. cmd \in Seq(Char) /\ queue \in Seq(Char) /\ l \in Nat /\ MaxCmd \in Nat
    BY PathAssumption DEF TypeOK, Batch
  <2>5. n \in Nat /\ Len(cmd) \in Nat /\ Len(queue) \in Nat /\ l * n < MaxCmd
    BY BatchFits, Zenon DEF n
  <2> QED BY <2>1, <2>2, <2>3, <2>4, <2>5, Zenon
<1>2. queue # <<>> => /\ Head(queue) = queue[1] /\ Head(queue) \in Char
                     /\ Len(queue) >= 1 /\ Len(Tail(queue)) = Len(queue) - 1
  BY <1>1, HeadTailProperties, EmptySeq
<1>3. l * n \in Nat /\ l * (n - 1) \in Nat
  BY <1>1, BatchBounds
<1> HIDE DEF n
<1>4. CASE ReadEnd
  <2>1. queue = <<>>
    <3> SUFFICES ASSUME queue # <<>> PROVE FALSE
      OBVIOUS
    <3>1. PICK magic \in MagicRead : EndsCommand(Head(queue), magic)
      BY <1>4 DEF ReadEnd
    <3>2. ~magic /\ Head(queue) \in Ends
      BY <3>1 DEF EndsCommand, MagicRead
    <3>3. CASE cmd = <<>>
      BY <1>1, <1>2, <3>2, <3>3 DEF MagicFirst, Ends, Magic
    <3>4. CASE cmd # <<>>
      BY <1>1, <3>2, <3>4 DEF MagicFirst, MagicRead
    <3> QED BY <3>3, <3>4
  <2>2. queue' = <<>> /\ pc' = "handle"
    BY <1>4, <2>1 DEF ReadEnd
  <2>3. MagicFirst(queue') /\ Len(queue') = 0
    BY <2>2, EmptySeq DEF MagicFirst
  <2>4. Len(queue') <= l * (n - 1)
    BY <1>3, <2>3
  <2>5. ~event' => queue' = <<>>
    BY <2>2
  <2>6. BatchHandled(l)'
    BY <1>1, <2>2, <2>3, <2>4, <2>5, Zenon DEF BatchHandled, n
  <2> QED BY <1>1, <2>6 DEF BatchInv
<1>5. CASE ReadByte
  <2>1. queue # <<>> /\ queue' = Tail(queue)
    BY <1>5 DEF ReadByte
  <2>2. Len(cmd) + 1 < MaxCmd
    BY <1>1, <1>2, <1>3, <2>1
  <2>3. cmd' = Append(cmd, Head(queue)) /\ pc' = "read"
    BY <1>1, <1>5, <2>2 DEF ReadByte
  <2>4. Len(cmd') = Len(cmd) + 1 /\ cmd' # <<>>
        /\ \A i \in 1 .. Len(cmd) : cmd'[i] = cmd[i]
        /\ cmd'[Len(cmd) + 1] = Head(queue)
    BY <1>1, <1>2, <2>1, <2>3, AppendProperties
  <2>5. Len(cmd') + Len(queue') <= l * n
    BY <1>1, <1>2, <1>3, <2>1, <2>4
  <2>6. MagicFirst(cmd')
    <3>1. CASE cmd = <<>>
      <4>1. Head(queue) = Magic
        BY <1>1, <1>2, <2>1, <3>1 DEF MagicFirst
      <4>2. Append(<<>>, Magic) = <<Magic>> /\ <<Magic>>[1] = Magic
        OBVIOUS
      <4>3. cmd'[1] = Magic
        BY <2>3, <3>1, <4>1, <4>2, Zenon
      <4> QED BY <4>3 DEF MagicFirst
    <3>2. CASE cmd # <<>>
      <4>1. 1 \in 1 .. Len(cmd) /\ cmd[1] = Magic
        BY <1>1, <3>2, EmptySeq DEF MagicFirst
      <4> QED BY <2>4, <4>1 DEF MagicFirst
    <3> QED BY <3>1, <3>2
  <2>7. BatchRead(l)'
    BY <1>1, <2>3, <2>4, <2>5, <2>6, Zenon DEF BatchRead, n
  <2> QED BY <1>1, <2>7 DEF BatchInv
<1> QED BY <1>4, <1>5

LEMMA HandleKeepsBatch ==
  ASSUME NEW l, Batch(l), TypeOK, BatchInv(l), Handle
  PROVE  BatchInv(l)'
<1> DEFINE n == Len(waiting)
<1>1. /\ polite /\ n \in Nat /\ n >= 1 /\ (event => n >= 2)
      /\ MagicFirst(queue) /\ Len(queue) <= l * (n - 1)
      /\ ~event => queue = <<>>
      /\ waiting \in Seq(Frame)
  <2>1. polite /\ BatchHandled(l)
    BY DEF Handle, BatchInv, BatchAwaited, BatchRead
  <2>2. n \in Nat /\ waiting \in Seq(Frame)
    BY BatchFits, Zenon DEF n, TypeOK
  <2> QED BY <2>1, <2>2, Zenon DEF BatchHandled, n
<1>2. waiting # <<>> /\ Len(Tail(waiting)) = n - 1
  <2>1. n # 0
    BY <1>1
  <2>2. waiting # <<>>
    BY <2>1, EmptySeq
  <2> QED BY <1>1, <2>2, HeadTailProperties
<1>3. /\ waiting' = Tail(waiting) /\ pc' = "wait" /\ queue' = queue /\ event' = event
      /\ polite' = polite
  BY <1>2 DEF Handle
<1> HIDE DEF n
<1>4. event => n - 1 >= 1
  BY <1>1
<1>5. BatchAwaited(l)'
  <2>1. Len(waiting') = n - 1
    BY <1>2, <1>3, Zenon
  <2>2. /\ pc' \in {"wait", "clear"} /\ MagicFirst(queue') /\ Len(queue') <= l * Len(waiting')
        /\ event' => Len(waiting') >= 1
        /\ ~event' => pc' = "wait" /\ queue' = <<>>
    BY <1>1, <1>3, <1>4, <2>1, Zenon
  <2> QED BY <2>2, Zenon DEF BatchAwaited
<1> QED BY <1>1, <1>3, <1>5 DEF BatchInv

\* A device at rest that waits for no request.
LEMMA RestBegins ==
  ASSUME NEW l \in Nat, polite, AtRest
  PROVE  BatchInv(l)
<1>1. pc = "wait" /\ ~event /\ queue = <<>> /\ waiting = <<>>
  BY DEF AtRest, DeviceQuiet
<1>2. Len(<<>>) = 0 /\ l * 0 = 0
  BY EmptySeq
<1>3. Len(queue) <= l * Len(waiting)
  BY <1>1, <1>2
<1>4. BatchAwaited(l)
  BY <1>1, <1>3, Zenon DEF BatchAwaited, MagicFirst
<1> QED BY <1>4 DEF BatchInv

LEMMA BatchStep ==
  ASSUME NEW l, Batch(l)
  PROVE  TypeOK /\ BatchInv(l) /\ [Next]_vars => BatchInv(l)'
<1> SUFFICES ASSUME TypeOK, BatchInv(l), [Next]_vars PROVE BatchInv(l)'
  OBVIOUS
<1>1. ASSUME NEW f \in Frame, HostSend(f) \/ HostSendLost(f) PROVE BatchInv(l)'
  BY <1>1, SendKeepsBatch
<1>2. CASE HostTimeout
  <2>1. pc = "wait" /\ ~event /\ polite /\ BatchAwaited(l)
    BY <1>2 DEF HostTimeout, DeviceQuiet, BatchInv, BatchRead, BatchHandled
  <2>2. queue = <<>>
    BY <2>1, Zenon DEF BatchAwaited
  <2>3. Len(<<>>) = 0 /\ l * 0 = 0
    BY EmptySeq DEF Batch
  <2>4. queue' = <<>> /\ waiting' = <<>> /\ pc' = "wait" /\ ~event' /\ polite'
    BY <1>2, <2>1, <2>2 DEF HostTimeout
  <2>5. Len(queue') <= l * Len(waiting')
    BY <2>3, <2>4
  <2>6. BatchAwaited(l)'
    BY <2>4, <2>5, Zenon DEF BatchAwaited, MagicFirst
  <2> QED BY <2>4, <2>6 DEF BatchInv
<1>3. CASE HostBecomesPolite
  BY <1>3 DEF HostBecomesPolite, BatchInv
<1>4. CASE SeeEvent
  <2>1. /\ pc = "wait" /\ event /\ pc' = "clear" /\ queue' = queue /\ event' = event
        /\ waiting' = waiting /\ polite' = polite
    BY <1>4 DEF SeeEvent, hostVars
  <2>2. polite /\ BatchAwaited(l)
    BY <2>1 DEF BatchInv, BatchRead, BatchHandled
  <2>3. BatchAwaited(l)'
    BY <2>1, <2>2, Zenon DEF BatchAwaited
  <2> QED BY <2>1, <2>2, <2>3 DEF BatchInv
<1>5. CASE ClearEvent
  <2>1. /\ pc = "clear" /\ pc' = "read" /\ queue' = queue /\ event' = FALSE /\ cmd' = <<>>
        /\ waiting' = waiting /\ polite' = polite
    BY <1>5 DEF ClearEvent, hostVars
  <2>2. polite /\ BatchAwaited(l)
    BY <2>1 DEF BatchInv, BatchRead, BatchHandled
  <2>3. event
    BY <2>1, <2>2 DEF BatchAwaited
  <2>4. Len(waiting) >= 1 /\ MagicFirst(queue) /\ Len(queue) <= l * Len(waiting)
    BY <2>2, <2>3, Zenon DEF BatchAwaited
  <2>5. Len(cmd') + Len(queue') <= l * Len(waiting')
    BY <2>1, <2>4, EmptySeq, BatchFits
  <2>6. BatchRead(l)'
    BY <2>1, <2>4, <2>5, Zenon DEF BatchRead
  <2> QED BY <2>1, <2>2, <2>6 DEF BatchInv
<1>6. CASE ReadEnd \/ ReadByte
  BY <1>6, ReadKeepsBatch
<1>7. CASE Handle
  BY <1>7, HandleKeepsBatch
<1>8. CASE UNCHANGED vars
  BY <1>8 DEF vars, BatchInv, BatchAwaited, BatchRead, BatchHandled
<1> QED BY <1>1, <1>2, <1>3, <1>4, <1>5, <1>6, <1>7, <1>8 DEF Next, Task

\* A host that sends Pi-KVM requests without waiting for each answer, as many as fit into
\* the command buffer together: however the frames and the events meet, no byte is left
\* in the queue of a task that sleeps.
THEOREM NoBatchLeftBehind ==
  ASSUME NEW l \in Nat, l * Window < MaxCmd, l * Window <= Room,
         \A f \in Frame : f[1] = Magic /\ Len(f) <= l
  PROVE  Spec => NothingStranded
<1>1. Batch(l)
  BY DEF Batch
<1>2. TypeOK /\ BatchInv(l) /\ [Next]_vars => BatchInv(l)'
  BY <1>1, BatchStep
<1>3. BatchInv(l) => NoneStranded
  BY DEF BatchInv, BatchAwaited, BatchRead, BatchHandled, NoneStranded, DeviceQuiet
<1>4. polite /\ AtRest => BatchInv(l)
  BY RestBegins
<1> QED BY <1>2, <1>3, <1>4, TypeCorrect, PTL DEF Spec, NothingStranded
=============================================================================
