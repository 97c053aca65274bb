---------------------------- MODULE CommandPath ----------------------------
(***************************************************************************)
(* The way of a request from the receive interrupt to its handler:         *)
(* Hal_uart_isr queues a frame and sets the event CmdIn, cli_task waits    *)
(* for the event, reads the queue byte by byte and calls the handler of    *)
(* the command.  The queue is the first-in first-out queue that IsrQueue   *)
(* is proved to be, a frame is what UartFramer hands over.  Nothing in the *)
(* queue marks where a frame ends, and the event is a single bit however   *)
(* often it is sent.                                                       *)
(***************************************************************************)
EXTENDS Naturals, Sequences, FiniteSets

CONSTANTS Frame,     \* the frames the host sends
          Char,      \* the values of a byte
          MaxCmd,    \* MAX_CMD_LEN
          Room,      \* the bytes the queue holds, MSG_Q_SIZE_BYTE - 1
          Window     \* the requests a polite host leaves unanswered

Ends == {"cr", "lf"}
Magic == "3"

ASSUME PathAssumption ==
  /\ Frame \subseteq Seq(Char) /\ Ends \cup {Magic} \subseteq Char
  /\ \A f \in Frame : Len(f) > 0
  /\ MaxCmd \in Nat \ {0} /\ Room \in Nat /\ Window \in Nat \ {0}

VARIABLES queue,      \* the bytes in KernelMsgQ_DebugCmd, the oldest first
          event,      \* the bit KernelEventFlag_CmdIn of sEventFlag
          pc,         \* where cli_task is
          cmd,        \* cmd_buf[0 .. i - 1]
          polite,     \* the host keeps to its window from now on
          waiting,    \* the requests the host waits for, the oldest first
          command     \* the command handled last

taskVars == <<pc, cmd>>
hostVars == <<polite, waiting>>
vars == <<queue, event, pc, cmd, polite, waiting, command>>

Init == /\ queue = <<>> /\ event = FALSE
        /\ pc = "wait" /\ cmd = <<>>
        /\ polite \in BOOLEAN
        /\ waiting = <<>> /\ command = <<>>

-----------------------------------------------------------------------------
(* The interrupt.                                                          *)

\* A frame is complete.  If it does not fit, the whole queue is flushed and no
\* event is sent.
IsrFrame(f) ==
  IF Len(queue) + Len(f) <= Room
  THEN queue' = queue \o f /\ event' = TRUE
  ELSE queue' = <<>> /\ UNCHANGED event

-----------------------------------------------------------------------------
(* The host and the line.                                                  *)

MaySend == polite => Len(waiting) < Window

\* The host sends a frame and the line delivers it.  A host that is not polite
\* keeps no account of what it has sent.
HostSend(f) == /\ MaySend
               /\ IsrFrame(f)
               /\ waiting' = IF polite THEN Append(waiting, f) ELSE waiting
               /\ UNCHANGED <<pc, cmd, polite, command>>

\* The frame gets lost on the line.
HostSendLost(f) == /\ MaySend /\ polite
                   /\ waiting' = Append(waiting, f)
                   /\ UNCHANGED <<queue, event, pc, cmd, polite, command>>

DeviceQuiet == pc = "wait" /\ ~event

\* The host times out, which takes longer than any command (HID_Test waits 1 s,
\* a command takes 40 ms at most): the device is not going to answer any more.
HostTimeout == /\ waiting # <<>> /\ DeviceQuiet
               /\ waiting' = <<>>
               /\ UNCHANGED <<queue, event, pc, cmd, polite, command>>

\* The host starts over, after a pause that lets the device come to rest.
HostBecomesPolite == /\ ~polite /\ DeviceQuiet
                     /\ polite' = TRUE
                     /\ UNCHANGED <<queue, event, pc, cmd, waiting, command>>

-----------------------------------------------------------------------------
(* cli_task and handle_command.                                            *)

\* Kernel_event_flag_check reads the flag ...
SeeEvent == /\ pc = "wait" /\ event
            /\ pc' = "clear"
            /\ UNCHANGED <<queue, event, cmd, hostVars, command>>

\* ... and clears it by another access to memory; the interrupt may come between.
ClearEvent == /\ pc = "clear"
              /\ event' = FALSE
              /\ pc' = "read" /\ cmd' = <<>>
              /\ UNCHANGED <<queue, hostVars, command>>

\* Mutant: the end of a raw report ends a Pi-KVM request as well.
EndsAnyCommand(ch, magic) == ch \in Ends

\* A byte that ends the command, with magic telling whether cmd_buf[0] is MAGIC.
EndsCommand(ch, magic) == ~magic /\ ch \in Ends

\* What cmd_buf[0] == MAGIC may yield.  Before the first byte is stored the
\* buffer holds whatever was on the stack.
MagicRead == IF cmd = <<>> THEN BOOLEAN ELSE {cmd[1] = Magic}

\* Mutant: a command also ends as soon as it is a whole request.
ReadEndOfRequest == /\ pc = "read"
                    /\ \/ (queue = <<>> \/ cmd \in Frame) /\ UNCHANGED queue
                       \/ /\ queue # <<>>
                          /\ \E magic \in MagicRead : EndsCommand(Head(queue), magic)
                          /\ queue' = Tail(queue)
                    /\ pc' = "handle"
                    /\ UNCHANGED <<event, cmd, hostVars, command>>

\* The queue is empty, or the byte read ends the command.
ReadEnd == /\ pc = "read"
           /\ \/ queue = <<>> /\ UNCHANGED queue
              \/ /\ queue # <<>>
                 /\ \E magic \in MagicRead : EndsCommand(Head(queue), magic)
                 /\ queue' = Tail(queue)
           /\ pc' = "handle"
           /\ UNCHANGED <<event, cmd, hostVars, command>>

\* Mutant: a byte is read past the end of the buffer.
ReadByteLong == /\ pc = "read" /\ queue # <<>>
                /\ \E magic \in MagicRead : ~EndsCommand(Head(queue), magic)
                /\ queue' = Tail(queue)
                /\ IF Len(cmd) < MaxCmd
                   THEN cmd' = Append(cmd, Head(queue)) /\ UNCHANGED pc
                   ELSE cmd' = <<>> /\ pc' = "wait"
                /\ UNCHANGED <<event, hostVars, command>>

\* The byte is stored.  When it fills the buffer what was read is dropped and the
\* task waits for the next event, whatever is still in the queue.
ReadByte == /\ pc = "read" /\ queue # <<>>
            /\ \E magic \in MagicRead : ~EndsCommand(Head(queue), magic)
            /\ queue' = Tail(queue)
            /\ IF Len(cmd) + 1 < MaxCmd
               THEN cmd' = Append(cmd, Head(queue)) /\ UNCHANGED pc
               ELSE cmd' = <<>> /\ pc' = "wait"
            /\ UNCHANGED <<event, hostVars, command>>

\* Mutant: the event is cleared once more when the command has been handled.
HandleClears == /\ pc = "handle"
                /\ command' = cmd
                /\ waiting' = IF waiting = <<>> THEN waiting ELSE Tail(waiting)
                /\ pc' = "wait" /\ cmd' = <<>> /\ event' = FALSE
                /\ UNCHANGED <<queue, polite>>

\* handle_pikvm_command or handle_rawkvm_command answers the command.  The host
\* takes any answer for that to its oldest request.
Handle == /\ pc = "handle"
          /\ command' = cmd
          /\ waiting' = IF waiting = <<>> THEN waiting ELSE Tail(waiting)
          /\ pc' = "wait" /\ cmd' = <<>>
          /\ UNCHANGED <<queue, event, polite>>

Task == SeeEvent \/ ClearEvent \/ ReadEnd \/ ReadByte \/ Handle

Next == \/ \E f \in Frame : HostSend(f) \/ HostSendLost(f)
        \/ HostTimeout \/ HostBecomesPolite
        \/ Task

Spec == Init /\ [][Next]_vars

\* The task goes on running: interrupts end, and no other task exists.
Fairness == WF_vars(Task)

\* A polite host gives up on what is lost and goes on sending requests, of which
\* some reach the device.
HostFairness == /\ WF_vars(HostTimeout)
                /\ SF_vars(\E f \in Frame : HostSend(f) /\ polite)

LiveSpec == Spec /\ Fairness /\ HostFairness

\* A host that is polite from the start.
PoliteInit == Init /\ polite = TRUE

PoliteSpec == PoliteInit /\ [][Next]_vars

FairPoliteSpec == PoliteSpec /\ Fairness

-----------------------------------------------------------------------------

TypeOK == /\ queue \in Seq(Char) /\ Len(queue) <= Room
          /\ event \in BOOLEAN
          /\ pc \in {"wait", "clear", "read", "handle"}
          /\ cmd \in Seq(Char) /\ Len(cmd) < MaxCmd
          /\ polite \in BOOLEAN
          /\ waiting \in Seq(Frame) /\ Len(waiting) <= Window
          /\ command \in Seq(Char)

\* The command that a frame stands for: a raw report without its end.
Payload(f) == IF f[1] = Magic THEN f ELSE SubSeq(f, 1, Len(f) - 1)

Server == INSTANCE RequestServer

\* To a host that waits for its answers the device is a server: the command
\* that is answered is the very request it waits for (cli_task.c:24-55).
ImplementsServer == Server!ServerSpec

AtRest == DeviceQuiet /\ queue = <<>> /\ waiting = <<>>

NoneStranded == DeviceQuiet => queue = <<>>

\* Once a host is polite and the device at rest, whatever was sent before, no byte is
\* left behind in the queue without an event that makes the task read it, as long as
\* the requests under way fit into the command buffer together (cli_task.c:24-36,
\* event.c:30-38).
NothingStranded == [](polite /\ AtRest => []NoneStranded)

\* A request that has reached the queue is answered.
RequestAnswered ==
  \A f \in Frame : queue = f ~> command = Payload(f) /\ waiting = <<>>

\* The frames that can be read one at a time (cli_task.c:24-36).
Readable(f) ==
  /\ Len(f) <= Room
  /\ IF f[1] = Magic
     THEN Len(f) < MaxCmd
     ELSE /\ Len(f) \in 2 .. MaxCmd
          /\ \A i \in 1 .. Len(f) : f[i] \in Ends <=> i = Len(f)

\* Whatever a host has sent before, once it waits for its answers the device
\* falls into step with it and stays there: between two requests nothing is left
\* in the queue that would become part of the next command.
InStep == polite /\ NoneStranded

BacklogClears == <>polite => <>[]InStep
=============================================================================
