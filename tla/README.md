# Verification of the HID emulator

The repository turns an STM32F103 board into a USB keyboard and mouse that is
driven over a serial line, by Pi-KVM or by a raw protocol. This directory holds
TLA+ models of the parts that decide whether what a host asks for on the serial
line reaches the USB host, the TLC runs that check them, and proofs for TLAPS.

All paths below are relative to the repository.

## The system

    serial line --> Hal_uart_isr --> message queue + event --> cli_task
                    (interrupt)      (shared memory)           (task)
                                                                 |
                                              handle_pikvm_command / handle_rawkvm_command
                                                                 |
    answers <--------------------------------------------- send_hid_report
                                                                 |
    USB host <-- USB peripheral <--> USB device core <-- USBD_HID_ReportIn
                  (interrupt)

There is one task (`brd/main.c:80-92`). Interrupts all have priority 0: they do
not interrupt each other, and the task never masks them. All that happens
between two memory accesses of the task is therefore one or more whole
interrupts.

| Component | State | Operations | Interacts by | Hard because | Correct when |
|---|---|---|---|---|---|
| Message queue `kernel/msg.c` | ring of 512 bytes, `front`, `rear` | init, enqueue, dequeue | called by task and interrupt | producer and consumer interleave without a lock; wrap | first in, first out, no byte twice or lost; no slot used by both |
| Message calls `kernel/kernel.c:61-109` | the ring | send, receive, flush | called by task and interrupt | a message that does not fit half | all or nothing |
| Event flags `kernel/event.c`, `kernel.c:27-59` | one word | set, check and clear, wait | set by interrupt, polled by task | binary: events merge | no frame waits for an event that never comes |
| Serial receiver `brd/uart.c:94-143` | frame buffer, count, last tick | one byte received | calls the kernel | lost bytes, pauses, tick wrap, full buffer | a frame is handed over whole and once |
| Command task `app/cli_task.c` | command buffer, last frame number | read a command, handle it | queue, event | frames merge in the queue; bytes are left over | each request is handled and answered once |
| Pi-KVM handler `app/hid_pikvm.c` | modifiers, position, buttons, last checksum, last answer | ten commands | USB class, serial answers | retries, refused reports, left-out duplicates | the answer is true and the host's keyboard and mouse are what was asked |
| Raw handler `app/hid_rawkvm.c` | none | keyboard and mouse report | the same | shares the endpoints with the other | a report is sent as given |
| Report sender `app/common_kvm.c` | online bits | send with attempts | USB class | races with polls and resets | sent or reported as not sent |
| HID class `usb/Class/HID` | request, idle rate | class requests, report in | USB core | called from the task and from the interrupt | an endpoint that was given a report becomes free again |
| USB core `usb/Device` | configuration, control state, endpoint states | set-up, in and out completion, reset | interrupt callbacks | phases of control transfers; resets at any point | each transfer ends, its answer is that of its request, the address changes last, a configuration opens the endpoints |
| USB driver `usb/Xpd/xpd_usb.c` | registers, packet memory | interrupt dispatch | registers | two completions found in one round | they are handled in the order they happened |
| Scheduler `kernel/task.c` | task list, current task | create, start, yield | called by tasks | a creation may fail; tasks are created while others run | only created tasks run |
| Semaphore, mutex `kernel/synch.c` | counter and maximum; owner and lock | take, return | called by tasks | retries in no order; returns by tasks that hold nothing | the mutex excludes, no unit is lost, who waits is served |
| HAL, C library, start-up, descriptors, CDC, scripts | | | | | |

`PROJECT.json` lists each with what is modelled of it, and the hazards at their
lines with the properties that cover them.

## Modules

| Module | Models | Notes |
|---|---|---|
| `BoundedFifo` | nothing of the code: what a queue promises | abstract specification |
| `MsgQueue` | the ring of `msg.c` as operators on a record | `front`, `rear` and slots as in the code; `Contents` reads it as a sequence |
| `IsrQueue` | one dequeue of the task, access by access, the interrupt's enqueue, and its flush on overflow | implements `BoundedFifo` |
| `TornQueue` | nothing more of the code: an observer that follows two bytes through the ring | what an overflow in the middle of a dequeue can do |
| `KernelMsg` | `Kernel_send_msg`, `Kernel_recv_msg`, `Kernel_flush_msg` | operators on a ring; what the calls promise is checked of every ring that `IsrQueue` reaches between two dequeues |
| `UartFramer` | `Hal_uart_isr` with clock, sender and line | a byte is one step |
| `RequestServer` | nothing of the code: a server of requests | abstract specification |
| `CommandPath` | the queue and the event between interrupt and task, the loop of `cli_task` and the reading in `handle_command` | implements `RequestServer`; the queue is the sequence that `IsrQueue` shows it to be |
| `HidHandler` | both handlers, the report sender, the endpoints as the task sees them, and the USB host | |
| `Crc16`, `KeyMap`, `CrcLoop` | `crc16`, the table of `key_map_usb`, and the loop over the report of a key | |
| `UsbDevice` | control transfers, configuration, report endpoints and the HID class in the interrupt, `USBD_EpSend` step by step in the task, and the USB host | |
| `KernelServices` | the tasks, the mutex and the semaphore, with the loops of `kernel.c` around them, and the tasks as their clients | |
| `DataLemmas` | induction over a count, facts about sequences, and about `crc16` | for the proofs |
| `MC*` | values of the constants for TLC | |
| `*Proofs` | theorems | |

How state and actions correspond to the code is said above each definition;
`map` in `PROJECT.json` gives the lines of each. Operators marked *Mutant* are
wrong variants of the definition that follows them. They are used by no
specification; putting one in place of its definition must break the property
that `PROJECT.json` pairs it with, which shows that the property depends on
that piece of the code.

### What is abstracted

- **IsrQueue.** The test for an empty ring and the first load of `front`
  (`msg.c:83` and `88`) are one step, as a compiler that does not reload a
  non-volatile variable makes them. With a reload, an overflow flush exactly
  between the two would leave a ring that seems full of zeros until it is
  drained or flushed; the model leaves that out. The four accesses of a dequeue (advance `front`, load, clear
  the slot) may be done in any order that keeps a load before the clear of the
  same slot, because nothing in `msg.c` is volatile. The interrupt's send of a
  frame appears as one `IsrEnqueue` per byte. On overflow the interrupt
  flushes the queue, possibly in the middle of a dequeue: a second consumer,
  which the ring is not made for. The task then stores a `front` that it
  computed before, and the ring is no longer a queue of what was sent. The
  history variable `ring` is "torn" from there until the ring has run empty
  between two dequeues. While it is torn, `ImplementsFifo` says nothing;
  `TornQueue` does: it follows any two bytes, an earlier and a later one, and
  says that no byte is taken twice and none after a later one. Assumed is
  (`MayStrike`) that one dequeue is not hit twice: a full queue takes 44 ms to
  arrive again (512 bytes at 115200 baud), a dequeue a few instructions.
- **UartFramer.** Characters are `@`, `#`, `3`, CR, LF and others. The tick
  wraps at `TickMod` in place of 2^32. `idle` is the true silence and `clean`
  whether sender and buffer are in step, both kept only to state properties. A
  frame is `WellFormed` if the interrupt can tell its end: no end byte inside a
  raw frame, eight bytes and the magic byte for the others. The host may send
  others, which put the two out of step.
- **CommandPath.** Requests are frames; a Pi-KVM frame begins with the magic
  byte. A polite host waits for answers and gives a request up only when the
  device is quiet, `Window` requests at a time; an impolite one sends anything
  anytime. Reading `cmd_buf[0]` before a byte is stored yields either outcome
  (`MagicRead`). An overflow empties the queue here also in the middle of a
  dequeue: what it then does to the ring is in `IsrQueue` and `TornQueue` only.
- **HidHandler.** Reports are records. A key command carries the usage that
  `key_map_usb` gives its code (`KeyMap`). Each of `send_hid_report`'s attempts is
  a step, so that polls, resets and suspends happen between them; what a
  handler does between attempts is one step, since no interrupt reads its
  variables. `USBD_EpSend`'s test and transfer are one step. `wanted` and
  `intact` are history variables: what commands asked for, and whether
  something else (a reset, a raw report) has changed the host's state since.
- **Crc16.** The register is the set of its bits that are one.
- **KernelServices.** A yield is a step; the registers that `switch.c` saves and
  restores are left out. One failed creation stands for any number: from the
  first on the scheduler runs off its list (`OnlyCreatedRun`), and the model
  says nothing of what runs then. A client takes a lock only while it does not
  have it and yields after it has returned one; it may unlock the mutex at any
  time, also without having it, but returns a unit of the semaphore only when it
  has one, since a counter cannot tell. It takes no semaphore while it has the
  mutex: the two orders together are a deadlock of the clients, not of the code.
- **UsbDevice.** One round of `USB_vIRQHandler` is a step, for endpoint 0 or
  for a report endpoint. Answers and reports are one packet: no descriptor of
  this build is longer than 63 bytes. Packets have no bytes, an answer is the
  value it carries. The task's write of a status register is two steps
  (`USB_EP_SET_STATUS` reads it and writes the bits that are to change), with
  interrupts and the host between them. The interrupt's own writes are one step:
  nothing but the peripheral could come between, which may turn VALID into NAK
  just then. A halt in those few cycles would come out as DISABLED and a closed
  endpoint as STALL; the model leaves that out. The states of `EP.IN[0]` and `EP.OUT[0]` are left out: the
  first is never read, the second only by the interrupt that set it. Of the
  peripheral it is assumed that a set-up packet is accepted once the one before
  was read, and sets both directions to NAK; that a sent or received packet does
  too; that a reset disables all endpoints and lasts long enough (10 ms) for
  pending interrupts and for a task in `USBD_EpSend` to finish before the first
  set-up packet. Any set-up packet may come while the end of the transfer
  before it is still pending, except, with `Prompt`, a SET_ADDRESS: a host sends
  it after a reset, when nothing is pending. `host.view` is what the host takes
  the device to be from the requests confirmed to it.

## Runs

| Run | Checks | Bounds |
|---|---|---|
| `isr_queue` | type; free slots read zero; the dequeue invariant; `SlotInUseIsStable`; `ImplementsFifo`; `TakenOnceInOrder`; `CallsAsPromised` | 4 slots, bytes 0, 1 and 2 (0 is also what a free slot reads): full, empty, wrapped and torn rings, each order of accesses, and messages that fit exactly, partly and not at all |
| `uart_framer` | `ExactFraming`, `SilenceMeasured` | frames of every kind, one of them a raw frame with an end byte inside, lost and added bytes anywhere, silences below, at and above the limit, one wrap |
| `command_polite` | `ImplementsServer`, `RequestAnswered` | one request at a time, lost on the line or not. Frames that merge in the queue or share an event need more than one under way: that is `command_resync` |
| `command_resync` | type; `NothingStranded`; `BacklogClears` | a host that fills the queue beyond `Room` and the command buffer beyond its length, then turns polite with two Pi-KVM requests at a time. `NothingStranded` speaks of what comes after a polite host has found the device at rest, `BacklogClears` of getting there |
| `hid_keyboard` | type; `OnlineMeansDelivered`; `KeyArrives`; `OnlyRepeatsLeftOut` | two keys, a modifier, an undefined code, two attempts, all faults of the bus |
| `hid_mouse` | `DragKept` | two positions, two button sets, two attempts |
| `wheel_moves`, `move_scrolls` | findings 1 and 2 | as above |
| `crc_collision` | finding 3 | the code's checksum, two keys, two modifiers |
| `crc_loop` | the loop computes the remainder; 0 is free; the keys with common modifiers told apart | none: every modifier byte and key code |
| `kernel_services` | type; `OnlyCreatedRun`; `MutualExclusion`; `UnitsAddUp`; `WaitersServed` | 3 tasks and a creation that fails, maxima of the semaphore below zero, zero, one and above the default of 2: fewer units than tasks, and one task that waits behind two others |
| `usb_control` | type; `AnswersMatch`; `ConfiguredIsOpen`; `AddressLast`; `TransferEnds`; `BusyEnds` | one interface, each request that has an effect or an answer of its own, accepted and refused; any number of transfers, resets and reports |

The properties depend on whether a queue is empty, full or wrapped, on whether
a frame, a gap or an attempt is the last one, and on whether two reports are
equal. The bounds include each such case and the steps around it. Two attempts
stand for four: what matters is a first, a last and a retry between which the
host moves. One interface stands for two: their endpoints share nothing but the
configuration, and the proofs hold for any number.

`TransferEnds` leaves out one request, GET_REPORT of type 0 to a configured
device (`usb/Class/HID/usbd_hid.c:394-406`). The run has it, so that what follows
a transfer given up in this way is checked.

### Fairness

- `CommandPath`: the task keeps running (`WF_vars(Task)`), as nothing blocks
  it and interrupts are finite. `command_resync` also assumes that a host whose
  request is not answered times out, and that it turns polite only by its own
  choice (the property is about the runs in which it does).
- `HidHandler`: the task keeps running (`WF_vars(Send)`: each attempt ends) and
  a configured host polls an endpoint with a report in it
  (`WF_vars(Poll(d))`), as the interval of an interrupt endpoint demands.
- `UsbDevice`: interrupts are served and the task gets on (`WF` of `IsrEp0`,
  `SendClaim \/ SendRead \/ SendWrite`); the host goes on with a transfer it has begun and
  polls a configured endpoint that has a report (`WF` of `Transfer`,
  `HostPoll(i)`). A report endpoint is served after endpoint 0, so its rounds
  are enabled again and again rather than all the time (`SF` of
  `IsrReport(i)`): the bus takes far longer for a transfer than the interrupt
  for its rounds, so endpoint 0 cannot keep it from them.
- `KernelServices`: the running task goes on (`WF` of its steps: a task that runs
  is interrupted only for interrupts), and one that has a lock returns it some
  time (`SF`, for it can do so only in its turns). That the turns come round is
  not assumed but follows from the scheduler.
- `BacklogClears` is checked for frames without CR and LF among their bytes. A
  frame with one keeps a stream that is out of step so: each command ends at
  the wrong byte. Raw frames sent two at a time lag by one for the same reason,
  which is why `command_resync` uses Pi-KVM requests.

## Proofs

The theorems hold for every value of the constants.

**`QueueProofs`** (`IsrQueue`, `KernelMsg` and `TornQueue`): `TypeCorrect`,
`TakenBytesAreGone`, `NoSlotConflict`, `QueueIsFifo` and `DequeueInStages`. The
inductive invariant `IInv` says which slots are in use, that all others are clear,
and for every set of accesses still to do how `front` and the index taken by the
task relate. It is needed because the refinement to `BoundedFifo` must know
that the slot the task loads still holds the byte it was when the test was made.
It says nothing of a torn ring, and holds again of one that has run empty.

`CallsKeepPromise` is about the message calls. They repeat the steps for a byte;
what n of them do is shown by induction on n (`CountUp`), for any ring that keeps
its type, any message and any count: a receive takes a beginning of the queue, a
send that fails has stored as many bytes as were free, and the rollback takes that
many from the front.

`NoneTakenTwice` covers the torn ring. `TornInv` does not say what is in its
slots, only where the two bytes are that the observer follows: in the ring as it
will be when the task has stored its `front` (`Ahead`), in the hand of the task,
or lost. A byte that was taken is not in that ring again unless it is in the hand
(`TakenIsOut`), the earlier one is in front of the later one (`EarlierIsFirst`),
and is out of the ring once the later one is read or about to be (`LaterIsLast`).
An index saved before the flush may be one slot off (`ReadIsFirst`), but no more,
by the assumption in `MayStrike`. The refinement is not needed for this, and it
holds for a ring of any size.

**`UartFramerProofs`**: `TypeCorrect`, `FramingExact` and `SilenceExact`. The invariant
`InStep` relates buffer and sender: while the line is clean, what the sender has
sent of its frame is what is in the buffer. `ClockInv` relates the tick counter
to the true silence. All three hold for any set of frames: `clean` is true only
from a `WellFormed` frame on, and such a one is complete exactly with its last
byte (`CompleteIsWhole`).

**`CommandPathProofs`**: `TypeCorrect`, for any host, and `NoneLeftBehind` and
`CommandPathServes`, the refinement to `RequestServer`. For these two, assumed are
one request at a time (`Window = 1`) and `Readable` frames: frames that the reading
loop ends at their last byte. `NoneLeftBehind` starts from any state in which a
polite host finds the device at rest; the refinement from a host that always was
polite. The invariant says, for each place in the task, how the bytes
read and those queued make up the one request under way. With `Window = 2` the
refinement is false: two frames may be read as one command. `NoBatchLeftBehind`
shows that then, too, no byte is left behind: for Pi-KVM frames of at most `l`
bytes of which `Window` fit into the command buffer and the queue, the case of
`command_resync`. `BatchInv` bounds, for each place in the task, the bytes read
and queued by the requests under way, and says that an event is pending for those
that the task has not begun to read.

**`HidHandlerProofs`**: `TypeCorrect`, `KeysAreDelivered`, `RepeatsLeftOut` and
`DragsAreKept`. Assumed in the second and third is that
the checksum tells keyboard reports apart and has not the value for none
(`TellsApart`). The property is not inductive: a duplicate is left out on the
word of `last_crc`, so the invariant `DeliveryInv` adds that `last_crc`, unless
it is none, is the checksum of the report which the host has or is about to
fetch (`CrcOfTheLast`), and that a key report under way is the one asked for
last (`SentIsWanted`). `RepeatsLeftOut` needs only that `last_crc` is, between
two commands, the checksum of what was asked for last (`CrcOfTheWanted`): it
holds after a reset or a raw report as well, when the host's keyboard is no
longer what was asked for.

`TellsApart` is not true of `crc16` for all modifiers. What is true of it is
proved in `DataLemmas`: a step of the register is injective; two reports with one
checksum have different keys, and modifiers that differ in two or more other than
the left Ctrl and the left Shift (`CollisionsDiffer`); no report has the checksum 0
(`SumsAreNotNone`). Hence two theorems about the handler with `crc16` itself
(`AsInTheCode` says how reports are laid out as bytes, and that the checksum is
that of `Crc16`). `CommonKeysDelivered`: with left Ctrl, left Shift and one other
modifier, both properties hold, for all keys. `LeftOutIsAlike`: with any modifiers,
a command that is left out asked for nothing new or for a report that differs in
just that way. `crc_collision` shows that such a one is indeed left out.

**`CrcLoopProofs`**: `NoneStandsForNone` and `CommonKeysToldApart`, the same facts
about the loop as it runs and with the table of the keys before it, for any set of
modifier bytes that differ as above (`CommonAssumption`). `LoopInv` says that the
register is that of the bytes gone through. `SumIsRemainder`: the loop computes the
remainder of polynomial division, for any number of bytes; `LoopDivides` is its
instance for the reports. The argument (`StandsFor`) is that after i bits the
register is what is left of the upper end of the polynomial, and the bits of the
bytes still to come are as they were in the message.

**`UsbDeviceProofs`**: `TypeCorrect`, `EndpointsAreOpen`, `AddressComesLast` and
`AnswersAgree`. For the first the invariant adds that a set-up packet received
is a request of the host (`TypeInv`). `ConfiguredIsOpen` says that an endpoint of
a configuration is not closed and that a busy one has its report in the register,
unless the task is about to put it there. `OpenInv` adds what makes it inductive:
until the write, the register is as the task has read it, or the host has fetched
what was in it before. Every request and reset that changes the register makes
the endpoint idle or halted as well (`KeepsOpen`), so that a write that is out of
date meets only endpoints that are not busy. The other two
need to know which request the device works on: the one the host waits for, or
one the host has given up, which then asks for an answer and changes nothing
(`HeldInv`). `AddressLast` also needs to know whose status stage has ended,
which the code does not store: `EndInv` says that an empty packet sent at the
end of a request was taken by the host to end that request. It holds for a
`Prompt` host only. `AnswersMatch` needs none of that: `AnswerInv` relates the
configuration, the wakeup feature and the idle rates of the device to what the
host knows, or is about to be told when the device has carried out a request
that is not yet confirmed (`ViewNow`).

**`KernelServicesProofs`**: `TypeCorrect`, `CreatedTasksRun`, `MutexExcludes` and
`SemaphoreCounts`, for any number of tasks and any maximum. The mutex needs that
whoever holds it is the owner it names and that no one holds it while it is
free; the semaphore that the holders are finitely many.

Only model-checked: everything under fairness (`RequestAnswered`,
`BacklogClears`, `KeyArrives`, `TransferEnds`, `BusyEnds`, `WaitersServed`), which
is beyond the prover. Every invariant, action property and refinement that a
passing run checks is a theorem.

## Findings

1. **A wheel command moves the pointer to position 0,0**
   (`app/hid_pikvm.c:223-228`), for the report has absolute positions. Its
   buttons are zero as well, so it also lets a held one go; the trace of
   `wheel_moves` shows only the pointer.
2. **Moves and buttons send an uninitialized wheel byte**
   (`app/hid_pikvm.c:241-269`).
3. **A key press may be left out** when its report has the checksum of the one
   before (`app/hid_pikvm.c:306`). 25 presses, all with at least two modifiers,
   have the checksum of the released keyboard, left Alt + right Ctrl + L among
   them.

Known limits that no statement of the repository contradicts, kept as hazards
where a sequence of steps leads to them:

- `last_crc` survives a reset of the bus and raw reports, so a key may stay
  pressed at the host until the next report that differs.
- Regaining the frame lock marks both devices online. A key release releases
  every key. CMD_CLEAR_HID is answered with `PONG_OK` and clears nothing
  (`app/hid_pikvm.c:213`).
- KEY_POWER has usage 102 and the report descriptor ends at 101
  (`app/usb_device.c:143`): a host ignores the key.
- A message that is refused does not leave the queue as it was
  (`kernel/kernel.c:67-73`): the rollback dequeues as many bytes as it had put
  in, which takes the oldest ones. The receive interrupt flushes the whole queue
  right after, so the program loses the commands before it as well, and no half
  frame stays. If the task is in a dequeue at that moment the next commands may
  lose bytes or begin with zeros until the queue has run empty.
- The keys g and j of `script/hid_test.py` have usages 0x0A and 0x0D, which end
  a raw frame (`brd/uart.c:124`). `ExactFraming` says that one silence is enough
  to get over it, not that the report arrives.
- A GET_REPORT of type 0 to a configured device is neither answered nor stalled:
  no application has a callback, `itf->Request` is then 0 as if a report had been
  provided (`usb/Class/HID/usbd_hid.c:398-403`), and `usb/Device/usbd_ctrl.c:233`
  leaves the data stage to the callback. The host waits until it gives up. HID
  reserves type 0. All other types are stalled.
- `USB_EP_SET_STATUS` reads a register and writes the bits to be toggled, in the
  task with interrupts enabled (`usb/Xpd/xpd_usb.c:80-82`, used at 212). A halt
  between the two leaves the endpoint DISABLED, so that polls time out, where the
  host should see a STALL; the end of a halt leaves it DISABLED and idle; a new
  configuration leaves it STALLed and idle. `BusyEnds` and `ConfiguredIsOpen` show
  that no report gets stuck by it: the next report, configuration or end of a
  halt sets the register right.
- `USBD_EpSend` tests, claims and starts in separate steps with interrupts enabled
  (`usb/Device/usbd_ep.c:45-50`). A reset between them leaves a report in a
  closed endpoint, and the call still returns `USBD_E_OK`. `ConfiguredIsOpen`
  and `BusyEnds` show that the next configuration repairs it.
- A halt of an endpoint is forgotten when a report completes just before it. A
  reset of the bus leaves the remote wakeup feature as it is.
- With `Prompt = FALSE`, a SET_ADDRESS that arrives while the end of the request
  before is still pending takes effect too early (`usb/Xpd/xpd_usb.c:663-765`).
- The default maximum of a semaphore is overwritten (`kernel/synch.c:22-23`), so
  one with a maximum that is not positive is never given. No property fails of
  it: `WaitersServed` leaves such a semaphore out. After a failed
  creation the scheduler runs off its list (`kernel/task.c:56-61`). The
  application creates one task and uses no lock.

## Not modelled, and why

- The HAL and the C library, which are most of the repository's lines, are
  vendored; so are the USB classes that are not built (DFU, MSC, NCM) and the
  templates. CDC is built and mounted by nothing.
- The USB peripheral's packet memory, data toggles, double buffers and suspend,
  clocks and pins are hardware: they are set up once, or their state shows only
  in what the models take from the peripheral.
- Answers of more than one packet cannot occur: no descriptor of this build is
  longer than 63 bytes. OUT endpoints belong to no interface here.
- Descriptors are constant data. Formatted output changes no state.
- `Kernel_wait_events` and the flags for more than one event at a time: the
  application waits for one.
- Saving and restoring a task's registers (`lib/cortexM/switch.c`) is assembly.

## Plan

Done, in this order: message queue and its proof, message calls, serial
receiver and its proof, command path and its proof, handlers and their proof,
checksum and key table, USB device and its proof, overflow in the middle of a
dequeue, kernel services and their proof.

What could follow:

1. `HidOverUsb`: `HidHandler` with the endpoints of `UsbDevice`. The abstract
   specification would be `HidHandler`'s own endpoints. It is not exact: a report
   sent while a reset closes its endpoint is lost, which `HidHandler` does not
   allow, as its test and transfer are one step. The refinement would hold for
   runs without such a reset.
2. Proofs: that a backlog cannot grow once the host is polite, the part of
   `BacklogClears` that is not about fairness.
