----------------------------- MODULE UsbDevice -----------------------------
(***************************************************************************)
(* The USB device: control transfers (usb/Device/usbd_ctrl.c), the         *)
(* configuration (usbd.c, usbd_if.c), the report endpoints (usbd_ep.c) and *)
(* the HID class (usb/Class/HID/usbd_hid.c) over the endpoint registers    *)
(* that the driver usb/Xpd/xpd_usb.c keeps.  All of it runs in the USB     *)
(* interrupt, but for USBD_EpSend, which the task calls: interrupts come   *)
(* between its test of the endpoint, its claim, and its read and its write *)
(* of the register of the endpoint.                                        *)
(*                                                                         *)
(* Every answer of this build and every report is one packet.  The states  *)
(* of EP.IN[0] and EP.OUT[0] are left out: the code only reads the latter, *)
(* in the interrupt that has just set it.                                  *)
(***************************************************************************)
EXTENDS Naturals

CONSTANTS Iface,     \* the interfaces, each with one IN endpoint
          Request,   \* the requests of the host
          IdleRate,  \* the idle rate that hid_init sets
          Prompt     \* whether the host asks for an address only when the interrupt has
                     \*   dealt with the transfer before, as after a reset it does

GetOps == {"getDesc", "getConfig", "getStatus", "getInterface", "getReportDesc",
           "getReport", "getIdle", "getHalt"}
SetOps == {"setAddress", "setConfig", "setWakeup", "clearWakeup", "setInterface",
           "setIdle", "setReport", "setHalt", "clearHalt"}

InterfaceOps == {"getInterface", "getReportDesc", "getReport", "getIdle",
                 "setInterface", "setIdle", "setReport"}
EndpointOps == {"getHalt", "setHalt", "clearHalt"}

ASSUME UsbAssumption ==
  /\ IdleRate \in Nat /\ Prompt \in BOOLEAN
  /\ \A r \in Request : r.op \in GetOps \cup SetOps /\ r.itf \in Iface /\ r.value \in Nat

VARIABLES dev,    \* the device and the endpoint registers
          pc,     \* the task in USBD_EpSend: "idle", "claim", "read" or "write"
          target, \* the interface whose endpoint it sends on
          seen,   \* the status it has read from the register, "none" before and after
          host    \* the host: its transfer, and what it knows of the device

task == <<pc, target, seen>>
vars == <<dev, task, host>>

\* The stages of a request.  Only a report that is set comes with data from the host.
IsIn(r) == r.op \in GetOps
HasData(r) == IsIn(r) \/ r.op = "setReport"

\* What is sent to end a request that carries no answer.
Status == [op |-> "status", value |-> 0]

NoRequest == [op |-> "none", value |-> 0]
NoTransfer == [req |-> NoRequest, result |-> "none", got |-> Status]

All(s) == [i \in Iface |-> s]

Init == /\ dev = [setup |-> NoRequest, config |-> 0, wakeup |-> 0, idle |-> All(0),
                  state |-> All("closed"),   \* EP.IN[..].State
                  addr |-> 0,                \* DADDR
                  tx |-> "nak", rx |-> "valid",     \* STAT_TX, STAT_RX of endpoint 0
                  sent |-> FALSE, received |-> "none",   \* its CTR_TX, CTR_RX and SETUP
                  packet |-> NoRequest, answer |-> Status, \* its packet memory
                  stat |-> All("disabled"), done |-> All(FALSE)] \* STAT_TX, CTR_TX of the others
        /\ pc = "idle" /\ target \in Iface /\ seen = "none"
        /\ host = [stage |-> "idle", req |-> NoRequest, got |-> Status, last |-> NoTransfer,
                   addr |-> 0, fresh |-> TRUE,
                   view |-> [config |-> 0, wakeup |-> 0, idle |-> All(0)]]

-----------------------------------------------------------------------------
(* Configuration and interfaces.                                           *)

\* hid_init opens the endpoint and sets the idle rate, hid_deinit closes it.
HidInit(d, i) == [d EXCEPT !.stat[i] = "nak", !.state[i] = "idle", !.idle[i] = IdleRate]

\* Mutant: only the register of the endpoint is set up.
IfConfigHalf(d, c) ==
  IF d.config = c THEN d
  ELSE IF c = 0 THEN [d EXCEPT !.config = 0, !.stat = All("disabled"), !.state = All("closed")]
  ELSE [d EXCEPT !.config = c, !.stat = All("nak"), !.idle = All(IdleRate)]

\* USBD_IfConfig: nothing happens if the configuration stays the same.
IfConfig(d, c) ==
  IF d.config = c THEN d
  ELSE IF c = 0 THEN [d EXCEPT !.config = 0, !.stat = All("disabled"), !.state = All("closed")]
  ELSE [d EXCEPT !.config = c, !.stat = All("nak"), !.state = All("idle"), !.idle = All(IdleRate)]

\* USBD_EpRequest: halting an endpoint drops the report in it.
SetHalt(d, i) == IF d.state[i] = "stall" THEN d
                 ELSE [d EXCEPT !.stat[i] = "stall", !.state[i] = "stall"]

ClearHalt(d, i) == IF d.state[i] # "stall" THEN d
                   ELSE [d EXCEPT !.stat[i] = "nak", !.state[i] = "idle"]

-----------------------------------------------------------------------------
(* The requests.                                                           *)

\* The upper byte of wValue: the type of a report, or an idle rate.
Upper(r) == r.value \div 256

\* hid_setupStage leaves GET_REPORT to a callback of the application, and there is none.
\* A report of type 0 counts as provided, as 0 also stands for no request.
Unanswered(r) == r.op = "getReport" /\ Upper(r) = 0

HidAccepts(r) == r.op = "getReport" => Unanswered(r)

\* Mutant: the bound on the configuration is one too high.
AcceptsThree(d, r) ==
  /\ HidAccepts(r)
  /\ r.op \in InterfaceOps \cup EndpointOps => d.config # 0
  /\ r.op = "setAddress" => d.config = 0
  /\ r.op = "setConfig" => r.value <= 2
  /\ r.op = "setInterface" => r.value = 0

\* Whether a request is accepted.  An interface has one alternate setting.
Accepts(d, r) ==
  /\ HidAccepts(r)
  /\ r.op \in InterfaceOps \cup EndpointOps => d.config # 0
  /\ r.op = "setAddress" => d.config = 0
  /\ r.op = "setConfig" => r.value <= 1
  /\ r.op = "setInterface" => r.value = 0

\* An idle rate is kept if it is for all reports: the lower byte of wValue is 0.
ForAllReports(r) == r.value % 256 = 0

\* What a request does to the device.  The address waits for the end of the transfer.
Effect(d, r) ==
  CASE r.op = "setConfig" -> IfConfig(d, r.value)
    [] r.op = "setWakeup" -> [d EXCEPT !.wakeup = 1]
    [] r.op = "clearWakeup" -> [d EXCEPT !.wakeup = 0]
    [] r.op = "setInterface" -> HidInit(d, r.itf)
    [] r.op = "setIdle" /\ ForAllReports(r) -> [d EXCEPT !.idle[r.itf] = Upper(r)]
    [] r.op = "setHalt" -> SetHalt(d, r.itf)
    [] r.op = "clearHalt" -> ClearHalt(d, r.itf)
    [] OTHER -> d

\* What it is answered.  The contents of descriptors do not depend on the state.
Answer(d, r) ==
  [op |-> r.op,
   value |-> CASE r.op = "getConfig" -> d.config
               [] r.op = "getStatus" -> d.wakeup
               [] r.op = "getIdle" -> d.idle[r.itf]
               [] r.op = "getHalt" -> IF d.state[r.itf] = "stall" THEN 1 ELSE 0
               [] OTHER -> 0]

-----------------------------------------------------------------------------
(* The callbacks of endpoint 0.                                            *)

SendStatus(d) == [d EXCEPT !.tx = "valid", !.answer = Status]

\* Mutant: a request that is refused is not stalled.
SetupCallbackNoStall(d) ==
  LET r == d.setup
      e == Effect(d, r)
  IN IF ~Accepts(d, r) \/ Unanswered(r) THEN d
     ELSE IF IsIn(r) THEN [e EXCEPT !.tx = "valid", !.answer = Answer(d, r)]
     ELSE IF HasData(r) THEN [e EXCEPT !.rx = "valid"]
     ELSE SendStatus(e)

\* Mutant: the address is applied at once.
SetupCallbackAddress(d) ==
  LET r == d.setup
      e == IF r.op = "setAddress" THEN [d EXCEPT !.addr = r.value] ELSE Effect(d, r)
  IN IF ~Accepts(d, r) THEN [d EXCEPT !.tx = "stall", !.rx = "stall"]
     ELSE IF Unanswered(r) THEN d
     ELSE IF IsIn(r) THEN [e EXCEPT !.tx = "valid", !.answer = Answer(d, r)]
     ELSE IF HasData(r) THEN [e EXCEPT !.rx = "valid"]
     ELSE SendStatus(e)

\* USBD_SetupCallback: a request is refused by stalling both directions, or it is
\* carried out and its data stage, or else its status stage, begins.  A data stage is
\* left to the one who carries the request out, and for some report nobody begins it.
SetupCallback(d) ==
  LET r == d.setup
      e == Effect(d, r)
  IN IF ~Accepts(d, r) THEN [d EXCEPT !.tx = "stall", !.rx = "stall"]
     ELSE IF Unanswered(r) THEN d
     ELSE IF IsIn(r) THEN [e EXCEPT !.tx = "valid", !.answer = Answer(d, r)]
     ELSE IF HasData(r) THEN [e EXCEPT !.rx = "valid"]
     ELSE SendStatus(e)

\* USBD_CtrlInCallback goes by the latest request, whatever packet was sent.
CtrlInCallback(d) ==
  IF IsIn(d.setup) THEN [d EXCEPT !.rx = "valid"]
  ELSE IF d.setup.op = "setAddress" THEN [d EXCEPT !.addr = d.setup.value]
  ELSE d

\* USBD_CtrlOutCallback, after which the driver makes the endpoint ready to receive.
CtrlOutCallback(d) ==
  LET e == [d EXCEPT !.rx = "valid"]
  IN IF HasData(d.setup) /\ ~IsIn(d.setup) THEN SendStatus(e) ELSE e

\* One round of USB_vIRQHandler for endpoint 0: what was received is dealt with
\* first, then what was sent.
Ep0Pending(d) == d.sent \/ d.received # "none"

Ep0Received(d) ==
  CASE d.received = "setup" ->
         SetupCallback([d EXCEPT !.received = "none", !.setup = d.packet])
    [] d.received = "out" -> CtrlOutCallback([d EXCEPT !.received = "none"])
    [] OTHER -> d

Ep0Sent(d) == IF d.sent THEN CtrlInCallback([d EXCEPT !.sent = FALSE]) ELSE d

IsrEp0 == /\ Ep0Pending(dev)
          /\ dev' = LET d == Ep0Received(dev) IN Ep0Sent(d)
          /\ UNCHANGED <<task, host>>

\* A round for a report endpoint, which has less priority than endpoint 0.
IsrReport(i) == /\ dev.done[i] /\ ~Ep0Pending(dev)
                /\ dev' = [dev EXCEPT !.done[i] = FALSE, !.state[i] = "idle"]
                /\ UNCHANGED <<task, host>>

-----------------------------------------------------------------------------
(* USBD_EpSend, called by the task.                                        *)

SendTest(i) == /\ pc = "idle" /\ dev.state[i] = "idle"
               /\ pc' = "claim" /\ target' = i
               /\ UNCHANGED <<dev, seen, host>>

SendClaim == /\ pc = "claim"
             /\ dev' = [dev EXCEPT !.state[target] = "data"]
             /\ pc' = "read"
             /\ UNCHANGED <<target, seen, host>>

\* The bits of a status, STAT_TX.  A bit of the register that is written as 1 changes.
Bits(s) == CASE s = "disabled" -> {} [] s = "stall" -> {0}
             [] s = "nak" -> {1} [] s = "valid" -> {0, 1}

Status1 == {"disabled", "stall", "nak", "valid"}

Toggled(s, ones) ==
  CHOOSE t \in Status1 : Bits(t) = (Bits(s) \ ones) \cup (ones \ Bits(s))

\* USB_EP_SET_STATUS with VALID, in two steps: the register is read, and what differs
\* in it from VALID is written to be toggled, in whatever the register holds by then.
SendRead == /\ pc = "read"
            /\ seen' = dev.stat[target]
            /\ pc' = "write"
            /\ UNCHANGED <<dev, target, host>>

\* Mutant: the bits of VALID are written as they are.
SendWriteAll ==
  /\ pc = "write"
  /\ dev' = [dev EXCEPT !.stat[target] = Toggled(@, Bits("valid"))]
  /\ pc' = "idle" /\ seen' = "none"
  /\ UNCHANGED <<target, host>>

SendWrite ==
  /\ pc = "write"
  /\ dev' = [dev EXCEPT !.stat[target] = Toggled(@, Bits("valid") \ Bits(seen))]
  /\ pc' = "idle" /\ seen' = "none"
  /\ UNCHANGED <<target, host>>

-----------------------------------------------------------------------------
(* The host and the peripheral.  A packet that meets an endpoint which is  *)
(* not ready is tried again.                                               *)

\* What the host takes a request that was accepted to have done.
NewView(v, r) ==
  CASE r.op = "setConfig" ->
         IF r.value = v.config THEN v
         ELSE [v EXCEPT !.config = r.value, !.idle = All(IdleRate)]
    [] r.op = "setWakeup" -> [v EXCEPT !.wakeup = 1]
    [] r.op = "clearWakeup" -> [v EXCEPT !.wakeup = 0]
    [] r.op = "setInterface" -> [v EXCEPT !.idle[r.itf] = IdleRate]
    [] r.op = "setIdle" /\ ForAllReports(r) -> [v EXCEPT !.idle[r.itf] = Upper(r)]
    [] OTHER -> v

Finished(result) ==
  [host EXCEPT !.stage = "idle",
               !.last = [req |-> host.req, result |-> result, got |-> host.got],
               !.addr = IF result = "ok" /\ host.req.op = "setAddress" THEN host.req.value ELSE @,
               !.view = IF result = "ok" THEN NewView(@, host.req) ELSE @]

\* A set-up packet is always accepted once the one before has been read.  After a
\* reset the host waits 10 ms, in which the task gets on, and it gives the device an
\* address before it configures it.
HostSetup(r) ==
  /\ host.stage = "idle" /\ dev.addr = host.addr /\ dev.received = "none"
  /\ host.fresh => pc = "idle"
  /\ r.op = "setConfig" => host.addr # 0
  /\ Prompt /\ r.op = "setAddress" => ~Ep0Pending(dev)
  /\ dev' = [dev EXCEPT !.received = "setup", !.packet = r, !.tx = "nak", !.rx = "nak"]
  /\ host' = [host EXCEPT !.stage = IF HasData(r) THEN "data" ELSE "status",
                          !.req = r, !.got = Status, !.last = NoTransfer, !.fresh = FALSE]
  /\ UNCHANGED task

\* The host receives a packet on endpoint 0, or is stalled.
TakesIn(next) == /\ dev.tx = "valid"
                 /\ dev' = [dev EXCEPT !.tx = "nak", !.sent = TRUE]
                 /\ host' = next

\* The host sends one.
TakesOut(next) == /\ dev.rx = "valid"
                  /\ dev' = [dev EXCEPT !.rx = "nak", !.received = "out"]
                  /\ host' = next

Stalls(register) == register = "stall" /\ host' = Finished("stall") /\ UNCHANGED dev

HostData ==
  /\ host.stage = "data" /\ dev.addr = host.addr
  /\ IF IsIn(host.req)
     THEN TakesIn([host EXCEPT !.stage = "status", !.got = dev.answer]) \/ Stalls(dev.tx)
     ELSE TakesOut([host EXCEPT !.stage = "status"]) \/ Stalls(dev.rx)
  /\ UNCHANGED task

HostStatus ==
  /\ host.stage = "status" /\ dev.addr = host.addr
  /\ IF IsIn(host.req)
     THEN TakesOut(Finished("ok")) \/ Stalls(dev.rx)
     ELSE TakesIn(Finished("ok")) \/ Stalls(dev.tx)
  /\ UNCHANGED task

\* A host may give up waiting for an answer.
HostGivesUp == /\ host.stage \in {"data", "status"} /\ IsIn(host.req)
               /\ host' = [host EXCEPT !.stage = "idle", !.last = NoTransfer]
               /\ UNCHANGED <<dev, task>>

\* The report in an endpoint is fetched.
HostPoll(i) == /\ dev.config # 0 /\ dev.stat[i] = "valid" /\ ~dev.done[i]
               /\ dev' = [dev EXCEPT !.stat[i] = "nak", !.done[i] = TRUE]
               /\ UNCHANGED <<task, host>>

\* Mutant: the configuration is kept.
ResetCallbackKeeps(d) ==
  [d EXCEPT !.addr = 0, !.stat = All("disabled"), !.tx = "nak", !.rx = "valid"]

\* USBD_ResetCallback.  The peripheral disables all endpoints, USBD_IfConfig closes
\* them and endpoint 0 is opened again.
ResetCallback(d) ==
  [IfConfig(d, 0) EXCEPT !.addr = 0, !.stat = All("disabled"), !.tx = "nak", !.rx = "valid"]

\* A reset lasts longer than any interrupt: what was pending has been dealt with.
\* The remote wakeup feature stays as it is, which the host is taken to know.
HostReset == /\ ~Ep0Pending(dev) /\ \A i \in Iface : ~dev.done[i]
             /\ dev' = ResetCallback(dev)
             /\ host' = [host EXCEPT !.stage = "idle", !.last = NoTransfer, !.addr = 0,
                                     !.fresh = TRUE, !.view.config = 0,
                                     !.view.wakeup = dev.wakeup]
             /\ UNCHANGED task

-----------------------------------------------------------------------------

Send == (\E i \in Iface : SendTest(i)) \/ SendClaim \/ SendRead \/ SendWrite

Transfer == HostData \/ HostStatus

Next == \/ IsrEp0 \/ (\E i \in Iface : IsrReport(i))
        \/ Send
        \/ (\E r \in Request : HostSetup(r)) \/ Transfer \/ HostGivesUp
        \/ (\E i \in Iface : HostPoll(i)) \/ HostReset

Spec == Init /\ [][Next]_vars

\* Interrupts are served, the task runs on, and the host tries again what is not ready.
Fairness == /\ WF_vars(IsrEp0) /\ WF_vars(Transfer)
            /\ WF_vars(SendClaim \/ SendRead \/ SendWrite)
            /\ \A i \in Iface : WF_vars(HostPoll(i)) /\ SF_vars(IsrReport(i))

FairSpec == Spec /\ Fairness

-----------------------------------------------------------------------------

Requests == Request \cup {NoRequest}
Bit == 0 .. 1
Status0 == {"nak", "valid", "stall"}
Answers == [op : GetOps \cup {"status"}, value : Nat]

Device ==
  [setup : Requests, config : Bit, wakeup : Bit, idle : [Iface -> Nat],
   state : [Iface -> {"closed", "idle", "data", "stall"}], addr : Nat,
   tx : Status0, rx : Status0, sent : BOOLEAN, received : {"none", "setup", "out"},
   packet : Requests, answer : Answers,
   stat : [Iface -> Status1], done : [Iface -> BOOLEAN]]

Host ==
  [stage : {"idle", "data", "status"}, req : Requests, got : Answers,
   last : [req : Requests, result : {"none", "ok", "stall"}, got : Answers],
   addr : Nat, fresh : BOOLEAN,
   view : [config : Nat, wakeup : Bit, idle : [Iface -> Nat]]]

TypeOK == /\ dev \in Device /\ host \in Host
          /\ pc \in {"idle", "claim", "read", "write"} /\ target \in Iface
          /\ seen \in IF pc = "write" THEN Status1 ELSE {"none"}

\* The values the host expects, from the requests that the device has confirmed.
Expected(r) ==
  CASE r.op = "getConfig" -> host.view.config
    [] r.op = "getStatus" -> host.view.wakeup
    [] r.op = "getIdle" -> host.view.idle[r.itf]
    [] OTHER -> 0

\* Device and host agree: a transfer that has ended with an answer has brought that
\* to its own request and tells of all the requests confirmed before it, whatever was
\* refused, given up or reset in between (usbd_ctrl.c:69-128, usbd_if.c:35-63).  The
\* halt of an endpoint is left out: a report that completes while it is halted
\* revokes it.
AnswersMatch ==
  LET t == host.last
  IN t.result = "ok" /\ IsIn(t.req) =>
       /\ t.got.op = t.req.op
       /\ host.stage = "idle" /\ t.req.op # "getHalt" => t.got.value = Expected(t.req)

\* The address of the device changes only when the host has seen the request for it
\* confirmed: the status stage still goes to the old one (usbd.c:185-187).
AddressLast ==
  [][dev'.addr \notin {dev.addr, 0} =>
       host.stage = "idle" /\ host.last.result = "ok" /\ host.last.req.op = "setAddress"]_vars

\* Each transfer the host begins ends with an answer or a stall, also one that follows
\* a transfer given up.  The one exception is GET_REPORT of type 0, a type that HID
\* reserves, in a configuration: the device neither answers nor refuses it, and the
\* host waits until it gives up (usbd_ctrl.c:222-236, usbd_hid.c:394-406).
TransferEnds ==
  host.stage # "idle" ~> host.stage = "idle" \/ (dev.config # 0 /\ Unanswered(host.req))

\* A configuration opens every report endpoint, and while it lasts an endpoint that is
\* busy has its report in the register, to be fetched or just fetched, unless the task
\* is still about to put it there: also when resets, configurations and halts come
\* between the read and the write of that register (usbd_hid.c:277-339, xpd_usb.c:80-82
\* and 212).  Of an endpoint that is not busy the register may say anything.
ConfiguredIsOpen ==
  dev.config # 0 => \A i \in Iface :
    /\ dev.state[i] # "closed"
    /\ dev.state[i] = "data" => \/ dev.stat[i] = "valid" \/ dev.done[i]
                               \/ (pc \in {"read", "write"} /\ target = i)

\* An endpoint does not stay busy: a report it was given is fetched or dropped, so
\* that the next is accepted, whatever came between the test and the transfer of
\* USBD_EpSend (usbd_ep.c:39-56).
BusyEnds ==
  \A i \in Iface : dev.config # 0 /\ dev.state[i] = "data"
                     ~> dev.config = 0 \/ dev.state[i] # "data"
=============================================================================
