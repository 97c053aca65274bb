-------------------------- MODULE UsbDeviceProofs --------------------------
(* Theorems about UsbDevice: its type, that a configuration opens the      *)
(* endpoints, that the address of the device changes last, and that what   *)
(* it answers is true.  The device is one record that the callbacks change *)
(* field by field, so most lemmas say what one callback makes of it and    *)
(* which fields it leaves alone.                                           *)
EXTENDS UsbDevice, TLAPS

\* A set-up packet that was received is one of the host's requests.
TypeInv == TypeOK /\ (dev.received = "setup" => dev.packet \in Request)

-----------------------------------------------------------------------------
(* The operators on the device keep its type.                              *)

States == {"closed", "idle", "data", "stall"}

\* A status is told by its bits, and every change of bits leads to one.
LEMMA StatusBits ==
  /\ \A x \in SUBSET {0, 1} : \E t \in Status1 : Bits(t) = x
  /\ \A t \in Status1 : Bits(t) = {0, 1} => t = "valid"
<1>1. Bits("disabled") = {} /\ Bits("stall") = {0} /\ Bits("nak") = {1} /\ Bits("valid") = {0, 1}
  BY DEF Bits
<1>2. \A x \in SUBSET {0, 1} : x = {} \/ x = {0} \/ x = {1} \/ x = {0, 1} OBVIOUS
<1>3. \A x \in SUBSET {0, 1} : \E t \in Status1 : Bits(t) = x
  <2> SUFFICES ASSUME NEW x \in SUBSET {0, 1} PROVE \E t \in Status1 : Bits(t) = x
    OBVIOUS
  <2>1. x \in {Bits("disabled"), Bits("stall"), Bits("nak"), Bits("valid")} BY <1>1, <1>2
  <2>. QED BY <2>1 DEF Status1
<1>4. \A t \in Status1 : Bits(t) = {0, 1} => t = "valid"
  <2>1. 0 \notin {} /\ 1 \notin {0} /\ 0 \notin {1} /\ 0 \in {0, 1} /\ 1 \in {0, 1} OBVIOUS
  <2>2. \A t \in Status1 : t # "valid" => Bits(t) # {0, 1}
    <3> SUFFICES ASSUME NEW t \in Status1, t # "valid" PROVE Bits(t) # {0, 1}
      OBVIOUS
    <3>1. Bits(t) = {} \/ Bits(t) = {0} \/ Bits(t) = {1} BY <1>1 DEF Status1
    <3>. QED BY <2>1, <3>1
  <2>. QED BY <2>2
<1>. QED BY <1>3, <1>4

LEMMA ToggledStatus ==
  ASSUME NEW s \in Status1, NEW t \in Status1
  PROVE  /\ Toggled(s, Bits("valid") \ Bits(t)) \in Status1
         /\ Toggled(s, Bits("valid") \ Bits(s)) = "valid"
<1>1. \A u \in Status1 : Bits(u) \subseteq {0, 1} BY DEF Bits, Status1
<1>2. Bits("valid") = {0, 1} BY DEF Bits
<1> DEFINE Flip(u) == (Bits(s) \ (Bits("valid") \ Bits(u))) \cup ((Bits("valid") \ Bits(u)) \ Bits(s))
<1>3. ASSUME NEW u \in Status1
      PROVE  /\ Toggled(s, Bits("valid") \ Bits(u)) \in Status1
             /\ Bits(Toggled(s, Bits("valid") \ Bits(u))) = Flip(u)
  <2>1. Flip(u) \in SUBSET {0, 1} BY <1>1, <1>2
  <2>2. \E x \in Status1 : Bits(x) = Flip(u) BY <2>1, StatusBits
  <2>3. Toggled(s, Bits("valid") \ Bits(u)) = CHOOSE x \in Status1 : Bits(x) = Flip(u)
    BY DEF Toggled
  <2>. QED BY <2>2, <2>3
<1>4. Flip(s) = {0, 1} BY <1>1, <1>2
<1>. HIDE DEF Flip
<1>. QED BY <1>3, <1>4, StatusBits

LEMMA UpdateEndpoint ==
  ASSUME NEW d \in Device, NEW i \in Iface
  PROVE  /\ \A s \in States : [d EXCEPT !.state[i] = s] \in Device
         /\ \A s \in Status1 : [d EXCEPT !.stat[i] = s] \in Device
         /\ \A n \in Nat : [d EXCEPT !.idle[i] = n] \in Device
         /\ [d EXCEPT !.done[i] = FALSE] \in Device
         /\ [d EXCEPT !.done[i] = TRUE] \in Device
BY DEF Device, States, Status1

LEMMA UpdateAll ==
  ASSUME NEW d \in Device
  PROVE  /\ \A s \in States : [d EXCEPT !.state = All(s)] \in Device
         /\ \A s \in Status1 : [d EXCEPT !.stat = All(s)] \in Device
         /\ \A n \in Nat : [d EXCEPT !.idle = All(n)] \in Device
         /\ \A c \in Bit : [d EXCEPT !.config = c] \in Device
         /\ \A c \in Bit : [d EXCEPT !.wakeup = c] \in Device
BY DEF Device, States, Status1, All

LEMMA UpdateControl ==
  ASSUME NEW d \in Device
  PROVE  /\ \A s \in Status0 : [d EXCEPT !.tx = s] \in Device
         /\ \A s \in Status0 : [d EXCEPT !.rx = s] \in Device
         /\ \A b \in BOOLEAN : [d EXCEPT !.sent = b] \in Device
         /\ \A s \in {"none", "setup", "out"} : [d EXCEPT !.received = s] \in Device
         /\ \A r \in Requests : [d EXCEPT !.packet = r] \in Device
         /\ \A r \in Requests : [d EXCEPT !.setup = r] \in Device
         /\ \A a \in Answers : [d EXCEPT !.answer = a] \in Device
         /\ \A n \in Nat : [d EXCEPT !.addr = n] \in Device
BY DEF Device

LEMMA HidInitType ==
  ASSUME NEW d \in Device, NEW i \in Iface
  PROVE  HidInit(d, i) \in Device
<1> DEFINE d1 == [d EXCEPT !.stat[i] = "nak"]
           d2 == [d1 EXCEPT !.state[i] = "idle"]
<1>1. d1 \in Device BY UpdateEndpoint DEF Status1
<1>. HIDE DEF d1
<1>2. d2 \in Device BY <1>1, UpdateEndpoint DEF States
<1>. HIDE DEF d2
<1>3. [d2 EXCEPT !.idle[i] = IdleRate] \in Device BY <1>2, UpdateEndpoint, UsbAssumption
<1>. QED BY <1>3 DEF HidInit, d1, d2

LEMMA HaltType ==
  ASSUME NEW d \in Device, NEW i \in Iface
  PROVE  SetHalt(d, i) \in Device /\ ClearHalt(d, i) \in Device
<1> DEFINE d1 == [d EXCEPT !.stat[i] = "stall"]
           d2 == [d EXCEPT !.stat[i] = "nak"]
<1>1. d1 \in Device /\ d2 \in Device BY UpdateEndpoint DEF Status1
<1>. HIDE DEF d1, d2
<1>2. [d1 EXCEPT !.state[i] = "stall"] \in Device BY <1>1, UpdateEndpoint DEF States
<1>3. [d2 EXCEPT !.state[i] = "idle"] \in Device BY <1>1, UpdateEndpoint DEF States
<1>. QED BY <1>2, <1>3 DEF SetHalt, ClearHalt, d1, d2

LEMMA IfConfigType ==
  ASSUME NEW d \in Device, NEW c \in Bit
  PROVE  IfConfig(d, c) \in Device
<1> DEFINE d1 == [d EXCEPT !.config = c]
           d2(s) == [d1 EXCEPT !.stat = All(s)]
           d3 == [d2("nak") EXCEPT !.state = All("idle")]
<1>1. d1 \in Device BY UpdateAll
<1>. HIDE DEF d1
<1>2. d2("disabled") \in Device /\ d2("nak") \in Device BY <1>1, UpdateAll DEF Status1
<1>. HIDE DEF d2
<1>3. /\ [d2("disabled") EXCEPT !.state = All("closed")] \in Device
      /\ d3 \in Device
  BY <1>2, UpdateAll DEF States
<1>. HIDE DEF d3
<1>4. [d3 EXCEPT !.idle = All(IdleRate)] \in Device BY <1>3, UpdateAll, UsbAssumption
<1>. QED BY <1>3, <1>4 DEF IfConfig, d1, d2, d3

LEMMA EffectType ==
  ASSUME NEW d \in Device, NEW r \in Request, Accepts(d, r)
  PROVE  Effect(d, r) \in Device
<1>. r.itf \in Iface /\ r.value \in Nat BY UsbAssumption
<1>1. CASE r.op = "setConfig"
  <2>1. r.value \in Bit BY <1>1 DEF Accepts, Bit
  <2>. QED BY <1>1, <2>1, IfConfigType DEF Effect
<1>2. CASE r.op \in {"setWakeup", "clearWakeup"}
  <2>1. 0 \in Bit /\ 1 \in Bit BY DEF Bit
  <2>2. [d EXCEPT !.wakeup = 1] \in Device /\ [d EXCEPT !.wakeup = 0] \in Device
    BY <2>1, UpdateAll
  <2>. QED BY <1>2, <2>2 DEF Effect
<1>3. CASE r.op = "setInterface" BY <1>3, HidInitType DEF Effect
<1>4. CASE r.op = "setIdle"
  <2>1. Upper(r) \in Nat BY DEF Upper
  <2>2. [d EXCEPT !.idle[r.itf] = Upper(r)] \in Device BY <2>1, UpdateEndpoint
  <2>. QED BY <1>4, <2>2 DEF Effect
<1>5. CASE r.op \in {"setHalt", "clearHalt"} BY <1>5, HaltType DEF Effect
<1>6. CASE r.op \notin {"setConfig", "setWakeup", "clearWakeup", "setInterface", "setIdle",
                        "setHalt", "clearHalt"} BY <1>6 DEF Effect
<1>. QED BY <1>1, <1>2, <1>3, <1>4, <1>5, <1>6

\* What a request leaves alone: the control endpoint and the address.
SameControl(d, e) ==
  /\ e.setup = d.setup /\ e.packet = d.packet /\ e.received = d.received
  /\ e.sent = d.sent /\ e.tx = d.tx /\ e.addr = d.addr

LEMMA EffectLeavesControl ==
  ASSUME NEW d \in Device, NEW r \in Request
  PROVE  SameControl(d, Effect(d, r))
<1>1. \A c : SameControl(d, IfConfig(d, c)) BY DEF IfConfig, SameControl, Device
<1>2. \A i : SameControl(d, HidInit(d, i)) BY DEF HidInit, SameControl, Device
<1>3. \A i : SameControl(d, SetHalt(d, i)) BY DEF SetHalt, SameControl, Device
<1>4. \A i : SameControl(d, ClearHalt(d, i)) BY DEF ClearHalt, SameControl, Device
<1>5. CASE r.op = "setConfig" BY <1>1, <1>5 DEF Effect
<1>6. CASE r.op \in {"setWakeup", "clearWakeup", "setIdle"}
  BY <1>6 DEF Effect, SameControl, Device
<1>7. CASE r.op = "setInterface" BY <1>2, <1>7 DEF Effect
<1>8. CASE r.op \in {"setHalt", "clearHalt"} BY <1>3, <1>4, <1>8 DEF Effect
<1>9. CASE r.op \notin {"setConfig", "setWakeup", "clearWakeup", "setInterface", "setIdle",
                        "setHalt", "clearHalt"} BY <1>9 DEF Effect, SameControl
<1>. QED BY <1>5, <1>6, <1>7, <1>8, <1>9

LEMMA AnswerType ==
  ASSUME NEW d \in Device, NEW r \in Request, IsIn(r)
  PROVE  Answer(d, r) \in Answers
<1>. r.itf \in Iface BY UsbAssumption
<1>1. /\ d.config \in Nat /\ d.wakeup \in Nat /\ d.idle[r.itf] \in Nat
      /\ r.op \in GetOps \cup {"status"}
  BY DEF Device, Bit, IsIn
<1>. QED BY <1>1 DEF Answer, Answers

LEMMA SendStatusType ==
  ASSUME NEW d \in Device
  PROVE  SendStatus(d) \in Device
<1> DEFINE d1 == [d EXCEPT !.tx = "valid"]
<1>1. d1 \in Device BY UpdateControl DEF Status0
<1>2. Status \in Answers BY DEF Status, Answers
<1>. HIDE DEF d1
<1>3. [d1 EXCEPT !.answer = Status] \in Device BY <1>1, <1>2, UpdateControl
<1>. QED BY <1>3 DEF SendStatus, d1

LEMMA SetupType ==
  ASSUME NEW d \in Device, d.setup \in Request
  PROVE  SetupCallback(d) \in Device
<1> DEFINE r == d.setup
           e == Effect(d, r)
           d1 == [d EXCEPT !.tx = "stall"]
           e1 == [e EXCEPT !.tx = "valid"]
<1>. "valid" \in Status0 /\ "stall" \in Status0 BY DEF Status0
<1>1. CASE ~Accepts(d, r)
  <2>1. d1 \in Device BY UpdateControl
  <2>. HIDE DEF d1
  <2>2. [d1 EXCEPT !.rx = "stall"] \in Device BY <2>1, UpdateControl
  <2>. QED BY <1>1, <2>2 DEF SetupCallback, d1
<1>2. CASE Accepts(d, r)
  <2>1. e \in Device BY <1>2, EffectType
  <2>. HIDE DEF e
  <2>2. e1 \in Device /\ [e EXCEPT !.rx = "valid"] \in Device BY <2>1, UpdateControl
  <2>5. CASE Unanswered(r) BY <1>2, <2>5 DEF SetupCallback
  <2>3. CASE ~Unanswered(r) /\ IsIn(r)
    <3>1. Answer(d, r) \in Answers BY <2>3, AnswerType
    <3>. HIDE DEF e1
    <3>2. [e1 EXCEPT !.answer = Answer(d, r)] \in Device BY <2>2, <3>1, UpdateControl
    <3>. QED BY <1>2, <2>3, <3>2 DEF SetupCallback, e, e1
  <2>4. CASE ~Unanswered(r) /\ ~IsIn(r)
    <3>1. SendStatus(e) \in Device BY <2>1, SendStatusType
    <3>. QED BY <1>2, <2>2, <2>4, <3>1 DEF SetupCallback, e
  <2>. QED BY <2>3, <2>4, <2>5
<1>. QED BY <1>1, <1>2

LEMMA OutType ==
  ASSUME NEW d \in Device
  PROVE  CtrlOutCallback(d) \in Device
<1> DEFINE e == [d EXCEPT !.rx = "valid"]
<1>1. e \in Device BY UpdateControl DEF Status0
<1>2. SendStatus(e) \in Device BY <1>1, SendStatusType
<1>. QED BY <1>1, <1>2 DEF CtrlOutCallback

LEMMA InType ==
  ASSUME NEW d \in Device, d.setup \in Request \/ d.setup = NoRequest
  PROVE  CtrlInCallback(d) \in Device
<1>1. [d EXCEPT !.rx = "valid"] \in Device BY UpdateControl DEF Status0
<1>2. CASE d.setup \in Request
  <2>1. d.setup.value \in Nat BY <1>2, UsbAssumption
  <2>2. [d EXCEPT !.addr = d.setup.value] \in Device BY <2>1, UpdateControl
  <2>. QED BY <1>1, <2>2 DEF CtrlInCallback
<1>3. CASE d.setup = NoRequest
  <2>1. d.setup.op = "none" BY <1>3 DEF NoRequest
  <2>. QED BY <1>1, <2>1 DEF CtrlInCallback
<1>. QED BY <1>2, <1>3

-----------------------------------------------------------------------------
(* What the callbacks leave alone.                                         *)

SameRequest(d, e) ==
  e.setup = d.setup /\ e.packet = d.packet /\ e.received = d.received /\ e.sent = d.sent

LEMMA SetupLeaves ==
  ASSUME NEW d \in Device, d.setup \in Request
  PROVE  SameRequest(d, SetupCallback(d)) /\ SetupCallback(d).addr = d.addr
<1> DEFINE r == d.setup
           e == Effect(d, r)
<1>1. CASE ~Accepts(d, r) BY <1>1 DEF SetupCallback, SameRequest, Device
<1>2. CASE Accepts(d, r)
  <2>1. e \in Device BY <1>2, EffectType
  <2>2. SameRequest(d, e) /\ e.addr = d.addr
    BY EffectLeavesControl DEF SameControl, SameRequest
  <2>. HIDE DEF e
  <2>6. CASE Unanswered(r) BY <1>2, <2>6 DEF SetupCallback, SameRequest
  <2>3. CASE ~Unanswered(r) /\ IsIn(r)
    <3>1. SetupCallback(d) = [e EXCEPT !.tx = "valid", !.answer = Answer(d, r)]
      BY <1>2, <2>3 DEF SetupCallback, e
    <3>. QED BY <2>1, <2>2, <3>1 DEF SameRequest, Device
  <2>4. CASE ~Unanswered(r) /\ ~IsIn(r) /\ HasData(r)
    <3>1. SetupCallback(d) = [e EXCEPT !.rx = "valid"]
      BY <1>2, <2>4 DEF SetupCallback, e
    <3>. QED BY <2>1, <2>2, <3>1 DEF SameRequest, Device
  <2>5. CASE ~Unanswered(r) /\ ~IsIn(r) /\ ~HasData(r)
    <3>1. SetupCallback(d) = SendStatus(e) BY <1>2, <2>5 DEF SetupCallback, e
    <3>. QED BY <2>1, <2>2, <3>1 DEF SendStatus, SameRequest, Device
  <2>. QED BY <2>3, <2>4, <2>5, <2>6
<1>. QED BY <1>1, <1>2

LEMMA OutLeaves ==
  ASSUME NEW d \in Device
  PROVE  SameRequest(d, CtrlOutCallback(d)) /\ CtrlOutCallback(d).addr = d.addr
BY DEF CtrlOutCallback, SendStatus, SameRequest, Device

LEMMA InLeaves ==
  ASSUME NEW d \in Device
  PROVE  /\ SameRequest(d, CtrlInCallback(d))
         /\ CtrlInCallback(d).addr # d.addr => ~IsIn(d.setup) /\ d.setup.op = "setAddress"
BY DEF CtrlInCallback, SameRequest, Device

\* One round for endpoint 0.
Round(d) == Ep0Sent(Ep0Received(d))

LEMMA ReceivedStep ==
  ASSUME NEW d \in Device, d.received = "setup" => d.packet \in Request
  PROVE  /\ Ep0Received(d) \in Device
         /\ Ep0Received(d).received = "none"
         /\ Ep0Received(d).sent = d.sent /\ Ep0Received(d).addr = d.addr
         /\ Ep0Received(d).setup = IF d.received = "setup" THEN d.packet ELSE d.setup
<1> DEFINE d1 == [d EXCEPT !.received = "none"]
           d2 == [d1 EXCEPT !.setup = d.packet]
<1>1. d1 \in Device BY UpdateControl
<1>2. /\ d1.received = "none" /\ d1.sent = d.sent /\ d1.addr = d.addr /\ d1.setup = d.setup
  BY DEF Device
<1>. HIDE DEF d1
<1>3. CASE d.received = "setup"
  <2>1. d.packet \in Requests BY DEF Device
  <2>2. d2 \in Device BY <1>1, <2>1, UpdateControl
  <2>3. d2.received = "none" /\ d2.sent = d.sent /\ d2.addr = d.addr /\ d2.setup = d.packet
    BY <1>1, <1>2 DEF Device
  <2>4. Ep0Received(d) = SetupCallback(d2) BY <1>3 DEF Ep0Received, d1
  <2>. HIDE DEF d2
  <2>. QED BY <1>3, <2>2, <2>3, <2>4, SetupType, SetupLeaves DEF SameRequest
<1>4. CASE d.received = "out"
  <2>1. Ep0Received(d) = CtrlOutCallback(d1) BY <1>4 DEF Ep0Received, d1
  <2>. QED BY <1>1, <1>2, <1>4, <2>1, OutType, OutLeaves DEF SameRequest
<1>5. CASE d.received = "none"
  <2>1. Ep0Received(d) = d BY <1>5 DEF Ep0Received
  <2>. QED BY <1>5, <2>1
<1>6. d.received \in {"none", "setup", "out"} BY DEF Device
<1>. QED BY <1>3, <1>4, <1>5, <1>6

LEMMA RoundStep ==
  ASSUME NEW d \in Device, d.received = "setup" => d.packet \in Request
  PROVE  /\ Round(d) \in Device
         /\ Round(d).received = "none" /\ Round(d).sent = FALSE
         /\ Round(d).setup = IF d.received = "setup" THEN d.packet ELSE d.setup
         /\ Round(d).addr # d.addr =>
              d.sent /\ ~IsIn(Round(d).setup) /\ Round(d).setup.op = "setAddress"
<1> DEFINE e == Ep0Received(d)
           e1 == [e EXCEPT !.sent = FALSE]
<1>1. /\ e \in Device /\ e.received = "none" /\ e.sent = d.sent /\ e.addr = d.addr
      /\ e.setup = IF d.received = "setup" THEN d.packet ELSE d.setup
  BY ReceivedStep
<1>2. Round(d) = IF e.sent THEN CtrlInCallback(e1) ELSE e BY DEF Round, Ep0Sent
<1>. HIDE DEF e
<1>3. CASE ~d.sent BY <1>1, <1>2, <1>3 DEF Device
<1>4. CASE d.sent
  <2>1. e1 \in Device BY <1>1, UpdateControl
  <2>2. /\ e1.received = "none" /\ e1.sent = FALSE /\ e1.addr = e.addr /\ e1.setup = e.setup
    BY <1>1 DEF Device
  <2>3. Round(d) = CtrlInCallback(e1) BY <1>1, <1>2, <1>4
  <2>. HIDE DEF e1
  <2>4. e1.setup \in Request \/ e1.setup = NoRequest BY <2>1 DEF Device, Requests
  <2>5. Round(d) \in Device BY <2>1, <2>3, <2>4, InType
  <2>. QED BY <1>1, <1>4, <2>1, <2>2, <2>3, <2>5, InLeaves DEF SameRequest
<1>5. d.sent \in BOOLEAN BY DEF Device
<1>. QED BY <1>3, <1>4, <1>5

-----------------------------------------------------------------------------
(* Endpoints are open in a configuration.                                  *)

\* A change of the device that opens endpoints, lets go of reports or leaves things as
\* they are.
KeepsOpen(d, e) ==
  e.config # 0 => \A i \in Iface :
    \/ e.state[i] \notin {"closed", "data"}
    \/ d.config # 0 /\ e.state[i] = d.state[i] /\ e.stat[i] = d.stat[i] /\ e.done[i] = d.done[i]

SameEndpoints(d, e) ==
  e.config = d.config /\ e.state = d.state /\ e.stat = d.stat /\ e.done = d.done

LEMMA EffectOpens ==
  ASSUME NEW d \in Device, NEW r \in Request
  PROVE  KeepsOpen(d, Effect(d, r))
<1>1. \A c : KeepsOpen(d, IfConfig(d, c)) BY DEF IfConfig, KeepsOpen, All, Device
<1>2. \A i : KeepsOpen(d, HidInit(d, i)) BY DEF HidInit, KeepsOpen, Device
<1>3. \A i : KeepsOpen(d, SetHalt(d, i)) BY DEF SetHalt, KeepsOpen, Device
<1>4. \A i : KeepsOpen(d, ClearHalt(d, i)) BY DEF ClearHalt, KeepsOpen, Device
<1>5. CASE r.op = "setConfig" BY <1>1, <1>5 DEF Effect
<1>6. CASE r.op \in {"setWakeup", "clearWakeup", "setIdle"}
  BY <1>6 DEF Effect, KeepsOpen, Device
<1>7. CASE r.op = "setInterface" BY <1>2, <1>7 DEF Effect
<1>8. CASE r.op \in {"setHalt", "clearHalt"} BY <1>3, <1>4, <1>8 DEF Effect
<1>9. CASE r.op \notin {"setConfig", "setWakeup", "clearWakeup", "setInterface", "setIdle",
                        "setHalt", "clearHalt"} BY <1>9 DEF Effect, KeepsOpen
<1>. QED BY <1>5, <1>6, <1>7, <1>8, <1>9

LEMMA SetupOpens ==
  ASSUME NEW d \in Device, d.setup \in Request
  PROVE  KeepsOpen(d, SetupCallback(d))
<1> DEFINE r == d.setup
           e == Effect(d, r)
<1>1. CASE ~Accepts(d, r) \/ Unanswered(r)
  <2>1. SameEndpoints(d, SetupCallback(d)) BY <1>1 DEF SetupCallback, SameEndpoints, Device
  <2>. QED BY <2>1 DEF SameEndpoints, KeepsOpen
<1>2. CASE Accepts(d, r) /\ ~Unanswered(r)
  <2>1. e \in Device /\ KeepsOpen(d, e) BY <1>2, EffectType, EffectOpens
  <2>. HIDE DEF e
  <2>2. \A x : SameEndpoints(e, [e EXCEPT !.tx = "valid", !.answer = x])
    BY <2>1 DEF SameEndpoints, Device
  <2>3. SameEndpoints(e, [e EXCEPT !.rx = "valid"]) BY <2>1 DEF SameEndpoints, Device
  <2>4. SameEndpoints(e, SendStatus(e)) BY <2>2 DEF SendStatus
  <2>5. SameEndpoints(e, SetupCallback(d)) BY <1>2, <2>2, <2>3, <2>4 DEF SetupCallback, e
  <2>. QED BY <2>1, <2>5 DEF SameEndpoints, KeepsOpen
<1>. QED BY <1>1, <1>2

LEMMA RoundOpens ==
  ASSUME NEW d \in Device, d.received = "setup" => d.packet \in Request
  PROVE  KeepsOpen(d, Round(d))
<1> DEFINE d1 == [d EXCEPT !.received = "none"]
           d2 == [d1 EXCEPT !.setup = d.packet]
           e == Ep0Received(d)
           e1 == [e EXCEPT !.sent = FALSE]
<1>0. d1 \in Device BY UpdateControl
<1>1. SameEndpoints(d, d1) BY DEF SameEndpoints, Device
<1>. HIDE DEF d1
<1>2. KeepsOpen(d, e)
  <2>1. CASE d.received = "setup"
    <3>1. d.packet \in Requests BY DEF Device
    <3>2. d2 \in Device BY <1>0, <3>1, UpdateControl
    <3>3. d2.setup = d.packet /\ SameEndpoints(d, d2) BY <1>0, <1>1 DEF SameEndpoints, Device
    <3>4. e = SetupCallback(d2) BY <2>1 DEF Ep0Received, d1
    <3>. HIDE DEF d2, e
    <3>. QED BY <2>1, <3>2, <3>3, <3>4, SetupOpens DEF SameEndpoints, KeepsOpen
  <2>2. CASE d.received = "out"
    <3>1. e = CtrlOutCallback(d1) BY <2>2 DEF Ep0Received, d1
    <3>2. SameEndpoints(d1, CtrlOutCallback(d1))
      BY <1>0 DEF CtrlOutCallback, SendStatus, SameEndpoints, Device
    <3>. HIDE DEF e
    <3>. QED BY <1>1, <3>1, <3>2 DEF SameEndpoints, KeepsOpen
  <2>3. CASE d.received \notin {"setup", "out"} BY <2>3 DEF Ep0Received, KeepsOpen
  <2>. QED BY <2>1, <2>2, <2>3
<1>3. e \in Device BY ReceivedStep
<1>4. Round(d) = IF e.sent THEN CtrlInCallback(e1) ELSE e BY DEF Round, Ep0Sent
<1>. HIDE DEF e
<1>5. e1 \in Device BY <1>3, UpdateControl
<1>6. SameEndpoints(e, e1) BY <1>3 DEF SameEndpoints, Device
<1>. HIDE DEF e1
<1>7. SameEndpoints(e1, CtrlInCallback(e1)) BY <1>5 DEF CtrlInCallback, SameEndpoints, Device
<1>8. Round(d) = e \/ SameEndpoints(e, Round(d)) BY <1>4, <1>6, <1>7 DEF SameEndpoints
<1>9. CASE Round(d) = e BY <1>2, <1>9
<1>10. CASE SameEndpoints(e, Round(d)) BY <1>2, <1>10 DEF SameEndpoints, KeepsOpen
<1>. QED BY <1>8, <1>9, <1>10

-----------------------------------------------------------------------------
(* Type correctness.                                                       *)

LEMMA ResetType ==
  ASSUME NEW d \in Device
  PROVE  ResetCallback(d) \in Device
<1> DEFINE d0 == IfConfig(d, 0)
           d1 == [d0 EXCEPT !.addr = 0]
           d2 == [d1 EXCEPT !.stat = All("disabled")]
           d3 == [d2 EXCEPT !.tx = "nak"]
<1>1. 0 \in Bit BY DEF Bit
<1>2. d0 \in Device BY <1>1, IfConfigType
<1>. HIDE DEF d0
<1>3. d1 \in Device BY <1>2, UpdateControl
<1>. HIDE DEF d1
<1>4. d2 \in Device BY <1>3, UpdateAll DEF Status1
<1>. HIDE DEF d2
<1>5. d3 \in Device BY <1>4, UpdateControl DEF Status0
<1>. HIDE DEF d3
<1>6. [d3 EXCEPT !.rx = "valid"] \in Device BY <1>5, UpdateControl DEF Status0
<1>. QED BY <1>6 DEF ResetCallback, d0, d1, d2, d3

LEMMA ResetDropsPending ==
  ASSUME TypeOK, HostReset
  PROVE  dev'.received = "none" /\ ~dev'.sent /\ dev'.config = 0 /\ dev'.wakeup = dev.wakeup
<1>. dev \in Device BY DEF TypeOK
<1>1. 0 \in Bit BY DEF Bit
<1>2. IfConfig(dev, 0) \in Device BY <1>1, IfConfigType
<1>3. /\ IfConfig(dev, 0).received = dev.received /\ IfConfig(dev, 0).sent = dev.sent
      /\ IfConfig(dev, 0).config = 0 /\ IfConfig(dev, 0).wakeup = dev.wakeup
  BY DEF IfConfig, Device
<1>4. dev.received = "none" /\ ~dev.sent BY DEF HostReset, Ep0Pending
<1>. QED BY <1>2, <1>3, <1>4 DEF HostReset, ResetCallback, Device

View == [config : Nat, wakeup : Bit, idle : [Iface -> Nat]]

LEMMA NewViewType ==
  ASSUME NEW v \in View, NEW r \in Request
  PROVE  NewView(v, r) \in View
<1>. r.itf \in Iface /\ r.value \in Nat /\ IdleRate \in Nat BY UsbAssumption
<1>1. CASE r.op = "setConfig"
  <2>1. NewView(v, r) = IF r.value = v.config THEN v
                        ELSE [v EXCEPT !.config = r.value, !.idle = All(IdleRate)]
    BY <1>1 DEF NewView
  <2>2. [v EXCEPT !.config = r.value, !.idle = All(IdleRate)] \in View BY DEF View, All
  <2>. QED BY <2>1, <2>2
<1>2. CASE r.op = "setWakeup"
  <2>1. NewView(v, r) = [v EXCEPT !.wakeup = 1] BY <1>2 DEF NewView
  <2>. QED BY <2>1 DEF View, Bit
<1>3. CASE r.op = "clearWakeup"
  <2>1. NewView(v, r) = [v EXCEPT !.wakeup = 0] BY <1>3 DEF NewView
  <2>. QED BY <2>1 DEF View, Bit
<1>4. CASE r.op = "setInterface"
  <2>1. NewView(v, r) = [v EXCEPT !.idle[r.itf] = IdleRate] BY <1>4 DEF NewView
  <2>. QED BY <2>1 DEF View
<1>5. CASE r.op = "setIdle"
  <2>1. Upper(r) \in Nat BY DEF Upper
  <2>2. NewView(v, r) = [v EXCEPT !.idle[r.itf] = Upper(r)] \/ NewView(v, r) = v
    BY <1>5 DEF NewView
  <2>3. [v EXCEPT !.idle[r.itf] = Upper(r)] \in View BY <2>1 DEF View
  <2>. QED BY <2>2, <2>3
<1>6. CASE r.op \notin {"setConfig", "setWakeup", "clearWakeup", "setInterface", "setIdle"}
  BY <1>6 DEF NewView
<1>. QED BY <1>1, <1>2, <1>3, <1>4, <1>5, <1>6

LEMMA FinishedType ==
  ASSUME host \in Host, NEW result \in {"ok", "stall"}
  PROVE  Finished(result) \in Host
<1> DEFINE last == [req |-> host.req, result |-> result, got |-> host.got]
           addr == IF result = "ok" /\ host.req.op = "setAddress" THEN host.req.value ELSE host.addr
           view == IF result = "ok" THEN NewView(host.view, host.req) ELSE host.view
<1>1. host.req \in Request \/ host.req = NoRequest BY DEF Host, Requests
<1>2. addr \in Nat
  <2>1. CASE host.req \in Request BY <2>1, UsbAssumption DEF Host
  <2>2. CASE host.req = NoRequest BY <2>2 DEF Host, NoRequest
  <2>. QED BY <1>1, <2>1, <2>2
<1>3. view \in View
  <2>1. host.view \in View BY DEF Host, View
  <2>2. CASE host.req \in Request BY <2>1, <2>2, NewViewType
  <2>3. CASE host.req = NoRequest BY <2>1, <2>3 DEF NewView, NoRequest
  <2>. QED BY <1>1, <2>1, <2>2, <2>3
<1>4. last \in [req : Requests, result : {"none", "ok", "stall"}, got : Answers] BY DEF Host
<1>5. Finished(result) = [host EXCEPT !.stage = "idle", !.last = last, !.addr = addr, !.view = view]
  BY DEF Finished
<1>. HIDE DEF last, addr, view
<1>. QED BY <1>2, <1>3, <1>4, <1>5 DEF Host, View

LEMMA NoTransferType ==
  NoTransfer \in [req : Requests, result : {"none", "ok", "stall"}, got : Answers]
BY DEF NoTransfer, NoRequest, Requests, Status, Answers

LEMMA InitTyped == Init => TypeInv
BY UsbAssumption
   DEF Init, TypeInv, TypeOK, Device, Host, All, Requests, Answers, Bit, Status0, Status1,
       NoRequest, NoTransfer, Status

LEMMA IsrTyped == TypeInv /\ (IsrEp0 \/ \E i \in Iface : IsrReport(i)) => TypeInv'
<1> SUFFICES ASSUME TypeInv, IsrEp0 \/ \E i \in Iface : IsrReport(i) PROVE TypeInv'
  OBVIOUS
<1>. USE DEF TypeInv, TypeOK, task
<1>1. CASE IsrEp0
  <2>1. dev' = Round(dev) /\ UNCHANGED <<task, host>> BY <1>1 DEF IsrEp0, Round
  <2>2. dev' \in Device /\ dev'.received = "none" BY <2>1, RoundStep
  <2>. QED BY <2>1, <2>2
<1>2. ASSUME NEW i \in Iface, IsrReport(i) PROVE TypeInv'
  <2> DEFINE d1 == [dev EXCEPT !.done[i] = FALSE]
  <2>1. d1 \in Device /\ d1.received = dev.received /\ d1.packet = dev.packet
    <3>1. d1 \in Device BY UpdateEndpoint
    <3>. QED BY <3>1 DEF Device
  <2>2. dev' = [d1 EXCEPT !.state[i] = "idle"] BY <1>2 DEF IsrReport
  <2>. HIDE DEF d1
  <2>3. dev' \in Device BY <2>1, <2>2, UpdateEndpoint DEF States
  <2>4. dev'.received = dev.received /\ dev'.packet = dev.packet
    BY <2>1, <2>2 DEF Device
  <2>. QED BY <1>2, <2>3, <2>4 DEF IsrReport
<1>. QED BY <1>1, <1>2

LEMMA SendTyped == TypeInv /\ Send => TypeInv'
<1> SUFFICES ASSUME TypeInv, Send PROVE TypeInv'
  OBVIOUS
<1>. USE DEF TypeInv, TypeOK, task
<1>1. ASSUME NEW i \in Iface, SendTest(i) PROVE TypeInv' BY <1>1 DEF SendTest
<1>2. CASE SendClaim
  <2>1. dev' \in Device BY <1>2, UpdateEndpoint DEF SendClaim, States
  <2>2. dev'.received = dev.received /\ dev'.packet = dev.packet
    BY <1>2 DEF SendClaim, Device
  <2>. QED BY <1>2, <2>1, <2>2 DEF SendClaim
<1>3. CASE SendRead
  <2>1. dev.stat[target] \in Status1 BY DEF Device
  <2>. QED BY <1>3, <2>1 DEF SendRead
<1>4. CASE SendWrite
  <2> DEFINE s == Toggled(dev.stat[target], Bits("valid") \ Bits(seen))
  <2>1. dev.stat[target] \in Status1 /\ seen \in Status1 BY <1>4 DEF Device, SendWrite
  <2>2. s \in Status1 BY <2>1, ToggledStatus
  <2>3. dev' = [dev EXCEPT !.stat[target] = s] BY <1>4 DEF SendWrite, Device
  <2>. HIDE DEF s
  <2>4. dev' \in Device BY <2>2, <2>3, UpdateEndpoint
  <2>5. dev'.received = dev.received /\ dev'.packet = dev.packet BY <2>3 DEF Device
  <2>. QED BY <1>4, <2>4, <2>5 DEF SendWrite
<1>. QED BY <1>1, <1>2, <1>3, <1>4 DEF Send

LEMMA SetupTyped == ASSUME TypeInv, NEW r \in Request, HostSetup(r) PROVE TypeInv'
<1>. USE DEF TypeInv, TypeOK, task
<1> DEFINE d1 == [dev EXCEPT !.received = "setup"]
           d2 == [d1 EXCEPT !.packet = r]
           d3 == [d2 EXCEPT !.tx = "nak"]
<1>. r \in Requests BY DEF Requests
<1>1. d1 \in Device BY UpdateControl
<1>. HIDE DEF d1
<1>2. d2 \in Device /\ d2.packet = r
  <2>1. d2 \in Device BY <1>1, UpdateControl
  <2>. QED BY <1>1, <2>1 DEF Device
<1>. HIDE DEF d2
<1>3. d3 \in Device /\ d3.packet = r
  <2>1. d3 \in Device BY <1>2, UpdateControl DEF Status0
  <2>. QED BY <1>2, <2>1 DEF Device
<1>. HIDE DEF d3
<1>4. dev' = [d3 EXCEPT !.rx = "nak"] BY DEF HostSetup, d1, d2, d3
<1>5. dev' \in Device BY <1>3, <1>4, UpdateControl DEF Status0
<1>6. dev'.packet = r BY <1>3, <1>4 DEF Device
<1>7. host' \in Host BY NoTransferType DEF HostSetup, Host, Requests, Status, Answers
<1>. QED BY <1>5, <1>6, <1>7 DEF HostSetup

LEMMA TransferTyped == ASSUME TypeInv, Transfer PROVE TypeInv'
<1>. USE DEF TypeInv, TypeOK, task
<1>1. ASSUME NEW next \in Host, TakesIn(next) PROVE dev' \in Device /\ host' \in Host /\ dev'.received = dev.received /\ dev'.packet = dev.packet
  <2> DEFINE d1 == [dev EXCEPT !.tx = "nak"]
  <2>1. d1 \in Device BY UpdateControl DEF Status0
  <2>2. d1.received = dev.received /\ d1.packet = dev.packet BY DEF Device
  <2>3. dev' = [d1 EXCEPT !.sent = TRUE] BY <1>1 DEF TakesIn
  <2>. HIDE DEF d1
  <2>4. dev' \in Device BY <2>1, <2>3, UpdateControl
  <2>. QED BY <1>1, <2>1, <2>2, <2>3, <2>4 DEF TakesIn, Device
<1>2. ASSUME NEW next \in Host, TakesOut(next) PROVE dev' \in Device /\ host' \in Host /\ dev'.received = "out"
  <2> DEFINE d1 == [dev EXCEPT !.rx = "nak"]
  <2>1. d1 \in Device BY UpdateControl DEF Status0
  <2>3. dev' = [d1 EXCEPT !.received = "out"] BY <1>2 DEF TakesOut
  <2>. HIDE DEF d1
  <2>4. dev' \in Device BY <2>1, <2>3, UpdateControl
  <2>. QED BY <1>2, <2>1, <2>3, <2>4 DEF TakesOut, Device
<1>3. ASSUME NEW s, Stalls(s) PROVE dev' = dev /\ host' \in Host
  BY <1>3, FinishedType DEF Stalls
<1>4. Finished("ok") \in Host BY FinishedType
<1>5. CASE HostData
  <2>1. [host EXCEPT !.stage = "status", !.got = dev.answer] \in Host BY DEF Host, Device
  <2>2. [host EXCEPT !.stage = "status"] \in Host BY DEF Host
  <2>. QED BY <1>1, <1>2, <1>3, <1>5, <2>1, <2>2 DEF HostData
<1>6. CASE HostStatus BY <1>1, <1>2, <1>3, <1>4, <1>6 DEF HostStatus
<1>. QED BY <1>5, <1>6 DEF Transfer

LEMMA ResetTyped == ASSUME TypeInv, HostReset PROVE TypeInv'
<1>. USE DEF TypeInv, TypeOK, task
<1>1. dev' \in Device BY ResetType DEF HostReset
<1>2. dev'.received # "setup"
  <2>1. 0 \in Bit BY DEF Bit
  <2>2. IfConfig(dev, 0) \in Device BY <2>1, IfConfigType
  <2>3. IfConfig(dev, 0).received = dev.received BY DEF IfConfig, Device
  <2>4. dev.received = "none" BY DEF HostReset, Ep0Pending
  <2>. QED BY <2>2, <2>3, <2>4 DEF HostReset, ResetCallback, Device
<1>3. host' \in Host
  <2> DEFINE h == [host EXCEPT !.stage = "idle", !.last = NoTransfer, !.addr = 0, !.fresh = TRUE]
             h1 == [h EXCEPT !.view.config = 0]
  <2>2. h \in Host BY NoTransferType DEF Host
  <2>. HIDE DEF h
  <2>3. h1 \in Host BY <2>2 DEF Host
  <2>. HIDE DEF h1
  <2>4. dev.wakeup \in Bit BY DEF Device
  <2>5. [h1 EXCEPT !.view.wakeup = dev.wakeup] \in Host BY <2>3, <2>4 DEF Host
  <2>. QED BY <2>5 DEF HostReset, h, h1
<1>. QED BY <1>1, <1>2, <1>3 DEF HostReset

LEMMA TypeStep == TypeInv /\ [Next]_vars => TypeInv'
<1> SUFFICES ASSUME TypeInv, [Next]_vars PROVE TypeInv'
  OBVIOUS
<1>1. ASSUME NEW i \in Iface, HostPoll(i) PROVE TypeInv'
  <2> DEFINE d1 == [dev EXCEPT !.stat[i] = "nak"]
  <2>1. d1 \in Device BY UpdateEndpoint DEF Status1, TypeInv, TypeOK
  <2>2. d1.received = dev.received /\ d1.packet = dev.packet BY DEF Device, TypeInv, TypeOK
  <2>3. dev' = [d1 EXCEPT !.done[i] = TRUE] BY <1>1 DEF HostPoll
  <2>. HIDE DEF d1
  <2>4. dev' \in Device BY <2>1, <2>3, UpdateEndpoint
  <2>5. dev'.received = dev.received /\ dev'.packet = dev.packet
    BY <2>1, <2>2, <2>3 DEF Device
  <2>. QED BY <1>1, <2>4, <2>5 DEF HostPoll, TypeInv, TypeOK, task
<1>2. CASE HostGivesUp
  <2>. QED BY <1>2, NoTransferType DEF HostGivesUp, Host, TypeInv, TypeOK, task
<1>3. CASE UNCHANGED vars BY <1>3 DEF vars, task, TypeInv, TypeOK
<1>. QED
  BY <1>1, <1>2, <1>3, IsrTyped, SendTyped, SetupTyped, TransferTyped, ResetTyped DEF Next

\* The device, the endpoint registers, the task and the host keep their types under
\* every sequence of requests, interrupts, reports and resets: the configuration is
\* one that exists, a register is in a state the code gives it.
THEOREM TypeCorrect == Spec => []TypeOK
<1>1. Spec => []TypeInv BY InitTyped, TypeStep, PTL DEF Spec
<1>2. TypeInv => TypeOK BY DEF TypeInv
<1>. QED BY <1>1, <1>2, PTL

-----------------------------------------------------------------------------

\* What makes it inductive: until the report is there, the register is as the task has
\* read it, or the host has fetched what was in it before.
OpenInv ==
  dev.config # 0 => \A i \in Iface :
    /\ dev.state[i] # "closed"
    /\ dev.state[i] = "data" =>
         \/ dev.done[i]
         \/ pc = "read" /\ target = i
         \/ pc = "write" /\ target = i /\ dev.stat[i] = seen
         \/ ~(pc \in {"read", "write"} /\ target = i) /\ dev.stat[i] = "valid"

LEMMA OpenKept ==
  ASSUME OpenInv, KeepsOpen(dev, dev'), UNCHANGED task
  PROVE  OpenInv'
BY DEF OpenInv, KeepsOpen, task

LEMMA SendOpens == TypeInv /\ OpenInv /\ Send => OpenInv'
<1> SUFFICES ASSUME TypeInv, OpenInv, Send PROVE OpenInv'
  OBVIOUS
<1>. dev \in Device BY DEF TypeInv, TypeOK
<1>1. ASSUME NEW i \in Iface, SendTest(i) PROVE OpenInv' BY <1>1 DEF SendTest, OpenInv
<1>2. CASE SendClaim
  <2>1. /\ dev'.config = dev.config /\ dev'.stat = dev.stat /\ dev'.done = dev.done
        /\ \A i \in Iface : dev'.state[i] = IF i = target THEN "data" ELSE dev.state[i]
    BY <1>2 DEF SendClaim, Device
  <2>. QED BY <1>2, <2>1 DEF SendClaim, OpenInv
<1>3. CASE SendRead BY <1>3 DEF SendRead, OpenInv
<1>4. CASE SendWrite
  <2> DEFINE s == Toggled(dev.stat[target], Bits("valid") \ Bits(seen))
  <2>1. seen \in Status1 BY <1>4 DEF SendWrite, TypeInv, TypeOK
  <2>2. dev.stat[target] = seen => s = "valid" BY <2>1, ToggledStatus
  <2>3. dev' = [dev EXCEPT !.stat[target] = s] BY <1>4 DEF SendWrite, Device
  <2>. HIDE DEF s
  <2>4. /\ dev'.config = dev.config /\ dev'.state = dev.state /\ dev'.done = dev.done
        /\ \A i \in Iface : dev'.stat[i] = IF i = target THEN s ELSE dev.stat[i]
    BY <2>3 DEF Device
  <2>. QED BY <1>4, <2>2, <2>4 DEF SendWrite, OpenInv
<1>. QED BY <1>1, <1>2, <1>3, <1>4 DEF Send

LEMMA OpenStep == TypeInv /\ OpenInv /\ [Next]_vars => OpenInv'
<1> SUFFICES ASSUME TypeInv, OpenInv, [Next]_vars PROVE OpenInv'
  OBVIOUS
<1>. dev \in Device BY DEF TypeInv, TypeOK
<1>1. CASE IsrEp0
  <2>1. dev' = Round(dev) /\ UNCHANGED task BY <1>1 DEF IsrEp0, Round
  <2>2. KeepsOpen(dev, dev') BY <2>1, RoundOpens DEF TypeInv
  <2>. QED BY <2>1, <2>2, OpenKept
<1>2. ASSUME NEW i \in Iface, IsrReport(i) PROVE OpenInv'
  <2>1. KeepsOpen(dev, dev') BY <1>2 DEF IsrReport, KeepsOpen, Device
  <2>. QED BY <1>2, <2>1, OpenKept DEF IsrReport
<1>3. CASE Send BY <1>3, SendOpens
<1>4. ASSUME NEW r \in Request, HostSetup(r) PROVE OpenInv'
  <2>1. KeepsOpen(dev, dev') BY <1>4 DEF HostSetup, KeepsOpen, Device
  <2>. QED BY <1>4, <2>1, OpenKept DEF HostSetup
<1>5. CASE Transfer
  <2>1. SameEndpoints(dev, dev')
    <3>1. ASSUME NEW next, TakesIn(next) PROVE SameEndpoints(dev, dev')
      BY <3>1 DEF TakesIn, SameEndpoints, Device
    <3>2. ASSUME NEW next, TakesOut(next) PROVE SameEndpoints(dev, dev')
      BY <3>2 DEF TakesOut, SameEndpoints, Device
    <3>. QED BY <1>5, <3>1, <3>2 DEF Transfer, HostData, HostStatus, Stalls, SameEndpoints
  <2>2. KeepsOpen(dev, dev') BY <2>1 DEF SameEndpoints, KeepsOpen
  <2>. QED BY <1>5, <2>2, OpenKept DEF Transfer, HostData, HostStatus
<1>6. ASSUME NEW i \in Iface, HostPoll(i) PROVE OpenInv'
  <2>1. /\ dev'.config = dev.config /\ dev'.state = dev.state
        /\ \A j \in Iface : j # i => dev'.stat[j] = dev.stat[j] /\ dev'.done[j] = dev.done[j]
        /\ dev'.done[i]
    BY <1>6 DEF HostPoll, Device
  <2>. QED BY <1>6, <2>1 DEF HostPoll, OpenInv, task
<1>7. CASE HostReset BY <1>7, ResetDropsPending DEF OpenInv, TypeInv
<1>8. CASE HostGivesUp \/ UNCHANGED vars BY <1>8 DEF HostGivesUp, vars, task, OpenInv
<1>. QED BY <1>1, <1>2, <1>3, <1>4, <1>5, <1>6, <1>7, <1>8 DEF Next

\* With any interfaces and requests, a configuration opens every report endpoint, and
\* one that is busy has its report in the register unless the task has still to put it
\* there: whatever comes between the test, the claim, the read and the write of
\* USBD_EpSend, a write that is out of date meets only endpoints that have let go.
THEOREM EndpointsAreOpen == Spec => []ConfiguredIsOpen
<1>1. Init => TypeInv /\ OpenInv BY InitTyped DEF Init, OpenInv
<1>2. TypeInv /\ OpenInv /\ [Next]_vars => (TypeInv /\ OpenInv)' BY TypeStep, OpenStep
<1>3. OpenInv => ConfiguredIsOpen BY DEF OpenInv, ConfiguredIsOpen
<1>. QED BY <1>1, <1>2, <1>3, PTL DEF Spec

-----------------------------------------------------------------------------
(* The request that the device works on.                                   *)

\* It is the one that the host waits for; one that the host no longer waits for before
\* the device has seen it asks for an answer, so it changes nothing.
HeldInv ==
  /\ dev.received = "setup" =>
       /\ dev.tx = "nak" /\ dev.rx = "nak"
       /\ IF host.stage = "idle" THEN IsIn(dev.packet) ELSE dev.packet = host.req
  /\ dev.received # "setup" /\ host.stage # "idle" => dev.setup = host.req
  /\ host.stage = "data" => HasData(host.req)

\* What the device has sent to end a request without an answer, the host has taken to
\* end that request.  A set-up packet may find the end of the transfer before it still
\* pending, but not one for an address.
EndInv ==
  /\ dev.received = "setup" /\ dev.packet.op = "setAddress" => ~dev.sent
  /\ dev.received # "setup" /\ dev.sent /\ ~IsIn(dev.setup) =>
       host.stage = "idle" /\ host.last.result = "ok" /\ host.last.req = dev.setup

\* The fields of the device that these speak of, and the address.
Control(d) == <<d.setup, d.packet, d.received, d.sent, d.tx, d.rx, d.addr>>

LEMMA OthersLeaveControl ==
  ASSUME TypeInv,
         (\E i \in Iface : IsrReport(i) \/ HostPoll(i)) \/ Send \/ HostGivesUp \/ UNCHANGED vars
  PROVE  Control(dev') = Control(dev)
<1>. dev \in Device BY DEF TypeInv, TypeOK
<1>1. ASSUME NEW i \in Iface, IsrReport(i) PROVE Control(dev') = Control(dev)
  BY <1>1 DEF IsrReport, Control, Device
<1>2. ASSUME NEW i \in Iface, HostPoll(i) PROVE Control(dev') = Control(dev)
  BY <1>2 DEF HostPoll, Control, Device
<1>3. CASE Send BY <1>3 DEF Send, SendTest, SendClaim, SendRead, SendWrite, Control, Device
<1>4. CASE HostGivesUp \/ UNCHANGED vars BY <1>4 DEF HostGivesUp, vars
<1>. QED BY <1>1, <1>2, <1>3, <1>4

\* A transfer goes on only when the device has seen its request.
LEMMA TransferUnderWay ==
  ASSUME TypeInv, HeldInv, Transfer
  PROVE  /\ host.stage # "idle" /\ dev.received # "setup" /\ dev.setup = host.req
         /\ dev'.setup = dev.setup /\ dev'.received # "setup" /\ dev'.packet = dev.packet
<1>. dev \in Device BY DEF TypeInv, TypeOK
<1>1. host.stage # "idle" BY DEF Transfer, HostData, HostStatus
<1>2. \/ \E next : TakesIn(next) \/ TakesOut(next)
      \/ Stalls(dev.tx) \/ Stalls(dev.rx)
  BY DEF Transfer, HostData, HostStatus
<1>3. dev.received # "setup" BY <1>2 DEF TakesIn, TakesOut, Stalls, HeldInv
<1>4. dev.setup = host.req BY <1>1, <1>3 DEF HeldInv
<1>5. dev'.setup = dev.setup /\ dev'.received # "setup" /\ dev'.packet = dev.packet
  <2>1. ASSUME NEW next, TakesIn(next)
        PROVE  /\ dev'.setup = dev.setup /\ dev'.received = dev.received
               /\ dev'.packet = dev.packet
    BY <2>1 DEF TakesIn, Device
  <2>2. ASSUME NEW next, TakesOut(next)
        PROVE  /\ dev'.setup = dev.setup /\ dev'.received = "out"
               /\ dev'.packet = dev.packet
    BY <2>2 DEF TakesOut, Device
  <2>. QED BY <1>2, <1>3, <2>1, <2>2 DEF Stalls
<1>. QED BY <1>1, <1>3, <1>4, <1>5

LEMMA FinishedFields ==
  ASSUME host \in Host, NEW result
  PROVE  /\ Finished(result).stage = "idle" /\ Finished(result).last.result = result
         /\ Finished(result).last.req = host.req /\ Finished(result).last.got = host.got
         /\ Finished(result).req = host.req /\ Finished(result).got = host.got
         /\ Finished(result).view =
              IF result = "ok" THEN NewView(host.view, host.req) ELSE host.view
BY DEF Finished, Host

LEMMA TransferHeld == ASSUME TypeInv, HeldInv, Transfer PROVE HeldInv'
<1>. dev \in Device /\ host \in Host BY DEF TypeInv, TypeOK
<1>1. (host'.stage # "idle" => host'.req = host.req) /\ host'.stage # "data"
  <2> DEFINE h1 == [host EXCEPT !.stage = "status", !.got = dev.answer]
             h2 == [host EXCEPT !.stage = "status"]
  <2>1. /\ h1.req = host.req /\ h2.req = host.req
        /\ h1.stage = "status" /\ h2.stage = "status"
    BY DEF Host
  <2>2. host' \in {h1, h2, Finished("ok"), Finished("stall")}
    BY DEF Transfer, HostData, HostStatus, TakesIn, TakesOut, Stalls
  <2>. HIDE DEF h1, h2
  <2>. QED BY <2>1, <2>2, FinishedFields
<1>. QED BY <1>1, TransferUnderWay DEF HeldInv

LEMMA HeldStep == TypeInv /\ HeldInv /\ [Next]_vars => HeldInv'
<1> SUFFICES ASSUME TypeInv, HeldInv, [Next]_vars PROVE HeldInv'
  OBVIOUS
<1>. dev \in Device /\ host \in Host BY DEF TypeInv, TypeOK
<1>1. CASE IsrEp0
  <2>1. dev' = Round(dev) /\ host' = host BY <1>1 DEF IsrEp0, Round
  <2>2. /\ dev'.received = "none"
        /\ dev'.setup = IF dev.received = "setup" THEN dev.packet ELSE dev.setup
    BY <2>1, RoundStep DEF TypeInv
  <2>. QED BY <2>1, <2>2 DEF HeldInv
<1>2. CASE Send \/ UNCHANGED vars \/ \E i \in Iface : IsrReport(i) \/ HostPoll(i)
  <2>1. host' = host
    BY <1>2 DEF Send, SendTest, SendClaim, SendRead, SendWrite, IsrReport, HostPoll, vars
  <2>. QED BY <1>2, <2>1, OthersLeaveControl DEF Control, HeldInv
<1>3. CASE HostGivesUp
  <2>1. host.stage # "idle" /\ host'.stage = "idle" /\ IsIn(host.req)
    BY <1>3 DEF HostGivesUp, Host
  <2>. QED BY <1>3, <2>1, OthersLeaveControl DEF Control, HeldInv
<1>4. ASSUME NEW r \in Request, HostSetup(r) PROVE HeldInv'
  <2>1. /\ dev'.received = "setup" /\ dev'.packet = r /\ dev'.tx = "nak" /\ dev'.rx = "nak"
    BY <1>4 DEF HostSetup, Device
  <2>2. host'.req = r /\ host'.stage = IF HasData(r) THEN "data" ELSE "status"
    BY <1>4 DEF HostSetup, Host
  <2>. QED BY <2>1, <2>2 DEF HeldInv
<1>5. CASE HostReset
  <2>1. host'.stage = "idle" BY <1>5 DEF HostReset, Host
  <2>. QED BY <1>5, <2>1, ResetDropsPending DEF HeldInv, TypeInv
<1>. QED BY <1>1, <1>2, <1>3, <1>4, <1>5, TransferHeld DEF Next

-----------------------------------------------------------------------------
(* The address.                                                            *)

LEMMA TransferEnded == ASSUME TypeInv, HeldInv, EndInv, Transfer PROVE EndInv'
<1>. dev \in Device /\ host \in Host BY DEF TypeInv, TypeOK
<1>1. /\ host.stage # "idle" /\ dev.received # "setup" /\ dev.setup = host.req
      /\ dev'.setup = dev.setup /\ dev'.received # "setup"
  BY TransferUnderWay
<1>2. dev.sent => IsIn(dev.setup) BY <1>1 DEF EndInv
<1>3. ASSUME ~IsIn(dev.setup), dev'.sent PROVE host' = Finished("ok")
  <2>1. ~dev.sent BY <1>2, <1>3
  <2>2. ASSUME NEW next, TakesOut(next) PROVE dev'.sent = dev.sent
    BY <2>2 DEF TakesOut, Device
  <2>3. ASSUME NEW s, Stalls(s) PROVE dev'.sent = dev.sent BY <2>3 DEF Stalls
  <2>. QED BY <1>1, <1>3, <2>1, <2>2, <2>3 DEF Transfer, HostData, HostStatus, TakesIn
<1>. QED BY <1>1, <1>3, FinishedFields DEF EndInv

LEMMA EndStep == Prompt /\ TypeInv /\ HeldInv /\ EndInv /\ [Next]_vars => EndInv'
<1> SUFFICES ASSUME Prompt, TypeInv, HeldInv, EndInv, [Next]_vars PROVE EndInv'
  OBVIOUS
<1>. dev \in Device /\ host \in Host BY DEF TypeInv, TypeOK
<1>1. CASE IsrEp0
  <2>1. dev' = Round(dev) BY <1>1 DEF IsrEp0, Round
  <2>2. dev'.received = "none" /\ dev'.sent = FALSE BY <2>1, RoundStep DEF TypeInv
  <2>. QED BY <2>2 DEF EndInv
<1>2. CASE Send \/ UNCHANGED vars \/ \E i \in Iface : IsrReport(i) \/ HostPoll(i)
  <2>1. host' = host
    BY <1>2 DEF Send, SendTest, SendClaim, SendRead, SendWrite, IsrReport, HostPoll, vars
  <2>. QED BY <1>2, <2>1, OthersLeaveControl DEF Control, EndInv
<1>3. CASE HostGivesUp
  <2>1. host.stage # "idle" BY <1>3 DEF HostGivesUp
  <2>. QED BY <1>3, <2>1, OthersLeaveControl DEF Control, EndInv
<1>4. ASSUME NEW r \in Request, HostSetup(r) PROVE EndInv'
  <2>1. r.op = "setAddress" => ~dev.sent BY <1>4 DEF HostSetup, Ep0Pending
  <2>2. dev'.received = "setup" /\ dev'.sent = dev.sent /\ dev'.packet = r
    BY <1>4 DEF HostSetup, Device
  <2>. QED BY <2>1, <2>2 DEF EndInv
<1>5. CASE HostReset BY <1>5, ResetDropsPending DEF EndInv, TypeInv
<1>. QED BY <1>1, <1>2, <1>3, <1>4, <1>5, TransferEnded DEF Next

LEMMA AddressStep ==
  ASSUME TypeInv, HeldInv, EndInv, [Next]_vars, dev'.addr \notin {dev.addr, 0}
  PROVE  host.stage = "idle" /\ host.last.result = "ok" /\ host.last.req.op = "setAddress"
<1>. dev \in Device BY DEF TypeInv, TypeOK
<1>1. CASE IsrEp0
  <2>1. dev' = Round(dev) BY <1>1 DEF IsrEp0, Round
  <2>2. /\ dev.sent /\ ~IsIn(dev'.setup) /\ dev'.setup.op = "setAddress"
        /\ dev'.setup = IF dev.received = "setup" THEN dev.packet ELSE dev.setup
    BY <2>1, RoundStep DEF TypeInv
  <2>. QED BY <2>2 DEF HeldInv, EndInv
<1>2. CASE (\E i \in Iface : IsrReport(i) \/ HostPoll(i)) \/ Send \/ HostGivesUp \/ UNCHANGED vars
  BY <1>2, OthersLeaveControl DEF Control
<1>3. CASE (\E r \in Request : HostSetup(r)) \/ Transfer
  <2>1. CASE \E r \in Request : HostSetup(r)
    <3>1. dev'.addr = dev.addr BY <2>1 DEF HostSetup, Device
    <3>. QED BY <3>1
  <2>2. CASE Transfer
    <3>1. ASSUME NEW next, TakesIn(next) PROVE dev'.addr = dev.addr
      BY <3>1 DEF TakesIn, Device
    <3>2. ASSUME NEW next, TakesOut(next) PROVE dev'.addr = dev.addr
      BY <3>2 DEF TakesOut, Device
    <3>. QED BY <2>2, <3>1, <3>2 DEF Transfer, HostData, HostStatus, Stalls
  <2>. QED BY <1>3, <2>1, <2>2
<1>4. CASE HostReset
  <2>1. 0 \in Bit BY DEF Bit
  <2>2. IfConfig(dev, 0) \in Device BY <2>1, IfConfigType
  <2>3. dev'.addr = 0 BY <1>4, <2>2 DEF HostReset, ResetCallback, Device
  <2>. QED BY <2>3
<1>. QED BY <1>1, <1>2, <1>3, <1>4 DEF Next

\* With a host that asks for an address when the interrupt has dealt with the transfer
\* before, and any other requests as closely after each other as it likes, the device
\* takes on an address only after the host has seen the request for it confirmed.
THEOREM AddressComesLast == Prompt => (Spec => AddressLast)
<1> SUFFICES ASSUME Prompt PROVE Spec => AddressLast
  OBVIOUS
<1>1. Init => TypeInv /\ HeldInv /\ EndInv BY InitTyped DEF Init, HeldInv, EndInv
<1>2. TypeInv /\ HeldInv /\ EndInv /\ [Next]_vars => (TypeInv /\ HeldInv /\ EndInv)'
  BY TypeStep, HeldStep, EndStep
<1>3. TypeInv /\ HeldInv /\ EndInv /\ [Next]_vars =>
        [dev'.addr \notin {dev.addr, 0} =>
           host.stage = "idle" /\ host.last.result = "ok" /\ host.last.req.op = "setAddress"]_vars
  BY AddressStep
<1>. QED BY <1>1, <1>2, <1>3, PTL DEF Spec, AddressLast

-----------------------------------------------------------------------------
(* What the device answers.                                                *)

\* The idle rates are set anew by each configuration.
Agrees(d, v) ==
  d.config = v.config /\ d.wakeup = v.wakeup /\ (d.config # 0 => d.idle = v.idle)

\* What the device has done, as far as the host knows it or is about to be told.
ViewNow == IF dev.received # "setup" /\ host.stage # "idle" /\ dev.tx # "stall"
           THEN NewView(host.view, host.req) ELSE host.view

Matches(a, r) == a.op = r.op /\ (r.op # "getHalt" => a.value = Expected(r))

AnswerInv ==
  /\ Agrees(dev, ViewNow)
  /\ IsIn(host.req) =>
       /\ host.stage = "data" /\ dev.tx = "valid" => Matches(dev.answer, host.req)
       /\ host.stage = "status" => Matches(host.got, host.req)
  /\ AnswersMatch

LEMMA ViewKept ==
  ASSUME NEW v, NEW r, IsIn(r) \/ r.op = "setReport"
  PROVE  NewView(v, r) = v
BY DEF IsIn, GetOps, NewView

LEMMA EffectKept ==
  ASSUME NEW d, NEW r, IsIn(r)
  PROVE  Effect(d, r) = d
BY DEF IsIn, GetOps, Effect

LEMMA EffectAgrees ==
  ASSUME NEW d \in Device, NEW r \in Request, NEW v \in View, Accepts(d, r), Agrees(d, v)
  PROVE  Agrees(Effect(d, r), NewView(v, r))
<1>. r.itf \in Iface /\ r.value \in Nat BY UsbAssumption
<1>1. CASE r.op = "setConfig"
  <2>1. Effect(d, r) = IfConfig(d, r.value) BY <1>1 DEF Effect
  <2>2. NewView(v, r) = IF r.value = v.config THEN v
                        ELSE [v EXCEPT !.config = r.value, !.idle = All(IdleRate)]
    BY <1>1 DEF NewView
  <2>3. CASE r.value = d.config BY <2>1, <2>2, <2>3 DEF IfConfig, Agrees
  <2>4. CASE r.value # d.config
    BY <2>1, <2>2, <2>4 DEF IfConfig, Agrees, Device, View
  <2>. QED BY <2>3, <2>4
<1>2. CASE r.op \in {"setWakeup", "clearWakeup"}
  BY <1>2 DEF Effect, NewView, Agrees, Device, View
<1>3. CASE r.op = "setInterface"
  <2>1. Effect(d, r) = HidInit(d, r.itf) /\ NewView(v, r) = [v EXCEPT !.idle[r.itf] = IdleRate]
    BY <1>3 DEF Effect, NewView
  <2>. QED BY <2>1 DEF HidInit, Agrees, Device, View
<1>4. CASE r.op = "setIdle"
  <2>1. CASE ForAllReports(r) BY <1>4, <2>1 DEF Effect, NewView, Agrees, Device, View
  <2>2. CASE ~ForAllReports(r) BY <1>4, <2>2 DEF Effect, NewView
  <2>. QED BY <2>1, <2>2
<1>5. CASE r.op \in {"setHalt", "clearHalt"}
  <2>1. NewView(v, r) = v BY <1>5 DEF NewView
  <2>2. Agrees(SetHalt(d, r.itf), v) BY DEF SetHalt, Agrees, Device
  <2>3. Agrees(ClearHalt(d, r.itf), v) BY DEF ClearHalt, Agrees, Device
  <2>. QED BY <1>5, <2>1, <2>2, <2>3 DEF Effect
<1>6. CASE r.op \notin {"setConfig", "setWakeup", "clearWakeup", "setInterface", "setIdle",
                        "setHalt", "clearHalt"}
  <2>1. Effect(d, r) = d BY <1>6 DEF Effect
  <2>2. NewView(v, r) = v BY <1>6 DEF NewView
  <2>. QED BY <2>1, <2>2
<1>. QED BY <1>1, <1>2, <1>3, <1>4, <1>5, <1>6

LEMMA AnswerAgrees ==
  ASSUME NEW d \in Device, NEW r \in Request, IsIn(r), Accepts(d, r), Agrees(d, host.view)
  PROVE  Matches(Answer(d, r), r)
<1>1. Answer(d, r).op = r.op BY DEF Answer
<1>2. CASE r.op = "getConfig" BY <1>2 DEF Answer, Matches, Expected, Agrees
<1>3. CASE r.op = "getStatus" BY <1>3 DEF Answer, Matches, Expected, Agrees
<1>4. CASE r.op = "getIdle"
  <2>1. d.config # 0 BY <1>4 DEF Accepts, InterfaceOps
  <2>. QED BY <1>4, <2>1 DEF Answer, Matches, Expected, Agrees
<1>5. CASE r.op = "getHalt" BY <1>1, <1>5 DEF Matches
<1>6. CASE r.op \notin {"getConfig", "getStatus", "getIdle", "getHalt"}
  BY <1>6 DEF Answer, Matches, Expected
<1>. QED BY <1>2, <1>3, <1>4, <1>5, <1>6

\* The state that requests read and change, and what is offered to the host.
Core(d) == <<d.config, d.wakeup, d.idle>>
Offer(d) == <<d.tx, d.answer>>

LEMMA SetupAnswers ==
  ASSUME NEW d \in Device, d.setup \in Request, d.tx = "nak", host.view \in View,
         Agrees(d, host.view),
         NEW e, e = SetupCallback(d)
  PROVE  /\ Agrees(e, IF e.tx = "stall" THEN host.view ELSE NewView(host.view, d.setup))
         /\ IsIn(d.setup) /\ e.tx = "valid" => Matches(e.answer, d.setup)
<1> DEFINE r == d.setup
           f == Effect(d, r)
<1>1. CASE ~Accepts(d, r)
  <2>1. e = [d EXCEPT !.tx = "stall", !.rx = "stall"] BY <1>1 DEF SetupCallback
  <2>2. Core(e) = Core(d) /\ e.tx = "stall" BY <2>1 DEF Core, Device
  <2>. QED BY <2>2 DEF Core, Agrees
<1>2. CASE Accepts(d, r)
  <2>1. f \in Device /\ Agrees(f, NewView(host.view, r)) BY <1>2, EffectType, EffectAgrees
  <2>2. f.tx = "nak" BY EffectLeavesControl DEF SameControl
  <2>. HIDE DEF f
  <2>5. CASE Unanswered(r)
    <3>1. e = d /\ IsIn(r) BY <1>2, <2>5 DEF SetupCallback, Unanswered, IsIn, GetOps
    <3>2. NewView(host.view, r) = host.view BY <3>1, ViewKept
    <3>. QED BY <3>1, <3>2
  <2>3. CASE ~Unanswered(r) /\ IsIn(r)
    <3>1. e = [f EXCEPT !.tx = "valid", !.answer = Answer(d, r)]
      BY <1>2, <2>3 DEF SetupCallback, f
    <3>2. Core(e) = Core(f) /\ e.tx = "valid" /\ e.answer = Answer(d, r)
      BY <2>1, <3>1 DEF Core, Device
    <3>3. Agrees(e, NewView(host.view, r)) BY <2>1, <3>2 DEF Core, Agrees
    <3>. QED BY <1>2, <2>3, <3>2, <3>3, AnswerAgrees
  <2>4. CASE ~Unanswered(r) /\ ~IsIn(r)
    <3>1. e = [f EXCEPT !.rx = "valid"] \/ e = [f EXCEPT !.tx = "valid", !.answer = Status]
      BY <1>2, <2>4 DEF SetupCallback, SendStatus, f
    <3>2. Core(e) = Core(f) /\ e.tx # "stall"
      <4>1. CASE e = [f EXCEPT !.rx = "valid"]
        <5>1. Core(e) = Core(f) BY <2>1, <4>1 DEF Core, Device
        <5>2. e.tx = f.tx BY <2>1, <4>1 DEF Device
        <5>. QED BY <2>2, <5>1, <5>2
      <4>2. CASE e = [f EXCEPT !.tx = "valid", !.answer = Status]
        <5>1. Core(e) = Core(f) BY <2>1, <4>2 DEF Core, Device
        <5>2. e.tx = "valid" BY <2>1, <4>2 DEF Device
        <5>. QED BY <5>1, <5>2
      <4>. QED BY <3>1, <4>1, <4>2
    <3>. QED BY <2>1, <2>4, <3>2 DEF Core, Agrees
  <2>. QED BY <2>3, <2>4, <2>5
<1>. QED BY <1>1, <1>2

\* A round that finds no set-up packet carries out no request, and ends none but one
\* that brought data.
LEMMA RoundWithoutSetup ==
  ASSUME NEW d \in Device, d.received # "setup"
  PROVE  /\ Core(Round(d)) = Core(d)
         /\ d.setup.op # "setReport" => Offer(Round(d)) = Offer(d)
<1> DEFINE d1 == [d EXCEPT !.received = "none"]
           e == Ep0Received(d)
           e1 == [e EXCEPT !.sent = FALSE]
<1>1. d1 \in Device BY UpdateControl
<1>2. Core(d1) = Core(d) /\ Offer(d1) = Offer(d) /\ d1.setup = d.setup
  BY DEF Core, Offer, Device
<1>3. e = CtrlOutCallback(d1) \/ e = d BY DEF Ep0Received
<1>. HIDE DEF d1
<1>4. Core(CtrlOutCallback(d1)) = Core(d1)
  BY <1>1 DEF CtrlOutCallback, SendStatus, Core, Device
<1>5. d1.setup.op # "setReport" => Offer(CtrlOutCallback(d1)) = Offer(d1)
  <2>1. SUFFICES ASSUME d1.setup.op # "setReport" PROVE Offer(CtrlOutCallback(d1)) = Offer(d1)
    OBVIOUS
  <2>2. CtrlOutCallback(d1) = [d1 EXCEPT !.rx = "valid"]
    BY <2>1 DEF CtrlOutCallback, HasData
  <2>. QED BY <1>1, <2>2 DEF Offer, Device
<1>6. e \in Device BY ReceivedStep
<1>7. Round(d) = IF e.sent THEN CtrlInCallback(e1) ELSE e BY DEF Round, Ep0Sent
<1>8. Core(e) = Core(d) /\ (d.setup.op # "setReport" => Offer(e) = Offer(d))
  BY <1>2, <1>3, <1>4, <1>5
<1>. HIDE DEF e
<1>9. Core(CtrlInCallback(e1)) = Core(e) /\ Offer(CtrlInCallback(e1)) = Offer(e)
  <2>1. e1 \in Device BY <1>6, UpdateControl
  <2>2. Core(e1) = Core(e) /\ Offer(e1) = Offer(e) BY <1>6 DEF Core, Offer, Device
  <2>. HIDE DEF e1
  <2>. QED BY <2>1, <2>2 DEF CtrlInCallback, Core, Offer, Device
<1>. QED BY <1>7, <1>8, <1>9

LEMMA RoundWithSetup ==
  ASSUME NEW d \in Device, d.received = "setup", d.packet \in Request, d.tx = "nak",
         host.view \in View, Agrees(d, host.view)
  PROVE  LET e == Round(d)
         IN /\ Agrees(e, IF e.tx = "stall" THEN host.view ELSE NewView(host.view, d.packet))
            /\ IsIn(d.packet) /\ e.tx = "valid" => Matches(e.answer, d.packet)
<1> DEFINE d1 == [d EXCEPT !.received = "none"]
           d2 == [d1 EXCEPT !.setup = d.packet]
           s == Ep0Received(d)
           s1 == [s EXCEPT !.sent = FALSE]
<1>1. d1 \in Device BY UpdateControl
<1>2. Core(d1) = Core(d) /\ d1.tx = "nak" BY DEF Core, Device
<1>3. s = SetupCallback(d2) BY DEF Ep0Received
<1>. HIDE DEF d1
<1>4. d2 \in Device
  <2>1. d.packet \in Requests BY DEF Device
  <2>. QED BY <1>1, <2>1, UpdateControl
<1>5. Core(d2) = Core(d) /\ d2.tx = "nak" /\ d2.setup = d.packet
  BY <1>1, <1>2 DEF Core, Device
<1>6. Agrees(d2, host.view) BY <1>5 DEF Core, Agrees
<1>7. s \in Device BY ReceivedStep
<1>8. Round(d) = IF s.sent THEN CtrlInCallback(s1) ELSE s BY DEF Round, Ep0Sent
<1>. HIDE DEF d2, s
<1>9. /\ Agrees(s, IF s.tx = "stall" THEN host.view ELSE NewView(host.view, d.packet))
      /\ IsIn(d.packet) /\ s.tx = "valid" => Matches(s.answer, d.packet)
  BY <1>3, <1>4, <1>5, <1>6, SetupAnswers
<1>10. Core(CtrlInCallback(s1)) = Core(s) /\ Offer(CtrlInCallback(s1)) = Offer(s)
  <2>1. s1 \in Device BY <1>7, UpdateControl
  <2>2. Core(s1) = Core(s) /\ Offer(s1) = Offer(s) BY <1>7 DEF Core, Offer, Device
  <2>. HIDE DEF s1
  <2>. QED BY <2>1, <2>2 DEF CtrlInCallback, Core, Offer, Device
<1>11. Core(Round(d)) = Core(s) /\ Offer(Round(d)) = Offer(s) BY <1>8, <1>10
<1>. QED BY <1>9, <1>11 DEF Core, Offer, Agrees

\* Steps that leave alone what the device has done, what it offers and the transfer.
LEMMA OthersAnswer ==
  ASSUME TypeInv, AnswerInv, Core(dev') = Core(dev), Offer(dev') = Offer(dev),
         dev'.received = dev.received, host' = host
  PROVE  AnswerInv'
<1>1. ViewNow' = ViewNow BY DEF ViewNow, Offer
<1>2. \A r : Expected(r)' = Expected(r) BY DEF Expected
<1>3. Agrees(dev', ViewNow) BY DEF AnswerInv, Agrees, Core
<1>4. AnswersMatch' BY <1>2 DEF AnswerInv, AnswersMatch
<1>. QED BY <1>1, <1>2, <1>3, <1>4 DEF AnswerInv, Matches, Offer

LEMMA IsrAnswer == ASSUME TypeInv, HeldInv, AnswerInv, IsrEp0 PROVE AnswerInv'
<1>. dev \in Device /\ host \in Host BY DEF TypeInv, TypeOK
<1>. host.view \in View BY DEF Host, View
<1>1. dev' = Round(dev) /\ host' = host BY DEF IsrEp0, Round
<1>2. dev'.received = "none" BY <1>1, RoundStep DEF TypeInv
<1>3. \A r : Expected(r)' = Expected(r) BY <1>1 DEF Expected
<1>4. AnswersMatch' BY <1>1, <1>3 DEF AnswerInv, AnswersMatch
<1>5. IsIn(host.req) /\ host.stage = "status" => Matches(host.got, host.req)
  BY DEF AnswerInv
<1>6. CASE dev.received = "setup"
  <2>1. dev.packet \in Request /\ dev.tx = "nak" /\ Agrees(dev, host.view)
    BY <1>6 DEF TypeInv, HeldInv, AnswerInv, ViewNow
  <2>2. /\ Agrees(dev', IF dev'.tx = "stall" THEN host.view
                        ELSE NewView(host.view, dev.packet))
        /\ IsIn(dev.packet) /\ dev'.tx = "valid" => Matches(dev'.answer, dev.packet)
    BY <1>1, <1>6, <2>1, RoundWithSetup
  <2>3. Agrees(dev', ViewNow')
    <3>1. CASE host.stage = "idle"
      <4>1. NewView(host.view, dev.packet) = host.view BY <1>6, <3>1, ViewKept DEF HeldInv
      <4>. QED BY <1>1, <2>2, <3>1, <4>1 DEF ViewNow
    <3>2. CASE host.stage # "idle"
      BY <1>1, <1>2, <1>6, <2>2, <3>2 DEF ViewNow, HeldInv
    <3>. QED BY <3>1, <3>2
  <2>4. IsIn(host.req) /\ host.stage = "data" /\ dev'.tx = "valid" =>
          Matches(dev'.answer, host.req)
    BY <1>6, <2>2 DEF HeldInv
  <2>. QED BY <1>1, <1>3, <1>4, <1>5, <2>3, <2>4 DEF AnswerInv, Matches
<1>7. CASE dev.received # "setup"
  <2>1. /\ Core(dev') = Core(dev)
        /\ dev.setup.op # "setReport" => Offer(dev') = Offer(dev)
    BY <1>1, <1>7, RoundWithoutSetup
  <2>2. ViewNow' = ViewNow
    <3>1. CASE host.stage = "idle" BY <1>1, <3>1 DEF ViewNow
    <3>2. CASE host.stage # "idle" /\ dev.setup.op = "setReport"
      <4>1. NewView(host.view, host.req) = host.view BY <1>7, <3>2, ViewKept DEF HeldInv
      <4>. QED BY <1>1, <4>1 DEF ViewNow
    <3>3. CASE dev.setup.op # "setReport"
      BY <1>1, <1>2, <1>7, <2>1, <3>3 DEF ViewNow, Offer
    <3>. QED BY <3>1, <3>2, <3>3
  <2>3. Agrees(dev', ViewNow') BY <2>1, <2>2 DEF AnswerInv, Agrees, Core
  <2>4. IsIn(host.req) /\ host.stage = "data" /\ dev'.tx = "valid" =>
          Matches(dev'.answer, host.req)
    <3>1. SUFFICES ASSUME IsIn(host.req), host.stage = "data", dev'.tx = "valid"
                   PROVE  Matches(dev'.answer, host.req)
      OBVIOUS
    <3>2. dev.setup = host.req BY <1>7, <3>1 DEF HeldInv
    <3>3. dev.setup.op # "setReport" BY <3>1, <3>2 DEF IsIn, GetOps
    <3>. QED BY <2>1, <3>1, <3>3 DEF Offer, AnswerInv
  <2>. QED BY <1>1, <1>3, <1>4, <1>5, <2>3, <2>4 DEF AnswerInv, Matches
<1>. QED BY <1>6, <1>7

\* The host ends a transfer: with an answer, a confirmation or a stall.
LEMMA FinishedAnswer ==
  ASSUME TypeInv, HeldInv, AnswerInv, NEW result \in {"ok", "stall"},
         host' = Finished(result), Core(dev') = Core(dev),
         host.stage # "idle", dev.received # "setup",
         result = "ok" => /\ IsIn(host.req) => host.stage = "status"
                          /\ ~IsIn(host.req) => dev.tx # "stall",
         result = "stall" => dev.tx = "stall" \/ IsIn(host.req) \/ host.req.op = "setReport"
  PROVE  AnswerInv'
<1>. host \in Host BY DEF TypeInv, TypeOK
<1>1. /\ host'.stage = "idle" /\ host'.req = host.req /\ host'.got = host.got
      /\ host'.last.result = result /\ host'.last.req = host.req
      /\ host'.last.got = host.got
      /\ host'.view = IF result = "ok" THEN NewView(host.view, host.req) ELSE host.view
  BY FinishedFields
<1>2. ViewNow' = host'.view BY <1>1 DEF ViewNow
<1>3. ViewNow = host'.view
  <2>1. CASE IsIn(host.req) \/ host.req.op = "setReport"
    <3>1. NewView(host.view, host.req) = host.view BY <2>1, ViewKept
    <3>. QED BY <1>1, <3>1 DEF ViewNow
  <2>2. CASE ~IsIn(host.req) /\ host.req.op # "setReport"
    BY <1>1, <2>2 DEF ViewNow
  <2>. QED BY <2>1, <2>2
<1>4. Agrees(dev', ViewNow') BY <1>2, <1>3 DEF AnswerInv, Agrees, Core
<1>5. AnswersMatch'
  <2>1. SUFFICES ASSUME result = "ok", IsIn(host.req)
                 PROVE  /\ host.got.op = host.req.op
                        /\ host.req.op # "getHalt" => host.got.value = Expected(host.req)'
    BY <1>1 DEF AnswersMatch
  <2>2. host'.view = host.view BY <1>1, <2>1, ViewKept
  <2>3. Expected(host.req)' = Expected(host.req)
    <3>1. host.req' = host.req BY <1>1
    <3>. QED BY <2>2, <3>1 DEF Expected
  <2>4. Matches(host.got, host.req) BY <2>1 DEF AnswerInv
  <2>. QED BY <2>3, <2>4 DEF Matches
<1>. QED BY <1>1, <1>4, <1>5 DEF AnswerInv

LEMMA TransferAnswer == ASSUME TypeInv, HeldInv, AnswerInv, Transfer PROVE AnswerInv'
<1>. dev \in Device /\ host \in Host BY DEF TypeInv, TypeOK
<1>1. host.stage # "idle" /\ dev.received # "setup" /\ dev'.received # "setup"
  BY TransferUnderWay
<1>2. Core(dev') = Core(dev)
  <2>1. ASSUME NEW next, TakesIn(next) PROVE Core(dev') = Core(dev)
    BY <2>1 DEF TakesIn, Core, Device
  <2>2. ASSUME NEW next, TakesOut(next) PROVE Core(dev') = Core(dev)
    BY <2>2 DEF TakesOut, Core, Device
  <2>. QED BY <2>1, <2>2 DEF Transfer, HostData, HostStatus, Stalls
<1>3. CASE HostData
  <2> DEFINE h1 == [host EXCEPT !.stage = "status", !.got = dev.answer]
             h2 == [host EXCEPT !.stage = "status"]
  <2>1. /\ h1.stage = "status" /\ h1.req = host.req /\ h1.got = dev.answer
        /\ h1.view = host.view /\ h1.last = host.last
        /\ h2.stage = "status" /\ h2.req = host.req
        /\ h2.view = host.view /\ h2.last = host.last
    BY DEF Host
  <2>2. host.stage = "data" BY <1>3 DEF HostData
  <2>3. CASE IsIn(host.req) /\ TakesIn(h1)
    <3>1. host' = h1 /\ dev.tx = "valid" BY <2>3 DEF TakesIn
    <3>2. Matches(dev.answer, host.req) BY <2>2, <2>3, <3>1 DEF AnswerInv
    <3>. HIDE DEF h1
    <3>3. \A r : Expected(r)' = Expected(r) BY <2>1, <3>1 DEF Expected
    <3>4. NewView(host.view, host.req) = host.view BY <2>3, ViewKept
    <3>5. ViewNow = host.view /\ ViewNow' = host.view BY <2>1, <3>1, <3>4 DEF ViewNow
    <3>6. Agrees(dev', ViewNow') BY <1>2, <3>5 DEF AnswerInv, Agrees, Core
    <3>7. AnswersMatch' BY <2>1, <3>1, <3>3 DEF AnswerInv, AnswersMatch
    <3>. QED BY <2>1, <3>1, <3>2, <3>3, <3>6, <3>7 DEF AnswerInv, Matches
  <2>4. CASE ~IsIn(host.req) /\ TakesOut(h2)
    <3>1. host' = h2 /\ dev'.tx = dev.tx BY <2>4 DEF TakesOut, Device
    <3>. HIDE DEF h2
    <3>2. \A r : Expected(r)' = Expected(r) BY <2>1, <3>1 DEF Expected
    <3>3. ViewNow' = ViewNow BY <1>1, <2>1, <2>2, <3>1 DEF ViewNow
    <3>4. Agrees(dev', ViewNow') BY <1>2, <3>3 DEF AnswerInv, Agrees, Core
    <3>5. AnswersMatch' BY <2>1, <3>1, <3>2 DEF AnswerInv, AnswersMatch
    <3>. QED BY <2>1, <2>4, <3>1, <3>4, <3>5 DEF AnswerInv
  <2>5. CASE Stalls(IF IsIn(host.req) THEN dev.tx ELSE dev.rx)
    <3>1. host' = Finished("stall") BY <2>5 DEF Stalls
    <3>2. IsIn(host.req) \/ host.req.op = "setReport"
      BY <2>2 DEF HeldInv, HasData
    <3>. QED BY <1>1, <1>2, <3>1, <3>2, FinishedAnswer
  <2>. QED BY <1>3, <2>3, <2>4, <2>5 DEF HostData
<1>4. CASE HostStatus
  <2>1. host.stage = "status" BY <1>4 DEF HostStatus
  <2>2. CASE IsIn(host.req)
    <3>1. host' = Finished("ok") \/ host' = Finished("stall")
      BY <1>4, <2>2 DEF HostStatus, TakesOut, Stalls
    <3>. QED BY <1>1, <1>2, <2>1, <2>2, <3>1, FinishedAnswer
  <2>3. CASE ~IsIn(host.req)
    <3>1. CASE TakesIn(Finished("ok"))
      <4>1. host' = Finished("ok") /\ dev.tx # "stall" BY <3>1 DEF TakesIn
      <4>. QED BY <1>1, <1>2, <2>3, <4>1, FinishedAnswer
    <3>2. CASE Stalls(dev.tx)
      <4>1. host' = Finished("stall") /\ dev.tx = "stall" BY <3>2 DEF Stalls
      <4>. QED BY <1>1, <1>2, <4>1, FinishedAnswer
    <3>. QED BY <1>4, <2>3, <3>1, <3>2 DEF HostStatus
  <2>. QED BY <2>2, <2>3
<1>. QED BY <1>3, <1>4 DEF Transfer

LEMMA ResetAnswer == ASSUME TypeInv, AnswerInv, HostReset PROVE AnswerInv'
<1>. dev \in Device /\ host \in Host BY DEF TypeInv, TypeOK
<1>1. dev'.config = 0 /\ dev'.wakeup = dev.wakeup BY ResetDropsPending DEF TypeInv
<1>2. /\ host'.stage = "idle" /\ host'.last = NoTransfer
      /\ host'.view.config = 0 /\ host'.view.wakeup = dev.wakeup
  <2>1. /\ host'.stage = "idle" /\ host'.last = NoTransfer
        /\ host'.view = [[host.view EXCEPT !.config = 0] EXCEPT !.wakeup = dev.wakeup]
    BY DEF HostReset, Host
  <2>2. host.view \in View BY DEF Host, View
  <2>. QED BY <2>1, <2>2 DEF View
<1>3. Agrees(dev', ViewNow') BY <1>1, <1>2 DEF Agrees, ViewNow
<1>. QED BY <1>2, <1>3 DEF AnswerInv, AnswersMatch, NoTransfer

LEMMA AnswerStep == TypeInv /\ HeldInv /\ AnswerInv /\ [Next]_vars => AnswerInv'
<1> SUFFICES ASSUME TypeInv, HeldInv, AnswerInv, [Next]_vars PROVE AnswerInv'
  OBVIOUS
<1>. dev \in Device /\ host \in Host BY DEF TypeInv, TypeOK
<1>1. ASSUME NEW i \in Iface, IsrReport(i) PROVE AnswerInv'
  <2>1. /\ Core(dev') = Core(dev) /\ Offer(dev') = Offer(dev)
        /\ dev'.received = dev.received /\ host' = host
    BY <1>1 DEF IsrReport, Core, Offer, Device
  <2>. QED BY <2>1, OthersAnswer
<1>2. ASSUME NEW i \in Iface, HostPoll(i) PROVE AnswerInv'
  <2>1. /\ Core(dev') = Core(dev) /\ Offer(dev') = Offer(dev)
        /\ dev'.received = dev.received /\ host' = host
    BY <1>2 DEF HostPoll, Core, Offer, Device
  <2>. QED BY <2>1, OthersAnswer
<1>3. CASE Send \/ UNCHANGED vars
  <2>1. /\ Core(dev') = Core(dev) /\ Offer(dev') = Offer(dev)
        /\ dev'.received = dev.received /\ host' = host
    BY <1>3 DEF Send, SendTest, SendClaim, SendRead, SendWrite, Core, Offer, Device, vars
  <2>. QED BY <2>1, OthersAnswer
<1>4. ASSUME NEW r \in Request, HostSetup(r) PROVE AnswerInv'
  <2>1. Core(dev') = Core(dev) /\ dev'.received = "setup" /\ dev'.tx = "nak"
    BY <1>4 DEF HostSetup, Core, Device
  <2>2. /\ host'.view = host.view /\ host'.last = NoTransfer /\ host'.req = r
        /\ host'.stage = IF HasData(r) THEN "data" ELSE "status"
    BY <1>4 DEF HostSetup, Host
  <2>3. ViewNow = host.view /\ ViewNow' = host.view
    BY <1>4, <2>1, <2>2 DEF HostSetup, ViewNow
  <2>4. Agrees(dev', ViewNow') BY <2>1, <2>3 DEF AnswerInv, Agrees, Core
  <2>5. AnswersMatch' BY <2>2 DEF AnswersMatch, NoTransfer
  <2>6. IsIn(host'.req) => host'.stage = "data" BY <2>2 DEF HasData
  <2>. QED BY <2>1, <2>4, <2>5, <2>6 DEF AnswerInv
<1>5. CASE HostGivesUp
  <2>1. /\ host'.stage = "idle" /\ host'.last = NoTransfer /\ host'.view = host.view
        /\ dev' = dev
    BY <1>5 DEF HostGivesUp, Host
  <2>2. NewView(host.view, host.req) = host.view BY <1>5, ViewKept DEF HostGivesUp
  <2>3. ViewNow' = ViewNow BY <2>1, <2>2 DEF ViewNow
  <2>. QED BY <2>1, <2>3 DEF AnswerInv, AnswersMatch, NoTransfer
<1>. QED
  BY <1>1, <1>2, <1>3, <1>4, <1>5, IsrAnswer, TransferAnswer, ResetAnswer DEF Next

\* Whatever the host asks for, and whatever is refused, given up, stalled or reset in
\* between, also for a host that does not wait for the interrupt, a transfer that ends
\* with an answer has brought that to its own request, and the answer tells of all the
\* requests that were confirmed before.
THEOREM AnswersAgree == Spec => []AnswersMatch
<1>1. Init => TypeInv /\ HeldInv /\ AnswerInv
  <2>1. Init => HeldInv /\ AnswersMatch /\ host.stage = "idle"
    BY DEF Init, HeldInv, AnswersMatch, NoTransfer
  <2>2. Init => Agrees(dev, ViewNow) BY DEF Init, Agrees, ViewNow, All
  <2>. QED BY <2>1, <2>2, InitTyped DEF AnswerInv
<1>2. TypeInv /\ HeldInv /\ AnswerInv /\ [Next]_vars => (TypeInv /\ HeldInv /\ AnswerInv)'
  BY TypeStep, HeldStep, AnswerStep
<1>3. AnswerInv => AnswersMatch BY DEF AnswerInv
<1>. QED BY <1>1, <1>2, <1>3, PTL DEF Spec
=============================================================================
