------------------------- MODULE HidHandlerProofs -------------------------
(***************************************************************************)
(* The type of HidHandler, its claims about keys for every checksum that   *)
(* tells the keyboard reports apart, and what becomes of them with crc16.  *)
(***************************************************************************)
EXTENDS HidHandler, DataLemmas

LEMMA ReleasedTyped == Released \in KbReport
  BY DEF Released, KbReport

LEMMA AtRestTyped == AtRest \in MsReport
  BY HandlerAssumption DEF AtRest, MsReport

LEMMA InitTyped == Init => TypeOK
<1> SUFFICES ASSUME Init PROVE TypeOK
  OBVIOUS
<1>1. /\ line \in [kb : KbReport, ms : MsReport] /\ host \in [kb : KbReport, ms : MsReport]
      /\ wanted \in [kb : KbReport, ms : [button : Button, pos : Pos]]
  BY ReleasedTyped, AtRestTyped, HandlerAssumption DEF Init
<1>2. ep \in [Device -> {"closed", "idle", "busy"}] /\ hid_state \in SUBSET Device
  BY DEF Init
<1> QED
  BY <1>1, <1>2, HandlerAssumption DEF Init, TypeOK, Code

\* The report that a press or a release asks for is one.
LEMMA KeyReportTyped ==
  ASSUME TypeOK, NEW c \in Command, c.op = "key", ~Skipped(c)
  PROVE  KeyReport(c) \in KbReport
  BY DEF TypeOK, Skipped, KeyReport, KbReport, Released

\* The modifiers remain modifiers.
LEMMA NewModifierTyped ==
  ASSUME TypeOK, NEW c \in Command
  PROVE  NewModifier(c) \in SUBSET Modifier
  BY DEF TypeOK, NewModifier

\* The checksum to remember is that of a report or none.
LEMMA NewCrcTyped ==
  ASSUME TypeOK, pc = "send", NEW sent \in BOOLEAN
  PROVE  NewCrc(sent) \in {Crc(r) : r \in KbReport} \cup {NoCrc}
  BY DEF TypeOK, NewCrc

LEMMA StateNowTyped == TypeOK => StateNow \in SUBSET Device
  BY DEF TypeOK, StateNow, Device

-----------------------------------------------------------------------------

LEMMA KeyCommandTyped ==
  ASSUME TypeOK, NEW c \in Command, KeyCommand(c)
  PROVE  TypeOK'
<1>1. c.op = "key"
  BY DEF KeyCommand
<1>2. hid_state' \in SUBSET Device /\ modifier' \in SUBSET Modifier /\ last_fnr' \in BOOLEAN
  BY StateNowTyped, NewModifierTyped DEF KeyCommand, Begin, TypeOK
<1>3. CASE Skipped(c)
  BY <1>2, <1>3 DEF KeyCommand, Respond, usbVars, TypeOK, Code
<1>4. CASE ~Skipped(c)
  <2>1. KeyReport(c) \in KbReport
    BY <1>1, <1>4, KeyReportTyped
  <2>2. wanted' \in [kb : KbReport, ms : [button : Button, pos : Pos]]
    BY <1>4, <2>1 DEF KeyCommand, TypeOK
  <2>3. CASE last_crc = Crc(KeyReport(c))
    BY <1>2, <1>4, <2>2, <2>3 DEF KeyCommand, Respond, usbVars, TypeOK, Code
  <2>4. CASE last_crc # Crc(KeyReport(c))
    <3>1. pc' = "send" /\ job' = [op |-> "key", device |-> "kb", report |-> KeyReport(c), left |-> Tries]
      BY <1>4, <2>4 DEF KeyCommand, StartSending
    <3>2. job'.left \in 1 .. Tries /\ job'.op = "key" /\ job'.device = "kb" /\ job'.report \in KbReport
      BY <3>1, <2>1, HandlerAssumption
    <3>3. UNCHANGED <<prev_code, last_crc, pos, button, usbVars, intact>>
      BY <1>4, <2>4 DEF KeyCommand, StartSending
    <3> QED
      BY <1>2, <2>2, <3>1, <3>2, <3>3 DEF usbVars, TypeOK
  <2> QED
    BY <2>3, <2>4
<1> QED
  BY <1>3, <1>4

LEMMA OtherCommandsTyped ==
  ASSUME TypeOK, NEW c \in Command,
         Simple(c) \/ BadRaw(c) \/ MouseCommand(c) \/ WheelCommand(c) \/ RawCommand(c)
  PROVE  TypeOK'
<1>1. hid_state' \in SUBSET Device /\ last_fnr' \in BOOLEAN
  BY StateNowTyped DEF Simple, BadRaw, MouseCommand, WheelCommand, RawCommand, Begin, TypeOK
<1>2. CASE Simple(c)
  <2>1. SimpleCode(c) \in {"pong", "repeat", "invalid", "crc"}
    BY <1>2 DEF Simple, SimpleCode
  <2> QED
    BY <1>1, <1>2, <2>1 DEF Simple, Respond, usbVars, TypeOK, Code
<1>3. CASE BadRaw(c)
  BY <1>1, <1>3 DEF BadRaw, RespondRaw, usbVars, TypeOK
<1>4. CASE MouseCommand(c)
  <2>1. PICK w \in Delta :
          StartSending(c.op, "ms", [button |-> button', pos |-> pos', wheel |-> w])
    BY <1>4 DEF MouseCommand
  <2>2. c.op \in {"move", "button"} /\ pos' \in Pos /\ button' \in Button
    BY <1>4, HandlerAssumption DEF MouseCommand, NewPos, TypeOK
  <2>3. [button |-> button', pos |-> pos', wheel |-> w] \in MsReport
    BY <2>2 DEF MsReport
  <2>4. wanted' \in [kb : KbReport, ms : [button : Button, pos : Pos]]
    BY <1>4, HandlerAssumption DEF MouseCommand, TypeOK
  <2>5. /\ pc' = "send" /\ job'.left \in 1 .. Tries /\ job'.op \in {"move", "button"}
        /\ job'.device = "ms" /\ job'.report \in MsReport /\ prev_code' = prev_code
    BY <2>1, <2>2, <2>3, HandlerAssumption DEF StartSending
  <2> QED
    BY <1>1, <1>4, <2>2, <2>4, <2>5 DEF MouseCommand, usbVars, TypeOK
<1>5. CASE WheelCommand(c)
  <2>1. [button |-> NoButton, pos |-> TopLeft, wheel |-> c.delta] \in MsReport
    BY <1>5, HandlerAssumption DEF WheelCommand, MsReport
  <2>2. wanted' \in [kb : KbReport, ms : [button : Button, pos : Pos]]
    BY <1>5, HandlerAssumption DEF WheelCommand, TypeOK
  <2>3. /\ pc' = "send" /\ job'.left \in 1 .. Tries /\ job'.op = "wheel"
        /\ job'.device = "ms" /\ job'.report \in MsReport /\ prev_code' = prev_code
    BY <1>5, <2>1, HandlerAssumption DEF WheelCommand, StartSending
  <2> QED
    BY <1>1, <1>5, <2>2, <2>3, HandlerAssumption DEF WheelCommand, usbVars, TypeOK
<1>6. CASE RawCommand(c)
  <2>1. \/ c.op = "rawkb" /\ c.report \in KbReport
        \/ c.op = "rawms" /\ c.report \in MsReport
    BY <1>6, HandlerAssumption DEF RawCommand
  <2>2. /\ pc' = "send" /\ job'.left \in 1 .. Tries /\ job'.op = "raw" /\ prev_code' = prev_code
        /\ \/ job'.device = "kb" /\ job'.report \in KbReport
           \/ job'.device = "ms" /\ job'.report \in MsReport
    BY <1>6, <2>1, HandlerAssumption DEF RawCommand, StartSending
  <2> QED
    BY <1>1, <1>6, <2>2 DEF RawCommand, usbVars, TypeOK
<1> QED
  BY <1>2, <1>3, <1>4, <1>5, <1>6

LEMMA FinishTyped ==
  ASSUME TypeOK, pc = "send", NEW sent \in BOOLEAN, Finish(sent)
  PROVE  /\ modifier' \in SUBSET Modifier /\ pos' \in Pos /\ button' \in Button
         /\ last_crc' \in {Crc(r) : r \in KbReport} \cup {NoCrc}
         /\ prev_code' \in Code /\ hid_state' \in SUBSET Device /\ last_fnr' \in BOOLEAN
         /\ pc' = "idle"
<1>1. last_crc' \in {Crc(r) : r \in KbReport} \cup {NoCrc}
  BY NewCrcTyped DEF Finish
<1>2. hid_state' \in SUBSET Device
  BY DEF Finish, TypeOK, Device
<1>3. prev_code' \in Code
  BY DEF Finish, Respond, RespondRaw, TypeOK, Code
<1> QED
  BY <1>1, <1>2, <1>3 DEF Finish, TypeOK

LEMMA SendTyped ==
  ASSUME TypeOK, Send
  PROVE  TypeOK'
<1>1. CASE Accept
  <2>1. line' \in [kb : KbReport, ms : MsReport]
    <3>1. CASE job.device = "kb" /\ job.report \in KbReport
      BY <1>1, <3>1 DEF Accept, TypeOK
    <3>2. CASE job.device = "ms" /\ job.report \in MsReport
      BY <1>1, <3>2 DEF Accept, TypeOK
    <3> QED
      BY <1>1, <3>1, <3>2 DEF Accept, TypeOK
  <2>2. ep' \in [Device -> {"closed", "idle", "busy"}] /\ intact' \in SUBSET Device
    BY <1>1 DEF Accept, TypeOK, Device
  <2> QED
    BY <1>1, <2>1, <2>2, FinishTyped DEF Accept, TypeOK
<1>2. CASE Retry
  <2>1. job'.left \in 1 .. Tries
    BY <1>2, HandlerAssumption DEF Retry, TypeOK
  <2>2. job'.op = job.op /\ job'.device = job.device /\ job'.report = job.report
    BY <1>2 DEF Retry
  <2> QED
    BY <1>2, <2>1, <2>2 DEF Retry, statics, usbVars, TypeOK
<1>3. CASE Fail
  BY <1>3, FinishTyped DEF Fail, usbVars, TypeOK
<1> QED
  BY <1>1, <1>2, <1>3 DEF Send

LEMMA UsbTyped ==
  ASSUME TypeOK, Usb
  PROVE  TypeOK'
<1>1. ASSUME NEW d \in Device, Poll(d) PROVE TypeOK'
  <2>1. host' \in [kb : KbReport, ms : MsReport]
    <3>1. CASE d = "kb"
      BY <1>1, <3>1 DEF Poll, TypeOK
    <3>2. CASE d = "ms"
      BY <1>1, <3>2 DEF Poll, TypeOK
    <3> QED
      BY <3>1, <3>2 DEF Device
  <2>2. ep' \in [Device -> {"closed", "idle", "busy"}]
    BY <1>1 DEF Poll, TypeOK
  <2> QED
    BY <1>1, <2>1, <2>2 DEF Poll, statics, TypeOK
<1>2. CASE Configure
  BY <1>2 DEF Configure, statics, TypeOK
<1>3. CASE Reset
  <2>1. host' \in [kb : KbReport, ms : MsReport]
    BY <1>3, ReleasedTyped, HandlerAssumption DEF Reset, TypeOK, MsReport
  <2> QED
    BY <1>3, <2>1 DEF Reset, statics, TypeOK
<1>4. CASE FrameClock
  BY <1>4 DEF FrameClock, statics, TypeOK
<1> QED
  BY <1>1, <1>2, <1>3, <1>4 DEF Usb

LEMMA TypeStep == TypeOK /\ [Next]_vars => TypeOK'
<1> SUFFICES ASSUME TypeOK, [Next]_vars PROVE TypeOK'
  OBVIOUS
<1>1. ASSUME NEW c \in Command, Start(c) PROVE TypeOK'
  BY <1>1, KeyCommandTyped, OtherCommandsTyped DEF Start
<1>2. CASE UNCHANGED vars
  BY <1>2 DEF vars, statics, usbVars, TypeOK
<1> QED
  BY <1>1, <1>2, SendTyped, UsbTyped DEF Next

\* The handlers keep to their types: the modifiers are modifiers, last_crc is the
\* checksum of a report or none, and a report being sent is one of its device.
THEOREM TypeCorrect == Spec => []TypeOK
  BY InitTyped, TypeStep, PTL DEF Spec

-----------------------------------------------------------------------------
(* Keys are delivered.                                                     *)

LEMMA OnTheWayTyped == TypeOK => OnTheWay \in KbReport
  BY DEF TypeOK, OnTheWay

\* Commands change nothing on the way to the host.
LEMMA StartKeeps ==
  ASSUME NEW c \in Command, Start(c)
  PROVE  UNCHANGED <<OnTheWay, intact, last_crc>> /\ pc = "idle"
  BY DEF Start, Simple, BadRaw, KeyCommand, MouseCommand, WheelCommand, RawCommand, Begin,
         usbVars, OnTheWay

\* A key command that sends nothing is right that the host has its report.
LEMMA KeyCommandDelivers ==
  ASSUME TellsApart, DeliveryInv, NEW c \in Command, KeyCommand(c)
  PROVE  SentIsWanted' /\ OnlineMeansDelivered'
<1>1. UNCHANGED <<OnTheWay, intact, last_crc>> /\ pc = "idle" /\ c.op = "key"
  BY StartKeeps DEF Start, KeyCommand
<1>2. CASE Skipped(c)
  <2>1. pc' = "idle" /\ answer'.to = "modifier"
    BY <1>1, <1>2 DEF KeyCommand, Respond
  <2> QED
    BY <2>1 DEF SentIsWanted, OnlineMeansDelivered, KeyAnswered
<1>3. CASE ~Skipped(c) /\ last_crc = Crc(KeyReport(c))
  <2>1. KeyReport(c) \in KbReport
    BY <1>1, <1>3, KeyReportTyped DEF DeliveryInv
  <2>2. pc' = "idle" /\ wanted'["kb"] = KeyReport(c)
    BY <1>1, <1>3 DEF KeyCommand, DeliveryInv, TypeOK
  <2>3. "kb" \in intact => KeyReport(c) = OnTheWay
    BY <1>3, <2>1, OnTheWayTyped DEF DeliveryInv, CrcOfTheLast, TellsApart
  <2> QED
    BY <1>1, <2>2, <2>3 DEF SentIsWanted, OnlineMeansDelivered, KeyAnswered, Delivered
<1>4. CASE ~Skipped(c) /\ last_crc # Crc(KeyReport(c))
  <2>1. /\ pc' = "send" /\ wanted'["kb"] = KeyReport(c)
        /\ job' = [op |-> "key", device |-> "kb", report |-> KeyReport(c), left |-> Tries]
    BY <1>4 DEF KeyCommand, StartSending, DeliveryInv, TypeOK
  <2> QED
    BY <2>1 DEF SentIsWanted, OnlineMeansDelivered, KeyAnswered
<1> QED
  BY <1>2, <1>3, <1>4

\* The answers to other commands are not answers to keys.
LEMMA OtherCommandsDeliver ==
  ASSUME NEW c \in Command,
         Simple(c) \/ BadRaw(c) \/ MouseCommand(c) \/ WheelCommand(c) \/ RawCommand(c)
  PROVE  SentIsWanted' /\ OnlineMeansDelivered'
<1>1. CASE Simple(c)
  BY <1>1 DEF Simple, Begin, Respond, SentIsWanted, OnlineMeansDelivered, KeyAnswered
<1>2. CASE BadRaw(c)
  BY <1>2 DEF BadRaw, Begin, RespondRaw, SentIsWanted, OnlineMeansDelivered, KeyAnswered
<1>3. CASE MouseCommand(c)
  BY <1>3 DEF MouseCommand, StartSending, SentIsWanted, OnlineMeansDelivered, KeyAnswered
<1>4. CASE WheelCommand(c)
  BY <1>4 DEF WheelCommand, StartSending, SentIsWanted, OnlineMeansDelivered, KeyAnswered
<1>5. CASE RawCommand(c)
  BY <1>5 DEF RawCommand, StartSending, SentIsWanted, OnlineMeansDelivered, KeyAnswered
<1> QED
  BY <1>1, <1>2, <1>3, <1>4, <1>5

\* A key report that the endpoint takes is on the way, and its checksum is
\* remembered; one that it does not take leaves none remembered and the keyboard
\* offline.
LEMMA SendDelivers ==
  ASSUME TellsApart, DeliveryInv, Send
  PROVE  SentIsWanted' /\ CrcOfTheLast' /\ OnlineMeansDelivered'
<1> USE DEF DeliveryInv
<1>1. CASE Accept
  <2>1. SentIsWanted'
    BY <1>1 DEF Accept, Finish, SentIsWanted
  <2>2. CASE job.op = "key"
    <3>1. ep'["kb"] = "busy" /\ line'["kb"] = wanted["kb"] /\ last_crc' = Crc(wanted["kb"])
      BY <1>1, <2>2 DEF Accept, Finish, NewCrc, SentIsWanted, TypeOK, Device
    <3> QED
      BY <1>1, <2>1, <3>1 DEF Accept, CrcOfTheLast, OnlineMeansDelivered, Delivered, OnTheWay
  <2>3. CASE job.op # "key" /\ job.device = "kb"
    <3>1. "kb" \notin intact'
      BY <1>1, <2>3 DEF Accept, TypeOK
    <3> QED
      BY <2>1, <3>1 DEF CrcOfTheLast, OnlineMeansDelivered, KeyAnswered
  <2>4. CASE job.op # "key" /\ job.device = "ms"
    <3>1. UNCHANGED <<OnTheWay, last_crc>> /\ ("kb" \in intact' => "kb" \in intact)
      BY <1>1, <2>4 DEF Accept, Finish, NewCrc, OnTheWay, TypeOK, Device
    <3>2. answer'.to # "key"
      BY <1>1, <2>4 DEF Accept, Finish, Respond, RespondRaw
    <3> QED
      BY <2>1, <3>1, <3>2 DEF CrcOfTheLast, OnlineMeansDelivered, KeyAnswered
  <2> QED
    BY <1>1, <2>2, <2>3, <2>4 DEF Accept, TypeOK
<1>2. CASE Retry
  BY <1>2 DEF Retry, statics, usbVars, SentIsWanted, CrcOfTheLast, OnlineMeansDelivered,
             KeyAnswered, OnTheWay
<1>3. CASE Fail
  <2>1. SentIsWanted'
    BY <1>3 DEF Fail, Finish, SentIsWanted
  <2>2. UNCHANGED <<OnTheWay, intact>>
    BY <1>3 DEF Fail, usbVars, OnTheWay
  <2>3. last_crc' = last_crc \/ last_crc' = NoCrc
    BY <1>3 DEF Fail, Finish, NewCrc
  <2>4. ~KeyAnswered'
    <3>1. CASE job.op = "key"
      <4>1. "kb" \notin hid_state'
        BY <1>3, <3>1 DEF Fail, Finish, SentIsWanted
      <4> QED
        BY <1>3, <3>1, <4>1 DEF Fail, Finish, Respond, KeyAnswered
    <3>2. CASE job.op # "key"
      BY <1>3, <3>2 DEF Fail, Finish, Respond, RespondRaw, KeyAnswered
    <3> QED
      BY <3>1, <3>2
  <2> QED
    BY <2>1, <2>2, <2>3, <2>4 DEF CrcOfTheLast, OnlineMeansDelivered
<1> QED
  BY <1>1, <1>2, <1>3 DEF Send

\* A poll moves the report from the endpoint to the host; a reset ends the claims.
LEMMA UsbDelivers ==
  ASSUME DeliveryInv, Usb
  PROVE  SentIsWanted' /\ CrcOfTheLast' /\ OnlineMeansDelivered'
<1> USE DEF DeliveryInv
<1>1. UNCHANGED <<statics, pc, job, answer, wanted>>
  BY DEF Usb, Poll, Configure, Reset, FrameClock
<1>2. intact' = {} \/ UNCHANGED <<OnTheWay, intact>>
  <2>1. ASSUME NEW d \in Device, Poll(d) PROVE UNCHANGED <<OnTheWay, intact>>
    BY <2>1 DEF Poll, OnTheWay, TypeOK, Device
  <2>2. CASE Configure
    BY <2>2 DEF Configure, OnTheWay, TypeOK, Device
  <2>3. CASE Reset
    BY <2>3 DEF Reset
  <2>4. CASE FrameClock
    BY <2>4 DEF FrameClock, OnTheWay
  <2> QED
    BY <2>1, <2>2, <2>3, <2>4 DEF Usb
<1> QED
  BY <1>1, <1>2 DEF statics, SentIsWanted, CrcOfTheLast, OnlineMeansDelivered, KeyAnswered,
                    Delivered

\* When an answer to a key says that the keyboard is online, the host has or is
\* about to fetch the report asked for, with any keys, modifiers and number of
\* attempts and any checksum that tells the reports apart.
THEOREM KeysAreDelivered == TellsApart => (Spec => []OnlineMeansDelivered)
<1> SUFFICES ASSUME TellsApart PROVE Spec => []OnlineMeansDelivered
  OBVIOUS
<1>1. Init => DeliveryInv
  BY InitTyped DEF Init, DeliveryInv, SentIsWanted, CrcOfTheLast, OnlineMeansDelivered,
                   KeyAnswered
<1>2. DeliveryInv /\ [Next]_vars => DeliveryInv'
  <2> SUFFICES ASSUME DeliveryInv, [Next]_vars PROVE SentIsWanted' /\ CrcOfTheLast' /\ OnlineMeansDelivered'
    BY TypeStep DEF DeliveryInv
  <2>1. ASSUME NEW c \in Command, Start(c)
        PROVE  SentIsWanted' /\ CrcOfTheLast' /\ OnlineMeansDelivered'
    BY <2>1, StartKeeps, KeyCommandDelivers, OtherCommandsDeliver
       DEF Start, DeliveryInv, CrcOfTheLast
  <2>2. CASE UNCHANGED vars
    BY <2>2 DEF vars, statics, usbVars, DeliveryInv, SentIsWanted, CrcOfTheLast,
                OnlineMeansDelivered, KeyAnswered, Delivered, OnTheWay
  <2> QED
    BY <2>1, <2>2, SendDelivers, UsbDelivers DEF Next
<1>3. DeliveryInv => OnlineMeansDelivered
  BY DEF DeliveryInv
<1> QED
  BY <1>1, <1>2, <1>3, PTL DEF Spec

-----------------------------------------------------------------------------
(* Only repetitions are left out.                                          *)

RepeatInv == TypeOK /\ SentIsWanted /\ CrcOfTheWanted

NoneIsApart == \A r \in KbReport : Crc(r) # NoCrc

\* A command asks for a keyboard report with the checksum of the one before.
SameSum == /\ wanted' = [wanted EXCEPT !["kb"] = wanted'["kb"]]
           /\ Crc(wanted'["kb"]) = Crc(wanted["kb"])

LEMMA SameIsSameSum == TypeOK /\ wanted' = wanted => SameSum
  BY DEF TypeOK, SameSum

LEMMA LeftOutHasTheSum ==
  ASSUME NoneIsApart, RepeatInv, NEW c \in Command, KeyCommand(c), pc' = "idle"
  PROVE  SameSum
<1>1. c.op = "key" /\ pc = "idle" BY DEF KeyCommand, Begin
<1>2. CASE Skipped(c) BY <1>2, SameIsSameSum DEF KeyCommand, RepeatInv
<1>3. CASE ~Skipped(c)
  <2>1. KeyReport(c) \in KbReport BY <1>1, <1>3, KeyReportTyped DEF RepeatInv
  <2>2. last_crc = Crc(KeyReport(c)) BY <1>3 DEF KeyCommand, StartSending
  <2>3. last_crc = Crc(wanted["kb"])
    BY <1>1, <2>1, <2>2 DEF RepeatInv, CrcOfTheWanted, NoneIsApart
  <2>4. wanted' = [wanted EXCEPT !["kb"] = KeyReport(c)] BY <1>3 DEF KeyCommand
  <2>5. wanted'["kb"] = KeyReport(c) BY <2>4 DEF RepeatInv, TypeOK
  <2>. QED BY <2>2, <2>3, <2>4, <2>5 DEF SameSum
<1>. QED BY <1>2, <1>3

LEMMA SimpleKeepsWanted ==
  ASSUME NEW c \in Command, Simple(c) \/ BadRaw(c)
  PROVE  UNCHANGED <<wanted, last_crc, pc>> /\ pc = "idle"
BY DEF Simple, BadRaw, Begin

LEMMA OthersStartSending ==
  ASSUME RepeatInv, NEW c \in Command, MouseCommand(c) \/ WheelCommand(c) \/ RawCommand(c)
  PROVE  /\ pc = "idle" /\ pc' = "send" /\ job'.op # "key" /\ last_crc' = last_crc
         /\ wanted'["kb"] = wanted["kb"]
<1>1. CASE MouseCommand(c)
  BY <1>1 DEF MouseCommand, Begin, StartSending, RepeatInv, TypeOK
<1>2. CASE WheelCommand(c)
  BY <1>2 DEF WheelCommand, Begin, StartSending, RepeatInv, TypeOK
<1>3. CASE RawCommand(c) BY <1>3 DEF RawCommand, Begin, StartSending
<1>. QED BY <1>1, <1>2, <1>3

LEMMA SendKeepsRepeats ==
  ASSUME RepeatInv, Send
  PROVE  SentIsWanted' /\ CrcOfTheWanted' /\ pc = "send"
<1>1. wanted' = wanted /\ pc = "send" BY DEF Send, Accept, Retry, Fail
<1>2. CASE Retry
  BY <1>1, <1>2 DEF Retry, statics, RepeatInv, SentIsWanted, CrcOfTheWanted
<1>3. ASSUME NEW sent \in BOOLEAN, Finish(sent) PROVE SentIsWanted' /\ CrcOfTheWanted'
  <2>1. pc' = "idle" BY <1>3 DEF Finish
  <2>2. CASE job.op = "key"
    <3>1. last_crc' = Crc(wanted["kb"]) \/ last_crc' = NoCrc
      BY <1>1, <1>3, <2>2 DEF Finish, NewCrc, RepeatInv, SentIsWanted
    <3>. QED BY <1>1, <2>1, <3>1 DEF SentIsWanted, CrcOfTheWanted
  <2>3. CASE job.op # "key"
    <3>1. last_crc' = last_crc BY <1>3, <2>3 DEF Finish, NewCrc
    <3>. QED BY <1>1, <2>1, <2>3, <3>1 DEF RepeatInv, SentIsWanted, CrcOfTheWanted
  <2>. QED BY <2>2, <2>3
<1>. QED BY <1>1, <1>2, <1>3 DEF Send, Accept, Fail

LEMMA RepeatStep ==
  ASSUME NoneIsApart, RepeatInv, [Next]_vars
  PROVE  RepeatInv' /\ (pc = "idle" /\ pc' = "idle" => SameSum)
<1>1. TypeOK' BY TypeStep DEF RepeatInv
<1>0. wanted' = wanted => SameSum BY SameIsSameSum DEF RepeatInv
<1>2. ASSUME NEW c \in Command, Start(c)
      PROVE  SentIsWanted' /\ CrcOfTheWanted' /\ (pc' = "idle" => SameSum)
  <2>1. CASE KeyCommand(c)
    <3>1. last_crc' = last_crc /\ pc = "idle" BY <2>1 DEF KeyCommand, Begin
    <3>2. CASE pc' = "idle"
      <4>1. SameSum BY <2>1, <3>2, LeftOutHasTheSum
      <4>. QED BY <3>1, <3>2, <4>1 DEF RepeatInv, SentIsWanted, CrcOfTheWanted, SameSum
    <3>3. CASE pc' = "send"
      <4>1. /\ job' = [op |-> "key", device |-> "kb", report |-> KeyReport(c), left |-> Tries]
            /\ wanted'["kb"] = KeyReport(c)
        BY <2>1, <3>1, <3>3 DEF KeyCommand, StartSending, RepeatInv, TypeOK
      <4>. QED BY <3>3, <4>1 DEF SentIsWanted, CrcOfTheWanted
    <3>. QED BY <1>1, <3>2, <3>3 DEF TypeOK
  <2>2. CASE Simple(c) \/ BadRaw(c)
    BY <1>0, <2>2, SimpleKeepsWanted DEF RepeatInv, SentIsWanted, CrcOfTheWanted
  <2>3. CASE MouseCommand(c) \/ WheelCommand(c) \/ RawCommand(c)
    BY <2>3, OthersStartSending DEF RepeatInv, SentIsWanted, CrcOfTheWanted
  <2>. QED BY <1>2, <2>1, <2>2, <2>3 DEF Start
<1>3. CASE Usb \/ UNCHANGED vars
  <2>1. UNCHANGED <<wanted, last_crc, pc, job>>
    BY <1>3 DEF Usb, Poll, Configure, Reset, FrameClock, statics, vars
  <2>. QED BY <1>0, <1>1, <2>1 DEF RepeatInv, SentIsWanted, CrcOfTheWanted
<1>4. CASE Send BY <1>1, <1>4, SendKeepsRepeats DEF RepeatInv
<1>. QED BY <1>1, <1>2, <1>3, <1>4 DEF RepeatInv, Next

\* With any keys, modifiers and commands, and any checksum that tells the reports apart,
\* a key report is left out only if it is the one that was asked for last.
THEOREM RepeatsLeftOut == TellsApart => (Spec => OnlyRepeatsLeftOut)
<1> SUFFICES ASSUME TellsApart PROVE Spec => OnlyRepeatsLeftOut
  OBVIOUS
<1>1. Init => RepeatInv
  BY InitTyped DEF Init, RepeatInv, SentIsWanted, CrcOfTheWanted
<1>2. NoneIsApart BY DEF TellsApart, NoneIsApart
<1>3. RepeatInv /\ [Next]_vars => RepeatInv' BY <1>2, RepeatStep
<1>4. RepeatInv /\ [Next]_vars => [pc = "idle" /\ pc' = "idle" => wanted' = wanted]_vars
  <2> SUFFICES ASSUME RepeatInv, [Next]_vars, pc = "idle", pc' = "idle"
               PROVE  wanted' = wanted
    OBVIOUS
  <2>1. SameSum /\ TypeOK /\ TypeOK' BY <1>2, RepeatStep DEF RepeatInv
  <2>2. wanted["kb"] \in KbReport /\ wanted'["kb"] \in KbReport BY <2>1 DEF TypeOK
  <2>3. wanted'["kb"] = wanted["kb"] BY <2>1, <2>2 DEF SameSum, TellsApart
  <2>. QED BY <2>1, <2>3 DEF SameSum, TypeOK
<1>. QED BY <1>1, <1>3, <1>4, PTL DEF Spec, OnlyRepeatsLeftOut

-----------------------------------------------------------------------------
(* The same with crc16.                                                    *)

\* A report as the handler builds it: the first byte has a bit for each modifier, the
\* usages of the modifiers go from 224 (the left Ctrl) to 231, the key is a usage, and the
\* checksum 0 stands for none.
AsInTheCode(byte) ==
  /\ Modifier \subseteq 224 .. 231 /\ Key \subseteq 0 .. 255 /\ NoKey = 0 /\ NoCrc = {}
  /\ byte \in [SUBSET Modifier -> 0 .. 255]
  /\ \A mods \in SUBSET Modifier : Bits(byte[mods]) = {usage - 224 : usage \in mods}
  /\ \A mods \in SUBSET Modifier, key \in Key \cup {NoKey} :
       Crc([mods |-> mods, key |-> key]) = CrcOf(KeyReportBytes(byte[mods], key))

\* The reports that crc16 may take for each other.
Alike(r, s) ==
  /\ r.key # s.key
  /\ Xor(r.mods, s.mods) \cap {224, 225} = {}
  /\ \E u, v \in Xor(r.mods, s.mods) : u # v

LEMMA SameCrcAlike ==
  ASSUME NEW byte, AsInTheCode(byte), NEW r \in KbReport, NEW s \in KbReport, Crc(r) = Crc(s)
  PROVE  r = s \/ Alike(r, s)
<1>1. PICK f \in SUBSET Modifier, k \in Key \cup {NoKey} : r = [mods |-> f, key |-> k]
  BY DEF KbReport
<1>2. PICK g \in SUBSET Modifier, l \in Key \cup {NoKey} : s = [mods |-> g, key |-> l]
  BY DEF KbReport
<1> DEFINE m == byte[f]
           n == byte[g]
<1>3. /\ m \in 0 .. 255 /\ Bits(m) = {usage - 224 : usage \in f}
      /\ n \in 0 .. 255 /\ Bits(n) = {usage - 224 : usage \in g}
      /\ k \in 0 .. 255 /\ l \in 0 .. 255
      /\ CrcOf(KeyReportBytes(m, k)) = CrcOf(KeyReportBytes(n, l))
  <2>1. byte[f] \in 0 .. 255 /\ byte[g] \in 0 .. 255
    <3>1. byte \in [SUBSET Modifier -> 0 .. 255]
      BY DEF AsInTheCode
    <3> QED BY <3>1, Zenon
  <2>2. Bits(byte[f]) = {usage - 224 : usage \in f} /\ Bits(byte[g]) = {usage - 224 : usage \in g}
    BY DEF AsInTheCode
  <2>3. k \in 0 .. 255 /\ l \in 0 .. 255
    <3>1. Key \cup {NoKey} \subseteq 0 .. 255
      BY DEF AsInTheCode
    <3> QED BY <3>1
  <2>4. Crc(r) = CrcOf(KeyReportBytes(byte[f], k))
    BY <1>1 DEF AsInTheCode
  <2>5. Crc(s) = CrcOf(KeyReportBytes(byte[g], l))
    BY <1>2 DEF AsInTheCode
  <2> QED BY <2>1, <2>2, <2>3, <2>4, <2>5
<1>4. f \subseteq 224 .. 231 /\ g \subseteq 224 .. 231
  BY DEF AsInTheCode
<1> HIDE DEF m, n
<1>5. \A usage \in 224 .. 231 : /\ usage \in f <=> usage - 224 \in Bits(m)
                                /\ usage \in g <=> usage - 224 \in Bits(n)
  <2> TAKE usage \in 224 .. 231
  <2>1. \A u \in f \cup g : u - 224 = usage - 224 => u = usage
    BY <1>4
  <2> QED BY <1>3, <2>1
<1>6. CASE m = n /\ k = l
  <2>1. f = g
    <3>1. \A usage \in 224 .. 231 : usage \in f <=> usage \in g
      BY <1>5, <1>6, Zenon
    <3> QED BY <1>4, <3>1, Zenon
  <2> QED BY <1>1, <1>2, <1>6, <2>1
<1>7. CASE MayCollide(m, k, n, l)
  <2>0. /\ k # l
        /\ Differing(m, n) \subseteq 2 .. 7
        /\ \E i, j \in Differing(m, n) : i # j
    BY <1>7 DEF MayCollide
  <2>1. \A usage \in 224 .. 231 : usage \in Xor(f, g) <=> usage - 224 \in Differing(m, n)
    BY <1>5 DEF Xor, Differing
  <2>2. Xor(f, g) \cap {224, 225} = {}
    <3>1. 0 \notin Differing(m, n) /\ 1 \notin Differing(m, n)
      BY <2>0
    <3>2. 224 \notin Xor(f, g) /\ 225 \notin Xor(f, g)
      BY <2>1, <3>1
    <3> QED BY <3>2
  <2>3. \E u, v \in Xor(f, g) : u # v
    <3>1. PICK i \in Differing(m, n), j \in Differing(m, n) : i # j
      BY <2>0
    <3>2. /\ i + 224 \in 224 .. 231 /\ (i + 224) - 224 = i
          /\ j + 224 \in 224 .. 231 /\ (j + 224) - 224 = j /\ i + 224 # j + 224
      BY <2>0, <3>1
    <3>3. i + 224 \in Xor(f, g) /\ j + 224 \in Xor(f, g)
      BY <2>1, <3>1, <3>2
    <3> QED BY <3>2, <3>3
  <2>4. r.key = k /\ s.key = l /\ r.mods = f /\ s.mods = g
    BY <1>1, <1>2
  <2> QED BY <2>0, <2>2, <2>3, <2>4 DEF Alike
<1>8. (m = n /\ k = l) \/ MayCollide(m, k, n, l)
  BY <1>3, CollisionsDiffer
<1> QED BY <1>6, <1>7, <1>8

LEMMA CrcIsNotNone ==
  ASSUME NEW byte, AsInTheCode(byte)
  PROVE  NoneIsApart
<1> SUFFICES ASSUME NEW r \in KbReport PROVE Crc(r) # NoCrc
  BY DEF NoneIsApart
<1>1. PICK f \in SUBSET Modifier, k \in Key \cup {NoKey} : r = [mods |-> f, key |-> k]
  BY DEF KbReport
<1>2. Crc(r) = CrcOf(KeyReportBytes(byte[f], k)) /\ NoCrc = {}
  BY <1>1 DEF AsInTheCode
<1> QED BY <1>2, SumsAreNotNone

\* With crc16 and any modifiers, a command that sends no report asks for what was asked
\* for before, or for another key with two other modifiers at least, none of them the
\* left Ctrl or the left Shift: no more is lost than the run of the collision shows.
THEOREM LeftOutIsAlike ==
  ASSUME NEW byte, AsInTheCode(byte)
  PROVE  Spec => [][pc = "idle" /\ pc' = "idle" =>
                      wanted' = wanted \/ Alike(wanted["kb"], wanted'["kb"])]_vars
<1>1. Init => RepeatInv
  BY InitTyped DEF Init, RepeatInv, SentIsWanted, CrcOfTheWanted
<1>2. NoneIsApart BY CrcIsNotNone
<1>3. RepeatInv /\ [Next]_vars => RepeatInv' BY <1>2, RepeatStep
<1>4. RepeatInv /\ [Next]_vars
        => [pc = "idle" /\ pc' = "idle" =>
              wanted' = wanted \/ Alike(wanted["kb"], wanted'["kb"])]_vars
  <2> SUFFICES ASSUME RepeatInv, [Next]_vars, pc = "idle", pc' = "idle"
               PROVE  wanted' = wanted \/ Alike(wanted["kb"], wanted'["kb"])
    OBVIOUS
  <2>1. SameSum /\ TypeOK /\ TypeOK' BY <1>2, RepeatStep DEF RepeatInv
  <2>2. wanted["kb"] \in KbReport /\ wanted'["kb"] \in KbReport BY <2>1 DEF TypeOK
  <2>3. wanted["kb"] = wanted'["kb"] \/ Alike(wanted["kb"], wanted'["kb"])
    BY <2>1, <2>2, SameCrcAlike DEF SameSum
  <2>. QED BY <2>1, <2>3 DEF SameSum, TypeOK
<1>. QED BY <1>1, <1>3, <1>4, PTL DEF Spec

\* With crc16, and no modifiers but the left Ctrl, the left Shift and one other, the
\* handler keeps both of its claims about keys.
THEOREM CommonKeysDelivered ==
  ASSUME NEW byte, AsInTheCode(byte), \A u, v \in Modifier \ {224, 225} : u = v
  PROVE  Spec => []OnlineMeansDelivered /\ OnlyRepeatsLeftOut
<1>1. ASSUME NEW r \in KbReport, NEW s \in KbReport, Crc(r) = Crc(s) PROVE r = s
  <2> SUFFICES ASSUME Alike(r, s) PROVE FALSE
    BY <1>1, SameCrcAlike
  <2>1. Xor(r.mods, s.mods) \subseteq Modifier
    BY DEF Xor, KbReport
  <2>2. PICK u \in Xor(r.mods, s.mods), v \in Xor(r.mods, s.mods) : u # v
    BY DEF Alike
  <2>3. u \in Modifier \ {224, 225} /\ v \in Modifier \ {224, 225}
    BY <2>1 DEF Alike
  <2> QED BY <2>2, <2>3
<1>2. TellsApart
  BY <1>1, CrcIsNotNone DEF TellsApart, NoneIsApart
<1>. QED BY <1>2, KeysAreDelivered, RepeatsLeftOut

-----------------------------------------------------------------------------
(* A move keeps the buttons and a button the position.                     *)

\* A mouse report with the position and the buttons asked for.
AsAsked(r) == r.pos = pos /\ r.button = button

MouseOnTheWay == IF ep["ms"] = "busy" THEN line["ms"] ELSE host["ms"]

Settling == /\ pc = "idle" /\ answer.to \in {"move", "button"}
            /\ "ms" \in answer.online /\ "ms" \in intact

\* The statics are what the commands ask for, a report under way carries both, and one
\* that was answered as sent is on its way to the host.
DragInv ==
  /\ TypeOK
  /\ AsAsked(wanted["ms"])
  /\ pc = "send" /\ job.op \in {"move", "button"} => job.device = "ms" /\ AsAsked(job.report)
  /\ Settling => AsAsked(MouseOnTheWay)

LEMMA CommandsAsk ==
  ASSUME DragInv, NEW c \in Command, Start(c)
  PROVE  /\ AsAsked(wanted["ms"])' /\ ~Settling'
         /\ pc' = "send" /\ job'.op \in {"move", "button"} =>
              job'.device = "ms" /\ AsAsked(job.report)'
<1>. USE DEF DragInv, TypeOK
<1>1. CASE Simple(c) \/ BadRaw(c)
  BY <1>1 DEF Simple, BadRaw, Begin, Respond, RespondRaw, AsAsked, Settling
<1>2. CASE KeyCommand(c)
  <2>1. wanted'["ms"] = wanted["ms"] /\ UNCHANGED <<pos, button>> BY <1>2 DEF KeyCommand
  <2>2. pc' = "send" => job'.op = "key" BY <1>2 DEF KeyCommand, Begin, StartSending, Respond
  <2>3. ~Settling' BY <1>2 DEF KeyCommand, Begin, StartSending, Respond, Settling
  <2>. QED BY <2>1, <2>2, <2>3 DEF AsAsked
<1>3. CASE MouseCommand(c)
  <2>1. PICK w \in Delta :
          StartSending(c.op, "ms", [button |-> button', pos |-> pos', wheel |-> w])
    BY <1>3 DEF MouseCommand
  <2>2. /\ pc' = "send" /\ job'.device = "ms"
        /\ job'.report = [button |-> button', pos |-> pos', wheel |-> w]
    BY <2>1 DEF StartSending
  <2>3. wanted'["ms"].pos = pos' /\ wanted'["ms"].button = button'
    BY <1>3 DEF MouseCommand, NewPos, AsAsked
  <2>. QED BY <2>2, <2>3 DEF AsAsked, Settling
<1>4. CASE WheelCommand(c)
  <2>1. wanted'["ms"].pos = pos' /\ wanted'["ms"].button = button'
    BY <1>4 DEF WheelCommand, AsAsked
  <2>2. pc' = "send" /\ job'.op = "wheel" BY <1>4 DEF WheelCommand, StartSending
  <2>. QED BY <2>1, <2>2 DEF AsAsked, Settling
<1>5. CASE RawCommand(c)
  <2>1. wanted' = wanted /\ UNCHANGED <<pos, button>> BY <1>5 DEF RawCommand
  <2>2. pc' = "send" /\ job'.op = "raw" BY <1>5 DEF RawCommand, StartSending
  <2>. QED BY <2>1, <2>2 DEF AsAsked, Settling
<1>. QED BY <1>1, <1>2, <1>3, <1>4, <1>5 DEF Start

LEMMA SendAsks ==
  ASSUME DragInv, Send
  PROVE  /\ AsAsked(wanted["ms"])' /\ (Settling => AsAsked(MouseOnTheWay))'
         /\ pc' = "send" /\ job'.op \in {"move", "button"} =>
              job'.device = "ms" /\ AsAsked(job.report)'
<1>. USE DEF DragInv, TypeOK
<1>1. UNCHANGED <<wanted, pos, button>> BY DEF Send, Accept, Retry, Fail, Finish, statics
<1>2. CASE Accept
  <2>1. pc' = "idle" BY <1>2 DEF Accept, Finish
  <2>2. CASE job.op \in {"move", "button"}
    <3>1. MouseOnTheWay' = job.report BY <1>2, <2>2 DEF Accept, MouseOnTheWay, Device
    <3>. QED BY <1>1, <1>2, <2>1, <2>2, <3>1 DEF Accept, AsAsked
  <2>3. CASE job.op \notin {"move", "button"}
    <3>1. answer'.to \notin {"move", "button"}
      BY <1>2, <2>3 DEF Accept, Finish, Respond, RespondRaw
    <3>. QED BY <1>1, <2>1, <3>1 DEF Settling, AsAsked
  <2>. QED BY <2>2, <2>3
<1>3. CASE Retry
  BY <1>1, <1>3 DEF Retry, AsAsked, Settling
<1>4. CASE Fail
  <2>1. pc' = "idle" BY <1>4 DEF Fail, Finish
  <2>2. ~Settling'
    <3>1. CASE job.op \in {"move", "button"}
      <4>1. "ms" \notin hid_state' BY <1>4, <3>1 DEF Fail, Finish
      <4>. QED BY <1>4, <3>1, <4>1 DEF Fail, Finish, Respond, Settling
    <3>2. CASE job.op \notin {"move", "button"}
      BY <1>4, <3>2 DEF Fail, Finish, Respond, RespondRaw, Settling
    <3>. QED BY <3>1, <3>2
  <2>. QED BY <1>1, <2>1, <2>2 DEF AsAsked
<1>. QED BY <1>2, <1>3, <1>4 DEF Send

LEMMA UsbAsks ==
  ASSUME DragInv, Usb
  PROVE  /\ AsAsked(wanted["ms"])' /\ (Settling => AsAsked(MouseOnTheWay))'
         /\ pc' = "send" /\ job'.op \in {"move", "button"} =>
              job'.device = "ms" /\ AsAsked(job.report)'
<1>. USE DEF DragInv, TypeOK
<1>1. UNCHANGED <<wanted, pos, button, pc, job, answer>>
  BY DEF Usb, Poll, Configure, Reset, FrameClock, statics
<1>2. intact' = {} \/ UNCHANGED <<MouseOnTheWay, intact>>
  <2>1. ASSUME NEW d \in Device, Poll(d) PROVE UNCHANGED <<MouseOnTheWay, intact>>
    BY <2>1 DEF Poll, MouseOnTheWay, Device
  <2>2. CASE Configure BY <2>2 DEF Configure, MouseOnTheWay, Device
  <2>3. CASE Reset BY <2>3 DEF Reset
  <2>4. CASE FrameClock BY <2>4 DEF FrameClock, MouseOnTheWay
  <2>. QED BY <2>1, <2>2, <2>3, <2>4 DEF Usb
<1>. QED BY <1>1, <1>2 DEF AsAsked, Settling

\* With any commands, positions and buttons: after a move or a button that is answered
\* as sent and fetched, the host's pointer is where the moves and its buttons are what
\* the buttons have asked for, whatever was refused before.
THEOREM DragsAreKept == Spec => []DragKept
<1>1. Init => DragInv
  BY InitTyped DEF Init, DragInv, AsAsked, Settling
<1>2. DragInv /\ [Next]_vars => DragInv'
  <2> SUFFICES ASSUME DragInv, [Next]_vars PROVE DragInv'
    OBVIOUS
  <2>1. TypeOK' BY TypeStep DEF DragInv
  <2>2. ASSUME NEW c \in Command, Start(c) PROVE DragInv'
    BY <2>1, <2>2, CommandsAsk DEF DragInv
  <2>3. CASE Send BY <2>1, <2>3, SendAsks DEF DragInv
  <2>4. CASE Usb BY <2>1, <2>4, UsbAsks DEF DragInv
  <2>5. CASE UNCHANGED vars
    BY <2>1, <2>5 DEF vars, statics, usbVars, DragInv, AsAsked, Settling, MouseOnTheWay
  <2>. QED BY <2>2, <2>3, <2>4, <2>5 DEF Next
<1>3. DragInv => DragKept
  BY DEF DragInv, DragKept, MouseSettled, PointerAsWanted, Settling, MouseOnTheWay, AsAsked
<1>. QED BY <1>1, <1>2, <1>3, PTL DEF Spec
=============================================================================
