----------------------------- MODULE HidHandler -----------------------------
(***************************************************************************)
(* The handlers of the commands, handle_pikvm_command of app/hid_pikvm.c   *)
(* and handle_rawkvm_command of app/hid_rawkvm.c, with what they call:     *)
(* send_hid_report and the state of the two devices (app/common_kvm.c) and *)
(* the check of the USB frame number in handle_command (app/cli_task.c).   *)
(* The handlers run in the command task.  While a report waits for its     *)
(* endpoint the host may poll, reset or configure the device.              *)
(*                                                                         *)
(* A keyboard report is the set of modifiers and one key, a mouse report   *)
(* buttons, position and wheel.  An endpoint takes one report at a time.   *)
(***************************************************************************)
EXTENDS Naturals

CONSTANTS Command,     \* the commands that are handled
          Key,         \* the usages of ordinary keys
          Modifier,    \* the usages of the modifier keys
          NoKey,       \* the usage 0
          Undefined,   \* KEY_ERROR_UNDEFINED
          Pos, Button, Delta,   \* mouse positions, button sets, wheel movements
          TopLeft, NoButton, Still,   \* their zeros
          Crc(_),      \* crc16 of a keyboard report
          NoCrc,       \* the initial value of last_crc
          Tries        \* the attempts of send_hid_report, retry + 1

Device == {"kb", "ms"}

KbReport == [mods : SUBSET Modifier, key : Key \cup {NoKey}]
MsReport == [button : Button, pos : Pos, wheel : Delta]

Released == [mods |-> {}, key |-> NoKey]

ASSUME HandlerAssumption ==
  /\ Tries \in Nat \ {0}
  /\ TopLeft \in Pos /\ NoButton \in Button /\ Still \in Delta
  /\ Key \cap Modifier = {} /\ {NoKey, Undefined} \cap (Key \cup Modifier) = {}
  /\ \A c \in Command :
       \/ c.op \in {"ping", "clear", "repeat", "unknown", "badraw"}
       \/ c.op = "damaged" /\ c.header \in BOOLEAN /\ c.crc \in BOOLEAN
       \/ c.op = "key" /\ c.press \in BOOLEAN /\ c.code \in Key \cup Modifier \cup {Undefined}
       \/ c.op = "move" /\ c.pos \in Pos
       \/ c.op = "button" /\ c.button \in Button
       \/ c.op = "wheel" /\ c.delta \in Delta
       \/ c.op = "rawkb" /\ c.report \in KbReport
       \/ c.op = "rawms" /\ c.report \in MsReport

VARIABLES modifier, last_crc, pos, button,   \* statics of handle_pikvm_command
          prev_code,   \* static of send_uart_rsp
          hid_state,   \* the devices whose bit is set
          last_fnr,    \* whether FNR showed the lock at the last command
          pc,          \* "idle" or "send"
          job,         \* in "send": the command, its report and the attempts left
          answer,      \* the latest answer and the kind of command it is to
          locked,      \* USB_FNR_LCK: start-of-frame packets are received
          ep, line,    \* per device: the state of its IN endpoint, the report in it
          host,        \* per device: the report that the host goes by
          wanted,      \* history, per device: what the latest commands ask for
          intact       \* history: the devices that nothing but commands has changed
                       \*   since a report of a command was accepted

statics == <<modifier, last_crc, pos, button, prev_code, hid_state, last_fnr>>
usbVars == <<locked, ep, line, host>>
vars == <<statics, pc, job, answer, usbVars, wanted, intact>>

NoJob == [op |-> "none"]
AtRest == [button |-> NoButton, pos |-> TopLeft, wheel |-> Still]

Init == /\ modifier = {} /\ last_crc = NoCrc /\ pos = TopLeft /\ button = NoButton
        /\ prev_code = "none" /\ hid_state = Device /\ last_fnr = FALSE
        /\ pc = "idle" /\ job = NoJob
        /\ answer = [code |-> "none", online |-> {}, to |-> "none"]
        /\ locked = FALSE
        /\ ep = [d \in Device |-> "closed"]
        /\ line = [kb |-> Released, ms |-> AtRest]
        /\ host = [kb |-> Released, ms |-> AtRest]
        /\ wanted = [kb |-> Released, ms |-> [button |-> NoButton, pos |-> TopLeft]]
        /\ intact = {}

-----------------------------------------------------------------------------
(* The answer, and the state of the devices it reports.                    *)

\* Before a command is handled the frame number register is looked at: when the
\* lock is lost both devices count as offline, when it is regained as online.
StateNow == IF ~locked THEN {} ELSE IF ~last_fnr THEN Device ELSE hid_state

Begin == pc = "idle" /\ last_fnr' = locked

\* send_uart_rsp.  Only PONG_OK tells the state of the devices.
Respond(code, to) ==
  LET c == IF code = "repeat" THEN prev_code ELSE code
  IN /\ prev_code' = c
     /\ answer' = [code |-> c, online |-> IF c = "pong" THEN hid_state' ELSE {}, to |-> to]

\* Raw reports are answered by $OK or $ERR.
RespondRaw(code) == /\ answer' = [code |-> code, online |-> {}, to |-> "raw"]
                    /\ UNCHANGED prev_code

-----------------------------------------------------------------------------
(* Commands that send no report.                                           *)

\* An error of the checksum hides one of the header.
SimpleCode(c) == CASE c.op \in {"ping", "clear"} -> "pong"
                   [] c.op = "repeat" -> "repeat"
                   [] c.op = "unknown" -> "invalid"
                   [] c.op = "damaged" -> IF c.crc THEN "crc" ELSE "invalid"

Simple(c) == /\ Begin /\ c.op \in {"ping", "clear", "repeat", "unknown", "damaged"}
             /\ hid_state' = StateNow
             /\ Respond(SimpleCode(c), c.op)
             /\ UNCHANGED <<modifier, last_crc, pos, button, pc, job, usbVars, wanted, intact>>

BadRaw(c) == /\ Begin /\ c.op = "badraw"
             /\ hid_state' = StateNow
             /\ RespondRaw("err2")
             /\ UNCHANGED <<modifier, last_crc, pos, button, pc, job, usbVars, wanted, intact>>

-----------------------------------------------------------------------------
(* Commands that send one.                                                 *)

StartSending(op, device, report) ==
  /\ pc' = "send"
  /\ job' = [op |-> op, device |-> device, report |-> report, left |-> Tries]
  /\ UNCHANGED <<prev_code, answer>>

\* A modifier takes part in the report of the next key, and its press sends none.
\* A release of any key releases them all.
Skipped(c) == c.press /\ c.code \notin Key

KeyReport(c) == IF c.press THEN [mods |-> modifier, key |-> c.code] ELSE Released

\* Mutant: any key sets a bit.
NewModifierUnchecked(c) == IF c.press THEN modifier \cup {c.code} ELSE modifier \ {c.code}

NewModifier(c) == IF c.press THEN modifier \cup ({c.code} \cap Modifier)
                             ELSE modifier \ {c.code}

\* A report that has the checksum of the last one counts as sent.
KeyCommand(c) ==
  /\ Begin /\ c.op = "key"
  /\ hid_state' = StateNow
  /\ modifier' = NewModifier(c)
  /\ IF Skipped(c)
     THEN Respond("pong", "modifier") /\ UNCHANGED <<pc, job, wanted>>
     ELSE /\ wanted' = [wanted EXCEPT !["kb"] = KeyReport(c)]
          /\ IF last_crc = Crc(KeyReport(c))
             THEN Respond("pong", "key") /\ UNCHANGED <<pc, job>>
             ELSE StartSending("key", "kb", KeyReport(c))
  /\ UNCHANGED <<last_crc, pos, button, usbVars, intact>>

\* Mutant: the position is not kept from one command to the next.
NewPosForgotten(c) == IF c.op = "move" THEN c.pos ELSE TopLeft

NewPos(c) == IF c.op = "move" THEN c.pos ELSE pos

\* The byte of the wheel is not assigned: it holds what was on the stack.
MouseCommand(c) ==
  /\ Begin /\ c.op \in {"move", "button"}
  /\ hid_state' = StateNow
  /\ pos' = NewPos(c)
  /\ button' = IF c.op = "button" THEN c.button ELSE button
  /\ \E w \in Delta :
       StartSending(c.op, "ms", [button |-> button', pos |-> pos', wheel |-> w])
  /\ wanted' = IF c.op = "move" THEN [wanted EXCEPT !["ms"].pos = c.pos]
                               ELSE [wanted EXCEPT !["ms"].button = c.button]
  /\ UNCHANGED <<modifier, last_crc, usbVars, intact>>

\* The buttons are let go and the position is left at zero.
WheelCommand(c) ==
  /\ Begin /\ c.op = "wheel"
  /\ hid_state' = StateNow
  /\ button' = NoButton
  /\ StartSending("wheel", "ms", [button |-> NoButton, pos |-> TopLeft, wheel |-> c.delta])
  /\ wanted' = [wanted EXCEPT !["ms"].button = NoButton]
  /\ UNCHANGED <<modifier, last_crc, pos, usbVars, intact>>

RawCommand(c) ==
  /\ Begin /\ c.op \in {"rawkb", "rawms"}
  /\ hid_state' = StateNow
  /\ StartSending("raw", IF c.op = "rawkb" THEN "kb" ELSE "ms", c.report)
  /\ UNCHANGED <<modifier, last_crc, pos, button, usbVars, wanted, intact>>

-----------------------------------------------------------------------------
(* send_hid_report, and what the handlers do with its result.              *)

\* Mutant: the checksum is remembered although the report was not sent.
NewCrcAlways(sent) == IF job.op = "key" THEN Crc(job.report) ELSE last_crc

\* Mutant: what was remembered before a failure is kept.
NewCrcKept(sent) == IF job.op = "key" /\ sent THEN Crc(job.report) ELSE last_crc

NewCrc(sent) == IF job.op # "key" THEN last_crc
                ELSE IF sent THEN Crc(job.report) ELSE NoCrc

Finish(sent) ==
  /\ hid_state' = IF job.op = "raw" THEN hid_state
                  ELSE IF sent THEN hid_state \cup {job.device}
                  ELSE hid_state \ {job.device}
  /\ last_crc' = NewCrc(sent)
  /\ IF job.op = "raw" THEN RespondRaw(IF sent THEN "ok" ELSE "err3")
                       ELSE Respond("pong", job.op)
  /\ pc' = "idle" /\ job' = NoJob
  /\ UNCHANGED <<modifier, pos, button, last_fnr>>

\* Mutant: a report replaces the one that the host has not fetched yet.
TakesOverwriting(d) == ep[d] # "closed"

\* USBD_HID_ReportIn accepts a report.
Takes(d) == ep[d] = "idle"

Accept == /\ pc = "send" /\ Takes(job.device)
          /\ ep' = [ep EXCEPT ![job.device] = "busy"]
          /\ line' = [line EXCEPT ![job.device] = job.report]
          /\ intact' = IF job.op = "raw" THEN intact \ {job.device}
                                       ELSE intact \cup {job.device}
          /\ Finish(TRUE)
          /\ UNCHANGED <<locked, host, wanted>>

Retry == /\ pc = "send" /\ ~Takes(job.device) /\ job.left > 1
         /\ job' = [job EXCEPT !.left = @ - 1]
         /\ UNCHANGED <<statics, pc, answer, usbVars, wanted, intact>>

Fail == /\ pc = "send" /\ ~Takes(job.device) /\ job.left = 1
        /\ Finish(FALSE)
        /\ UNCHANGED <<usbVars, wanted, intact>>

-----------------------------------------------------------------------------
(* The USB host.                                                           *)

Poll(d) == /\ ep[d] = "busy"
           /\ ep' = [ep EXCEPT ![d] = "idle"]
           /\ host' = [host EXCEPT ![d] = line[d]]
           /\ UNCHANGED <<statics, pc, job, answer, locked, line, wanted, intact>>

\* Configuration and reset open and close the endpoints.  After a reset the host
\* takes keys and buttons to be released.
Configure == /\ \A d \in Device : ep[d] = "closed"
             /\ ep' = [d \in Device |-> "idle"]
             /\ UNCHANGED <<statics, pc, job, answer, locked, line, host, wanted, intact>>

Reset == /\ \E d \in Device : ep[d] # "closed"
         /\ ep' = [d \in Device |-> "closed"]
         /\ host' = [kb |-> Released, ms |-> [host["ms"] EXCEPT !.button = NoButton]]
         /\ intact' = {}
         /\ UNCHANGED <<statics, pc, job, answer, locked, line, wanted>>

\* The bus is suspended or resumed.
FrameClock == /\ locked' = ~locked
              /\ UNCHANGED <<statics, pc, job, answer, ep, line, host, wanted, intact>>

-----------------------------------------------------------------------------

Start(c) == \/ Simple(c) \/ BadRaw(c) \/ KeyCommand(c)
            \/ MouseCommand(c) \/ WheelCommand(c) \/ RawCommand(c)

Send == Accept \/ Retry \/ Fail

Usb == (\E d \in Device : Poll(d)) \/ Configure \/ Reset \/ FrameClock

Next == (\E c \in Command : Start(c)) \/ Send \/ Usb

Spec == Init /\ [][Next]_vars

\* The task goes on running, and the host polls what it has configured.
FairSpec == Spec /\ WF_vars(Send) /\ \A d \in Device : WF_vars(Poll(d))

-----------------------------------------------------------------------------

Code == {"none", "pong", "crc", "invalid"}

TypeOK ==
  /\ modifier \in SUBSET Modifier /\ pos \in Pos /\ button \in Button
  /\ last_crc \in {Crc(r) : r \in KbReport} \cup {NoCrc}
  /\ prev_code \in Code /\ hid_state \in SUBSET Device /\ last_fnr \in BOOLEAN
  /\ pc \in {"idle", "send"}
  /\ pc = "send" =>
       /\ job.left \in 1 .. Tries
       /\ \/ job.op \in {"key", "raw"} /\ job.device = "kb" /\ job.report \in KbReport
          \/ job.op \in {"move", "button", "wheel", "raw"} /\ job.device = "ms"
               /\ job.report \in MsReport
  /\ locked \in BOOLEAN /\ ep \in [Device -> {"closed", "idle", "busy"}]
  /\ line \in [kb : KbReport, ms : MsReport] /\ host \in [kb : KbReport, ms : MsReport]
  /\ wanted \in [kb : KbReport, ms : [button : Button, pos : Pos]]
  /\ intact \in SUBSET Device

\* The checksum tells keyboard reports apart from each other and from none.  crc16
\* does so for the left Ctrl, Shift and Alt, not for every combination of modifiers.
TellsApart == /\ \A r, s \in KbReport : Crc(r) = Crc(s) => r = s
              /\ \A r \in KbReport : Crc(r) # NoCrc

\* The report a key command asks for has reached the host or is in the endpoint.
OnTheWay == IF ep["kb"] = "busy" THEN line["kb"] ELSE host["kb"]

Delivered == wanted["kb"] = OnTheWay

\* The latest answer tells of a keyboard that is online and does what was asked.
KeyAnswered == /\ pc = "idle" /\ answer.to = "key"
               /\ "kb" \in answer.online /\ "kb" \in intact

\* An answer to a key that reports the keyboard online means that the host's
\* keyboard is what was asked for, or will be once the host polls: no key press
\* is left out and no key stays pressed unnoticed, whatever was refused, left out
\* as a duplicate or retried before (hid_pikvm.c:304-320).  A reset of the bus and
\* raw keyboard reports change the host's keyboard behind the handler's back.
OnlineMeansDelivered == KeyAnswered => Delivered

\* What makes it so.  A report of a key under way is what was asked for last, and
\* last_crc, unless it is none, is the checksum of the report that the host has or
\* is about to fetch.
SentIsWanted == pc = "send" /\ job.op = "key" =>
                  job.device = "kb" /\ job.report = wanted["kb"]

CrcOfTheLast == "kb" \in intact /\ last_crc # NoCrc => last_crc = Crc(OnTheWay)

DeliveryInv == TypeOK /\ SentIsWanted /\ CrcOfTheLast /\ OnlineMeansDelivered

\* Only a repetition is left out: whatever was refused, reset or sent as a raw report in
\* between, a command that sends nothing has asked for what the command before it did.
\* So after such a change behind its back the handler is out of step until the next
\* report that differs, and no longer (hid_pikvm.c:304-320).
OnlyRepeatsLeftOut == [][pc = "idle" /\ pc' = "idle" => wanted' = wanted]_vars

\* What makes it so.  Between key reports last_crc, unless it is none, is the checksum
\* of the one asked for last.
CrcOfTheWanted ==
  (pc = "send" => job.op # "key") /\ last_crc # NoCrc => last_crc = Crc(wanted["kb"])

\* A key that is answered so gets to the host, even when other keys follow at once,
\* unless the bus is reset or a raw report is sent (common_kvm.c:58-75).
KeyArrives ==
  \A r \in KbReport :
    KeyAnswered /\ wanted["kb"] = r ~> host["kb"] = r \/ "kb" \notin intact

\* What the host makes of a mouse report that it has fetched.
MouseSettled(ops) == /\ pc = "idle" /\ answer.to \in ops /\ "ms" \in answer.online
                     /\ "ms" \in intact /\ ep["ms"] = "idle"

PointerAsWanted == /\ host["ms"].pos = wanted["ms"].pos
                   /\ host["ms"].button = wanted["ms"].button

\* A move keeps the buttons pressed before and a button the position moved to, also
\* when reports between them were refused (hid_pikvm.c:241-276).
DragKept == MouseSettled({"move", "button"}) => PointerAsWanted

\* The pointer stays where it was moved to until it is moved again: the report has
\* absolute positions (usb_device.c:165-172).
PointerStays == MouseSettled({"move", "button", "wheel"}) => PointerAsWanted

\* Only a wheel command scrolls: the wheel of the report is relative
\* (usb_device.c:181-186).
NoStrayScroll == MouseSettled({"move", "button"}) => host["ms"].wheel = Still
=============================================================================
