--------------------------- MODULE RequestServer ---------------------------
(***************************************************************************)
(* What a host that waits for each answer is promised: the commands that   *)
(* are handled are its requests, whole, each at most once and in order.    *)
(* A request may get lost on the way; then the host gives it up.           *)
(***************************************************************************)
EXTENDS Sequences

CONSTANTS Frame,        \* the requests
          Payload(_)    \* the command that a request stands for

VARIABLES waiting,      \* the request whose answer the host waits for, at most one
          command       \* the command handled last

serverVars == <<waiting, command>>

ServerInit == waiting = <<>> /\ command = <<>>

Submit(f) == /\ waiting = <<>>
             /\ waiting' = <<f>>
             /\ UNCHANGED command

Serve == /\ waiting # <<>>
         /\ command' = Payload(waiting[1])
         /\ waiting' = <<>>

GiveUp == /\ waiting # <<>>
          /\ waiting' = <<>>
          /\ UNCHANGED command

ServerNext == (\E f \in Frame : Submit(f)) \/ Serve \/ GiveUp

ServerSpec == ServerInit /\ [][ServerNext]_serverVars
=============================================================================
