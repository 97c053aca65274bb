---------------------------- MODULE MCUartFramer ----------------------------
(* The framer with a buffer of four bytes, requests of three and a tick    *)
(* counter of three bits.  One of the raw frames has an end byte inside.    *)
EXTENDS UartFramer

MCFrame == {<<"3", "d", "cr">>, <<"3", "@", "3">>, <<"@", "d", "3", "lf">>, <<"#", "cr">>,
            <<"@", "cr", "d", "lf">>}
=============================================================================
