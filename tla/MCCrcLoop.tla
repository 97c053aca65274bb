----------------------------- MODULE MCCrcLoop -----------------------------
(* All key codes, with every set of modifiers.  The common ones are the    *)
(* left Ctrl, Shift and Alt.                                               *)
EXTENDS CrcLoop

MCCommonMods == 0 .. 7
=============================================================================
