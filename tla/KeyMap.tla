------------------------------- MODULE KeyMap -------------------------------
(***************************************************************************)
(* key_map_usb of app/hid_pikvm.c: the usage that a key code of Pi-KVM     *)
(* stands for.  The table goes through the usages in runs.                 *)
(***************************************************************************)
EXTENDS Naturals

\* KEY_ERROR_UNDEFINED
UndefinedUsage == 3

\* The eight modifiers, KEY_LEFT_CTRL to KEY_RIGHT_WINDOWS.
ModifierUsage == 224 .. 231

\* Mutant: the run of Insert begins one too early, where Pause is.
KeyRunsShifted == {<<1, 46, 4>>, <<47, 66, 51>>, <<67, 76, 72>>, <<77, 84, 224>>,
                   <<85, 85, 72>>, <<86, 86, 71>>, <<87, 87, 83>>, <<88, 88, 101>>,
                   <<89, 104, 84>>, <<105, 105, 102>>, <<106, 106, 100>>}

\* First and last code of a run, and the usage of the first.
KeyRuns == {<<1, 46, 4>>, <<47, 66, 51>>, <<67, 76, 73>>, <<77, 84, 224>>,
            <<85, 85, 72>>, <<86, 86, 71>>, <<87, 87, 83>>, <<88, 88, 101>>,
            <<89, 104, 84>>, <<105, 105, 102>>, <<106, 106, 100>>}

KeyMapUsb(code) ==
  IF \E r \in KeyRuns : code \in r[1] .. r[2]
  THEN LET r == CHOOSE r \in KeyRuns : code \in r[1] .. r[2]
       IN r[3] + (code - r[1])
  ELSE UndefinedUsage
=============================================================================
