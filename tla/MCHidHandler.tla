---------------------------- MODULE MCHidHandler ----------------------------
(* The commands of the keyboard and of the mouse, and a checksum that      *)
(* tells all reports apart.                                                *)
EXTENDS HidHandler

MCCrc(r) == r
MCNoCrc == [mods |-> {}, key |-> "crc"]

MCKeys == [op : {"key"}, code : Key \cup Modifier \cup {Undefined}, press : BOOLEAN]

MCKeyboard ==
  MCKeys \cup {[op |-> "rawkb", report |-> Released], [op |-> "badraw"],
                    [op |-> "repeat"], [op |-> "unknown"],
                    [op |-> "damaged", header |-> TRUE, crc |-> FALSE]}

MCMouse ==
  [op : {"move"}, pos : Pos] \cup [op : {"button"}, button : Button]
    \cup [op : {"wheel"}, delta : Delta]
    \cup {[op |-> "rawms", report |-> AtRest], [op |-> "ping"]}

MCMouseOnly == {c \in MCMouse : c.op \in {"move", "button", "wheel"}}
MCMouseNoWheel == {c \in MCMouse : c.op \in {"move", "button"}}
=============================================================================
