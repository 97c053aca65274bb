------------------------------ MODULE MCHidCrc ------------------------------
(* Keyboard commands with the checksum that the code computes, and usages  *)
(* that are numbers: a modifier is the bit it sets in the first byte.      *)
EXTENDS MCHidHandler, Crc16, FiniteSetsExt

ReportCrc == [r \in KbReport |-> CrcOf(KeyReportBytes(SumSet(r.mods), r.key))]

MCNone == {}

MCReportCrc(r) == ReportCrc[r]
=============================================================================
