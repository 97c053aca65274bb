CONSTANTS
  Command <- MCKeys
  Key = {15, 17}
  Modifier = {4, 16}
  NoKey = 0
  Undefined = 1
  Pos = {"p0"}
  Button = {"up"}
  Delta = {"still"}
  TopLeft = "p0"
  NoButton = "up"
  Still = "still"
  Crc <- MCReportCrc
  NoCrc <- MCNone
  Tries = 2
SPECIFICATION Spec
INVARIANTS OnlineMeansDelivered
