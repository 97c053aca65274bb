CONSTANTS
  Command <- MCKeyboard
  Key = {"a", "b"}
  Modifier = {"shift"}
  NoKey = "none"
  Undefined = "undefined"
  Pos = {"p0"}
  Button = {"up"}
  Delta = {"still"}
  TopLeft = "p0"
  NoButton = "up"
  Still = "still"
  Crc <- MCCrc
  NoCrc <- MCNoCrc
  Tries = 2
SPECIFICATION FairSpec
INVARIANTS TypeOK OnlineMeansDelivered
PROPERTIES KeyArrives OnlyRepeatsLeftOut
