CONSTANTS
  Command <- MCMouseNoWheel
  Key = {"a"}
  Modifier = {}
  NoKey = "none"
  Undefined = "undefined"
  Pos = {"p0", "p1"}
  Button = {"up", "left"}
  Delta = {"still", "down"}
  TopLeft = "p0"
  NoButton = "up"
  Still = "still"
  Crc <- MCCrc
  NoCrc <- MCNoCrc
  Tries = 2
SPECIFICATION Spec
INVARIANTS NoStrayScroll
