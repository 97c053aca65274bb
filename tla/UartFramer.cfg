CONSTANTS
  Frame <- MCFrame
  Char = {"@", "#", "3", "cr", "lf", "d"}
  BufLen = 4
  PikvmLen = 3
  GapTicks = 2
  TickMod = 8
SPECIFICATION Spec
INVARIANTS TypeOK ExactFraming SilenceMeasured
