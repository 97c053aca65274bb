CONSTANTS
  Frame <- MCFrame
  Char = {"3", "@", "#", "cr", "lf", "d"}
  MaxCmd = 4
  Room = 7
  Window = 1
SPECIFICATION FairPoliteSpec
PROPERTIES ImplementsServer RequestAnswered
