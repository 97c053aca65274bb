CONSTANTS
  Frame <- MCPlainRequest
  Char = {"3", "@", "#", "cr", "lf", "d"}
  MaxCmd = 5
  Room = 9
  Window = 2
SPECIFICATION LiveSpec
INVARIANTS TypeOK
PROPERTIES NothingStranded BacklogClears
