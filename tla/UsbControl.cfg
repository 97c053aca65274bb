CONSTANTS
  Iface = {"kb"}
  Request <- MCRequest
  IdleRate = 5
  Prompt = TRUE
SPECIFICATION FairSpec
INVARIANTS TypeOK AnswersMatch ConfiguredIsOpen
PROPERTIES AddressLast TransferEnds BusyEnds
