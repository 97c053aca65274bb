CONSTANTS
  QSize = 4
  Byte = {0, 1, 2}
  Zero = 0
  Message <- MCMessage
  MaxRecv = 4
SPECIFICATION TornSpec
INVARIANTS TypeOK FreeSlotsAreClear DequeueInv CallsAsPromised TakenOnceInOrder
PROPERTIES SlotInUseIsStable ImplementsFifo
