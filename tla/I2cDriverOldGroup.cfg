SPECIFICATION Spec
CONSTANTS
  LAST = 5
  BLK = 2
  TXCAP = 2
  TXTHR = 0
  RXCAP = 3
  RXTHR = 2
  MaxQueue = 2
  MaxLength = 3
  Faults = {"timeout", "oldGroup"}
INVARIANTS
  FreshBits
