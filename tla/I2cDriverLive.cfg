SPECIFICATION FairSpec
CONSTANTS
  LAST = 5
  BLK = 1
  TXCAP = 2
  TXTHR = 0
  RXCAP = 3
  RXTHR = 2
  MaxQueue = 3
  MaxLength = 2
  Faults = {}
PROPERTIES
  ReadsComplete
