SPECIFICATION RefillSpec
CONSTANTS
  LAST = 5
  BLK = 2
  MaxEntries = 3
  LongestTransfer = 5
  Addresses = {80}
INVARIANTS
  WholeQueue
PROPERTIES
  MovesInOrder
