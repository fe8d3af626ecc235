SPECIFICATION RefillSpec
CONSTANTS
  LAST = 5
  BLK = 2
  MaxEntries = 1
  LongestTransfer = 1
  Addresses = {80, 30805}
INVARIANTS
  TenBitFormat
