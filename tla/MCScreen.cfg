SPECIFICATION FairSpec
CONSTANTS
  TFT_WIDTH = 5
  TFT_HEIGHT = 6
  Calls <- MCCalls
INVARIANTS
  CacheTrue
  BusSound
  Drawn
PROPERTIES
  BusComesBack
