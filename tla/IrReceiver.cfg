SPECIFICATION FairSpec
CONSTANTS
  RAWBUF = 6
  GAP_TICKS = 3
  MinSamples = 4
INVARIANTS
  TypeOK
  ReadsRecorded
  Alternating
PROPERTIES
  HeldFrame
  ListensAgain
