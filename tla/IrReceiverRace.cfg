SPECIFICATION Spec
CONSTANTS
  RAWBUF = 6
  GAP_TICKS = 3
  MinSamples = 4
INVARIANTS
  AlwaysAlternating
