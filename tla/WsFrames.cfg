SPECIFICATION FairSpec
CONSTANTS
  MAX_DATA_SIZE = 15360
  Lengths = {0, 126, 65535}
  Opcodes = {1}
  Forms = {"best", "64", "huge"}
  Noise = {136}
  Server = FALSE
  MaxFrames = 2
INVARIANTS
  BuffersHold
  NotDeaf
  InStep
PROPERTIES
  Drains
