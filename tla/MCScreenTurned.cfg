SPECIFICATION Spec
CONSTANTS
  TFT_WIDTH = 5
  TFT_HEIGHT = 6
  Calls <- MCCalls
INVARIANTS
  SizesAgree
