SPECIFICATION Spec
CONSTANTS
  I2C_BUFFER_LENGTH = 2
  MaxQueue = 3
INVARIANTS
  ReadsShareBuffer
