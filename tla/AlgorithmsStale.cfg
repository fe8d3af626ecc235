SPECIFICATION Spec
CONSTANTS
  Reach = 1
CHECK_DEADLOCK FALSE
INVARIANTS
  OnlyWhatWasReceived
