SPECIFICATION Spec
CONSTANTS
  MAX_TIMERS = 2
  Wrap = 4
  Delays = {1}
  Runs = {1, 2}
  MaxStall = 1
  UserOps = {"delete"}
PROPERTIES
  RemovedAfterNCalls
