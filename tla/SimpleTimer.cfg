SPECIFICATION FairSpec
CONSTANTS
  MAX_TIMERS = 2
  Wrap = 4
  Delays = {0, 1, 2}
  Runs = {0, 1, 2}
  MaxStall = 3
  UserOps = {"delete", "restart", "enable", "disable", "toggle"}
INVARIANTS
  PoolSound
  RunsCounted
  NeverEarly
PROPERTIES
  EndsAfterNCalls
