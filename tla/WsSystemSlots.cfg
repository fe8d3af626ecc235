SPECIFICATION Spec
CONSTANTS
  Peers = {p, b}
  Browsers = {b}
  MaxLinks = 3
  MaxQueue = 3
  Backlog = 1
  MAX_CLIENTS = 2
  Reactions = {"disconnect"}
  Interval = 0
  MaxSaid = 1
INVARIANTS
  SlotsSound
  BothAgree
  OnlyWebSockets
PROPERTIES
  EventsAreSessions
