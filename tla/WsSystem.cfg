SPECIFICATION FairSpec
CONSTANTS
  Peers = {p, b}
  Browsers = {b}
  MaxLinks = 2
  MaxQueue = 3
  Backlog = 1
  MAX_CLIENTS = 1
  Reactions = {"broadcast", "disconnect"}
  Interval = 1
  MaxSaid = 2
INVARIANTS
  SlotsSound
  BothAgree
  OnlyWebSockets
PROPERTIES
  EventsAreSessions
  SlotsComeBack
