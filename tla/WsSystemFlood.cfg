SPECIFICATION Spec
CONSTANTS
  Peers = {p, b}
  Browsers = {b}
  MaxLinks = 2
  MaxQueue = 3
  Backlog = 1
  MAX_CLIENTS = 1
  Reactions = {}
  Interval = 1
  MaxSaid = 1
PROPERTIES
  DoesNotFlood
