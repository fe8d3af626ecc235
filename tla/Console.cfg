SPECIFICATION Spec
CONSTANTS
  CLOCK = 5
  dbTime = 2
  Durations = {1, 3}
PROPERTIES
  BounceFree
  ToneTimed
