SPECIFICATION FairSpec
CONSTANTS
  Formats = {"raw24"}
  Block = 4
  Payload = 3
  Limit = 8
  Numbers = 7
  Depth = 2
  MaxFaults = 1
  Disturbances = {"raw24"}
PROPERTIES FillEnds
CHECK_DEADLOCK FALSE
