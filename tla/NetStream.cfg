SPECIFICATION FairSpec
CONSTANTS
  Formats = {"raw16", "raw24", "fft1", "basebraw", "timf2"}
  Block = 4
  Payload = 3
  Limit = 8
  Numbers = 7
  Depth = 2
  MaxFaults = 2
  Disturbances = {}
INVARIANTS TypeOK Exact
PROPERTIES LateNotFilled Recovers StopReturns
CHECK_DEADLOCK FALSE
