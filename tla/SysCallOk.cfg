SPECIFICATION FairSpec
CONSTANTS
  Callers = {rxin, rxout}
  rxin = rxin
  rxout = rxout
  Settings = {att}
  att = att
  MaxChanges = 2
  Overlaps = {}
INVARIANTS TypeOK Served
PROPERTIES CallReturns SettingsReachHardware StopReturns
CHECK_DEADLOCK FALSE
