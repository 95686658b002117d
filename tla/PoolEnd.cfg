SPECIFICATION FairSpec
CONSTANTS
  no_of_fft1b = 1
  InBlocks = 2
  OutSlots = 2
  Disturbances = {"kill", "stop", "txtest", "overrun"}
PROPERTIES StopReturns PauseReturns KillReturns
VIEW PoolView
