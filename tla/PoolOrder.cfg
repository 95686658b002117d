SPECIFICATION Spec
CONSTANTS
  no_of_fft1b = 2
  InBlocks = 4
  OutSlots = 3
  Disturbances = {"overrun", "f5"}
INVARIANTS TypeOK ComputesOnlyAssigned
PROPERTIES PublishesInOrder
VIEW PoolView
