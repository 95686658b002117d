SPECIFICATION FairSpec
CONSTANTS
  no_of_fft1b = 2
  InBlocks = 4
  OutSlots = 3
  Disturbances = {"mouse"}
PROPERTIES ImplementsStream
