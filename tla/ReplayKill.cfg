SPECIFICATION FairSpec
CONSTANTS
  Timf1N = 5
  max_fft1n = 12
  fft1_muln = 1
  Setups <- OneSetup
  Delay = 1
  afc_tpts = 3
  Refill = 1
  Timf3N = 1
  BasebN = 1
  Disturbances = {"stop"}
PROPERTIES Ends
VIEW ReplayView
CHECK_DEADLOCK FALSE
