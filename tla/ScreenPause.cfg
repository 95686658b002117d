SPECIFICATION FairSpec
CONSTANTS
  Pausers = {keyboard, mouse}
  keyboard = keyboard
  mouse = mouse
  Overlaps = {}
INVARIANTS TypeOK AtRest
PROPERTIES PauseReturns KeepsDrawing StopReturns KillReturns
