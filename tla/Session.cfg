SPECIFICATION FairSpec
CONSTANTS
  KeyboardSize = 3
  Setups = {{}, {"TX_INPUT", "TX_OUTPUT"}}
  Faulty = {"TX_INPUT"}
  Disturbances = {}
INVARIANTS TypeOK EndsClean
PROPERTIES KeepsFirstError KeysRead KillEnds XEnds
CHECK_DEADLOCK FALSE
