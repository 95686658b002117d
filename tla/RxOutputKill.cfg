SPECIFICATION FairSpec
CONSTANT Overlaps = {"early", "late", "slow"}
PROPERTIES KillReturns
CHECK_DEADLOCK FALSE
