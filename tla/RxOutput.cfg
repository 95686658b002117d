SPECIFICATION FairSpec
CONSTANT Overlaps = {}
INVARIANTS TypeOK AtRest NoError
PROPERTIES StartsFilled SoundReturns StopReturns
CHECK_DEADLOCK FALSE
