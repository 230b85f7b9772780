SPECIFICATION BringUpSpec
INVARIANTS OneSimulator UpIsReady
PROPERTY StartEnds
CHECK_DEADLOCK FALSE
