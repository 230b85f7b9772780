CONSTANTS
    Tasks = {t1, t2}
    MaxCmds = 2
SPECIFICATION Spec
INVARIANTS SavedWhilePaused NoSnapshotUp WaitsAlone
PROPERTIES ResumeTakesEffect ImplementsPhase
CHECK_DEADLOCK FALSE
