CONSTANTS
    Procs = {p1, p2}
    MaxSends = 3
    MaxTran = 1
SPECIFICATION Spec
INVARIANTS Serialised OwnInTime
PROPERTY KeyGivenUp
CHECK_DEADLOCK FALSE
