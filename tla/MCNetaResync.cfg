CONSTANTS
    Procs = {p1, p2}
    MaxSends = 3
    MaxTran = 1
SPECIFICATION Spec
INVARIANT Resynchronised
CHECK_DEADLOCK FALSE
