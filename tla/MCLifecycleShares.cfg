CONSTANTS
    Slots = {s1, s2}
    Windows = {w1}
SPECIFICATION Spec
PROPERTY SharesReturn
CHECK_DEADLOCK FALSE
