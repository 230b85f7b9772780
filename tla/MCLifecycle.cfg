CONSTANTS
    Slots = {s1, s2, s3}
    Windows = {w1, w2}
SPECIFICATION Spec
INVARIANTS QuitSettled ActiveUnlessOvertaken
PROPERTY CallersReturn
CHECK_DEADLOCK FALSE
