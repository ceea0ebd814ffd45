SPECIFICATION Spec
CONSTANTS
    Size = 7
    MaxLine = 2
    Fragment = TRUE
    Faults = {"vanish"}
INVARIANT ResumeOffsetSafe
CHECK_DEADLOCK FALSE
