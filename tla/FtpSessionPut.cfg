SPECIFICATION Spec
CONSTANTS
    Commands = {"GET", "PUT", "EXIT"}
    MaxCmds = 3
    Sizes = {5, 13}
    MaxLine = 8
    Faults = {"afterput"}
PROPERTY GetDelivers
CHECK_DEADLOCK FALSE
