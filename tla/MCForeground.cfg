SPECIFICATION MCSpec
CONSTANTS
    BufLen = 2
    FirstLines <- MCFirstLines
    NextLines <- MCNextLines
    MaxLines = 2
    Keys = 0
    MaxCmd = 3
    MaxChars = 13
    Junk = {0, 4}
    Flavours = {"shell"}
    NbEsclave = 2
    Started = {s1, s2, s3}
    Callers = {c1, c2}
    Inputs <- MCInputs
    Garbage <- MCGarbage
    Size = 7
    MaxLine = 2
    Fragment = FALSE
    Faults = {"slow", "vanish", "kill", "noreport"}
CHECK_DEADLOCK FALSE
INVARIANT ForegroundWaited
