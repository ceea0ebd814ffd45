SPECIFICATION MCSpec
CONSTANTS
    BufLen = 2
    FirstLines <- MCFirstLines
    NextLines <- MCNextLines
    MaxLines = 2
    Keys = 1
    MaxCmd = 3
    MaxChars = 13
    Junk = {0, 4}
    Flavours = {"shell", "tst"}
    NbEsclave = 2
    Started = {s1, s2, s3}
    Callers = {c1, c2}
    Inputs <- MCInputs
    Garbage <- MCGarbage
    Size = 7
    MaxLine = 2
    Fragment = FALSE
    Faults = {"slow", "vanish", "kill", "noreport"}
CHECK_DEADLOCK FALSE
INVARIANTS LineWords WordsOwnedOnce NoLostChild ForegroundAlone
INVARIANTS DispatcherSeesAll FailureIsTold SendsWhatIsTyped
INVARIANTS TypeOK ResumeOffsetSafe FileIntegrity NoStrayAck
PROPERTIES SuccessMeansDelivered TransferEnds ReceptionEnds SlaveReleased
PROPERTIES PromptReturns StartupEnds
