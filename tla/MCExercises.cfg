SPECIFICATION MCSpec
CONSTANTS
    MaxPids = 8
    MaxTyped = 2
    Contents <- MCContents
    BufSize = 3
    MaxLine = 3
    WireSize = 3
    Wrap = 8
    MaxTicks = 7
CHECK_DEADLOCK FALSE
INVARIANTS CallsInOrder OneAtATime ParentsReap RelayComplete
INVARIANTS StreamIntegrity PrintsTheTruth
PROPERTIES ProgramsEnd ReaderGetsAll
