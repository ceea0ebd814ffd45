SPECIFICATION Spec
CONSTANTS
    NbEsclave = 2
    c1 = c1
    Clients = {c1}
    Faults = {"session", "kill", "resume", "dial", "die"}
    MaxRecords = 1
    MaxOwed = 2
INVARIANT FreeSlaveHasNoClient
CHECK_DEADLOCK FALSE
