SPECIFICATION Spec
CONSTANTS
    NbEsclave = 1
    c1 = c1
    c2 = c2
    Clients = {c1, c2}
    Faults = {"session", "resume"}
    MaxRecords = 1
    MaxOwed = 2
INVARIANT BusySlaveHasClient
CHECK_DEADLOCK FALSE
