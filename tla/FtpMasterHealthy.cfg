SPECIFICATION Spec
CONSTANTS
    NbEsclave = 2
    c1 = c1
    c2 = c2
    Clients = {c1, c2}
    Faults = {"session"}
    MaxRecords = 1
    MaxOwed = 2
INVARIANTS BusySlaveHasClient RecordedIsOwed OwedIsRecorded
PROPERTY HandsToIdleSlave
CHECK_DEADLOCK FALSE
