SPECIFICATION FairSpec
CONSTANTS
    NbEsclave = 1
    c1 = c1
    c2 = c2
    Clients = {c1, c2}
    Faults = {"session"}
    MaxRecords = 1
    MaxOwed = 2
PROPERTIES DispatcherReturns SlaveFreed
