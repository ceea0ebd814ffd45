SPECIFICATION FairSpec
CONSTANTS
    Commands = {"LS", "MKDIR", "GET", "PUT", "EXIT"}
    MaxCmds = 3
    Sizes = {5, 13}
    MaxLine = 8
    Faults = {"empty", "unwritable", "typeahead", "afterput", "interrupt"}
INVARIANTS InStep ExecutesTyped
PROPERTIES GetDeliversInStep UploadArrives SessionReported ClientAnswered
CHECK_DEADLOCK FALSE
