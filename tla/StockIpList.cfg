SPECIFICATION Spec
CONSTANTS
    Ips = {"ip1", "ip2"}
    Offsets = {1, 2}
    MaxNodes = 3
PROPERTIES TightListImplements FailsOnlyWhenDangling
CHECK_DEADLOCK FALSE
