SPECIFICATION Spec
CONSTANTS
    Ips = {"ip1", "ip2"}
    Offsets = {1}
    MaxNodes = 3
PROPERTY ResumeOnlyAfterCrash
