SPECIFICATION Spec
CONSTANTS
    Limit = 3
    Hwm = 1
    GcodeSizes = {2, 4}
    MaxRequests = 2
    MaxBuffer = 1
    ClientCommands = {"SendGcode", "GrblSettings"}
    Lines <- MCLines
INVARIANT
    RequestsFit
CHECK_DEADLOCK FALSE
