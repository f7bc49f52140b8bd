SPECIFICATION Spec
CONSTANTS
    Limit = 3
    Hwm = 1
    GcodeSizes = {2}
    MaxRequests = 2
    MaxBuffer = 1
    ClientCommands = {"SendGcode", "GrblStatus"}
    Lines <- MCLines
PROPERTY
    StatusAnswersRealtime
CHECK_DEADLOCK FALSE
