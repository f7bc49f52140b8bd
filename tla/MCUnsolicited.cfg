SPECIFICATION Spec
CONSTANTS
    Limit = 3
    Hwm = 2
    ClientCommands = {"GrblSettings"}
    GcodeSizes = {2}
    ResetByte = 24
    Banners = {"grbl"}
    Announcements = {"alarm"}
    MaxRequests = 2
    MaxPlugs = 1
    MaxPrinted = 1
    MaxRestarts = 0
INVARIANT
    NoUnsolicited
CHECK_DEADLOCK FALSE
