SPECIFICATION FairSpec
CONSTANTS
    Limit = 3
    Hwm = 2
    ClientCommands = {"GrblSoftReset"}
    GcodeSizes = {2}
    ResetByte = 24
    Banners = {"grbl"}
    Announcements = {}
    MaxRequests = 2
    MaxPlugs = 1
    MaxPrinted = 0
    MaxRestarts = 0
PROPERTY
    SoftResetRestarts
CHECK_DEADLOCK FALSE
