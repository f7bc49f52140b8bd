SPECIFICATION Spec
CONSTANTS
    Limit = 3
    Hwm = 2
    ClientCommands = {"SendGcode", "GrblStatus", "GrblHome"}
    GcodeSizes = {2}
    ResetByte = 24
    Banners = {"grbl", "oldGrbl"}
    Announcements = {"push"}
    MaxRequests = 3
    MaxPlugs = 2
    MaxPrinted = 0
    MaxRestarts = 1
INVARIANTS
    OldDeviceIsLeftAlone
    BufferNeverOverflows
    SessionFollowsUsb
CHECK_DEADLOCK FALSE
