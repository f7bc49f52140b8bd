SPECIFICATION FairSpec
CONSTANTS
    Limit = 3
    Hwm = 2
    ClientCommands = {"SendGcode", "GrblResetAlarm"}
    GcodeSizes = {2}
    ResetByte = 24
    Banners = {"grbl"}
    Announcements = {"alarm"}
    MaxRequests = 3
    MaxPlugs = 1
    MaxPrinted = 1
    MaxRestarts = 0
PROPERTY
    UnlockEndsAlarm
CHECK_DEADLOCK FALSE
