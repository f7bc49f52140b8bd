SPECIFICATION FairSpec
CONSTANTS
    Limit = 3
    Hwm = 2
    ClientCommands = {"SendGcode", "GrblSettings"}
    GcodeSizes = {2}
    ResetByte = 24
    Banners = {"grbl"}
    Announcements = {"push"}
    MaxRequests = 3
    MaxPlugs = 2
    MaxPrinted = 1
    MaxRestarts = 0
PROPERTIES
    DeviceIsIdentified
    QueueDrains
CHECK_DEADLOCK FALSE
