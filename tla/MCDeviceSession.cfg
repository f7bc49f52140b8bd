SPECIFICATION Spec
CONSTANTS
    Limit = 3
    Hwm = 2
    ClientCommands <- MCCommands
    GcodeSizes = {2}
    ResetByte = 24
    Banners = {"grbl"}
    MaxRequests = 4
    MaxPlugs = 2
    Announcements = {"push"}
    MaxPrinted = 1
    MaxRestarts = 0
INVARIANTS
    AnswersMatch
    AnswersHoldOwnLines
    NoUnsolicited
    BufferNeverOverflows
    SessionFollowsUsb
PROPERTIES
    IdentifiedByVersion
    EndsOnlyByUnplugging
CHECK_DEADLOCK FALSE
