SPECIFICATION Spec
CONSTANTS
    Limit = 3
    Hwm = 1
    GcodeSizes = {0, 2, 3, 4}
    MaxRequests = 4
    MaxBuffer = 1
    ClientCommands <- MCCommands
    Lines <- MCLines
INVARIANTS
    TypeOK
    UsedIsOutstanding
    GreedyIsOldest
    ProgramOrder
    NothingHeldWhileInactive
    AlarmHoldsQueue
PROPERTIES
    StallOnlyAfterAlarm
    Streams
CHECK_DEADLOCK FALSE
