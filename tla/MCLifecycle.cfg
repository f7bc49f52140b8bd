SPECIFICATION FairSpec
CONSTANTS
    Hwm = 2
    Window = 1
    Backlog = 2
    Requests = {"queued", "unlock", "shutdown"}
    MaxCommands = 1
    MaxWaiting = 1
    MaxPlugs = 1
    MaxPrinted = 1
PROPERTIES
    CloseReturns
    QuietCloseReturns
\* A context that is closed stops.
CHECK_DEADLOCK FALSE
