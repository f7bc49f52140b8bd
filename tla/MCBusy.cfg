SPECIFICATION Spec
CONSTANTS
    Hwm = 2
    Window = 1
    Backlog = 1
    Requests = {"unlock"}
    MaxCommands = 0
    MaxWaiting = 1
    MaxPlugs = 0
    MaxPrinted = 0
INVARIANTS
    NoCyclicWait
\* A context that is closed stops.
CHECK_DEADLOCK FALSE
