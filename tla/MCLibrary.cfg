SPECIFICATION FairSpec
CONSTANTS
    d1 = d1
    d2 = d2
    c1 = c1
    Devices <- MCDevices
    Clients <- MCClients
    Hwm = 2
    MaxPlugs = 2
    MaxMessages = 2
INVARIANTS
    ViewMatches
    MachineFollowsUsb
    GhostsWereOvertaken
PROPERTIES
    PresentIsRecognized
    RacesOnlyOnRestart
CHECK_DEADLOCK FALSE
