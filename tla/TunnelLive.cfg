\* Liveness, without the view.
SPECIFICATION FairSpec
CONSTANTS
    Window = 1
    MaxUp = 0
    MaxDown = 0
    MaxFaults = 1
    Faults = {"front stops", "server stops"}
    Fronts = {"http"}
PROPERTIES
    EveryConnectAnswered
    SessionEnds
CHECK_DEADLOCK FALSE
