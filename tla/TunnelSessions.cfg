\* HTTP: one fault, one chunk each way.  SOCKS: no fault, two chunks one way and
\* one the other.
SPECIFICATION Spec
CONSTANTS
    Window = 2
    MaxUp = 2
    MaxDown = 2
    MaxFaults = 1
    Faults = {"local gone", "front stops", "target resets", "server stops", "stream breaks"}
    Fronts = {"http", "socks"}
CONSTRAINT FaultsOrData
INVARIANTS
    SingleSender
    TargetReleased
    NoWriteAfterReturn
    EndMeansComplete
PROPERTIES
    ImplementsSession
VIEW View
CHECK_DEADLOCK FALSE
