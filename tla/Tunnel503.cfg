\* Expected violation: an error message inside an established tunnel.
SPECIFICATION Spec
CONSTANTS
    Window = 2
    MaxUp = 1
    MaxDown = 1
    MaxFaults = 1
    Faults = {"local gone", "front stops", "target resets", "server stops", "stream breaks"}
    Fronts = {"http"}
INVARIANTS
    NoErrorInsideTunnel
VIEW View
CHECK_DEADLOCK FALSE
