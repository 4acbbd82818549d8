SPECIFICATION FairFSpec
CONSTANTS
    Kinds = {"direct", "blackhole"}
    MaxUp = 1
    MaxDown = 2
    Fronts = {"socks", "http"}
    Effort = 3
CONSTRAINT Bounded
INVARIANTS
    AuthBeforeDial
    OneAnswer
    ResponseWhole
PROPERTIES
    SessionOver
CHECK_DEADLOCK FALSE
