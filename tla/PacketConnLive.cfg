SPECIFICATION FairPSpec
CONSTANTS
    Window = 1
    Readers = {r1}
    Writers = {w1}
    Closers = {c1}
    Setters = {s1}
    MaxDatagrams = 0
    MaxWrites = 1
    MaxSets = 1
    Effort = 9
CONSTRAINT QuietPeer
PROPERTIES
    DeadlineEndsCalls
    CloseEndsCalls
CHECK_DEADLOCK FALSE
