SPECIFICATION PSpec
CONSTANTS
    Window = 1
    Readers = {r1}
    Writers = {w1, w2}
    Closers = {c1}
    Setters = {s1}
    MaxDatagrams = 2
    MaxWrites = 2
    MaxSets = 2
    Effort = 3
SYMMETRY Symmetry
CONSTRAINT Budget
INVARIANTS
    SendExclusive
    BlockedSeesDeadline
    ExpiryIsReal
PROPERTIES
    ImplementsPacketPipe
CHECK_DEADLOCK FALSE
