SPECIFICATION FairLSpec
CONSTANTS
    Failures = {"none", "routes"}
    Omissions <- SomeOmitted
    Sessions = {s1, s2}
    Conns = {1, 2, 3, 4}
    NoConn = 0
    LoadMod = 4
    MaxLaunches = 2
    Services = {"socks", "dns"}
    Muxes = {0, 2}
INVARIANTS
    LoadIsUsers
    ConnsOwned
    ServicesHavePool
    ModesConsistent
PROPERTIES
    LaunchEnds
CONSTRAINT OneIntoTheSecond
CHECK_DEADLOCK FALSE
