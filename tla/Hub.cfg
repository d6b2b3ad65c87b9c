SPECIFICATION Spec
CONSTANTS
    Conns = {c1}
    Putters = {p1}
    Udp = Udp
    Status = Status
    ClientBuffer = 2
    MinPacket = 232
    MaxPacket = 4096
    Sizes <- MCSizes
    InPlace = InPlace
    MaxArrivals = 2
    MaxVersion = 2
INVARIANTS
    NoMapRace
    AnsweredMeansQueued
PROPERTIES
    HubIsFanout
    BroadcastEnds
    DeadClientLeaves
