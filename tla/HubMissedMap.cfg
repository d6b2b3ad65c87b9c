SPECIFICATION Spec
CONSTANTS
    Conns = {c1}
    Putters = {p1}
    Udp = Udp
    Status = Status
    ClientBuffer = 3
    MinPacket = 232
    MaxPacket = 4096
    Sizes <- MCSizes
    InPlace = InPlace
    MaxArrivals = 0
    MaxVersion = 2
INVARIANTS
    ChangeReachesEveryClient
