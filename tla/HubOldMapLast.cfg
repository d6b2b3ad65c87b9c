SPECIFICATION Spec
CONSTANTS
    Conns = {c1}
    Putters = {p1, p2}
    Udp = Udp
    Status = Status
    ClientBuffer = 2
    MinPacket = 232
    MaxPacket = 4096
    Sizes <- MCSizes
    InPlace = InPlace
    MaxArrivals = 0
    MaxVersion = 3
PROPERTIES
    MapsNeverGoBack
