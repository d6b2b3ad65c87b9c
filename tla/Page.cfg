SPECIFICATION Spec
CONSTANTS
    Cars = {c1, c2}
    NoCar = NoCar
    Styles = {s1, s2}
    NoStyle = NoStyle
    NoData = 4
    Grace = 3
INVARIANTS
    StyleFollowsCar
PROPERTIES
    DotIsHonest
    PickIsFresh
