SPECIFICATION Spec
CONSTANTS
    h1 = h1
    h2 = h2
    car7 = car7
    car9 = car9
    jdm = jdm
    race = race
    t7 = t7
    t007 = t007
    t9 = t9
    tbad = tbad
    Handlers <- MCHandlers
    Cars <- MCCars
    Styles <- MCStyles
    NoStyle = NoStyle
    BadStyle = BadStyle
    CarPaths <- MCCarPaths
    Ordinal <- MCOrdinal
    NoCar = NoCar
    MaxEntries = 1
    Absent = Absent
    Torn = Torn
    Nobody = Nobody
INVARIANTS
    FileNeverTorn
    DiskIsCurrent
    WithinLimit
PROPERTIES
    StoreIsDurableMap
    PutAnswered
