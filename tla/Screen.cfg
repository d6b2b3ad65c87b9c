SPECIFICATION ScreenSpec
CONSTANTS
    Sizes = {331, 232, 100}
    Values = {1, 2}
    Step = 2
    Looks = {"small", "large"}
    NoLook = "none"
INVARIANTS
    PeaksAreEarned
    
PROPERTIES
    RowsAreFresh
    MetersDoNotDrift
