SPECIFICATION Spec
CONSTANTS
    Half = 1
    HistoryTime = 3
    Headroom = 2
    TrailTime = 3
    TrailCap = 2
    Slips = {1, 2}
    Horizon = 9
    TrailShown = 5
    Chunks = 3
INVARIANTS
    Paced
    KeepsUp
    Reaches
    TrailSpaced
    WindowIsWhole
    TrailDrawnOnce
PROPERTIES
    KeepsPeaks
