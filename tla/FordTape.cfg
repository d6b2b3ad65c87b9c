SPECIFICATION Spec
CONSTANTS
    Widths = {1280, 1600, 1819}
    Engines = {7000, 9000}
INVARIANTS
    TapeIsCurrent
