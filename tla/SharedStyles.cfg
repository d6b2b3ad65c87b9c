SPECIFICATION Spec
CONSTANTS
    Browsers = {b1, b2}
    Cars = {c1}
    Styles = {s1, s2}
    NoStyle = NoStyle
    MaxPicks = 2
INVARIANTS
    Agreed
PROPERTIES
    Settles
