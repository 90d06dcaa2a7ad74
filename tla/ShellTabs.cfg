CONSTANTS
    Tabs = {t1, t2}
    Urls = {a, b}
    NoUrl = NoUrl
    Widths = {0, 1}
    Heights = {1, 2}
    DefaultWidth = 1
    Offsets <- OneLine
    MaxLoads = 2
SPECIFICATION Spec
SYMMETRY TabSymmetry
INVARIANTS
    ActiveIsOpen
    ViewportFollowsWindow
PROPERTIES
    TabsAreIndependent
