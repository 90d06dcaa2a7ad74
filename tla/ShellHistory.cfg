CONSTANTS
    Tabs = {t1}
    Urls = {a, b}
    NoUrl = NoUrl
    Widths = {0, 1}
    Heights = {1, 2}
    DefaultWidth = 1
    Offsets <- OneLine
    MaxLoads = 4
SPECIFICATION Spec
INVARIANTS
    TypeOK
    PageIsCurrentEntry
    NodesBelongToDocument
    ScrollInDocument
PROPERTIES
    BackEntriesKept
