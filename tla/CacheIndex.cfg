CONSTANTS
    k1 = k1
    k2 = k2
    Variants <- ThreeVariants
    Synthetic = {k2}
    BodySizes = {2}
    HeaderSizes = {0, 1}
    ExtraSizes = {2}
    Limits = {2, 4}
    DefaultLimit = 8
    DiskShare = 6
    EntryFraction = 2
    MaxEntrySize = 4
    MaxTotal = 100
    MaxTime = 2
SPECIFICATION Spec
INVARIANTS
    TypeOK
    TotalIsSum
    MemoryAgrees
PROPERTIES
    LimitRestored
    EvictsLeastRecent
    FlushedSurvives
