CONSTANTS
    Call = {c1, c2, c3}
    Name = {n1, lo}
    Local = {lo}
    MaxRepeats = 1
    MaxQueries = 3
    None = None
SPECIFICATION FairSpec
INVARIANTS
    TypeOK
    EntryFound
    NoneForgotten
PROPERTIES
    ResolvedOnce
    JoinedSettle
    LookupEnds
CHECK_DEADLOCK FALSE
