CONSTANTS
    f1 = f1
    f2 = f2
    f3 = f3
    b1 = b1
    c1 = c1
    c2 = c2
    k1 = k1
    k2 = k2
    k3 = k3
    Fetches = {f1, f2}
    Revals = {}
    Keys = {k1}
    Key <- OneKey
    Clients = {c1}
    Client <- OneClient
    MaxVersion = 2
    Size <- EqualSize
    Validated = {1, 2}
    PageSize = 3
    Modes = {"Default", "Reload", "NoCache", "ForceCache"}
    Substituted = {}
    Blocked = {}
    Faults = {"network", "disk", "toolarge", "evict", "clear", "backpressure",
              "encoding", "tracker"}
    Idle = Idle
SPECIFICATION Spec
INVARIANTS
    ServedIntact
    RowsComplete
    DeliveredWhole
    FinishedOnce
SYMMETRY FetchSymmetry
CHECK_DEADLOCK FALSE
