CONSTANTS
    f1 = f1
    f2 = f2
    f3 = f3
    b1 = b1
    c1 = c1
    c2 = c2
    k1 = k1
    k2 = k2
    k3 = k3
    Fetches = {f1, f2}
    Revals = {b1}
    Keys = {k1}
    Key <- OneKey
    Clients = {c1, c2}
    Client <- TwoClients
    MaxVersion = 2
    Size <- GrowingSize
    Validated = {1, 2}
    PageSize = 2
    Modes = {"Default", "Reload"}
    Substituted = {}
    Blocked = {}
    Faults = {"dns", "cookie", "curl", "pipe", "network", "recv", "refuse", "tracker", "disk", "reopen",
              "toolarge", "evict", "backpressure", "clear", "stop", "disconnect", "crash"}
    Idle = Idle
SPECIFICATION Spec
INVARIANTS
    TypeOK
    ExclusiveEntry
    NoLostWakeup
    HandlersPrepared
PROPERTIES
    NoRegression
    DeletionIsFinal
    LockSpec
CHECK_DEADLOCK FALSE
