CONSTANTS
    f1 = f1
    f2 = f2
    f3 = f3
    b1 = b1
    c1 = c1
    c2 = c2
    k1 = k1
    k2 = k2
    k3 = k3
    Fetches = {f2, f3}
    Revals = {}
    Keys = {k2, k3}
    Key <- KeyEach
    Clients = {c1}
    Client <- OneClient
    MaxVersion = 2
    Size <- ShrinkingSize
    Validated = {}
    PageSize = 2
    Modes = {"Default", "NoStore", "Uncacheable", "OnlyIfCached", "OnlyIfCachedDirective"}
    Substituted = {k2}
    Blocked = {k3}
    Faults = {"dns", "cookie", "curl", "pipe", "network", "recv", "encoding", "refuse", "tracker",
              "disk", "reopen", "toolarge", "evict", "backpressure", "brokenpipe", "clear",
              "stop", "disconnect", "crash"}
    Idle = Idle
SPECIFICATION Spec
INVARIANTS
    DeliveredWhole
CHECK_DEADLOCK FALSE
