CONSTANTS
    f1 = f1
    f2 = f2
    f3 = f3
    b1 = b1
    c1 = c1
    c2 = c2
    k1 = k1
    k2 = k2
    k3 = k3
    Fetches = {f1, f2, f3}
    Revals = {}
    Keys = {k1}
    Key <- OneKey
    Clients = {c1}
    Client <- OneClient
    MaxVersion = 1
    Size <- GrowingSize
    Validated = {1}
    PageSize = 2
    Modes = {"Default"}
    Substituted = {}
    Blocked = {}
    Faults = {"dns"}
    Idle = Idle
SPECIFICATION AnsweringSpec
PROPERTIES
    WaitersAreNotified
CHECK_DEADLOCK FALSE
