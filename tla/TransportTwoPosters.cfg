CONSTANTS
    client = client
    server = server
    c = c
    s = s
    pump = pump
    ask = ask
    note = note
    reply = reply
    ready = ready
    slot = slot
    End = {client, server}
    Thread = {c, s, pump}
    At <- MCAt
    Owner <- MCOwner
    Msg = {ready, slot}
    Program <- EdgeAndSlot
    Units <- MCUnits
    FdCount <- MCFdCount
    Reply <- NoReply
    Closes <- NobodyCloses
    MayCrash = {}
    PeekUnits = 3
    MaxTransferFds = 2
    SocketCapacity = 3
SPECIFICATION Spec
INVARIANT RetainedUntilReceived
CHECK_DEADLOCK FALSE
