CONSTANTS
    client = client
    server = server
    c = c
    s = s
    pump = pump
    ask = ask
    note = note
    reply = reply
    ready = ready
    slot = slot
    End = {client, server}
    Thread = {c, s}
    At <- MCAt
    Owner <- MCOwner
    Msg = {ask, note, reply}
    Program <- CallAndNotice
    Units <- MCUnits
    FdCount <- MCFdCount
    Reply <- MCReply
    Closes <- ServerCloses
    MayCrash = {client}
    PeekUnits = 3
    MaxTransferFds = 2
    SocketCapacity = 3
SPECIFICATION FairSpec
INVARIANTS
    TypeOK
    FdsBeforeBytes
    OwnAttachments
    RetainedAccounted
    DispatchedInOrder
PROPERTIES
    ChannelSpec
    ComesToRest
CHECK_DEADLOCK FALSE
