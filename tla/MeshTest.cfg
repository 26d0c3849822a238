SPECIFICATION FairSpec
CONSTANTS
    tty = tty
    ws1 = ws1
    ws2 = ws2
    ws3 = ws3
    A = A
    B = B
    C = C
    none = none
    Order <- FourNodes
    Address <- FourAddresses
    NoAddress = none
    Preferred = ws3
    NoTransport = none
    Serial = {tty}
    Broadcasts = 2
    QueueCap = 2
    WithIds = TRUE
    MaxCopies = 1
CHECK_DEADLOCK FALSE
INVARIANTS
    CreditIsReal
    QueuedReceiptsCount
    ReportAddsUp
PROPERTIES
    Terminates
