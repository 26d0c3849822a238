SPECIFICATION FairSpec
CONSTANTS
    c1 = c1
    c2 = c2
    c3 = c3
    c4 = c4
    Clients <- FourClients
    FirstClient = c1
    MaxFetch = 2
    HasConnectFn = TRUE
    CallFirst = TRUE
INVARIANTS
    OneReconnectChain
    NoClientLeak
    InUseNotClosed
PROPERTIES
    ImplementsSession
    LossDetected
    StableRecovery
