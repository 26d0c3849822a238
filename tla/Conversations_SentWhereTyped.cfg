SPECIFICATION Spec
CONSTANTS
    Broadcast = broadcast
    Channels = {ch1}
    DMs = {dm1, own}
    OwnDM = own
    IdentityKnown = TRUE
    Sends = {s1}
    Arrivals = {}
    History = {}
    Recipients = {r1}
INVARIANT SentWhereTyped
