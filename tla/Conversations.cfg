SPECIFICATION Spec
CONSTANTS
    Broadcast = broadcast
    Channels = {ch1}
    DMs = {dm1, own}
    OwnDM = own
    IdentityKnown = TRUE
    Sends = {s1, s2}
    Arrivals = {a1}
    History = {h1}
    Recipients = {r1}
SYMMETRY Interchangeable
INVARIANTS
    ScreenIsTranscript
    ReceiptsAnchored
    UnreadIsUnseen
    ClearSurvives
    OutcomeOnRecord
PROPERTIES
    NothingVanishes
