SPECIFICATION FairSpec
CONSTANTS
    id1 = id1
    id2 = id2
    Ids <- TwoIds
    Recent = 1
    MaxSessions = 2
CHECK_DEADLOCK FALSE
INVARIANTS
    RowsAreReported
PROPERTIES
    StoredStays
    EventuallyStored
