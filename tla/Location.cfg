SPECIFICATION LocationSpec
CONSTANTS
    peer = peer
    number = number
    Peers = {peer}
    Numbers = {number}
    MaxDrift = 2
    Starts <- StartsDef
    Jobs <- JobsDef
CHECK_DEADLOCK FALSE
INVARIANTS
    OkMeansShared
    BlockedMeansSilent
