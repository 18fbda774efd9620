\* Two clusters, four keys and room for two entries, moves and failures.
SPECIFICATION Spec
CONSTANTS
    Clusters = {c1, c2}
    Regions = {east}
    Requests = {r1, r2}
    BadRegions = {}
    HasLocalHandler = FALSE
    CacheSize = 2
    MaxMoves = 1
    MaxFailures = 1
    Local = local
    NoCluster = noCluster
    NoEntry = noEntry
    Pending = pending
    Error = error
CHECK_DEADLOCK FALSE
INVARIANTS
    CacheExplained
    StaleByMoveOnly
    AnsweredFresh
SYMMETRY Symmetry
