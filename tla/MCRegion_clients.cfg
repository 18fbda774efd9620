\* What clients see, as a refinement of RegionRouting.
SPECIFICATION FairSpec
CONSTANTS
    Clusters = {c1}
    Regions = {east}
    Requests = {r1, r2}
    BadRegions = {}
    HasLocalHandler = TRUE
    CacheSize = 0
    MaxMoves = 1
    MaxFailures = 1
    Local = local
    NoCluster = noCluster
    NoEntry = noEntry
    Pending = pending
    Error = error
CHECK_DEADLOCK FALSE
PROPERTIES
    RoutesClients
    EventuallyTruthful
