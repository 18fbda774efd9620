\* A failed lookup caches a place the cluster never was in.
SPECIFICATION Spec
CONSTANTS
    Clusters = {c1}
    Regions = {east}
    Requests = {r1, r2}
    BadRegions = {}
    HasLocalHandler = FALSE
    CacheSize = 0
    MaxMoves = 0
    MaxFailures = 1
    Local = local
    NoCluster = noCluster
    NoEntry = noEntry
    Pending = pending
    Error = error
CHECK_DEADLOCK FALSE
INVARIANT CacheTruthful
