\* Two requests, one of which may make a call with a retry and one a search
\* with pages of two issues.
SPECIFICATION FairSpec
CONSTANTS
    Paths <- MCPaths
    Endpoints <- MCEndpoints
    SunsetDate <- MCSunsetDate
    Params = {"{id}", "{kind}"}
    Claims <- MCClaims
    MaxRequests = 2
    MaxTime = 2
    MaxRetries = 1
    Calls <- MCCalls
    NoCall = NoCall
    None = None
    PrefixesOf <- MCPrefixesOf
    LogResponseBodyPrefixes = {"/api"}
    LogResponseBodyPrefixExclusions = {"/api/quiet"}
    Found <- MCFound
    Newcomers = {"i4"}
    maxResults = 2
CHECK_DEADLOCK FALSE
INVARIANTS
    SunsetIsFinal
    VerdictKept
    OneAttemptAfterCancel
    ConnectionsExplained
    SearchComplete
PROPERTY ImplementsDelivery
