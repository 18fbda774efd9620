\* Two polling loops that overtake each other: what they install, that they heal
\* the fields and that they stop.
SPECIFICATION FairSpec
CONSTANTS
    o1 = o1
    o2 = o2
    offline = offline
    api = api
    Main = main
    NoOrgId = noOrgId
    Pollers = {p1, p2}
    Requests = {}
    Tokens <- OneToken
    Orgs <- MCOrgs
    Scopes <- MCScopes
    OfflineScopes = {offline}
    AmsStates <- FewAmsStates
    DisableAllValidation = FALSE
    ErrorOnMissingToken = FALSE
    EnforceServiceAccountScopes = FALSE
    DenyScopes = {}
    RequiredScopes = {}
    CallbackWrites = FALSE
    MaxAmsChanges = 1
CHECK_DEADLOCK FALSE
PROPERTIES
    SelfHeals
    RefreshesAreRecent
    PollerStops
