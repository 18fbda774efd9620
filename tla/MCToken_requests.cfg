\* One polling loop after the constructor: which requests are refused.
SPECIFICATION Spec
CONSTANTS
    o1 = o1
    o2 = o2
    offline = offline
    api = api
    Main = main
    NoOrgId = noOrgId
    Pollers = {p1}
    Requests = {r1}
    Tokens <- MCTokens
    Orgs <- MCOrgs
    Scopes <- MCScopes
    OfflineScopes = {offline}
    AmsStates <- MCAmsStates
    DisableAllValidation = FALSE
    ErrorOnMissingToken = TRUE
    EnforceServiceAccountScopes = FALSE
    DenyScopes = {offline}
    RequiredScopes = {api}
    CallbackWrites = TRUE
    MaxAmsChanges = 2
CHECK_DEADLOCK FALSE
INVARIANTS
    RestrictionHolds
    RefusalJustified
    ScopesEnforcedOnEveryPath
    MissingTokenRefused
PROPERTY ReplaysAms
