\* All configurations of up to four items.
SPECIFICATION Spec
CONSTANTS
    Service = "ocm"
    SkipAccount = TRUE
    PathOrder <- MCPathOrder
    Normalized <- MCNormalized
    HasSA = {"/SAML"}
    Items <- MCItems
    MaxItems = 4
CHECK_DEADLOCK FALSE
INVARIANTS
    PanelIdsUnique
    RowsCollideAtCustomOnly
    QueriesOfOwnPath
