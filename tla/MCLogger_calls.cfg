\* Two goroutines log through one logger and override its capture; one of them
\* also changes callbacks and settings.
SPECIFICATION Spec
CONSTANTS
    g1 = g1
    g2 = g2
    k1 = k1
    a = a
    v1 = v1
    one = one
    Goroutines = {g1, g2}
    Loggers = {one}
    LoggerOf <- OneLogger
    Fresh = fresh
    Apis = {"contextual", "sdk"}
    LogLevels = {1, 4}
    SetLevels = {0}
    Outputs = {stderr}
    Keys = {k1}
    ArgLists = {}
    SharedArgs <- TwoPairs
    Room = 2
    Callers = {g1, g2}
    Registrars = {g2}
    Configurers = {g2}
    Overrides = {TRUE, FALSE}
    NoValue = noValue
    Missing = missing
    SentryEventID = sentryEventID
    EventID = eventID
    NotAString = notAString
    MissingKey = missingKey
    EmptyText = emptyText
CHECK_DEADLOCK FALSE
INVARIANTS
    ExtrasComplete
    SentryMatchesLog
    CaptureAsAsked
    EnabledTellsTruth
