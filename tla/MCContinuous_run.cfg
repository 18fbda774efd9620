\* Two suites, from one specification with tests or one without, and a call
\* with an unbuffered channel or one with room for a result.
SPECIFICATION FairSpec
CONSTANTS
    NoMap = NoMap
    None = None
    shared = shared
    fresh = fresh
    s1 = s1
    s2 = s2
    Suites = {s1, s2}
    Specs = {shared, fresh}
    Cases <- MCCases
    ErrorTest = "error"
    Given <- MCGiven
    MaxCalls = 2
    LabelLists <- MCLabelLists
    Rooms = {0, 1}
CHECK_DEADLOCK FALSE
INVARIANTS
    OneTestPerName
    AllSelectsAll
    OneResultPerTest
PROPERTY TestsEndWhileReceived
