\* Two tests of two samples: what Run does for its caller, and when the channel is closed.
SPECIFICATION FairSpec
CONSTANTS
    t1 = t1
    t2 = t2
    Names = {t1, t2}
    Labels = {"all", "slow"}
    Suite <- MCSuite
    Selected = {"all", "slow", "none"}
    SampleCount = 2
    Texts = {"some", "empty"}
    BeforeAll = 1
    AfterAll = 1
    HasSetup = {t1}
    HasTeardown = {t1, t2}
CHECK_DEADLOCK FALSE
INVARIANTS
    SendsNeverBlock
    ClosedAfterLastSend
PROPERTIES
    ImplementsContract
    NoGoroutineLeaks
