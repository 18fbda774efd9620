\* Two trackers and a reset, one client.
SPECIFICATION Spec
CONSTANTS
    alice = alice
    bob = bob
    Makers = {m1}
    Trackers = {t1, t2}
    Resetters = {r1}
    Key = TRUE
    Calls <- MCCalls
    Users = {alice, bob}
    NoUser = noUser
    Absent = absent
CHECK_DEADLOCK FALSE
INVARIANTS
    TypeOK
    CountedOnce
    MetricsAgree
    ConnectionsClosed
    TracksKnownUsers
    AccountInOrder
