\* Two clients: their requests share one transport.
SPECIFICATION Spec
CONSTANTS
    alice = alice
    bob = bob
    Makers = {m1, m2}
    Trackers = {t1}
    Resetters = {}
    Key = TRUE
    Calls <- OneCall
    Users = {alice, bob}
    NoUser = noUser
    Absent = absent
CHECK_DEADLOCK FALSE
INVARIANT CountedOnce
