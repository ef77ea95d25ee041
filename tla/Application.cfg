\* Two backends, of which b2 changes its health: for a while it is the whole pool.
\* Three files, one invalid.
CONSTANTS
    b1 = b1
    b2 = b2
    Addrs = {b1, b2}
    Flaky = {b2}
    Files <- ChangingFiles
SPECIFICATION LiveSpec
INVARIANTS
    PartsAgree
PROPERTIES
    AdminOutlivesTraffic
    SteadyIsReady
    HangUpsAreHeeded
    NeverHalfAlive
CHECK_DEADLOCK FALSE
