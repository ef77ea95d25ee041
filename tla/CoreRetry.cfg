\* Two requests, three backends that all fail, three retries each and a budget of
\* one retry at a time: a request can run out of backends and of budget.
CONSTANTS
    b1 = b1
    b2 = b2
    b3 = b3
    Nobody = Nobody
    Requests = {r1, r2}
    Addrs = {b1, b2, b3}
    Configs <- RetryConfigs
    Health <- Thresholds
    CounterCap = 1
    FailureThreshold = 1
    OpenTicks = 1
    Percent = 20
    Minimum = 1
    Faulty = {b1, b2, b3}
    Probed = {}
    Bodies = {"none"}
    Impatient = FALSE
SYMMETRY RequestSymmetry
SPECIFICATION Spec
INVARIANTS
    TypeOK
    AtMostOnceUnlessIdempotent
    PoolExhausted
