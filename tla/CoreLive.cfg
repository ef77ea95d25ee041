\* Two requests, two backends of which one fails or stalls, clients that hang up:
\* what the timeouts bound ends.
CONSTANTS
    b1 = b1
    b2 = b2
    b3 = b3
    Nobody = Nobody
    Requests = {r1, r2}
    Addrs = {b1, b2}
    Configs <- LiveConfigs
    Health <- Thresholds
    CounterCap = 1
    FailureThreshold = 1
    OpenTicks = 1
    Percent = 20
    Minimum = 1
    Faulty = {b1}
    Probed = {b1}
    Bodies = {"small", "chunked_oversize"}
    Impatient = TRUE
SPECIFICATION LiveSpec
PROPERTY EveryRequestEnds
