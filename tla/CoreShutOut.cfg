\* One request at a time, two backends that both fail, health checking slower than
\* the breaker.
CONSTANTS
    b1 = b1
    b2 = b2
    b3 = b3
    Nobody = Nobody
    Requests = {r1}
    Addrs = {b1, b2}
    Configs <- BreakerConfigs
    Health <- SlowThresholds
    CounterCap = 3
    FailureThreshold = 1
    OpenTicks = 1
    Percent = 20
    Minimum = 1
    Faulty = {b1, b2}
    Probed = {}
    Bodies = {"none"}
    Impatient = FALSE
SPECIFICATION Spec
PROPERTY TrippedAreShutOut
