\* Only the traffic server, with requests that may never end.
CONSTANTS
    b1 = b1
    Parts = {"server"}
    Requests = {r1, r2, r3, r4}
    Percent = 50
    Minimum = 1
    Addrs = {b1, b2}
    FailureThreshold = 3
    OpenTicks = 2
    Enabled = TRUE
    Clients = {c1, c2}
    Rates <- ChangingRates
    TicksPerSecond = 2
    IdleBucketTTL = 11
    SweepThreshold = 1
    MaxDelay = 1
    Targets = {b1}
    Configs <- ChangingConfigs
    CounterCap = 2
    Flaky = {b1}
    Proxied = {b1}
    Conns = {k1, k2, k3, k4}
    MaxConnections = 3
    PoolSize = 3
    CounterWidth = 2
    Shares <- ChangingShares
    Servers = {1, 2}
    Askers = {q1, q2}
    Ranks <- OneKey
    Capacity <- UnequalCapacity
    Factor = 100
    Homes = {1, 2, 3}
    Visits = {v1, v2}
    Settings <- ChangingSettings
    NoHome = 0
    Written <- PlainFiles
    Nothing = Nothing
    Jobs = {j1, j2, j3}
    WithBody = {j1}
    Workers = 1
    Queue = 1
    FaultTicks = 1
    StopTicks = 1
    Injections = 1
    Sessions = {s1, s2, s3}
    Remembered = 2
SPECIFICATION LiveParts
PROPERTY GraceIsKept
CHECK_DEADLOCK FALSE
