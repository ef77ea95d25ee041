\* Four requests at 50%: limits 1, 1, 1, 1, 2 over the loads 0 to 4, so that the
\* minimum decides at light load and the share above it.  Two backends, three
\* failures to open, an open period of two ticks.  Two clients, two ticks a
\* second, a sweep whenever one is tracked.  A backend that goes down and comes up
\* across three reloads, while the proxy reports outcomes of it.  Four connections,
\* three slots.
\* Three backends in turn under a counter of two bits; two requests placed by
\* load on two backends; two requests of one client over three configurations.
\* Three requests of a mock backend with one worker and one place to wait, and
\* one fault; three sessions of which two are remembered.
CONSTANTS
    b1 = b1
    Parts = {"budget", "breaker", "limiter", "health", "server", "turns",
             "placement", "sticky", "config", "mock", "cache"}
    Requests = {r1, r2, r3, r4}
    Percent = 50
    Minimum = 1
    Addrs = {b1, b2}
    FailureThreshold = 3
    OpenTicks = 2
    Enabled = TRUE
    Clients = {c1, c2}
    Rates <- ChangingRates
    TicksPerSecond = 2
    IdleBucketTTL = 11
    SweepThreshold = 1
    MaxDelay = 1
    Targets = {b1}
    Configs <- ChangingConfigs
    CounterCap = 2
    Flaky = {b1}
    Proxied = {b1}
    Conns = {k1, k2, k3, k4}
    MaxConnections = 3
    PoolSize = 3
    CounterWidth = 2
    Shares <- ChangingShares
    Servers = {1, 2}
    Askers = {q1, q2}
    Ranks <- OneKey
    Capacity <- UnequalCapacity
    Factor = 100
    Homes = {1, 2, 3}
    Visits = {v1, v2}
    Settings <- ChangingSettings
    NoHome = 0
    Written <- PlainFiles
    Nothing = Nothing
    Jobs = {j1, j2, j3}
    WithBody = {j1}
    Workers = 1
    Queue = 1
    FaultTicks = 1
    StopTicks = 1
    Injections = 1
    Sessions = {s1, s2, s3}
    Remembered = 2
SPECIFICATION LivePartsRequestsEnd
INVARIANTS
    RetriesWithinPeak
    TrippedByAnUnbrokenRun
    OneProbePerOutcome
    WithinTheRate
    SweepUnseen
    OneLoopEach
    RunsDecide
    SlotsExact
    DrainedMeansDrained
    RoundsAreFair
    CreditsBounded
    PlacedByLoad
    AcceptedIsUsable
    RemembersTheLatest
PROPERTIES
    ShutOutForThePeriod
    OnlyRunsDecide
    FollowsTheBackend
    LoopsReturn
    ShutdownEnds
    PinsHold
    NothingHeldForGood
CHECK_DEADLOCK FALSE
