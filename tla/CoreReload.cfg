\* Two requests across a reload from the breaker, whose only backend never fails,
\* to retries with a backend that does beside it; bodies that break off, clients
\* that hang up anywhere.
CONSTANTS
    b1 = b1
    b2 = b2
    b3 = b3
    Nobody = Nobody
    Requests = {r1, r2}
    Addrs = {b1, b2}
    Configs <- ReloadConfigs
    Health <- Thresholds
    CounterCap = 1
    FailureThreshold = 1
    OpenTicks = 1
    Percent = 20
    Minimum = 1
    Faulty = {b1}
    Probed = {}
    Bodies = {"none", "broken"}
    Impatient = TRUE
SYMMETRY RequestSymmetry
SPECIFICATION Spec
INVARIANTS
    AnsweredOnce
    ActiveExact
PROPERTIES
    OnlyTheFaultyAreBlamed
    BudgetsRespected
    BreakersRespected
