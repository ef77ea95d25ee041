------------------------------ MODULE MCParts ------------------------------
(***************************************************************************)
(* The parts that share no state, in one model: the retry budget and the   *)
(* circuit breaker of a snapshot, the rate limiter, the health checker,    *)
(* the traffic server, the strategies, the sticky cookie, the loading of a *)
(* configuration, and the mock backend with its cache.  A behaviour        *)
(* follows one of them, chosen at the start, while the others rest: what   *)
(* holds of a part alone holds of it beside parts that never read or write *)
(* its variables.                                                          *)
(***************************************************************************)
EXTENDS TLC, RetryBudgetPeak, BreakerHistory, RateLimiterHistory, MCHealth,
        ServerProperties, Turns, Placement, Sticky, Configuration, MockBackend, SessionCache

CONSTANT Parts   \* the parts a run follows

VARIABLE part

ASSUME Parts \subseteq {"budget", "breaker", "limiter", "health", "server", "turns",
                        "placement", "sticky", "config", "mock", "cache"}

\* The limit is taken away, given back higher and lowered again.
ChangingRates == <<1, 0, 2, 1>>

\* The heaviest changes, and a weight of zero is given to a pool built by hand.
ChangingShares == << <<1, 2, 3>>, <<3, 0, 1>> >>

\* One key; the first of its order is not the first of the pool.
OneKey == {<<2, 1>>}
UnequalCapacity == <<1, 2>>

\* A backend leaves and one comes back, retries go, and stickiness last.
ChangingSettings ==
    <<[pool |-> {1, 2}, sticky |-> TRUE, attempts |-> 2],
      [pool |-> {2, 3}, sticky |-> TRUE, attempts |-> 2],
      [pool |-> {1, 3}, sticky |-> FALSE, attempts |-> 1]>>

\* What a file may hold: a few that are valid, with one setting left out, at a
\* boundary or beyond it.
PlainFile ==
    [listenAddr |-> "a", metricsAddr |-> "b", algorithm |-> "round_robin", hashKey |-> "header",
     balanceFactor |-> 125, stickyMode |-> "cookie", stickyCookie |-> "c", stickyMaxAge |-> 1,
     failurePolicy |-> "retry_next_backend", maxRetries |-> 1, budgetPercent |-> 20,
     minRetryConcurrency |-> 1, failureThreshold |-> 2, openDuration |-> 1,
     backends |-> <<[addr |-> "x", weight |-> 2], [addr |-> "y", weight |-> 1]>>,
     healthPath |-> "/", healthInterval |-> 3, healthTimeout |-> 2, healthyThreshold |-> 1,
     unhealthyThreshold |-> 1, connectTimeout |-> 1, responseTimeout |-> 1, readTimeout |-> 1,
     writeTimeout |-> 1, idleTimeout |-> 1, maxConnections |-> 1, maxRequestBodyBytes |-> 1,
     rateLimitPerIP |-> 1, logLevel |-> "info", logFormat |-> "json"]

Other ==
    [algorithm |-> {"consistent_hash", "", "?"}, failurePolicy |-> {"circuit_breaker", "fail_fast", "?"},
     hashKey |-> {"", "?"}, stickyMode |-> {"", "none", "?"}, stickyCookie |-> {"", "?"},
     metricsAddr |-> {"", "?"}, healthPath |-> {""}, logLevel |-> {"", "?"},
     balanceFactor |-> {0, 99, 100}, budgetPercent |-> {0, 100, 101},
     backends |-> {<<>>, <<[addr |-> "x", weight |-> 0]>>,
                   <<[addr |-> "x", weight |-> 1], [addr |-> "x", weight |-> -1]>>}]
    @@ [f \in {"maxRetries", "minRetryConcurrency", "failureThreshold", "openDuration",
               "healthInterval", "healthTimeout", "healthyThreshold", "unhealthyThreshold",
               "connectTimeout", "responseTimeout", "readTimeout", "maxConnections",
               "rateLimitPerIP"} |-> {-1, 0, 2, 3}]

PlainFiles ==
    UNION {{[c EXCEPT ![f] = v] : v \in Other[f]} :
              f \in DOMAIN Other,
              c \in {PlainFile, [PlainFile EXCEPT !.algorithm = "consistent_hash"],
                     [PlainFile EXCEPT !.failurePolicy = "circuit_breaker"],
                     [PlainFile EXCEPT !.responseTimeout = 0]}}

\* A server or a process that has ended takes no step, and is owed none by its fairness.
ServerAtRest ==
    /\ conn = [c \in Conns |-> "closed"]
    /\ slots = 0
    /\ acceptor = "returned"
    /\ run = "drained"
    /\ grace = FALSE

MockAtRest ==
    /\ job = [j \in Jobs |-> [at |-> "out", timer |-> 0]]
    /\ left = {} /\ taken = 0 /\ waiting = 0
    /\ frozen = 0 /\ hangs = 0 /\ injected = 0
    /\ process = [is |-> "drained", timer |-> 0]

InitParts ==
    /\ part \in Parts
    /\ InitP /\ InitH /\ InitL /\ InitR /\ TurnsInit /\ PlacementInit /\ StickyInit /\ ConfigInit
    /\ CacheInit
    /\ IF part = "server" THEN ServerInit ELSE ServerAtRest
    /\ IF part = "mock" THEN MockInit ELSE MockAtRest

guards == <<varsP, varsH, varsL, varsR, serverVars>>
choice == <<turnsVars, placementVars, stickyVars, inUse>>
backend == <<mockVars, cacheVars>>
varsParts == <<part, guards, choice, backend>>

NextGuards ==
    \/ part = "budget"  /\ NextP      /\ UNCHANGED <<varsH, varsL, varsR, serverVars>>
    \/ part = "breaker" /\ NextH      /\ UNCHANGED <<varsP, varsL, varsR, serverVars>>
    \/ part = "limiter" /\ NextL      /\ UNCHANGED <<varsP, varsH, varsR, serverVars>>
    \/ part = "health"  /\ NextR      /\ UNCHANGED <<varsP, varsH, varsL, serverVars>>
    \/ part = "server"  /\ ServerNext /\ UNCHANGED <<varsP, varsH, varsL, varsR>>

NextChoice ==
    \/ part = "turns"     /\ TurnsNext     /\ UNCHANGED <<placementVars, stickyVars, inUse>>
    \/ part = "placement" /\ PlacementNext /\ UNCHANGED <<turnsVars, stickyVars, inUse>>
    \/ part = "sticky"    /\ StickyNext    /\ UNCHANGED <<turnsVars, placementVars, inUse>>
    \/ part = "config"    /\ ConfigNext    /\ UNCHANGED <<turnsVars, placementVars, stickyVars>>

NextBackend ==
    \/ part = "mock"  /\ MockNext  /\ UNCHANGED cacheVars
    \/ part = "cache" /\ CacheNext /\ UNCHANGED mockVars

NextParts ==
    \/ NextGuards  /\ UNCHANGED <<part, choice, backend>>
    \/ NextChoice  /\ UNCHANGED <<part, guards, backend>>
    \/ NextBackend /\ UNCHANGED <<part, guards, choice>>

SafetyParts == InitParts /\ [][NextParts]_varsParts

LiveParts == SafetyParts /\ ServerFairness /\ MockFairness /\ CheckerFairness
LivePartsRequestsEnd == LiveParts /\ RequestsEnd

=============================================================================
