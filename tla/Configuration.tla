--------------------------- MODULE Configuration ---------------------------
(***************************************************************************)
(* Loading a configuration (internal/config, config.go and validate.go):   *)
(* what a file leaves out is filled in, and the result is refused or put   *)
(* in force.  A file that does not parse is not modelled; a duration is a  *)
(* number of ticks, 0 when left out; an address or a name is a word, ""    *)
(* when left out and "?" when it does not have the form it should have.    *)
(***************************************************************************)
EXTENDS Integers, Sequences

CONSTANTS
    Written,  \* what the file may hold
    Nothing   \* no configuration yet

\* The settings, as the file gives them.
File ==
    [listenAddr : STRING, metricsAddr : STRING, algorithm : STRING, hashKey : STRING,
     balanceFactor : Int, stickyMode : STRING, stickyCookie : STRING, stickyMaxAge : Int,
     failurePolicy : STRING, maxRetries : Int, budgetPercent : Int,
     minRetryConcurrency : Int, failureThreshold : Int, openDuration : Int,
     backends : Seq([addr : STRING, weight : Int]),
     healthPath : STRING, healthInterval : Int, healthTimeout : Int, healthyThreshold : Int,
     unhealthyThreshold : Int, connectTimeout : Int, responseTimeout : Int,
     readTimeout : Int, writeTimeout : Int, idleTimeout : Int, maxConnections : Int,
     maxRequestBodyBytes : Int, rateLimitPerIP : Int, logLevel : STRING, logFormat : STRING]

ASSUME ConfigurationAssumption == Written \subseteq File

VARIABLE inUse   \* the configuration the process runs on

ConfigInit == inUse = Nothing

-----------------------------------------------------------------------------
(* applyDefaults                                                           *)

Or(n, default) == IF n = 0 THEN default ELSE n
OrName(name, default) == IF name = "" THEN default ELSE name

WithWeight(backend) == [backend EXCEPT !.weight = Or(@, 1)]

WithDefaults(c) ==
    [c EXCEPT !.metricsAddr = OrName(@, ":8081"),
              !.budgetPercent = Or(@, 20),
              !.minRetryConcurrency = Or(@, 3),
              !.responseTimeout = Or(@, c.readTimeout),
              !.stickyMode = OrName(@, "none"),
              !.stickyCookie = OrName(@, "lb_backend"),
              !.logLevel = OrName(@, "info"),
              !.logFormat = OrName(@, "json"),
              !.backends = [i \in DOMAIN c.backends |-> WithWeight(c.backends[i])]]

-----------------------------------------------------------------------------
(* validate                                                                *)

Formed(word) == word \notin {"", "?"}

AddressesValid(c) == Formed(c.listenAddr) /\ Formed(c.metricsAddr)

ChoicesValid(c) ==
    /\ c.algorithm \in {"round_robin", "least_connections", "weighted_round_robin",
                        "consistent_hash"}
    /\ c.failurePolicy \in {"retry_next_backend", "fail_fast", "circuit_breaker"}

HashValid(c) ==
    /\ c.hashKey = "" => c.algorithm # "consistent_hash"
    /\ c.hashKey # "?"
    /\ c.balanceFactor = 0 \/ c.balanceFactor >= 100

StickyValid(c) ==
    c.stickyMode \in {"none", "cookie"} /\ Formed(c.stickyCookie) /\ c.stickyMaxAge >= 0

RetryValid(c) ==
    /\ c.maxRetries >= 0
    /\ c.failurePolicy = "retry_next_backend" => c.maxRetries # 0
    /\ c.budgetPercent \in 1..100
    /\ c.minRetryConcurrency >= 1

\* Only read, and only validated, under its own policy.
BreakerValid(c) ==
    c.failurePolicy = "circuit_breaker" => c.failureThreshold >= 1 /\ c.openDuration > 0

BackendsValid(c) ==
    /\ c.backends # <<>>
    /\ \A i \in DOMAIN c.backends :
          /\ Formed(c.backends[i].addr) /\ c.backends[i].weight >= 0
          /\ \A j \in 1..i - 1 : c.backends[j].addr # c.backends[i].addr

\* Slip: a probe may take as long as the interval.
HealthCheckValidAlone(c) ==
    /\ Formed(c.healthPath) /\ c.healthInterval > 0 /\ c.healthTimeout > 0
    /\ c.healthyThreshold >= 1 /\ c.unhealthyThreshold >= 1

HealthCheckValid(c) ==
    /\ Formed(c.healthPath) /\ c.healthInterval > 0 /\ c.healthTimeout > 0
    /\ c.healthTimeout < c.healthInterval
    /\ c.healthyThreshold >= 1 /\ c.unhealthyThreshold >= 1

TimeoutsValid(c) ==
    \A t \in {c.connectTimeout, c.responseTimeout, c.readTimeout, c.writeTimeout,
              c.idleTimeout} : t > 0

LimitsValid(c) ==
    c.maxConnections >= 1 /\ c.maxRequestBodyBytes >= 1 /\ c.rateLimitPerIP >= 0

LoggingValid(c) ==
    /\ c.logLevel \in {"debug", "info", "warn", "error"}
    /\ c.logFormat \in {"json", "text"}

Valid(c) ==
    /\ AddressesValid(c) /\ ChoicesValid(c) /\ HashValid(c) /\ StickyValid(c)
    /\ RetryValid(c) /\ BreakerValid(c) /\ BackendsValid(c) /\ HealthCheckValid(c)
    /\ TimeoutsValid(c) /\ LimitsValid(c) /\ LoggingValid(c)

-----------------------------------------------------------------------------
\* Load, at the start or for a reload: what is refused changes nothing.
LoadConfig(c) ==
    /\ Valid(WithDefaults(c))
    /\ inUse' = WithDefaults(c)

ConfigNext == \E c \in Written : LoadConfig(c)

\* attemptsFor
Attempts(c) == IF c.failurePolicy = "retry_next_backend" THEN 1 + c.maxRetries ELSE 1

-----------------------------------------------------------------------------
\* Whatever is accepted, defaults and the settings of other algorithms and policies
\* included, is within what the parts need and the other modules assume: a probe
\* ends before the next and no ticker is made of nothing (health.go), the bounds of
\* the backends leave room for every request (consistenthash.go), the budget and
\* the breaker let something pass (retrybudget.go, breaker.go), a listener has a
\* slot (limitlistener.go), every wait has an end, and a pinned or merged backend
\* is one backend (sticky.go, balancer.go).
AcceptedIsUsable ==
    inUse # Nothing =>
        /\ Attempts(inUse) \in Nat \ {0}
        /\ inUse.failurePolicy = "retry_next_backend" => Attempts(inUse) > 1
        /\ inUse.budgetPercent \in 1..100 /\ inUse.minRetryConcurrency > 0
        /\ inUse.failurePolicy = "circuit_breaker" =>
              inUse.failureThreshold > 0 /\ inUse.openDuration > 0
        /\ inUse.algorithm = "consistent_hash" => inUse.hashKey \notin {"", "?"}
        /\ inUse.balanceFactor # 0 => inUse.balanceFactor >= 100
        /\ inUse.stickyMode = "cookie" => Formed(inUse.stickyCookie)
        /\ inUse.healthInterval > inUse.healthTimeout /\ inUse.healthTimeout > 0
        /\ inUse.healthyThreshold > 0 /\ inUse.unhealthyThreshold > 0
        /\ inUse.responseTimeout > 0 /\ inUse.connectTimeout > 0 /\ inUse.idleTimeout > 0
        /\ inUse.maxConnections > 0 /\ inUse.rateLimitPerIP >= 0
        /\ inUse.backends # <<>>
        /\ \A i, j \in DOMAIN inUse.backends :
              /\ inUse.backends[i].weight > 0
              /\ i # j => inUse.backends[i].addr # inUse.backends[j].addr

=============================================================================
