----------------------------- MODULE MCProxyCore -----------------------------
(* Constants of the models of the forwarding core.                         *)
EXTENDS ProxyCoreProperties, TLC

CONSTANTS b1, b2, b3

RequestSymmetry == Permutations(Requests)

Config(policy, maxRetries, retryOn5xx, pool) ==
    [policy |-> policy, maxRetries |-> maxRetries, retryOn5xx |-> retryOn5xx, pool |-> pool]

\* As many retries as there are backends: the last finds none left.
RetryConfigs == <<Config("retry_next_backend", 3, TRUE, <<b1, b2, b3>>)>>

\* One retry over two backends.
LiveConfigs == <<Config("retry_next_backend", 1, TRUE, <<b1, b2>>)>>

\* A reload that leaves the breaker for retries, with more attempts than there
\* are backends, and adds a backend.
ReloadConfigs == <<Config("circuit_breaker", 0, FALSE, <<b2>>),
                   Config("retry_next_backend", 2, TRUE, <<b1, b2>>)>>

BreakerConfigs == <<Config("circuit_breaker", 0, FALSE, <<b1, b2>>)>>

\* A reload that changes nothing but whether a 5xx is a failure.
JudgeConfigs == <<Config("retry_next_backend", 1, FALSE, <<b1, b2>>),
                  Config("retry_next_backend", 1, TRUE, <<b1, b2>>)>>

Thresholds == [unhealthy |-> 1, healthy |-> 1]

\* Health checking slower than the breaker, so that the breaker acts first.
SlowThresholds == [unhealthy |-> 3, healthy |-> 1]

=============================================================================
