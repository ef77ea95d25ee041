---------------------------- MODULE RateLimiter ----------------------------
(***************************************************************************)
(* The per-client rate limiter (internal/proxy/ratelimit.go): one token    *)
(* bucket per client address, swept when many are tracked.  allow holds    *)
(* the limiter's mutex throughout, so it is one step; but its caller has   *)
(* read the time before it asked for the mutex (wrap), so the reading is   *)
(* up to MaxDelay ticks old, and callers overtake one another.             *)
(*                                                                         *)
(* Time is kept as ages, so that no bound on it is needed; tokens are      *)
(* counted in shares of 1/TicksPerSecond, so that a tick refills a bucket  *)
(* by the rate and fractions of a token are told apart.                    *)
(***************************************************************************)
EXTENDS Integers, Sequences, FiniteSets

CONSTANTS
    Clients,          \* client addresses
    Rates,            \* limits.rate_limit_per_ip at start and then at each reload
    TicksPerSecond,
    IdleBucketTTL,    \* idleBucketTTL, in ticks
    SweepThreshold,   \* sweepThreshold
    MaxDelay          \* bound: ticks between a reading of the time and the mutex

\* config.validate refuses a negative limit.  The code's ten minutes are far
\* longer than a bucket takes to refill from what late readings may have taken
\* off it: each rate at most MaxDelay ticks of its refill.
ASSUME LimiterAssumption ==
    /\ IsFiniteSet(Clients)
    /\ Rates \in Seq(Nat) /\ Rates # <<>>
    /\ TicksPerSecond \in Nat \ {0}
    /\ SweepThreshold \in Nat
    /\ MaxDelay \in Nat
    /\ IdleBucketTTL \in Nat
    /\ IdleBucketTTL >= TicksPerSecond + 2 * MaxDelay
    /\ \A i \in DOMAIN Rates :
          IdleBucketTTL >= TicksPerSecond + MaxDelay * (1 + Len(Rates) * Rates[i])

\* Older than this, a bucket is full and ripe for any sweep.
AgeCap == IdleBucketTTL + MaxDelay + 1

VARIABLES
    reload,      \* the configuration in force, an index of Rates
    buckets      \* rateLimiter.buckets: a function on the clients tracked

limiterVars == <<reload, buckets>>

perSecond == Rates[reload]

Cost == TicksPerSecond
Burst(rate) == rate * TicksPerSecond

LimiterTypeOK ==
    /\ reload \in DOMAIN Rates
    /\ DOMAIN buckets \subseteq Clients
    /\ \A c \in DOMAIN buckets :
          buckets[c] \in [tokens : Int, age : 0..AgeCap]

LimiterInit ==
    /\ reload = 1
    /\ buckets = <<>>

-----------------------------------------------------------------------------
Capped(n, cap) == IF n < cap THEN n ELSE cap

\* Slip: a bucket is not capped at the burst.
RefilledUncapped(bucket, delay) ==
    [tokens |-> bucket.tokens + (bucket.age - delay) * perSecond, age |-> delay]

\* allow: the bucket refilled up to a reading that is delay ticks old.
Refilled(bucket, delay) ==
    [tokens |-> Capped(bucket.tokens + (bucket.age - delay) * perSecond, Burst(perSecond)),
     age |-> delay]

\* Slip: the sweep drops a bucket that has been quiet for a tick.
SweptEarly(known, delay) ==
    [c \in {d \in DOMAIN known : known[d].age - delay < 1} |-> known[c]]

\* sweep, by the time its caller read.
Swept(known, delay) ==
    [c \in {d \in DOMAIN known : known[d].age - delay <= IdleBucketTTL} |-> known[c]]

\* The buckets allow finds c's own among, refilled or new and full.
Prepared(known, c, delay) ==
    LET kept   == IF c \notin DOMAIN known /\ Cardinality(DOMAIN known) >= SweepThreshold
                  THEN Swept(known, delay) ELSE known
        bucket == IF c \in DOMAIN known THEN Refilled(known[c], delay)
                  ELSE [tokens |-> Burst(perSecond), age |-> delay]
    IN  [d \in DOMAIN kept \cup {c} |-> IF d = c THEN bucket ELSE kept[d]]

\* allow, answering TRUE.
Admit(c, delay) ==
    LET prepared == Prepared(buckets, c, delay)
    IN  /\ perSecond > 0
        /\ prepared[c].tokens >= Cost
        /\ buckets' = [prepared EXCEPT ![c].tokens = @ - Cost]
        /\ UNCHANGED reload

\* allow, answering FALSE: wrap answers 429.
Refuse(c, delay) ==
    LET prepared == Prepared(buckets, c, delay)
    IN  /\ perSecond > 0
        /\ prepared[c].tokens < Cost
        /\ buckets' = prepared
        /\ UNCHANGED reload

\* allow when limiting is off.
Pass(c) == perSecond = 0 /\ UNCHANGED limiterVars

\* setRate: a reload keeps the buckets.
SetRate ==
    /\ reload < Len(Rates)
    /\ reload' = reload + 1
    /\ UNCHANGED buckets

LimiterTick ==
    /\ buckets' = [c \in DOMAIN buckets |->
                      [buckets[c] EXCEPT !.age = Capped(@ + 1, AgeCap)]]
    /\ UNCHANGED reload

=============================================================================
