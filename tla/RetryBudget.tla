---------------------------- MODULE RetryBudget ----------------------------
(***************************************************************************)
(* The retry budget of one configuration snapshot                          *)
(* (internal/proxy/retrybudget.go): two atomic counters, and the requests  *)
(* that move them.  Every atomic operation of the code is a step of its    *)
(* own, because no lock spans two of them: tryRetry adds first, then loads *)
(* the load to compute the limit, and takes its addition back in a third   *)
(* step when it was refused.                                               *)
(***************************************************************************)
EXTENDS Integers, FiniteSets

CONSTANTS
    Requests,   \* the requests that may be in flight at once
    Percent,    \* retry.budget_percent
    Minimum     \* retry.min_retry_concurrency

ASSUME RequestsAssumption == IsFiniteSet(Requests)

\* config.validate: the share is in (0, 100], the minimum is at least one.
ASSUME BudgetAssumption == Percent \in 1..100 /\ Minimum \in Nat \ {0}

VARIABLES
    requests,   \* retryBudget.requests
    retries,    \* retryBudget.retries
    stage,      \* where each request is in its use of the budget
    ticket      \* what retries.Add(1) returned to a request that is asking

vars == <<requests, retries, stage, ticket>>

Stages == {"out", "in", "asking", "refused", "holding"}

TypeOK ==
    /\ requests \in Nat
    /\ retries \in Nat
    /\ stage \in [Requests -> Stages]
    /\ ticket \in [Requests -> Nat]

\* retryBudget.limit at a load of n requests.
Limit(n) ==
    LET share == (Percent * n) \div 100
    IN  IF share > Minimum THEN share ELSE Minimum

InFlight == {r \in Requests : stage[r] # "out"}
Holding  == {r \in Requests : stage[r] = "holding"}
\* The requests the retries counter includes: a refused one is still in it
\* until it has taken its addition back.
Counted  == {r \in Requests : stage[r] \in {"asking", "refused", "holding"}}

-----------------------------------------------------------------------------
Init ==
    /\ requests = 0
    /\ retries = 0
    /\ stage = [r \in Requests |-> "out"]
    /\ ticket = [r \in Requests |-> 0]

RequestStarted(r) ==
    /\ stage[r] = "out"
    /\ stage' = [stage EXCEPT ![r] = "in"]
    /\ requests' = requests + 1
    /\ UNCHANGED <<retries, ticket>>

RequestFinished(r) ==
    /\ stage[r] = "in"
    /\ stage' = [stage EXCEPT ![r] = "out"]
    /\ requests' = requests - 1
    /\ UNCHANGED <<retries, ticket>>

\* tryRetry, first atomic operation: the addition, whose result it keeps.
AskRetry(r) ==
    /\ stage[r] = "in"
    /\ stage' = [stage EXCEPT ![r] = "asking"]
    /\ retries' = retries + 1
    /\ ticket' = [ticket EXCEPT ![r] = retries + 1]
    /\ UNCHANGED requests

\* Slip: the retry asking is not counted among those in flight.
GrantOneMore(r) ==
    /\ stage[r] = "asking"
    /\ ticket[r] <= Limit(requests) + 1
    /\ stage' = [stage EXCEPT ![r] = "holding"]
    /\ ticket' = [ticket EXCEPT ![r] = 0]
    /\ UNCHANGED <<requests, retries>>

\* tryRetry, second: the load is read now, and the result compared with it.
GrantRetry(r) ==
    /\ stage[r] = "asking"
    /\ ticket[r] <= Limit(requests)
    /\ stage' = [stage EXCEPT ![r] = "holding"]
    /\ ticket' = [ticket EXCEPT ![r] = 0]
    /\ UNCHANGED <<requests, retries>>

RefuseRetry(r) ==
    /\ stage[r] = "asking"
    /\ ticket[r] > Limit(requests)
    /\ stage' = [stage EXCEPT ![r] = "refused"]
    /\ ticket' = [ticket EXCEPT ![r] = 0]
    /\ UNCHANGED <<requests, retries>>

\* tryRetry, third, when refused: the addition is taken back.
TakeBack(r) ==
    /\ stage[r] = "refused"
    /\ stage' = [stage EXCEPT ![r] = "in"]
    /\ retries' = retries - 1
    /\ UNCHANGED <<requests, ticket>>

RetryFinished(r) ==
    /\ stage[r] = "holding"
    /\ stage' = [stage EXCEPT ![r] = "in"]
    /\ retries' = retries - 1
    /\ UNCHANGED <<requests, ticket>>

Step(r) ==
    \/ RequestStarted(r)
    \/ RequestFinished(r)
    \/ AskRetry(r)
    \/ GrantRetry(r)
    \/ RefuseRetry(r)
    \/ TakeBack(r)
    \/ RetryFinished(r)

Next == \E r \in Requests : Step(r)

Spec == Init /\ [][Next]_vars

-----------------------------------------------------------------------------
\* The counters are exact: whatever the interleaving, requests is the number
\* of requests in flight and retries the number that asked and have not yet
\* given back. A release skipped on any way out would break it for good, as
\* the leak fixed in v1.3.1 did (Core.try, deferred retryFinished).
CountsExact ==
    /\ requests = Cardinality(InFlight)
    /\ retries = Cardinality(Counted)

\* The requests that hold a retry, or are as good as granted one at any load
\* whose limit is at least L: their ticket is within it.
Destined(L) == Holding \cup {r \in Requests : stage[r] = "asking" /\ ticket[r] <= L}

=============================================================================
