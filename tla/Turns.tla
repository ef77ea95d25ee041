------------------------------- MODULE Turns -------------------------------
(***************************************************************************)
(* The strategies that take turns (internal/balancer, roundrobin.go and    *)
(* weightedroundrobin.go) as Core.choose uses them (internal/proxy,        *)
(* hashing.go): a first attempt takes a turn, a retry only under weighted  *)
(* round robin.  The candidates of a call are any of the pool, in its      *)
(* order: backends are numbered by their place.                            *)
(***************************************************************************)
EXTENDS Integers, Sequences, FiniteSetsExt, Functions

CONSTANTS
    PoolSize,
    CounterWidth,  \* bits of RoundRobin.next; 64 in the code
    Shares         \* the weights the configurations give, one after another

\* A power of two is a number.
ASSUME TurnsAssumption ==
    /\ PoolSize \in Nat \ {0} /\ CounterWidth \in Nat /\ 2^CounterWidth \in Nat \ {0}
    /\ Shares \in Seq([1..PoolSize -> Nat]) /\ Shares # <<>>

VARIABLES
    next,     \* RoundRobin.next
    credit,   \* WeightedRoundRobin.credit; 0 is also what a missing entry reads
    share,    \* the index in Shares of the weights in force
    latest    \* history: the backends of the latest first attempts under round robin,
              \* since the candidates changed or the counter wrapped, and those candidates

turnsVars == <<next, credit, share, latest>>

Places == 1..PoolSize
Candidates == (SUBSET Places) \ {{}}

\* Zero weights count as one.
Weight(b) == Max({1, Shares[share][b]})

TotalWeight(C) == SumFunctionOnSet([b \in Places |-> Weight(b)], C)

Heaviest == Max({1} \cup {Shares[i][b] : i \in DOMAIN Shares, b \in Places})

TurnsInit ==
    /\ next = 0
    /\ credit = [b \in Places |-> 0]
    /\ share = 1
    /\ latest = [of |-> Places, got |-> <<>>]

-----------------------------------------------------------------------------
TurnAt(C, n) == CHOOSE b \in C : Cardinality({a \in C : a < b}) = n % Cardinality(C)

Latest(C, b) ==
    LET got == IF latest.of = C THEN latest.got ELSE <<>>
    IN  [of |-> C, got |-> Append(IF Len(got) < Cardinality(C) THEN got ELSE Tail(got), b)]

\* Slip: a retry takes a turn as well.
TakeAnyTurn(C, first) ==
    /\ next' = (next + 1) % 2^CounterWidth
    /\ latest' = IF next' = 0 THEN [of |-> C, got |-> <<>>]
                 ELSE IF first THEN Latest(C, TurnAt(C, next)) ELSE latest
    /\ UNCHANGED <<credit, share>>

\* RoundRobin.Select for a first attempt, SelectRetry for a retry: both are given
\* TurnAt(C, next), and the retry leaves the turn.
TakeTurn(C, first) ==
    /\ next' = IF first THEN (next + 1) % 2^CounterWidth ELSE next
    /\ latest' = IF ~first THEN latest
                 ELSE IF next' = 0 THEN [of |-> C, got |-> <<>>] ELSE Latest(C, TurnAt(C, next))
    /\ UNCHANGED <<credit, share>>

-----------------------------------------------------------------------------
Raised(C) == [b \in Places |-> credit[b] + IF b \in C THEN Weight(b) ELSE 0]

\* The first in the pool's order of those with the most credit.
Richest(C, c) == CHOOSE b \in C : \A a \in C \ {b} : c[a] < c[b] \/ (c[a] = c[b] /\ b < a)

\* Slip: the weight of the whole pool is charged, whoever was passed over.
ChargePool(C) ==
    /\ credit' = [Raised(C) EXCEPT ![Richest(C, Raised(C))] = @ - TotalWeight(Places)]
    /\ UNCHANGED <<next, share, latest>>

\* WeightedRoundRobin.Select, first attempts and retries alike.
Charge(C) ==
    /\ credit' = [Raised(C) EXCEPT ![Richest(C, Raised(C))] = @ - TotalWeight(C)]
    /\ UNCHANGED <<next, share, latest>>

\* MergeBackends: the weights change under the strategy, which stays.
Reweigh ==
    /\ share < Len(Shares)
    /\ share' = share + 1
    /\ UNCHANGED <<next, credit, latest>>

\* One algorithm at a time is in use; the state of the other rests.
TurnsNext ==
    \/ \E C \in Candidates : Charge(C) \/ \E first \in BOOLEAN : TakeTurn(C, first)
    \/ Reweigh

-----------------------------------------------------------------------------
\* As many first attempts in a row as there are candidates, the same for each, go
\* to different backends, whatever retries and choices of other requests come
\* between, up to the wrap of the counter: no retry takes the turn of the next
\* request (RoundRobin.Select and SelectRetry).
RoundsAreFair ==
    \A i, j \in 1..Len(latest.got) : i # j => latest.got[i] # latest.got[j]

\* The credits of weighted round robin cancel out, and none is further from zero than
\* the heaviest weight for each of the other backends, although candidates come and
\* go with their credit kept and reloads change the weights: over any stretch a
\* backend is never more than twice that ahead of its share or behind it, and one
\* that returns is given no longer burst (WeightedRoundRobin.Select, MergeBackends).
CreditsBounded ==
    /\ SumFunctionOnSet(credit, Places) = 0
    /\ \A b \in Places : /\ credit[b] <= Heaviest * (PoolSize - 1)
                         /\ -credit[b] <= Heaviest * (PoolSize - 1)

=============================================================================
