---------------------------- MODULE GuardsProofs ----------------------------
(***************************************************************************)
(* Proofs about what surrounds the forwarding of a request: the retry      *)
(* budget, for every number of requests, share and minimum; the circuit    *)
(* breaker, for every set of backends, threshold and open period; the      *)
(* connection limit and the graceful shutdown, for every finite set of     *)
(* connections and every limit; and the configurations that are accepted,  *)
(* whatever files are written.                                             *)
(***************************************************************************)
EXTENDS RetryBudgetPeak, BreakerHistory, ServerProperties, Configuration, Integers, Sequences,
        FiniteSetTheorems, TLAPS

-----------------------------------------------------------------------------
(* The retry budget.  The inductive invariant is the conjunction of the     *)
(* types, the exactness of the two counters, peak being an upper bound of   *)
(* the load, and TicketsRation, which is what makes the cap survive the     *)
(* window between a request's addition and its reading of the load.         *)

PeakCovers == requests <= peak

BudgetInv == TypeOKP /\ CountsExact /\ PeakCovers /\ TicketsRation

-----------------------------------------------------------------------------
\* limit() is a natural number and grows with the load (retryBudget.limit).
LEMMA LimitMonotone ==
    ASSUME NEW m \in Nat, NEW n \in Nat, m <= n
    PROVE  Limit(m) \in Nat /\ Limit(m) <= Limit(n)
<1> USE BudgetAssumption
<1>1. Percent * m \in Nat /\ Percent * n \in Nat /\ Percent * m <= Percent * n
  OBVIOUS
<1>2. (Percent * m) \div 100 \in Nat /\ (Percent * n) \div 100 \in Nat
  BY <1>1
<1>3. (Percent * m) \div 100 <= (Percent * n) \div 100
  BY <1>1
<1> QED
  BY <1>2, <1>3 DEF Limit

\* The sets of requests the counters count are finite.
LEMMA FiniteSubsets ==
    ASSUME NEW S \in SUBSET Requests
    PROVE  IsFiniteSet(S) /\ Cardinality(S) \in Nat
BY RequestsAssumption, FS_Subset, FS_CardinalityType

\* The empty budget satisfies the invariant (newRetryBudget).
LEMMA BudgetStarts == InitP => BudgetInv
<1> SUFFICES ASSUME InitP PROVE BudgetInv
  OBVIOUS
<1> USE DEF InitP, Init
<1>1. TypeOKP
  BY DEF TypeOKP, TypeOK, Stages
<1>2. InFlight = {} /\ Counted = {}
  BY DEF InFlight, Counted
<1>3. CountsExact
  BY <1>2, FS_EmptySet DEF CountsExact
<1>4. PeakCovers
  BY DEF PeakCovers
<1>5. TicketsRation
  <2> SUFFICES ASSUME NEW L \in Nat PROVE Cardinality(Destined(L)) <= L
    BY DEF TicketsRation
  <2>1. Destined(L) = {}
    BY DEF Destined, Holding
  <2> QED
    BY <2>1, FS_EmptySet
<1> QED
  BY <1>1, <1>3, <1>4, <1>5 DEF BudgetInv

\* Every step of the budget keeps the types.
LEMMA BudgetTypeStep == TypeOKP /\ CountsExact /\ [NextP]_varsP => TypeOKP'
<1> SUFFICES ASSUME TypeOKP, CountsExact, [NextP]_varsP PROVE TypeOKP'
  OBVIOUS
<1> USE DEF TypeOKP, TypeOK, Stages
<1>1. ASSUME NEW r \in Requests, stage[r] # "out" PROVE requests - 1 \in Nat
  <2>1. r \in InFlight /\ InFlight \in SUBSET Requests
    BY <1>1 DEF InFlight
  <2>2. Cardinality(InFlight) # 0
    BY <2>1, FiniteSubsets, FS_EmptySet
  <2> QED
    BY <2>2 DEF CountsExact
<1>2. ASSUME NEW r \in Requests, stage[r] \in {"asking", "refused", "holding"}
      PROVE  retries - 1 \in Nat
  <2>1. r \in Counted /\ Counted \in SUBSET Requests
    BY <1>2 DEF Counted
  <2>2. Cardinality(Counted) # 0
    BY <2>1, FiniteSubsets, FS_EmptySet
  <2> QED
    BY <2>2 DEF CountsExact
<1>3. ASSUME NEW r \in Requests, Step(r) PROVE TypeOK'
  <2>1. CASE RequestStarted(r) BY <2>1 DEF RequestStarted
  <2>2. CASE RequestFinished(r) BY <2>2, <1>1 DEF RequestFinished
  <2>3. CASE AskRetry(r) BY <2>3 DEF AskRetry
  <2>4. CASE GrantRetry(r) BY <2>4 DEF GrantRetry
  <2>5. CASE RefuseRetry(r) BY <2>5 DEF RefuseRetry
  <2>6. CASE TakeBack(r) BY <2>6, <1>2 DEF TakeBack
  <2>7. CASE RetryFinished(r) BY <2>7, <1>2 DEF RetryFinished
  <2> QED
    BY <1>3, <2>1, <2>2, <2>3, <2>4, <2>5, <2>6, <2>7 DEF Step
<1>4. CASE NextP
  <2>1. TypeOK' BY <1>3, <1>4 DEF NextP, Next
  <2>2. peak' \in Nat BY <1>4, <2>1 DEF NextP
  <2> QED BY <2>1, <2>2
<1>5. CASE UNCHANGED varsP
  BY <1>5 DEF varsP, vars
<1> QED
  BY <1>4, <1>5

\* Each atomic addition is matched by one request entering or leaving the set
\* its counter counts.
LEMMA CountsStep == TypeOKP /\ CountsExact /\ [NextP]_varsP => CountsExact'
<1> SUFFICES ASSUME TypeOKP, CountsExact, [NextP]_varsP PROVE CountsExact'
  OBVIOUS
<1> USE DEF TypeOKP, TypeOK, Stages, CountsExact
<1>0. InFlight \in SUBSET Requests /\ Counted \in SUBSET Requests
  BY DEF InFlight, Counted
<1>f. IsFiniteSet(InFlight) /\ IsFiniteSet(Counted)
  BY <1>0, FiniteSubsets
<1>1. ASSUME NEW r \in Requests, Step(r) PROVE CountsExact'
  <2>1. CASE RequestStarted(r)
    <3>1. r \notin InFlight /\ InFlight' = InFlight \cup {r} /\ Counted' = Counted
      BY <2>1 DEF RequestStarted, InFlight, Counted
    <3> QED BY <2>1, <3>1, <1>f, FS_AddElement DEF RequestStarted
  <2>2. CASE RequestFinished(r)
    <3>1. r \in InFlight /\ InFlight' = InFlight \ {r} /\ Counted' = Counted
      BY <2>2 DEF RequestFinished, InFlight, Counted
    <3> QED BY <2>2, <3>1, <1>f, FS_RemoveElement DEF RequestFinished
  <2>3. CASE AskRetry(r)
    <3>1. r \notin Counted /\ Counted' = Counted \cup {r} /\ InFlight' = InFlight
      BY <2>3 DEF AskRetry, InFlight, Counted
    <3> QED BY <2>3, <3>1, <1>f, FS_AddElement DEF AskRetry
  <2>4. CASE GrantRetry(r) \/ RefuseRetry(r)
    <3>1. Counted' = Counted /\ InFlight' = InFlight
      BY <2>4 DEF GrantRetry, RefuseRetry, InFlight, Counted
    <3> QED BY <2>4, <3>1 DEF GrantRetry, RefuseRetry
  <2>5. CASE TakeBack(r) \/ RetryFinished(r)
    <3>1. r \in Counted /\ Counted' = Counted \ {r} /\ InFlight' = InFlight
      BY <2>5 DEF TakeBack, RetryFinished, InFlight, Counted
    <3> QED BY <2>5, <3>1, <1>f, FS_RemoveElement DEF TakeBack, RetryFinished
  <2> QED
    BY <1>1, <2>1, <2>2, <2>3, <2>4, <2>5 DEF Step
<1>2. CASE UNCHANGED varsP
  BY <1>2 DEF varsP, vars, InFlight, Counted
<1> QED
  BY <1>1, <1>2 DEF NextP, Next

\* The history variable covers the load, and never decreases.
LEMMA PeakStep ==
    ASSUME TypeOKP, TypeOKP', PeakCovers, [NextP]_varsP
    PROVE  PeakCovers' /\ peak <= peak'
BY DEF TypeOKP, TypeOK, PeakCovers, NextP, varsP, vars

\* A step that adds nobody to Destined(L) keeps its size within L.
LEMMA DestinedShrinks ==
    ASSUME TypeOKP, NEW L \in Nat, Cardinality(Destined(L)) <= L,
           Destined(L)' \subseteq Destined(L)
    PROVE  Cardinality(Destined(L)') <= L
<1>1. Destined(L) \in SUBSET Requests
  BY DEF Destined, Holding
<1>2. IsFiniteSet(Destined(L))
  BY <1>1, FiniteSubsets
<1>3. Cardinality(Destined(L)') <= Cardinality(Destined(L))
  BY <1>2, FS_Subset
<1>4. Cardinality(Destined(L)) \in Nat /\ Cardinality(Destined(L)') \in Nat
  BY <1>1, FiniteSubsets
<1> QED
  BY <1>3, <1>4

\* The ticket of a new asker is one more than the retries counted, so it is
\* within L only if fewer than L requests were counted; a grant is decided at
\* a load no higher than the peak, so whoever gets one was counted already.
LEMMA RationStep ==
    ASSUME BudgetInv, TypeOKP', [NextP]_varsP
    PROVE  TicketsRation'
<1> SUFFICES ASSUME NEW L \in Nat, L >= Limit(peak')
             PROVE  Cardinality(Destined(L)') <= L
  BY DEF TicketsRation, Limit, Destined, Holding
<1> USE DEF BudgetInv, TypeOKP, TypeOK, Stages
<1>1. Limit(peak) \in Nat /\ Limit(peak) <= L
  <2>1. peak <= peak'
    BY PeakStep
  <2>2. Limit(peak) \in Nat /\ Limit(peak') \in Nat /\ Limit(peak) <= Limit(peak')
    BY <2>1, LimitMonotone
  <2> QED BY <2>2
<1>2. Cardinality(Destined(L)) <= L
  BY <1>1 DEF TicketsRation
<1>3. ASSUME NEW r \in Requests, AskRetry(r) PROVE Cardinality(Destined(L)') <= L
  <2>1. CASE retries + 1 > L
    <3>1. Destined(L)' \subseteq Destined(L)
      BY <1>3, <2>1 DEF AskRetry, Destined, Holding
    <3> QED BY <3>1, <1>2, DestinedShrinks
  <2>2. CASE retries + 1 <= L
    <3>1. Destined(L)' \subseteq Counted \cup {r}
      BY <1>3 DEF AskRetry, Destined, Holding, Counted
    <3>2. Counted \in SUBSET Requests /\ r \notin Counted
      BY <1>3 DEF AskRetry, Counted
    <3>3. IsFiniteSet(Counted \cup {r}) /\ Cardinality(Counted \cup {r}) = retries + 1
      BY <3>2, FiniteSubsets, FS_AddElement DEF CountsExact
    <3>4. Cardinality(Destined(L)') <= retries + 1
      BY <3>1, <3>3, FS_Subset
    <3>5. Cardinality(Destined(L)') \in Nat
      BY <3>1, <3>3, FS_Subset, FS_CardinalityType
    <3> QED BY <3>4, <3>5, <2>2
  <2> QED
    BY <2>1, <2>2
<1>4. ASSUME NEW r \in Requests, GrantRetry(r) PROVE Destined(L)' \subseteq Destined(L)
  <2>1. ticket[r] <= L
    <3>1. Limit(requests) \in Nat /\ Limit(requests) <= Limit(peak)
      BY LimitMonotone DEF PeakCovers
    <3> QED BY <1>4, <3>1, <1>1 DEF GrantRetry
  <2> QED
    BY <1>4, <2>1 DEF GrantRetry, Destined, Holding
<1>5. ASSUME NEW r \in Requests,
             \/ RequestStarted(r) \/ RequestFinished(r) \/ RefuseRetry(r)
             \/ TakeBack(r) \/ RetryFinished(r)
      PROVE  Destined(L)' \subseteq Destined(L)
  BY <1>5 DEF RequestStarted, RequestFinished, RefuseRetry, TakeBack, RetryFinished,
              Destined, Holding
<1>6. CASE UNCHANGED varsP
  <2>1. Destined(L)' \subseteq Destined(L)
    BY <1>6 DEF varsP, vars, Destined, Holding
  <2> QED BY <2>1, <1>2, DestinedShrinks
<1>7. CASE NextP
  <2>1. PICK r \in Requests : Step(r)
    BY <1>7 DEF NextP, Next
  <2> QED
    BY <2>1, <1>2, <1>3, <1>4, <1>5, DestinedShrinks DEF Step
<1> QED
  BY <1>6, <1>7

-----------------------------------------------------------------------------
\* The inductive invariant holds in every reachable state of the budget.
THEOREM BudgetInvariance == SpecP => []BudgetInv
<1>1. InitP => BudgetInv
  BY BudgetStarts
<1>2. BudgetInv /\ [NextP]_varsP => BudgetInv'
  BY BudgetTypeStep, CountsStep, PeakStep, RationStep DEF BudgetInv
<1> QED
  BY <1>1, <1>2, PTL DEF SpecP

\* The counters stay natural numbers: no sequence of reservations and releases
\* drives an atomic counter below zero (internal/proxy/retrybudget.go).
THEOREM BudgetTypeCorrect == SpecP => []TypeOKP
<1>1. BudgetInv => TypeOKP
  BY DEF BudgetInv
<1> QED
  BY <1>1, BudgetInvariance, PTL

\* requests and retries count exactly the requests in flight and those that
\* asked and have not given back (requestStarted to retryFinished).
THEOREM CountersExact == SpecP => []CountsExact
<1>1. BudgetInv => CountsExact
  BY DEF BudgetInv
<1> QED
  BY <1>1, BudgetInvariance, PTL

\* However concurrent tryRetry calls interleave, the retries in flight stay
\* within limit() at the highest load offered (retryBudget.tryRetry).
THEOREM RetriesCapped == SpecP => []RetriesWithinPeak
<1>1. BudgetInv => RetriesWithinPeak
  <2> SUFFICES ASSUME BudgetInv PROVE RetriesWithinPeak
    OBVIOUS
  <2>1. Limit(peak) \in Nat
    BY LimitMonotone DEF BudgetInv, TypeOKP
  <2>2. Cardinality(Destined(Limit(peak))) <= Limit(peak)
    BY <2>1 DEF BudgetInv, TicketsRation
  <2>3. Holding \subseteq Destined(Limit(peak)) /\ Destined(Limit(peak)) \in SUBSET Requests
    BY DEF Destined, Holding
  <2>4. Cardinality(Holding) <= Cardinality(Destined(Limit(peak)))
    BY <2>3, FiniteSubsets, FS_Subset
  <2>5. Cardinality(Holding) \in Nat /\ Cardinality(Destined(Limit(peak))) \in Nat
    BY <2>3, FiniteSubsets
  <2> QED
    BY <2>1, <2>2, <2>4, <2>5 DEF RetriesWithinPeak
<1> QED
  BY <1>1, BudgetInvariance, PTL

-----------------------------------------------------------------------------
(* The circuit breaker.  The inductive invariant ties each field of a       *)
(* circuit to the history it stands for, one backend at a time.             *)

\* What the fields of backend b's circuit say about what was reported of it.
Tied(b) ==
    LET c == circuits[b]
    IN  IF Enabled
        THEN /\ c.failures = streak[b]
             /\ Tripped(c) <=> streak[b] = FailureThreshold
             /\ Tripped(c) => c.left = OpenTicks - rest[b]
             /\ c.probing => Elapsed(c)
             /\ Tripped(c) /\ ~c.probing => grants[b] = 0
             /\ grants[b] <= 1 \/ ~Tripped(c)
        ELSE c = Untracked

BreakerInv == TypeOKH /\ \A b \in Addrs : Tied(b)

USE CircuitAssumption, EnabledAssumption

-----------------------------------------------------------------------------
\* Every operation of a circuit yields a circuit (circuit, recordFailure).
LEMMA CircuitTypes ==
    ASSUME NEW c \in CircuitStates
    PROVE  /\ Untracked \in CircuitStates
           /\ AfterAllow(c) \in CircuitStates
           /\ AfterSuccess(c) \in CircuitStates
           /\ AfterFailure(c) \in CircuitStates
           /\ AfterTick(c) \in CircuitStates
<1> USE DEF CircuitStates, Closed
<1>1. Untracked \in CircuitStates /\ AfterSuccess(c) \in CircuitStates
  BY DEF Untracked, AfterSuccess
<1>2. AfterAllow(c) \in CircuitStates
  BY DEF AfterAllow, Elapsed
<1>3. AfterFailure(c) \in CircuitStates
  BY DEF AfterFailure
<1>4. AfterTick(c) \in CircuitStates
  BY DEF AfterTick
<1> QED
  BY <1>1, <1>2, <1>3, <1>4

\* Every step keeps the types.
LEMMA BreakerTypeStep == TypeOKH /\ [NextH]_varsH => TypeOKH'
<1> SUFFICES ASSUME TypeOKH, [NextH]_varsH PROVE TypeOKH'
  OBVIOUS
<1> USE DEF TypeOKH, BreakerTypeOK
<1>1. \A n \in 0..OpenTicks : Earlier(n, OpenTicks) \in 0..OpenTicks
  BY DEF Earlier
<1>2. \A n \in 0..FailureThreshold :
          Earlier(n, FailureThreshold) \in 0..FailureThreshold
  BY DEF Earlier
<1>3. \A n \in 0..2 : Earlier(n, 2) \in 0..2
  BY DEF Earlier
<1>4. CASE TickH
  BY <1>4, <1>1, CircuitTypes DEF TickH, Tick
<1>5. ASSUME NEW b \in Addrs, AllowH(b) PROVE TypeOKH'
  BY <1>5, <1>3, CircuitTypes DEF AllowH, Allow
<1>6. ASSUME NEW b \in Addrs, HoldH(b) PROVE TypeOKH'
  BY <1>6 DEF HoldH, Hold
<1>7. ASSUME NEW b \in Addrs, RecordSuccessH(b) PROVE TypeOKH'
  BY <1>7, CircuitTypes DEF RecordSuccessH, RecordSuccess
<1>8. ASSUME NEW b \in Addrs, RecordFailureH(b) PROVE TypeOKH'
  BY <1>8, <1>2, CircuitTypes DEF RecordFailureH, RecordFailure
<1>9. CASE UNCHANGED varsH
  BY <1>9 DEF varsH
<1> QED
  BY <1>4, <1>5, <1>6, <1>7, <1>8, <1>9 DEF NextH

\* A step on one backend leaves what the others' circuits say alone.
LEMMA TiedUntouched ==
    ASSUME NEW b, Tied(b),
           circuits'[b] = circuits[b], streak'[b] = streak[b],
           rest'[b] = rest[b], grants'[b] = grants[b]
    PROVE  Tied(b)'
BY DEF Tied, Tripped, Elapsed

\* Every step keeps each circuit tied to its history.
LEMMA TiedStep ==
    ASSUME TypeOKH, NEW b \in Addrs, Tied(b), [NextH]_varsH
    PROVE  Tied(b)'
<1> USE DEF TypeOKH, BreakerTypeOK
<1>c. circuits[b] \in CircuitStates
  OBVIOUS
<1>1. CASE TickH
  <2>1. /\ circuits'[b] = AfterTick(circuits[b]) /\ streak'[b] = streak[b]
        /\ rest'[b] = Earlier(rest[b], OpenTicks) /\ grants'[b] = grants[b]
    BY <1>1 DEF TickH, Tick
  <2>2. CASE circuits[b].left > 0
    <3>1. /\ circuits'[b].left = circuits[b].left - 1
          /\ circuits'[b].failures = circuits[b].failures
          /\ circuits'[b].probing = circuits[b].probing
          /\ Tripped(circuits[b]) /\ ~Elapsed(circuits[b]) /\ Tripped(circuits'[b])
      BY <2>1, <2>2, <1>c DEF AfterTick, CircuitStates, Closed, Tripped, Elapsed
    <3>2. CASE Enabled
      <4>1. circuits[b].left = OpenTicks - rest[b] /\ ~circuits[b].probing
        BY <3>1, <3>2 DEF Tied
      <4>2. circuits'[b].left = OpenTicks - rest'[b]
        BY <4>1, <3>1, <2>1, <2>2, <1>c DEF Earlier, CircuitStates, Closed
      <4> QED
        BY <4>1, <4>2, <3>1, <3>2, <2>1 DEF Tied
    <3>3. CASE ~Enabled
      BY <3>3, <2>2 DEF Tied, Untracked, Closed
    <3> QED
      BY <3>2, <3>3
  <2>3. CASE ~(circuits[b].left > 0)
    <3>1. circuits'[b] = circuits[b]
      BY <2>1, <2>3 DEF AfterTick
    <3>2. ASSUME Tripped(circuits[b]), Enabled PROVE rest'[b] = rest[b]
      <4>1. circuits[b].left \in Closed..OpenTicks /\ circuits[b].left # Closed
        BY <3>2, <1>c DEF Tripped, CircuitStates
      <4>2. circuits[b].left = 0 /\ OpenTicks \in Nat
        BY <4>1, <2>3, CircuitAssumption DEF Closed
      <4>3. rest[b] = OpenTicks
        <5>1. rest[b] = OpenTicks - circuits[b].left
          BY <3>2, <4>2 DEF Tied
        <5> QED
          BY <5>1, <4>2
      <4> QED
        BY <4>2, <4>3, <2>1 DEF Earlier
    <3> QED
      BY <3>1, <3>2, <2>1 DEF Tied
  <2> QED
    BY <2>2, <2>3
<1>2. ASSUME NEW a \in Addrs, AllowH(a) PROVE Tied(b)'
  <2>1. CASE a # b
    BY <1>2, <2>1, TiedUntouched DEF AllowH, Allow
  <2>2. CASE a = b /\ Enabled
    <3>1. Admits(circuits[b]) /\ circuits'[b] = AfterAllow(circuits[b])
      BY <1>2, <2>2 DEF AllowH, Allow
    <3>2. /\ streak'[b] = streak[b] /\ rest'[b] = rest[b]
          /\ grants'[b] = IF streak[b] = FailureThreshold
                          THEN Earlier(grants[b], 2) ELSE grants[b]
      BY <1>2, <2>2 DEF AllowH
    <3> QED
      BY <3>1, <3>2, <2>2, <1>c
      DEF Tied, Tripped, Elapsed, Admits, AfterAllow, Earlier, CircuitStates, Closed
  <2>3. CASE a = b /\ ~Enabled
    BY <1>2, <2>3 DEF AllowH, Allow, Tied
  <2> QED
    BY <2>1, <2>2, <2>3
<1>3. ASSUME NEW a \in Addrs, HoldH(a) PROVE Tied(b)'
  BY <1>3, TiedUntouched DEF HoldH, Hold
<1>4. ASSUME NEW a \in Addrs, RecordSuccessH(a) PROVE Tied(b)'
  <2>1. CASE a # b
    BY <1>4, <2>1, TiedUntouched DEF RecordSuccessH, RecordSuccess
  <2>2. CASE a = b /\ Enabled
    <3>1. /\ circuits'[b] = Untracked /\ streak'[b] = 0 /\ rest'[b] = 0 /\ grants'[b] = 0
      BY <1>4, <2>2 DEF RecordSuccessH, RecordSuccess, AfterSuccess
    <3> QED
      BY <3>1, <2>2 DEF Tied, Tripped, Elapsed, Untracked, Closed
  <2>3. CASE a = b /\ ~Enabled
    BY <1>4, <2>3 DEF RecordSuccessH, RecordSuccess, Tied
  <2> QED
    BY <2>1, <2>2, <2>3
<1>5. ASSUME NEW a \in Addrs, RecordFailureH(a) PROVE Tied(b)'
  <2>1. CASE a # b
    BY <1>5, <2>1, TiedUntouched DEF RecordFailureH, RecordFailure
  <2>2. CASE a = b /\ Enabled
    <3>1. /\ circuits'[b] = AfterFailure(circuits[b]) /\ rest'[b] = 0 /\ grants'[b] = 0
          /\ streak'[b] = Earlier(streak[b], FailureThreshold)
      BY <1>5, <2>2 DEF RecordFailureH, RecordFailure
    <3>2. /\ circuits'[b].failures = streak'[b] /\ ~circuits'[b].probing
          /\ circuits'[b].left = IF streak'[b] = FailureThreshold
                                 THEN OpenTicks ELSE circuits[b].left
      <4>1. circuits[b].failures = streak[b]
        BY <2>2 DEF Tied
      <4>2. streak'[b] = IF circuits[b].failures < FailureThreshold
                         THEN circuits[b].failures + 1 ELSE circuits[b].failures
        <5>1. streak[b] \in 0..FailureThreshold /\ streak'[b] = Earlier(streak[b], FailureThreshold)
          BY <3>1
        <5> QED
          BY <4>1, <5>1 DEF Earlier
      <4>3. circuits'[b] = [failures |-> streak'[b],
                            left     |-> IF streak'[b] = FailureThreshold
                                         THEN OpenTicks ELSE circuits[b].left,
                            probing  |-> FALSE]
        BY <3>1, <4>2, Zenon DEF AfterFailure
      <4> QED
        BY <4>3
    <3>3. streak'[b] # FailureThreshold => streak[b] # FailureThreshold
      BY <3>1 DEF Earlier
    <3>4. Tripped(circuits'[b]) <=> streak'[b] = FailureThreshold
      BY <3>2, <3>3, <2>2 DEF Tied, Tripped, Closed
    <3> QED
      BY <3>1, <3>2, <3>4, <2>2 DEF Tied
  <2>3. CASE a = b /\ ~Enabled
    BY <1>5, <2>3 DEF RecordFailureH, RecordFailure, Tied
  <2> QED
    BY <2>1, <2>2, <2>3
<1>6. CASE UNCHANGED varsH
  BY <1>6, TiedUntouched DEF varsH
<1> QED
  BY <1>1, <1>2, <1>3, <1>4, <1>5, <1>6 DEF NextH

-----------------------------------------------------------------------------
\* The inductive invariant holds in every reachable state of the breaker.
THEOREM BreakerInvariance == SpecH => []BreakerInv
<1>1. InitH => BreakerInv
  BY DEF InitH, BreakerInit, BreakerInv, TypeOKH, BreakerTypeOK, Tied, Untracked, CircuitStates,
         Closed, Tripped, Elapsed
<1>2. BreakerInv /\ [NextH]_varsH => BreakerInv'
  BY BreakerTypeStep, TiedStep DEF BreakerInv
<1> QED
  BY <1>1, <1>2, PTL DEF SpecH

\* Every circuit stays within its states: the failures counted never pass the
\* threshold unseen and openedUntil is never further than one open period away.
THEOREM BreakerTypeCorrect == SpecH => []TypeOKH
<1>1. BreakerInv => TypeOKH
  BY DEF BreakerInv
<1> QED
  BY <1>1, BreakerInvariance, PTL

\* A backend is shut out exactly after FailureThreshold failures in a row
\* (breaker.recordFailure, breaker.recordSuccess).
THEOREM TripsOnRuns == SpecH => []TrippedByAnUnbrokenRun
<1>1. BreakerInv => TrippedByAnUnbrokenRun
  BY DEF BreakerInv, Tied, TrippedByAnUnbrokenRun, Untracked, Tripped
<1> QED
  BY <1>1, BreakerInvariance, PTL

\* Between two outcomes of a tripped backend allow admits at most one caller.
THEOREM SingleProbe == SpecH => []OneProbePerOutcome
<1>1. BreakerInv => OneProbePerOutcome
  BY DEF BreakerInv, Tied, OneProbePerOutcome
<1> QED
  BY <1>1, BreakerInvariance, PTL

\* allow admits nobody to a tripped backend within the open period.
THEOREM ShutOut == SpecH => ShutOutForThePeriod
<1>1. BreakerInv /\ [NextH]_varsH =>
        [\A b \in Addrs :
            AllowH(b) /\ Enabled /\ streak[b] = FailureThreshold => rest[b] = OpenTicks]_varsH
  <2> SUFFICES ASSUME BreakerInv, NEW b \in Addrs, AllowH(b), Enabled,
                      streak[b] = FailureThreshold
               PROVE  rest[b] = OpenTicks
    OBVIOUS
  <2>1. Tripped(circuits[b]) /\ Admits(circuits[b])
    BY DEF BreakerInv, Tied, AllowH, Allow
  <2>2. circuits[b].left = 0 /\ circuits[b].left = OpenTicks - rest[b]
    BY <2>1 DEF BreakerInv, Tied, Admits, Elapsed
  <2>3. rest[b] \in 0..OpenTicks
    BY DEF BreakerInv, TypeOKH
  <2> QED
    BY <2>2, <2>3
<1> QED
  BY <1>1, BreakerInvariance, PTL DEF SpecH, ShutOutForThePeriod

-----------------------------------------------------------------------------
(* The traffic server.                                                     *)

Open == In({"accepted", "new", "active", "idle"})

\* Why no connection slips past the shutdown: one that Accept returned is tracked
\* before the loop goes on, the queue dies with the socket, and Shutdown looks at
\* the connections only after the loop has returned.
Orderly ==
    /\ \A c, d \in Conns :
          conn[c] = "accepted" /\ conn[d] = "accepted" => c = d
    /\ acceptor # "track" => In({"accepted"}) = {}
    /\ run # "serving" => In({"queued"}) = {}
    /\ run \in {"polling", "drained", "expired"} => acceptor = "returned"
    /\ run = "drained" => In({"new", "active", "idle"}) = {}

ServerInv == ServerTypeOK /\ SlotsExact /\ Orderly

-----------------------------------------------------------------------------
\* The open connections are counted by a number.
LEMMA OpenCounted ==
    IsFiniteSet(Open) /\ Cardinality(Open) \in Nat
<1>1. Open \in SUBSET Conns
  BY DEF Open, In
<1> QED
  BY <1>1, FS_Subset, FS_CardinalityType, ServerAssumption

\* A connection that opens counts one more (limitListener.Accept).
LEMMA OpensOne ==
    ASSUME NEW c \in Conns, c \notin Open, Open' = Open \cup {c}
    PROVE  Cardinality(Open)' = Cardinality(Open) + 1
BY OpenCounted, FS_AddElement

\* One that closes counts one less (limitConn.Close).
LEMMA ClosesOne ==
    ASSUME NEW c \in Open, Open' = Open \ {c}
    PROVE  /\ Cardinality(Open)' = Cardinality(Open) - 1
           /\ Cardinality(Open) > 0
<1>1. Cardinality(Open \ {c}) = Cardinality(Open) - 1
  BY OpenCounted, FS_RemoveElement
<1>2. Cardinality(Open) # 0
  BY OpenCounted, FS_EmptySet
<1> QED
  BY <1>1, <1>2, OpenCounted

\* Those Shutdown closes count as many less as they are.
LEMMA ClosesMany ==
    ASSUME NEW gone \in SUBSET Open, Open' = Open \ gone
    PROVE  /\ Cardinality(Open)' = Cardinality(Open) - Cardinality(gone)
           /\ Cardinality(gone) \in 0..Cardinality(Open)
<1>1. /\ IsFiniteSet(gone) /\ Cardinality(gone) \in Nat
      /\ Cardinality(gone) <= Cardinality(Open)
  BY OpenCounted, FS_Subset, FS_CardinalityType
<1>2. Cardinality(Open \ gone) = Cardinality(Open) - Cardinality(Open \cap gone)
  BY OpenCounted, <1>1, FS_Difference
<1>3. Open \cap gone = gone
  OBVIOUS
<1>4. Cardinality(Open)' = Cardinality(Open) - Cardinality(gone)
  BY <1>2, <1>3, Zenon
<1> QED
  BY <1>1, <1>4, OpenCounted

\* What a change of one connection leaves alone.
LEMMA BecomesOne ==
    ASSUME ServerTypeOK, NEW c \in Conns, NEW from, NEW to \in ConnStages,
           Becomes(c, from, to)
    PROVE  /\ conn[c] = from
           /\ conn' \in [Conns -> ConnStages]
           /\ conn'[c] = to
           /\ \A d \in Conns \ {c} : conn'[d] = conn[d]
BY DEF Becomes, ServerTypeOK

-----------------------------------------------------------------------------
\* A connection that stays as open as it was changes no slot.
LEMMA StaysOpen ==
    ASSUME ServerInv, NEW c \in Conns, NEW from, NEW to \in ConnStages,
           Becomes(c, from, to), slots' = slots,
           acceptor' = acceptor,
           from \in {"accepted", "new", "active", "idle"} <=>
               to \in {"accepted", "new", "active", "idle"}
    PROVE  SlotsExact'
<1>1. Open' = Open
  BY BecomesOne DEF Open, In, ServerInv
<1> QED
  BY <1>1 DEF ServerInv, SlotsExact, Open

\* Every step keeps the types and the count of the slots.
LEMMA SlotsStep == ServerInv /\ [ServerNext]_serverVars => ServerTypeOK' /\ SlotsExact'
<1> SUFFICES ASSUME ServerInv, [ServerNext]_serverVars PROVE ServerTypeOK' /\ SlotsExact'
  OBVIOUS
<1> USE ServerAssumption
<1>t. ServerTypeOK
  BY DEF ServerInv
<1>s. slots = Cardinality(Open) + (IF acceptor = "accept" THEN 1 ELSE 0)
  BY DEF ServerInv, SlotsExact, Open
<1>n. Cardinality(Open) \in Nat
  BY OpenCounted
<1>1. CASE TakeSlot
  <2>1. Open' = Open
    BY <1>1 DEF TakeSlot, Open, In
  <2> QED
    BY <1>1, <2>1, <1>t, <1>s, <1>n DEF TakeSlot, ServerTypeOK, AcceptorStages, SlotsExact, Open
<1>2. CASE AcceptFails
  <2>1. Open' = Open
    BY <1>2 DEF AcceptFails, Open, In
  <2>2. acceptor' \in {"slot", "returned"}
    BY <1>2 DEF AcceptFails
  <2> QED
    BY <1>2, <2>1, <2>2, <1>t, <1>s, <1>n
    DEF AcceptFails, ServerTypeOK, AcceptorStages, SlotsExact, Open
<1>3. CASE ServeFails
  <2>1. conn' \in [Conns -> ConnStages]
    BY <1>3, <1>t DEF ServeFails, ServerTypeOK, ConnStages
  <2>2. Open' = Open
    BY <1>3, <1>t DEF ServeFails, ServerTypeOK, Open, In
  <2> QED
    BY <1>3, <2>1, <2>2, <1>t, <1>s, <1>n
    DEF ServeFails, ServerTypeOK, AcceptorStages, RunStages, SlotsExact, Open
<1>4. ASSUME NEW c \in Conns, Accept(c) PROVE ServerTypeOK' /\ SlotsExact'
  <2>1. Becomes(c, "queued", "accepted") /\ "accepted" \in ConnStages
    BY <1>4 DEF Accept, ConnStages
  <2>2. c \notin Open /\ Open' = Open \cup {c}
    BY <2>1, <1>t, BecomesOne DEF Open, In
  <2>3. Cardinality(Open)' = Cardinality(Open) + 1
    BY <2>2, OpensOne
  <2> QED
    BY <1>4, <2>1, <2>3, <1>t, <1>s, <1>n, BecomesOne
    DEF Accept, ServerTypeOK, AcceptorStages, SlotsExact, Open
<1>5. ASSUME NEW c \in Conns, Track(c) PROVE ServerTypeOK' /\ SlotsExact'
  <2>1. Becomes(c, "accepted", "new") /\ "new" \in ConnStages
    BY <1>5 DEF Track, ConnStages
  <2>2. Open' = Open
    BY <2>1, <1>t, BecomesOne DEF Open, In
  <2> QED
    BY <1>5, <2>1, <2>2, <1>t, <1>s, <1>n, BecomesOne
    DEF Track, ServerTypeOK, AcceptorStages, SlotsExact, Open
<1>6. ASSUME NEW c \in Conns, CloseCut(c) PROVE ServerTypeOK' /\ SlotsExact'
  <2>1. Becomes(c, "cut", "closed") /\ "closed" \in ConnStages
    BY <1>6 DEF CloseCut, ConnStages
  <2>2. SlotsExact'
    BY <1>6, <2>1, StaysOpen DEF CloseCut
  <2> QED
    BY <1>6, <2>1, <2>2, <1>t, BecomesOne DEF CloseCut, ServerTypeOK
<1>7. CASE AcceptorGone
  <2>1. Open' = Open
    BY <1>7 DEF AcceptorGone, Open, In
  <2> QED
    BY <1>7, <2>1, <1>t, <1>s DEF AcceptorGone, ServerTypeOK, RunStages, SlotsExact, Open
<1>8. CASE Poll
  <2>1. PICK stale \in SUBSET In({"new"}) :
          LET gone == In({"idle"}) \cup stale
          IN  /\ conn' = [c \in Conns |-> IF c \in gone THEN "cut" ELSE conn[c]]
              /\ slots' = slots - Cardinality(gone)
              /\ run' = IF In({"active", "new"}) \subseteq gone THEN "drained" ELSE "polling"
    BY <1>8 DEF Poll
  <2> DEFINE gone == In({"idle"}) \cup stale
  <2>2. gone \in SUBSET Open
    BY DEF Open, In
  <2>3. conn' \in [Conns -> ConnStages]
    BY <2>1, <1>t DEF ServerTypeOK, ConnStages
  <2>4. Open' = Open \ gone
    BY <2>1, <1>t DEF Open, In, ServerTypeOK
  <2>5. /\ Cardinality(Open)' = Cardinality(Open) - Cardinality(gone)
        /\ Cardinality(gone) \in 0..Cardinality(Open)
    BY <2>2, <2>4, ClosesMany
  <2>6. slots' = slots - Cardinality(gone) /\ run' \in RunStages
    BY <2>1 DEF RunStages
  <2> HIDE DEF gone
  <2> QED
    BY <1>8, <2>3, <2>5, <2>6, <1>t, <1>s, <1>n DEF Poll, ServerTypeOK, SlotsExact, Open
<1>9. CASE GiveUp
  <2>1. Open' = Open
    BY <1>9 DEF GiveUp, Open, In
  <2> QED
    BY <1>9, <2>1, <1>t, <1>s DEF GiveUp, ServerTypeOK, RunStages, SlotsExact, Open
<1>10. ASSUME NEW c \in Conns, Dial(c) PROVE ServerTypeOK' /\ SlotsExact'
  <2>1. PICK to \in {"queued", "closed"} : Becomes(c, "none", to)
    BY <1>10 DEF Dial
  <2>2. to \in ConnStages
    BY DEF ConnStages
  <2>3. SlotsExact'
    BY <1>10, <2>1, <2>2, StaysOpen DEF Dial
  <2> QED
    BY <1>10, <2>1, <2>2, <2>3, <1>t, BecomesOne DEF Dial, ServerTypeOK
<1>11. ASSUME NEW c \in Conns, BeginRequest(c) PROVE ServerTypeOK' /\ SlotsExact'
  <2>1. PICK from \in {"new", "idle"} : Becomes(c, from, "active")
    BY <1>11 DEF BeginRequest
  <2>2. "active" \in ConnStages
    BY DEF ConnStages
  <2>3. SlotsExact'
    BY <1>11, <2>1, <2>2, StaysOpen DEF BeginRequest
  <2> QED
    BY <1>11, <2>1, <2>2, <2>3, <1>t, BecomesOne DEF BeginRequest, ServerTypeOK
<1>12. ASSUME NEW c \in Conns, KeepAlive(c) PROVE ServerTypeOK' /\ SlotsExact'
  <2>1. Becomes(c, "active", "idle") /\ "idle" \in ConnStages
    BY <1>12 DEF KeepAlive, ConnStages
  <2>2. SlotsExact'
    BY <1>12, <2>1, StaysOpen DEF KeepAlive
  <2> QED
    BY <1>12, <2>1, <2>2, <1>t, BecomesOne DEF KeepAlive, ServerTypeOK
<1>13. ASSUME NEW c \in Conns, Close(c) PROVE ServerTypeOK' /\ SlotsExact'
  <2>1. conn' \in [Conns -> ConnStages]
    BY <1>13, <1>t DEF Close, ServerTypeOK, ConnStages
  <2>2. c \in Open /\ Open' = Open \ {c}
    BY <1>13, <1>t DEF Close, ServerTypeOK, Open, In
  <2>3. Cardinality(Open)' = Cardinality(Open) - 1 /\ Cardinality(Open) > 0
    BY <2>2, ClosesOne
  <2> QED
    BY <1>13, <2>1, <2>3, <1>t, <1>s, <1>n DEF Close, ServerTypeOK, SlotsExact, Open
<1>14. CASE Shutdown
  <2>1. conn' \in [Conns -> ConnStages]
    BY <1>14, <1>t DEF Shutdown, ServerTypeOK, ConnStages
  <2>2. Open' = Open
    BY <1>14, <1>t DEF Shutdown, ServerTypeOK, Open, In
  <2> QED
    BY <1>14, <2>1, <2>2, <1>t, <1>s DEF Shutdown, ServerTypeOK, RunStages, SlotsExact, Open
<1>15. CASE GracePasses
  <2>1. Open' = Open
    BY <1>15 DEF GracePasses, Open, In
  <2> QED
    BY <1>15, <2>1, <1>t, <1>s DEF GracePasses, ServerTypeOK, SlotsExact, Open
<1>16. CASE UNCHANGED serverVars
  <2>1. Open' = Open
    BY <1>16 DEF serverVars, Open, In
  <2> QED
    BY <1>16, <2>1, <1>t, <1>s DEF serverVars, ServerTypeOK, SlotsExact, Open
<1> QED
  BY <1>1, <1>2, <1>3, <1>4, <1>5, <1>6, <1>7, <1>8, <1>9, <1>10, <1>11, <1>12,
     <1>13, <1>14, <1>15, <1>16 DEF ServerNext, Serving

-----------------------------------------------------------------------------
\* A step that brings no connection to the queue or to Accept's caller, and opens
\* none, keeps the order if it leaves the two loops where they are.
LEMMA OrderlyUntouched ==
    ASSUME Orderly,
           \A place \in {"queued", "accepted"}, c \in Conns :
               conn'[c] = place => conn[c] = place,
           run' = run, acceptor' = acceptor,
           run = "drained" => In({"new", "active", "idle"})' = {}
    PROVE  Orderly'
BY DEF Orderly, In

\* Every step keeps the order.
LEMMA OrderlyStep == ServerTypeOK /\ Orderly /\ [ServerNext]_serverVars => Orderly'
<1> SUFFICES ASSUME ServerTypeOK, Orderly, [ServerNext]_serverVars PROVE Orderly'
  OBVIOUS
<1>1. CASE TakeSlot \/ AcceptFails
  BY <1>1 DEF TakeSlot, AcceptFails, Orderly, In, Listening
<1>2. CASE ServeFails
  BY <1>2 DEF ServeFails, Orderly, In, ServerTypeOK, Listening
<1>3. ASSUME NEW c \in Conns, Accept(c) PROVE Orderly'
  <2>1. Becomes(c, "queued", "accepted") /\ "accepted" \in ConnStages
    BY <1>3 DEF Accept, ConnStages
  <2>2. \A d \in Conns : conn[d] # "accepted"
    BY <1>3 DEF Accept, Orderly, In
  <2>3. run' = "serving" /\ acceptor' = "track"
    BY <1>3 DEF Accept, Listening
  <2> QED
    BY <2>1, <2>2, <2>3, BecomesOne DEF Orderly
<1>4. ASSUME NEW c \in Conns, Track(c) PROVE Orderly'
  <2>1. Becomes(c, "accepted", "new") /\ "new" \in ConnStages
    BY <1>4 DEF Track, ConnStages
  <2>2. \A d \in Conns : conn'[d] # "accepted"
    BY <2>1, BecomesOne DEF Orderly
  <2>3. run' = run /\ run \notin {"polling", "drained", "expired"}
    BY <1>4 DEF Track, Orderly
  <2>4. run # "serving" => \A d \in Conns : conn'[d] # "queued"
    BY <2>1, BecomesOne DEF Orderly, In
  <2> QED
    BY <2>2, <2>3, <2>4 DEF Orderly, In
<1>5. ASSUME NEW c \in Conns, Dial(c) PROVE Orderly'
  <2>1. CASE Listening
    <3>1. Becomes(c, "none", "queued") /\ "queued" \in ConnStages
      BY <1>5, <2>1 DEF Dial, ConnStages
    <3>2. run' = "serving" /\ acceptor' = acceptor
      BY <1>5, <2>1 DEF Dial, Listening
    <3>3. \A d \in Conns : conn'[d] = "accepted" => conn[d] = "accepted"
      BY <3>1, BecomesOne
    <3> QED
      BY <3>2, <3>3 DEF Orderly, In
  <2>2. CASE ~Listening
    <3>1. Becomes(c, "none", "closed") /\ "closed" \in ConnStages
      BY <1>5, <2>2 DEF Dial, ConnStages
    <3>2. \A d \in Conns : conn'[d] # "closed" => conn'[d] = conn[d]
      BY <3>1, BecomesOne
    <3>3. run' = run /\ acceptor' = acceptor
      BY <1>5 DEF Dial
    <3>4. run = "drained" => In({"new", "active", "idle"})' = {}
      BY <3>2 DEF Orderly, In
    <3> QED
      BY <3>2, <3>3, <3>4, OrderlyUntouched
  <2> QED
    BY <2>1, <2>2
<1>6. ASSUME NEW c \in Conns, CloseCut(c) PROVE Orderly'
  <2>1. Becomes(c, "cut", "closed") /\ "closed" \in ConnStages
    BY <1>6 DEF CloseCut, ConnStages
  <2>2. \A d \in Conns : conn'[d] # "closed" => conn'[d] = conn[d]
    BY <2>1, BecomesOne
  <2>3. run' = run /\ acceptor' = acceptor
    BY <1>6 DEF CloseCut
  <2>4. run = "drained" => In({"new", "active", "idle"})' = {}
    BY <2>2 DEF Orderly, In
  <2> QED
    BY <2>2, <2>3, <2>4, OrderlyUntouched
<1>7. ASSUME NEW c \in Conns, NEW from \in {"new", "active", "idle"},
             NEW to \in {"active", "idle"},
             Becomes(c, from, to), run' = run, acceptor' = acceptor
      PROVE  Orderly'
  <2>1. to \in ConnStages
    BY DEF ConnStages
  <2>2. run # "drained"
    BY <1>7, <2>1, BecomesOne DEF Orderly, In
  <2>3. \A place \in {"queued", "accepted"}, d \in Conns :
            conn'[d] = place => conn[d] = place
    BY <1>7, <2>1, BecomesOne
  <2> QED
    BY <1>7, <2>2, <2>3, OrderlyUntouched
<1>8. ASSUME NEW c \in Conns, BeginRequest(c) PROVE Orderly'
  BY <1>8, <1>7 DEF BeginRequest
<1>9. ASSUME NEW c \in Conns, KeepAlive(c) PROVE Orderly'
  BY <1>9, <1>7 DEF KeepAlive
<1>10. ASSUME NEW c \in Conns, Close(c) PROVE Orderly'
  <2>1. \A d \in Conns : conn'[d] # "closed" => conn'[d] = conn[d]
    BY <1>10 DEF Close, ServerTypeOK
  <2>2. run' = run /\ acceptor' = acceptor
    BY <1>10 DEF Close
  <2>3. run = "drained" => In({"new", "active", "idle"})' = {}
    BY <2>1 DEF Orderly, In
  <2> QED
    BY <2>1, <2>2, <2>3, OrderlyUntouched
<1>11. CASE Shutdown
  BY <1>11 DEF Shutdown, Orderly, In, ServerTypeOK
<1>12. CASE GracePasses
  BY <1>12 DEF GracePasses, Orderly, In
<1>13. CASE AcceptorGone
  BY <1>13 DEF AcceptorGone, Orderly, In
<1>14. CASE GiveUp
  BY <1>14 DEF GiveUp, Orderly, In
<1>15. CASE Poll
  <2>1. PICK stale \in SUBSET In({"new"}) :
          LET gone == In({"idle"}) \cup stale
          IN  /\ conn' = [c \in Conns |-> IF c \in gone THEN "cut" ELSE conn[c]]
              /\ slots' = slots - Cardinality(gone)
              /\ run' = IF In({"active", "new"}) \subseteq gone THEN "drained" ELSE "polling"
    BY <1>15 DEF Poll
  <2> DEFINE gone == In({"idle"}) \cup stale
  <2>2. \A c \in Conns : conn'[c] = IF c \in gone THEN "cut" ELSE conn[c]
    BY <2>1
  <2>3. run' = "drained" => In({"new", "active", "idle"}) \subseteq gone
    BY <2>1 DEF In
  <2>4. run' = "drained" => In({"new", "active", "idle"})' = {}
    BY <2>2, <2>3 DEF In
  <2>5. /\ acceptor' = "returned" /\ run = "polling"
        /\ \A c \in Conns : conn[c] \notin {"queued", "accepted"}
    BY <1>15 DEF Poll, Orderly, In
  <2>6. \A c \in Conns : conn'[c] \notin {"queued", "accepted"}
    BY <2>2, <2>5
  <2> QED
    BY <2>4, <2>5, <2>6 DEF Orderly, In
<1>16. CASE UNCHANGED serverVars
  BY <1>16 DEF serverVars, Orderly, In
<1> QED
  BY <1>1, <1>2, <1>3, <1>4, <1>5, <1>6, <1>8, <1>9, <1>10, <1>11, <1>12, <1>13,
     <1>14, <1>15, <1>16 DEF ServerNext, Serving

-----------------------------------------------------------------------------
\* The server starts in the invariant: no connection, no slot taken.
LEMMA ServerStarts == ServerInit => ServerInv
<1> SUFFICES ASSUME ServerInit PROVE ServerInv
  OBVIOUS
<1>1. ServerTypeOK
  <2>1. conn \in [Conns -> ConnStages]
    BY DEF ServerInit, ConnStages
  <2>2. slots \in 0..MaxConnections
    BY ServerAssumption DEF ServerInit
  <2> QED
    BY <2>1, <2>2 DEF ServerInit, ServerTypeOK, AcceptorStages, RunStages
<1>2. \A stages : "none" \notin stages => In(stages) = {}
  BY DEF ServerInit, In
<1>3. In({"accepted", "new", "active", "idle"}) = {} /\ Orderly
  BY <1>2 DEF ServerInit, Orderly, In
<1>4. SlotsExact
  BY <1>3, FS_EmptySet DEF SlotsExact, ServerInit
<1> QED
  BY <1>1, <1>3, <1>4 DEF ServerInv

\* The invariant holds throughout.
THEOREM ServerInvariant == ServerSpec => []ServerInv
<1>1. ServerInv /\ [ServerNext]_serverVars => ServerInv'
  BY SlotsStep, OrderlyStep DEF ServerInv
<1> QED
  BY ServerStarts, <1>1, PTL DEF ServerSpec

\* The variables keep their types; above all, no more slots are taken than the
\* limit has (limitListener.Accept).
THEOREM ServerTypes == ServerSpec => []ServerTypeOK
<1>1. ServerInv => ServerTypeOK
  BY DEF ServerInv
<1> QED
  BY ServerInvariant, <1>1, PTL

\* A slot is taken exactly for each open connection and for the Accept under way
\* (limitListener.Accept, limitConn.Close).
THEOREM SlotsAreExact == ServerSpec => []SlotsExact
<1>1. ServerInv => SlotsExact
  BY DEF ServerInv
<1> QED
  BY ServerInvariant, <1>1, PTL

\* A shutdown that succeeds has left no connection in service, and none can come
\* (Server.shutdown).
THEOREM DrainedIsDrained == ServerSpec => []DrainedMeansDrained
<1>1. ServerInv => DrainedMeansDrained
  BY DEF ServerInv, Orderly, DrainedMeansDrained, In
<1> QED
  BY ServerInvariant, <1>1, PTL

-----------------------------------------------------------------------------
(* Configurations.                                                         *)

\* The loading of configurations by itself.
ConfigSpec == ConfigInit /\ [][ConfigNext]_inUse

\* The settings the defaults leave alone, of those others rely on, and the rest.
Kept == {"maxRetries", "failureThreshold", "openDuration", "balanceFactor", "healthInterval",
         "healthTimeout", "healthyThreshold", "unhealthyThreshold", "connectTimeout",
         "idleTimeout", "maxConnections", "rateLimitPerIP"}
Defaulted == {"budgetPercent", "minRetryConcurrency", "responseTimeout"}

\* What is loaded holds numbers where it should, and every backend weighs something.
Fits(d) ==
    /\ \A f \in Kept \cup Defaulted : d[f] \in Int
    /\ DOMAIN d.backends = 1..Len(d.backends) /\ Len(d.backends) \in Nat
    /\ \A i \in DOMAIN d.backends : d.backends[i].weight \in Int /\ d.backends[i].weight # 0

\* What applyDefaults fills in, and what it leaves alone.
LEMMA DefaultsAre ==
    ASSUME NEW c \in File
    PROVE  LET d == WithDefaults(c)
           IN  /\ \A f \in Kept : d[f] = c[f] /\ c[f] \in Int
               /\ d.budgetPercent \in Int /\ d.minRetryConcurrency \in Int
               /\ d.responseTimeout \in Int
               /\ d.backends = [i \in DOMAIN c.backends |-> WithWeight(c.backends[i])]
BY DEF WithDefaults, File, Kept, Or

\* A file that was read fits once the defaults are filled in (applyDefaults).
LEMMA LoadedFits == ASSUME NEW c \in File PROVE Fits(WithDefaults(c))
<1> DEFINE Backend == [addr : STRING, weight : Int]
           d == WithDefaults(c)
           b == c.backends
           e == [i \in DOMAIN b |-> WithWeight(b[i])]
<1>1. b \in Seq(Backend)
  BY DEF File
<1>2. d.backends = e /\ \A f \in Kept \cup Defaulted : d[f] \in Int
  <2>1. \A f \in Kept : d[f] \in Int
    BY DefaultsAre
  <2>2. \A f \in Defaulted : d[f] \in Int
    BY DefaultsAre DEF Defaulted
  <2> QED
    BY <2>1, <2>2, DefaultsAre
<1>3. \A x \in Backend : WithWeight(x).weight \in Int /\ WithWeight(x).weight # 0
  BY DEF WithWeight, Or
<1> HIDE DEF Backend, d, b
<1>4. Len(b) \in Nat /\ DOMAIN b = 1..Len(b) /\ \A i \in DOMAIN b : b[i] \in Backend
  BY <1>1
<1>5. DOMAIN e = 1..Len(b) /\ Len(e) = Len(b)
  BY <1>4
<1>6. \A i \in DOMAIN e : e[i].weight \in Int /\ e[i].weight # 0
  BY <1>3, <1>4
<1> HIDE DEF e
<1>7. Fits(d)
  BY <1>2, <1>4, <1>5, <1>6 DEF Fits
<1> QED
  BY <1>7 DEF d

\* Nothing has been loaded yet, or what was fits and is valid.
InUseFits == inUse = Nothing \/ (Fits(inUse) /\ Valid(inUse))

\* Whatever a file holds, a configuration Load accepts is one every part can work with:
\* numbers above zero where they are divided by, waited for or counted down, backends
\* that differ and weigh something (Load, applyDefaults, Validate).
THEOREM ConfigurationsAreUsable == ConfigSpec => []AcceptedIsUsable
<1>1. ConfigInit => InUseFits
  BY DEF ConfigInit, InUseFits
<1>2. InUseFits /\ [ConfigNext]_inUse => InUseFits'
  <2> SUFFICES ASSUME InUseFits, [ConfigNext]_inUse PROVE InUseFits'
    OBVIOUS
  <2>1. CASE UNCHANGED inUse
    BY <2>1 DEF InUseFits
  <2>2. ASSUME NEW c \in Written, LoadConfig(c) PROVE InUseFits'
    <3>1. c \in File
      BY ConfigurationAssumption
    <3>2. inUse' = WithDefaults(c) /\ Valid(WithDefaults(c)) /\ Fits(WithDefaults(c))
      BY <2>2, <3>1, LoadedFits DEF LoadConfig
    <3>3. Fits(inUse') /\ Valid(inUse')
      BY <3>2
    <3> QED
      BY <3>3 DEF InUseFits
  <2> QED
    BY <2>1, <2>2 DEF ConfigNext
<1>3. InUseFits => AcceptedIsUsable
  <2> SUFFICES ASSUME Fits(inUse), Valid(inUse) PROVE AcceptedIsUsable
    BY DEF InUseFits, AcceptedIsUsable
  <2>1. /\ Attempts(inUse) \in Nat \ {0}
        /\ inUse.failurePolicy = "retry_next_backend" => Attempts(inUse) > 1
        /\ inUse.budgetPercent \in 1..100 /\ inUse.minRetryConcurrency > 0
    <3>1. inUse.maxRetries \in Int /\ inUse.minRetryConcurrency \in Int
      BY DEF Fits, Kept, Defaulted
    <3>2. RetryValid(inUse)
      BY DEF Valid
    <3> QED
      BY <3>1, <3>2 DEF RetryValid, Attempts
  <2>2. inUse.failurePolicy = "circuit_breaker" =>
              inUse.failureThreshold > 0 /\ inUse.openDuration > 0
    BY DEF Fits, Kept, Defaulted, Valid, BreakerValid
  <2>3. /\ inUse.algorithm = "consistent_hash" => inUse.hashKey \notin {"", "?"}
        /\ inUse.balanceFactor # 0 => inUse.balanceFactor >= 100
    <3>1. inUse.balanceFactor \in Int
      BY DEF Fits, Kept
    <3>2. HashValid(inUse)
      BY DEF Valid
    <3> QED
      BY <3>1, <3>2 DEF HashValid
  <2>4. inUse.stickyMode = "cookie" => Formed(inUse.stickyCookie)
    BY DEF Valid, StickyValid
  <2>5. /\ inUse.healthInterval > inUse.healthTimeout /\ inUse.healthTimeout > 0
        /\ inUse.healthyThreshold > 0 /\ inUse.unhealthyThreshold > 0
    <3>1. /\ inUse.healthInterval \in Int /\ inUse.healthTimeout \in Int
          /\ inUse.healthyThreshold \in Int /\ inUse.unhealthyThreshold \in Int
      BY DEF Fits, Kept
    <3>2. HealthCheckValid(inUse)
      BY DEF Valid
    <3> QED
      BY <3>1, <3>2 DEF HealthCheckValid
  <2>6. /\ inUse.responseTimeout > 0 /\ inUse.connectTimeout > 0 /\ inUse.idleTimeout > 0
        /\ inUse.maxConnections > 0 /\ inUse.rateLimitPerIP >= 0
    BY DEF Fits, Kept, Defaulted, Valid, TimeoutsValid, LimitsValid
  <2>7. /\ inUse.backends # <<>>
        /\ \A i, j \in DOMAIN inUse.backends :
              /\ inUse.backends[i].weight > 0
              /\ i # j => inUse.backends[i].addr # inUse.backends[j].addr
    <3> DEFINE b == inUse.backends
    <3>1. /\ b # <<>> /\ DOMAIN b = 1..Len(b) /\ Len(b) \in Nat
          /\ \A i \in DOMAIN b : b[i].weight \in Int /\ b[i].weight # 0 /\ b[i].weight >= 0
          /\ \A i \in DOMAIN b : \A j \in 1..(i - 1) : b[j].addr # b[i].addr
      BY DEF Fits, Kept, Defaulted, Valid, BackendsValid
    <3> HIDE DEF b
    <3>2. \A i, j \in DOMAIN b : i # j => b[i].addr # b[j].addr
      <4>1. \A i, j \in DOMAIN b : i # j => i \in 1..(j - 1) \/ j \in 1..(i - 1)
        BY <3>1
      <4> QED
        BY <3>1, <4>1
    <3>3. \A i \in DOMAIN b : b[i].weight > 0
      BY <3>1
    <3> QED
      BY <3>1, <3>2, <3>3 DEF b
  <2> QED
    BY <2>1, <2>2, <2>3, <2>4, <2>5, <2>6, <2>7 DEF AcceptedIsUsable
<1> QED
  BY <1>1, <1>2, <1>3, PTL DEF ConfigSpec

=============================================================================
