------------------------- MODULE RateLimiterProofs -------------------------
(***************************************************************************)
(* Proofs about the rate limiter, for every set of clients, sequence of    *)
(* rates, refill, delay of the readings and sweep that satisfy its         *)
(* assumption.  What a bucket can still pay out is bounded by the client's *)
(* allowance, whatever the age of the reading that touched it; and the     *)
(* allowance of a bucket old enough for a sweep is full again.  The second *)
(* part is the sweep itself: nobody can tell that it took place.           *)
(***************************************************************************)
EXTENDS RateLimiterHistory, TLAPS

\* What the bucket would hold, uncapped, at a reading of this very tick.
Potential(bucket) == bucket.tokens + bucket.age * perSecond

\* The allowance covers n, or is full.
Covers(c, n) == allowance[c] >= n \/ allowance[c] = Allowed(perSecond)

Paid(c) ==
    /\ allowance[c] \in 0..Allowed(perSecond)
    /\ IF c \in DOMAIN buckets
       THEN /\ Covers(c, Potential(buckets[c]))
            /\ Covers(c, (buckets[c].age - MaxDelay) * perSecond)
       ELSE allowance[c] = Allowed(perSecond)

InvL == TypeOKL /\ \A c \in Clients : Paid(c)

-----------------------------------------------------------------------------
\* The constants as numbers.
LEMMA Numbers ==
    /\ TicksPerSecond \in Nat /\ TicksPerSecond > 0
    /\ MaxDelay \in Nat /\ IdleBucketTTL \in Nat
    /\ IdleBucketTTL >= TicksPerSecond + 2 * MaxDelay
    /\ \A i \in DOMAIN Rates : Rates[i] \in Nat
    /\ AgeCap \in Nat
BY LimiterAssumption DEF AgeCap

LEMMA RateIsNat == ASSUME TypeOKL PROVE perSecond \in Nat
BY Numbers DEF TypeOKL, LimiterTypeOK, perSecond

\* Products the provers need spelt out.
LEMMA Products ==
    ASSUME NEW r \in Nat
    PROVE  /\ \A m, n \in Int : m * r \in Int /\ (m + n) * r = m * r + n * r
                                              /\ (m - n) * r = m * r - n * r
           /\ \A m, n \in Int : m <= n => m * r <= n * r
           /\ \A m \in Nat : m * r \in Nat
OBVIOUS

\* One tick more is one refill more.
LEMMA OneMore ==
    ASSUME NEW r \in Nat, NEW m \in Int, NEW n \in Int, n <= m + 1
    PROVE  n * r \in Int /\ m * r \in Int /\ n * r <= m * r + r
<1>1. m + 1 \in Int /\ (m + 1) * r = m * r + 1 * r /\ 1 * r = r
  BY Products
<1>2. n * r <= (m + 1) * r /\ n * r \in Int /\ m * r \in Int
  BY <1>1, Products
<1> QED
  BY <1>1, <1>2

\* An allowance is a burst and MaxDelay ticks of refill.
LEMMA AllowedIs ==
    ASSUME NEW r \in Nat
    PROVE  /\ Allowed(r) = Burst(r) + MaxDelay * r
           /\ Allowed(r) = (TicksPerSecond + MaxDelay) * r
           /\ Burst(r) \in Nat /\ Allowed(r) \in Nat
BY Numbers, Products DEF Allowed, Burst

-----------------------------------------------------------------------------
\* What allow prepares (rateLimiter.allow, sweep): the client's bucket at the
\* reading, the others as they are, and none gone but the long quiet.
LEMMA PreparedIs ==
    ASSUME LimiterTypeOK, NEW c \in Clients, NEW delay \in 0..MaxDelay
    PROVE  LET p == Prepared(buckets, c, delay)
           IN  /\ DOMAIN p \subseteq Clients /\ c \in DOMAIN p
               /\ \A d \in DOMAIN p \ {c} : d \in DOMAIN buckets /\ p[d] = buckets[d]
               /\ \A d \in DOMAIN buckets \ DOMAIN p :
                      buckets[d].age - delay > IdleBucketTTL
               /\ p[c] = [tokens |-> TokensAt(buckets, c, delay), age |-> delay]
<1> DEFINE kept == IF c \notin DOMAIN buckets /\ Cardinality(DOMAIN buckets) >= SweepThreshold
                   THEN Swept(buckets, delay) ELSE buckets
           own == IF c \in DOMAIN buckets THEN Refilled(buckets[c], delay)
                  ELSE [tokens |-> Burst(perSecond), age |-> delay]
           p == [d \in DOMAIN kept \cup {c} |-> IF d = c THEN own ELSE kept[d]]
<1>1. Prepared(buckets, c, delay) = p
  BY DEF Prepared
<1>2. own = [tokens |-> TokensAt(buckets, c, delay), age |-> delay]
  BY DEF TokensAt, Refilled
<1>3. /\ DOMAIN kept \subseteq DOMAIN buckets
      /\ \A d \in DOMAIN kept : kept[d] = buckets[d]
  BY DEF Swept
<1>4. \A d \in DOMAIN buckets \ DOMAIN kept : buckets[d].age - delay > IdleBucketTTL
  <2>1. \A d \in DOMAIN buckets : buckets[d].age \in Int
    BY Numbers DEF LimiterTypeOK
  <2> QED
    BY <2>1, Numbers DEF Swept
<1> HIDE DEF kept, own
<1> QED
  BY <1>1, <1>2, <1>3, <1>4 DEF LimiterTypeOK

\* The tokens allow finds are a number, within the burst and, if the bucket is
\* there, within what it held and was refilled.
LEMMA TokensAre ==
    ASSUME TypeOKL, NEW c \in Clients, NEW delay \in 0..MaxDelay
    PROVE  LET t == TokensAt(buckets, c, delay)
           IN  /\ t \in Int /\ t <= Burst(perSecond)
               /\ c \in DOMAIN buckets =>
                      t + delay * perSecond <= Potential(buckets[c])
<1>1. perSecond \in Nat /\ Burst(perSecond) \in Nat
  BY RateIsNat, AllowedIs
<1>2. CASE c \in DOMAIN buckets
  <2>1. buckets[c].tokens \in Int /\ buckets[c].age \in Int
    BY <1>2, Numbers DEF TypeOKL, LimiterTypeOK
  <2>2. (buckets[c].age - delay) * perSecond
            = buckets[c].age * perSecond - delay * perSecond
    BY <1>1, <2>1, Numbers, Products
  <2>3. buckets[c].age * perSecond \in Int /\ delay * perSecond \in Int
    BY <1>1, <2>1, Numbers, Products
  <2>4. TokensAt(buckets, c, delay)
            = Capped(buckets[c].tokens + (buckets[c].age - delay) * perSecond,
                     Burst(perSecond))
    BY <1>2 DEF TokensAt, Refilled
  <2> QED
    BY <1>1, <2>1, <2>2, <2>3, <2>4 DEF Capped, Potential
<1>3. CASE c \notin DOMAIN buckets
  BY <1>1, <1>3 DEF TokensAt
<1> QED
  BY <1>2, <1>3

-----------------------------------------------------------------------------
\* The client allow is asked for stays paid, whether it is admitted, for Cost, or
\* refused, for nothing.
LEMMA AskerPaid ==
    ASSUME InvL, NEW c \in Clients, NEW delay \in 0..MaxDelay, NEW spent \in {0, Cost},
           spent = 0 \/ TokensAt(buckets, c, delay) >= spent,
           reload' = reload, c \in DOMAIN buckets',
           buckets'[c] = [tokens |-> TokensAt(buckets, c, delay) - spent, age |-> delay],
           allowance'[c] = allowance[c] - spent
    PROVE  Paid(c)'
<1> DEFINE t == TokensAt(buckets, c, delay)
           r == perSecond
<1>1. /\ r \in Nat /\ r' = r /\ Allowed(r) = Burst(r) + MaxDelay * r
      /\ Burst(r) \in Nat /\ Allowed(r) \in Nat /\ Allowed(r)' = Allowed(r)
  BY RateIsNat, AllowedIs DEF InvL, perSecond, Allowed
<1>2. /\ t \in Int /\ t <= Burst(r)
      /\ c \in DOMAIN buckets => t + delay * r <= Potential(buckets[c])
  BY TokensAre DEF InvL
<1>3. /\ delay * r \in Nat /\ MaxDelay * r \in Nat /\ delay * r <= MaxDelay * r
      /\ (delay - MaxDelay) * r = delay * r - MaxDelay * r
  BY <1>1, Numbers, Products
<1>4. allowance[c] \in 0..Allowed(r) /\ spent \in Nat
  BY Numbers DEF InvL, Paid, Cost
<1>5. t + delay * r <= allowance[c] \/ allowance[c] = Allowed(r)
  <2>1. c \in DOMAIN buckets => Potential(buckets[c]) \in Int
    BY <1>1, Numbers, Products DEF InvL, TypeOKL, LimiterTypeOK, Potential
  <2> QED
    BY <2>1, <1>1, <1>2, <1>3, <1>4 DEF InvL, Paid, Covers
<1>6. Potential(buckets[c])' = t - spent + delay * r /\ buckets'[c].age = delay
  BY <1>1 DEF Potential
<1> HIDE DEF t, r
<1>7. allowance'[c] \in 0..Allowed(r)
  BY <1>1, <1>2, <1>3, <1>4, <1>5 DEF t
<1>8. allowance'[c] >= Potential(buckets[c])' \/ allowance'[c] = Allowed(r)
  BY <1>1, <1>2, <1>3, <1>4, <1>5, <1>6
<1>9. allowance'[c] >= (delay - MaxDelay) * r
  BY <1>1, <1>3, <1>7
<1> QED
  BY <1>1, <1>6, <1>7, <1>8, <1>9 DEF Paid, Covers, r

\* The others stay paid, and one that was swept had a full allowance
\* (rateLimiter.sweep).
LEMMA OtherPaid ==
    ASSUME InvL, NEW c \in Clients, NEW delay \in 0..MaxDelay, NEW d \in Clients \ {c},
           reload' = reload, allowance'[d] = allowance[d],
           DOMAIN buckets' = DOMAIN Prepared(buckets, c, delay),
           d \in DOMAIN buckets' => buckets'[d] = Prepared(buckets, c, delay)[d]
    PROVE  Paid(d)'
<1> DEFINE r == perSecond
<1>1. r \in Nat /\ r' = r /\ Allowed(r)' = Allowed(r) /\ Paid(d) /\ LimiterTypeOK
  BY RateIsNat DEF InvL, perSecond, Allowed, TypeOKL
<1>p. /\ \A e \in DOMAIN Prepared(buckets, c, delay) \ {c} :
            e \in DOMAIN buckets /\ Prepared(buckets, c, delay)[e] = buckets[e]
      /\ \A e \in DOMAIN buckets \ DOMAIN Prepared(buckets, c, delay) :
            buckets[e].age - delay > IdleBucketTTL
  BY <1>1, PreparedIs
<1>2. CASE d \in DOMAIN buckets'
  <2>1. d \in DOMAIN buckets /\ buckets'[d] = buckets[d]
    BY <1>p, <1>2
  <2> QED
    BY <1>1, <1>2, <2>1 DEF Paid, Covers, Potential
<1>3. CASE d \notin DOMAIN buckets' /\ d \in DOMAIN buckets
  <2>1. buckets[d].age - delay > IdleBucketTTL
    BY <1>p, <1>3
  <2>2. buckets[d].age \in Int /\ buckets[d].age - MaxDelay >= TicksPerSecond + MaxDelay
    BY <1>1, <1>3, <2>1, Numbers DEF LimiterTypeOK
  <2>3. (buckets[d].age - MaxDelay) * r >= Allowed(r) /\ Allowed(r) \in Nat
    <3>1. /\ buckets[d].age - MaxDelay \in Int /\ TicksPerSecond + MaxDelay \in Int
      BY <2>2, Numbers
    <3>2. (TicksPerSecond + MaxDelay) * r <= (buckets[d].age - MaxDelay) * r
      BY <3>1, <2>2, <1>1, Products
    <3>3. (buckets[d].age - MaxDelay) * r \in Int
      BY <3>1, <1>1, Products
    <3> QED
      BY <1>1, <3>2, <3>3, AllowedIs
  <2>4. (buckets[d].age - MaxDelay) * r \in Int
    BY <2>2, <1>1, Numbers, Products
  <2>5. allowance[d] \in 0..Allowed(r) /\ Covers(d, (buckets[d].age - MaxDelay) * r)
    BY <1>1, <1>3 DEF Paid
  <2>6. allowance[d] = Allowed(r)
    BY <2>3, <2>4, <2>5 DEF Covers
  <2> QED
    BY <1>1, <1>3, <2>3, <2>6 DEF Paid
<1>4. CASE d \notin DOMAIN buckets' /\ d \notin DOMAIN buckets
  BY <1>1, <1>4 DEF Paid
<1> QED
  BY <1>2, <1>3, <1>4

-----------------------------------------------------------------------------
\* Admitted or refused, the client allow is asked for and the others stay paid.
LEMMA AskedPaid ==
    ASSUME InvL, NEW c \in Clients, NEW delay \in 0..MaxDelay,
           AdmitL(c, delay) \/ RefuseL(c, delay)
    PROVE  InvL'
<1> DEFINE p == Prepared(buckets, c, delay)
           t == TokensAt(buckets, c, delay)
<1>1. LimiterTypeOK /\ TypeOKL
  BY DEF InvL, TypeOKL
<1>2. /\ DOMAIN p \subseteq Clients /\ c \in DOMAIN p
      /\ p[c] = [tokens |-> t, age |-> delay]
      /\ \A d \in DOMAIN p \ {c} : d \in DOMAIN buckets /\ p[d] = buckets[d]
  BY <1>1, PreparedIs
<1>3. p = [d \in DOMAIN p |-> p[d]]
  BY DEF Prepared
<1>4. t \in Int
  BY <1>1, TokensAre
<1> HIDE DEF p, t
<1>5. PICK spent \in {0, Cost} :
          /\ spent = 0 \/ t >= spent
          /\ DOMAIN buckets' = DOMAIN p
          /\ buckets'[c] = [tokens |-> t - spent, age |-> delay]
          /\ \A d \in DOMAIN p \ {c} : buckets'[d] = p[d]
          /\ allowance' = [allowance EXCEPT ![c] = allowance[c] - spent]
  <2>1. CASE AdmitL(c, delay)
    <3>1. /\ p[c].tokens >= Cost
          /\ buckets' = [p EXCEPT ![c].tokens = p[c].tokens - Cost]
          /\ allowance' = [allowance EXCEPT ![c] = allowance[c] - Cost]
      BY <2>1 DEF AdmitL, Admit, p
    <3>2. buckets'[c] = [tokens |-> t - Cost, age |-> delay]
      BY <1>2, <1>3, <3>1
    <3> QED
      BY <1>2, <1>3, <3>1, <3>2
  <2>2. CASE RefuseL(c, delay)
    <3>1. buckets' = p /\ allowance' = allowance
      BY <2>2 DEF RefuseL, Refuse, p
    <3>2. t - 0 = t /\ allowance[c] - 0 = allowance[c]
      BY <1>1, <1>4 DEF TypeOKL
    <3>3. allowance' = [allowance EXCEPT ![c] = allowance[c] - 0]
      BY <1>1, <3>1, <3>2 DEF TypeOKL
    <3> QED
      BY <1>2, <3>1, <3>2, <3>3
  <2> QED
    BY <2>1, <2>2
<1>6. spent \in Int /\ reload' = reload
  BY Numbers DEF AdmitL, Admit, RefuseL, Refuse, Cost
<1>7. Paid(c)'
  <2>1. allowance'[c] = allowance[c] - spent
    BY <1>1, <1>5 DEF TypeOKL
  <2> QED
    BY <1>2, <1>5, <1>6, <2>1, AskerPaid DEF t
<1>8. ASSUME NEW d \in Clients \ {c} PROVE Paid(d)'
  <2>1. allowance'[d] = allowance[d]
    BY <1>1, <1>5 DEF TypeOKL
  <2>2. d \in DOMAIN buckets' => buckets'[d] = p[d]
    BY <1>5
  <2> QED
    BY <1>5, <1>6, <2>1, <2>2, OtherPaid DEF p
<1>9. TypeOKL'
  <2>1. LimiterTypeOK'
    <3>1. buckets'[c] \in [tokens : Int, age : 0..AgeCap]
      BY <1>4, <1>5, <1>6, Numbers DEF AgeCap
    <3>2. \A d \in DOMAIN buckets' : buckets'[d] \in [tokens : Int, age : 0..AgeCap]
      BY <3>1, <1>1, <1>2, <1>5 DEF LimiterTypeOK
    <3> QED
      BY <3>2, <1>1, <1>2, <1>5, <1>6 DEF LimiterTypeOK
  <2>2. allowance' \in [Clients -> Int]
    BY <1>1, <1>5, <1>6 DEF TypeOKL
  <2>3. (DOMAIN unswept)' \subseteq Clients
    <3>1. (DOMAIN unswept)' = DOMAIN unswept \cup {c}
      BY DEF AdmitL, RefuseL, Asked
    <3> QED
      BY <3>1, <1>1 DEF TypeOKL
  <2> QED
    BY <2>1, <2>2, <2>3 DEF TypeOKL
<1> QED
  BY <1>7, <1>8, <1>9 DEF InvL

\* A tick refills the allowance at least as fast as the bucket.
LEMMA TickPaid == ASSUME InvL, TickL PROVE InvL'
<1> DEFINE r == perSecond
<1>1. /\ r \in Nat /\ r' = r /\ Allowed(r)' = Allowed(r) /\ Allowed(r) \in Nat
      /\ LimiterTypeOK /\ TypeOKL
  BY RateIsNat, AllowedIs DEF InvL, TypeOKL, TickL, LimiterTick, perSecond, Allowed
<1>2. /\ DOMAIN buckets' = DOMAIN buckets
      /\ \A d \in DOMAIN buckets :
            buckets'[d] = [buckets[d] EXCEPT !.age = Capped(@ + 1, AgeCap)]
  BY DEF TickL, LimiterTick
<1>3. \A d \in DOMAIN buckets :
          /\ buckets[d].tokens \in Int /\ buckets[d].age \in Int
          /\ buckets'[d].tokens = buckets[d].tokens
          /\ buckets'[d].age \in 0..AgeCap /\ buckets'[d].age <= buckets[d].age + 1
          /\ buckets'[d] \in [tokens : Int, age : 0..AgeCap]
  BY <1>1, <1>2, Numbers DEF LimiterTypeOK, Capped
<1>4. \A d \in Clients : allowance'[d] = Capped(allowance[d] + r, Allowed(r))
  BY DEF TickL
<1>5. ASSUME NEW d \in Clients PROVE Paid(d)'
  <2>1. allowance[d] \in 0..Allowed(r) /\ Paid(d)
    BY DEF InvL, Paid
  <2>2. allowance'[d] \in 0..Allowed(r)
    BY <1>1, <1>4, <2>1 DEF Capped
  <2>3. CASE d \in DOMAIN buckets
    <3> DEFINE b == buckets[d]
    <3>1. b.age \in Int /\ b'.age \in Int /\ b.tokens \in Int /\ b'.tokens = b.tokens
      BY <1>2, <1>3, <2>3
    <3>2. /\ b.age * r \in Int /\ b'.age * r \in Int /\ b'.age * r <= b.age * r + r
          /\ (b.age - MaxDelay) * r \in Int
          /\ (b'.age - MaxDelay) * r <= (b.age - MaxDelay) * r + r
      <4>1. b'.age <= b.age + 1
        BY <1>3, <2>3
      <4>2. /\ b.age - MaxDelay \in Int /\ b'.age - MaxDelay \in Int
            /\ b'.age - MaxDelay <= b.age - MaxDelay + 1
        BY <3>1, <4>1, Numbers
      <4> HIDE DEF b, r
      <4> QED
        BY <1>1, <3>1, <4>1, <4>2, OneMore
    <3>3. /\ Potential(b) = b.tokens + b.age * r
          /\ Potential(b)' = b'.tokens + b'.age * r
      BY <1>1 DEF Potential
    <3>4. /\ allowance[d] >= Potential(b) \/ allowance[d] = Allowed(r)
          /\ allowance[d] >= (b.age - MaxDelay) * r \/ allowance[d] = Allowed(r)
      BY <2>1, <2>3 DEF Paid, Covers
    <3>5. allowance'[d] = allowance[d] + r \/ allowance'[d] = Allowed(r)
      BY <1>4 DEF Capped
    <3>6. allowance[d] = Allowed(r) => allowance'[d] = Allowed(r)
      BY <1>1, <1>4, <2>1 DEF Capped
    <3> HIDE DEF b, r
    <3>7. allowance'[d] >= Potential(b)' \/ allowance'[d] = Allowed(r)
      BY <1>1, <2>1, <3>1, <3>2, <3>3, <3>4, <3>5, <3>6
    <3>8. allowance'[d] >= (b'.age - MaxDelay) * r \/ allowance'[d] = Allowed(r)
      <4>1. (b'.age - MaxDelay) * r \in Int
        BY <1>1, <3>1, Numbers, Products
      <4> QED
        BY <4>1, <1>1, <2>1, <3>2, <3>4, <3>5, <3>6
    <3> QED
      BY <1>1, <1>2, <2>2, <2>3, <3>7, <3>8 DEF Paid, Covers, b, r
  <2>4. CASE d \notin DOMAIN buckets
    <3>1. allowance'[d] = Allowed(r)
      BY <1>1, <1>4, <2>1, <2>4 DEF Paid, Capped
    <3> QED
      BY <1>1, <1>2, <2>2, <2>4, <3>1 DEF Paid
  <2> QED
    BY <2>3, <2>4
<1>6. TypeOKL'
  <2>1. allowance' \in [Clients -> Int]
    <3>1. \A d \in Clients : Capped(allowance[d] + r, Allowed(r)) \in Int
      BY <1>1 DEF TypeOKL, Capped
    <3> QED
      BY <3>1 DEF TickL
  <2>2. LimiterTypeOK'
    BY <1>1, <1>2, <1>3 DEF LimiterTypeOK, TickL, LimiterTick
  <2> QED
    BY <2>1, <2>2, <1>1 DEF TypeOKL, TickL
<1> QED
  BY <1>5, <1>6 DEF InvL

\* A reload grants every client a new allowance.
LEMMA SetRatePaid == ASSUME InvL, SetRateL PROVE InvL'
<1>1. reload' \in DOMAIN Rates /\ perSecond' = Rates[reload + 1]
  BY LimiterAssumption DEF InvL, TypeOKL, LimiterTypeOK, SetRateL, SetRate, perSecond
<1>2. Rates[reload + 1] \in Nat
  BY <1>1, Numbers DEF SetRateL, SetRate
<1>3. /\ Allowed(perSecond)' = Allowed(Rates[reload + 1])
      /\ Allowed(Rates[reload + 1]) \in Nat
  BY <1>1, <1>2, AllowedIs DEF Allowed
<1>4. \A d \in Clients : allowance'[d] = Allowed(Rates[reload + 1])
  BY DEF SetRateL
<1>5. \A d \in Clients : Paid(d)'
  BY <1>3, <1>4 DEF Paid, Covers
<1>6. TypeOKL'
  BY <1>1, <1>3 DEF InvL, TypeOKL, LimiterTypeOK, SetRateL, SetRate
<1> QED
  BY <1>5, <1>6 DEF InvL

-----------------------------------------------------------------------------
\* Every client starts untracked, with a full allowance.
LEMMA LimiterStarts == InitL => InvL
<1> SUFFICES ASSUME InitL PROVE InvL
  OBVIOUS
<1>1. 1 \in DOMAIN Rates /\ DOMAIN buckets = {} /\ DOMAIN unswept = {} /\ reload = 1
  BY LimiterAssumption DEF InitL, LimiterInit
<1>2. perSecond \in Nat
  BY <1>1, Numbers DEF perSecond
<1>3. Allowed(perSecond) \in Nat
  BY <1>2, AllowedIs
<1> QED
  BY <1>1, <1>3 DEF InvL, InitL, TypeOKL, LimiterTypeOK, Paid

\* The invariant holds throughout.
THEOREM LimiterInvariant == SpecL => []InvL
<1>1. InvL /\ [NextL]_varsL => InvL'
  <2> SUFFICES ASSUME InvL, [NextL]_varsL PROVE InvL'
    OBVIOUS
  <2>1. CASE UNCHANGED varsL
    BY <2>1 DEF InvL, TypeOKL, LimiterTypeOK, Paid, Covers, Potential, perSecond,
       varsL, limiterVars
  <2>2. ASSUME NEW c \in Clients, PassL(c) PROVE InvL'
    BY <2>2 DEF InvL, TypeOKL, LimiterTypeOK, Paid, Covers, Potential, perSecond,
       PassL, Pass, limiterVars
  <2> QED
    BY <2>1, <2>2, AskedPaid, TickPaid, SetRatePaid DEF NextL
<1> QED
  BY LimiterStarts, <1>1, PTL DEF SpecL

\* The buckets, the allowances and the rate keep their types.
THEOREM LimiterTypes == SpecL => []TypeOKL
<1>1. InvL => TypeOKL
  BY DEF InvL
<1> QED
  BY LimiterInvariant, <1>1, PTL

\* Under a rate that stays, a client is admitted no more than the burst, what the
\* time refills and what the delay of the readings may add: late readings, taken
\* before the lock, spend no refill twice (rateLimiter.allow).
THEOREM RateIsKept == SpecL => []WithinTheRate
<1>1. ASSUME InvL PROVE WithinTheRate
  <2>1. Allowed(perSecond) \in Nat
    BY <1>1, RateIsNat, AllowedIs DEF InvL
  <2> QED
    BY <1>1, <2>1 DEF InvL, Paid, WithinTheRate
<1> QED
  BY LimiterInvariant, <1>1, PTL

-----------------------------------------------------------------------------
(* The sweep.  Late readings may leave a bucket below zero: each rate that  *)
(* touches it takes at most MaxDelay ticks of its refill, and that is what  *)
(* idleBucketTTL leaves beyond the refill of a burst.                       *)

\* What late readings may take off a bucket, under every rate together.
Debt == IdleBucketTTL - TicksPerSecond - MaxDelay

\* The rates so far have each taken their part of the debt at most; the one in
\* force gives back what it took, as time passes.
Solvent(bucket, k) ==
    /\ bucket \in [tokens : Int, age : 0..AgeCap]
    /\ Len(Rates) * bucket.tokens >= -(k * Debt)
    /\ Len(Rates) * (bucket.tokens + bucket.age * Rates[k]) >= -((k - 1) * Debt)

\* Every bucket is the one a limiter without a sweep has; what it lacks is old.
Alike ==
    /\ DOMAIN buckets \subseteq DOMAIN unswept
    /\ \A c \in DOMAIN unswept :
          /\ Solvent(unswept[c], reload)
          /\ IF c \in DOMAIN buckets THEN buckets[c] = unswept[c]
             ELSE unswept[c].age > IdleBucketTTL

\* The debt is a number, and has room for what each rate can take.
LEMMA DebtIs ==
    /\ Len(Rates) \in Nat \ {0} /\ Debt \in Nat
    /\ \A i \in DOMAIN Rates : Len(Rates) * (MaxDelay * Rates[i]) <= Debt
<1>1. Len(Rates) \in Nat \ {0} /\ DOMAIN Rates = 1..Len(Rates)
  BY LimiterAssumption
<1>2. Debt \in Nat
  BY Numbers DEF Debt
<1>3. ASSUME NEW i \in DOMAIN Rates PROVE Len(Rates) * (MaxDelay * Rates[i]) <= Debt
  <2>1. IdleBucketTTL >= TicksPerSecond + MaxDelay * (1 + Len(Rates) * Rates[i])
    BY LimiterAssumption
  <2>2. Rates[i] \in Nat /\ MaxDelay \in Nat /\ TicksPerSecond \in Nat /\ IdleBucketTTL \in Nat
    BY Numbers
  <2> DEFINE l == Len(Rates)
             q == Rates[i]
  <2>3. l \in Nat /\ q \in Nat
    BY <1>1, <2>2
  <2> HIDE DEF l, q
  <2>4. MaxDelay * (1 + l * q) = MaxDelay + l * (MaxDelay * q) /\ l * (MaxDelay * q) \in Nat
    BY <2>2, <2>3
  <2> QED
    BY <2>1, <2>2, <2>4 DEF Debt, l, q
<1> QED
  BY <1>1, <1>2, <1>3

\* A bucket older than idleBucketTTL has refilled, at every reading and under every
\* rate (rateLimiter.sweep: "quiet long enough to have refilled anyway").
LEMMA OldIsFull ==
    ASSUME TypeOKL, perSecond > 0, NEW b, Solvent(b, reload), b.age > IdleBucketTTL,
           NEW delay \in 0..MaxDelay
    PROVE  Refilled(b, delay) = [tokens |-> Burst(perSecond), age |-> delay]
<1> DEFINE l == Len(Rates)
           n == b.tokens
           r == perSecond
           wait == b.age - delay
<1>1. l \in Nat \ {0} /\ Debt \in Nat /\ r \in Nat /\ r > 0
  BY DebtIs, RateIsNat
<1>2. n \in Int /\ l * n >= -(reload * Debt) /\ reload \in 1..l
  <2>1. b.tokens \in Int /\ Len(Rates) * b.tokens >= -(reload * Debt)
    BY DEF Solvent
  <2>2. DOMAIN Rates = 1..l /\ reload \in DOMAIN Rates
    BY LimiterAssumption DEF TypeOKL, LimiterTypeOK
  <2> QED
    BY <2>1, <2>2
<1>3. wait \in Int /\ wait >= TicksPerSecond + Debt
  <2>1. b.age \in Int
    BY Numbers DEF Solvent
  <2> QED
    BY <2>1, Numbers DEF Debt
<1>4. n >= -Debt
  <2> HIDE DEF l, n
  <2>1. reload * Debt <= l * Debt /\ reload * Debt \in Int /\ l * Debt \in Int
    BY <1>1, <1>2
  <2>2. l * n + l * Debt >= 0
    BY <1>1, <1>2, <2>1
  <2>3. l * n + l * Debt = l * (n + Debt)
    BY <1>1, <1>2
  <2>4. n + Debt >= 0
    BY <1>1, <1>2, <2>2, <2>3
  <2> QED
    BY <1>1, <1>2, <2>4
<1>5. n + wait * r >= Burst(r)
  <2> HIDE DEF n, wait, r
  <2>1. (TicksPerSecond + Debt) * r <= wait * r /\ wait * r \in Int
    BY <1>1, <1>3, Numbers, Products
  <2>2. (TicksPerSecond + Debt) * r = TicksPerSecond * r + Debt * r
    BY <1>1, Numbers, Products
  <2>3. Debt * r \in Int /\ Debt * r >= Debt
    BY <1>1
  <2>4. Burst(r) = TicksPerSecond * r /\ Burst(r) \in Int
    BY <1>1, Numbers DEF Burst
  <2> DEFINE waited == wait * r
             owed == Debt * r
             full == Burst(r)
  <2>5. waited \in Int /\ owed \in Int /\ full \in Int /\ full + owed <= waited /\ owed >= Debt
    BY <2>1, <2>2, <2>3, <2>4
  <2> HIDE DEF waited, owed, full
  <2>6. n + waited >= full
    BY <1>1, <1>2, <1>4, <2>5
  <2> QED
    BY <2>6 DEF waited, full
<1>6. Burst(r) \in Int /\ n + wait * r \in Int
  <2> HIDE DEF n, wait, r
  <2> QED
    BY <1>1, <1>2, <1>3, AllowedIs, Products
<1>7. Capped(n + wait * r, Burst(r)) = Burst(r)
  <2> HIDE DEF n, wait, r
  <2> QED
    BY <1>5, <1>6 DEF Capped
<1> QED
  BY <1>7 DEF Refilled

\* So the sweep is not seen: what it dropped would have been full.
LEMMA SameAnswer ==
    ASSUME TypeOKL, Alike, perSecond > 0, NEW c \in Clients, NEW delay \in 0..MaxDelay
    PROVE  TokensAt(buckets, c, delay) = TokensAt(unswept, c, delay)
<1>1. CASE c \in DOMAIN buckets
  BY <1>1 DEF Alike, TokensAt
<1>2. CASE c \notin DOMAIN buckets /\ c \in DOMAIN unswept
  <2>1. Refilled(unswept[c], delay) = [tokens |-> Burst(perSecond), age |-> delay]
    BY <1>2, OldIsFull DEF Alike
  <2> QED
    BY <1>2, <2>1 DEF TokensAt
<1>3. CASE c \notin DOMAIN buckets /\ c \notin DOMAIN unswept
  BY <1>2, <1>3 DEF TokensAt
<1> QED
  BY <1>1, <1>2, <1>3

\* The bucket allow leaves is within the debt of the rates so far.
LEMMA AskedSolvent ==
    ASSUME TypeOKL, Alike, NEW c \in Clients, NEW delay \in 0..MaxDelay,
           NEW n, n = TokensAt(unswept, c, delay) \/ n \in Nat
    PROVE  Solvent([tokens |-> n, age |-> delay], reload)
<1> DEFINE l == Len(Rates)
           r == Rates[reload]
           k == reload
           b == [tokens |-> n, age |-> delay]
<1>1. /\ l \in Nat \ {0} /\ Debt \in Nat /\ r \in Nat /\ k \in 1..l
      /\ delay \in Nat /\ MaxDelay \in Nat /\ delay <= MaxDelay /\ perSecond = r
  <2>1. k \in 1..l
    BY LimiterAssumption DEF TypeOKL, LimiterTypeOK
  <2>2. r \in Nat /\ perSecond = r
    BY RateIsNat DEF perSecond
  <2> QED
    BY <2>1, <2>2, DebtIs, Numbers
<1>a. delay \in 0..AgeCap
  BY Numbers DEF AgeCap
<1>2. l * (delay * r) <= Debt /\ delay * r \in Nat /\ l * (delay * r) \in Nat
  <2>1. l * (MaxDelay * r) <= Debt
    BY DebtIs DEF TypeOKL, LimiterTypeOK
  <2> HIDE DEF l, r
  <2>2. delay * r <= MaxDelay * r /\ delay * r \in Nat /\ MaxDelay * r \in Nat
    BY <1>1, Products
  <2>3. l * (delay * r) <= l * (MaxDelay * r) /\ l * (delay * r) \in Nat
        /\ l * (MaxDelay * r) \in Nat
    BY <1>1, <2>2
  <2> QED
    BY <1>1, <2>1, <2>2, <2>3
<1>3. k * Debt = (k - 1) * Debt + Debt /\ (k - 1) * Debt \in Nat /\ k * Debt \in Nat
  <2> HIDE DEF l
  <2> QED
    BY <1>1
<1>4. n \in Int /\ l * (n + delay * r) >= -((k - 1) * Debt)
  <2>1. CASE n \in Nat
    <3>1. n + delay * r \in Nat
      BY <1>2, <2>1
    <3>2. l * (n + delay * r) \in Nat
      <4> HIDE DEF l
      <4> QED
        BY <1>1, <3>1
    <3> QED
      BY <1>3, <2>1, <3>2
  <2>2. CASE n = TokensAt(unswept, c, delay) /\ n \notin Nat
    <3>1. Burst(r) \in Nat
      BY <1>1, AllowedIs
    <3>2. c \in DOMAIN unswept
      BY <1>1, <2>2, <3>1 DEF TokensAt
    <3> DEFINE u == unswept[c]
    <3>3. /\ u.tokens \in Int /\ u.age \in Int
          /\ l * (u.tokens + u.age * r) >= -((k - 1) * Debt)
      BY <3>2, Numbers DEF Alike, Solvent
    <3>4. n = Capped(u.tokens + (u.age - delay) * r, Burst(r))
      BY <1>1, <2>2, <3>2 DEF TokensAt, Refilled
    <3>5. n = u.tokens + (u.age - delay) * r
      BY <2>2, <3>1, <3>4 DEF Capped
    <3> HIDE DEF u, r
    <3>6. /\ (u.age - delay) * r = u.age * r - delay * r
          /\ u.age * r \in Int
      BY <1>1, <3>3, Products
    <3>7. n \in Int /\ n + delay * r = u.tokens + u.age * r
      <4> DEFINE late == delay * r
                 gained == u.age * r
                 held == u.tokens
      <4>1. late \in Int /\ gained \in Int /\ held \in Int
        BY <1>2, <3>3, <3>6
      <4>2. n = held + (gained - late)
        BY <3>5, <3>6
      <4> HIDE DEF late, gained, held
      <4>3. n \in Int /\ n + late = held + gained
        BY <4>1, <4>2
      <4> QED
        BY <4>3 DEF late, gained, held
    <3> QED
      BY <3>3, <3>7
  <2> QED
    BY <2>1, <2>2
<1>5. l * n >= -(k * Debt)
  <2> DEFINE d == delay * r
  <2>1. d \in Nat /\ l * d <= Debt /\ l * d \in Nat /\ l * (n + d) >= -((k - 1) * Debt)
    BY <1>2, <1>4
  <2> HIDE DEF l, k, d
  <2>2. l * (n + d) = l * n + l * d
    BY <1>1, <1>4, <2>1
  <2>3. l * n \in Int
    BY <1>1, <1>4
  <2> QED
    BY <1>1, <1>3, <2>1, <2>2, <2>3
<1>6. Solvent(b, k)
  <2> HIDE DEF l, r, k
  <2> QED
    BY <1>a, <1>4, <1>5 DEF Solvent, l, r, k
<1> QED
  BY <1>6

\* allow leaves the two limiters alike, whatever it sweeps.
LEMMA AskedAlike ==
    ASSUME TypeOKL, Alike, NEW c \in Clients, NEW delay \in 0..MaxDelay,
           AdmitL(c, delay) \/ RefuseL(c, delay)
    PROVE  Alike'
<1> DEFINE p == Prepared(buckets, c, delay)
           t == TokensAt(buckets, c, delay)
           left == IF t >= Cost THEN t - Cost ELSE t
<1>1. LimiterTypeOK /\ perSecond > 0 /\ reload' = reload /\ Cost \in Nat /\ t \in Int
      /\ Asked(c, delay)
  BY Numbers, TokensAre DEF TypeOKL, AdmitL, Admit, RefuseL, Refuse, Cost
<1>2. t = TokensAt(unswept, c, delay)
  BY <1>1, SameAnswer
<1>3. /\ DOMAIN p \subseteq Clients /\ c \in DOMAIN p
      /\ p[c] = [tokens |-> t, age |-> delay]
      /\ \A d \in DOMAIN p \ {c} : d \in DOMAIN buckets /\ p[d] = buckets[d]
      /\ \A d \in DOMAIN buckets \ DOMAIN p : buckets[d].age - delay > IdleBucketTTL
  BY <1>1, PreparedIs
<1>4. p = [d \in DOMAIN p |-> p[d]]
  BY DEF Prepared
<1> HIDE DEF p
<1>5. /\ DOMAIN buckets' = DOMAIN p
      /\ buckets'[c] = [tokens |-> left, age |-> delay]
      /\ \A d \in DOMAIN p \ {c} : buckets'[d] = p[d]
  <2> HIDE DEF t
  <2>1. CASE AdmitL(c, delay)
    <3>1. p[c].tokens >= Cost /\ buckets' = [p EXCEPT ![c].tokens = p[c].tokens - Cost]
      BY <2>1 DEF AdmitL, Admit, p
    <3> QED
      BY <1>3, <1>4, <3>1
  <2>2. CASE RefuseL(c, delay)
    <3>1. p[c].tokens < Cost /\ buckets' = p
      BY <2>2 DEF RefuseL, Refuse, p
    <3> QED
      BY <1>1, <1>3, <3>1
  <2> QED
    BY <2>1, <2>2
<1>6. /\ DOMAIN unswept' = DOMAIN unswept \cup {c}
      /\ unswept'[c] = [tokens |-> left, age |-> delay]
      /\ \A d \in DOMAIN unswept \ {c} : unswept'[d] = unswept[d]
  BY <1>1, <1>2 DEF Asked
<1>7. Solvent(unswept'[c], reload')
  <2>1. left = TokensAt(unswept, c, delay) \/ left \in Nat
    BY <1>1, <1>2
  <2>2. Solvent([tokens |-> left, age |-> delay], reload)
    <3> HIDE DEF left
    <3> QED
      BY <2>1, AskedSolvent
  <2> QED
    BY <1>1, <1>6, <2>2
<1> HIDE DEF t, left
<1>8. ASSUME NEW d \in DOMAIN unswept \ {c}
      PROVE  /\ Solvent(unswept'[d], reload')
             /\ d \in DOMAIN p => p[d] = unswept[d]
             /\ d \notin DOMAIN p => unswept[d].age > IdleBucketTTL
  <2>1. Solvent(unswept[d], reload)
    BY DEF Alike
  <2>2. Solvent(unswept'[d], reload')
    BY <1>1, <1>6, <2>1
  <2>3. CASE d \notin DOMAIN p /\ d \in DOMAIN buckets
    <3>1. buckets[d].age - delay > IdleBucketTTL /\ buckets[d] = unswept[d]
      BY <1>3, <2>3 DEF Alike
    <3> QED
      BY <2>1, <2>2, <2>3, <3>1, Numbers DEF Solvent
  <2>4. CASE d \notin DOMAIN p /\ d \notin DOMAIN buckets
    BY <2>2, <2>4 DEF Alike
  <2>5. CASE d \in DOMAIN p
    BY <1>3, <2>2, <2>5 DEF Alike
  <2> QED
    BY <2>3, <2>4, <2>5
<1>9. DOMAIN buckets' \subseteq DOMAIN unswept'
  BY <1>3, <1>5, <1>6 DEF Alike
<1>10. ASSUME NEW d \in DOMAIN unswept \cup {c}
       PROVE  /\ Solvent(unswept'[d], reload')
              /\ d \in DOMAIN buckets' => buckets'[d] = unswept'[d]
              /\ d \notin DOMAIN buckets' => unswept'[d].age > IdleBucketTTL
  <2>1. CASE d = c
    BY <1>3, <1>5, <1>6, <1>7, <2>1
  <2>2. CASE d # c
    BY <1>5, <1>6, <1>8, <2>2
  <2> QED
    BY <2>1, <2>2
<1> QED
  BY <1>6, <1>9, <1>10 DEF Alike

\* What is old grows older, and what is owed is given back.
LEMMA OlderIsSolvent ==
    ASSUME TypeOKL, NEW b, Solvent(b, reload),
           NEW a, a = [b EXCEPT !.age = Capped(@ + 1, AgeCap)]
    PROVE  Solvent(a, reload) /\ a.age >= b.age
<1> DEFINE l == Len(Rates)
           r == Rates[reload]
           owed == (reload - 1) * Debt
<1>1. /\ a \in [tokens : Int, age : 0..AgeCap] /\ a.tokens = b.tokens
      /\ a.age \in Int /\ b.age \in Int /\ b.tokens \in Int /\ a.age >= b.age
  <2>1. b \in [tokens : Int, age : 0..AgeCap] /\ AgeCap \in Nat
    BY Numbers DEF Solvent
  <2>2. Capped(b.age + 1, AgeCap) \in 0..AgeCap /\ Capped(b.age + 1, AgeCap) >= b.age
    BY <2>1 DEF Capped
  <2> QED
    BY <2>1, <2>2
<1>2. l \in Nat /\ r \in Nat /\ owed \in Int
  <2>1. l \in Nat /\ Debt \in Nat
    BY DebtIs
  <2>2. reload \in DOMAIN Rates /\ DOMAIN Rates = 1..Len(Rates)
    BY LimiterAssumption DEF TypeOKL, LimiterTypeOK
  <2>3. r \in Nat
    BY <2>2, Numbers
  <2> HIDE DEF l, r
  <2> QED
    BY <2>1, <2>2, <2>3
<1>3. l * (b.tokens + b.age * r) >= -owed
  BY DEF Solvent
<1>4. l * (a.tokens + a.age * r) >= -owed
  <2> HIDE DEF l, r, owed
  <2>1. b.age * r <= a.age * r /\ b.age * r \in Int /\ a.age * r \in Int
    BY <1>1, <1>2, Products
  <2>2. l * (b.tokens + b.age * r) <= l * (a.tokens + a.age * r)
        /\ l * (b.tokens + b.age * r) \in Int /\ l * (a.tokens + a.age * r) \in Int
    BY <1>1, <1>2, <2>1
  <2> QED
    BY <1>2, <1>3, <2>2
<1>5. l * a.tokens >= -(reload * Debt)
  BY <1>1 DEF Solvent
<1> QED
  BY <1>1, <1>4, <1>5 DEF Solvent

\* Time passes alike for both.
LEMMA TickAlike == ASSUME TypeOKL, Alike, TickL PROVE Alike'
<1> DEFINE older(b) == [b EXCEPT !.age = Capped(@ + 1, AgeCap)]
<1>1. reload' = reload
  BY DEF TickL, LimiterTick
<1>2. /\ DOMAIN unswept' = DOMAIN unswept /\ DOMAIN buckets' = DOMAIN buckets
      /\ \A d \in DOMAIN unswept : unswept'[d] = older(unswept[d])
      /\ \A d \in DOMAIN buckets : buckets'[d] = older(buckets[d])
  BY DEF TickL, LimiterTick
<1>3. ASSUME NEW d \in DOMAIN unswept
      PROVE  /\ Solvent(unswept'[d], reload')
             /\ unswept'[d].age >= unswept[d].age
             /\ unswept'[d].age \in Int /\ unswept[d].age \in Int
  <2>1. Solvent(unswept[d], reload)
    BY DEF Alike
  <2>2. Solvent(unswept'[d], reload) /\ unswept'[d].age >= unswept[d].age
    BY <1>2, <2>1, OlderIsSolvent
  <2> QED
    BY <1>1, <2>1, <2>2, Numbers DEF Solvent
<1> HIDE DEF older
<1>4. DOMAIN buckets' \subseteq DOMAIN unswept'
  BY <1>2 DEF Alike
<1>5. ASSUME NEW d \in DOMAIN unswept, d \in DOMAIN buckets
      PROVE  buckets'[d] = unswept'[d]
  <2>1. buckets[d] = unswept[d]
    BY <1>5 DEF Alike
  <2> QED
    BY <1>2, <1>5, <2>1
<1>6. ASSUME NEW d \in DOMAIN unswept, d \notin DOMAIN buckets
      PROVE  unswept'[d].age > IdleBucketTTL
  <2>1. unswept[d].age > IdleBucketTTL
    BY <1>6 DEF Alike
  <2> QED
    BY <1>3, <2>1, Numbers
<1> QED
  BY <1>2, <1>3, <1>4, <1>5, <1>6 DEF Alike

\* A new rate owes nothing yet, and what the rates before it took stays owed.
LEMMA OwedStaysOwed ==
    ASSUME NEW k \in Nat \ {0}, NEW b, Solvent(b, k), Rates[k + 1] \in Nat
    PROVE  Solvent(b, k + 1)
<1> DEFINE l == Len(Rates)
           r == Rates[k + 1]
           owed == k * Debt
           more == (k + 1) * Debt
           n == b.tokens
           m == b.age * r
<1>1. b \in [tokens : Int, age : 0..AgeCap] /\ l * n >= -owed
  BY DEF Solvent
<1>2. n \in Int /\ b.age \in Nat
  BY <1>1, Numbers
<1>3. m \in Nat
  <2> HIDE DEF r
  <2> QED
    BY <1>2, Products DEF r
<1>4. l \in Nat /\ owed \in Int /\ more \in Int /\ more >= owed
  <2>1. l \in Nat /\ Debt \in Nat
    BY DebtIs
  <2> QED
    BY <2>1
<1>5. l * n >= -more /\ l * (n + m) >= -owed
  <2> HIDE DEF l, owed, more, n, m
  <2>1. l * n <= l * (n + m) /\ l * n \in Int /\ l * (n + m) \in Int
    BY <1>2, <1>3, <1>4
  <2> QED
    BY <1>1, <1>4, <2>1
<1>6. (k + 1) - 1 = k
  OBVIOUS
<1> QED
  BY <1>1, <1>5, <1>6 DEF Solvent

\* A reload keeps the buckets of both (setRate).
LEMMA SetRateAlike == ASSUME TypeOKL, Alike, SetRateL PROVE Alike'
<1>1. /\ reload' = reload + 1 /\ reload + 1 \in DOMAIN Rates /\ reload \in Nat \ {0}
      /\ buckets' = buckets /\ unswept' = unswept
  <2>1. reload \in DOMAIN Rates /\ DOMAIN Rates = 1..Len(Rates) /\ Len(Rates) \in Nat
    BY LimiterAssumption DEF TypeOKL, LimiterTypeOK
  <2>2. /\ reload < Len(Rates) /\ reload' = reload + 1
        /\ buckets' = buckets /\ unswept' = unswept
    BY DEF SetRateL, SetRate
  <2> QED
    BY <2>1, <2>2
<1>2. \A d \in DOMAIN unswept : Solvent(unswept[d], reload + 1)
  BY <1>1, Numbers, OwedStaysOwed DEF Alike
<1> QED
  BY <1>1, <1>2 DEF Alike

\* Every client has as many tokens, at every reading and under every rate, as if no
\* bucket were ever swept: a sweep gives away nothing and takes nothing, although
\* readings are late and the rate changes while a bucket is quiet
\* (rateLimiter.sweep).
THEOREM SweepingIsUnseen == SpecL => []SweepUnseen
<1>1. InitL => Alike
  BY DEF InitL, LimiterInit, Alike
<1>2. Alike /\ TypeOKL /\ [NextL]_varsL => Alike'
  <2> SUFFICES ASSUME Alike, TypeOKL, [NextL]_varsL PROVE Alike'
    OBVIOUS
  <2>1. CASE UNCHANGED varsL
    BY <2>1 DEF Alike, varsL, limiterVars
  <2>2. ASSUME NEW c \in Clients, PassL(c) PROVE Alike'
    BY <2>2 DEF Alike, PassL, Pass, limiterVars
  <2> QED
    BY <2>1, <2>2, AskedAlike, TickAlike, SetRateAlike DEF NextL
<1>3. Alike /\ TypeOKL => SweepUnseen
  BY SameAnswer DEF SweepUnseen
<1> QED
  BY <1>1, <1>2, <1>3, LimiterTypes, PTL DEF SpecL

=============================================================================
