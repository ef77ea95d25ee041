-------------------------- MODULE StrategiesProofs --------------------------
(***************************************************************************)
(* Proofs about the choice of a backend.                                   *)
(*                                                                         *)
(* The turns of the round robin, for every size of the pool and width of   *)
(* the counter; the credits of the weighted one, for every pool and all    *)
(* weights; the placements by load, for every number of backends and of    *)
(* requests, every order, weights and factor; and sticky sessions, for     *)
(* every set of backends, of requests of a client and every sequence of    *)
(* configurations.                                                         *)
(***************************************************************************)
EXTENDS Turns, Placement, Sticky, Integers, Sequences, Sums

-----------------------------------------------------------------------------
(* The turns of the round robin.                                           *)

\* The backends of C before b.
Before(C, b) == {a \in C : a < b}

\* The candidates are finitely many, and each place in their order is one's.
LEMMA CandidatesAre ==
    ASSUME NEW C \in Candidates
    PROVE  /\ C \subseteq Nat /\ C \subseteq 0..PoolSize /\ C # {} /\ IsFiniteSet(C)
           /\ Cardinality(C) \in Nat \ {0}
<1>1. PoolSize \in Nat
  BY TurnsAssumption
<1>2. C \subseteq 1..PoolSize /\ C # {} /\ IsFiniteSet(1..PoolSize)
  BY <1>1, FS_Interval DEF Candidates, Places
<1>3. IsFiniteSet(C)
  BY <1>2, FS_Subset
<1>4. Cardinality(C) \in Nat /\ Cardinality(C) # 0
  BY <1>2, <1>3, FS_CardinalityType, FS_EmptySet
<1> QED
  BY <1>1, <1>2, <1>3, <1>4

\* Counting from the first candidate, every index below their number is one's, so that
\* picking by index always finds a backend (sortedByAddress, RoundRobin.Select).
LEMMA EveryPlaceTaken ==
    ASSUME NEW C \in Candidates, NEW k \in 0..(Cardinality(C) - 1)
    PROVE  \E b \in C : Cardinality(Before(C, b)) = k
<1>1. C \subseteq Nat /\ C \subseteq 0..PoolSize /\ IsFiniteSet(C) /\ C # {}
      /\ Cardinality(C) \in Nat \ {0} /\ PoolSize \in Nat
  BY CandidatesAre, TurnsAssumption
<1>2. ASSUME NEW b \in C
      PROVE  IsFiniteSet(Before(C, b)) /\ Cardinality(Before(C, b)) \in Nat
  BY <1>1, FS_Subset, FS_CardinalityType DEF Before
<1>3. ASSUME NEW a \in C, NEW b \in C, a < b, \A x \in Before(C, b) : x <= a
      PROVE  Cardinality(Before(C, b)) = Cardinality(Before(C, a)) + 1
  <2>1. \A x \in C : x < b <=> x < a \/ x = a
    <3>1. \A x \in C : x < b => x <= a
      BY <1>3 DEF Before
    <3>2. \A x \in C : x \in Nat
      BY <1>1
    <3> QED
      BY <1>3, <3>1, <3>2
  <2>2. Before(C, b) = Before(C, a) \cup {a}
    BY <2>1, Zenon DEF Before
  <2>3. a \notin Before(C, a)
    BY <1>1 DEF Before
  <2> QED
    BY <1>2, <2>2, <2>3, FS_AddElement
<1> DEFINE T == {b \in C : Cardinality(Before(C, b)) >= k}
<1>4. PICK last \in C : \A y \in C : y <= last
  BY <1>1, Greatest
<1>5. last \in T
  <2>0. \A x \in C : x < last \/ x = last
    <3>1. \A x \in C : x \in Nat
      BY <1>1
    <3> QED
      BY <1>4, <3>1
  <2>1. C = Before(C, last) \cup {last}
    BY <2>0, Zenon DEF Before
  <2>3. last \notin Before(C, last)
    BY <1>1 DEF Before
  <2>2. Cardinality(C) = Cardinality(Before(C, last)) + 1
    BY <1>2, <2>1, <2>3, FS_AddElement
  <2> QED
    BY <1>2, <2>2
<1>6. PICK b \in T : \A y \in T : b <= y
  BY <1>1, <1>5, Least
<1>7. Cardinality(Before(C, b)) <= k
  <2> SUFFICES ASSUME Cardinality(Before(C, b)) > k PROVE FALSE
    BY <1>2, <1>6
  <2>1. Before(C, b) # {}
    BY FS_EmptySet
  <2>2. Before(C, b) \in SUBSET (0..PoolSize)
    BY <1>1 DEF Before
  <2>3. PICK a \in Before(C, b) : \A x \in Before(C, b) : x <= a
    BY <1>1, <2>1, <2>2, Greatest
  <2>4. a \in C /\ a < b
    BY <2>3 DEF Before
  <2>5. Cardinality(Before(C, b)) = Cardinality(Before(C, a)) + 1
    BY <1>3, <2>3, <2>4
  <2>6. a \in T
    BY <1>2, <2>4, <2>5
  <2> QED
    BY <1>1, <1>6, <2>4, <2>6
<1> QED
  BY <1>2, <1>6, <1>7

\* Two turns less than a round apart are two backends' (RoundRobin.Select).
LEMMA TurnsDiffer ==
    ASSUME NEW C \in Candidates, NEW m \in Nat, NEW n \in Nat,
           m < n, n < m + Cardinality(C)
    PROVE  TurnAt(C, m) # TurnAt(C, n)
<1> DEFINE s == Cardinality(C)
<1>1. s \in Nat \ {0}
  BY CandidatesAre
<1> HIDE DEF s
<1>2. m % s \in 0..(s - 1) /\ n % s \in 0..(s - 1)
  BY <1>1
<1>3. m % s # n % s
  <2>1. /\ m = s * (m \div s) + (m % s) /\ m \div s \in Int
        /\ n = s * (n \div s) + (n % s) /\ n \div s \in Int
    BY <1>1
  <2> DEFINE p == m \div s
             q == n \div s
  <2> HIDE DEF p, q
  <2> SUFFICES ASSUME m % s = n % s PROVE FALSE
    OBVIOUS
  <2>2. p \in Int /\ q \in Int /\ n - m = s * q - s * p /\ s * q \in Int /\ s * p \in Int
    BY <1>1, <1>2, <2>1 DEF p, q
  <2>3. n - m \in 1..(s - 1)
    BY <1>1 DEF s
  <2>4. CASE q <= p
    <3>1. s * q <= s * p
      BY <1>1, <2>2, <2>4
    <3> QED
      BY <1>1, <2>2, <2>3, <3>1
  <2>5. CASE q >= p + 1
    <3>1. s * q >= s * (p + 1) /\ s * (p + 1) = s * p + s
      BY <1>1, <2>2, <2>5
    <3> QED
      BY <1>1, <2>2, <2>3, <3>1
  <2> QED
    BY <2>2, <2>4, <2>5
<1>4. /\ Cardinality(Before(C, TurnAt(C, m))) = m % s
      /\ Cardinality(Before(C, TurnAt(C, n))) = n % s
  BY <1>2, EveryPlaceTaken DEF TurnAt, Before, s
<1> QED
  BY <1>3, <1>4

\* What a turn picks is a candidate (RoundRobin.Select).
LEMMA TurnIsACandidate ==
    ASSUME NEW C \in Candidates, NEW n \in Nat
    PROVE  TurnAt(C, n) \in C
<1> DEFINE s == Cardinality(C)
<1>1. s \in Nat \ {0}
  BY CandidatesAre
<1> HIDE DEF s
<1>2. n % s \in 0..(s - 1)
  BY <1>1
<1> QED
  BY <1>2, EveryPlaceTaken DEF TurnAt, Before, s

\* The counter wraps at its width.
LEMMA Wraps ==
    ASSUME NEW w \in Nat \ {0}, NEW n \in 0..(w - 1)
    PROVE  \/ (n + 1) % w = 0
           \/ (n + 1) % w = n + 1 /\ n + 1 \in 0..(w - 1)
<1>1. CASE n + 1 < w
  BY <1>1
<1>2. CASE n + 1 = w
  <2> DEFINE q == w \div w
             r == w % w
  <2>1. w = w * q + r /\ q \in Int /\ r \in 0..(w - 1)
    OBVIOUS
  <2> HIDE DEF q, r
  <2>2. CASE q <= 0
    <3>1. w * q <= 0 /\ w * q \in Int
      BY <2>1, <2>2
    <3> QED
      BY <2>1, <3>1
  <2>3. CASE q = 1
    <3>1. w * q = w
      BY <2>3
    <3>2. r = 0
      BY <2>1, <3>1
    <3>3. (n + 1) % w = r
      BY <1>2, Zenon DEF r
    <3> QED
      BY <3>2, <3>3
  <2>4. CASE q >= 2
    <3>1. w * q >= w * 2 /\ w * q \in Int
      BY <2>1, <2>4
    <3> QED
      BY <2>1, <3>1
  <2> QED
    BY <2>1, <2>2, <2>3, <2>4
<1> QED
  BY <1>1, <1>2

\* The latest first attempts got the turns up to the next one, a round at most.
Rounds ==
    /\ next \in 0..(2^CounterWidth - 1)
    /\ latest.of \in Candidates /\ latest.got \in Seq(Places)
    /\ Len(latest.got) <= Cardinality(latest.of) /\ Len(latest.got) <= next
    /\ \A i \in 1..Len(latest.got) :
          latest.got[i] = TurnAt(latest.of, next - Len(latest.got) + i - 1)

\* The strategies by themselves.
TurnsSpec == TurnsInit /\ [][TurnsNext]_turnsVars

\* All of the pool can be candidates.
LEMMA WholePool == Places \in Candidates
<1>1. 1 \in Places
  BY TurnsAssumption DEF Places
<1> QED
  BY <1>1 DEF Candidates

\* A first attempt that does not wrap the counter gets the turn that follows the
\* latest ones (RoundRobin.Select).
LEMMA FirstTurn ==
    ASSUME Rounds, NEW C \in Candidates, next + 1 \in 0..(2^CounterWidth - 1),
           next' = next + 1, latest' = Latest(C, TurnAt(C, next))
    PROVE  Rounds'
<1> DEFINE b == TurnAt(C, next)
           n == Cardinality(C)
           got == IF latest.of = C THEN latest.got ELSE <<>>
           kept == IF Len(got) < n THEN got ELSE Tail(got)
<1>1. next \in Nat /\ n \in Nat \ {0} /\ b \in Places
  <2>1. next \in Nat
    BY TurnsAssumption DEF Rounds
  <2> QED
    BY <2>1, CandidatesAre, TurnIsACandidate DEF Candidates
<1>2. /\ got \in Seq(Places) /\ Len(got) <= n /\ Len(got) <= next
      /\ \A i \in 1..Len(got) : got[i] = TurnAt(C, next - Len(got) + i - 1)
  <2>1. CASE latest.of = C
    BY <2>1 DEF Rounds
  <2>2. CASE latest.of # C
    BY <1>1, <2>2
  <2> QED
    BY <2>1, <2>2
<1>3. latest' = [of |-> C, got |-> Append(kept, b)]
  BY DEF Latest
<1> HIDE DEF got, n, b
<1>4. /\ kept \in Seq(Places) /\ Len(kept) < n /\ Len(kept) <= next
      /\ \A i \in 1..Len(kept) : kept[i] = TurnAt(C, next - Len(kept) + i - 1)
  <2>1. CASE Len(got) < n
    BY <1>2, <2>1
  <2>2. CASE ~(Len(got) < n)
    <3>1. Len(got) = n /\ got # <<>>
      BY <1>1, <1>2, <2>2
    <3>2. kept = Tail(got) /\ Tail(got) \in Seq(Places) /\ Len(Tail(got)) = n - 1
      BY <1>1, <1>2, <2>2, <3>1
    <3>3. ASSUME NEW i \in 1..Len(kept)
          PROVE  kept[i] = TurnAt(C, next - Len(kept) + i - 1)
      <4>0. i \in 1..(n - 1) /\ Len(got) = n /\ i \in Nat
        <5>1. Len(kept) = n - 1
          BY <3>2
        <5> HIDE DEF kept
        <5> QED
          BY <1>1, <3>1, <5>1
      <4>1. kept[i] = got[i + 1] /\ i + 1 \in 1..Len(got)
        <5>1. kept = Tail(got)
          BY <3>2
        <5> HIDE DEF kept
        <5>2. i + 1 \in 1..Len(got)
          BY <1>1, <4>0
        <5>3. Tail(got)[i] = got[i + 1]
          BY <1>1, <1>2, <3>1, <4>0
        <5> QED
          BY <5>1, <5>2, <5>3
      <4>2. next - Len(got) + (i + 1) - 1 = next - Len(kept) + i - 1
        <5>1. Len(kept) = n - 1
          BY <3>2
        <5> HIDE DEF kept
        <5> QED
          BY <1>1, <4>0, <5>1
      <4> QED
        BY <1>2, <4>1, <4>2
    <3>4. Len(kept) = n - 1 /\ kept \in Seq(Places)
      BY <3>2
    <3> HIDE DEF kept
    <3> QED
      BY <1>1, <1>2, <3>1, <3>3, <3>4
  <2> QED
    BY <2>1, <2>2
<1> HIDE DEF kept
<1> DEFINE more == Append(kept, b)
<1>5. more \in Seq(Places) /\ Len(more) = Len(kept) + 1 /\ Len(more) <= n
      /\ Len(more) <= next + 1
  BY <1>1, <1>4
<1>6. ASSUME NEW i \in 1..Len(more)
      PROVE  more[i] = TurnAt(C, (next + 1) - Len(more) + i - 1)
  <2>1. (next + 1) - Len(more) + i - 1 = next - Len(kept) + i - 1
    BY <1>1, <1>4, <1>5
  <2>2. CASE i = Len(more)
    <3>1. next - Len(kept) + i - 1 = next /\ more[i] = b
      BY <1>1, <1>4, <1>5, <2>2
    <3> QED
      BY <2>1, <3>1 DEF b
  <2>3. CASE i # Len(more)
    <3>1. i \in 1..Len(kept) /\ more[i] = kept[i]
      BY <1>1, <1>4, <1>5, <2>3
    <3> QED
      BY <1>4, <2>1, <3>1
  <2> QED
    BY <2>2, <2>3
<1> HIDE DEF more
<1> QED
  BY <1>3, <1>5, <1>6 DEF Rounds, more, n

\* As long as the candidates stay the same and the counter does not wrap, the first
\* attempts of a round go to backends that all differ: no two requests of a round share
\* one while another waits (RoundRobin.Select).
THEOREM RoundsStayFair == TurnsSpec => []RoundsAreFair
<1>1. TurnsInit => Rounds
  <2> SUFFICES ASSUME TurnsInit PROVE Rounds
    OBVIOUS
  <2>1. next = 0 /\ latest.of = Places /\ latest.got = <<>>
    BY DEF TurnsInit
  <2>2. Cardinality(Places) \in Nat
    BY WholePool, CandidatesAre
  <2> QED
    BY <2>1, <2>2, WholePool, TurnsAssumption DEF Rounds
<1>2. Rounds /\ [TurnsNext]_turnsVars => Rounds'
  <2> SUFFICES ASSUME Rounds, [TurnsNext]_turnsVars PROVE Rounds'
    OBVIOUS
  <2>1. CASE next' = next /\ latest' = latest
    BY <2>1 DEF Rounds
  <2>2. ASSUME NEW C \in Candidates, TakeTurn(C, TRUE) PROVE Rounds'
    <3>1. /\ next' = (next + 1) % 2^CounterWidth
          /\ latest' = IF next' = 0 THEN [of |-> C, got |-> <<>>]
                       ELSE Latest(C, TurnAt(C, next))
      BY <2>2 DEF TakeTurn
    <3>2. next' = 0 \/ (next' = next + 1 /\ next + 1 \in 0..(2^CounterWidth - 1))
      <4> DEFINE w == 2^CounterWidth
      <4>1. w \in Nat \ {0} /\ next \in 0..(w - 1) /\ next' = (next + 1) % w
        BY <3>1, TurnsAssumption DEF Rounds
      <4> HIDE DEF w
      <4>2. next' = 0 \/ (next' = next + 1 /\ next + 1 \in 0..(w - 1))
        BY <4>1, Wraps
      <4> QED
        BY <4>2 DEF w
    <3>3. CASE next' = 0
      <4>1. latest'.of = C /\ latest'.got = <<>>
        BY <3>1, <3>3
      <4>2. Cardinality(C) \in Nat
        BY CandidatesAre
      <4> QED
        BY <3>3, <4>1, <4>2, TurnsAssumption DEF Rounds
    <3>4. CASE next' # 0
      BY <3>1, <3>2, <3>4, FirstTurn
    <3> QED
      BY <3>3, <3>4
  <2>3. ASSUME NEW C \in Candidates, TakeTurn(C, FALSE) PROVE Rounds'
    BY <2>1, <2>3 DEF TakeTurn
  <2>4. ASSUME NEW C \in Candidates, Charge(C) PROVE Rounds'
    BY <2>1, <2>4 DEF Charge
  <2>5. CASE Reweigh
    BY <2>1, <2>5 DEF Reweigh
  <2>6. CASE UNCHANGED turnsVars
    BY <2>1, <2>6 DEF turnsVars
  <2> QED
    BY <2>2, <2>3, <2>4, <2>5, <2>6 DEF TurnsNext
<1>3. Rounds => RoundsAreFair
  <2> SUFFICES ASSUME Rounds, NEW i \in 1..Len(latest.got), NEW j \in 1..Len(latest.got), i < j
               PROVE  latest.got[i] # latest.got[j]
    <3>1. Len(latest.got) \in Nat
      BY DEF Rounds
    <3> QED
      BY <3>1 DEF RoundsAreFair
  <2> DEFINE m == next - Len(latest.got) + i - 1
             n == next - Len(latest.got) + j - 1
  <2>1. next \in Nat /\ Len(latest.got) \in Nat /\ Cardinality(latest.of) \in Nat
    BY TurnsAssumption, CandidatesAre DEF Rounds
  <2>2. m \in Nat /\ n \in Nat /\ m < n /\ n < m + Cardinality(latest.of)
    <3> DEFINE l == Len(latest.got)
               c == Cardinality(latest.of)
    <3>1. l <= c /\ l <= next /\ next \in Nat /\ l \in Nat /\ c \in Nat
          /\ i \in 1..l /\ j \in 1..l
      BY <2>1 DEF Rounds
    <3> HIDE DEF l, c
    <3>2. /\ next - l + i - 1 \in Nat /\ next - l + j - 1 \in Nat
          /\ next - l + i - 1 < next - l + j - 1
          /\ next - l + j - 1 < next - l + i - 1 + c
      BY <3>1
    <3> QED
      BY <3>2 DEF l, c
  <2> HIDE DEF m, n
  <2>3. TurnAt(latest.of, m) # TurnAt(latest.of, n)
    BY <2>2, TurnsDiffer DEF Rounds
  <2> QED
    BY <2>3 DEF Rounds, m, n
<1> QED
  BY <1>1, <1>2, <1>3, PTL DEF TurnsSpec

-----------------------------------------------------------------------------
(* The credits of the weighted round robin.                                *)

\* The arithmetic of a charge: of n backends k are put together, j of them candidates,
\* and one that is not among them, of credit c and weight w, is charged.
LEMMA ChargeArithmetic ==
    ASSUME NEW n \in Int, NEW k \in Int, NEW j \in Nat \ {0}, NEW m \in Int,
           NEW s \in Int, NEW c \in Int, NEW w \in Int, NEW cj \in Int, NEW wj \in Int,
           s + c <= m * ((k + 1) * (n - (k + 1))),
           s - cj <= m * ((k - j) * (n - (k - j))),
           cj + wj <= (c + w) * j, w <= m, wj <= m * j
    PROVE  s + wj <= m * (k * (n - k))
<1> DEFINE f == k * (n - k)
           x == s + wj
           y == m * f
<1>1. f \in Int /\ x \in Int /\ y \in Int
  OBVIOUS
<1>2. (k + 1) * (n - (k + 1)) = f + n - 2 * k - 1
  OBVIOUS
<1>3. (k - j) * (n - (k - j)) = f + (2 * (k * j) - n * j) - j * j
  OBVIOUS
<1>4. m * ((k + 1) * (n - (k + 1))) = y + m * n - 2 * (m * k) - m
  BY <1>2
<1>5. m * ((k - j) * (n - (k - j))) = y + (2 * (m * (k * j)) - m * (n * j)) - m * (j * j)
  BY <1>3
<1> DEFINE mn == m * n
           mk == m * k
<1>6. m * (k * j) = mk * j /\ m * (n * j) = mn * j /\ m * (j * j) = (m * j) * j
  OBVIOUS
<1>7. (s + c) * j <= (y + mn - 2 * mk - m) * j
  <2> DEFINE p == s + c
             q == y + mn - 2 * mk - m
  <2>1. p <= q /\ p \in Int /\ q \in Int
    BY <1>4
  <2> HIDE DEF p, q
  <2>2. p * j <= q * j
    BY <2>1
  <2> QED
    BY <2>2 DEF p, q
<1>8. (s + c) * j = s * j + c * j /\ (c + w) * j = c * j + w * j
  OBVIOUS
<1>9. (y + mn - 2 * mk - m) * j = y * j + mn * j - 2 * (mk * j) - m * j
  OBVIOUS
<1>10. w * j <= m * j /\ wj * j <= (m * j) * j
  <2> DEFINE mj == m * j
  <2>1. mj \in Int /\ wj <= mj
    OBVIOUS
  <2> HIDE DEF mj
  <2>2. wj * j <= mj * j
    BY <2>1
  <2>3. w * j <= m * j
    OBVIOUS
  <2> QED
    BY <2>2, <2>3 DEF mj
<1>11. x * (j + 1) = s * j + s + wj * j + wj /\ y * (j + 1) = y * j + y
  OBVIOUS
<1> DEFINE sj == s * j
           cc == c * j
           ww == w * j
           yj == y * j
           nj == mn * j
           kj == mk * j
           mj == m * j
           mjj == mj * j
           wwj == wj * j
<1>12. /\ sj \in Int /\ cc \in Int /\ ww \in Int /\ yj \in Int /\ nj \in Int /\ kj \in Int
       /\ mj \in Int /\ mjj \in Int /\ wwj \in Int
  OBVIOUS
<1>13. /\ sj + cc <= yj + nj - 2 * kj - mj
       /\ s - cj <= y + (2 * kj - nj) - mjj
       /\ cj + wj <= cc + ww /\ ww <= mj /\ wwj <= mjj
  BY <1>5, <1>6, <1>7, <1>8, <1>9, <1>10
<1>14. x * (j + 1) <= y * (j + 1)
  <2>1. x * (j + 1) = sj + s + wwj + wj /\ y * (j + 1) = yj + y
    BY <1>11
  <2> HIDE DEF sj, cc, ww, yj, nj, kj, mj, mjj, wwj, x, y
  <2> QED
    BY <1>1, <1>12, <1>13, <2>1
<1> HIDE DEF x, y
<1>15. x <= y
  <2> SUFFICES ASSUME x >= y + 1 PROVE FALSE
    BY <1>1
  <2>1. x * (j + 1) >= (y + 1) * (j + 1)
    BY <1>1
  <2>2. (y + 1) * (j + 1) = y * (j + 1) + (j + 1)
    BY <1>1
  <2> QED
    BY <1>1, <1>14, <2>1, <2>2
<1> QED
  BY <1>15 DEF x, y, f

\* The pool is finite, and every configuration gives every backend a weight.
LEMMA PlacesAre ==
    /\ PoolSize \in Nat \ {0} /\ IsFiniteSet(Places) /\ Cardinality(Places) = PoolSize
    /\ Len(Shares) \in Nat /\ DOMAIN Shares = 1..Len(Shares) /\ 1 \in DOMAIN Shares
    /\ \A i \in DOMAIN Shares : Shares[i] \in [Places -> Nat]
<1>1. PoolSize \in Nat \ {0} /\ Shares \in Seq([Places -> Nat]) /\ Shares # <<>>
  BY TurnsAssumption DEF Places
<1>2. IsFiniteSet(Places) /\ Cardinality(Places) = PoolSize
  BY <1>1, FS_Interval DEF Places
<1> DEFINE V == [Places -> Nat]
<1> HIDE DEF V
<1>3. Shares \in Seq(V) /\ Shares # <<>>
  BY <1>1 DEF V
<1>4. /\ Len(Shares) \in Nat /\ DOMAIN Shares = 1..Len(Shares) /\ 1 \in DOMAIN Shares
      /\ \A i \in DOMAIN Shares : Shares[i] \in V
  BY <1>3
<1> QED
  BY <1>1, <1>2, <1>4 DEF V

\* There is a heaviest weight.
LEMMA HeaviestIs ==
    /\ Heaviest \in Nat \ {0}
    /\ \A i \in DOMAIN Shares : \A b \in Places : Shares[i][b] <= Heaviest
<1> DEFINE F == {T \in SUBSET Places :
                    \E m \in Nat : \A b \in T : \A i \in DOMAIN Shares : Shares[i][b] <= m}
<1>0. \A i \in DOMAIN Shares : \A b \in Places : Shares[i][b] \in Nat
  BY PlacesAre
<1>1. ASSUME NEW b \in Places
      PROVE  \E m \in Nat : \A i \in DOMAIN Shares : Shares[i][b] <= m
  <2> DEFINE P == {n \in Nat : \E m \in Nat : \A i \in DOMAIN Shares : i <= n => Shares[i][b] <= m}
  <2>1. 0 \in P
    BY PlacesAre
  <2>2. \A n \in P : n + 1 \in P
    <3> SUFFICES ASSUME NEW n \in P PROVE n + 1 \in P
      OBVIOUS
    <3>1. PICK m \in Nat : \A i \in DOMAIN Shares : i <= n => Shares[i][b] <= m
      OBVIOUS
    <3>2. CASE n + 1 \in DOMAIN Shares
      <4> DEFINE v == Shares[n + 1][b]
                 u == IF v <= m THEN m ELSE v
      <4>1. v \in Nat
        BY <1>0, <3>2
      <4>2. u \in Nat /\ m <= u /\ v <= u
        BY <4>1
      <4>3. ASSUME NEW i \in DOMAIN Shares, i <= n + 1 PROVE Shares[i][b] <= u
        <5>1. i \in Nat /\ Shares[i][b] \in Nat
          BY <1>0, PlacesAre
        <5>2. CASE i = n + 1
          BY <4>2, <5>2
        <5>3. CASE i # n + 1
          <6>1. i <= n
            BY <4>3, <5>1, <5>3
          <6>2. Shares[i][b] <= m
            BY <3>1, <6>1
          <6> HIDE DEF u
          <6> QED
            BY <4>2, <5>1, <6>2
        <5> QED
          BY <5>2, <5>3
      <4> HIDE DEF u
      <4> QED
        BY <4>2, <4>3
    <3>3. CASE n + 1 \notin DOMAIN Shares
      <4>1. \A i \in DOMAIN Shares : i <= n + 1 => i <= n
        BY <3>3, PlacesAre
      <4> QED
        BY <3>1, <4>1
    <3> QED
      BY <3>2, <3>3
  <2>3. P = Nat
    <3> HIDE DEF P
    <3>1. P \in SUBSET Nat
      BY DEF P
    <3> QED
      BY <2>1, <2>2, <3>1, Counting
  <2>4. Len(Shares) \in P
    <3> HIDE DEF P
    <3> QED
      BY <2>3, PlacesAre
  <2> QED
    BY <2>4, PlacesAre
<1>2. {} \in F
  OBVIOUS
<1>3. \A T \in F : \A b \in Places \ T : T \cup {b} \in F
  <2> SUFFICES ASSUME NEW T \in F, NEW b \in Places \ T PROVE T \cup {b} \in F
    OBVIOUS
  <2>1. PICK m \in Nat : \A a \in T : \A i \in DOMAIN Shares : Shares[i][a] <= m
    OBVIOUS
  <2>2. PICK l \in Nat : \A i \in DOMAIN Shares : Shares[i][b] <= l
    BY <1>1
  <2>3. PICK u \in Nat : m <= u /\ l <= u
    OBVIOUS
  <2>4. \A a \in T \cup {b} : \A i \in DOMAIN Shares : Shares[i][a] <= u
    <3> SUFFICES ASSUME NEW a \in T \cup {b}, NEW i \in DOMAIN Shares PROVE Shares[i][a] <= u
      OBVIOUS
    <3>1. Shares[i][a] <= m \/ Shares[i][a] <= l
      BY <2>1, <2>2
    <3>2. Shares[i][a] \in Nat
      BY <1>0
    <3> QED
      BY <2>3, <3>1, <3>2
  <2> QED
    BY <2>4
<1>4. Places \in F
  <2> HIDE DEF F
  <2>1. F \in SUBSET SUBSET Places /\ IsFiniteSet(Places)
    BY PlacesAre DEF F
  <2>2. F = SUBSET Places
    BY <1>2, <1>3, <2>1, Gathering
  <2> QED
    BY <2>2
<1>5. PICK m \in Nat : \A b \in Places : \A i \in DOMAIN Shares : Shares[i][b] <= m
  BY <1>4
<1> DEFINE W == {1} \cup {Shares[i][b] : i \in DOMAIN Shares, b \in Places}
<1>6. W \in SUBSET (0..(m + 1)) /\ W # {}
  BY <1>0, <1>5
<1>7. \E x \in W : \A y \in W : y <= x
  <2> HIDE DEF W
  <2>1. m + 1 \in Nat
    OBVIOUS
  <2> QED
    BY <1>6, <2>1, Greatest
<1>8. Heaviest \in W /\ \A y \in W : y <= Heaviest
  <2>1. Heaviest = CHOOSE x \in W : \A y \in W : x >= y
    BY DEF Heaviest, Max
  <2>2. \A x, y \in W : y <= x <=> x >= y
    BY <1>6
  <2> HIDE DEF W
  <2> QED
    BY <1>7, <2>1, <2>2
<1>9. 1 <= Heaviest
  BY <1>8
<1>10. Heaviest \in Nat
  BY <1>6, <1>8
<1>11. \A i \in DOMAIN Shares : \A b \in Places : Shares[i][b] \in W
  OBVIOUS
<1> HIDE DEF W, F
<1>12. Heaviest \in Nat \ {0}
  BY <1>9, <1>10
<1>13. \A i \in DOMAIN Shares : \A b \in Places : Shares[i][b] <= Heaviest
  BY <1>8, <1>11
<1> QED
  BY <1>12, <1>13

\* A weight counts as one at least (NewWeightedRoundRobin), and no more than the heaviest.
LEMMA WeightsAre ==
    ASSUME share \in DOMAIN Shares, NEW b \in Places
    PROVE  Weight(b) \in Nat /\ 1 <= Weight(b) /\ Weight(b) <= Heaviest
<1> DEFINE v == Shares[share][b]
<1>1. v \in Nat /\ v <= Heaviest /\ Heaviest \in Nat /\ 1 <= Heaviest
  BY PlacesAre, HeaviestIs
<1>2. Weight(b) = CHOOSE x \in {1, v} : \A y \in {1, v} : x >= y
  BY DEF Weight, Max
<1> HIDE DEF v
<1>3. Weight(b) \in {1, v} /\ \A y \in {1, v} : Weight(b) >= y
  <2>1. \E x \in {1, v} : \A y \in {1, v} : x >= y
    BY <1>1
  <2> QED
    BY <1>2, <2>1
<1> QED
  BY <1>1, <1>3

\* Of the candidates one is the richest (WeightedRoundRobin.Select).
LEMMA RichestIs ==
    ASSUME NEW C \in Candidates, NEW c \in [Places -> Int]
    PROVE  /\ Richest(C, c) \in C
           /\ \A a \in C : c[a] <= c[Richest(C, c)]
<1> DEFINE Best(T, b) == \A a \in T \ {b} : c[a] < c[b] \/ (c[a] = c[b] /\ b < a)
           F == {T \in SUBSET Places : T = {} \/ \E b \in T : Best(T, b)}
<1>0. \A a \in Places : c[a] \in Int /\ a \in Int
  BY DEF Places
<1>1. {} \in F
  OBVIOUS
<1>2. \A T \in F : \A x \in Places \ T : T \cup {x} \in F
  <2> SUFFICES ASSUME NEW T \in F, NEW x \in Places \ T PROVE \E b \in T \cup {x} : Best(T \cup {x}, b)
    OBVIOUS
  <2>1. CASE T = {}
    BY <2>1
  <2>2. CASE T # {}
    <3>1. PICK b \in T : Best(T, b)
      BY <2>2
    <3>2. b # x /\ b \in Places
      OBVIOUS
    <3>3. CASE c[x] < c[b] \/ (c[x] = c[b] /\ b < x)
      <4>1. Best(T \cup {x}, b)
        BY <3>1, <3>3
      <4> QED
        BY <4>1
    <3>4. CASE ~(c[x] < c[b] \/ (c[x] = c[b] /\ b < x))
      <4>1. c[b] < c[x] \/ (c[b] = c[x] /\ x < b)
        BY <1>0, <3>2, <3>4
      <4>2. ASSUME NEW a \in T PROVE c[a] < c[x] \/ (c[a] = c[x] /\ x < a)
        <5>1. a = b \/ c[a] < c[b] \/ (c[a] = c[b] /\ b < a)
          BY <3>1
        <5> QED
          BY <1>0, <3>2, <4>1, <5>1
      <4>3. Best(T \cup {x}, x)
        BY <4>2
      <4> QED
        BY <4>3
    <3> QED
      BY <3>3, <3>4
  <2> QED
    BY <2>1, <2>2
<1>3. C \in F
  <2> HIDE DEF F
  <2>1. F \in SUBSET SUBSET Places
    BY DEF F
  <2>2. F = SUBSET Places
    BY <1>1, <1>2, <2>1, PlacesAre, Gathering
  <2> QED
    BY <2>2 DEF Candidates
<1>4. C # {} /\ C \subseteq Places
  BY DEF Candidates
<1>5. Richest(C, c) \in C /\ Best(C, Richest(C, c))
  <2>1. Richest(C, c) = CHOOSE b \in C : Best(C, b)
    BY DEF Richest
  <2> HIDE DEF Best
  <2>2. \E b \in C : Best(C, b)
    BY <1>3, <1>4
  <2> QED
    BY <2>1, <2>2
<1>6. ASSUME NEW a \in C PROVE c[a] <= c[Richest(C, c)]
  <2>1. a = Richest(C, c) \/ c[a] < c[Richest(C, c)] \/ c[a] = c[Richest(C, c)]
    BY <1>5
  <2>2. c[a] \in Int /\ c[Richest(C, c)] \in Int
    BY <1>0, <1>4, <1>5
  <2> QED
    BY <2>1, <2>2
<1> QED
  BY <1>5, <1>6

\* However many backends are put together, their credit leaves room for the others: k of
\* n have at most k(n - k) times the heaviest weight.
RoomFor(A) == Heaviest * (Cardinality(A) * (PoolSize - Cardinality(A)))

\* The credits cancel out, and any set of backends keeps within its room.  That of single
\* backends alone would not be inductive: what the richest can have depends on what the
\* others have together.
Credits ==
    /\ credit \in [Places -> Int] /\ share \in DOMAIN Shares
    /\ SumFunctionOnSet(credit, Places) = 0
    /\ \A A \in SUBSET Places : SumFunctionOnSet(credit, A) <= RoomFor(A)

\* What a charge does to the credit of some: the candidates among them get their weights,
\* and the richest pays for all (WeightedRoundRobin.Select).
LEMMA ChargedSums ==
    ASSUME Credits, NEW C \in Candidates, Charge(C), NEW A \in SUBSET Places
    PROVE  LET r == Richest(C, Raised(C))
               w == [b \in Places |-> Weight(b)]
           IN  /\ credit' \in [Places -> Int]
               /\ SumFunctionOnSet(credit', A)
                      = (SumFunctionOnSet(credit, A) + SumFunctionOnSet(w, C \cap A))
                        - IF r \in A THEN SumFunctionOnSet(w, C) ELSE 0
<1> DEFINE r == Richest(C, Raised(C))
           w == [b \in Places |-> Weight(b)]
           z == [b \in Places |-> IF b \in C THEN Weight(b) ELSE 0]
           up == Raised(C)
<1>1. /\ IsFiniteSet(Places) /\ credit \in [Places -> Int] /\ w \in [Places -> Int]
      /\ z \in [Places -> Int] /\ up \in [Places -> Int] /\ C \subseteq Places
      /\ \A b \in Places : up[b] = credit[b] + z[b]
  BY PlacesAre, WeightsAre DEF Credits, Raised, Candidates
<1>2. r \in Places /\ credit' = [up EXCEPT ![r] = up[r] - SumFunctionOnSet(w, C)]
  <2>1. r \in C
    BY <1>1, RichestIs
  <2> QED
    BY <1>1, <2>1 DEF Charge, TotalWeight
<1>3. \A b \in Places : (b \in C => z[b] = w[b]) /\ (b \notin C => z[b] = 0)
  OBVIOUS
<1> HIDE DEF r, w, z, up
<1>4. SumFunctionOnSet(w, C) \in Int
  BY <1>1, SumMore
<1>5. credit' \in [Places -> Int]
  BY <1>1, <1>2, <1>4
<1>6. SumFunctionOnSet(up, A) = SumFunctionOnSet(credit, A) + SumFunctionOnSet(z, A)
  BY <1>1, SumPlus
<1>7. SumFunctionOnSet(z, A) = SumFunctionOnSet(w, C \cap A)
  <2> DEFINE J == C \cap A
             N == A \ C
  <2>1. J \in SUBSET Places /\ N \in SUBSET (Places \ J) /\ J \cup N = A
        /\ (\A b \in J : z[b] = w[b]) /\ (\A b \in N : z[b] = 0) /\ N \in SUBSET Places
    BY <1>1, <1>3
  <2> HIDE DEF J, N
  <2>2. SumFunctionOnSet(z, J \cup N) = SumFunctionOnSet(z, J) + SumFunctionOnSet(z, N)
    BY <1>1, <2>1, SumJoin
  <2>3. SumFunctionOnSet(z, N) = 0 * Cardinality(N)
    BY <1>1, <2>1, SumConstant
  <2>4. IsFiniteSet(N)
    BY <1>1, <2>1, FS_Subset
  <2>5. Cardinality(N) \in Nat
    BY <2>4, FS_CardinalityType
  <2>6. SumFunctionOnSet(z, J) = SumFunctionOnSet(w, J)
    BY <1>1, <2>1, SumSame
  <2>7. SumFunctionOnSet(z, J) \in Int
    BY <1>1, <2>1, SumMore
  <2>8. 0 * Cardinality(N) = 0
    BY <2>5
  <2>9. SumFunctionOnSet(z, A) = SumFunctionOnSet(w, J)
    <3>1. SumFunctionOnSet(z, J \cup N) = SumFunctionOnSet(w, J)
      BY <2>2, <2>3, <2>6, <2>7, <2>8
    <3>2. A = J \cup N
      BY <2>1
    <3> QED
      BY <3>1, <3>2, Zenon
  <2> QED
    BY <2>9 DEF J
<1>8. SumFunctionOnSet(credit', A)
        = SumFunctionOnSet(up, A) - IF r \in A THEN SumFunctionOnSet(w, C) ELSE 0
  <2>0. SumFunctionOnSet(up, A) \in Int
    BY <1>1, SumMore
  <2>1. CASE r \in A
    <3>1. \A b \in A \ {r} : credit'[b] = up[b]
      BY <1>1, <1>2
    <3>2. credit'[r] = up[r] - SumFunctionOnSet(w, C) /\ up[r] \in Int
      BY <1>1, <1>2
    <3>3. SumFunctionOnSet(credit', A) = SumFunctionOnSet(up, A) - up[r] + credit'[r]
      BY <1>1, <1>5, <2>1, <3>1, SumChange
    <3> QED
      BY <1>4, <2>0, <2>1, <3>2, <3>3
  <2>2. CASE r \notin A
    <3>1. \A b \in A : credit'[b] = up[b]
      BY <1>1, <1>2, <2>2
    <3>2. SumFunctionOnSet(credit', A) = SumFunctionOnSet(up, A)
      BY <1>1, <1>5, <3>1, SumSame
    <3> QED
      BY <2>0, <2>2, <3>2
  <2> QED
    BY <2>1, <2>2
<1>9. SumFunctionOnSet(credit, A) \in Int /\ SumFunctionOnSet(z, A) \in Int
  BY <1>1, SumMore
<1>10. SumFunctionOnSet(credit', A)
        = (SumFunctionOnSet(credit, A) + SumFunctionOnSet(w, C \cap A))
          - IF r \in A THEN SumFunctionOnSet(w, C) ELSE 0
  <2>1. SumFunctionOnSet(up, A) = SumFunctionOnSet(credit, A) + SumFunctionOnSet(w, C \cap A)
    BY <1>6, <1>7, Zenon
  <2> QED
    BY <1>8, <2>1, Zenon
<1> QED
  BY <1>5, <1>10 DEF r, w

\* A charge keeps within the room: the candidates that are not charged are no richer than
\* the one that is (WeightedRoundRobin.Select).
LEMMA ChargeKeepsRoom ==
    ASSUME Credits, NEW C \in Candidates, Charge(C), NEW A \in SUBSET Places
    PROVE  SumFunctionOnSet(credit', A) <= RoomFor(A)
<1> DEFINE r == Richest(C, Raised(C))
           w == [b \in Places |-> Weight(b)]
           J == C \cap A
           up == Raised(C)
<1>1. /\ IsFiniteSet(Places) /\ credit \in [Places -> Int] /\ w \in [Places -> Int]
      /\ up \in [Places -> Int] /\ C \in SUBSET Places /\ J \in SUBSET Places
      /\ (\A b \in C : up[b] = credit[b] + w[b])
      /\ (\A b \in Places : w[b] \in Nat /\ w[b] <= Heaviest) /\ Heaviest \in Nat
  BY PlacesAre, WeightsAre, HeaviestIs DEF Credits, Raised, Candidates
<1>2. r \in C /\ (\A a \in C : up[a] <= up[r]) /\ r \in Places
  BY <1>1, RichestIs
<1>3. SumFunctionOnSet(credit', A)
        = (SumFunctionOnSet(credit, A) + SumFunctionOnSet(w, J))
          - IF r \in A THEN SumFunctionOnSet(w, C) ELSE 0
  BY ChargedSums
<1>4. \A B \in SUBSET Places : SumFunctionOnSet(credit, B) <= RoomFor(B)
  BY DEF Credits
<1> HIDE DEF w, up
<1>5. /\ SumFunctionOnSet(w, J) \in Int /\ SumFunctionOnSet(w, C) \in Int
      /\ SumFunctionOnSet(credit, A) \in Int /\ SumFunctionOnSet(credit, J) \in Int
  BY <1>1, SumMore
<1>6. CASE r \in A
  <2> DEFINE N == C \ J
  <2>1. N \in SUBSET (Places \ J) /\ N \in SUBSET Places
    BY <1>1
  <2>2. SumFunctionOnSet(w, C) = SumFunctionOnSet(w, J) + SumFunctionOnSet(w, N)
    <3> HIDE DEF N
    <3>1. SumFunctionOnSet(w, J \cup N) = SumFunctionOnSet(w, J) + SumFunctionOnSet(w, N)
      BY <1>1, <2>1, SumJoin
    <3>2. C = J \cup N
      BY DEF N
    <3> QED
      BY <3>1, <3>2, Zenon
  <2>3. SumFunctionOnSet(w, N) >= 0 /\ SumFunctionOnSet(w, N) \in Int
    <3> DEFINE zero == [b \in Places |-> 0]
    <3>1. zero \in [Places -> Int] /\ (\A b \in N : zero[b] = 0) /\ (\A b \in N : zero[b] <= w[b])
      BY <1>1, <2>1
    <3> HIDE DEF zero, N
    <3>2. SumFunctionOnSet(zero, N) <= SumFunctionOnSet(w, N)
      BY <1>1, <2>1, <3>1, SumAtMost
    <3>3. SumFunctionOnSet(zero, N) = 0 * Cardinality(N)
      BY <1>1, <2>1, <3>1, SumConstant
    <3>4. IsFiniteSet(N)
      BY <1>1, <2>1, FS_Subset
    <3>5. 0 * Cardinality(N) = 0
      BY <3>4, FS_CardinalityType
    <3>6. SumFunctionOnSet(w, N) \in Int
      BY <1>1, <2>1, SumMore
    <3> QED
      BY <3>2, <3>3, <3>5, <3>6
  <2> DEFINE a == SumFunctionOnSet(credit, A)
             j == SumFunctionOnSet(w, J)
             c == SumFunctionOnSet(w, C)
  <2>4. SumFunctionOnSet(credit', A) = (a + j) - c
    BY <1>3, <1>6
  <2>5. a <= RoomFor(A) /\ a \in Int /\ j \in Int /\ c \in Int /\ c >= j
    BY <1>4, <1>5, <2>2, <2>3
  <2>6. RoomFor(A) \in Int
    <3>1. IsFiniteSet(A)
      BY <1>1, FS_Subset
    <3> QED
      BY <1>1, <3>1, FS_CardinalityType, PlacesAre DEF RoomFor
  <2> HIDE DEF a, j, c
  <2> QED
    BY <2>4, <2>5, <2>6
<1>7. CASE r \notin A
  <2>1. SumFunctionOnSet(credit', A) = SumFunctionOnSet(credit, A) + SumFunctionOnSet(w, J)
    BY <1>3, <1>5, <1>7
  <2>2. CASE J = {}
    <3>1. SumFunctionOnSet(w, J) = 0
      BY <1>1, <2>2, SumMore
    <3> QED
      BY <1>4, <1>5, <2>1, <3>1
  <2>3. CASE J # {}
    <3> DEFINE k == Cardinality(A)
               j == Cardinality(J)
               s == SumFunctionOnSet(credit, A)
               cj == SumFunctionOnSet(credit, J)
               wj == SumFunctionOnSet(w, J)
               N == A \ J
               with == A \cup {r}
    <3>1. IsFiniteSet(A) /\ IsFiniteSet(J) /\ J \subseteq A
      BY <1>1, FS_Subset
    <3>2. k \in Nat /\ j \in Nat \ {0} /\ j <= k
      BY <2>3, <3>1, FS_CardinalityType, FS_EmptySet, FS_Subset
    <3>3. with \in SUBSET Places /\ Cardinality(with) = k + 1
          /\ SumFunctionOnSet(credit, with) = credit[r] + s
      <4>1. Cardinality(with) = k + 1
        BY <1>7, <3>1, FS_AddElement
      <4> QED
        BY <1>1, <1>2, <1>7, <4>1, SumMore
    <3>4. N \in SUBSET Places /\ N \in SUBSET (Places \ J) /\ IsFiniteSet(N)
      BY <1>1, FS_Subset
    <3>5. Cardinality(N) = k - j /\ s = cj + SumFunctionOnSet(credit, N)
      <4> HIDE DEF N, J
      <4>1. J \cup N = A /\ J \cap N = {}
        BY <3>1 DEF N
      <4>2. SumFunctionOnSet(credit, J \cup N) = cj + SumFunctionOnSet(credit, N)
        BY <1>1, <3>4, SumJoin
      <4>3. Cardinality(J \cup N) = Cardinality(J) + Cardinality(N) - Cardinality(J \cap N)
        BY <3>1, <3>4, FS_Union
      <4>4. Cardinality(J \cup N) = k
        BY <4>1, Zenon
      <4>5. Cardinality(J \cap N) = 0
        BY <4>1, FS_EmptySet, Zenon
      <4>6. Cardinality(N) \in Nat
        BY <3>4, FS_CardinalityType
      <4>7. SumFunctionOnSet(credit, J \cup N) = s
        BY <4>1, Zenon
      <4>8. Cardinality(N) = k - j
        BY <3>2, <4>3, <4>4, <4>5, <4>6
      <4>9. s = cj + SumFunctionOnSet(credit, N)
        BY <4>2, <4>7, Zenon
      <4> QED
        BY <4>8, <4>9
    <3>6. cj + wj <= (credit[r] + w[r]) * j
      <4> DEFINE top == [b \in Places |-> up[r]]
                 both == [b \in Places |-> credit[b] + w[b]]
      <4>1. /\ top \in [Places -> Int] /\ both \in [Places -> Int]
            /\ (\A b \in J : top[b] = up[r]) /\ (\A b \in J : both[b] <= top[b])
            /\ (\A b \in Places : both[b] = credit[b] + w[b]) /\ up[r] \in Int
        BY <1>1, <1>2
      <4> HIDE DEF top, both, J
      <4>2. SumFunctionOnSet(both, J) = cj + wj
        BY <1>1, <4>1, SumPlus
      <4>3. SumFunctionOnSet(both, J) <= SumFunctionOnSet(top, J)
        BY <1>1, <4>1, SumAtMost
      <4>4. SumFunctionOnSet(top, J) = up[r] * j
        BY <1>1, <4>1, SumConstant
      <4>5. up[r] = credit[r] + w[r]
        BY <1>1, <1>2
      <4> QED
        BY <4>2, <4>3, <4>4, <4>5
    <3>7. wj <= Heaviest * j
      <4> DEFINE top == [b \in Places |-> Heaviest]
      <4>1. /\ top \in [Places -> Int] /\ (\A b \in J : top[b] = Heaviest)
            /\ (\A b \in J : w[b] <= top[b])
        BY <1>1
      <4> HIDE DEF top, J
      <4>2. wj <= SumFunctionOnSet(top, J)
        BY <1>1, <4>1, SumAtMost
      <4>3. SumFunctionOnSet(top, J) = Heaviest * j
        BY <1>1, <4>1, SumConstant
      <4> QED
        BY <4>2, <4>3
    <3>8. s + credit[r] <= Heaviest * ((k + 1) * (PoolSize - (k + 1)))
      <4>1. SumFunctionOnSet(credit, with) <= RoomFor(with)
        BY <1>4, <3>3
      <4>2. credit[r] \in Int /\ s \in Int
        BY <1>1, <1>2, <1>5
      <4> HIDE DEF with, s, k
      <4>3. RoomFor(with) = Heaviest * ((k + 1) * (PoolSize - (k + 1)))
        BY <3>3 DEF RoomFor
      <4> QED
        BY <3>3, <4>1, <4>2, <4>3
    <3>9. s - cj <= Heaviest * ((k - j) * (PoolSize - (k - j)))
      <4>1. SumFunctionOnSet(credit, N) <= RoomFor(N)
        BY <1>4, <3>4
      <4>2. SumFunctionOnSet(credit, N) \in Int /\ cj \in Int
        BY <1>1, <1>5, <3>4, SumMore
      <4> HIDE DEF N, s, k, j, cj
      <4>3. RoomFor(N) = Heaviest * ((k - j) * (PoolSize - (k - j)))
        BY <3>5 DEF RoomFor
      <4> QED
        BY <3>5, <4>1, <4>2, <4>3
    <3>10. /\ s \in Int /\ cj \in Int /\ wj \in Int /\ credit[r] \in Int /\ w[r] \in Int
           /\ w[r] <= Heaviest /\ PoolSize \in Int /\ k \in Int
      BY <1>1, <1>2, <1>5, <3>2, PlacesAre
    <3> HIDE DEF s, cj, wj, k, j
    <3>11. s + wj <= Heaviest * (k * (PoolSize - k))
      BY <1>1, <3>2, <3>6, <3>7, <3>8, <3>9, <3>10, ChargeArithmetic
    <3> QED
      BY <2>1, <3>11 DEF RoomFor, s, wj, k
  <2> QED
    BY <2>2, <2>3
<1> QED
  BY <1>6, <1>7

\* Credit neither comes from nor goes to anywhere else (WeightedRoundRobin.Select).
LEMMA ChargeCancels ==
    ASSUME Credits, NEW C \in Candidates, Charge(C)
    PROVE  credit' \in [Places -> Int] /\ SumFunctionOnSet(credit', Places) = 0
<1> DEFINE r == Richest(C, Raised(C))
           w == [b \in Places |-> Weight(b)]
<1>1. /\ IsFiniteSet(Places) /\ credit \in [Places -> Int] /\ w \in [Places -> Int]
      /\ Raised(C) \in [Places -> Int] /\ C \in SUBSET Places
  BY PlacesAre, WeightsAre DEF Credits, Raised, Candidates
<1>2. r \in Places /\ Places \in SUBSET Places
  BY <1>1, RichestIs
<1>3. /\ credit' \in [Places -> Int]
      /\ SumFunctionOnSet(credit', Places)
           = (SumFunctionOnSet(credit, Places) + SumFunctionOnSet(w, C \cap Places))
             - IF r \in Places THEN SumFunctionOnSet(w, C) ELSE 0
  BY <1>2, ChargedSums
<1>4. C \cap Places = C
  BY <1>1
<1>5. SumFunctionOnSet(w, C \cap Places) = SumFunctionOnSet(w, C)
  BY <1>4, Zenon
<1> HIDE DEF w, r
<1>6. SumFunctionOnSet(w, C) \in Int /\ SumFunctionOnSet(credit, Places) = 0
  BY <1>1, SumMore DEF Credits
<1> QED
  BY <1>2, <1>3, <1>5, <1>6

\* A new strategy gives every backend a credit of zero (NewWeightedRoundRobin).
LEMMA CreditsStart == TurnsInit => Credits
<1> SUFFICES ASSUME TurnsInit PROVE Credits
  OBVIOUS
<1>1. /\ credit \in [Places -> Int] /\ share \in DOMAIN Shares /\ IsFiniteSet(Places)
      /\ \A b \in Places : credit[b] = 0
  BY PlacesAre DEF TurnsInit
<1>2. ASSUME NEW A \in SUBSET Places
      PROVE  SumFunctionOnSet(credit, A) = 0 /\ 0 <= RoomFor(A)
  <2> DEFINE k == Cardinality(A)
  <2>1. k \in Nat /\ k <= PoolSize /\ PoolSize \in Nat /\ Heaviest \in Nat
    BY PlacesAre, HeaviestIs, FS_Subset, FS_CardinalityType
  <2>2. SumFunctionOnSet(credit, A) = 0 * k
    BY <1>1, SumConstant
  <2> HIDE DEF k
  <2>3. 0 * k = 0
    BY <2>1
  <2>4. k * (PoolSize - k) \in Nat
    BY <2>1
  <2> DEFINE p == k * (PoolSize - k)
  <2> HIDE DEF p
  <2>5. p \in Nat => 0 <= Heaviest * p
    BY <2>1
  <2> QED
    BY <2>2, <2>3, <2>4, <2>5 DEF RoomFor, p, k
<1> QED
  BY <1>1, <1>2 DEF Credits

\* The credits cancel out and stay bounded, for every pool, whatever the weights and
\* however the candidates and the configurations change (WeightedRoundRobin.Select).
THEOREM CreditsStayBounded == TurnsSpec => []CreditsBounded
<1>1. Credits /\ [TurnsNext]_turnsVars => Credits'
  <2> SUFFICES ASSUME Credits, [TurnsNext]_turnsVars PROVE Credits'
    OBVIOUS
  <2>1. ASSUME NEW C \in Candidates, Charge(C) PROVE Credits'
    <3>1. share' = share
      BY <2>1 DEF Charge
    <3>2. credit' \in [Places -> Int] /\ SumFunctionOnSet(credit', Places) = 0
      BY <2>1, ChargeCancels
    <3>3. \A A \in SUBSET Places : SumFunctionOnSet(credit', A) <= RoomFor(A)
      BY <2>1, ChargeKeepsRoom
    <3> QED
      BY <3>1, <3>2, <3>3 DEF Credits, RoomFor
  <2>2. CASE credit' = credit /\ share' \in DOMAIN Shares
    BY <2>2 DEF Credits, RoomFor
  <2>3. ASSUME NEW C \in Candidates, NEW first \in BOOLEAN, TakeTurn(C, first) PROVE Credits'
    BY <2>2, <2>3 DEF TakeTurn, Credits
  <2>4. CASE Reweigh
    <3>1. share' \in DOMAIN Shares
      BY <2>4, PlacesAre DEF Reweigh, Credits
    <3> QED
      BY <2>2, <2>4, <3>1 DEF Reweigh
  <2>5. CASE UNCHANGED turnsVars
    BY <2>2, <2>5 DEF turnsVars, Credits
  <2> QED
    BY <2>1, <2>3, <2>4, <2>5 DEF TurnsNext
<1>2. Credits => CreditsBounded
  <2> SUFFICES ASSUME Credits, NEW b \in Places
               PROVE  /\ credit[b] <= Heaviest * (PoolSize - 1)
                      /\ -credit[b] <= Heaviest * (PoolSize - 1)
    BY DEF Credits, CreditsBounded
  <2> DEFINE O == {b}
             R == Places \ {b}
  <2>1. /\ IsFiniteSet(Places) /\ O \in SUBSET Places /\ R \in SUBSET Places
        /\ credit \in [Places -> Int] /\ PoolSize \in Nat /\ Heaviest \in Nat /\ b \in Places \ R
    BY PlacesAre, HeaviestIs DEF Credits
  <2>2. Cardinality(O) = 1 /\ Cardinality(R) = PoolSize - 1
    BY <2>1, PlacesAre, FS_Singleton, FS_RemoveElement
  <2>3. SumFunctionOnSet(credit, O) = credit[b]
    <3>1. {} \in SUBSET Places /\ b \in Places \ {} /\ {} \cup {b} = O
      OBVIOUS
    <3> HIDE DEF O
    <3>2. SumFunctionOnSet(credit, {} \cup {b}) = credit[b] + SumFunctionOnSet(credit, {})
          /\ SumFunctionOnSet(credit, {}) = 0
      BY <2>1, <3>1, SumMore
    <3>3. SumFunctionOnSet(credit, {} \cup {b}) = SumFunctionOnSet(credit, O)
      BY <3>1, Zenon
    <3> QED
      BY <2>1, <3>2, <3>3
  <2>4. SumFunctionOnSet(credit, R) = -credit[b]
    <3>1. R \cup {b} = Places
      OBVIOUS
    <3> HIDE DEF R
    <3>2. SumFunctionOnSet(credit, R \cup {b}) = credit[b] + SumFunctionOnSet(credit, R)
          /\ SumFunctionOnSet(credit, R) \in Int
      BY <2>1, SumMore
    <3>3. SumFunctionOnSet(credit, R \cup {b}) = SumFunctionOnSet(credit, Places)
      BY <3>1, Zenon
    <3>4. SumFunctionOnSet(credit, Places) = 0
      BY DEF Credits
    <3> QED
      BY <2>1, <3>2, <3>3, <3>4
  <2>5. SumFunctionOnSet(credit, O) <= RoomFor(O) /\ SumFunctionOnSet(credit, R) <= RoomFor(R)
    BY <2>1 DEF Credits
  <2> HIDE DEF O, R
  <2>6. /\ RoomFor(O) = Heaviest * (1 * (PoolSize - 1))
        /\ RoomFor(R) = Heaviest * ((PoolSize - 1) * (PoolSize - (PoolSize - 1)))
    BY <2>2 DEF RoomFor
  <2>7. 1 * (PoolSize - 1) = PoolSize - 1
        /\ (PoolSize - 1) * (PoolSize - (PoolSize - 1)) = PoolSize - 1
    BY <2>1
  <2> QED
    BY <2>3, <2>4, <2>5, <2>6, <2>7
<1> QED
  BY <1>1, <1>2, CreditsStart, PTL DEF TurnsSpec

-----------------------------------------------------------------------------
(* Placement by load.                                                      *)

\* The strategies that place by load, by themselves.
PlacementSpec == PlacementInit /\ [][PlacementNext]_placementVars

\* The stages of a request.
AskStages == {"idle", "adding", "home", "testing", "reading", "comparing", "chosen", "serving"}
\* What a request holds.
Asks == [at : AskStages, among : SUBSET Servers, keyed : BOOLEAN, rank : Ranks \cup {Unranked},
         left : SUBSET Servers, read : Int, goes : Servers \cup {0}, room : BOOLEAN]

\* The candidates already tested come before the others in the key's order.
Ordered(q) == \A b \in q.among \ q.left : \A a \in q.left : q.rank[b] < q.rank[a]

\* What a request holds, by its stage.
Shaped(q) ==
    /\ Choosing(q) => q.among # {}
    /\ q.at \in {"adding", "home", "testing"} => Factor >= 100 /\ q.keyed /\ q.rank \in Ranks
    /\ q.at \in {"adding", "testing"} => q.left \subseteq q.among /\ q.left # {}
    /\ q.at = "testing" => Ordered(q)
    /\ q.at \in {"reading", "comparing"} =>
          ~q.keyed /\ q.goes \in q.among /\ \E first \in q.among \ {q.goes} : q.left = {first}
    /\ q.at = "chosen" => q.goes \in q.among
    /\ q.at = "serving" => q.goes \in Servers

\* x is y, but for m moves.
Near(x, y, m) == x <= y + m /\ y <= x + m
\* The requests in flight at some backends.
Served(sv, C) == SumFunctionOnSet(sv, C)
\* A backend has no room for one more (SelectFor).
FullIn(sv, C, b) == sv[b] >= Bound(b, C, Served(sv, C) + 1)

\* What a request knows of the counters, m moves of them after it began to choose, where
\* sv are the counters now.  While it adds them up: the sum so far.
KnownAdding(q, m, sv) == q.at = "adding" => Near(q.read, Served(sv, q.among \ q.left), m)
\* Once they are added up: the sum.
KnownHome(q, m, sv) == q.at \in {"home", "testing"} => Near(q.read, Served(sv, q.among), m)
\* While it looks for room: if nothing moved, those it has tested are full.
KnownTesting(q, m, sv) ==
    q.at = "testing" /\ m = 0 => \A b \in q.among \ q.left : FullIn(sv, q.among, b)
\* Between two reads: the counter it has read.
KnownComparing(q, m, sv) == q.at = "comparing" => Near(q.read, sv[q.goes], m)
\* When it has chosen: it found no room only if a counter moved,
KnownSpill(q, m) == q.at = "chosen" /\ Factor > 0 /\ q.keyed /\ ~q.room => m > 0
\* or the backend it found has room, but for the moves,
KnownRoom(q, m, sv) ==
    q.at = "chosen" /\ Factor > 0 /\ q.keyed /\ q.room =>
        sv[q.goes] < Bound(q.goes, q.among, Served(sv, q.among) + m + 1) + m
\* and is the first that has, if there was none,
KnownFirst(q, m, sv) ==
    q.at = "chosen" /\ Factor > 0 /\ q.keyed /\ q.room /\ m = 0 =>
        \A b \in q.among : q.rank[b] < q.rank[q.goes] => FullIn(sv, q.among, b)
\* or it is no busier than all the others, but for the moves.
KnownLess(q, m, sv) ==
    q.at = "chosen" /\ ~q.keyed /\ Cardinality(q.among) > 1 =>
        \E b \in q.among \ {q.goes} : sv[q.goes] <= sv[b] + m

\* All that a request knows.
Known(q, m, sv) ==
    /\ KnownAdding(q, m, sv) /\ KnownHome(q, m, sv) /\ KnownTesting(q, m, sv)
    /\ KnownComparing(q, m, sv) /\ KnownSpill(q, m) /\ KnownRoom(q, m, sv)
    /\ KnownFirst(q, m, sv) /\ KnownLess(q, m, sv)

\* The types of the three variables.
PlacementTypeOK ==
    /\ serving \in [Servers -> Int] /\ ask \in [Askers -> Asks] /\ moves \in [Askers -> Nat]

\* The requests a backend serves.
On(b) == {r \in Askers : ask[r].at = "serving" /\ ask[r].goes = b}
\* A counter is the number of the requests its backend serves (Acquire, Release); that none
\* is below zero is what makes the bounds add up to more than the requests in flight.
CountersExact == \A b \in Servers : serving[b] = Cardinality(On(b))
\* Every request holds what its stage says.
AllShaped == \A r \in Askers : Shaped(ask[r])
\* What moves before a request begins to choose does not count.
AtRest == \A r \in Askers : ~Choosing(ask[r]) => moves[r] = 0
\* Requests know what they know for as long as the moves are counted.
AllKnown == \A r \in Askers : moves[r] <= Cardinality(Askers) => Known(ask[r], moves[r], serving)

\* The inductive invariant.
Placing == PlacementTypeOK /\ AllShaped /\ CountersExact /\ AtRest /\ AllKnown

\* What a quotient is between (boundFor divides by the total weight).
LEMMA Dividing ==
    ASSUME NEW n \in Nat \ {0}, NEW x \in Int
    PROVE  /\ x \div n \in Int
           /\ n * (x \div n) <= x /\ x < n * (x \div n) + n
<1>1. x \div n \in Int
  OBVIOUS
<1>2. n * (x \div n) <= x /\ x < n * (x \div n) + n
  OBVIOUS
<1> QED
  BY <1>1, <1>2

\* Quotients grow with what is divided.
LEMMA DivMonotone ==
    ASSUME NEW n \in Nat \ {0}, NEW x \in Int, NEW y \in Int, x <= y
    PROVE  x \div n <= y \div n
<1> DEFINE a == x \div n
           b == y \div n
<1>1. a \in Int /\ b \in Int /\ n * a <= x /\ y < n * b + n
  BY Dividing
<1> HIDE DEF a, b
<1> SUFFICES ASSUME b + 1 <= a PROVE FALSE
  BY <1>1 DEF a, b
<1>2. n * (b + 1) <= n * a
  BY <1>1
<1>3. n * (b + 1) = n * b + n
  BY <1>1
<1> QED
  BY <1>1, <1>2, <1>3

\* A quotient rounded up is at least the fraction (boundFor).
LEMMA CeilingIs ==
    ASSUME NEW n \in Nat \ {0}, NEW x \in Int
    PROVE  Ceiling(x, n) \in Int /\ x <= n * Ceiling(x, n)
<1> DEFINE y == (x + n) - 1
           a == y \div n
<1>1. y \in Int /\ Ceiling(x, n) = a
  BY DEF Ceiling
<1>2. a \in Int /\ y < n * a + n
  <2> HIDE DEF y
  <2> QED
    BY <1>1, Dividing
<1>3. n * a \in Int
  <2> HIDE DEF a
  <2> QED
    BY <1>2
<1> HIDE DEF a
<1> QED
  BY <1>1, <1>2, <1>3

\* Some backends have a total weight, and it is not zero.
LEMMA CapacityIs ==
    ASSUME NEW C \in SUBSET Servers, C # {}
    PROVE  TotalCapacity(C) \in Nat \ {0}
<1>1. /\ IsFiniteSet(Servers) /\ Capacity \in [Servers -> Int]
      /\ \A b \in Servers : Capacity[b] \in Nat \ {0}
  BY PlacementAssumption
<1>2. PICK b \in C : TRUE
  OBVIOUS
<1> DEFINE R == C \ {b}
           zero == [a \in Servers |-> 0]
<1>3. R \in SUBSET Servers /\ b \in Servers \ R /\ R \cup {b} = C
  OBVIOUS
<1>4. zero \in [Servers -> Int] /\ (\A a \in R : zero[a] = 0) /\ (\A a \in R : zero[a] <= Capacity[a])
  BY <1>1
<1> HIDE DEF R, zero
<1>5. SumFunctionOnSet(Capacity, R \cup {b}) = Capacity[b] + SumFunctionOnSet(Capacity, R)
      /\ SumFunctionOnSet(Capacity, R) \in Int
  BY <1>1, <1>3, SumMore
<1>6. SumFunctionOnSet(zero, R) <= SumFunctionOnSet(Capacity, R)
  BY <1>1, <1>3, <1>4, SumAtMost
<1>7. SumFunctionOnSet(zero, R) = 0 * Cardinality(R)
  BY <1>1, <1>3, <1>4, SumConstant
<1>8. 0 * Cardinality(R) = 0
  <2>1. IsFiniteSet(R)
    BY <1>1, <1>3, FS_Subset
  <2> QED
    BY <2>1, FS_CardinalityType
<1>9. SumFunctionOnSet(Capacity, R \cup {b}) = SumFunctionOnSet(Capacity, C)
  BY <1>3, Zenon
<1>10. Capacity[b] \in Nat \ {0}
  BY <1>1, <1>3
<1> QED
  BY <1>5, <1>6, <1>7, <1>8, <1>9, <1>10 DEF TotalCapacity

\* A bound is at least the backend's share of the load, and grows with the load (boundFor).
LEMMA BoundIs ==
    ASSUME NEW C \in SUBSET Servers, NEW b \in C, NEW x \in Int
    PROVE  /\ Bound(b, C, x) \in Int
           /\ (Factor * x) * Capacity[b] <= (100 * TotalCapacity(C)) * Bound(b, C, x)
           /\ \A y \in Int : x <= y => Bound(b, C, x) <= Bound(b, C, y)
<1> DEFINE n == 100 * TotalCapacity(C)
           w == Capacity[b]
           N(y) == (Factor * y) * w
<1>0. TotalCapacity(C) \in Nat \ {0} /\ w \in Nat \ {0} /\ Factor \in Nat
  BY CapacityIs, PlacementAssumption
<1>1. n \in Nat \ {0}
  BY <1>0
<1>2. \A y \in Int : N(y) \in Int
  BY <1>0
<1>3. \A y \in Int : Bound(b, C, y) = Ceiling(N(y), n)
  BY DEF Bound
<1>4. ASSUME NEW y \in Int, x <= y PROVE N(x) <= N(y)
  <2>1. Factor * x <= Factor * y /\ Factor * x \in Int /\ Factor * y \in Int
    BY <1>0, <1>4
  <2> DEFINE a == Factor * x
             c == Factor * y
  <2> HIDE DEF a, c, w
  <2>2. a <= c => a * w <= c * w
    BY <1>0, <2>1 DEF a, c
  <2> QED
    BY <2>1, <2>2 DEF a, c
<1> HIDE DEF n, w, N
<1>5. ASSUME NEW y \in Int, x <= y PROVE Bound(b, C, x) <= Bound(b, C, y)
  <2> DEFINE p == (N(x) + n) - 1
             q == (N(y) + n) - 1
  <2>1. p \in Int /\ q \in Int /\ p <= q
    BY <1>1, <1>2, <1>4, <1>5
  <2>2. Bound(b, C, x) = p \div n /\ Bound(b, C, y) = q \div n
    <3>1. N(x) + n - 1 = p /\ N(y) + n - 1 = q
      BY <1>1, <1>2
    <3>2. Ceiling(N(x), n) = p \div n /\ Ceiling(N(y), n) = q \div n
      BY <3>1, Zenon DEF Ceiling
    <3> QED
      BY <1>3, <3>2
  <2> HIDE DEF p, q
  <2>3. p \div n <= q \div n
    BY <1>1, <2>1, DivMonotone
  <2> QED
    BY <2>2, <2>3
<1>6. Bound(b, C, x) \in Int /\ N(x) <= n * Bound(b, C, x)
  BY <1>1, <1>2, <1>3, CeilingIs
<1> QED
  BY <1>5, <1>6 DEF N, n, w

\* "Some backend always has room, because the bounds add up to more than the requests in
\* flight" (SelectFor), whatever the weights, when the factor is 100 or more.
LEMMA SomeRoom ==
    ASSUME Factor >= 100, NEW sv \in [Servers -> Int], \A b \in Servers : sv[b] >= 0,
           NEW C \in SUBSET Servers, C # {}
    PROVE  \E b \in C : ~FullIn(sv, C, b)
<1> SUFFICES ASSUME \A b \in C : FullIn(sv, C, b) PROVE FALSE
  OBVIOUS
<1> DEFINE U == Served(sv, C)
           T == TotalCapacity(C)
           x == U + 1
           low == [b \in Servers |-> (Factor * x) * Capacity[b]]
           high == [b \in Servers |-> (100 * T) * sv[b]]
<1>1. /\ IsFiniteSet(Servers) /\ Capacity \in [Servers -> Int] /\ Factor \in Nat
      /\ \A b \in Servers : Capacity[b] \in Nat \ {0}
  BY PlacementAssumption
<1>2. T \in Nat \ {0}
  BY CapacityIs
<1>3. U \in Int
  BY <1>1, SumMore DEF Served
<1>4. U >= 0
  <2> DEFINE zero == [a \in Servers |-> 0]
  <2>1. zero \in [Servers -> Int] /\ (\A a \in C : zero[a] = 0) /\ (\A a \in C : zero[a] <= sv[a])
    OBVIOUS
  <2> HIDE DEF zero
  <2>2. SumFunctionOnSet(zero, C) <= SumFunctionOnSet(sv, C)
    BY <1>1, <2>1, SumAtMost
  <2>3. SumFunctionOnSet(zero, C) = 0 * Cardinality(C)
    BY <1>1, <2>1, SumConstant
  <2>4. IsFiniteSet(C)
    BY <1>1, FS_Subset
  <2>5. 0 * Cardinality(C) = 0
    BY <2>4, FS_CardinalityType
  <2> QED
    BY <1>3, <2>2, <2>3, <2>5 DEF Served
<1> HIDE DEF U, T
<1>5. x \in Nat \ {0} /\ Factor * x \in Int /\ 100 * T \in Int
  BY <1>1, <1>2, <1>3, <1>4
<1>6. \A b \in C : low[b] <= high[b]
  <2> SUFFICES ASSUME NEW b \in C PROVE low[b] <= high[b]
    OBVIOUS
  <2>1. x \in Int
    BY <1>5
  <2>2. FullIn(sv, C, b) /\ sv[b] \in Int
    OBVIOUS
  <2> DEFINE z == Bound(b, C, x)
  <2>3. z <= sv[b]
    BY <2>2, <2>1, BoundIs DEF FullIn, U
  <2> HIDE DEF x
  <2>4. z \in Int /\ (Factor * x) * Capacity[b] <= (100 * T) * z
    BY <2>1, BoundIs DEF T
  <2> HIDE DEF z
  <2>5. (100 * T) * z <= (100 * T) * sv[b]
    BY <1>2, <2>2, <2>3, <2>4
  <2>6. Capacity[b] \in Int /\ Factor * x \in Int
    BY <1>1, <2>1
  <2> QED
    BY <1>5, <2>2, <2>4, <2>5, <2>6
<1>7. low \in [Servers -> Int] /\ high \in [Servers -> Int]
      /\ (\A b \in Servers : low[b] = (Factor * x) * Capacity[b])
      /\ (\A b \in Servers : high[b] = (100 * T) * sv[b])
  BY <1>1, <1>5
<1> HIDE DEF low, high, x
<1>8. SumFunctionOnSet(low, C) <= SumFunctionOnSet(high, C)
  BY <1>1, <1>6, <1>7, SumAtMost
<1>9. SumFunctionOnSet(low, C) = (Factor * x) * T
  <2>1. SumFunctionOnSet(low, C) = (Factor * x) * SumFunctionOnSet(Capacity, C)
    BY <1>1, <1>5, <1>7, SumScale
  <2> QED
    BY <2>1 DEF T, TotalCapacity
<1>10. SumFunctionOnSet(high, C) = (100 * T) * U
  <2>1. SumFunctionOnSet(high, C) = (100 * T) * SumFunctionOnSet(sv, C)
    BY <1>1, <1>5, <1>7, SumScale
  <2> QED
    BY <2>1 DEF U, Served
<1>11. 100 * x <= Factor * x
  BY <1>1, <1>5
<1>12. (100 * x) * T <= (Factor * x) * T
  <2> DEFINE a == 100 * x
             c == Factor * x
  <2>1. a \in Int /\ c \in Int /\ a <= c
    BY <1>5, <1>11
  <2> HIDE DEF a, c
  <2>2. a * T <= c * T
    BY <1>2, <2>1
  <2> QED
    BY <2>2 DEF a, c
<1>13. (100 * x) * T = (100 * T) * U + 100 * T
  BY <1>2, <1>3 DEF x
<1>14. (100 * T) * U \in Int /\ (Factor * x) * T \in Int
  BY <1>2, <1>3, <1>5
<1> QED
  BY <1>2, <1>8, <1>9, <1>10, <1>12, <1>13, <1>14

\* The first backend in the order of the pool is one of them.
LEMMA FirstIs ==
    ASSUME NEW C \in SUBSET Servers, C # {}
    PROVE  FirstOf(C) \in C
<1>1. C \in SUBSET Nat
  BY PlacementAssumption
<1>2. \E b \in C : \A a \in C : b <= a
  BY <1>1, Least
<1> QED
  BY <1>2 DEF FirstOf

\* A key has a home among the candidates, the first of its order (Home).
LEMMA HomeIs ==
    ASSUME NEW rank \in Ranks, NEW C \in SUBSET Servers, C # {}
    PROVE  HomeOf(rank, C) \in C /\ \A a \in C : rank[HomeOf(rank, C)] <= rank[a]
<1> DEFINE P == {rank[a] : a \in C}
<1>1. rank \in [Servers -> Nat]
  BY PlacementAssumption
<1>2. P \in SUBSET Nat /\ P # {}
  BY <1>1
<1>3. \E p \in P : \A o \in P : p <= o
  <2> HIDE DEF P
  <2> QED
    BY <1>2, Least
<1>4. \E b \in C : \A a \in C : rank[b] <= rank[a]
  BY <1>3
<1> QED
  BY <1>4 DEF HomeOf

\* A counter that moves by one moves a sum of counters by one at most (Acquire, Release).
LEMMA SumShifts ==
    ASSUME NEW sv \in [Servers -> Int], NEW b \in Servers, NEW d \in {-1, 1}, NEW C \in SUBSET Servers
    PROVE  LET tv == [sv EXCEPT ![b] = sv[b] + d]
           IN  /\ tv \in [Servers -> Int] /\ Served(sv, C) \in Int /\ Served(tv, C) \in Int
               /\ Near(Served(tv, C), Served(sv, C), 1)
<1> DEFINE tv == [sv EXCEPT ![b] = sv[b] + d]
<1>1. /\ IsFiniteSet(Servers) /\ tv \in [Servers -> Int]
      /\ tv[b] = sv[b] + d /\ \A a \in Servers \ {b} : tv[a] = sv[a]
  BY PlacementAssumption
<1> HIDE DEF tv
<1>2. SumFunctionOnSet(sv, C) \in Int /\ SumFunctionOnSet(tv, C) \in Int
  BY <1>1, SumMore
<1>3. CASE b \in C
  <2>1. \A a \in C \ {b} : tv[a] = sv[a]
    BY <1>1
  <2>2. SumFunctionOnSet(tv, C) = SumFunctionOnSet(sv, C) - sv[b] + tv[b]
    BY <1>1, <1>3, <2>1, SumChange
  <2> QED
    BY <1>1, <1>2, <2>2 DEF Near, Served, tv
<1>4. CASE b \notin C
  <2>1. \A a \in C : tv[a] = sv[a]
    BY <1>1, <1>4
  <2>2. SumFunctionOnSet(tv, C) = SumFunctionOnSet(sv, C)
    BY <1>1, <2>1, SumSame
  <2> QED
    BY <1>1, <1>2, <2>2 DEF Near, Served, tv
<1> QED
  BY <1>3, <1>4

\* What a request knows of the counters it still knows a move later, less closely
\* (SelectFor and Select read while Acquire and Release go on).
LEMMA Shift ==
    ASSUME NEW sv \in [Servers -> Int], NEW b \in Servers, NEW d \in {-1, 1},
           NEW q \in Asks, NEW m \in Nat, Shaped(q), Known(q, m, sv)
    PROVE  Known(q, m + 1, [sv EXCEPT ![b] = sv[b] + d])
<1> DEFINE tv == [sv EXCEPT ![b] = sv[b] + d]
<1>1. /\ tv \in [Servers -> Int]
      /\ \A a \in Servers : Near(tv[a], sv[a], 1) /\ (a # b => tv[a] = sv[a])
  BY DEF Near
<1>2. \A C \in SUBSET Servers :
          Served(sv, C) \in Int /\ Served(tv, C) \in Int /\ Near(Served(tv, C), Served(sv, C), 1)
  BY SumShifts
<1>3. q.among \in SUBSET Servers /\ q.left \in SUBSET Servers /\ q.read \in Int
  BY DEF Asks
<1>4. m + 1 # 0 /\ m + 1 > 0
  OBVIOUS
<1> HIDE DEF tv
<1>5. ASSUME NEW x \in Int, NEW y \in Int, NEW z \in Int, Near(x, y, m), Near(z, y, 1)
      PROVE  Near(x, z, m + 1)
  BY <1>5 DEF Near
<1>6. KnownAdding(q, m + 1, tv)
  <2> DEFINE C == q.among \ q.left
  <2>1. C \in SUBSET Servers
    BY <1>3
  <2> HIDE DEF C
  <2>2. q.at = "adding" => Near(q.read, Served(sv, C), m)
    BY DEF Known, KnownAdding, C
  <2>3. q.at = "adding" => Near(q.read, Served(tv, C), m + 1)
    BY <1>2, <1>3, <1>5, <2>1, <2>2
  <2> QED
    BY <2>3 DEF KnownAdding, C
<1>7. KnownHome(q, m + 1, tv)
  BY <1>2, <1>3, <1>5 DEF Known, KnownHome
<1>8. KnownComparing(q, m + 1, tv)
  <2> SUFFICES ASSUME q.at = "comparing" PROVE Near(q.read, tv[q.goes], m + 1)
    BY DEF KnownComparing
  <2>1. q.goes \in Servers /\ Near(q.read, sv[q.goes], m)
    BY <1>3 DEF Known, KnownComparing, Shaped
  <2> QED
    BY <1>1, <1>3, <1>5, <2>1
<1>9. KnownTesting(q, m + 1, tv) /\ KnownSpill(q, m + 1) /\ KnownFirst(q, m + 1, tv)
  BY <1>4 DEF KnownTesting, KnownSpill, KnownFirst
<1>10. KnownRoom(q, m + 1, tv)
  <2> SUFFICES ASSUME q.at = "chosen", Factor > 0, q.keyed, q.room
               PROVE  tv[q.goes] < Bound(q.goes, q.among, Served(tv, q.among) + (m + 1) + 1) + (m + 1)
    BY DEF KnownRoom
  <2> DEFINE x == Served(sv, q.among) + m + 1
             y == Served(tv, q.among) + (m + 1) + 1
  <2>1. q.goes \in q.among /\ q.goes \in Servers
    BY <1>3 DEF Shaped
  <2>2. sv[q.goes] < Bound(q.goes, q.among, x) + m
    BY DEF Known, KnownRoom
  <2>3. x \in Int /\ y \in Int /\ x <= y
    BY <1>2, <1>3 DEF Near
  <2> HIDE DEF x, y
  <2>4. Bound(q.goes, q.among, x) \in Int /\ Bound(q.goes, q.among, y) \in Int
    BY <1>3, <2>1, <2>3, BoundIs
  <2>5. Bound(q.goes, q.among, x) <= Bound(q.goes, q.among, y)
    BY <1>3, <2>1, <2>3, BoundIs
  <2>6. tv[q.goes] <= sv[q.goes] + 1 /\ tv[q.goes] \in Int /\ sv[q.goes] \in Int
    BY <1>1, <2>1 DEF Near
  <2>7. tv[q.goes] < Bound(q.goes, q.among, y) + (m + 1)
    BY <2>2, <2>4, <2>5, <2>6
  <2> QED
    BY <2>7 DEF y
<1>11. KnownLess(q, m + 1, tv)
  <2> SUFFICES ASSUME q.at = "chosen", ~q.keyed, Cardinality(q.among) > 1
               PROVE  \E a \in q.among \ {q.goes} : tv[q.goes] <= tv[a] + (m + 1)
    BY DEF KnownLess
  <2>1. PICK a \in q.among \ {q.goes} : sv[q.goes] <= sv[a] + m
    BY DEF Known, KnownLess
  <2>2. q.goes \in Servers /\ a \in Servers
    BY <1>3 DEF Shaped
  <2>3. tv[q.goes] <= tv[a] + (m + 1)
    <3> DEFINE g == q.goes
    <3>1. /\ tv[g] \in Int /\ tv[a] \in Int /\ sv[g] \in Int /\ sv[a] \in Int
          /\ tv[g] <= sv[g] + 1 /\ sv[a] <= tv[a] + 1
          /\ (tv[g] = sv[g] \/ tv[a] = sv[a])
      BY <1>1, <2>1, <2>2 DEF Near
    <3> QED
      BY <2>1, <3>1
  <2> QED
    BY <2>3
<1> QED
  BY <1>6, <1>7, <1>8, <1>9, <1>10, <1>11 DEF Known, tv

\* A request that goes on choosing keeps the invariant, if it knows what its stage says.
LEMMA Proceeds ==
    ASSUME Placing, NEW r \in Askers, NEW to \in Asks, Proceed(r, to),
           ask[r].at # "serving", Choosing(to), Shaped(to),
           moves[r] <= Cardinality(Askers) => Known(to, moves[r], serving)
    PROVE  Placing'
<1>1. /\ ask \in [Askers -> Asks] /\ ask' = [ask EXCEPT ![r] = to] /\ serving' = serving /\ moves' = moves
      /\ serving \in [Servers -> Int] /\ moves \in [Askers -> Nat]
  BY DEF Placing, PlacementTypeOK, Proceed
<1>2. to.at # "serving"
  BY DEF Choosing
<1>3. ask'[r] = to /\ \A s \in Askers \ {r} : ask'[s] = ask[s]
  BY <1>1
<1>4. PlacementTypeOK'
  BY <1>1 DEF PlacementTypeOK
<1>5. AllShaped'
  BY <1>3 DEF Placing, AllShaped
<1>6. CountersExact'
  <2>1. \A b \in Servers : On(b)' = On(b)
    BY <1>2, <1>3 DEF On
  <2> QED
    BY <1>1, <2>1 DEF Placing, CountersExact
<1>7. AtRest'
  BY <1>1, <1>3 DEF Placing, AtRest
<1>8. AllKnown'
  BY <1>1, <1>3 DEF Placing, AllKnown
<1> QED
  BY <1>4, <1>5, <1>6, <1>7, <1>8 DEF Placing

\* A counter that moves keeps the invariant, for all the others that are choosing too
\* (Acquire, Release).
LEMMA Counts ==
    ASSUME Placing, NEW r \in Askers, NEW b \in Servers, NEW d \in {-1, 1}, NEW to \in Asks,
           Count(r, b, d, to), ~Choosing(to), Shaped(to),
           \/ d = 1 /\ to.at = "serving" /\ to.goes = b /\ ask[r].at # "serving"
           \/ d = -1 /\ to.at # "serving" /\ ask[r].at = "serving" /\ ask[r].goes = b
    PROVE  Placing'
<1> DEFINE more(s) == IF s = r \/ ~Choosing(ask[s]) THEN 0
                      ELSE IF moves[s] > Cardinality(Askers) THEN moves[s]
                      ELSE moves[s] + 1
<1>1. /\ ask \in [Askers -> Asks] /\ ask' = [ask EXCEPT ![r] = to]
      /\ serving \in [Servers -> Int] /\ serving' = [serving EXCEPT ![b] = serving[b] + d]
      /\ moves \in [Askers -> Nat] /\ moves' = [s \in Askers |-> more(s)]
  BY DEF Placing, PlacementTypeOK, Count
<1>2. ask'[r] = to /\ \A s \in Askers \ {r} : ask'[s] = ask[s]
  BY <1>1
<1>3. \A s \in Askers : more(s) \in Nat /\ moves'[s] = more(s)
  BY <1>1
<1>4. PlacementTypeOK'
  <2>1. moves' \in [Askers -> Nat]
    BY <1>1, <1>3
  <2>2. ask' \in [Askers -> Asks]
    BY <1>1
  <2>3. serving' \in [Servers -> Int]
    BY <1>1
  <2> QED
    BY <2>1, <2>2, <2>3 DEF PlacementTypeOK
<1>5. AllShaped'
  BY <1>2 DEF Placing, AllShaped
<1>6. CountersExact'
  <2> SUFFICES ASSUME NEW a \in Servers PROVE serving'[a] = Cardinality(On(a)')
    BY DEF CountersExact
  <2>1. IsFiniteSet(On(a)) /\ serving[a] = Cardinality(On(a)) /\ serving[a] \in Int
    <3>1. On(a) \in SUBSET Askers /\ IsFiniteSet(Askers)
      BY PlacementAssumption DEF On
    <3> QED
      BY <1>1, <3>1, FS_Subset DEF Placing, CountersExact
  <2>2. CASE a # b
    <3>1. On(a)' = On(a)
      BY <1>2, <2>2 DEF On
    <3>2. serving'[a] = serving[a]
      BY <1>1, <2>2
    <3> QED
      BY <2>1, <3>1, <3>2
  <2>3. CASE a = b /\ d = 1
    <3>1. On(a)' = On(a) \cup {r} /\ r \notin On(a)
      BY <1>2, <2>3 DEF On
    <3>2. Cardinality(On(a) \cup {r}) = Cardinality(On(a)) + 1
      BY <2>1, <3>1, FS_AddElement
    <3>3. serving'[a] = serving[a] + 1
      BY <1>1, <2>3
    <3> QED
      BY <2>1, <3>1, <3>2, <3>3
  <2>4. CASE a = b /\ d = -1
    <3>1. On(a)' = On(a) \ {r} /\ r \in On(a)
      BY <1>2, <2>4 DEF On
    <3>2. Cardinality(On(a) \ {r}) = Cardinality(On(a)) - 1
      BY <2>1, <3>1, FS_RemoveElement
    <3>3. serving'[a] = serving[a] + -1
      BY <1>1, <2>4
    <3> QED
      BY <2>1, <3>1, <3>2, <3>3
  <2> QED
    BY <2>2, <2>3, <2>4
<1>7. AtRest'
  BY <1>2, <1>3 DEF Placing, AtRest
<1>8. AllKnown'
  <2> SUFFICES ASSUME NEW s \in Askers, moves'[s] <= Cardinality(Askers)
               PROVE  Known(ask'[s], moves'[s], serving')
    BY DEF AllKnown
  <2>0. Cardinality(Askers) \in Nat
    BY PlacementAssumption, FS_CardinalityType
  <2>1. CASE ~Choosing(ask'[s])
    BY <2>1 DEF Choosing, Known, KnownAdding, KnownHome, KnownTesting, KnownComparing, KnownSpill,
                KnownRoom, KnownFirst, KnownLess
  <2>2. CASE Choosing(ask'[s])
    <3>1. s # r /\ ask'[s] = ask[s] /\ Choosing(ask[s])
      BY <1>2, <2>2
    <3>2. moves[s] <= Cardinality(Askers) /\ moves'[s] = moves[s] + 1 /\ moves[s] \in Nat
      BY <1>1, <1>3, <2>0, <3>1
    <3>3. ask[s] \in Asks /\ Shaped(ask[s]) /\ Known(ask[s], moves[s], serving)
      BY <1>1, <3>2 DEF Placing, AllShaped, AllKnown
    <3>4. Known(ask[s], moves[s] + 1, [serving EXCEPT ![b] = serving[b] + d])
      BY <1>1, <3>2, <3>3, Shift
    <3> QED
      BY <1>1, <3>1, <3>2, <3>4
  <2> QED
    BY <2>1, <2>2
<1> QED
  BY <1>4, <1>5, <1>6, <1>7, <1>8 DEF Placing

\* What the invariant says of one request.
LEMMA AskIs ==
    ASSUME Placing, NEW r \in Askers
    PROVE  /\ ask[r] \in Asks /\ Shaped(ask[r]) /\ moves[r] \in Nat
           /\ serving \in [Servers -> Int] /\ \A b \in Servers : serving[b] >= 0
           /\ ask[r].among \in SUBSET Servers /\ ask[r].left \in SUBSET Servers
           /\ ask[r].read \in Int
           /\ moves[r] <= Cardinality(Askers) => Known(ask[r], moves[r], serving)
<1>1. \A b \in Servers : serving[b] >= 0
  <2> SUFFICES ASSUME NEW b \in Servers PROVE serving[b] >= 0
    OBVIOUS
  <2>1. On(b) \in SUBSET Askers /\ IsFiniteSet(Askers)
    BY PlacementAssumption DEF On
  <2>2. Cardinality(On(b)) \in Nat
    BY <2>1, FS_Subset, FS_CardinalityType
  <2> QED
    BY <2>2 DEF Placing, CountersExact
<1> QED
  BY <1>1 DEF Placing, PlacementTypeOK, AllShaped, AllKnown, Asks

\* Counters add up to an integer.
LEMMA Summed ==
    ASSUME NEW sv \in [Servers -> Int], NEW C \in SUBSET Servers
    PROVE  Served(sv, C) \in Int
BY SumMore, PlacementAssumption DEF Served

\* An idle request.
LEMMA Resting ==
    /\ Idle \in Asks /\ Idle.at = "idle" /\ Shaped(Idle) /\ ~Choosing(Idle)
BY DEF Idle, Asks, AskStages, Shaped, Choosing

\* A request that begins with a key (SelectFor).
LEMMA KeyedIs ==
    ASSUME NEW C \in SUBSET Servers, NEW rank \in Ranks, NEW keyed \in BOOLEAN
    PROVE  LET q == [Idle EXCEPT !.among = C, !.keyed = keyed, !.rank = rank]
           IN  /\ q \in Asks /\ q.among = C /\ q.keyed = keyed /\ q.rank = rank
               /\ q.read = 0 /\ q.room = FALSE
BY Resting DEF Asks, Idle

\* It goes home at once, or begins to add up the counters (SelectFor).
LEMMA KeyedBegins ==
    ASSUME Placing, NEW r \in Askers, NEW C \in SUBSET Servers, C # {}, NEW rank \in Ranks,
           BeginKeyed(r, C, rank)
    PROVE  Placing'
<1> DEFINE q == [Idle EXCEPT !.among = C, !.keyed = TRUE, !.rank = rank]
           home == HomeOf(rank, C)
           far == [q EXCEPT !.at = "chosen", !.goes = home]
           near == [q EXCEPT !.at = "adding", !.left = C]
<1>1. ask[r] = Idle /\ Proceed(r, IF Factor = 0 THEN far ELSE near)
  BY DEF BeginKeyed
<1>2. ask[r].at # "serving" /\ moves[r] = 0
  BY <1>1, Resting DEF Placing, AtRest
<1>3. home \in C /\ home \in Servers
  BY HomeIs
<1>4. Factor \in Nat /\ (Factor = 0 \/ Factor >= 100)
  BY PlacementAssumption
<1>5. /\ q \in Asks /\ q.among = C /\ (q.keyed = TRUE) /\ q.rank = rank
      /\ q.read = 0 /\ (q.room = FALSE)
  <2>1. TRUE \in BOOLEAN
    OBVIOUS
  <2> QED
    BY <2>1, KeyedIs, Zenon
<1> HIDE DEF home, q
<1>6. CASE Factor = 0
  <2>1. far.at = "chosen" /\ far.goes = home /\ far.among = C /\ far \in Asks
    BY <1>3, <1>5 DEF Asks, AskStages
  <2>2. far.keyed = q.keyed
    BY <1>5 DEF Asks
  <2>3. Proceed(r, far)
    BY <1>1, <1>6
  <2> HIDE DEF far
  <2>4. far.keyed
    BY <1>5, <2>2
  <2>5. Choosing(far) /\ Shaped(far)
    BY <1>3, <2>1 DEF Choosing, Shaped
  <2>6. Known(far, moves[r], serving)
    BY <1>6, <2>1, <2>4 DEF Known, KnownAdding, KnownHome, KnownTesting, KnownComparing, KnownSpill,
                        KnownRoom, KnownFirst, KnownLess
  <2> QED
    BY <1>2, <2>1, <2>3, <2>5, <2>6, Proceeds
<1>7. CASE Factor # 0
  <2>1. /\ near.at = "adding" /\ near.left = C /\ near.among = C /\ near.rank = rank
        /\ near.read = 0 /\ near \in Asks
    BY <1>5 DEF Asks, AskStages
  <2>2. near.keyed = q.keyed
    BY <1>5 DEF Asks
  <2>3. Proceed(r, near)
    BY <1>1, <1>7
  <2> HIDE DEF near
  <2>4. near.keyed
    BY <1>5, <2>2
  <2>5. Choosing(near) /\ Shaped(near)
    BY <1>4, <1>7, <2>1, <2>4 DEF Choosing, Shaped
  <2>6. Served(serving, near.among \ near.left) = 0
    <3>1. near.among \ near.left = {}
      BY <2>1
    <3>2. Served(serving, {}) = 0
      <4>1. IsFiniteSet(Servers) /\ serving \in [Servers -> Int]
        BY AskIs, PlacementAssumption
      <4> QED
        BY <4>1, SumMore DEF Served
    <3> QED
      BY <3>1, <3>2, Zenon
  <2>7. KnownAdding(near, moves[r], serving)
    BY <1>2, <2>1, <2>6 DEF KnownAdding, Near
  <2>8. Known(near, moves[r], serving)
    BY <2>1, <2>7 DEF Known, KnownHome, KnownTesting, KnownComparing, KnownSpill,
                KnownRoom, KnownFirst, KnownLess
  <2> QED
    BY <1>2, <2>1, <2>3, <2>5, <2>8, Proceeds
<1> QED
  BY <1>6, <1>7

\* It adds one more counter (SelectFor).
LEMMA Adding ==
    ASSUME Placing, NEW r \in Askers, Add(r)
    PROVE  Placing'
<1> DEFINE b == FirstOf(ask[r].left)
           more == ask[r].read + serving[b]
           rest == ask[r].left \ {b}
           on == [ask[r] EXCEPT !.read = more, !.left = rest]
           done == [on EXCEPT !.at = "home"]
           to == IF rest # {} THEN on ELSE done
<1>1. ask[r].at = "adding" /\ ask[r] \in Asks /\ ask[r].left # {} /\ ask[r].left \subseteq ask[r].among
      /\ ask[r].among # {} /\ Factor >= 100 /\ ask[r].keyed /\ ask[r].rank \in Ranks
  BY AskIs DEF Add, Shaped, Choosing
<1>2. b \in ask[r].left /\ b \in Servers
  BY <1>1, AskIs, FirstIs
<1>3. more \in Int /\ rest \in SUBSET Servers /\ rest \subseteq ask[r].among
  BY <1>1, <1>2, AskIs
<1>4. Proceed(r, to)
  BY <1>1 DEF Add, Asks
<1> DEFINE A == ask[r].among \ ask[r].left
           N == ask[r].among \ rest
<1>5. A \in SUBSET Servers /\ N \in SUBSET Servers /\ b \in Servers \ A /\ A \cup {b} = N
  BY <1>1, <1>2, AskIs
<1>6. rest = {} => N = ask[r].among
  OBVIOUS
<1> HIDE DEF b, more, rest, A, N
<1>7. moves[r] <= Cardinality(Askers) => Near(more, Served(serving, N), moves[r])
  <2> SUFFICES ASSUME moves[r] <= Cardinality(Askers) PROVE Near(more, Served(serving, N), moves[r])
    OBVIOUS
  <2>1. Near(ask[r].read, Served(serving, A), moves[r])
    BY <1>1, AskIs DEF Known, KnownAdding, A
  <2>2. Served(serving, N) = serving[b] + Served(serving, A) /\ Served(serving, A) \in Int
    <3>1. SumFunctionOnSet(serving, A \cup {b}) = serving[b] + SumFunctionOnSet(serving, A)
          /\ SumFunctionOnSet(serving, A) \in Int
      <4>1. IsFiniteSet(Servers) /\ serving \in [Servers -> Int]
        BY AskIs, PlacementAssumption
      <4> QED
        BY <1>5, <4>1, SumMore
    <3>2. SumFunctionOnSet(serving, A \cup {b}) = SumFunctionOnSet(serving, N)
      BY <1>5, Zenon
    <3> QED
      BY <3>1, <3>2 DEF Served
  <2>3. serving[b] \in Int /\ ask[r].read \in Int /\ moves[r] \in Nat
    BY <1>2, AskIs
  <2> QED
    BY <2>1, <2>2, <2>3 DEF Near, more
<1>8. to \in Asks /\ Choosing(to) /\ Shaped(to)
  <2>1. on \in Asks /\ done \in Asks
    BY <1>1, <1>3 DEF Asks, AskStages
  <2>2. Choosing(on) /\ Choosing(done)
    BY <1>1 DEF Choosing, Asks
  <2>3. rest # {} => Shaped(on)
    BY <1>1, <1>3 DEF Shaped, Asks
  <2>4. Shaped(done)
    BY <1>1, <1>3 DEF Shaped, Asks
  <2> QED
    BY <2>1, <2>2, <2>3, <2>4
<1>9. moves[r] <= Cardinality(Askers) => Known(to, moves[r], serving)
  <2> SUFFICES ASSUME moves[r] <= Cardinality(Askers) PROVE Known(to, moves[r], serving)
    OBVIOUS
  <2>1. CASE rest # {}
    <3>1. to = on /\ on.at = "adding" /\ on.read = more /\ on.among = ask[r].among /\ on.left = rest
      BY <1>1, <2>1 DEF Asks
    <3> HIDE DEF on, to
    <3>2. KnownAdding(on, moves[r], serving)
      BY <1>7, <3>1 DEF KnownAdding, N
    <3>3. Known(on, moves[r], serving)
      BY <3>1, <3>2 DEF Known, KnownHome, KnownTesting, KnownComparing, KnownSpill,
                KnownRoom, KnownFirst, KnownLess
    <3> QED
      BY <3>1, <3>3
  <2>2. CASE rest = {}
    <3>1. to = done /\ done.at = "home" /\ done.read = more /\ done.among = ask[r].among
      BY <1>1, <2>2 DEF Asks
    <3> HIDE DEF done, to
    <3>2. KnownHome(done, moves[r], serving)
      BY <1>6, <1>7, <2>2, <3>1 DEF KnownHome
    <3>3. Known(done, moves[r], serving)
      BY <3>1, <3>2 DEF Known, KnownAdding, KnownTesting, KnownComparing, KnownSpill,
                KnownRoom, KnownFirst, KnownLess
    <3> QED
      BY <3>1, <3>3
  <2> QED
    BY <2>1, <2>2
<1> HIDE DEF to
<1>10. ask[r].at # "serving"
  BY <1>1
<1> QED
  BY <1>4, <1>8, <1>9, <1>10, Proceeds

\* The record of a request that has chosen.
LEMMA AskChosen ==
    ASSUME NEW p \in Asks, NEW b \in Servers, NEW left \in SUBSET Servers, NEW room \in BOOLEAN,
           NEW n \in Int
    PROVE  [p EXCEPT !.at = "chosen", !.left = left, !.read = n, !.goes = b, !.room = room] \in Asks
BY DEF Asks, AskStages

\* A request that has chosen.
LEMMA ChosenIs ==
    ASSUME Placing, NEW r \in Askers, NEW b \in ask[r].among, NEW room \in BOOLEAN
    PROVE  LET q == Chosen(r, b, room)
           IN  /\ q \in Asks /\ q.at = "chosen" /\ q.among = ask[r].among /\ q.keyed = ask[r].keyed
               /\ q.rank = ask[r].rank /\ q.goes = b /\ q.room = room
               /\ Choosing(q) /\ Shaped(q)
<1> DEFINE q == Chosen(r, b, room)
<1>1. ask[r] \in Asks /\ b \in Servers /\ ask[r].among # {}
  BY AskIs
<1>2. /\ q \in Asks /\ q.at = "chosen" /\ q.among = ask[r].among /\ q.keyed = ask[r].keyed
      /\ q.rank = ask[r].rank /\ q.goes = b /\ q.room = room
  <2>1. q \in Asks
    <3>1. {} \in SUBSET Servers /\ 0 \in Int
      OBVIOUS
    <3> QED
      BY <1>1, <3>1, AskChosen, Zenon DEF Chosen
  <2>2. q.at = "chosen" /\ q.among = ask[r].among /\ q.rank = ask[r].rank /\ q.goes = b
    BY <1>1 DEF Chosen, Asks
  <2>3. q.keyed = ask[r].keyed
    BY <1>1 DEF Chosen, Asks
  <2>4. q.room = room
    BY <1>1 DEF Chosen, Asks
  <2> QED
    BY <2>1, <2>2, <2>3, <2>4
<1> HIDE DEF q
<1>3. Choosing(q) /\ Shaped(q)
  BY <1>1, <1>2 DEF Choosing, Shaped
<1> QED
  BY <1>2, <1>3 DEF q

\* A request that finds room goes there, and there is room but for the moves meanwhile
\* (SelectFor).
LEMMA GoesForRoom ==
    ASSUME Placing, NEW r \in Askers, ask[r].at \in {"home", "testing"}, NEW b \in ask[r].among,
           HasRoom(r, b), Proceed(r, Chosen(r, b, TRUE)),
           moves[r] = 0 =>
               \A a \in ask[r].among : ask[r].rank[a] < ask[r].rank[b] => FullIn(serving, ask[r].among, a)
    PROVE  Placing'
<1> DEFINE q == Chosen(r, b, TRUE)
           m == moves[r]
           C == ask[r].among
           x == ask[r].read + 1
           y == Served(serving, C) + m + 1
<1>1. /\ q \in Asks /\ q.at = "chosen" /\ q.among = ask[r].among
      /\ q.rank = ask[r].rank /\ q.goes = b /\ Choosing(q) /\ Shaped(q)
  BY ChosenIs
<1>2. (q.keyed = ask[r].keyed) /\ (q.room = TRUE)
  BY ChosenIs, Zenon
<1>3. ask[r].keyed /\ m \in Nat /\ serving \in [Servers -> Int] /\ C \in SUBSET Servers /\ b \in Servers
  BY AskIs DEF Shaped
<1> HIDE DEF q
<1>4. m <= Cardinality(Askers) => Known(q, m, serving)
  <2> SUFFICES ASSUME m <= Cardinality(Askers) PROVE Known(q, m, serving)
    OBVIOUS
  <2>1. Near(ask[r].read, Served(serving, C), m) /\ ask[r].read \in Int
    BY AskIs DEF Known, KnownHome
  <2>2. Served(serving, C) \in Int
    BY <1>3, Summed
  <2>3. x \in Int /\ y \in Int /\ x <= y
    BY <1>3, <2>1, <2>2 DEF Near
  <2>4. serving[b] < Bound(b, C, x)
    BY DEF HasRoom
  <2> HIDE DEF x, y
  <2>5. Bound(b, C, x) \in Int /\ Bound(b, C, y) \in Int /\ Bound(b, C, x) <= Bound(b, C, y)
    BY <1>3, <2>3, BoundIs
  <2>6. serving[b] < Bound(b, C, y) + m
    BY <1>3, <2>4, <2>5
  <2>7. KnownRoom(q, m, serving)
    BY <1>1, <2>6 DEF KnownRoom, y
  <2>8. KnownFirst(q, m, serving)
    BY <1>1 DEF KnownFirst
  <2> QED
    BY <1>1, <1>2, <1>3, <2>7, <2>8 DEF Known, KnownAdding, KnownHome, KnownTesting,
        KnownComparing, KnownSpill, KnownLess
<1>5. ask[r].at # "serving" /\ Proceed(r, q)
  BY DEF q
<1> QED
  BY <1>1, <1>4, <1>5, Proceeds

\* Its home is tested first (SelectFor).
LEMMA HomeTests ==
    ASSUME Placing, NEW r \in Askers, TestHome(r)
    PROVE  Placing'
<1> DEFINE b == HomeOf(ask[r].rank, ask[r].among)
           to == [ask[r] EXCEPT !.at = "testing", !.left = ask[r].among]
<1>1. /\ ask[r].at = "home" /\ ask[r] \in Asks /\ ask[r].rank \in Ranks /\ ask[r].keyed
      /\ ask[r].among # {} /\ ask[r].among \in SUBSET Servers /\ Factor >= 100
  BY AskIs DEF TestHome, Shaped, Choosing
<1>2. b \in ask[r].among /\ \A a \in ask[r].among : ask[r].rank[b] <= ask[r].rank[a]
  BY <1>1, HomeIs
<1>3. Proceed(r, IF HasRoom(r, b) THEN Chosen(r, b, TRUE) ELSE to)
  BY DEF TestHome
<1>4. \A a \in ask[r].among : ask[r].rank[a] \in Nat
  <2>1. ask[r].rank \in [Servers -> Nat]
    BY <1>1, PlacementAssumption
  <2>2. \A a \in Servers : ask[r].rank[a] \in Nat
    BY <2>1
  <2> QED
    BY <1>1, <2>2
<1> HIDE DEF b
<1>5. CASE HasRoom(r, b)
  <2>1. \A a \in ask[r].among : ~(ask[r].rank[a] < ask[r].rank[b])
    BY <1>2, <1>4
  <2> QED
    BY <1>1, <1>2, <1>3, <1>5, <2>1, GoesForRoom
<1>6. CASE ~HasRoom(r, b)
  <2>1. /\ to \in Asks /\ to.at = "testing" /\ to.among = ask[r].among /\ to.left = ask[r].among
        /\ to.rank = ask[r].rank /\ to.read = ask[r].read
    BY <1>1 DEF Asks, AskStages
  <2>2. to.keyed = ask[r].keyed
    BY <1>1 DEF Asks
  <2>3. Proceed(r, to)
    BY <1>3, <1>6
  <2> HIDE DEF to
  <2>4. Choosing(to) /\ Shaped(to)
    BY <1>1, <2>1, <2>2 DEF Choosing, Shaped, Ordered
  <2>5. moves[r] <= Cardinality(Askers) => Known(to, moves[r], serving)
    <3> SUFFICES ASSUME moves[r] <= Cardinality(Askers) PROVE Known(to, moves[r], serving)
      OBVIOUS
    <3>1. KnownHome(to, moves[r], serving)
      BY <1>1, <2>1, AskIs DEF Known, KnownHome
    <3>2. KnownTesting(to, moves[r], serving)
      BY <2>1 DEF KnownTesting
    <3> QED
      BY <2>1, <3>1, <3>2 DEF Known, KnownAdding, KnownComparing, KnownSpill, KnownRoom,
                              KnownFirst, KnownLess
  <2>6. ask[r].at # "serving"
    BY <1>1
  <2> QED
    BY <2>1, <2>3, <2>4, <2>5, <2>6, Proceeds
<1> QED
  BY <1>5, <1>6

\* A backend is found full, and is full if no counter moved (SelectFor).
LEMMA FoundFull ==
    ASSUME Placing, NEW r \in Askers, ask[r].at = "testing", moves[r] = 0,
           NEW b \in ask[r].left, ~HasRoom(r, b)
    PROVE  \A a \in (ask[r].among \ ask[r].left) \cup {b} : FullIn(serving, ask[r].among, a)
<1> DEFINE C == ask[r].among
<1>1. Cardinality(Askers) \in Nat
  BY PlacementAssumption, FS_CardinalityType
<1>2. Known(ask[r], moves[r], serving) /\ ask[r].read \in Int /\ C \in SUBSET Servers
      /\ serving \in [Servers -> Int] /\ b \in C /\ b \in Servers
  BY <1>1, AskIs DEF Shaped
<1>3. Served(serving, C) \in Int
  BY <1>2, Summed
<1>4. ask[r].read = Served(serving, C)
  BY <1>2, <1>3 DEF Known, KnownHome, Near
<1>5. \A a \in C \ ask[r].left : FullIn(serving, C, a)
  BY <1>2 DEF Known, KnownTesting
<1>6. FullIn(serving, C, b)
  <2> DEFINE x == Served(serving, C) + 1
  <2>1. ~(serving[b] < Bound(b, C, x))
    BY <1>4 DEF HasRoom
  <2>2. x \in Int /\ serving[b] \in Int
    BY <1>2, <1>3
  <2> HIDE DEF x
  <2>3. Bound(b, C, x) \in Int
    BY <1>2, <2>2, BoundIs
  <2>4. serving[b] >= Bound(b, C, x)
    BY <2>1, <2>2, <2>3
  <2> QED
    BY <2>4 DEF FullIn, x
<1> QED
  BY <1>5, <1>6

\* The others are tested in order; one that finds them all full goes home, and a counter
\* must have moved (SelectFor).
LEMMA Tests ==
    ASSUME Placing, NEW r \in Askers, Test(r)
    PROVE  Placing'
<1> DEFINE b == HomeOf(ask[r].rank, ask[r].left)
           home == HomeOf(ask[r].rank, ask[r].among)
           rest == ask[r].left \ {b}
           on == [ask[r] EXCEPT !.left = rest]
           q == Chosen(r, home, FALSE)
<1>1. /\ ask[r].at = "testing" /\ ask[r] \in Asks /\ ask[r].rank \in Ranks /\ ask[r].keyed
      /\ ask[r].among # {} /\ ask[r].among \in SUBSET Servers /\ Factor >= 100
      /\ ask[r].left # {} /\ ask[r].left \in SUBSET Servers /\ ask[r].left \subseteq ask[r].among
      /\ Ordered(ask[r]) /\ moves[r] \in Nat
  BY AskIs DEF Test, Shaped, Choosing
<1>2. b \in ask[r].left /\ \A a \in ask[r].left : ask[r].rank[b] <= ask[r].rank[a]
  BY <1>1, HomeIs
<1>3. home \in ask[r].among
  BY <1>1, HomeIs
<1>4. \A a \in Servers : ask[r].rank[a] \in Nat
  BY <1>1, PlacementAssumption
<1>5. Proceed(r, IF HasRoom(r, b) THEN Chosen(r, b, TRUE)
                 ELSE IF ask[r].left # {b} THEN on ELSE q)
  BY <1>1 DEF Test, Asks
<1> HIDE DEF b, home
<1>6. CASE HasRoom(r, b)
  <2>1. ASSUME moves[r] = 0, NEW a \in ask[r].among, ask[r].rank[a] < ask[r].rank[b]
        PROVE  FullIn(serving, ask[r].among, a)
    <3>1. a \notin ask[r].left
      BY <1>1, <1>2, <1>4, <2>1
    <3>2. Cardinality(Askers) \in Nat
      BY PlacementAssumption, FS_CardinalityType
    <3>3. Known(ask[r], moves[r], serving)
      BY <2>1, <3>2, AskIs
    <3> QED
      BY <1>1, <2>1, <3>1, <3>3 DEF Known, KnownTesting
  <2>2. b \in ask[r].among
    BY <1>1, <1>2
  <2> QED
    BY <1>1, <1>5, <1>6, <2>1, <2>2, GoesForRoom
<1>7. CASE ~HasRoom(r, b) /\ ask[r].left # {b}
  <2>1. /\ on \in Asks /\ on.at = "testing" /\ on.among = ask[r].among /\ on.left = rest
        /\ on.rank = ask[r].rank /\ on.read = ask[r].read
    BY <1>1 DEF Asks, AskStages
  <2>2. on.keyed = ask[r].keyed
    BY <1>1 DEF Asks
  <2>3. Proceed(r, on) /\ ask[r].at # "serving"
    BY <1>1, <1>5, <1>7
  <2>4. rest # {} /\ rest \subseteq ask[r].among
    BY <1>1, <1>2, <1>7
  <2>5. Ordered(on)
    <3> SUFFICES ASSUME NEW a \in ask[r].among \ rest, NEW c \in rest
                 PROVE  ask[r].rank[a] < ask[r].rank[c]
      BY <2>1 DEF Ordered
    <3>1. CASE a \notin ask[r].left
      BY <1>1, <3>1 DEF Ordered
    <3>2. CASE a \in ask[r].left
      <4>1. a = b /\ c # b /\ c \in ask[r].left /\ c \in Servers /\ b \in Servers
        BY <1>1, <1>2, <3>2
      <4>2. ask[r].rank[b] # ask[r].rank[c]
        BY <1>1, <4>1, PlacementAssumption
      <4>3. ask[r].rank[b] <= ask[r].rank[c]
        BY <1>2, <4>1
      <4> QED
        BY <1>4, <4>1, <4>2, <4>3
    <3> QED
      BY <3>1, <3>2
  <2> HIDE DEF on
  <2>6. Choosing(on) /\ Shaped(on)
    BY <1>1, <2>1, <2>2, <2>4, <2>5 DEF Choosing, Shaped
  <2>7. moves[r] <= Cardinality(Askers) => Known(on, moves[r], serving)
    <3> SUFFICES ASSUME moves[r] <= Cardinality(Askers) PROVE Known(on, moves[r], serving)
      OBVIOUS
    <3>1. KnownHome(on, moves[r], serving)
      BY <1>1, <2>1, AskIs DEF Known, KnownHome
    <3>2. KnownTesting(on, moves[r], serving)
      <4> SUFFICES ASSUME moves[r] = 0, NEW a \in ask[r].among \ rest
                   PROVE  FullIn(serving, ask[r].among, a)
        BY <2>1 DEF KnownTesting
      <4>1. a \in (ask[r].among \ ask[r].left) \cup {b}
        OBVIOUS
      <4> QED
        BY <1>1, <1>2, <1>7, <4>1, FoundFull
    <3> QED
      BY <2>1, <3>1, <3>2 DEF Known, KnownAdding, KnownComparing, KnownSpill, KnownRoom,
                              KnownFirst, KnownLess
  <2> QED
    BY <2>1, <2>3, <2>6, <2>7, Proceeds
<1>8. CASE ~HasRoom(r, b) /\ ask[r].left = {b}
  <2>1. /\ q \in Asks /\ q.at = "chosen" /\ Choosing(q) /\ Shaped(q)
    BY <1>3, ChosenIs
  <2>2. (q.keyed = ask[r].keyed) /\ (q.room = FALSE)
    BY <1>3, ChosenIs, Zenon
  <2>3. moves[r] # 0
    <3> SUFFICES ASSUME moves[r] = 0 PROVE FALSE
      OBVIOUS
    <3>1. \A a \in (ask[r].among \ ask[r].left) \cup {b} : FullIn(serving, ask[r].among, a)
      BY <1>1, <1>2, <1>8, FoundFull
    <3>2. \A a \in ask[r].among : FullIn(serving, ask[r].among, a)
      BY <1>8, <3>1
    <3>3. serving \in [Servers -> Int] /\ \A a \in Servers : serving[a] >= 0
      BY AskIs
    <3> QED
      BY <1>1, <3>2, <3>3, SomeRoom
  <2>4. Proceed(r, q) /\ ask[r].at # "serving"
    BY <1>1, <1>5, <1>8
  <2> HIDE DEF q
  <2>5. Known(q, moves[r], serving)
    BY <1>1, <2>1, <2>2, <2>3 DEF Known, KnownAdding, KnownHome, KnownTesting,
        KnownComparing, KnownSpill, KnownRoom, KnownFirst, KnownLess
  <2> QED
    BY <2>1, <2>4, <2>5, Proceeds
<1> QED
  BY <1>6, <1>7, <1>8

\* A request without a key draws two that differ (Select).
LEMMA KeylessBegins ==
    ASSUME Placing, NEW r \in Askers, NEW C \in SUBSET Servers, C # {}, BeginKeyless(r, C)
    PROVE  Placing'
<1>1. PICK d \in Draw(C) :
          Proceed(r, LET q == [Idle EXCEPT !.among = C, !.goes = d[2]]
                     IN  IF Cardinality(C) = 1 THEN [q EXCEPT !.at = "chosen"]
                         ELSE [q EXCEPT !.at = "reading", !.left = {d[1]}])
  BY DEF BeginKeyless
<1> DEFINE one == d[1]
           two == d[2]
           q == [Idle EXCEPT !.among = C, !.goes = two]
           alone == [q EXCEPT !.at = "chosen"]
           drawn == [q EXCEPT !.at = "reading", !.left = {one}]
<1>2. one \in C /\ two \in C /\ (Cardinality(C) > 1 => one # two)
  BY DEF Draw
<1>3. Proceed(r, IF Cardinality(C) = 1 THEN alone ELSE drawn) /\ ask[r] = Idle
  BY <1>1 DEF BeginKeyless
<1>4. Cardinality(C) \in Nat /\ Cardinality(C) # 0
  BY FS_Subset, FS_CardinalityType, FS_EmptySet, PlacementAssumption
<1>5. ask[r].at # "serving" /\ moves[r] = 0
  BY <1>3, Resting DEF Placing, AtRest
<1> HIDE DEF one, two
<1>6. /\ q \in Asks /\ q.among = C /\ q.goes = two
  BY <1>2, Resting DEF Asks, Idle
<1>7. ~q.keyed
  BY DEF Idle
<1> HIDE DEF q
<1>8. CASE Cardinality(C) = 1
  <2>1. alone \in Asks /\ alone.at = "chosen" /\ alone.among = C /\ alone.goes = two
    BY <1>6 DEF Asks, AskStages
  <2>2. alone.keyed = q.keyed
    BY <1>6 DEF Asks
  <2>3. Proceed(r, alone)
    BY <1>3, <1>8
  <2> HIDE DEF alone
  <2>4. Choosing(alone) /\ Shaped(alone)
    BY <1>2, <2>1 DEF Choosing, Shaped
  <2>5. Known(alone, moves[r], serving)
    BY <1>7, <1>8, <2>1, <2>2 DEF Known, KnownAdding, KnownHome, KnownTesting,
        KnownComparing, KnownSpill, KnownRoom, KnownFirst, KnownLess
  <2> QED
    BY <1>5, <2>1, <2>3, <2>4, <2>5, Proceeds
<1>9. CASE Cardinality(C) # 1
  <2>1. drawn \in Asks /\ drawn.at = "reading" /\ drawn.among = C /\ drawn.goes = two
        /\ drawn.left = {one}
    BY <1>2, <1>6 DEF Asks, AskStages
  <2>2. drawn.keyed = q.keyed
    BY <1>6 DEF Asks
  <2>3. Proceed(r, drawn)
    BY <1>3, <1>9
  <2> HIDE DEF drawn
  <2>4. one # two
    BY <1>2, <1>4, <1>9
  <2>5. Choosing(drawn) /\ Shaped(drawn)
    BY <1>2, <1>7, <2>1, <2>2, <2>4 DEF Choosing, Shaped
  <2>6. Known(drawn, moves[r], serving)
    BY <2>1 DEF Known, KnownAdding, KnownHome, KnownTesting,
        KnownComparing, KnownSpill, KnownRoom, KnownFirst, KnownLess
  <2> QED
    BY <1>5, <2>1, <2>3, <2>5, <2>6, Proceeds
<1> QED
  BY <1>8, <1>9

\* It reads the counter of the second (Select).
LEMMA ReadsSecond ==
    ASSUME Placing, NEW r \in Askers, ReadSecond(r)
    PROVE  Placing'
<1> DEFINE g == ask[r].goes
           v == serving[g]
           to == [ask[r] EXCEPT !.at = "comparing", !.read = v]
<1>1. ask[r].at = "reading" /\ ask[r] \in Asks /\ ask[r].among # {} /\ g \in ask[r].among
      /\ ~ask[r].keyed /\ (\E first \in ask[r].among \ {g} : ask[r].left = {first})
      /\ g \in Servers /\ v \in Int /\ moves[r] \in Nat
  BY AskIs DEF ReadSecond, Shaped, Choosing
<1>2. Proceed(r, to) /\ ask[r].at # "serving"
  BY <1>1 DEF ReadSecond
<1> HIDE DEF v
<1>3. to \in Asks /\ to.at = "comparing" /\ to.among = ask[r].among /\ to.goes = g
      /\ to.left = ask[r].left /\ to.read = v
  BY <1>1 DEF Asks, AskStages
<1>4. to.keyed = ask[r].keyed
  BY <1>1 DEF Asks
<1> HIDE DEF to
<1>5. Choosing(to) /\ Shaped(to)
  BY <1>1, <1>3, <1>4 DEF Choosing, Shaped
<1>6. Known(to, moves[r], serving)
  <2>1. KnownComparing(to, moves[r], serving)
    BY <1>1, <1>3 DEF KnownComparing, Near, v
  <2> QED
    BY <1>3, <2>1 DEF Known, KnownAdding, KnownHome, KnownTesting, KnownSpill, KnownRoom,
                      KnownFirst, KnownLess
<1> QED
  BY <1>2, <1>3, <1>5, <1>6, Proceeds

\* It reads the counter of the first, and goes where fewer are (Select).
LEMMA ReadsFirst ==
    ASSUME Placing, NEW r \in Askers, ReadFirst(r)
    PROVE  Placing'
<1> DEFINE g == ask[r].goes
<1>1. ask[r].at = "comparing" /\ ask[r] \in Asks /\ ask[r].among # {} /\ g \in ask[r].among
      /\ ~ask[r].keyed /\ g \in Servers /\ moves[r] \in Nat /\ ask[r].read \in Int
      /\ serving \in [Servers -> Int] /\ ask[r].among \in SUBSET Servers
  BY AskIs DEF ReadFirst, Shaped, Choosing
<1>2. PICK first \in ask[r].left :
          Proceed(r, Chosen(r, IF ask[r].read < serving[first] THEN g ELSE first, FALSE))
  BY DEF ReadFirst
<1>3. first \in ask[r].among \ {g} /\ first \in Servers
  BY <1>1, AskIs DEF Shaped
<1> DEFINE b == IF ask[r].read < serving[first] THEN g ELSE first
           other == IF ask[r].read < serving[first] THEN first ELSE g
           q == Chosen(r, b, FALSE)
<1>4. b \in ask[r].among /\ other \in ask[r].among \ {b}
  BY <1>1, <1>3
<1>5. Proceed(r, q) /\ ask[r].at # "serving"
  BY <1>1, <1>2
<1>6. moves[r] <= Cardinality(Askers) => serving[b] <= serving[other] + moves[r]
  <2> SUFFICES ASSUME moves[r] <= Cardinality(Askers) PROVE serving[b] <= serving[other] + moves[r]
    OBVIOUS
  <2>1. Near(ask[r].read, serving[g], moves[r])
    BY <1>1, AskIs DEF Known, KnownComparing
  <2>2. serving[g] \in Int /\ serving[first] \in Int
    BY <1>1, <1>3
  <2> QED
    BY <1>1, <2>1, <2>2 DEF Near
<1> HIDE DEF b, other
<1>7. q \in Asks /\ q.at = "chosen" /\ q.among = ask[r].among /\ q.goes = b
      /\ Choosing(q) /\ Shaped(q)
  BY <1>4, ChosenIs
<1>8. q.keyed = ask[r].keyed
  BY <1>4, ChosenIs, Zenon
<1> HIDE DEF q
<1>9. moves[r] <= Cardinality(Askers) => Known(q, moves[r], serving)
  BY <1>1, <1>4, <1>6, <1>7, <1>8 DEF Known, KnownAdding, KnownHome, KnownTesting,
        KnownComparing, KnownSpill, KnownRoom, KnownFirst, KnownLess
<1> QED
  BY <1>5, <1>7, <1>9, Proceeds

\* A request is served, is refused by the retry budget, or is done (serve).
LEMMA CounterMoves ==
    ASSUME Placing, NEW r \in Askers, Acquire(r) \/ Refused(r) \/ Release(r)
    PROVE  Placing'
<1>1. CASE Acquire(r)
  <2> DEFINE b == ask[r].goes
             to == [Idle EXCEPT !.at = "serving", !.goes = b]
  <2>1. ask[r].at = "chosen" /\ b \in Servers /\ Count(r, b, 1, to)
    BY <1>1, AskIs DEF Acquire, Shaped
  <2> HIDE DEF b
  <2>2. to \in Asks /\ to.at = "serving" /\ to.goes = b
    BY <2>1, Resting DEF Asks, AskStages
  <2> HIDE DEF to
  <2>3. ~Choosing(to) /\ Shaped(to)
    BY <2>1, <2>2 DEF Choosing, Shaped
  <2> QED
    BY <2>1, <2>2, <2>3, Counts
<1>2. CASE Release(r)
  <2>1. ask[r].at = "serving" /\ ask[r].goes \in Servers /\ Count(r, ask[r].goes, -1, Idle)
    BY <1>2, AskIs DEF Release, Shaped
  <2> QED
    BY <2>1, Resting, Counts
<1>3. CASE Refused(r)
  <2>1. /\ ask \in [Askers -> Asks] /\ ask' = [ask EXCEPT ![r] = Idle] /\ serving' = serving
        /\ moves \in [Askers -> Nat] /\ moves' = [moves EXCEPT ![r] = 0] /\ ask[r].at = "chosen"
    BY <1>3 DEF Refused, Placing, PlacementTypeOK
  <2>2. ask'[r] = Idle /\ moves'[r] = 0
        /\ \A s \in Askers \ {r} : ask'[s] = ask[s] /\ moves'[s] = moves[s]
    BY <2>1
  <2>3. PlacementTypeOK'
    BY <2>1, Resting DEF Placing, PlacementTypeOK
  <2>4. AllShaped'
    BY <2>2, Resting DEF Placing, AllShaped
  <2>5. CountersExact'
    <3>1. \A b \in Servers : On(b)' = On(b)
      BY <2>1, <2>2, Resting DEF On
    <3> QED
      BY <2>1, <3>1 DEF Placing, CountersExact
  <2>6. AtRest'
    BY <2>2 DEF Placing, AtRest
  <2>7. AllKnown'
    <3>1. Known(Idle, 0, serving)
      BY Resting DEF Known, KnownAdding, KnownHome, KnownTesting,
        KnownComparing, KnownSpill, KnownRoom, KnownFirst, KnownLess
    <3> QED
      BY <2>1, <2>2, <3>1 DEF Placing, AllKnown
  <2> QED
    BY <2>3, <2>4, <2>5, <2>6, <2>7 DEF Placing
<1> QED
  BY <1>1, <1>2, <1>3

\* Nothing is in flight at the start.
LEMMA PlacementStarts == PlacementInit => Placing
<1> SUFFICES ASSUME PlacementInit PROVE Placing
  OBVIOUS
<1>1. /\ serving = [b \in Servers |-> 0] /\ ask \in [Askers -> Asks] /\ moves = [r \in Askers |-> 0]
      /\ \A r \in Askers : ask[r] = Idle
  BY Resting DEF PlacementInit
<1>2. PlacementTypeOK
  BY <1>1 DEF PlacementTypeOK
<1>3. AllShaped /\ AtRest
  BY <1>1, Resting DEF AllShaped, AtRest
<1>4. CountersExact
  <2>1. \A b \in Servers : On(b) = {}
    BY <1>1, Resting DEF On
  <2> QED
    BY <1>1, <2>1, FS_EmptySet DEF CountersExact
<1>5. AllKnown
  <2>1. Known(Idle, 0, serving)
    BY Resting DEF Known, KnownAdding, KnownHome, KnownTesting,
        KnownComparing, KnownSpill, KnownRoom, KnownFirst, KnownLess
  <2> QED
    BY <1>1, <2>1 DEF AllKnown
<1> QED
  BY <1>2, <1>3, <1>4, <1>5 DEF Placing

\* However the requests interleave, one with a key goes to the first of its order that has
\* room, and home without room only if counters moved while it chose; one without goes to
\* no busier a backend than another it could have drawn.  All but for the moves of the
\* counters while it chose (SelectFor, Select, serve).
THEOREM PlacementsAreByLoad == PlacementSpec => []PlacedByLoad
<1>1. Placing /\ [PlacementNext]_placementVars => Placing'
  <2> SUFFICES ASSUME Placing, [PlacementNext]_placementVars PROVE Placing'
    OBVIOUS
  <2>1. ASSUME NEW r \in Askers, NEW C \in (SUBSET Servers) \ {{}}, BeginKeyless(r, C) PROVE Placing'
    BY <2>1, KeylessBegins
  <2>2. ASSUME NEW r \in Askers, NEW C \in (SUBSET Servers) \ {{}}, NEW rank \in Ranks,
               BeginKeyed(r, C, rank)
        PROVE  Placing'
    BY <2>2, KeyedBegins
  <2>3. ASSUME NEW r \in Askers, Add(r) \/ TestHome(r) \/ Test(r) PROVE Placing'
    BY <2>3, Adding, HomeTests, Tests
  <2>4. ASSUME NEW r \in Askers, ReadSecond(r) \/ ReadFirst(r) PROVE Placing'
    BY <2>4, ReadsSecond, ReadsFirst
  <2>5. ASSUME NEW r \in Askers, Acquire(r) \/ Refused(r) \/ Release(r) PROVE Placing'
    BY <2>5, CounterMoves
  <2>6. CASE UNCHANGED placementVars
    BY <2>6 DEF placementVars, Placing, PlacementTypeOK, AllShaped, CountersExact, On, AtRest, AllKnown
  <2> QED
    BY <2>1, <2>2, <2>3, <2>4, <2>5, <2>6 DEF PlacementNext
<1>2. Placing => PlacedByLoad
  <2> SUFFICES ASSUME Placing, NEW r \in Settled
               PROVE  LET q == ask[r]
                          Full(b) == serving[b] >= Bound(b, q.among, Underway(q.among) + 1)
                      IN  /\ Factor > 0 /\ q.keyed /\ ~q.room => moves[r] > 0
                          /\ Factor > 0 /\ q.keyed /\ q.room =>
                                serving[q.goes] < Bound(q.goes, q.among, Underway(q.among) + moves[r] + 1)
                                                  + moves[r]
                          /\ Factor > 0 /\ q.keyed /\ q.room /\ moves[r] = 0 =>
                                \A b \in q.among : q.rank[b] < q.rank[q.goes] => Full(b)
                          /\ ~q.keyed /\ Cardinality(q.among) > 1 =>
                                \E b \in q.among \ {q.goes} : serving[q.goes] <= serving[b] + moves[r]
    BY DEF PlacedByLoad
  <2>1. r \in Askers /\ ask[r].at = "chosen" /\ Known(ask[r], moves[r], serving)
    BY DEF Settled, Placing, AllKnown
  <2>2. \A C : Served(serving, C) = Underway(C)
    BY DEF Served, Underway
  <2> QED
    BY <2>1, <2>2 DEF Known, KnownSpill, KnownRoom, KnownFirst, KnownLess, FullIn
<1> QED
  BY <1>1, <1>2, PlacementStarts, PTL DEF PlacementSpec

-----------------------------------------------------------------------------
(* Sticky sessions.                                                        *)

VisitStages == {"none", "placing", "asking"}

StickyTypeOK ==
    /\ inForce \in DOMAIN Settings
    /\ cookie \in Homes \cup {NoHome}
    /\ visit \in [Visits -> [stage : VisitStages, under : DOMAIN Settings,
                             pinned : Homes \cup {NoHome}, tried : SUBSET Homes,
                             at : Homes \cup {NoHome}, pin : Homes \cup {NoHome},
                             lost : BOOLEAN]]

\* The cookie of v's answer is for its backend, and whoever was pinned is lost.
Pinning(v) ==
    visit[v].stage = "asking" =>
        /\ visit[v].at \in Homes
        /\ visit[v].pin = Renew(v, visit[v].at)
        /\ visit[v].at # visit[v].pinned => visit[v].lost

StickyInv == StickyTypeOK /\ \A v \in Visits : Pinning(v)

\* What the configurations are: there is a first, and each has backends of the pool.
LEMMA SettingsAre ==
    /\ 1 \in DOMAIN Settings
    /\ \A i \in DOMAIN Settings : Settings[i].pool \subseteq Homes
<1> DEFINE Setting == [pool : SUBSET Homes, sticky : BOOLEAN, attempts : Nat \ {0}]
<1>1. Settings \in Seq(Setting) /\ Settings # <<>>
  BY StickyAssumption
<1>2. \A s \in Setting : s.pool \subseteq Homes
  OBVIOUS
<1> HIDE DEF Setting
<1>3. 1 \in DOMAIN Settings /\ \A i \in DOMAIN Settings : Settings[i] \in Setting
  BY <1>1
<1> QED
  BY <1>2, <1>3

\* A step on one request leaves what is known of the others alone.
LEMMA PinningUntouched ==
    ASSUME NEW v, Pinning(v), visit'[v] = visit[v]
    PROVE  Pinning(v)'
BY DEF Pinning, Renew, Of

\* The invariant holds at the start.
LEMMA StickyStarts == StickyInit => StickyInv
<1> SUFFICES ASSUME StickyInit PROVE StickyInv
  OBVIOUS
<1>1. NoVisit.stage = "none"
  BY DEF NoVisit
<1>2. StickyTypeOK
  BY SettingsAre DEF StickyInit, StickyTypeOK, NoVisit, VisitStages
<1> QED
  BY <1>1, <1>2 DEF StickyInit, StickyInv, Pinning

\* An attempt asks the pinned backend, unless it is not to be had (Core.place).
LEMMA AttemptPins ==
    ASSUME StickyInv, NEW v \in Visits, Attempt(v)
    PROVE  StickyTypeOK' /\ Pinning(v)' /\ \A w \in Visits \ {v} : visit'[w] = visit[w]
<1>t. StickyTypeOK
  BY DEF StickyInv
<1>0. PICK C \in (SUBSET (Of(v).pool \ visit[v].tried)) \ {{}} :
          \E b \in Place(v, C) :
              visit' = [visit EXCEPT ![v].stage = "asking", ![v].at = b,
                                     ![v].pin = Renew(v, b), ![v].tried = @ \cup {b},
                                     ![v].lost = @ \/ visit[v].pinned \notin C]
  BY DEF Attempt
<1>1. PICK b \in Place(v, C) :
          visit' = [visit EXCEPT ![v].stage = "asking", ![v].at = b,
                                 ![v].pin = Renew(v, b), ![v].tried = @ \cup {b},
                                 ![v].lost = @ \/ visit[v].pinned \notin C]
  BY <1>0
<1>2. Of(v).pool \subseteq Homes
  BY <1>t, SettingsAre DEF StickyTypeOK, Of
<1>3. b \in C /\ b \in Homes
  BY <1>1, <1>2 DEF Place
<1>4. Renew(v, b) \in Homes \cup {NoHome}
  BY <1>3 DEF Renew
<1>5. visit'[v] = [visit[v] EXCEPT !.stage = "asking", !.at = b, !.pin = Renew(v, b),
                                   !.tried = visit[v].tried \cup {b},
                                   !.lost = visit[v].lost \/ visit[v].pinned \notin C]
  BY <1>1, <1>t DEF StickyTypeOK
<1>6. /\ visit'[v].at = b /\ visit'[v].pin = Renew(v, b)
      /\ visit'[v].lost = (visit[v].lost \/ visit[v].pinned \notin C)
      /\ visit'[v].pinned = visit[v].pinned /\ visit'[v].under = visit[v].under
  BY <1>5, <1>t DEF StickyTypeOK
<1>7. b # visit[v].pinned => visit'[v].lost
  BY <1>1, <1>6 DEF Place
<1>8. Renew(v, b)' = Renew(v, b)
  BY <1>6 DEF Renew, Of
<1>9. Pinning(v)'
  <2>1. Renew(v, visit[v].at)' = Renew(v, b)
    BY <1>6 DEF Renew, Of
  <2> QED
    BY <1>3, <1>6, <1>7, <2>1 DEF Pinning
<1>10. StickyTypeOK'
  BY <1>1, <1>3, <1>4, <1>t DEF StickyTypeOK, Attempt, VisitStages
<1> QED
  BY <1>9, <1>10, <1>1, <1>t DEF StickyTypeOK

\* Every step keeps the invariant.
LEMMA StickyStep == StickyInv /\ [StickyNext]_stickyVars => StickyInv'
<1> SUFFICES ASSUME StickyInv, [StickyNext]_stickyVars PROVE StickyInv'
  OBVIOUS
<1>t. StickyTypeOK /\ \A v \in Visits : Pinning(v)
  BY DEF StickyInv
<1>1. CASE NewSettings
  <2>1. visit' = visit /\ cookie' = cookie /\ inForce' \in DOMAIN Settings
    BY <1>1, <1>t, StickyAssumption DEF NewSettings, StickyTypeOK
  <2> QED
    BY <2>1, <1>t, PinningUntouched DEF StickyInv, StickyTypeOK
<1>2. CASE Expire
  BY <1>2, <1>t, PinningUntouched DEF Expire, StickyInv, StickyTypeOK
<1>3. ASSUME NEW v \in Visits, Visit(v) PROVE StickyInv'
  <2> DEFINE now == Settings[inForce]
             known == now.sticky /\ cookie \in now.pool
             made == [NoVisit EXCEPT !.stage = "placing", !.under = inForce,
                                     !.pinned = IF known THEN cookie ELSE NoHome,
                                     !.lost = ~known]
  <2>1. visit' = [visit EXCEPT ![v] = made] /\ UNCHANGED <<inForce, cookie>>
    BY <1>3 DEF Visit
  <2>2. made \in [stage : VisitStages, under : DOMAIN Settings, pinned : Homes \cup {NoHome},
                  tried : SUBSET Homes, at : Homes \cup {NoHome},
                  pin : Homes \cup {NoHome}, lost : BOOLEAN]
    BY <1>t DEF StickyTypeOK, NoVisit, VisitStages
  <2>3. made.stage = "placing"
    BY DEF NoVisit
  <2> HIDE DEF made
  <2>4. StickyTypeOK' /\ Pinning(v)'
    BY <2>1, <2>2, <2>3, <1>t DEF StickyTypeOK, Pinning
  <2>5. \A w \in Visits \ {v} : visit'[w] = visit[w]
    BY <2>1, <1>t DEF StickyTypeOK
  <2> QED
    BY <2>4, <2>5, <1>t, PinningUntouched DEF StickyInv
<1>4. ASSUME NEW v \in Visits, Attempt(v) PROVE StickyInv'
  BY <1>4, <1>t, AttemptPins, PinningUntouched DEF StickyInv
<1>5. ASSUME NEW v \in Visits, Fail(v) \/ Answer(v) PROVE StickyInv'
  <2>1. \/ visit' = [visit EXCEPT ![v].stage = "placing", ![v].lost = TRUE]
        \/ visit' = [visit EXCEPT ![v] = NoVisit]
    BY <1>5 DEF Fail, Answer
  <2>2. inForce' = inForce /\ cookie' \in Homes \cup {NoHome}
    BY <1>5, <1>t DEF Fail, Answer, StickyTypeOK
  <2>3. NoVisit \in [stage : VisitStages, under : DOMAIN Settings, pinned : Homes \cup {NoHome},
                     tried : SUBSET Homes, at : Homes \cup {NoHome},
                     pin : Homes \cup {NoHome}, lost : BOOLEAN] /\ NoVisit.stage = "none"
    BY SettingsAre DEF NoVisit, VisitStages
  <2>4. StickyTypeOK' /\ visit'[v].stage \in {"placing", "none"}
    BY <2>1, <2>2, <2>3, <1>t DEF StickyTypeOK, VisitStages
  <2>5. Pinning(v)'
    BY <2>4 DEF Pinning
  <2>6. \A w \in Visits \ {v} : visit'[w] = visit[w]
    BY <2>1, <1>t DEF StickyTypeOK
  <2> QED
    BY <2>4, <2>5, <2>6, <1>t, PinningUntouched DEF StickyInv
<1>6. CASE UNCHANGED stickyVars
  BY <1>6, <1>t, PinningUntouched DEF stickyVars, StickyInv, StickyTypeOK
<1> QED
  BY <1>1, <1>2, <1>3, <1>4, <1>5, <1>6 DEF StickyNext

\* In every state of a client's visits, the cookie under way is the one of the backend
\* asked, and one not pinned is asked only if the pinned one was lost (Core.place).
THEOREM StickyInvariant == StickySpec => []StickyInv
BY StickyStarts, StickyStep, PTL DEF StickySpec

\* Only Answer gives the client a cookie.
LEMMA OnlyAnswersPin ==
    ASSUME StickyNext, cookie' # cookie, cookie' # NoHome
    PROVE  \E v \in Visits : Answer(v)
BY DEF StickyNext, NewSettings, Expire, Visit, Attempt, Fail

\* A client is moved only by the answer of the backend it is moved to, and only if
\* the one it was pinned to was lost (Core.place, pins.renew).
THEOREM MovedIsLost == StickySpec => MovedOnlyWhenLost
<1>1. StickyInv /\ [StickyNext]_stickyVars =>
          (cookie' # cookie /\ cookie' # NoHome =>
              \E v \in Visits :
                  visit[v].stage = "asking" /\ visit'[v] = NoVisit /\
                  visit[v].lost /\ visit[v].at = cookie')
  <2> SUFFICES ASSUME StickyInv, [StickyNext]_stickyVars, cookie' # cookie, cookie' # NoHome
               PROVE  \E v \in Visits :
                          visit[v].stage = "asking" /\ visit'[v] = NoVisit /\
                          visit[v].lost /\ visit[v].at = cookie'
    OBVIOUS
  <2>1. PICK v \in Visits : Answer(v)
    BY OnlyAnswersPin DEF stickyVars
  <2>2. /\ visit[v].stage = "asking" /\ visit' = [visit EXCEPT ![v] = NoVisit]
        /\ cookie' = visit[v].pin /\ visit[v].pin # NoHome
    BY <2>1 DEF Answer
  <2>3. visit[v].pin = visit[v].at /\ visit[v].lost
    BY <2>2 DEF StickyInv, Pinning, Renew
  <2>4. visit'[v] = NoVisit
    BY <2>2 DEF StickyInv, StickyTypeOK
  <2> QED
    BY <2>2, <2>3, <2>4
<1> QED
  BY StickyInvariant, <1>1, PTL DEF StickySpec, MovedOnlyWhenLost

\* An answer under sticky sessions leaves the client pinned to who gave it, or comes
\* from the backend it was pinned to (pins.renew).
THEOREM AnswersDoPin == StickySpec => AnswersPin
<1>1. StickyInv => \A v \in Visits :
                Answer(v) /\ Of(v).sticky => visit[v].at \in {visit[v].pinned, cookie'}
  <2> SUFFICES ASSUME StickyInv, NEW v \in Visits, Answer(v), Of(v).sticky,
                      visit[v].at # visit[v].pinned
               PROVE  visit[v].at = cookie'
    OBVIOUS
  <2>1. visit[v].pin = visit[v].at /\ visit[v].at \in Homes
    BY DEF StickyInv, Pinning, Renew, Answer
  <2> QED
    BY <2>1, StickyAssumption DEF Answer
<1> QED
  BY StickyInvariant, <1>1, PTL DEF StickySpec, AnswersPin

\* Sticky sessions keep a client where it is (sticky.go, place).
THEOREM PinsAreHeld == StickySpec => PinsHold
BY MovedIsLost, AnswersDoPin DEF PinsHold

=============================================================================
