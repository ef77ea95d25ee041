-------------------------------- MODULE Sums --------------------------------
(***************************************************************************)
(* Lemmas about what the models add up and count: the sum of a function    *)
(* over a finite set (SumFunctionOnSet), and induction over the members of *)
(* a finite set, with a set of subsets in the place of a property.         *)
(***************************************************************************)
EXTENDS Integers, Functions, FiniteSetTheorems, WellFoundedInduction, TLAPS

\* Every set of naturals has a least member, so that what the code looks for as the
\* first of an order is there.
LEMMA Least == ASSUME NEW T \in SUBSET Nat, T # {} PROVE \E x \in T : \A y \in T : x <= y
<1> DEFINE R == OpToRel(<, Nat)
<1>1. IsWellFoundedOn(R, Nat)
  BY NatLessThanWellFounded
<1>2. \A x, y \in Nat : <<y, x>> \in R <=> y < x
  BY DEF OpToRel
<1> HIDE DEF R
<1>3. PICK x \in T : \A y \in T : ~(<<y, x>> \in R)
  BY <1>1, WFMin
<1>4. \A y \in T : ~(y < x)
  BY <1>2, <1>3
<1>5. \A y \in T : x <= y
  BY <1>4
<1> QED
  BY <1>5

\* And a bounded one a greatest, such as the heaviest weight.
LEMMA Greatest ==
    ASSUME NEW n \in Nat, NEW T \in SUBSET (0..n), T # {}
    PROVE  \E x \in T : \A y \in T : y <= x
<1> DEFINE U == {n - y : y \in T}
<1>1. U \in SUBSET Nat /\ U # {}
  <2>1. \A y \in T : n - y \in Nat
    OBVIOUS
  <2> QED
    BY <2>1
<1>2. PICK u \in U : \A v \in U : u <= v
  BY <1>1, Least
<1>3. PICK x \in T : u = n - x
  BY <1>2
<1>4. \A y \in T : n - x <= n - y
  BY <1>2, <1>3
<1> QED
  BY <1>4

\* What holds of zero, and of the next whenever it holds of a natural, holds of all.
LEMMA Counting ==
    ASSUME NEW P \in SUBSET Nat, 0 \in P, \A n \in P : n + 1 \in P
    PROVE  P = Nat
<1> SUFFICES ASSUME NEW m \in Nat \ P PROVE FALSE
  OBVIOUS
<1>1. PICK x \in Nat \ P : \A y \in Nat \ P : x <= y
  <2>1. (Nat \ P) \in SUBSET Nat /\ Nat \ P # {}
    OBVIOUS
  <2> QED
    BY <2>1, Least
<1>2. x # 0 /\ x - 1 \in Nat /\ (x - 1) + 1 = x
  BY <1>1
<1>3. x - 1 \in P
  BY <1>1, <1>2
<1> QED
  BY <1>1, <1>2, <1>3

\* What holds of the empty set, and of a set with one member more whenever it holds
\* of the set, holds of all of a finite set.
LEMMA Gathering ==
    ASSUME NEW S, IsFiniteSet(S), NEW F \in SUBSET SUBSET S, {} \in F,
           \A s \in F : \A x \in S \ s : s \cup {x} \in F
    PROVE  F = SUBSET S
<1> DEFINE P == {n \in Nat : \A s \in SUBSET S : Cardinality(s) = n => s \in F}
<1>1. \A s \in SUBSET S : IsFiniteSet(s) /\ Cardinality(s) \in Nat
  BY FS_Subset, FS_CardinalityType
<1>2. 0 \in P
  BY <1>1, FS_EmptySet
<1>3. \A n \in P : n + 1 \in P
  <2> SUFFICES ASSUME NEW n \in P, NEW s \in SUBSET S, Cardinality(s) = n + 1 PROVE s \in F
    OBVIOUS
  <2>1. PICK x : x \in s
    <3>1. n \in Nat /\ s # {}
      BY FS_EmptySet
    <3> QED
      BY <3>1
  <2>2. Cardinality(s \ {x}) = n
    <3>1. IsFiniteSet(s) /\ n \in Nat
      BY <1>1
    <3>2. Cardinality(s \ {x}) = Cardinality(s) - 1
      BY <2>1, <3>1, FS_RemoveElement
    <3> QED
      BY <3>1, <3>2
  <2>3. s \ {x} \in F
    BY <2>2
  <2>4. s = (s \ {x}) \cup {x} /\ x \in S \ (s \ {x})
    BY <2>1
  <2> QED
    BY <2>3, <2>4
<1>4. P = Nat
  <2> HIDE DEF P
  <2>1. P \in SUBSET Nat
    BY DEF P
  <2> QED
    BY <1>2, <1>3, <2>1, Counting
<1>5. \A s \in SUBSET S : s \in F
  BY <1>1, <1>4
<1> QED
  BY <1>5

-----------------------------------------------------------------------------
(* Sums *)

\* The member that is added first, and what remains.
Pick(s) == CHOOSE x \in s : TRUE
\* What remains of a set without the member that is added first.
Rest(s) == s \ {Pick(s)}

\* g adds up f over the subsets of D.
Adds(g, f, D) ==
    \A s \in D : g[s] = IF s = {} THEN 0 ELSE f[Pick(s)] + g[Rest(s)]

\* What is picked is a member.
LEMMA Picked == ASSUME NEW s, s # {} PROVE Pick(s) \in s
BY DEF Pick

\* There is a function that does.
LEMMA SumsExist ==
    ASSUME NEW S, IsFiniteSet(S), NEW f \in [S -> Int]
    PROVE  \E g \in [SUBSET S -> Int] : Adds(g, f, SUBSET S)
<1> DEFINE D(n) == {s \in SUBSET S : Cardinality(s) <= n}
           P == {n \in Nat : \E g \in [D(n) -> Int] : Adds(g, f, D(n))}
<1>1. \A s \in SUBSET S : IsFiniteSet(s) /\ Cardinality(s) \in Nat
  BY FS_Subset, FS_CardinalityType
<1>2. ASSUME NEW s \in SUBSET S, s # {}
      PROVE  Pick(s) \in S /\ Rest(s) \in SUBSET S /\ Cardinality(Rest(s)) = Cardinality(s) - 1
  BY <1>1, <1>2, Picked, FS_RemoveElement DEF Rest
<1>3. 0 \in P
  <2> DEFINE g == [s \in D(0) |-> 0]
  <2>1. \A s \in D(0) : s = {}
    BY <1>1, FS_EmptySet
  <2>2. g \in [D(0) -> Int] /\ Adds(g, f, D(0))
    BY <2>1 DEF Adds
  <2> QED
    BY <2>2
<1>4. \A n \in P : n + 1 \in P
  <2> SUFFICES ASSUME NEW n \in P PROVE n + 1 \in P
    OBVIOUS
  <2>1. PICK g \in [D(n) -> Int] : Adds(g, f, D(n))
    OBVIOUS
  <2> DEFINE h == [s \in D(n + 1) |-> IF s \in D(n) THEN g[s] ELSE f[Pick(s)] + g[Rest(s)]]
  <2>2. n \in Nat /\ D(n) \subseteq D(n + 1)
    BY <1>1
  <2>3. {} \in D(n)
    BY <2>2, FS_EmptySet
  <2>4. ASSUME NEW s \in D(n + 1), s # {} PROVE Rest(s) \in D(n) /\ f[Pick(s)] \in Int
    BY <1>1, <1>2, <2>2, <2>4
  <2> HIDE DEF D
  <2>5. h \in [D(n + 1) -> Int]
    <3>1. ASSUME NEW s \in D(n + 1)
          PROVE  (IF s \in D(n) THEN g[s] ELSE f[Pick(s)] + g[Rest(s)]) \in Int
      <4>1. CASE s \in D(n)
        BY <2>1, <4>1
      <4>2. CASE s \notin D(n)
        <5>1. Rest(s) \in D(n) /\ f[Pick(s)] \in Int
          BY <2>3, <2>4, <4>2
        <5>2. g[Rest(s)] \in Int
          BY <2>1, <5>1
        <5> QED
          BY <4>2, <5>1, <5>2
      <4> QED
        BY <4>1, <4>2
    <3> QED
      BY <3>1
  <2>6. ASSUME NEW s \in D(n + 1)
        PROVE  h[s] = IF s = {} THEN 0 ELSE f[Pick(s)] + h[Rest(s)]
    <3>1. CASE s = {}
      BY <2>1, <2>2, <2>3, <3>1 DEF Adds
    <3>2. CASE s # {}
      <4>1. Rest(s) \in D(n) /\ h[Rest(s)] = g[Rest(s)]
        BY <2>2, <2>4, <3>2
      <4>2. s \in D(n) => g[s] = f[Pick(s)] + g[Rest(s)]
        BY <2>1, <3>2 DEF Adds
      <4> QED
        BY <3>2, <4>1, <4>2
    <3> QED
      BY <3>1, <3>2
  <2> HIDE DEF h
  <2>7. Adds(h, f, D(n + 1))
    BY <2>6 DEF Adds
  <2>8. n + 1 \in Nat
    BY <2>2
  <2> QED
    BY <2>5, <2>7, <2>8
<1>5. Cardinality(S) \in P
  <2> HIDE DEF P
  <2>1. P \in SUBSET Nat
    BY DEF P
  <2> QED
    BY <1>1, <1>3, <1>4, <2>1, Counting
<1>6. D(Cardinality(S)) = SUBSET S
  BY FS_Subset
<1> QED
  BY <1>5, <1>6

\* Two functions that add up f agree.
LEMMA SumsAgree ==
    ASSUME NEW S, IsFiniteSet(S), NEW f, NEW g, NEW h,
           Adds(g, f, SUBSET S), Adds(h, f, SUBSET S)
    PROVE  \A s \in SUBSET S : g[s] = h[s]
<1> DEFINE P == {n \in Nat : \A s \in SUBSET S : Cardinality(s) = n => g[s] = h[s]}
<1>1. \A s \in SUBSET S : IsFiniteSet(s) /\ Cardinality(s) \in Nat
  BY FS_Subset, FS_CardinalityType
<1>2. 0 \in P
  BY <1>1, FS_EmptySet DEF Adds
<1>3. \A n \in P : n + 1 \in P
  <2> SUFFICES ASSUME NEW n \in P, NEW s \in SUBSET S, Cardinality(s) = n + 1
               PROVE  g[s] = h[s]
    OBVIOUS
  <2>1. n \in Nat /\ s # {}
    BY FS_EmptySet
  <2>2. Rest(s) \in SUBSET S /\ Cardinality(Rest(s)) = n
    <3>1. Pick(s) \in s /\ IsFiniteSet(s)
      BY <1>1, <2>1, Picked
    <3>2. Cardinality(s \ {Pick(s)}) = Cardinality(s) - 1
      BY <3>1, FS_RemoveElement
    <3> QED
      BY <2>1, <3>2 DEF Rest
  <2>3. g[Rest(s)] = h[Rest(s)]
    BY <2>2
  <2> QED
    BY <2>1, <2>3 DEF Adds
<1>4. P = Nat
  <2> HIDE DEF P
  <2>1. P \in SUBSET Nat
    BY DEF P
  <2> QED
    BY <1>2, <1>3, <2>1, Counting
<1> QED
  BY <1>1, <1>4

\* The sum is what any of them gives.
LEMMA SumIs ==
    ASSUME NEW S, IsFiniteSet(S), NEW f \in [S -> Int], NEW T \in SUBSET S,
           NEW g, Adds(g, f, SUBSET S)
    PROVE  SumFunctionOnSet(f, T) = g[T]
<1> DEFINE Eq(i) == i = [s \in SUBSET T |->
                           IF s = {} THEN 0
                           ELSE f[CHOOSE x \in s : TRUE] + i[s \ {CHOOSE x \in s : TRUE}]]
           iter == CHOOSE i : Eq(i)
           part == [s \in SUBSET T |-> g[s]]
<1>1. Eq(part)
  <2>1. ASSUME NEW s \in SUBSET T
        PROVE  /\ g[s] = IF s = {} THEN 0 ELSE f[Pick(s)] + g[Rest(s)]
               /\ Rest(s) \in SUBSET T
    BY DEF Adds, Rest
  <2> QED
    BY <2>1, Zenon DEF Pick, Rest
<1>2. Eq(iter)
  BY <1>1
<1>3. SumFunctionOnSet(f, T) = iter[T]
  BY DEF SumFunctionOnSet, FoldFunctionOnSet, MapThenFoldSet
<1>4. Adds(iter, f, SUBSET T) /\ Adds(g, f, SUBSET T)
  <2>1. Adds(g, f, SUBSET T)
    BY DEF Adds
  <2>2. ASSUME NEW s \in SUBSET T
        PROVE  iter[s] = IF s = {} THEN 0
                         ELSE f[CHOOSE x \in s : TRUE] + iter[s \ {CHOOSE x \in s : TRUE}]
    <3> HIDE DEF iter
    <3> QED
      BY <1>2
  <2> HIDE DEF iter
  <2> QED
    BY <2>1, <2>2 DEF Adds, Pick, Rest
<1>5. IsFiniteSet(T)
  BY FS_Subset
<1> HIDE DEF iter
<1>6. \A s \in SUBSET T : iter[s] = g[s]
  BY <1>4, <1>5, SumsAgree
<1> QED
  BY <1>3, <1>6

\* Nothing adds up to nothing, one member more adds its value, wherever it is picked.
LEMMA SumMore ==
    ASSUME NEW S, IsFiniteSet(S), NEW f \in [S -> Int]
    PROVE  /\ SumFunctionOnSet(f, {}) = 0
           /\ \A T \in SUBSET S : SumFunctionOnSet(f, T) \in Int
           /\ \A T \in SUBSET S : \A x \in S \ T :
                 SumFunctionOnSet(f, T \cup {x}) = f[x] + SumFunctionOnSet(f, T)
<1>1. PICK g \in [SUBSET S -> Int] : Adds(g, f, SUBSET S)
  BY SumsExist
<1>2. \A T \in SUBSET S : SumFunctionOnSet(f, T) = g[T]
  BY <1>1, SumIs
<1> DEFINE P == {n \in Nat : \A T \in SUBSET S : \A x \in S \ T :
                                Cardinality(T) = n => g[T \cup {x}] = f[x] + g[T]}
<1>3. \A s \in SUBSET S : IsFiniteSet(s) /\ Cardinality(s) \in Nat
  BY FS_Subset, FS_CardinalityType
<1>4. \A s \in SUBSET S : g[s] = IF s = {} THEN 0 ELSE f[Pick(s)] + g[Rest(s)]
  BY <1>1 DEF Adds
<1>5. ASSUME NEW T \in SUBSET S, NEW x \in S \ T, Pick(T \cup {x}) = x
      PROVE  g[T \cup {x}] = f[x] + g[T]
  <2>1. Rest(T \cup {x}) = T /\ T \cup {x} \in SUBSET S /\ T \cup {x} # {}
    BY <1>5 DEF Rest
  <2> QED
    BY <1>4, <1>5, <2>1
<1>6. 0 \in P
  <2> SUFFICES ASSUME NEW T \in SUBSET S, NEW x \in S \ T, Cardinality(T) = 0
               PROVE  g[T \cup {x}] = f[x] + g[T]
    OBVIOUS
  <2>1. T = {}
    BY <1>3, FS_EmptySet
  <2>2. T \cup {x} # {}
    OBVIOUS
  <2>3. Pick(T \cup {x}) \in T \cup {x}
    BY <2>2, Picked
  <2> QED
    BY <1>5, <2>1, <2>3
<1>7. \A n \in P : n + 1 \in P
  <2> SUFFICES ASSUME NEW n \in P, NEW T \in SUBSET S, NEW x \in S \ T, Cardinality(T) = n + 1
               PROVE  g[T \cup {x}] = f[x] + g[T]
    OBVIOUS
  <2> SUFFICES ASSUME Pick(T \cup {x}) # x PROVE g[T \cup {x}] = f[x] + g[T]
    BY <1>5
  <2> DEFINE p == Pick(T \cup {x})
  <2>1. p \in T
    <3>1. T \cup {x} # {}
      OBVIOUS
    <3>2. p \in T \cup {x}
      BY <3>1, Picked
    <3> QED
      BY <3>2
  <2> DEFINE U == T \ {p}
  <2>2. U \in SUBSET S /\ Cardinality(U) = n /\ n \in Nat
    <3>1. n \in Nat /\ IsFiniteSet(T)
      BY <1>3
    <3>2. Cardinality(U) = Cardinality(T) - 1
      BY <2>1, <3>1, FS_RemoveElement
    <3> QED
      BY <3>1, <3>2
  <2>3. Rest(T \cup {x}) = U \cup {x} /\ T = U \cup {p} /\ x \in S \ U /\ p \in S \ U
    BY <2>1 DEF Rest
  <2>4. g[T \cup {x}] = f[p] + g[U \cup {x}]
    <3>1. T \cup {x} \in SUBSET S /\ T \cup {x} # {}
      OBVIOUS
    <3> QED
      BY <1>4, <2>3, <3>1
  <2>5. g[U \cup {x}] = f[x] + g[U] /\ g[U \cup {p}] = f[p] + g[U]
    <3> HIDE DEF U, p
    <3> QED
      BY <2>2, <2>3
  <2>6. g[T] = f[p] + g[U]
    BY <2>3, <2>5
  <2>7. f[x] \in Int /\ f[p] \in Int /\ g[U] \in Int
    BY <1>1, <2>1, <2>2
  <2> HIDE DEF U, p
  <2> QED
    BY <2>4, <2>5, <2>6, <2>7
<1>8. P = Nat
  <2> HIDE DEF P
  <2>1. P \in SUBSET Nat
    BY DEF P
  <2> QED
    BY <1>6, <1>7, <2>1, Counting
<1>9. \A T \in SUBSET S : \A x \in S \ T : g[T \cup {x}] = f[x] + g[T]
  BY <1>3, <1>8
<1> QED
  <2>1. \A T \in SUBSET S : \A x \in S \ T : T \cup {x} \in SUBSET S
    OBVIOUS
  <2>2. g[{}] = 0
    BY <1>4
  <2> QED
    BY <1>1, <1>2, <1>9, <2>1, <2>2

\* Values added pairwise add up to the sums added.
LEMMA SumPlus ==
    ASSUME NEW S, IsFiniteSet(S), NEW f \in [S -> Int], NEW g \in [S -> Int], NEW h \in [S -> Int],
           \A x \in S : h[x] = f[x] + g[x], NEW T \in SUBSET S
    PROVE  SumFunctionOnSet(h, T) = SumFunctionOnSet(f, T) + SumFunctionOnSet(g, T)
<1> DEFINE F == {U \in SUBSET S : SumFunctionOnSet(h, U) = SumFunctionOnSet(f, U)
                                                            + SumFunctionOnSet(g, U)}
<1>1. {} \in F
  BY SumMore
<1>2. \A U \in F : \A x \in S \ U : U \cup {x} \in F
  <2> SUFFICES ASSUME NEW U \in F, NEW x \in S \ U PROVE U \cup {x} \in F
    OBVIOUS
  <2> DEFINE sf == SumFunctionOnSet(f, U)
             sg == SumFunctionOnSet(g, U)
  <2>1. sf \in Int /\ SumFunctionOnSet(f, U \cup {x}) = f[x] + sf
    BY SumMore
  <2>2. sg \in Int /\ SumFunctionOnSet(g, U \cup {x}) = g[x] + sg
    BY SumMore
  <2>3. SumFunctionOnSet(h, U \cup {x}) = h[x] + (sf + sg)
    BY SumMore
  <2>4. h[x] = f[x] + g[x] /\ f[x] \in Int /\ g[x] \in Int
    OBVIOUS
  <2> HIDE DEF sf, sg
  <2>5. SumFunctionOnSet(h, U \cup {x}) = (f[x] + sf) + (g[x] + sg)
    BY <2>1, <2>2, <2>3, <2>4
  <2> QED
    BY <2>1, <2>2, <2>5
<1>3. F \in SUBSET SUBSET S
  OBVIOUS
<1> HIDE DEF F
<1>4. F = SUBSET S
  BY <1>1, <1>2, <1>3, Gathering
<1> QED
  BY <1>4 DEF F

\* Smaller values add up to less, and equal ones to the same.
LEMMA SumAtMost ==
    ASSUME NEW S, IsFiniteSet(S), NEW f \in [S -> Int], NEW g \in [S -> Int], NEW T \in SUBSET S,
           \A x \in T : f[x] <= g[x]
    PROVE  SumFunctionOnSet(f, T) <= SumFunctionOnSet(g, T)
<1> DEFINE F == {U \in SUBSET S : U \subseteq T =>
                                    SumFunctionOnSet(f, U) <= SumFunctionOnSet(g, U)}
<1>1. {} \in F
  BY SumMore
<1>2. \A U \in F : \A x \in S \ U : U \cup {x} \in F
  <2> SUFFICES ASSUME NEW U \in F, NEW x \in S \ U, U \cup {x} \subseteq T
               PROVE  SumFunctionOnSet(f, U \cup {x}) <= SumFunctionOnSet(g, U \cup {x})
    OBVIOUS
  <2>1. /\ SumFunctionOnSet(f, U) \in Int
        /\ SumFunctionOnSet(f, U \cup {x}) = f[x] + SumFunctionOnSet(f, U)
    BY SumMore
  <2>2. /\ SumFunctionOnSet(g, U) \in Int
        /\ SumFunctionOnSet(g, U \cup {x}) = g[x] + SumFunctionOnSet(g, U)
    BY SumMore
  <2>3. f[x] <= g[x] /\ f[x] \in Int /\ g[x] \in Int
    OBVIOUS
  <2>4. SumFunctionOnSet(f, U) <= SumFunctionOnSet(g, U)
    OBVIOUS
  <2> QED
    BY <2>1, <2>2, <2>3, <2>4
<1>3. F \in SUBSET SUBSET S
  OBVIOUS
<1> HIDE DEF F
<1>4. F = SUBSET S
  BY <1>1, <1>2, <1>3, Gathering
<1> QED
  BY <1>4 DEF F

\* Values that are the same add up to the same.
LEMMA SumSame ==
    ASSUME NEW S, IsFiniteSet(S), NEW f \in [S -> Int], NEW g \in [S -> Int], NEW T \in SUBSET S,
           \A x \in T : f[x] = g[x]
    PROVE  SumFunctionOnSet(f, T) = SumFunctionOnSet(g, T)
<1>1. \A x \in T : f[x] <= g[x] /\ g[x] <= f[x]
  OBVIOUS
<1>2. SumFunctionOnSet(f, T) \in Int /\ SumFunctionOnSet(g, T) \in Int
  BY SumMore
<1>3. SumFunctionOnSet(f, T) <= SumFunctionOnSet(g, T)
  BY <1>1, SumAtMost
<1>4. SumFunctionOnSet(g, T) <= SumFunctionOnSet(f, T)
  BY <1>1, SumAtMost
<1> QED
  BY <1>2, <1>3, <1>4

\* Sets apart add up to the sums added.
LEMMA SumJoin ==
    ASSUME NEW S, IsFiniteSet(S), NEW f \in [S -> Int], NEW T \in SUBSET S, NEW A \in SUBSET (S \ T)
    PROVE  SumFunctionOnSet(f, T \cup A) = SumFunctionOnSet(f, T) + SumFunctionOnSet(f, A)
<1> DEFINE F == {U \in SUBSET S : U \cap T = {} =>
                    SumFunctionOnSet(f, T \cup U) = SumFunctionOnSet(f, T) + SumFunctionOnSet(f, U)}
<1>1. {} \in F
  <2>1. T \cup {} = T
    OBVIOUS
  <2> QED
    BY <2>1, SumMore
<1>2. \A U \in F : \A x \in S \ U : U \cup {x} \in F
  <2> SUFFICES ASSUME NEW U \in F, NEW x \in S \ U, (U \cup {x}) \cap T = {}
               PROVE  SumFunctionOnSet(f, T \cup (U \cup {x}))
                          = SumFunctionOnSet(f, T) + SumFunctionOnSet(f, U \cup {x})
    OBVIOUS
  <2>1. /\ SumFunctionOnSet(f, U) \in Int /\ SumFunctionOnSet(f, T) \in Int
        /\ SumFunctionOnSet(f, U \cup {x}) = f[x] + SumFunctionOnSet(f, U)
    BY SumMore
  <2>2. SumFunctionOnSet(f, (T \cup U) \cup {x}) = f[x] + SumFunctionOnSet(f, T \cup U)
    <3> DEFINE V == T \cup U
    <3>1. V \in SUBSET S /\ x \in S \ V
      OBVIOUS
    <3> HIDE DEF V
    <3>2. SumFunctionOnSet(f, V \cup {x}) = f[x] + SumFunctionOnSet(f, V)
      BY <3>1, SumMore
    <3> QED
      BY <3>2 DEF V
  <2>3. (T \cup U) \cup {x} = T \cup (U \cup {x}) /\ U \cap T = {} /\ f[x] \in Int
    OBVIOUS
  <2>4. SumFunctionOnSet(f, T \cup U) = SumFunctionOnSet(f, T) + SumFunctionOnSet(f, U)
    BY <2>3
  <2>5. SumFunctionOnSet(f, T \cup (U \cup {x})) = f[x] + SumFunctionOnSet(f, T \cup U)
    BY <2>2, <2>3
  <2> QED
    BY <2>1, <2>3, <2>4, <2>5
<1>3. F \in SUBSET SUBSET S
  OBVIOUS
<1> HIDE DEF F
<1>4. F = SUBSET S
  BY <1>1, <1>2, <1>3, Gathering
<1>5. A \in SUBSET S /\ A \cap T = {}
  OBVIOUS
<1> QED
  BY <1>4, <1>5 DEF F

\* One value changed changes the sum by as much.
LEMMA SumChange ==
    ASSUME NEW S, IsFiniteSet(S), NEW f \in [S -> Int], NEW g \in [S -> Int], NEW T \in SUBSET S,
           NEW x \in T, \A y \in T \ {x} : g[y] = f[y]
    PROVE  SumFunctionOnSet(g, T) = SumFunctionOnSet(f, T) - f[x] + g[x]
<1> DEFINE R == T \ {x}
<1>1. R \cup {x} = T /\ R \in SUBSET S /\ x \in S \ R /\ f[x] \in Int /\ g[x] \in Int
  OBVIOUS
<1>2. \A y \in R : g[y] = f[y]
  OBVIOUS
<1> HIDE DEF R
<1>3. SumFunctionOnSet(g, R) = SumFunctionOnSet(f, R)
  BY <1>1, <1>2, SumSame
<1>4. SumFunctionOnSet(f, R \cup {x}) = f[x] + SumFunctionOnSet(f, R)
      /\ SumFunctionOnSet(f, R) \in Int
  BY <1>1, SumMore
<1>5. SumFunctionOnSet(g, R \cup {x}) = g[x] + SumFunctionOnSet(g, R)
  BY <1>1, SumMore
<1>6. SumFunctionOnSet(f, T) = f[x] + SumFunctionOnSet(f, R)
  BY <1>1, <1>4
<1>7. SumFunctionOnSet(g, T) = g[x] + SumFunctionOnSet(f, R)
  BY <1>1, <1>3, <1>5
<1> QED
  BY <1>1, <1>4, <1>6, <1>7

\* A value that is the same for all adds up to so many times it.
LEMMA SumConstant ==
    ASSUME NEW S, IsFiniteSet(S), NEW m \in Int, NEW f \in [S -> Int], NEW T \in SUBSET S,
           \A x \in T : f[x] = m
    PROVE  SumFunctionOnSet(f, T) = m * Cardinality(T)
<1> DEFINE F == {U \in SUBSET S : U \subseteq T =>
                                    SumFunctionOnSet(f, U) = m * Cardinality(U)}
<1>1. {} \in F
  BY SumMore, FS_EmptySet
<1>2. \A U \in F : \A x \in S \ U : U \cup {x} \in F
  <2> SUFFICES ASSUME NEW U \in F, NEW x \in S \ U, U \cup {x} \subseteq T
               PROVE  SumFunctionOnSet(f, U \cup {x}) = m * Cardinality(U \cup {x})
    OBVIOUS
  <2>1. SumFunctionOnSet(f, U \cup {x}) = f[x] + SumFunctionOnSet(f, U)
    BY SumMore
  <2>2. f[x] = m /\ SumFunctionOnSet(f, U) = m * Cardinality(U)
    OBVIOUS
  <2>3. IsFiniteSet(U)
    BY FS_Subset
  <2>4. Cardinality(U) \in Nat /\ Cardinality(U \cup {x}) = Cardinality(U) + 1
    BY <2>3, FS_CardinalityType, FS_AddElement
  <2> DEFINE c == Cardinality(U)
  <2> HIDE DEF c
  <2>5. c \in Nat => m + m * c = m * (c + 1)
    OBVIOUS
  <2> QED
    BY <2>1, <2>2, <2>4, <2>5 DEF c
<1>3. F \in SUBSET SUBSET S
  OBVIOUS
<1> HIDE DEF F
<1>4. F = SUBSET S
  BY <1>1, <1>2, <1>3, Gathering
<1> QED
  BY <1>4 DEF F

\* A sum of multiples is the multiple of the sum.
LEMMA SumScale ==
    ASSUME NEW S, IsFiniteSet(S), NEW m \in Int, NEW f \in [S -> Int], NEW g \in [S -> Int],
           NEW T \in SUBSET S, \A x \in S : g[x] = m * f[x]
    PROVE  SumFunctionOnSet(g, T) = m * SumFunctionOnSet(f, T)
<1> DEFINE F == {U \in SUBSET S : SumFunctionOnSet(g, U) = m * SumFunctionOnSet(f, U)}
<1>1. {} \in F
  BY SumMore
<1>2. \A U \in F : \A x \in S \ U : U \cup {x} \in F
  <2> SUFFICES ASSUME NEW U \in F, NEW x \in S \ U
               PROVE  SumFunctionOnSet(g, U \cup {x}) = m * SumFunctionOnSet(f, U \cup {x})
    OBVIOUS
  <2> DEFINE sf == SumFunctionOnSet(f, U)
             sg == SumFunctionOnSet(g, U)
             a == f[x]
  <2>1. /\ sf \in Int /\ sg = m * sf /\ a \in Int /\ g[x] = m * a
        /\ SumFunctionOnSet(g, U \cup {x}) = g[x] + sg
        /\ SumFunctionOnSet(f, U \cup {x}) = a + sf
    BY SumMore
  <2> HIDE DEF sf, sg, a
  <2>2. m * (a + sf) = m * a + m * sf
    BY <2>1
  <2> QED
    BY <2>1, <2>2
<1> HIDE DEF F
<1>3. F \in SUBSET SUBSET S
  BY DEF F
<1>4. F = SUBSET S
  BY <1>1, <1>2, <1>3, Gathering
<1> QED
  BY <1>4 DEF F

=============================================================================
