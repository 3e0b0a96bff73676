--------------------------- MODULE DsaModelProofs ---------------------------
(***************************************************************************)
(* Facts about the operators of DsaModel, PreparedProblem and              *)
(* ReusePenaltySpace that the proofs about the solvers cite: least and     *)
(* largest numbers, the arithmetic of alignment, conflicts, the classes of *)
(* a problem and its search space; and about the orders and the results of *)
(* FirstFitDecoder and the order of the scores.                            *)
(***************************************************************************)
EXTENDS ReusePenaltySpace, FirstFitDecoder, SequencesExt, FiniteSetTheorems, SequenceTheorems,
        WellFoundedInduction, TLAPS

\* A table is the function it was made from.
LEMMA TabulatedIs ==
    ASSUME NEW f
    PROVE  Tabulated(f) = f
  BY DEF Tabulated

\* Division with remainder, for any divisor.
LEMMA DivMod ==
    ASSUME NEW v \in Nat, NEW a \in Nat \ {0}
    PROVE  /\ v \div a \in Nat
           /\ v % a \in 0..(a - 1)
           /\ v = a * (v \div a) + (v % a)
    OBVIOUS

\* Multiples of an alignment are aligned.
LEMMA MultipleAligned ==
    ASSUME NEW k \in Nat, NEW a \in Nat \ {0}
    PROVE  (a * k) % a = 0
    OBVIOUS

\* Every alignment admits offset zero.
LEMMA ZeroAligned ==
    ASSUME NEW a \in Nat \ {0}
    PROVE  Aligned(0, a)
  BY DEF Aligned

\* Two aligned values less than one alignment apart are equal.
LEMMA AlignedGap ==
    ASSUME NEW u \in Nat, NEW w \in Nat, NEW a \in Nat \ {0},
           u % a = 0, w % a = 0, u < w
    PROVE  u + a <= w
<1> DEFINE q == u \div a
           r == w \div a
<1>1. q \in Nat /\ r \in Nat /\ u = a * q /\ w = a * r
  BY DivMod
<1> HIDE DEF q, r
<1>2. q < r
  BY <1>1
<1>3. a * (q + 1) <= a * r
  BY <1>1, <1>2
<1>4. a * (q + 1) = a * q + a
  BY <1>1
<1> QED
  BY <1>1, <1>3, <1>4

\* AlignUp (placement_engine.cpp) returns the least aligned offset at or
\* above its argument.
LEMMA AlignUpLeast ==
    ASSUME NEW v \in Nat, NEW a \in Nat \ {0}
    PROVE  /\ AlignUp(v, a) \in Nat
           /\ AlignUp(v, a) >= v
           /\ Aligned(AlignUp(v, a), a)
           /\ \A w \in Nat : w >= v /\ Aligned(w, a) => w >= AlignUp(v, a)
<1>1. CASE v % a = 0
  BY <1>1 DEF AlignUp, Aligned
<1>2. CASE v % a # 0
  <2> DEFINE q == v \div a
             m == v % a
  <2>1. q \in Nat /\ m \in 1..(a - 1) /\ v = a * q + m
    BY <1>2, DivMod
  <2>2. AlignUp(v, a) = v + (a - m)
    BY <1>2 DEF AlignUp
  <2> HIDE DEF q, m
  <2>3. a * (q + 1) = a * q + a
    BY <2>1
  <2>4. a * q \in Nat
    BY <2>1
  <2>5. AlignUp(v, a) = a * q + a
    BY <2>1, <2>2, <2>4
  <2>6. Aligned(AlignUp(v, a), a)
    BY <2>1, <2>3, <2>5, MultipleAligned DEF Aligned
  <2>7. ASSUME NEW w \in Nat, w >= v, Aligned(w, a)
        PROVE  w >= AlignUp(v, a)
    <3>1. a * q < w
      BY <2>1, <2>4, <2>7
    <3>2. (a * q) % a = 0
      BY <2>1, MultipleAligned
    <3> QED
      BY <2>4, <2>5, <2>7, <3>1, <3>2, AlignedGap DEF Aligned
  <2> QED
    BY <2>1, <2>4, <2>5, <2>6, <2>7
<1> QED
  BY <1>1, <1>2

\* Every set of numbers that is not empty has a least one.
LEMMA LeastNatural ==
    ASSUME NEW T \in SUBSET Nat, T # {}
    PROVE  \E m \in T : \A n \in T : m <= n
<1> DEFINE R == {pair \in Nat \X Nat : pair[1] < pair[2]}
<1>1. IsWellFoundedOn(R, Nat)
  BY NatLessThanWellFounded DEF OpToRel
<1>2. PICK m \in T : \A n \in T : <<n, m>> \notin R
  <2> HIDE DEF R
  <2> QED
    BY <1>1, WFMin
<1>3. \A n \in T : ~(n < m)
  BY <1>2
<1> QED
  BY <1>3

LEMMA MinNatural ==
    ASSUME NEW T \in SUBSET Nat, T # {}
    PROVE  Min(T) \in T /\ \A n \in T : Min(T) <= n
  BY LeastNatural DEF Min

\* A set of bounded numbers has a largest one.
LEMMA MaxNatural ==
    ASSUME NEW bound \in Nat, NEW T \in SUBSET (0..bound), T # {}
    PROVE  Max(T) \in T /\ \A n \in T : n <= Max(T)
<1> DEFINE mirrored == {bound - n : n \in T}
<1>1. PICK m \in mirrored : \A n \in mirrored : m <= n
  <2>1. \A n \in T : bound - n \in Nat
    OBVIOUS
  <2>2. mirrored \subseteq Nat /\ mirrored # {}
    BY <2>1
  <2> HIDE DEF mirrored
  <2> QED
    BY <2>2, LeastNatural
<1>2. bound - m \in T /\ \A n \in T : bound - m >= n
  BY <1>1
<1> QED
  BY <1>2 DEF Max

\* Of the finite sets of a family one contains no other.
LEMMA LeastSet ==
    ASSUME NEW S, IsFiniteSet(S), NEW T \in SUBSET SUBSET S, T # {}
    PROVE  \E m \in T : \A n \in T : n \subseteq m => n = m
<1>1. T \subseteq FiniteSubsetsOf(S)
  BY FS_FiniteSubsetsOfFinite
<1>2. IsWellFoundedOn(StrictSubsetOrdering(S), FiniteSubsetsOf(S))
  BY FS_StrictSubsetOrderingWellFounded
<1>3. PICK m \in T : \A n \in T : <<n, m>> \notin StrictSubsetOrdering(S)
  BY <1>1, <1>2, WFMin
<1> QED
  BY <1>3 DEF StrictSubsetOrdering

\* Divisibility is transitive.
LEMMA Divides ==
    ASSUME NEW a \in Nat \ {0}, NEW m \in Nat \ {0}, NEW c \in Nat, m % a = 0, c % m = 0
    PROVE  c % a = 0
<1>1. m = a * (m \div a) /\ m \div a \in Nat
  BY DivMod
<1>2. c = m * (c \div m) /\ c \div m \in Nat
  BY DivMod
<1> DEFINE k == m \div a
           l == c \div m
<1> HIDE DEF k, l
<1>3. c = a * (k * l) /\ k * l \in Nat
  BY <1>1, <1>2 DEF k, l
<1> QED
  BY <1>3, MultipleAligned

\* The least common multiple of two alignments.
LEMMA LeastCommonMultipleDivides ==
    ASSUME NEW a \in Nat \ {0}, NEW b \in Nat \ {0}
    PROVE  /\ LeastCommonMultiple(a, b) \in Nat \ {0}
           /\ LeastCommonMultiple(a, b) % a = 0 /\ LeastCommonMultiple(a, b) % b = 0
<1> DEFINE common == {m \in 1..(a * b) : m % a = 0 /\ m % b = 0}
<1>1. a * b \in Nat \ {0} /\ a * b = b * a
  OBVIOUS
<1>2. (a * b) % a = 0 /\ (b * a) % b = 0
  BY MultipleAligned
<1>3. a * b \in common /\ common \subseteq Nat
  <2> DEFINE c == a * b
  <2>1. c \in Nat \ {0} /\ c % a = 0 /\ c % b = 0
    BY <1>1, <1>2
  <2> HIDE DEF c
  <2> SUFFICES c \in {m \in 1..c : m % a = 0 /\ m % b = 0}
    BY DEF c
  <2> QED
    BY <2>1
<1>4. Min(common) \in common
  <2> HIDE DEF common
  <2> QED
    BY <1>3, MinNatural
<1>5. LeastCommonMultiple(a, b) = Min(common)
  BY DEF LeastCommonMultiple
<1>6. \A m \in common : m \in Nat \ {0} /\ m % a = 0 /\ m % b = 0
  BY <1>1
<1> QED
  BY <1>4, <1>5, <1>6

\* What a divides in two numbers it divides in the remainder of their division.
LEMMA RemainderAligned ==
    ASSUME NEW a \in Nat \ {0}, NEW m \in Nat \ {0}, NEW x \in Nat, x % a = 0, m % a = 0
    PROVE  (x % m) % a = 0
<1> DEFINE r == x % m
           k == x \div m
           u == x \div a
           v == m \div a
<1>1. k \in Nat /\ r \in 0..(m - 1) /\ x = m * k + r
  BY DivMod
<1>2. u \in Nat /\ x = a * u
  <2>1. u \in Nat /\ x = a * u + (x % a)
    BY DivMod
  <2> HIDE DEF u
  <2>2. a * u \in Nat
    BY <2>1
  <2> QED
    BY <2>1, <2>2
<1>3. v \in Nat /\ m = a * v
  <2>1. v \in Nat /\ m = a * v + (m % a)
    BY DivMod
  <2> HIDE DEF v
  <2>2. a * v \in Nat
    BY <2>1
  <2> QED
    BY <2>1, <2>2
<1> HIDE DEF r, k, u, v
<1> DEFINE w == u - v * k
<1>4. r = a * w /\ w \in Int
  <2>1. (a * v) * k = a * (v * k)
    BY <1>1, <1>2, <1>3
  <2>2. a * u - a * (v * k) = a * (u - v * k)
    BY <1>1, <1>2, <1>3
  <2>3. r = a * u - a * (v * k)
    BY <1>1, <1>2, <1>3, <2>1
  <2> QED
    BY <1>1, <1>2, <1>3, <2>2, <2>3
<1>5. w \in Nat
  <2>1. r >= 0
    BY <1>1
  <2> HIDE DEF w
  <2>2. w < 0 => a * w < 0
    BY <1>4
  <2> QED
    BY <1>4, <2>1, <2>2
<1> HIDE DEF w
<1>6. (a * w) % a = 0
  BY <1>5, MultipleAligned
<1> QED
  BY <1>4, <1>6 DEF r

\* Every common multiple is a multiple of the least one.
LEMMA LeastCommonMultipleLeast ==
    ASSUME NEW a \in Nat \ {0}, NEW b \in Nat \ {0}, NEW x \in Nat, x % a = 0, x % b = 0
    PROVE  x % LeastCommonMultiple(a, b) = 0
<1> DEFINE m == LeastCommonMultiple(a, b)
           T == {n \in 1..(a * b) : n % a = 0 /\ n % b = 0}
           r == x % m
<1>1. m \in Nat \ {0} /\ m % a = 0 /\ m % b = 0
  BY LeastCommonMultipleDivides
<1>2. m = Min(T)
  BY DEF LeastCommonMultiple
<1>3. m \in T /\ \A n \in T : m <= n
  <2>1. a * b \in Nat \ {0} /\ (a * b) % a = 0 /\ (b * a) % b = 0 /\ a * b = b * a
    BY MultipleAligned
  <2>2. a * b \in T
    BY <2>1
  <2>3. T \in SUBSET Nat /\ T # {}
    BY <2>2
  <2> HIDE DEF T
  <2> QED
    BY <1>2, <2>3, MinNatural
<1> HIDE DEF m
<1>4. r \in 0..(m - 1) /\ r % a = 0 /\ r % b = 0
  BY <1>1, DivMod, RemainderAligned
<1> HIDE DEF r
<1>5. ASSUME r # 0 PROVE FALSE
  <2>1. a * b \in Nat /\ m <= a * b
    BY <1>3
  <2>2. r \in 1..(a * b)
    BY <1>1, <1>4, <1>5, <2>1
  <2>3. m <= r
    BY <1>3, <1>4, <2>2
  <2> QED
    BY <1>1, <1>4, <2>3
<1> QED
  BY <1>5 DEF r, m

(***************************************************************************)
(* Induction and recursion over numbers and finite sets.  A recursive      *)
(* function is a CHOOSE: one that satisfies its equation has to be found   *)
(* before anything is known of it.                                         *)
(***************************************************************************)
\* Induction up to n for the members of a set.
LEMMA NaturalInduction ==
    ASSUME NEW n \in Nat, NEW T, 0 \in T, \A i \in 1..n : i - 1 \in T => i \in T
    PROVE  \A i \in 0..n : i \in T
<1> DEFINE missing == (0..n) \ T
<1> SUFFICES ASSUME missing # {} PROVE FALSE
  OBVIOUS
<1>1. PICK m \in missing : \A i \in missing : m <= i
  <2>1. missing \in SUBSET Nat
    OBVIOUS
  <2> HIDE DEF missing
  <2> QED
    BY <2>1, LeastNatural
<1>2. m \in 1..n /\ m - 1 \in 0..n /\ ~(m <= m - 1)
  OBVIOUS
<1>3. m - 1 \notin missing
  BY <1>1, <1>2
<1> QED
  BY <1>1, <1>2, <1>3

\* A recursive function over 0..n, its step given by the function D.
IsRecursion(n, base, D, g) == g = [i \in 0..n |-> IF i = 0 THEN base ELSE D[<<i, g[i - 1]>>]]

LEMMA RecursionExists ==
    ASSUME NEW n \in Nat, NEW base, NEW D
    PROVE  \E g : IsRecursion(n, base, D, g)
<1> DEFINE T == {k \in Nat : \E g : IsRecursion(k, base, D, g)}
<1>1. 0 \in T
  <2>1. IsRecursion(0, base, D, [i \in 0..0 |-> base])
    BY DEF IsRecursion
  <2> QED
    BY <2>1
<1>2. ASSUME NEW k \in 1..n, k - 1 \in T PROVE k \in T
  <2>1. PICK g : g = [i \in 0..(k - 1) |-> IF i = 0 THEN base ELSE D[<<i, g[i - 1]>>]]
    BY <1>2 DEF IsRecursion
  <2> DEFINE h == [i \in 0..k |-> IF i = 0 THEN base ELSE D[<<i, g[i - 1]>>]]
  <2>2. \A i \in 0..(k - 1) : h[i] = g[i]
    BY <2>1
  <2>3. \A i \in 0..k : i = 0 \/ h[i - 1] = g[i - 1]
    <3> HIDE DEF h
    <3>1. \A i \in 1..k : i - 1 \in 0..(k - 1)
      OBVIOUS
    <3>2. \A i \in 0..k : i = 0 \/ i \in 1..k
      OBVIOUS
    <3> QED
      BY <2>2, <3>1, <3>2
  <2>4. h = [i \in 0..k |-> IF i = 0 THEN base ELSE D[<<i, h[i - 1]>>]]
    BY <2>3
  <2> HIDE DEF h
  <2>5. k \in Nat
    OBVIOUS
  <2> QED
    BY <2>4, <2>5 DEF IsRecursion
<1> HIDE DEF T
<1>3. n \in T
  BY <1>1, <1>2, NaturalInduction
<1> QED
  BY <1>3 DEF T

\* Its values stay in a set that holds the base and that D keeps.
RecursionIn(n, V, base, D, g) ==
    /\ g \in [0..n -> V]
    /\ g[0] = base /\ \A i \in 1..n : g[i] = D[<<i, g[i - 1]>>]

LEMMA RecursionTyped ==
    ASSUME NEW n \in Nat, NEW V, NEW base \in V, NEW D \in [(1..n) \X V -> V]
    PROVE  \E g : RecursionIn(n, V, base, D, g)
<1>1. PICK g : IsRecursion(n, base, D, g)
  BY RecursionExists
<1>2. /\ g = [i \in 0..n |-> g[i]]
      /\ \A i \in 0..n : g[i] = IF i = 0 THEN base ELSE D[<<i, g[i - 1]>>]
  BY <1>1 DEF IsRecursion
<1>3. 0 \in 0..n /\ \A i \in 1..n : i \in 0..n /\ i # 0
  OBVIOUS
<1>4. g[0] = base /\ \A i \in 1..n : g[i] = D[<<i, g[i - 1]>>]
  BY <1>2, <1>3
<1> DEFINE T == {i \in 0..n : g[i] \in V}
<1>5. 0 \in T
  BY <1>3, <1>4
<1>6. ASSUME NEW i \in 1..n, i - 1 \in T PROVE i \in T
  <2>1. <<i, g[i - 1]>> \in (1..n) \X V
    BY <1>6
  <2> QED
    BY <1>3, <1>4, <2>1
<1> HIDE DEF T
<1>7. \A i \in 0..n : i \in T
  BY <1>5, <1>6, NaturalInduction
<1>8. g \in [0..n -> V]
  BY <1>2, <1>7 DEF T
<1> QED
  BY <1>4, <1>8 DEF RecursionIn

\* Induction over the subsets of a finite set, one element at a time as a fold
\* takes them.
LEMMA SetInduction ==
    ASSUME NEW S, IsFiniteSet(S), NEW T, {} \in T,
           \A s \in SUBSET S : s # {} /\ s \ {CHOOSE x \in s : TRUE} \in T => s \in T
    PROVE  \A s \in SUBSET S : s \in T
<1> DEFINE missing == (SUBSET S) \ T
<1> SUFFICES ASSUME missing # {} PROVE FALSE
  OBVIOUS
<1>1. PICK s \in missing : \A t \in missing : t \subseteq s => t = s
  <2>1. missing \in SUBSET SUBSET S
    OBVIOUS
  <2> HIDE DEF missing
  <2> QED
    BY <2>1, LeastSet
<1> DEFINE x == CHOOSE x \in s : TRUE
<1>2. s # {} /\ x \in s
  OBVIOUS
<1>3. s \ {x} \notin missing
  BY <1>1, <1>2
<1> QED
  BY <1>2, <1>3

\* A finite set of integers has a least and a largest one.
LEMMA FiniteBounds ==
    ASSUME NEW S \in SUBSET Int, IsFiniteSet(S), S # {}
    PROVE  /\ Min(S) \in S /\ \A n \in S : Min(S) <= n
           /\ Max(S) \in S /\ \A n \in S : n <= Max(S)
<1> DEFINE Bounded(s) == s = {} \/ ( /\ \E m \in s : \A n \in s : m <= n
                                   /\ \E m \in s : \A n \in s : n <= m)
           T == {s \in SUBSET S : Bounded(s)}
<1>1. {} \in T
  OBVIOUS
<1>2. ASSUME NEW s \in SUBSET S, s # {}, s \ {CHOOSE x \in s : TRUE} \in T PROVE s \in T
  <2> DEFINE x == CHOOSE x \in s : TRUE
             r == s \ {x}
  <2>1. x \in s /\ s = r \cup {x} /\ x \in Int /\ r \subseteq Int
    BY <1>2
  <2>2. Bounded(r)
    BY <1>2
  <2> HIDE DEF x, r
  <2>3. CASE r = {}
    BY <2>1, <2>3
  <2>4. CASE r # {}
    <3>1. PICK m \in r : \A n \in r : m <= n
      BY <2>2, <2>4
    <3>2. PICK k \in r : \A n \in r : n <= k
      BY <2>2, <2>4
    <3>3. \E l \in s : \A n \in s : l <= n
      <4>1. CASE x <= m
        BY <2>1, <3>1, <4>1
      <4>2. CASE m <= x
        BY <2>1, <3>1, <4>2
      <4> QED
        BY <2>1, <3>1, <4>1, <4>2
    <3>4. \E l \in s : \A n \in s : n <= l
      <4>1. CASE k <= x
        BY <2>1, <3>2, <4>1
      <4>2. CASE x <= k
        BY <2>1, <3>2, <4>2
      <4> QED
        BY <2>1, <3>2, <4>1, <4>2
    <3> QED
      BY <3>3, <3>4
  <2> QED
    BY <2>3, <2>4
<1> HIDE DEF T
<1>3. S \in T
  BY <1>1, <1>2, SetInduction
<1> QED
  BY <1>3 DEF T, Min, Max

\* A fold over the subsets of S, its step given by the function D.
Folded(base, D, g, s) ==
    IF s = {} THEN base
    ELSE D[<<CHOOSE x \in s : TRUE, g[s \ {CHOOSE x \in s : TRUE}]>>]

IsFold(S, base, D, g) == g = [s \in SUBSET S |-> Folded(base, D, g, s)]

LEMMA FoldExists ==
    ASSUME NEW S, IsFiniteSet(S), NEW base, NEW D
    PROVE  \E g : IsFold(S, base, D, g)
<1> DEFINE Small(n) == {s \in SUBSET S : Cardinality(s) <= n}
           T == {n \in Nat : \E g : g = [s \in Small(n) |-> Folded(base, D, g, s)]}
<1>1. \A s \in SUBSET S : IsFiniteSet(s) /\ Cardinality(s) \in Nat
  BY FS_Subset, FS_CardinalityType
<1>2. 0 \in T
  <2>1. \A s \in Small(0) : s = {}
    BY <1>1, FS_EmptySet
  <2>2. [s \in Small(0) |-> Folded(base, D, [t \in Small(0) |-> base], s)] = [t \in Small(0) |-> base]
    BY <2>1 DEF Folded
  <2> QED
    BY <2>2
<1>3. ASSUME NEW m \in 1..Cardinality(S), m - 1 \in T PROVE m \in T
  <2>0. PICK n \in Nat : n = m - 1 /\ m = n + 1
    OBVIOUS
  <2>1. PICK g : g = [s \in Small(n) |-> Folded(base, D, g, s)]
    BY <1>3, <2>0
  <2> DEFINE h == [s \in Small(n + 1) |-> Folded(base, D, g, s)]
  <2>2. \A s \in Small(n) : h[s] = g[s]
    <3>1. Small(n) \subseteq Small(n + 1)
      BY <1>1
    <3> QED
      BY <2>1, <3>1
  <2>3. ASSUME NEW s \in Small(n + 1) PROVE Folded(base, D, h, s) = Folded(base, D, g, s)
    <3>1. CASE s = {}
      BY <3>1 DEF Folded
    <3>2. CASE s # {}
      <4> DEFINE x == CHOOSE x \in s : TRUE
      <4>1. x \in s
        BY <3>2
      <4>2. Cardinality(s \ {x}) = Cardinality(s) - 1
        BY <1>1, <4>1, FS_RemoveElement
      <4>3. s \ {x} \in Small(n)
        BY <1>1, <4>2
      <4>4. h[s \ {x}] = g[s \ {x}]
        BY <2>2, <4>3
      <4> HIDE DEF h
      <4> QED
        BY <3>2, <4>4 DEF Folded
    <3> QED
      BY <3>1, <3>2
  <2>4. h = [s \in Small(n + 1) |-> Folded(base, D, h, s)]
    BY <2>3
  <2> HIDE DEF h, Small
  <2>5. n + 1 \in T
    BY <2>4
  <2> QED
    BY <2>0, <2>5
<1>4. Cardinality(S) \in T
  <2>1. Cardinality(S) \in Nat
    BY <1>1
  <2> HIDE DEF T
  <2> QED
    BY <1>2, <1>3, <2>1, NaturalInduction
<1>5. Small(Cardinality(S)) = SUBSET S
  BY FS_Subset
<1>6. PICK g : g = [s \in Small(Cardinality(S)) |-> Folded(base, D, g, s)]
  BY <1>4
<1> HIDE DEF Small
<1>7. g = [s \in SUBSET S |-> Folded(base, D, g, s)]
  BY <1>5, <1>6
<1> QED
  BY <1>7 DEF IsFold

\* The fold of a function D that stays in V is in V.
LEMMA FoldTyped ==
    ASSUME NEW S, IsFiniteSet(S), NEW V, NEW base \in V, NEW D \in [S \X V -> V],
           NEW g, IsFold(S, base, D, g)
    PROVE  \A s \in SUBSET S : g[s] \in V
<1> DEFINE T == {s \in SUBSET S : g[s] \in V}
<1>1. \A s \in SUBSET S : g[s] = Folded(base, D, g, s)
  BY DEF IsFold
<1>2. {} \in T
  BY <1>1 DEF Folded
<1>3. ASSUME NEW s \in SUBSET S, s # {}, s \ {CHOOSE x \in s : TRUE} \in T PROVE s \in T
  <2>1. (CHOOSE x \in s : TRUE) \in s
    BY <1>3
  <2>2. g[s] = D[<<CHOOSE x \in s : TRUE, g[s \ {CHOOSE x \in s : TRUE}]>>]
    BY <1>1, <1>3 DEF Folded
  <2> QED
    BY <1>3, <2>1, <2>2
<1> HIDE DEF T
<1>4. \A s \in SUBSET S : s \in T
  BY <1>2, <1>3, SetInduction
<1> QED
  BY <1>4 DEF T

\* The function behind the fold of the least common multiples.
LEMMA AlignmentUnfolds ==
    ASSUME NEW S \in SUBSET (Nat \ {0}), IsFiniteSet(S)
    PROVE  \E g : /\ FoldSet(LeastCommonMultiple, 1, S) = g[S]
                  /\ g[{}] = 1
                  /\ \A s \in SUBSET S :
                         s # {} => g[s] = LeastCommonMultiple(CHOOSE x \in s : TRUE,
                                                              g[s \ {CHOOSE x \in s : TRUE}])
<1> DEFINE Step(g, s) ==
               IF s = {} THEN 1
               ELSE LeastCommonMultiple(CHOOSE x \in s : TRUE, g[s \ {CHOOSE x \in s : TRUE}])
           fold == CHOOSE g : g = [s \in SUBSET S |-> Step(g, s)]
<1>1. fold = [s \in SUBSET S |-> Step(fold, s)]
  <2> DEFINE D == [pair \in S \X (Nat \ {0}) |-> LeastCommonMultiple(pair[1], pair[2])]
  <2>1. D \in [S \X (Nat \ {0}) -> Nat \ {0}]
    BY LeastCommonMultipleDivides
  <2>2. PICK g : IsFold(S, 1, D, g)
    BY FoldExists
  <2>3. \A s \in SUBSET S : g[s] \in Nat \ {0}
    <3> DEFINE V == Nat \ {0}
    <3>1. 1 \in V /\ D \in [S \X V -> V]
      BY <2>1
    <3> HIDE DEF D, V
    <3>2. \A s \in SUBSET S : g[s] \in V
      BY <2>2, <3>1, FoldTyped
    <3> QED
      BY <3>2 DEF V
  <2>4. ASSUME NEW s \in SUBSET S PROVE Folded(1, D, g, s) = Step(g, s)
    <3>1. CASE s = {}
      BY <3>1 DEF Folded
    <3>2. CASE s # {}
      <4>1. (CHOOSE x \in s : TRUE) \in s
        BY <3>2
      <4>2. g[s \ {CHOOSE x \in s : TRUE}] \in Nat \ {0}
        BY <2>3
      <4> QED
        BY <3>2, <4>1, <4>2 DEF Folded
    <3> QED
      BY <3>1, <3>2
  <2>5. g = [s \in SUBSET S |-> Step(g, s)]
    <3> HIDE DEF Step, D
    <3> QED
      BY <2>2, <2>4 DEF IsFold
  <2> HIDE DEF Step
  <2> QED
    BY <2>5
<1>2. \A s \in SUBSET S : fold[s] = Step(fold, s)
  <2> HIDE DEF Step, fold
  <2> QED
    BY <1>1
<1>3. FoldSet(LeastCommonMultiple, 1, S) = fold[S]
  BY DEF FoldSet, MapThenFoldSet
<1> HIDE DEF fold
<1>4. fold[{}] = 1
  BY <1>2
<1> QED
  BY <1>2, <1>3, <1>4

\* ClassAlignment: the fold is a common multiple of all alignments, and divides
\* every other.
LEMMA FoldDivides ==
    ASSUME NEW S \in SUBSET (Nat \ {0}), IsFiniteSet(S)
    PROVE  LET multiple == FoldSet(LeastCommonMultiple, 1, S)
           IN  /\ multiple \in Nat \ {0} /\ \A a \in S : multiple % a = 0
               /\ \A n \in Nat : (\A a \in S : n % a = 0) => n % multiple = 0
<1>1. PICK fold : /\ FoldSet(LeastCommonMultiple, 1, S) = fold[S]
                  /\ fold[{}] = 1
                  /\ \A s \in SUBSET S :
                         s # {} => fold[s] = LeastCommonMultiple(CHOOSE x \in s : TRUE,
                                                                 fold[s \ {CHOOSE x \in s : TRUE}])
  BY AlignmentUnfolds
<1> DEFINE T == {s \in SUBSET S :
                    /\ fold[s] \in Nat \ {0} /\ \A a \in s : fold[s] % a = 0
                    /\ \A n \in Nat : (\A a \in s : n % a = 0) => n % fold[s] = 0}
<1>2. {} \in T
  <2>1. \A n \in Nat : n % 1 = 0
    OBVIOUS
  <2> QED
    BY <1>1, <2>1
<1>3. ASSUME NEW s \in SUBSET S, s # {}, s \ {CHOOSE x \in s : TRUE} \in T PROVE s \in T
  <2> DEFINE x == CHOOSE x \in s : TRUE
             rest == fold[s \ {x}]
  <2>1. x \in s /\ x \in Nat \ {0}
    BY <1>3
  <2>2. /\ rest \in Nat \ {0} /\ \A a \in s \ {x} : rest % a = 0
        /\ \A n \in Nat : (\A a \in s \ {x} : n % a = 0) => n % rest = 0
    BY <1>3
  <2>3. fold[s] = LeastCommonMultiple(x, rest)
    BY <1>1, <1>3
  <2> HIDE DEF rest, x
  <2>4. fold[s] \in Nat \ {0} /\ fold[s] % x = 0 /\ fold[s] % rest = 0
    BY <2>1, <2>2, <2>3, LeastCommonMultipleDivides
  <2>5. \A a \in s \ {x} : fold[s] % a = 0
    BY <2>2, <2>4, Divides
  <2>6. ASSUME NEW n \in Nat, \A a \in s : n % a = 0 PROVE n % fold[s] = 0
    BY <2>1, <2>2, <2>3, <2>6, LeastCommonMultipleLeast
  <2> QED
    BY <2>1, <2>4, <2>5, <2>6
<1> HIDE DEF T
<1>4. S \in T
  BY <1>2, <1>3, SetInduction
<1> QED
  BY <1>1, <1>4 DEF T

(***************************************************************************)
(* Saturating sums                                                         *)
(***************************************************************************)
LEMMA SaturatingAddTyped ==
    ASSUME NEW a \in 0..MaxUInt, NEW b \in 0..MaxUInt
    PROVE  /\ SaturatingAdd(a, b) \in 0..MaxUInt
           /\ SaturatingAdd(a, b) = 0 <=> a = 0 /\ b = 0
  BY MaxUIntAssumption DEF SaturatingAdd, AddOverflows

\* One step of the sum of the values of F over the subsets of S.
Summed(F, g, s) ==
    IF s = {} THEN 0
    ELSE SaturatingAdd(F[CHOOSE x \in s : TRUE], g[s \ {CHOOSE x \in s : TRUE}])

SumOver(F, S) == (CHOOSE g : g = [s \in SUBSET S |-> Summed(F, g, s)])[S]

\* Saturating addition takes its summands in any order.
LEMMA SaturatingAddSwaps ==
    ASSUME NEW a \in 0..MaxUInt, NEW b \in 0..MaxUInt, NEW c \in 0..MaxUInt
    PROVE  /\ SaturatingAdd(a, b) = SaturatingAdd(b, a)
           /\ SaturatingAdd(a, SaturatingAdd(b, c)) = SaturatingAdd(b, SaturatingAdd(a, c))
           /\ SaturatingAdd(a, SaturatingAdd(b, c)) = SaturatingAdd(SaturatingAdd(a, b), c)
           /\ SaturatingAdd(0, a) = a
  BY MaxUIntAssumption DEF SaturatingAdd, AddOverflows

\* The terms of a sum over S are words.
InWordsOver(F, S) == \A x \in S : F[x] \in 0..MaxUInt

\* The function behind a sum satisfies its equation.
LEMMA SumRecursion ==
    ASSUME NEW S, IsFiniteSet(S), NEW F, InWordsOver(F, S)
    PROVE  \E g : /\ SumOver(F, S) = g[S]
                  /\ \A s \in SUBSET S : g[s] = Summed(F, g, s)
                  /\ \A s \in SUBSET S : g[s] \in 0..MaxUInt
<1> DEFINE W == 0..MaxUInt
           sum == CHOOSE g : g = [s \in SUBSET S |-> Summed(F, g, s)]
           T == {s \in SUBSET S : sum[s] \in W}
<1>0. 0 \in W
  BY MaxUIntAssumption
<1>1. sum = [s \in SUBSET S |-> Summed(F, sum, s)]
  <2> DEFINE D == [pair \in S \X W |-> SaturatingAdd(F[pair[1]], pair[2])]
  <2>1. D \in [S \X W -> W]
    BY SaturatingAddTyped DEF InWordsOver
  <2>2. PICK g : IsFold(S, 0, D, g)
    BY FoldExists
  <2>3. \A s \in SUBSET S : g[s] \in W
    <3> HIDE DEF D, W
    <3> QED
      BY <1>0, <2>1, <2>2, FoldTyped
  <2>4. ASSUME NEW s \in SUBSET S PROVE Folded(0, D, g, s) = Summed(F, g, s)
    <3>1. CASE s = {}
      BY <3>1 DEF Folded, Summed
    <3>2. CASE s # {}
      <4>1. (CHOOSE x \in s : TRUE) \in s
        BY <3>2
      <4>2. g[s \ {CHOOSE x \in s : TRUE}] \in W
        BY <2>3
      <4> HIDE DEF W
      <4> QED
        BY <3>2, <4>1, <4>2 DEF Folded, Summed
    <3> QED
      BY <3>1, <3>2
  <2>5. g = [s \in SUBSET S |-> Summed(F, g, s)]
    <3> HIDE DEF D
    <3> QED
      BY <2>2, <2>4 DEF IsFold
  <2> QED
    BY <2>5
<1>2. \A s \in SUBSET S : sum[s] = Summed(F, sum, s)
  <2> HIDE DEF sum
  <2> QED
    BY <1>1
<1>3. SumOver(F, S) = sum[S]
  BY DEF SumOver
<1> HIDE DEF sum
<1>4. {} \in T
  BY <1>0, <1>2 DEF Summed
<1>5. ASSUME NEW s \in SUBSET S, s # {}, s \ {CHOOSE x \in s : TRUE} \in T PROVE s \in T
  <2> DEFINE x == CHOOSE x \in s : TRUE
             rest == sum[s \ {x}]
  <2>1. F[x] \in 0..MaxUInt
    BY <1>5 DEF InWordsOver
  <2>2. rest \in 0..MaxUInt
    BY <1>5
  <2>3. sum[s] = SaturatingAdd(F[x], rest)
    BY <1>2, <1>5 DEF Summed
  <2> HIDE DEF rest, x
  <2> QED
    BY <2>1, <2>2, <2>3, SaturatingAddTyped
<1> HIDE DEF T
<1>6. \A s \in SUBSET S : s \in T
  BY <1>4, <1>5, SetInduction
<1> QED
  BY <1>2, <1>3, <1>6 DEF T

\* A sum unfolds at the element its fold takes first.
LEMMA SumUnfolds ==
    ASSUME NEW S, IsFiniteSet(S), NEW F, InWordsOver(F, S)
    PROVE  /\ \A s \in SUBSET S : SumOver(F, s) \in 0..MaxUInt
           /\ SumOver(F, {}) = 0
           /\ \A s \in SUBSET S :
                  s # {} => SumOver(F, s) =
                                SaturatingAdd(F[CHOOSE x \in s : TRUE],
                                              SumOver(F, s \ {CHOOSE x \in s : TRUE}))
<1>1. PICK g : /\ SumOver(F, S) = g[S]
               /\ \A s \in SUBSET S : g[s] = Summed(F, g, s)
               /\ \A s \in SUBSET S : g[s] \in 0..MaxUInt
  BY SumRecursion
<1>2. ASSUME NEW s \in SUBSET S PROVE SumOver(F, s) = g[s]
  <2>1. IsFiniteSet(s) /\ InWordsOver(F, s)
    BY FS_Subset DEF InWordsOver
  <2>2. PICK h : /\ SumOver(F, s) = h[s]
                 /\ \A t \in SUBSET s : h[t] = Summed(F, h, t)
    BY <2>1, SumRecursion
  <2> DEFINE T == {t \in SUBSET s : h[t] = g[t]}
  <2>3. {} \in T
    BY <1>1, <2>2 DEF Summed
  <2>4. ASSUME NEW t \in SUBSET s, t # {}, t \ {CHOOSE x \in t : TRUE} \in T PROVE t \in T
    BY <1>1, <2>2, <2>4 DEF Summed
  <2> HIDE DEF T
  <2>5. s \in T
    BY <2>1, <2>3, <2>4, SetInduction
  <2> QED
    BY <2>2, <2>5 DEF T
<1> QED
  BY <1>1, <1>2 DEF Summed

\* A sum may take any of its elements first.
TakesAny(F, S) ==
    \A s \in SUBSET S : \A x \in s : SumOver(F, s) = SaturatingAdd(F[x], SumOver(F, s \ {x}))

LEMMA SumTakes ==
    ASSUME NEW S, IsFiniteSet(S), NEW F, InWordsOver(F, S)
    PROVE  TakesAny(F, S)
<1> DEFINE Takes(s) == \A x \in s : SumOver(F, s) = SaturatingAdd(F[x], SumOver(F, s \ {x}))
           missing == {s \in SUBSET S : ~Takes(s)}
<1> SUFFICES ASSUME missing # {} PROVE FALSE
  BY DEF TakesAny
<1>1. PICK s \in missing : \A t \in missing : t \subseteq s => t = s
  <2>1. missing \in SUBSET SUBSET S
    OBVIOUS
  <2> HIDE DEF missing
  <2> QED
    BY <2>1, LeastSet
<1>2. PICK x \in s : SumOver(F, s) # SaturatingAdd(F[x], SumOver(F, s \ {x}))
  OBVIOUS
<1> DEFINE y == CHOOSE y \in s : TRUE
<1>3. y \in s /\ SumOver(F, s) = SaturatingAdd(F[y], SumOver(F, s \ {y}))
  BY SumUnfolds
<1>4. x # y
  BY <1>2, <1>3
<1> HIDE DEF y
<1>5. Takes(s \ {x}) /\ Takes(s \ {y})
  <2>1. \A t \in SUBSET S : t \notin missing => Takes(t)
    OBVIOUS
  <2>2. \A z \in s : s \ {z} \in SUBSET S /\ s \ {z} \subseteq s /\ s \ {z} # s
    OBVIOUS
  <2> HIDE DEF Takes, missing
  <2> QED
    BY <1>1, <1>2, <1>3, <2>1, <2>2
<1> DEFINE rest == (s \ {x}) \ {y}
<1>6. rest = (s \ {y}) \ {x} /\ rest \in SUBSET S
  OBVIOUS
<1>7. SumOver(F, s \ {x}) = SaturatingAdd(F[y], SumOver(F, rest))
  BY <1>3, <1>4, <1>5
<1>8. SumOver(F, s \ {y}) = SaturatingAdd(F[x], SumOver(F, rest))
  BY <1>2, <1>4, <1>5, <1>6
<1>9. SumOver(F, rest) \in 0..MaxUInt /\ F[x] \in 0..MaxUInt /\ F[y] \in 0..MaxUInt
  BY <1>2, <1>3, <1>6, SumUnfolds DEF InWordsOver
<1> QED
  BY <1>2, <1>3, <1>7, <1>8, <1>9, SaturatingAddSwaps

\* The sum over two sets that are apart is the sum of their sums.
LEMMA SumJoins ==
    ASSUME NEW S, IsFiniteSet(S), NEW F, InWordsOver(F, S),
           NEW A \in SUBSET S, NEW B \in SUBSET S, A \cap B = {}
    PROVE  SumOver(F, A \cup B) = SaturatingAdd(SumOver(F, A), SumOver(F, B))
<1> DEFINE T == {s \in SUBSET A : SumOver(F, s \cup B) = SaturatingAdd(SumOver(F, s), SumOver(F, B))}
<1>1. \A s \in SUBSET S : SumOver(F, s) \in 0..MaxUInt
  BY SumUnfolds
<1>2. {} \in T
  <2>1. SumOver(F, {}) = 0 /\ {} \cup B = B
    BY SumUnfolds
  <2> QED
    BY <1>1, <2>1, SaturatingAddSwaps
<1>3. ASSUME NEW s \in SUBSET A, s # {}, s \ {CHOOSE x \in s : TRUE} \in T PROVE s \in T
  <2> DEFINE x == CHOOSE x \in s : TRUE
             r == s \ {x}
  <2>1. x \in s /\ F[x] \in 0..MaxUInt /\ x \notin B
    BY <1>3 DEF InWordsOver
  <2>2. r \cup B = (s \cup B) \ {x}
    BY <2>1
  <2>3. SumOver(F, r \cup B) = SaturatingAdd(SumOver(F, r), SumOver(F, B))
    BY <1>3
  <2> HIDE DEF x
  <2>4. SumOver(F, s \cup B) = SaturatingAdd(F[x], SumOver(F, r \cup B))
    <3> DEFINE u == s \cup B
    <3>1. u \in SUBSET S /\ x \in u
      BY <2>1
    <3>2. r \cup B = u \ {x}
      BY <2>2
    <3> HIDE DEF r, u
    <3>3. SumOver(F, u) = SaturatingAdd(F[x], SumOver(F, u \ {x}))
      BY <3>1, SumTakes DEF TakesAny
    <3> QED
      BY <3>2, <3>3 DEF u
  <2>5. SumOver(F, s) = SaturatingAdd(F[x], SumOver(F, r))
    <3>1. s \in SUBSET S
      OBVIOUS
    <3> QED
      BY <2>1, <3>1, SumTakes DEF TakesAny
  <2>6. SumOver(F, r) \in 0..MaxUInt /\ SumOver(F, B) \in 0..MaxUInt
    BY <1>1
  <2> HIDE DEF r
  <2> QED
    BY <2>1, <2>3, <2>4, <2>5, <2>6, SaturatingAddSwaps
<1> HIDE DEF T
<1>4. IsFiniteSet(A)
  BY FS_Subset
<1>5. A \in T
  BY <1>2, <1>3, <1>4, SetInduction
<1> QED
  BY <1>5 DEF T

\* A sum over fewer terms is no larger.
LEMMA SumOfFewer ==
    ASSUME NEW S, IsFiniteSet(S), NEW F, InWordsOver(F, S), NEW A \in SUBSET S, NEW B \in SUBSET A
    PROVE  SumOver(F, B) <= SumOver(F, A)
<1>1. SumOver(F, B \cup (A \ B)) = SaturatingAdd(SumOver(F, B), SumOver(F, A \ B))
  BY SumJoins
<1>2. SumOver(F, B) \in 0..MaxUInt /\ SumOver(F, A \ B) \in 0..MaxUInt
  BY SumUnfolds
<1>3. B \cup (A \ B) = A
  OBVIOUS
<1> QED
  BY <1>1, <1>2, <1>3, MaxUIntAssumption DEF SaturatingAdd, AddOverflows

\* A sum may be taken group by group.
LEMMA SumByGroups ==
    ASSUME NEW J, IsFiniteSet(J), NEW W, InWordsOver(W, J), NEW E, IsFiniteSet(E),
           NEW K \in [E -> SUBSET J], \A d, e \in E : d # e => K[d] \cap K[e] = {},
           NEW F, \A e \in E : F[e] = SumOver(W, K[e])
    PROVE  SumOver(F, E) = SumOver(W, UNION {K[e] : e \in E})
<1> DEFINE T == {s \in SUBSET E : SumOver(F, s) = SumOver(W, UNION {K[e] : e \in s})}
<1>1. InWordsOver(F, E)
  BY SumUnfolds DEF InWordsOver
<1>2. {} \in T
  <2>1. UNION {K[e] : e \in {}} = {}
    OBVIOUS
  <2>2. SumOver(F, {}) = 0 /\ SumOver(W, {}) = 0
    BY <1>1, SumUnfolds
  <2> QED
    BY <2>1, <2>2
<1>3. ASSUME NEW s \in SUBSET E, s # {}, s \ {CHOOSE x \in s : TRUE} \in T PROVE s \in T
  <2> DEFINE x == CHOOSE x \in s : TRUE
             rest == UNION {K[e] : e \in s \ {x}}
  <2>1. x \in s /\ x \in E
    BY <1>3
  <2>2. SumOver(F, s) = SaturatingAdd(F[x], SumOver(F, s \ {x}))
    BY <1>1, <1>3, SumUnfolds
  <2>3. SumOver(F, s \ {x}) = SumOver(W, rest)
    BY <1>3
  <2> HIDE DEF x
  <2>4. K[x] \in SUBSET J /\ rest \in SUBSET J /\ K[x] \cap rest = {}
    BY <2>1
  <2>5. UNION {K[e] : e \in s} = K[x] \cup rest
    BY <2>1
  <2> HIDE DEF rest
  <2>6. SumOver(W, K[x] \cup rest) = SaturatingAdd(SumOver(W, K[x]), SumOver(W, rest))
    BY <2>4, SumJoins
  <2> QED
    BY <2>1, <2>2, <2>3, <2>5, <2>6
<1> HIDE DEF T
<1>4. E \in T
  BY <1>2, <1>3, SetInduction
<1> QED
  BY <1>4 DEF T

\* Renaming what is summed does not change the sum.
Renames(h, A, B, F, G) ==
    /\ B = {h[x] : x \in A}
    /\ \A x, y \in A : h[x] = h[y] => x = y
    /\ \A x \in A : G[h[x]] = F[x]

LEMMA SumRenamed ==
    ASSUME NEW A, IsFiniteSet(A), NEW B, IsFiniteSet(B), NEW F, InWordsOver(F, A), NEW G,
           NEW h, Renames(h, A, B, F, G)
    PROVE  SumOver(F, A) = SumOver(G, B)
<1> DEFINE T == {s \in SUBSET A : SumOver(F, s) = SumOver(G, {h[x] : x \in s})}
<1>0. InWordsOver(G, B)
  BY DEF InWordsOver, Renames
<1>1. TakesAny(F, A) /\ TakesAny(G, B)
  BY <1>0, SumTakes
<1>2. {} \in T
  <2>1. {h[x] : x \in {}} = {}
    OBVIOUS
  <2> QED
    BY <1>0, <2>1, SumUnfolds
<1>3. ASSUME NEW s \in SUBSET A, s # {}, s \ {CHOOSE x \in s : TRUE} \in T PROVE s \in T
  <2> DEFINE x == CHOOSE x \in s : TRUE
             image == {h[z] : z \in s}
  <2>1. x \in s
    BY <1>3
  <2>2. SumOver(F, s \ {x}) = SumOver(G, {h[z] : z \in s \ {x}})
    BY <1>3
  <2> HIDE DEF x
  <2>3. h[x] \in image /\ image \in SUBSET B
    BY <2>1 DEF Renames
  <2>0. {h[z] : z \in s \ {x}} = image \ {h[x]}
    <3>1. \A z \in s : h[z] = h[x] => z = x
      BY <2>1 DEF Renames
    <3> QED
      BY <3>1
  <2>4. SumOver(F, s) = SaturatingAdd(F[x], SumOver(F, s \ {x}))
    BY <1>1, <2>1 DEF TakesAny
  <2> HIDE DEF image
  <2>5. SumOver(G, image) = SaturatingAdd(G[h[x]], SumOver(G, image \ {h[x]}))
    BY <1>1, <2>3 DEF TakesAny
  <2>6. SumOver(F, s) = SumOver(G, image)
    BY <2>1, <2>0, <2>2, <2>4, <2>5 DEF Renames
  <2> QED
    BY <2>6 DEF image
<1> HIDE DEF T
<1>4. A \in T
  BY <1>2, <1>3, SetInduction
<1> QED
  BY <1>4 DEF T, Renames

\* A saturating sum is a word, and zero only if all of its terms are.
LEMMA SumTyped ==
    ASSUME NEW S, IsFiniteSet(S), NEW F \in [S -> 0..MaxUInt]
    PROVE  SumOver(F, S) \in 0..MaxUInt /\ (SumOver(F, S) = 0 <=> \A x \in S : F[x] = 0)
<1> DEFINE T == {s \in SUBSET S : SumOver(F, s) = 0 <=> \A x \in s : F[x] = 0}
<1>1. InWordsOver(F, S)
  BY DEF InWordsOver
<1>2. {} \in T
  BY <1>1, SumUnfolds
<1>3. ASSUME NEW s \in SUBSET S, s # {}, s \ {CHOOSE x \in s : TRUE} \in T PROVE s \in T
  <2> DEFINE x == CHOOSE x \in s : TRUE
             rest == SumOver(F, s \ {x})
  <2>1. x \in s /\ F[x] \in 0..MaxUInt
    BY <1>3
  <2>2. rest = 0 <=> \A y \in s \ {x} : F[y] = 0
    BY <1>3
  <2>3. SumOver(F, s) = SaturatingAdd(F[x], rest) /\ rest \in 0..MaxUInt
    BY <1>1, <1>3, SumUnfolds
  <2> HIDE DEF rest, x
  <2> QED
    BY <2>1, <2>2, <2>3, SaturatingAddTyped
<1> HIDE DEF T
<1>4. S \in T
  BY <1>2, <1>3, SetInduction
<1>5. SumOver(F, S) \in 0..MaxUInt
  BY <1>1, SumUnfolds
<1> QED
  BY <1>4, <1>5 DEF T

\* Larger terms, a larger sum.
LEMMA SumMonotone ==
    ASSUME NEW S, IsFiniteSet(S), NEW F, InWordsOver(F, S), NEW G, InWordsOver(G, S),
           \A x \in S : F[x] <= G[x]
    PROVE  SumOver(F, S) <= SumOver(G, S)
<1> DEFINE T == {s \in SUBSET S : SumOver(F, s) <= SumOver(G, s)}
<1>1. {} \in T
  <2>1. SumOver(F, {}) = 0 /\ SumOver(G, {}) = 0
    BY SumUnfolds
  <2> QED
    BY <2>1
<1>2. ASSUME NEW s \in SUBSET S, s # {}, s \ {CHOOSE x \in s : TRUE} \in T PROVE s \in T
  <2> DEFINE x == CHOOSE x \in s : TRUE
             rest == s \ {x}
  <2>1. x \in s /\ rest \in SUBSET S
    BY <1>2
  <2>2. /\ SumOver(F, s) = SaturatingAdd(F[x], SumOver(F, rest))
        /\ SumOver(G, s) = SaturatingAdd(G[x], SumOver(G, rest))
        /\ SumOver(F, rest) \in 0..MaxUInt /\ SumOver(G, rest) \in 0..MaxUInt
    BY <1>2, <2>1, SumUnfolds
  <2>3. SumOver(F, rest) <= SumOver(G, rest)
    BY <1>2
  <2> HIDE DEF x, rest
  <2>4. F[x] \in 0..MaxUInt /\ G[x] \in 0..MaxUInt /\ F[x] <= G[x]
    BY <2>1 DEF InWordsOver
  <2>5. SumOver(F, s) <= SumOver(G, s)
    BY <2>2, <2>3, <2>4, MaxUIntAssumption DEF SaturatingAdd, AddOverflows
  <2> QED
    BY <2>5
<1> HIDE DEF T
<1>3. S \in T
  BY <1>1, <1>2, SetInduction
<1> QED
  BY <1>3 DEF T

\* A sum that is not saturated stays the same only if its terms do.
LEMMA SumCancels ==
    ASSUME NEW S, IsFiniteSet(S), NEW F, InWordsOver(F, S), NEW G, InWordsOver(G, S),
           \A x \in S : F[x] <= G[x], SumOver(F, S) = SumOver(G, S), SumOver(G, S) # MaxUInt
    PROVE  \A x \in S : F[x] = G[x]
<1> TAKE x \in S
<1> DEFINE rest == S \ {x}
<1>1. /\ SumOver(F, S) = SaturatingAdd(F[x], SumOver(F, rest))
      /\ SumOver(G, S) = SaturatingAdd(G[x], SumOver(G, rest))
  BY SumTakes DEF TakesAny
<1>2. SumOver(F, rest) \in 0..MaxUInt /\ SumOver(G, rest) \in 0..MaxUInt
  BY SumUnfolds
<1>3. SumOver(F, rest) <= SumOver(G, rest)
  <2>1. IsFiniteSet(rest) /\ InWordsOver(F, rest) /\ InWordsOver(G, rest)
    BY FS_Subset DEF InWordsOver
  <2>2. \A y \in rest : F[y] <= G[y]
    OBVIOUS
  <2> HIDE DEF rest
  <2> QED
    BY <2>1, <2>2, SumMonotone
<1>4. F[x] \in 0..MaxUInt /\ G[x] \in 0..MaxUInt /\ F[x] <= G[x]
  BY DEF InWordsOver
<1>5. ASSUME NEW a \in 0..MaxUInt, NEW b \in 0..MaxUInt, NEW c \in 0..MaxUInt, NEW d \in 0..MaxUInt,
             a <= b, c <= d, SaturatingAdd(a, c) = SaturatingAdd(b, d), SaturatingAdd(b, d) # MaxUInt
      PROVE  a = b
  BY <1>5, MaxUIntAssumption DEF SaturatingAdd, AddOverflows
<1> HIDE DEF rest
<1> QED
  BY <1>1, <1>2, <1>3, <1>4, <1>5

\* A sum with one term that is not zero is that term.
LEMMA SumOfOne ==
    ASSUME NEW S, IsFiniteSet(S), NEW F \in [S -> 0..MaxUInt], NEW x \in S,
           \A y \in S \ {x} : F[y] = 0
    PROVE  SumOver(F, S) = F[x]
<1> DEFINE rest == S \ {x}
           G == [y \in rest |-> F[y]]
<1>1. InWordsOver(F, S) /\ IsFiniteSet(rest) /\ InWordsOver(F, rest)
  BY FS_Subset DEF InWordsOver
<1>2. SumOver(F, S) = SaturatingAdd(F[x], SumOver(F, rest))
  BY <1>1, SumTakes DEF TakesAny
<1>3. SumOver(F, rest) = 0
  <2>1. \A y \in rest : F[y] = 0
    OBVIOUS
  <2> DEFINE Zero == [y \in rest |-> 0]
  <2>2. Zero \in [rest -> 0..MaxUInt] /\ \A y \in rest : Zero[y] = 0
    BY MaxUIntAssumption
  <2>3. InWordsOver(Zero, rest)
    BY MaxUIntAssumption DEF InWordsOver
  <2> HIDE DEF rest, Zero
  <2>4. SumOver(Zero, rest) = 0
    BY <1>1, <2>2, SumTyped
  <2>5. SumOver(F, rest) <= SumOver(Zero, rest)
    BY <1>1, <2>1, <2>2, <2>3, SumMonotone
  <2>6. SumOver(F, rest) \in 0..MaxUInt
    BY <1>1, SumUnfolds
  <2> QED
    BY <2>4, <2>5, <2>6, MaxUIntAssumption
<1>4. F[x] \in 0..MaxUInt
  OBVIOUS
<1> HIDE DEF rest
<1> QED
  BY <1>2, <1>3, <1>4, MaxUIntAssumption DEF SaturatingAdd, AddOverflows
-----------------------------------------------------------------------------
(***************************************************************************)
(* Conflicts and classes                                                   *)
(***************************************************************************)
\* A temporal conflict does not depend on the order of its two buffers
\* (validator.cpp).
LEMMA TemporalConflictSymmetric ==
    ASSUME NEW p, NEW a, NEW b, HaveTemporalConflict(p, a, b)
    PROVE  HaveTemporalConflict(p, b, a)
  BY DEF HaveTemporalConflict, TemporallyExcluded, LifetimesOverlap, IntervalsOverlap

\* Conditions under which the pairs of a problem are pairs of its buffers
\* (ValidateProblem).
KnownColocations(p) == \A pair \in p.colocations : KnownPair(p, pair)

\* A class has its own buffer, and no buffer from elsewhere.
LEMMA ClassMembers ==
    ASSUME NEW p, NEW b \in p.buffers
    PROVE  b \in ClassOf(p, b) /\ ClassOf(p, b) \subseteq p.buffers
  BY DEF ClassOf

\* A class is closed under colocation.
LEMMA ClassClosed ==
    ASSUME NEW p, KnownColocations(p), NEW b \in p.buffers
    PROVE  ClosedUnderColocation(p, ClassOf(p, b))
  BY DEF ClassOf, ClosedUnderColocation, KnownColocations, KnownPair

\* Every member names the class.
LEMMA ClassOfMember ==
    ASSUME NEW p, KnownColocations(p), NEW b \in p.buffers, NEW c \in ClassOf(p, b)
    PROVE  c \in p.buffers /\ ClassOf(p, c) = ClassOf(p, b)
<1>1. c \in p.buffers
  BY ClassMembers
<1>2. ClassOf(p, c) \subseteq ClassOf(p, b)
  BY <1>1, ClassClosed, ClassMembers DEF ClassOf
<1>3. b \in ClassOf(p, c)
  <2> SUFFICES ASSUME NEW S \in SUBSET p.buffers, c \in S, ClosedUnderColocation(p, S), b \notin S
               PROVE  FALSE
    BY DEF ClassOf
  <2>1. ClosedUnderColocation(p, p.buffers \ S)
    BY DEF ClosedUnderColocation, KnownColocations, KnownPair
  <2> QED
    BY <2>1 DEF ClassOf
<1>4. ClassOf(p, b) \subseteq ClassOf(p, c)
  BY <1>1, <1>3, ClassClosed, ClassMembers DEF ClassOf
<1> QED
  BY <1>1, <1>2, <1>4

\* A class is the class of each of its members.
LEMMA ClassIsOfMember ==
    ASSUME NEW p, KnownColocations(p), NEW class \in Classes(p)
    PROVE  /\ class # {} /\ class \subseteq p.buffers
           /\ \A b \in class : ClassOf(p, b) = class
  BY ClassMembers, ClassOfMember DEF Classes

\* A solution that keeps colocated buffers together keeps classes together.
LEMMA ColocatedTogether ==
    ASSUME NEW p, NEW sol, KnownColocations(p),
           \A pair \in p.colocations : sol[pair[1]] = sol[pair[2]],
           NEW b \in p.buffers, NEW c \in ClassOf(p, b)
    PROVE  sol[c] = sol[b]
<1> DEFINE together == {x \in p.buffers : sol[x] = sol[b]}
<1>1. ClosedUnderColocation(p, together)
  BY DEF ClosedUnderColocation, KnownColocations, KnownPair
<1> QED
  BY <1>1 DEF ClassOf

\* The size of a class is that of its largest member.
LEMMA ClassSizeLargest ==
    ASSUME NEW p, ProblemTyped(p), NEW class \in SUBSET p.buffers, class # {}
    PROVE  /\ ClassSize(p, class) \in 0..MaxUInt
           /\ \E b \in class : ClassSize(p, class) = p.size[b]
           /\ \A b \in class : p.size[b] <= ClassSize(p, class)
<1> DEFINE sizes == {p.size[b] : b \in class}
<1>1. sizes \in SUBSET (0..MaxUInt) /\ sizes # {} /\ MaxUInt \in Nat
  BY MaxUIntAssumption DEF ProblemTyped
<1>2. Max(sizes) \in sizes /\ \A n \in sizes : n <= Max(sizes)
  <2> HIDE DEF sizes
  <2> QED
    BY <1>1, MaxNatural
<1> QED
  BY <1>1, <1>2 DEF ClassSize

\* The alignment of a class is a multiple of those of its members.
LEMMA ClassAlignmentDivides ==
    ASSUME NEW p, ProblemTyped(p), NEW class \in SUBSET p.buffers,
           \A b \in class : p.alignment[b] # 0
    PROVE  /\ ClassAlignment(p, class) \in Nat \ {0}
           /\ \A b \in class : ClassAlignment(p, class) % p.alignment[b] = 0
           /\ \A n \in Nat : (\A b \in class : n % p.alignment[b] = 0) => n % ClassAlignment(p, class) = 0
<1> DEFINE alignments == {p.alignment[b] : b \in class}
<1>1. alignments \in SUBSET (0..MaxUInt) /\ \A a \in alignments : a # 0
  BY DEF ProblemTyped
<1>2. alignments \in SUBSET (Nat \ {0})
  BY <1>1
<1>3. IsFiniteSet(alignments)
  <2>1. 0 \in Int /\ MaxUInt \in Int
    BY MaxUIntAssumption
  <2>2. IsFiniteSet(0..MaxUInt)
    BY <2>1, FS_Interval
  <2> HIDE DEF alignments
  <2> QED
    BY <1>1, <2>2, FS_Subset
<1>4. /\ FoldSet(LeastCommonMultiple, 1, alignments) \in Nat \ {0}
      /\ \A a \in alignments : FoldSet(LeastCommonMultiple, 1, alignments) % a = 0
      /\ \A n \in Nat : (\A a \in alignments : n % a = 0)
                            => n % FoldSet(LeastCommonMultiple, 1, alignments) = 0
  <2> HIDE DEF alignments
  <2> QED
    BY <1>2, <1>3, FoldDivides
<1> QED
  BY <1>4 DEF ClassAlignment

\* Whether two classes block each other does not depend on their order
\* (BuildPlacementSearchSpace and PlaceWithOrder test either order).
LEMMA BlocksSymmetric ==
    ASSUME NEW p, NEW c, NEW d, Blocks(p, c, d)
    PROVE  Blocks(p, d, c)
<1>1. SuperBuffersConflict(p, c, d) => SuperBuffersConflict(p, d, c)
  BY TemporalConflictSymmetric DEF SuperBuffersConflict
<1>2. Separated(p, c, d) => Separated(p, d, c)
  BY DEF Separated
<1> QED
  BY <1>1, <1>2 DEF Blocks

\* Two ranges overlap whichever is named first.
LEMMA OverlapSymmetric ==
    ASSUME NEW a, NEW m, NEW b, NEW n, AddressRangesOverlap(a, m, b, n)
    PROVE  AddressRangesOverlap(b, n, a, m)
  BY DEF AddressRangesOverlap

\* What is known of a problem whose buffers have ids and whose pairs are of
\* its buffers.
Known(p) == IsFiniteSet(p.buffers) /\ p.buffers \subseteq Nat /\ KnownColocations(p)

\* A representative names its class, and there are no more classes than
\* buffers.
LEMMA RepresentativeOfClass ==
    ASSUME NEW p, Known(p)
    PROVE  \A c \in Classes(p) : Min(c) \in c /\ ClassOf(p, Min(c)) = c
<1> SUFFICES ASSUME NEW c \in Classes(p) PROVE Min(c) \in c /\ ClassOf(p, Min(c)) = c
  OBVIOUS
<1>1. c # {} /\ c \in SUBSET Nat
  BY ClassIsOfMember DEF Known
<1>2. Min(c) \in c
  BY <1>1, MinNatural
<1> QED
  BY <1>2, ClassIsOfMember DEF Known

LEMMA ClassesFinite ==
    ASSUME NEW p, Known(p)
    PROVE  IsFiniteSet(Classes(p))
<1>1. Classes(p) \in SUBSET SUBSET p.buffers
  BY ClassIsOfMember DEF Known
<1>2. IsFiniteSet(SUBSET p.buffers)
  BY FS_SUBSET DEF Known
<1> QED
  BY <1>1, <1>2, FS_Subset

\* The largest of a set and one more number.
LEMMA MaxWith ==
    ASSUME NEW bound \in Nat, NEW T \in SUBSET (0..bound), T # {}, NEW v \in 0..bound
    PROVE  /\ Max(T) \in 0..bound
           /\ Max(T \cup {v}) = Max({Max(T), v})
<1>1. Max(T) \in T /\ \A n \in T : n <= Max(T)
  BY MaxNatural
<1> DEFINE U == T \cup {v}
           V == {Max(T), v}
<1>2. U \in SUBSET (0..bound) /\ U # {} /\ V \in SUBSET (0..bound) /\ V # {}
  BY <1>1
<1> HIDE DEF U, V
<1>3. Max(U) \in U /\ \A n \in U : n <= Max(U)
  BY <1>2, MaxNatural
<1>4. Max(V) \in V /\ \A n \in V : n <= Max(V)
  BY <1>2, MaxNatural
<1>5. Max(U) \in 0..bound /\ Max(V) \in 0..bound /\ Max(T) \in 0..bound
  BY <1>1, <1>2, <1>3, <1>4
<1>6. Max(T) \in U /\ v \in U /\ \A n \in U : n \in T \/ n = v
  BY <1>1 DEF U
<1>7. Max(T) \in V /\ v \in V /\ \A n \in V : n = Max(T) \/ n = v
  BY DEF V
<1>8. Max(U) <= Max(V) /\ Max(V) <= Max(U)
  <2>1. Max(U) \in Int /\ Max(V) \in Int /\ Max(T) \in Int
    BY <1>5
  <2>2. Max(U) = v \/ Max(U) <= Max(T)
    BY <1>1, <1>3, <1>6
  <2>3. Max(U) <= Max(V)
    BY <1>4, <1>7, <2>1, <2>2
  <2>4. Max(V) = Max(T) \/ Max(V) = v
    BY <1>4, <1>7
  <2> QED
    BY <1>3, <1>6, <2>3, <2>4
<1>9. Max(U) = Max(V)
  <2>1. Max(U) \in Int /\ Max(V) \in Int
    BY <1>5
  <2> QED
    BY <1>8, <2>1
<1> QED
  BY <1>1, <1>9 DEF U, V

\* A larger set whose members are bounded by those of a smaller one.
LEMMA MaxSame ==
    ASSUME NEW bound \in Nat, NEW T \in SUBSET (0..bound), NEW U \in SUBSET T, U # {},
           \A n \in T : \E m \in U : n <= m
    PROVE  Max(T) = Max(U)
<1>1. Max(T) \in T /\ \A n \in T : n <= Max(T)
  BY MaxNatural
<1>2. Max(U) \in U /\ \A n \in U : n <= Max(U)
  BY MaxNatural
<1>3. PICK m \in U : Max(T) <= m
  BY <1>1
<1>4. Max(T) \in Int /\ Max(U) \in Int /\ m \in Int
  <2>1. \A n \in T : n \in Int
    OBVIOUS
  <2> QED
    BY <1>1, <1>2, <2>1
<1> QED
  BY <1>1, <1>2, <1>3, <1>4

(***************************************************************************)
(* The search space (BuildReusePenaltySearchSpace)                         *)
(***************************************************************************)
\* What the solvers ask of a problem before they search.
Fixed(p) ==
    /\ PrepareAccepts(p) /\ ~FlexiblePools(p)
    /\ p.pins = {}
    /\ ProblemTyped(p) /\ ObjectiveTyped(p)

LEMMA FixedKnown ==
    ASSUME NEW p, Fixed(p)
    PROVE  /\ Known(p) /\ ValidProblem(p)
           /\ \A b \in p.buffers : p.allowed[b] \subseteq p.pools
<1>1. ValidProblem(p)
  BY DEF Fixed, PrepareAccepts
<1>2. KnownColocations(p) /\ \A b \in p.buffers : p.allowed[b] \subseteq p.pools
  BY <1>1 DEF ValidProblem, ValidBuffer, KnownColocations
<1> QED
  BY <1>1, <1>2 DEF Fixed, ObjectiveTyped, Known

\* Nodes are named by their representatives; the pool of a node is one that all
\* of its members allow.
LEMMA NodesTyped ==
    ASSUME NEW p, Fixed(p), NEW c \in Classes(p)
    PROVE  /\ c # {} /\ c \subseteq p.buffers /\ Min(c) \in c /\ Min(c) \in Nat
           /\ ClassOf(p, Min(c)) = c
           /\ ClassSize(p, c) \in 0..MaxUInt
           /\ PoolOf(p, c) \in ClassPools(p, c) /\ PoolOf(p, c) \in p.pools
           /\ \A q \in ClassPools(p, c) : q = PoolOf(p, c)
<1>1. c # {} /\ c \in SUBSET p.buffers /\ Min(c) \in c /\ ClassOf(p, Min(c)) = c
  BY FixedKnown, ClassIsOfMember, RepresentativeOfClass DEF Known
<1>2. Min(c) \in Nat
  BY <1>1, FixedKnown DEF Known
<1>3. ClassSize(p, c) \in 0..MaxUInt
  BY <1>1, ClassSizeLargest DEF Fixed
<1>4. ClassPools(p, c) # {} /\ ClassPins(p, c) = {}
  BY DEF Fixed, PrepareAccepts, ClassPins
<1>5. PoolOf(p, c) = CHOOSE q \in ClassPools(p, c) : TRUE
  BY <1>4 DEF PoolOf, Pinned
<1>6. PoolOf(p, c) \in ClassPools(p, c)
  BY <1>4, <1>5
<1>7. PoolOf(p, c) \in p.pools
  BY <1>6 DEF ClassPools
<1>8. ASSUME NEW q \in ClassPools(p, c) PROVE q = PoolOf(p, c)
  <2> DEFINE pools == ClassPools(p, c)
  <2>1. IsFiniteSet(pools)
    BY FS_Subset DEF ClassPools, Fixed, ObjectiveTyped
  <2>2. Cardinality(pools) \in Nat /\ ~(Cardinality(pools) > 1)
    BY <2>1, FS_CardinalityType DEF Fixed, FlexiblePools
  <2> HIDE DEF pools
  <2>3. q \in pools /\ PoolOf(p, c) \in pools
    BY <1>6, <1>8 DEF pools
  <2>4. Cardinality(pools \ {q}) = Cardinality(pools) - 1
    BY <2>1, <2>3, FS_RemoveElement
  <2>5. IsFiniteSet(pools \ {q})
    BY <2>1, FS_Subset
  <2>6. Cardinality(pools \ {q}) \in Nat
    BY <2>5, FS_CardinalityType
  <2>7. Cardinality(pools \ {q}) = 0
    BY <2>2, <2>4, <2>6
  <2>8. pools \ {q} = {}
    BY <2>5, <2>7, FS_EmptySet
  <2> QED
    BY <2>3, <2>8
<1> QED
  BY <1>1, <1>2, <1>3, <1>6, <1>7, <1>8

LEMMA NodesNamed ==
    ASSUME NEW p, Fixed(p), NEW c \in Classes(p), NEW d \in Classes(p), Min(c) = Min(d)
    PROVE  c = d
  BY NodesTyped

\* The cost of some penalties together.
PenaltySum(p, I) == SaturatingSum(LAMBDA i : p.penalties[i].cost, I)

Costs(p) == [i \in DOMAIN p.penalties |-> p.penalties[i].cost]

LEMMA PenaltySumTyped ==
    ASSUME NEW p, ObjectiveTyped(p), NEW I \in SUBSET DOMAIN p.penalties
    PROVE  /\ PenaltySum(p, I) = SumOver(Costs(p), I)
           /\ PenaltySum(p, I) \in 0..MaxUInt
<1> DEFINE A(g) == [s \in SUBSET I |->
                       IF s = {} THEN 0
                       ELSE SaturatingAdd(p.penalties[CHOOSE x \in s : TRUE].cost,
                                          g[s \ {CHOOSE x \in s : TRUE}])]
           B(g) == [s \in SUBSET I |-> Summed(Costs(p), g, s)]
<1>1. ASSUME NEW g PROVE A(g) = B(g)
  <2>1. ASSUME NEW s \in SUBSET I, s # {}
        PROVE  Costs(p)[CHOOSE x \in s : TRUE] = p.penalties[CHOOSE x \in s : TRUE].cost
    <3>1. (CHOOSE x \in s : TRUE) \in DOMAIN p.penalties
      BY <2>1
    <3> QED
      BY <3>1 DEF Costs
  <2> QED
    BY <2>1 DEF Summed
<1>2. PenaltySum(p, I) = (CHOOSE g : g = A(g))[I]
  BY DEF PenaltySum, SaturatingSum, MapThenFoldSet
<1>3. SumOver(Costs(p), I) = (CHOOSE g : g = B(g))[I]
  BY DEF SumOver
<1>4. IsFiniteSet(DOMAIN p.penalties) /\ InWordsOver(Costs(p), DOMAIN p.penalties)
  BY DEF ObjectiveTyped, InWordsOver, Costs
<1> HIDE DEF A, B
<1>5. (CHOOSE g : g = A(g)) = (CHOOSE g : g = B(g))
  BY <1>1
<1>6. SumOver(Costs(p), I) \in 0..MaxUInt
  BY <1>4, SumUnfolds
<1> QED
  BY <1>2, <1>3, <1>5, <1>6

\* Neighbours are neighbours of each other, at the same penalty.
SpaceTyped(p, s) ==
    /\ DOMAIN s.pool = Classes(p)
    /\ \A c \in Classes(p) : /\ s.size[c] = ClassSize(p, c) /\ s.size[c] \in 0..MaxUInt
                             /\ s.pool[c] = PoolOf(p, c) /\ s.pool[c] \in p.pools
    /\ s.hard \subseteq Classes(p) \X Classes(p)
    /\ \A c, d : <<c, d>> \in s.hard => c # d /\ <<d, c>> \in s.hard
    /\ \A c, d \in Classes(p) : <<c, d>> \in s.hard <=> c # d /\ Blocks(p, c, d)
    /\ DOMAIN s.soft \subseteq Classes(p) \X Classes(p) /\ IsFiniteSet(DOMAIN s.soft)
    /\ \A c, d : <<c, d>> \in DOMAIN s.soft =>
           c # d /\ <<d, c>> \in DOMAIN s.soft /\ s.soft[<<d, c>>] = s.soft[<<c, d>>]
    /\ \A edge \in DOMAIN s.soft : s.soft[edge] \in 0..MaxUInt

LEMMA SpaceBuilt ==
    ASSUME NEW p, Fixed(p)
    PROVE  SpaceTyped(p, SearchSpace(p))
<1> DEFINE s == SearchSpace(p)
           C == Classes(p)
<1>1. /\ s.pool = [c \in C |-> PoolOf(p, c)]
      /\ s.size = [c \in C |-> ClassSize(p, c)]
      /\ s.hard = {edge \in C \X C : edge[1] # edge[2] /\ Blocks(p, edge[1], edge[2])}
      /\ s.soft = [edge \in SoftEdges(p) |-> PenaltySum(p, PenaltiesBetween(p, edge[1], edge[2]))]
  BY DEF SearchSpace, PenaltySum
<1> HIDE DEF s
<1>2. DOMAIN s.pool = C
  BY <1>1
<1>3. \A c \in C : /\ s.size[c] = ClassSize(p, c) /\ s.size[c] \in 0..MaxUInt
                   /\ s.pool[c] = PoolOf(p, c) /\ s.pool[c] \in p.pools
  BY <1>1, NodesTyped
<1>4. s.hard \subseteq C \X C
  BY <1>1
<1>5. \A c, d \in C : <<c, d>> \in s.hard <=> c # d /\ Blocks(p, c, d)
  BY <1>1
<1>6. \A c, d : <<c, d>> \in s.hard => c # d /\ <<d, c>> \in s.hard
  <2> SUFFICES ASSUME NEW c, NEW d, <<c, d>> \in s.hard PROVE c # d /\ <<d, c>> \in s.hard
    OBVIOUS
  <2>1. c \in C /\ d \in C
    BY <1>4
  <2>2. c # d /\ Blocks(p, d, c)
    BY <1>5, <2>1, BlocksSymmetric
  <2> QED
    BY <1>5, <2>1, <2>2
<1>7. SoftEdges(p) \in SUBSET (C \X C) /\ DOMAIN s.soft = SoftEdges(p)
  BY <1>1 DEF SoftEdges
<1>8. IsFiniteSet(DOMAIN s.soft)
  <2>1. IsFiniteSet(C)
    BY FixedKnown, ClassesFinite
  <2>2. IsFiniteSet(C \X C)
    BY <2>1, FS_Product
  <2> QED
    BY <1>7, <2>2, FS_Subset
<1>9. \A c, d : <<c, d>> \in DOMAIN s.soft =>
          c # d /\ <<d, c>> \in DOMAIN s.soft /\ s.soft[<<d, c>>] = s.soft[<<c, d>>]
  <2> SUFFICES ASSUME NEW c, NEW d, <<c, d>> \in SoftEdges(p)
               PROVE  /\ c # d /\ <<d, c>> \in SoftEdges(p)
                      /\ s.soft[<<d, c>>] = s.soft[<<c, d>>]
    BY <1>7
  <2>1. /\ c \in C /\ d \in C /\ c # d /\ PoolOf(p, c) = PoolOf(p, d)
        /\ ~Blocks(p, c, d) /\ PenaltiesBetween(p, c, d) # {}
    BY DEF SoftEdges
  <2>2. PenaltiesBetween(p, d, c) = PenaltiesBetween(p, c, d)
    <3>1. {c, d} = {d, c}
      OBVIOUS
    <3> QED
      BY <3>1 DEF PenaltiesBetween
  <2>3. ~Blocks(p, d, c)
    BY <2>1, BlocksSymmetric
  <2>4. <<d, c>> \in SoftEdges(p)
    BY <2>1, <2>2, <2>3 DEF SoftEdges
  <2>5. s.soft[<<d, c>>] = s.soft[<<c, d>>]
    <3> DEFINE w(edge) == PenaltySum(p, PenaltiesBetween(p, edge[1], edge[2]))
    <3>1. \A edge \in SoftEdges(p) : s.soft[edge] = w(edge)
      BY <1>1
    <3>2. w(<<d, c>>) = w(<<c, d>>)
      BY <2>2
    <3> HIDE DEF w
    <3> QED
      BY <2>4, <3>1, <3>2
  <2> QED
    BY <2>1, <2>4, <2>5
<1>10. \A edge \in DOMAIN s.soft : s.soft[edge] \in 0..MaxUInt
  <2>1. ASSUME NEW edge \in SoftEdges(p) PROVE s.soft[edge] \in 0..MaxUInt
    <3> DEFINE I == PenaltiesBetween(p, edge[1], edge[2])
    <3>1. I \in SUBSET DOMAIN p.penalties
      BY DEF PenaltiesBetween
    <3>2. s.soft[edge] = PenaltySum(p, I)
      BY <1>1
    <3> HIDE DEF I
    <3> QED
      BY <3>1, <3>2, PenaltySumTyped DEF Fixed
  <2> QED
    BY <1>7, <2>1
<1>11. DOMAIN s.soft \subseteq C \X C
  BY <1>7
<1> QED
  BY <1>2, <1>3, <1>4, <1>5, <1>6, <1>8, <1>9, <1>10, <1>11 DEF SpaceTyped, s

\* The alignments and the penalties of a search space.
LEMMA SpaceWeighs ==
    ASSUME NEW p, Fixed(p), NEW s, s = SearchSpace(p)
    PROVE  /\ \A c \in Classes(p) : /\ s.alignment[c] = ClassAlignment(p, c)
                                    /\ s.alignment[c] \in Nat \ {0}
                                    /\ \A n \in Nat : (\A b \in c : n % p.alignment[b] = 0)
                                                           => Aligned(n, s.alignment[c])
           /\ DOMAIN s.soft = SoftEdges(p)
           /\ \A edge \in SoftEdges(p) :
                  s.soft[edge] = SumOver(Costs(p), PenaltiesBetween(p, edge[1], edge[2]))
<1>1. /\ s.alignment = [c \in Classes(p) |-> ClassAlignment(p, c)]
      /\ s.soft = [edge \in SoftEdges(p) |-> PenaltySum(p, PenaltiesBetween(p, edge[1], edge[2]))]
  BY DEF SearchSpace, PenaltySum
<1>2. ASSUME NEW c \in Classes(p)
      PROVE  /\ ClassAlignment(p, c) \in Nat \ {0}
             /\ \A n \in Nat : (\A b \in c : n % p.alignment[b] = 0) => n % ClassAlignment(p, c) = 0
  <2>1. c \in SUBSET p.buffers /\ \A b \in c : p.alignment[b] # 0
    BY NodesTyped, FixedKnown DEF ValidProblem, ValidBuffer
  <2> QED
    BY <2>1, ClassAlignmentDivides DEF Fixed
<1>3. ASSUME NEW edge \in SoftEdges(p)
      PROVE  s.soft[edge] = SumOver(Costs(p), PenaltiesBetween(p, edge[1], edge[2]))
  <2> DEFINE I == PenaltiesBetween(p, edge[1], edge[2])
  <2>1. I \in SUBSET DOMAIN p.penalties
    BY DEF PenaltiesBetween
  <2>2. s.soft[edge] = PenaltySum(p, I)
    BY <1>1
  <2> HIDE DEF I
  <2>3. s.soft[edge] = SumOver(Costs(p), I)
    BY <2>1, <2>2, PenaltySumTyped DEF Fixed
  <2> QED
    BY <2>3 DEF I
<1>4. DOMAIN s.soft = SoftEdges(p)
  BY <1>1
<1>5. \A c \in Classes(p) : s.alignment[c] = ClassAlignment(p, c)
  BY <1>1
<1> QED
  BY <1>2, <1>3, <1>4, <1>5 DEF Aligned

-----------------------------------------------------------------------------
(***************************************************************************)
(* Arrangements: sequences that list every element of a set once           *)
(***************************************************************************)
Once(s) == \A i, j \in 1..Len(s) : s[i] = s[j] => i = j

Lists(s, S) == \A x : x \in S <=> \E i \in 1..Len(s) : s[i] = x

Arrangement(s, S) == s \in Seq(S) /\ Once(s) /\ Lists(s, S)

\* An arrangement is as long as its set is large.
LEMMA ArrangementLength ==
    ASSUME NEW S, NEW s, Arrangement(s, S)
    PROVE  IsFiniteSet(S) /\ Cardinality(S) = Len(s)
<1>1. /\ Len(s) \in Nat /\ s \in [1..Len(s) -> S]
      /\ \A x \in S : \E i \in 1..Len(s) : s[i] = x
  BY LenProperties DEF Arrangement, Lists
<1>2. s \in Bijection(1..Len(s), S)
  BY <1>1 DEF Arrangement, Once, Bijection, Injection, Surjection, IsInjective
<1>3. ExistsBijection(1..Len(s), S)
  BY <1>2 DEF ExistsBijection
<1>4. IsFiniteSet(1..Len(s)) /\ Cardinality(1..Len(s)) = Len(s)
  <2>1. 1 \in Int /\ Len(s) \in Int /\ Len(s) >= 0
    BY <1>1
  <2>2. IsFiniteSet(1..Len(s))
    BY <2>1, FS_Interval
  <2>3. Cardinality(1..Len(s)) = IF 1 > Len(s) THEN 0 ELSE Len(s) - 1 + 1
    BY <2>1, FS_Interval
  <2> QED
    BY <2>1, <2>2, <2>3
<1> QED
  BY <1>3, <1>4, FS_Bijection

\* Arrangements of disjoint sets, one behind the other.
LEMMA ArrangementsJoined ==
    ASSUME NEW S, NEW T, S \cap T = {}, NEW s, NEW t, Arrangement(s, S), Arrangement(t, T)
    PROVE  /\ Arrangement(s \o t, S \cup T)
           /\ Len(s \o t) = Len(s) + Len(t)
<1> DEFINE m == Len(s)
           n == Len(t)
           st == s \o t
<1>1. s \in Seq(S \cup T) /\ t \in Seq(S \cup T)
  <2>1. s \in Seq(S) /\ t \in Seq(T) /\ S \subseteq S \cup T /\ T \subseteq S \cup T
    BY DEF Arrangement
  <2> QED
    BY <2>1, SeqMonotonic
<1>2. m \in Nat /\ n \in Nat
  BY <1>1, LenProperties
<1>3. /\ st \in Seq(S \cup T) /\ Len(st) = m + n
      /\ \A i \in 1..(m + n) : st[i] = IF i <= m THEN s[i] ELSE t[i - m]
  BY <1>1, ConcatProperties
<1>4. /\ \A x : x \in S <=> \E i \in 1..m : s[i] = x
      /\ \A x : x \in T <=> \E i \in 1..n : t[i] = x
  BY DEF Arrangement, Lists
<1>5. /\ \A i, j \in 1..m : s[i] = s[j] => i = j
      /\ \A i, j \in 1..n : t[i] = t[j] => i = j
  BY DEF Arrangement, Once
<1> HIDE DEF m, n, st
<1>6. /\ \A i \in 1..m : i \in 1..(m + n) /\ st[i] = s[i]
      /\ \A i \in 1..n : i + m \in 1..(m + n) /\ st[i + m] = t[i]
  <2>1. \A i \in 1..n : i + m - m = i /\ ~(i + m <= m) /\ i + m \in 1..(m + n)
    BY <1>2
  <2>2. \A i \in 1..m : i \in 1..(m + n) /\ i <= m
    BY <1>2
  <2>3. \A i \in 1..m : st[i] = s[i]
    BY <1>3, <2>2
  <2>4. \A i \in 1..n : st[i + m] = t[i]
    <3> TAKE i \in 1..n
    <3> DEFINE k == i + m
    <3>1. k \in 1..(m + n) /\ ~(k <= m) /\ k - m = i
      BY <1>2, <2>1
    <3> HIDE DEF k
    <3>2. st[k] = t[k - m]
      BY <1>3, <3>1
    <3> QED
      BY <3>1, <3>2 DEF k
  <2> QED
    BY <2>1, <2>2, <2>3, <2>4
<1>7. \A i \in 1..(m + n) : i \in 1..m \/ \E k \in 1..n : i = k + m
  <2>1. \A i \in 1..(m + n) : i \in 1..m \/ (i - m \in 1..n /\ i = (i - m) + m)
    BY <1>2
  <2> QED
    BY <2>1
<1>8. \A x : x \in S \cup T <=> \E i \in 1..(m + n) : st[i] = x
  <2>1. ASSUME NEW x \in S \cup T PROVE \E i \in 1..(m + n) : st[i] = x
    BY <1>4, <1>6
  <2>2. ASSUME NEW i \in 1..(m + n) PROVE st[i] \in S \cup T
    BY <1>4, <1>6, <1>7
  <2> QED
    BY <2>1, <2>2
<1>9. ASSUME NEW i \in 1..(m + n), NEW j \in 1..(m + n), st[i] = st[j] PROVE i = j
  <2>1. CASE i \in 1..m /\ j \in 1..m
    BY <1>5, <1>6, <1>9, <2>1
  <2>2. CASE (\E k \in 1..n : i = k + m) /\ \E k \in 1..n : j = k + m
    BY <1>5, <1>6, <1>9, <2>2
  <2>3. CASE i \in 1..m /\ \E k \in 1..n : j = k + m
    BY <1>4, <1>6, <1>9, <2>3
  <2>4. CASE (\E k \in 1..n : i = k + m) /\ j \in 1..m
    BY <1>4, <1>6, <1>9, <2>4
  <2> QED
    BY <1>7, <2>1, <2>2, <2>3, <2>4
<1>10. Once(st) /\ Lists(st, S \cup T)
  BY <1>3, <1>8, <1>9 DEF Once, Lists
<1> QED
  BY <1>3, <1>10 DEF Arrangement, m, n, st

\* A part of an arrangement.
LEMMA ArrangementPart ==
    ASSUME NEW S, NEW s, Arrangement(s, S), NEW m \in 1..(Len(s) + 1), NEW n \in 0..Len(s)
    PROVE  LET part == SubSeq(s, m, n)
           IN  /\ Arrangement(part, {s[i] : i \in m..n})
               /\ Len(part) = (IF m <= n THEN n - m + 1 ELSE 0)
               /\ \A i \in 1..Len(part) : part[i] = s[m + i - 1]
<1> DEFINE part == SubSeq(s, m, n)
           P == {s[i] : i \in m..n}
           l == Len(s)
<1>1. l \in Nat /\ m \in 1..(l + 1) /\ n \in 0..l
  BY LenProperties DEF Arrangement
<1>2. /\ part \in Seq(P) /\ Len(part) = (IF m <= n THEN n - m + 1 ELSE 0)
      /\ \A i \in 1..(n - m + 1) : part[i] = s[m + i - 1]
  <2>1. m \in Int /\ n \in Int /\ \A i \in m..n : s[i] \in P
    BY <1>1
  <2> HIDE DEF P
  <2>2. part \in Seq(P)
    BY <2>1, SubSeqProperties
  <2>3. Len(part) = (IF m <= n THEN n - m + 1 ELSE 0)
    BY <2>1, SubSeqProperties
  <2>4. \A i \in 1..(n - m + 1) : part[i] = s[m + i - 1]
    BY <2>1, SubSeqProperties
  <2> QED
    BY <2>2, <2>3, <2>4
<1>3. \A i, j \in 1..l : s[i] = s[j] => i = j
  BY DEF Arrangement, Once
<1> HIDE DEF part, l
<1>4. /\ \A i \in 1..Len(part) : m + i - 1 \in m..n /\ part[i] = s[m + i - 1]
      /\ \A i \in m..n : i - m + 1 \in 1..Len(part) /\ part[i - m + 1] = s[i]
  <2>1. \A i \in m..n : i - m + 1 \in 1..(n - m + 1) /\ m + (i - m + 1) - 1 = i
    BY <1>1
  <2>2. \A i \in 1..Len(part) : i \in 1..(n - m + 1) /\ m + i - 1 \in m..n
    BY <1>1, <1>2
  <2>3. \A i \in m..n : i - m + 1 \in 1..Len(part)
    BY <1>1, <1>2
  <2>4. \A i \in m..n : part[i - m + 1] = s[i]
    <3> TAKE i \in m..n
    <3>1. part[i - m + 1] = s[m + (i - m + 1) - 1]
      BY <1>2, <2>1
    <3> QED
      BY <2>1, <3>1
  <2> QED
    BY <1>2, <2>2, <2>3, <2>4
<1>5. Lists(part, P)
  <2>1. ASSUME NEW x \in P PROVE \E i \in 1..Len(part) : part[i] = x
    <3>1. PICK i \in m..n : x = s[i]
      OBVIOUS
    <3> QED
      BY <1>4, <3>1
  <2>2. ASSUME NEW i \in 1..Len(part) PROVE part[i] \in P
    <3>1. m + i - 1 \in m..n /\ part[i] = s[m + i - 1]
      BY <1>4
    <3> QED
      BY <3>1
  <2> HIDE DEF P
  <2> QED
    BY <2>1, <2>2 DEF Lists
<1>6. Once(part)
  <2> SUFFICES ASSUME NEW i \in 1..Len(part), NEW j \in 1..Len(part), part[i] = part[j]
               PROVE  i = j
    BY DEF Once
  <2>1. m + i - 1 \in m..n /\ m + j - 1 \in m..n /\ s[m + i - 1] = s[m + j - 1]
    BY <1>4
  <2>2. m..n \subseteq 1..l
    BY <1>1
  <2>3. m + i - 1 = m + j - 1
    BY <1>3, <2>1, <2>2
  <2>4. i \in Int /\ j \in Int
    BY <1>1, <1>2
  <2> QED
    BY <1>1, <2>3, <2>4
<1>7. Arrangement(part, P)
  BY <1>2, <1>5, <1>6 DEF Arrangement
<1>8. \A i \in 1..Len(part) : part[i] = s[m + i - 1]
  BY <1>4
<1> QED
  BY <1>2, <1>7, <1>8 DEF part

\* RemoveAt and InsertAt.
LEMMA ArrangementRemoved ==
    ASSUME NEW S, NEW s, Arrangement(s, S), NEW i \in 1..Len(s)
    PROVE  /\ Arrangement(RemoveAt(s, i), S \ {s[i]})
           /\ Len(RemoveAt(s, i)) = Len(s) - 1
<1> DEFINE l == Len(s)
           A == {s[k] : k \in 1..(i - 1)}
           B == {s[k] : k \in (i + 1)..l}
           front == SubSeq(s, 1, i - 1)
           back == SubSeq(s, i + 1, l)
<1>1. /\ l \in Nat /\ i \in 1..l
      /\ \A a, b \in 1..l : s[a] = s[b] => a = b
      /\ \A x : x \in S <=> \E k \in 1..l : s[k] = x
  BY LenProperties DEF Arrangement, Once, Lists
<1>2. Arrangement(front, A) /\ Len(front) = i - 1
  <2>1. 1 \in 1..(Len(s) + 1) /\ i - 1 \in 0..Len(s) /\ i - 1 - 1 + 1 = i - 1
    BY <1>1
  <2>2. Arrangement(front, A) /\ Len(front) = IF 1 <= i - 1 THEN i - 1 - 1 + 1 ELSE 0
    BY <2>1, ArrangementPart
  <2> QED
    BY <1>1, <2>1, <2>2
<1>3. Arrangement(back, B) /\ Len(back) = l - i
  <2>1. i + 1 \in 1..(Len(s) + 1) /\ l \in 0..Len(s)
    BY <1>1
  <2>2. Arrangement(back, B) /\ Len(back) = IF i + 1 <= l THEN l - (i + 1) + 1 ELSE 0
    BY <2>1, ArrangementPart
  <2>3. (IF i + 1 <= l THEN l - (i + 1) + 1 ELSE 0) = l - i
    BY <1>1
  <2> QED
    BY <2>2, <2>3
<1>4. A \cap B = {} /\ A \cup B = S \ {s[i]}
  <2>1. A \cap B = {}
    BY <1>1
  <2>2. \A k \in 1..l : k \in 1..(i - 1) \/ k = i \/ k \in (i + 1)..l
    BY <1>1
  <2>3. /\ \A k \in 1..(i - 1) : k \in 1..l /\ k # i
        /\ \A k \in (i + 1)..l : k \in 1..l /\ k # i
    BY <1>1
  <2>4. A \cup B \subseteq S \ {s[i]}
    BY <1>1, <2>3
  <2>5. S \ {s[i]} \subseteq A \cup B
    BY <1>1, <2>2
  <2> QED
    BY <2>1, <2>4, <2>5
<1> HIDE DEF A, B, front, back, l
<1>5. Arrangement(front \o back, A \cup B) /\ Len(front \o back) = Len(front) + Len(back)
  BY <1>2, <1>3, <1>4, ArrangementsJoined
<1>6. RemoveAt(s, i) = front \o back
  BY DEF RemoveAt, front, back, l
<1>7. Len(front \o back) = l - 1
  BY <1>1, <1>2, <1>3, <1>5
<1> QED
  BY <1>4, <1>5, <1>6, <1>7 DEF l

LEMMA ArrangementOfOne ==
    ASSUME NEW e
    PROVE  Arrangement(<<e>>, {e}) /\ Len(<<e>>) = 1
<1>1. Len(<<e>>) = 1 /\ <<e>> \in Seq({e}) /\ <<e>>[1] = e
  OBVIOUS
<1> QED
  BY <1>1 DEF Arrangement, Once, Lists

\* A sequence put into another one, from its position i.
Splice(s, t, i) == SubSeq(s, 1, i - 1) \o t \o SubSeq(s, i, Len(s))

LEMMA ArrangementSpliced ==
    ASSUME NEW S, NEW s, Arrangement(s, S), NEW T, NEW t, Arrangement(t, T), S \cap T = {},
           NEW i \in 1..(Len(s) + 1)
    PROVE  Arrangement(Splice(s, t, i), S \cup T) /\ Len(Splice(s, t, i)) = Len(s) + Len(t)
<1> DEFINE l == Len(s)
           A == {s[k] : k \in 1..(i - 1)}
           B == {s[k] : k \in i..l}
           front == SubSeq(s, 1, i - 1)
           back == SubSeq(s, i, l)
<1>1. /\ l \in Nat /\ i \in 1..(l + 1)
      /\ \A a, b \in 1..l : s[a] = s[b] => a = b
      /\ \A x : x \in S <=> \E k \in 1..l : s[k] = x
  BY LenProperties DEF Arrangement, Once, Lists
<1>2. Arrangement(front, A) /\ Len(front) = i - 1
  <2>1. 1 \in 1..(Len(s) + 1) /\ i - 1 \in 0..Len(s) /\ i - 1 - 1 + 1 = i - 1
    BY <1>1
  <2>2. Arrangement(front, A) /\ Len(front) = IF 1 <= i - 1 THEN i - 1 - 1 + 1 ELSE 0
    BY <2>1, ArrangementPart
  <2> QED
    BY <1>1, <2>1, <2>2
<1>3. Arrangement(back, B) /\ Len(back) = l - i + 1
  <2>1. i \in 1..(Len(s) + 1) /\ l \in 0..Len(s)
    BY <1>1
  <2>2. Arrangement(back, B) /\ Len(back) = IF i <= l THEN l - i + 1 ELSE 0
    <3>1. Arrangement(s, S)
      OBVIOUS
    <3> QED
      BY <2>1, <3>1, ArrangementPart
  <2>3. (IF i <= l THEN l - i + 1 ELSE 0) = l - i + 1
    BY <1>1
  <2> QED
    BY <2>2, <2>3
<1>4. A \cap B = {} /\ A \cup B = S
  <2>1. A \cap B = {}
    BY <1>1
  <2>2. \A k \in 1..l : k \in 1..(i - 1) \/ k \in i..l
    BY <1>1
  <2>3. 1..(i - 1) \subseteq 1..l /\ i..l \subseteq 1..l
    BY <1>1
  <2> QED
    BY <1>1, <2>1, <2>2, <2>3
<1> HIDE DEF A, B, front, back, l
<1>5. Arrangement(front \o t, A \cup T) /\ Len(front \o t) = Len(front) + Len(t)
  <2>1. A \cap T = {} /\ Arrangement(front, A)
    BY <1>2, <1>4
  <2> QED
    BY <2>1, ArrangementsJoined
<1>6. /\ Arrangement((front \o t) \o back, (A \cup T) \cup B)
      /\ Len((front \o t) \o back) = Len(front \o t) + Len(back)
  <2> DEFINE joined == front \o t
             C == A \cup T
  <2>1. Arrangement(joined, C) /\ C \cap B = {}
    BY <1>4, <1>5
  <2> HIDE DEF joined, C
  <2>2. Arrangement(joined \o back, C \cup B) /\ Len(joined \o back) = Len(joined) + Len(back)
    BY <1>3, <2>1, ArrangementsJoined
  <2> QED
    BY <2>2 DEF joined, C
<1>7. Len(t) \in Nat
  BY LenProperties DEF Arrangement
<1>8. (A \cup T) \cup B = S \cup T /\ Len(front \o t) + Len(back) = l + Len(t)
  BY <1>1, <1>2, <1>3, <1>4, <1>5, <1>7
<1> QED
  BY <1>6, <1>8 DEF Splice, l, front, back

LEMMA ArrangementInserted ==
    ASSUME NEW S, NEW s, Arrangement(s, S), NEW e, e \notin S, NEW i \in 1..(Len(s) + 1)
    PROVE  Arrangement(InsertAt(s, i, e), S \cup {e})
<1> DEFINE one == <<e>>
           E == {e}
<1>1. Arrangement(one, E) /\ Len(one) = 1 /\ S \cap E = {}
  BY ArrangementOfOne
<1>2. InsertAt(s, i, e) = Splice(s, one, i)
  BY DEF InsertAt, Splice
<1> HIDE DEF one, E
<1>3. Arrangement(one, E) /\ S \cap E = {}
  BY <1>1
<1>4. Arrangement(Splice(s, one, i), S \cup E)
  BY <1>3, ArrangementSpliced
<1> QED
  BY <1>1, <1>2, <1>4 DEF E

\* A sequence whose positions are permuted.
Permuted(s, at) == [i \in 1..Len(s) |-> s[at[i]]]

LEMMA ArrangementPermuted ==
    ASSUME NEW S, NEW s, Arrangement(s, S), NEW at \in [1..Len(s) -> 1..Len(s)],
           \A i \in 1..Len(s) : at[at[i]] = i
    PROVE  Arrangement(Permuted(s, at), S)
<1> DEFINE t == [i \in 1..Len(s) |-> s[at[i]]]
<1>1. /\ Len(s) \in Nat
      /\ \A a, b \in 1..Len(s) : s[a] = s[b] => a = b
      /\ \A x : x \in S <=> \E k \in 1..Len(s) : s[k] = x
  BY LenProperties DEF Arrangement, Once, Lists
<1>2. \A i \in 1..Len(s) : t[i] = s[at[i]] /\ at[i] \in 1..Len(s) /\ t[i] \in S
  BY <1>1
<1>3. t \in Seq(S) /\ Len(t) = Len(s)
  BY <1>1, <1>2
<1> HIDE DEF t
<1>4. \A i, j \in 1..Len(s) : t[i] = t[j] => i = j
  BY <1>1, <1>2
<1>5. \A x : x \in S <=> \E k \in 1..Len(s) : t[k] = x
  BY <1>1, <1>2
<1>6. Arrangement(t, S)
  BY <1>3, <1>4, <1>5 DEF Arrangement, Once, Lists
<1> QED
  BY <1>6 DEF t, Permuted

(***************************************************************************)
(* Filter                                                                  *)
(***************************************************************************)
\* The sequence kept after each element.
Filters(X, s, S, kept) ==
    /\ kept \in [0..Len(s) -> Seq(X)]
    /\ Filter(s, S) = kept[Len(s)]
    /\ kept[0] = <<>>
    /\ \A i \in 1..Len(s) :
           kept[i] = IF s[i] \in S THEN Append(kept[i - 1], s[i]) ELSE kept[i - 1]

LEMMA FilterSteps ==
    ASSUME NEW X, NEW s \in Seq(X), NEW S
    PROVE  \E kept : Filters(X, s, S, kept)
<1> DEFINE n == Len(s)
           Step(g, i) == IF i = 0 THEN <<>>
                         ELSE IF s[i] \in S THEN Append(g[i - 1], s[i]) ELSE g[i - 1]
           D == [x \in (1..n) \X Seq(X) |-> IF s[x[1]] \in S THEN Append(x[2], s[x[1]]) ELSE x[2]]
           kept == CHOOSE g : g = [i \in 0..n |-> Step(g, i)]
<1>1. n \in Nat /\ \A i \in 1..n : s[i] \in X
  BY LenProperties
<1>2. \E g : g = [i \in 0..n |-> Step(g, i)]
  <2>1. PICK g : IsRecursion(n, <<>>, D, g)
    BY <1>1, RecursionExists
  <2> DEFINE T == {i \in 0..n : g[i] \in Seq(X)}
  <2>2. \A i \in 0..n : g[i] = IF i = 0 THEN <<>> ELSE D[<<i, g[i - 1]>>]
    <3> HIDE DEF D, n
    <3> QED
      BY <2>1 DEF IsRecursion
  <2>3. ASSUME NEW i \in 1..n, g[i - 1] \in Seq(X)
        PROVE  g[i] \in Seq(X) /\ g[i] = Step(g, i)
    <3>1. i \in 0..n /\ i # 0 /\ s[i] \in X
      BY <1>1
    <3>2. g[i] = D[<<i, g[i - 1]>>]
      BY <2>2, <3>1
    <3>3. g[i] = IF s[i] \in S THEN Append(g[i - 1], s[i]) ELSE g[i - 1]
      BY <2>3, <3>2
    <3>4. Append(g[i - 1], s[i]) \in Seq(X)
      BY <2>3, <3>1, AppendProperties
    <3> QED
      BY <2>3, <3>1, <3>3, <3>4
  <2>4. 0 \in T
    <3>1. 0 \in 0..n
      BY <1>1
    <3>2. g[0] = <<>>
      <4> HIDE DEF D, n
      <4> QED
        BY <2>2, <3>1
    <3> QED
      BY <3>1, <3>2, EmptySeq
  <2>5. ASSUME NEW i \in 1..n, i - 1 \in T PROVE i \in T
    BY <1>1, <2>3, <2>5
  <2> HIDE DEF T
  <2>6. \A i \in 0..n : i \in T
    <3> HIDE DEF n
    <3> QED
      BY <1>1, <2>4, <2>5, NaturalInduction
  <2>7. \A i \in 1..n : i - 1 \in 0..n
    BY <1>1
  <2>8. \A i \in 0..n : g[i] = Step(g, i)
    <3> TAKE i \in 0..n
    <3>1. CASE i = 0
      BY <2>2, <3>1
    <3>2. CASE i # 0
      <4>1. i \in 1..n /\ g[i - 1] \in Seq(X)
        BY <2>6, <2>7, <3>2 DEF T
      <4> QED
        BY <2>3, <4>1
    <3> QED
      BY <3>1, <3>2
  <2>9. g = [i \in 0..n |-> g[i]]
    <3> HIDE DEF D, n
    <3> QED
      BY <2>1 DEF IsRecursion
  <2> HIDE DEF Step, n
  <2>10. g = [i \in 0..n |-> Step(g, i)]
    BY <2>8, <2>9
  <2> QED
    BY <2>10
<1>3. kept = [i \in 0..n |-> Step(kept, i)]
  <2> HIDE DEF Step, n
  <2> QED
    BY <1>2
<1>4. Filter(s, S) = kept[n]
  BY DEF Filter
<1>5. \A i \in 0..n : kept[i] = Step(kept, i)
  <2> HIDE DEF Step, n, kept
  <2> QED
    BY <1>3
<1>6. kept = [i \in 0..n |-> kept[i]]
  <2> HIDE DEF Step, n, kept
  <2> QED
    BY <1>3
<1> HIDE DEF kept, n
<1>7. kept[0] = <<>>
  BY <1>1, <1>5
<1>8. \A i \in 1..n : kept[i] = IF s[i] \in S THEN Append(kept[i - 1], s[i]) ELSE kept[i - 1]
  BY <1>1, <1>5
<1>9. \A i \in 0..n : kept[i] \in Seq(X)
  <2> DEFINE T == {i \in 0..n : kept[i] \in Seq(X)}
  <2>1. 0 \in T
    <3>1. 0 \in 0..n
      BY <1>1
    <3> QED
      BY <1>7, <3>1, EmptySeq
  <2>2. ASSUME NEW i \in 1..n, i - 1 \in T PROVE i \in T
    <3>1. kept[i - 1] \in Seq(X) /\ s[i] \in X
      BY <1>1, <2>2
    <3>2. Append(kept[i - 1], s[i]) \in Seq(X)
      BY <3>1, AppendProperties
    <3>3. kept[i] \in Seq(X)
      BY <1>8, <3>1, <3>2
    <3>4. i \in 0..n
      BY <1>1
    <3> QED
      BY <3>3, <3>4
  <2> HIDE DEF T
  <2>3. \A i \in 0..n : i \in T
    BY <1>1, <2>1, <2>2, NaturalInduction
  <2> QED
    BY <2>3 DEF T
<1>10. kept \in [0..n -> Seq(X)]
  BY <1>6, <1>9
<1> QED
  BY <1>4, <1>7, <1>8, <1>10 DEF n, Filters

LEMMA ArrangementAppended ==
    ASSUME NEW S, NEW s, Arrangement(s, S), NEW e, e \notin S
    PROVE  Arrangement(Append(s, e), S \cup {e})
<1> DEFINE t == Append(s, e)
           l == Len(s)
<1>1. /\ l \in Nat /\ \A a, b \in 1..l : s[a] = s[b] => a = b
      /\ \A x : x \in S <=> \E k \in 1..l : s[k] = x
  BY LenProperties DEF Arrangement, Once, Lists
<1>2. s \in Seq(S \cup {e})
  <2>1. s \in Seq(S) /\ S \subseteq S \cup {e}
    BY DEF Arrangement
  <2> QED
    BY <2>1, SeqMonotonic
<1>3. /\ t \in Seq(S \cup {e}) /\ Len(t) = l + 1
      /\ \A i \in 1..l : t[i] = s[i]
      /\ t[l + 1] = e
  BY <1>2, AppendProperties
<1> HIDE DEF t, l
<1>4. \A i \in 1..(l + 1) : i \in 1..l \/ i = l + 1
  BY <1>1
<1>5. \A i \in 1..l : i \in 1..(l + 1) /\ l + 1 \in 1..(l + 1)
  BY <1>1
<1>6. l + 1 \in 1..(l + 1)
  BY <1>1
<1>7. \A x : x \in S \cup {e} <=> \E k \in 1..(l + 1) : t[k] = x
  BY <1>1, <1>3, <1>4, <1>5, <1>6
<1>8. \A a, b \in 1..(l + 1) : t[a] = t[b] => a = b
  BY <1>1, <1>3, <1>4
<1> QED
  BY <1>3, <1>7, <1>8 DEF t, Arrangement, Once, Lists

\* Filter keeps the elements of S, each once.
LEMMA FilterArranges ==
    ASSUME NEW X, NEW s \in Seq(X), Once(s), NEW S
    PROVE  Arrangement(Filter(s, S), {s[i] : i \in 1..Len(s)} \cap S)
<1>0. PICK kept : Filters(X, s, S, kept)
  BY FilterSteps
<1>1. /\ Filter(s, S) = kept[Len(s)]
      /\ kept[0] = <<>>
      /\ \A i \in 1..Len(s) :
             kept[i] = IF s[i] \in S THEN Append(kept[i - 1], s[i]) ELSE kept[i - 1]
  BY <1>0 DEF Filters
<1> DEFINE upto(i) == {s[j] : j \in 1..i} \cap S
           T == {i \in 0..Len(s) : Arrangement(kept[i], upto(i))}
<1>2. Len(s) \in Nat
  BY LenProperties
<1>3. 0 \in T
  <2>1. upto(0) = {} /\ 0 \in 0..Len(s)
    BY <1>2
  <2>2. <<>> \in Seq({}) /\ Len(<<>>) = 0
    BY EmptySeq
  <2>3. Arrangement(<<>>, {})
    BY <2>2 DEF Arrangement, Once, Lists
  <2> QED
    BY <1>1, <2>1, <2>3
<1>4. ASSUME NEW i \in 1..Len(s), i - 1 \in T PROVE i \in T
  <2>1. 1..i = (1..(i - 1)) \cup {i} /\ i \in 0..Len(s)
    BY <1>2
  <2>2. Arrangement(kept[i - 1], upto(i - 1))
    BY <1>4
  <2>3. CASE s[i] \in S
    <3>1. upto(i) = upto(i - 1) \cup {s[i]}
      BY <2>1, <2>3
    <3>2. s[i] \notin upto(i - 1)
      <4>1. \A j \in 1..(i - 1) : j \in 1..Len(s) /\ j # i
        BY <1>2
      <4> QED
        BY <4>1 DEF Once
    <3>3. kept[i] = Append(kept[i - 1], s[i])
      BY <1>1, <2>3
    <3> DEFINE before == upto(i - 1)
               e == s[i]
    <3>4. Arrangement(kept[i - 1], before) /\ e \notin before
      BY <2>2, <3>2
    <3>5. upto(i) = before \cup {e} /\ kept[i] = Append(kept[i - 1], e)
      BY <3>1, <3>3
    <3> HIDE DEF before, e, upto
    <3>6. Arrangement(Append(kept[i - 1], e), before \cup {e})
      BY <3>4, ArrangementAppended
    <3>7. Arrangement(kept[i], upto(i))
      BY <3>5, <3>6
    <3> QED
      BY <2>1, <3>7
  <2>4. CASE s[i] \notin S
    <3>1. upto(i) = upto(i - 1)
      BY <2>1, <2>4
    <3>2. kept[i] = kept[i - 1]
      BY <1>1, <2>4
    <3> HIDE DEF upto
    <3> QED
      BY <2>1, <2>2, <3>1, <3>2
  <2> QED
    BY <2>3, <2>4
<1> HIDE DEF T
<1>5. Len(s) \in T
  <2> DEFINE n == Len(s)
  <2>1. n \in Nat /\ 0 \in T /\ \A i \in 1..n : i - 1 \in T => i \in T
    BY <1>2, <1>3, <1>4
  <2> HIDE DEF n
  <2>2. \A i \in 0..n : i \in T
    BY <2>1, NaturalInduction
  <2>3. n \in 0..n
    BY <2>1
  <2> QED
    BY <2>2, <2>3 DEF n
<1> QED
  BY <1>1, <1>5 DEF T

(***************************************************************************)
(* The orders of a problem                                                 *)
(***************************************************************************)
\* A representative names its class.
LEMMA RepresentativeNames ==
    ASSUME NEW p, Known(p)
    PROVE  /\ \A c \in Classes(p) : Min(c) \in c /\ ClassOf(p, Min(c)) = c
           /\ \A b \in Representatives(p) :
                  b \in p.buffers /\ ClassOf(p, b) \in Classes(p) /\ Min(ClassOf(p, b)) = b
<1>1. ASSUME NEW c \in Classes(p) PROVE Min(c) \in c /\ ClassOf(p, Min(c)) = c
  <2>1. c # {} /\ c \in SUBSET Nat
    BY ClassIsOfMember DEF Known
  <2>2. Min(c) \in c
    BY <2>1, MinNatural
  <2> QED
    BY <2>2, ClassIsOfMember DEF Known
<1>2. ASSUME NEW b \in Representatives(p)
      PROVE  b \in p.buffers /\ ClassOf(p, b) \in Classes(p) /\ Min(ClassOf(p, b)) = b
  <2>1. PICK c \in Classes(p) : b = Min(c)
    BY DEF Representatives
  <2>2. b \in c /\ ClassOf(p, b) = c /\ c \subseteq p.buffers
    BY <1>1, <2>1, ClassIsOfMember DEF Known
  <2> QED
    BY <2>1, <2>2
<1> QED
  BY <1>1, <1>2

LEMMA RepresentativesCounted ==
    ASSUME NEW p, Known(p)
    PROVE  /\ IsFiniteSet(Representatives(p)) /\ IsFiniteSet(Classes(p))
           /\ Cardinality(Representatives(p)) = Cardinality(Classes(p))
<1> DEFINE f == [b \in Representatives(p) |-> ClassOf(p, b)]
<1>1. IsFiniteSet(Representatives(p))
  <2>1. Representatives(p) \in SUBSET p.buffers
    BY RepresentativeNames
  <2> QED
    BY <2>1, FS_Subset DEF Known
<1>2. f \in [Representatives(p) -> Classes(p)]
  BY RepresentativeNames
<1>3. \A c \in Classes(p) : Min(c) \in Representatives(p) /\ f[Min(c)] = c
  BY RepresentativeNames DEF Representatives
<1>4. \A a, b \in Representatives(p) : f[a] = f[b] => a = b
  <2>1. \A a \in Representatives(p) : Min(f[a]) = a
    BY RepresentativeNames
  <2> HIDE DEF f
  <2> QED
    BY <2>1
<1> HIDE DEF f
<1>5. f \in Bijection(Representatives(p), Classes(p))
  BY <1>2, <1>3, <1>4 DEF Bijection, Injection, Surjection, IsInjective
<1>6. ExistsBijection(Representatives(p), Classes(p))
  BY <1>5 DEF ExistsBijection
<1> QED
  BY <1>1, <1>6, FS_Bijection

\* The orders are the arrangements of the representatives.
LEMMA OrdersArrange ==
    ASSUME NEW p, Known(p), NEW o
    PROVE  o \in Orders(p) <=> Arrangement(o, Representatives(p))
<1> DEFINE n == Cardinality(Classes(p))
           R == Representatives(p)
<1>1. IsFiniteSet(R) /\ Cardinality(R) = n /\ n \in Nat
  BY RepresentativesCounted, FS_CardinalityType
<1>2. ASSUME o \in Orders(p) PROVE Arrangement(o, R)
  <2>1. o \in [1..n -> R] /\ \A i, j \in 1..n : o[i] = o[j] => i = j
    BY <1>2 DEF Orders
  <2> HIDE DEF n, R
  <2>2. o \in Seq(R) /\ Len(o) = n
    BY <1>1, <2>1
  <2>3. o \in Injection(1..n, R)
    BY <2>1 DEF Injection, IsInjective
  <2>4. Cardinality(1..n) = n
    <3>1. 1 \in Int /\ n \in Int /\ n >= 0
      BY <1>1
    <3>2. Cardinality(1..n) = IF 1 > n THEN 0 ELSE n - 1 + 1
      BY <3>1, FS_Interval
    <3> QED
      BY <3>1, <3>2
  <2>5. o \in Surjection(1..n, R)
    BY <1>1, <2>3, <2>4, FS_Injection
  <2>6. \A x : x \in R <=> \E i \in 1..n : o[i] = x
    BY <2>1, <2>5 DEF Surjection
  <2> QED
    BY <2>1, <2>2, <2>6 DEF Arrangement, Once, Lists
<1>3. ASSUME Arrangement(o, R) PROVE o \in Orders(p)
  <2> HIDE DEF n, R
  <2>1. Len(o) = n
    BY <1>1, <1>3, ArrangementLength
  <2>2. o \in [1..n -> R] /\ DOMAIN o = 1..n
    BY <1>3, <2>1, LenProperties DEF Arrangement
  <2>3. \A i, j \in DOMAIN o : o[i] = o[j] => i = j
    BY <1>3, <2>1, <2>2 DEF Arrangement, Once
  <2> QED
    BY <2>2, <2>3 DEF Orders, n, R
<1> QED
  BY <1>2, <1>3

\* PlacementOrder lists the same representatives, pinned ones first.
LEMMA PlacementOrderArranges ==
    ASSUME NEW p, Known(p), NEW o \in Orders(p)
    PROVE  /\ Arrangement(PlacementOrder(p, o), Representatives(p))
           /\ Len(PlacementOrder(p, o)) = Len(o)
<1> DEFINE R == Representatives(p)
           P == {b \in R : Pinned(p, ClassOf(p, b))}
           front == Filter(o, P)
           back == Filter(o, R \ P)
<1>1. Arrangement(o, R)
  BY OrdersArrange
<1>2. o \in Seq(R) /\ Once(o) /\ {o[i] : i \in 1..Len(o)} = R
  <2> HIDE DEF R
  <2> QED
    BY <1>1 DEF Arrangement, Lists
<1>3. PlacementOrder(p, o) = front \o back
  BY DEF PlacementOrder
<1>4. P \cap (R \ P) = {} /\ P \cup (R \ P) = R /\ R \cap P = P /\ R \cap (R \ P) = R \ P
  OBVIOUS
<1> HIDE DEF P, R
<1>5. Arrangement(front, R \cap P) /\ Arrangement(back, R \cap (R \ P))
  BY <1>2, FilterArranges
<1>6. Arrangement(front, P) /\ Arrangement(back, R \ P)
  BY <1>4, <1>5
<1> HIDE DEF front, back
<1>7. P \cap (R \ P) = {}
  BY <1>4
<1>8. Arrangement(front \o back, P \cup (R \ P))
  BY <1>6, <1>7, ArrangementsJoined
<1>9. Arrangement(front \o back, R)
  BY <1>4, <1>8
<1>10. Len(front \o back) = Len(o)
  BY <1>1, <1>9, ArrangementLength
<1> QED
  BY <1>3, <1>9, <1>10 DEF R

(***************************************************************************)
(* Placements                                                              *)
(***************************************************************************)
PartialsOf(p) == UNION {[T -> 0..MaxUInt] : T \in SUBSET Classes(p)}

\* The placements after the first i classes of an order, from those before.
Placed(p, o, i, before) ==
    UNION {{Extend(off, ClassOf(p, PlacementOrder(p, o)[i]), at) :
               at \in OffsetsFor(p, off, ClassOf(p, PlacementOrder(p, o)[i]))} : off \in before}

LEMMA OffsetsAreWords ==
    ASSUME NEW p, ProblemTyped(p), NEW off, NEW class
    PROVE  OffsetsFor(p, off, class) \subseteq 0..MaxUInt
<1>1. CASE Pinned(p, class)
  <2>1. PinOf(p, class) \in p.pins
    BY <1>1 DEF PinOf, Pinned, ClassPins
  <2>2. PinOf(p, class).offset \in 0..MaxUInt
    BY <2>1 DEF ProblemTyped
  <2> QED
    BY <1>1, <2>2 DEF OffsetsFor
<1>2. CASE ~Pinned(p, class)
  BY <1>2 DEF OffsetsFor
<1> QED
  BY <1>1, <1>2

LEMMA ExtendPartial ==
    ASSUME NEW p, NEW off \in PartialsOf(p), NEW class \in Classes(p), NEW at \in 0..MaxUInt
    PROVE  Extend(off, class, at) \in PartialsOf(p)
<1>1. PICK T \in SUBSET Classes(p) : off \in [T -> 0..MaxUInt]
  BY DEF PartialsOf
<1>2. T \cup {class} \in SUBSET Classes(p)
  OBVIOUS
<1>3. Extend(off, class, at) \in [T \cup {class} -> 0..MaxUInt]
  BY <1>1 DEF Extend
<1> QED
  BY <1>2, <1>3 DEF PartialsOf

LEMMA PlacedPartial ==
    ASSUME NEW p, Known(p), ProblemTyped(p), NEW o \in Orders(p), NEW i \in 1..Len(o),
           NEW before \in SUBSET PartialsOf(p)
    PROVE  Placed(p, o, i, before) \in SUBSET PartialsOf(p)
<1> DEFINE class == ClassOf(p, PlacementOrder(p, o)[i])
<1>1. class \in Classes(p)
  <2>1. /\ PlacementOrder(p, o) \in Seq(Representatives(p))
        /\ Len(PlacementOrder(p, o)) = Len(o)
    BY PlacementOrderArranges DEF Arrangement
  <2>2. PlacementOrder(p, o)[i] \in Representatives(p)
    BY <2>1, LenProperties
  <2> QED
    BY <2>2, RepresentativeNames
<1>2. \A off \in before : \A at \in OffsetsFor(p, off, class) :
          Extend(off, class, at) \in PartialsOf(p)
  <2> HIDE DEF class
  <2> QED
    BY <1>1, OffsetsAreWords, ExtendPartial
<1> QED
  BY <1>2 DEF Placed

\* A placement gives some classes an offset that is a word.
LEMMA PlacementsTyped ==
    ASSUME NEW p, Known(p), ProblemTyped(p), NEW o \in Orders(p)
    PROVE  Placements(p, o) \in SUBSET PartialsOf(p)
<1> DEFINE n == Len(o)
           V == SUBSET PartialsOf(p)
           D == [x \in (1..n) \X V |-> Placed(p, o, x[1], x[2])]
           Step(g, i) == IF i = 0 THEN {<<>>} ELSE Placed(p, o, i, g[i - 1])
           after == CHOOSE g : g = [i \in 0..n |-> Step(g, i)]
<1>1. n \in Nat
  <2>1. o \in Seq(Representatives(p))
    BY OrdersArrange DEF Arrangement
  <2> QED
    BY <2>1, LenProperties
<1>2. {<<>>} \in V
  <2>1. <<>> \in [{} -> 0..MaxUInt]
    OBVIOUS
  <2>2. <<>> \in PartialsOf(p)
    BY <2>1 DEF PartialsOf
  <2> QED
    BY <2>2
<1>3. D \in [(1..n) \X V -> V]
  <2>1. \A x \in (1..n) \X V : Placed(p, o, x[1], x[2]) \in V
    BY PlacedPartial
  <2> HIDE DEF V, n
  <2> QED
    BY <2>1
<1>4. Placements(p, o) = after[n]
  BY DEF Placements, Placed
<1>5. PICK g : RecursionIn(n, V, {<<>>}, D, g)
  <2> DEFINE base == {<<>>}
  <2>1. base \in V
    BY <1>2
  <2> HIDE DEF D, V, n, base
  <2>2. \E g : RecursionIn(n, V, base, D, g)
    BY <1>1, <1>3, <2>1, RecursionTyped
  <2> QED
    BY <2>2 DEF base
<1>6. g = [i \in 0..n |-> Step(g, i)]
  <2>0. g \in [0..n -> V] /\ g[0] = {<<>>} /\ \A i \in 1..n : g[i] = D[<<i, g[i - 1]>>]
    <3> HIDE DEF D, V, n
    <3> QED
      BY <1>5 DEF RecursionIn
  <2>1. \A i \in 1..n : i - 1 \in 0..n
    BY <1>1
  <2>2. \A i \in 1..n : g[i] = Placed(p, o, i, g[i - 1])
    <3>1. \A i \in 1..n : <<i, g[i - 1]>> \in (1..n) \X V
      <4> HIDE DEF V, n
      <4> QED
        BY <2>0, <2>1
    <3> HIDE DEF V, n
    <3> QED
      BY <2>0, <3>1
  <2>3. \A i \in 0..n : i = 0 \/ i \in 1..n
    BY <1>1
  <2>4. \A i \in 0..n : g[i] = Step(g, i)
    BY <2>0, <2>2, <2>3
  <2>5. g = [i \in 0..n |-> g[i]]
    BY <2>0
  <2> HIDE DEF Step, n
  <2> QED
    BY <2>4, <2>5
<1>7. after = [i \in 0..n |-> Step(after, i)]
  <2> HIDE DEF Step, n
  <2> QED
    BY <1>6
<1>8. \A i \in 0..n : after[i] = Step(after, i)
  <2> HIDE DEF Step, n, after
  <2> QED
    BY <1>7
<1> DEFINE T == {i \in 0..n : after[i] \in V}
<1>9. 0 \in T
  <2> HIDE DEF after
  <2> QED
    BY <1>1, <1>2, <1>8
<1>10. ASSUME NEW i \in 1..n, i - 1 \in T PROVE i \in T
  <2>1. i \in 0..n /\ i # 0
    BY <1>1
  <2>2. after[i] = Placed(p, o, i, after[i - 1])
    <3> HIDE DEF after
    <3> QED
      BY <1>8, <2>1
  <2>3. after[i - 1] \in V
    BY <1>10
  <2> HIDE DEF after
  <2>4. Placed(p, o, i, after[i - 1]) \in V
    BY <2>3, PlacedPartial
  <2> QED
    BY <2>1, <2>2, <2>4
<1> HIDE DEF T, n
<1>11. \A i \in 0..n : i \in T
  BY <1>1, <1>9, <1>10, NaturalInduction
<1>12. n \in 0..n
  BY <1>1
<1> HIDE DEF after
<1> QED
  BY <1>4, <1>11, <1>12 DEF T

(***************************************************************************)
(* The objective of a solution                                             *)
(***************************************************************************)
\* A solution of some buffers, at offsets that are words.
InWords(p, sol) == DOMAIN sol \subseteq p.buffers /\ \A b \in DOMAIN sol : sol[b].offset \in 0..MaxUInt

LEMMA SolutionTyped ==
    ASSUME NEW p, Known(p), NEW off \in PartialsOf(p)
    PROVE  InWords(p, SolutionOf(p, off))
<1>1. PICK T \in SUBSET Classes(p) : off \in [T -> 0..MaxUInt]
  BY DEF PartialsOf
<1>2. ASSUME NEW b \in UNION T PROVE b \in p.buffers /\ off[ClassOf(p, b)] \in 0..MaxUInt
  <2>1. PICK c \in T : b \in c
    BY <1>2
  <2>2. c \subseteq p.buffers /\ ClassOf(p, b) = c
    BY <1>1, <2>1, ClassIsOfMember DEF Known
  <2> QED
    BY <1>1, <2>1, <2>2
<1> QED
  BY <1>1, <1>2 DEF InWords, SolutionOf

LEMMA PeakTyped ==
    ASSUME NEW p, ProblemTyped(p), NEW sol, InWords(p, sol), NEW q \in p.pools
    PROVE  PeakOfPool(p, sol, q) \in 0..MaxUInt
<1> DEFINE placed == {x \in DOMAIN sol : /\ sol[x].pool = q
                                         /\ ~AddOverflows(sol[x].offset, p.size[x])}
           T == {0} \cup {r[2] : r \in p.reserved[q]}
                    \cup {sol[b].offset + p.size[b] : b \in placed}
<1>1. \A r \in p.reserved[q] : r[2] \in 0..MaxUInt
  BY DEF ProblemTyped
<1>2. \A b \in placed : sol[b].offset + p.size[b] \in 0..MaxUInt
  <2>1. \A b \in DOMAIN sol : sol[b].offset \in 0..MaxUInt /\ p.size[b] \in 0..MaxUInt
    BY DEF InWords, ProblemTyped
  <2>2. \A b \in placed : b \in DOMAIN sol /\ ~(sol[b].offset + p.size[b] > MaxUInt)
    BY DEF AddOverflows
  <2> HIDE DEF placed
  <2> QED
    BY <2>1, <2>2, MaxUIntAssumption
<1>3. T \in SUBSET (0..MaxUInt) /\ T # {}
  BY <1>1, <1>2, MaxUIntAssumption
<1>4. PeakOfPool(p, sol, q) = Max(T)
  BY DEF PeakOfPool
<1> HIDE DEF T
<1> QED
  BY <1>3, <1>4, MaxNatural, MaxUIntAssumption

\* The sums of the objective, over the values of a function.
LEMMA TotalPeakSums ==
    ASSUME NEW p, NEW sol
    PROVE  TotalPeak(p, sol) = SumOver([q \in p.pools |-> PeakOfPool(p, sol, q)], p.pools)
<1> DEFINE S == p.pools
           f == [q \in S |-> PeakOfPool(p, sol, q)]
           A(g) == [s \in SUBSET S |->
                       IF s = {} THEN 0
                       ELSE SaturatingAdd(PeakOfPool(p, sol, CHOOSE x \in s : TRUE),
                                          g[s \ {CHOOSE x \in s : TRUE}])]
           B(g) == [s \in SUBSET S |-> Summed(f, g, s)]
<1>1. ASSUME NEW g PROVE A(g) = B(g)
  <2>1. ASSUME NEW s \in SUBSET S, s # {}
        PROVE  f[CHOOSE x \in s : TRUE] = PeakOfPool(p, sol, CHOOSE x \in s : TRUE)
    <3>1. (CHOOSE x \in s : TRUE) \in S
      BY <2>1
    <3> QED
      BY <3>1
  <2> QED
    BY <2>1 DEF Summed
<1>2. TotalPeak(p, sol) = (CHOOSE g : g = A(g))[S]
  BY DEF TotalPeak, SaturatingSum, MapThenFoldSet
<1>3. SumOver(f, S) = (CHOOSE g : g = B(g))[S]
  BY DEF SumOver
<1> HIDE DEF A, B
<1>4. (CHOOSE g : g = A(g)) = (CHOOSE g : g = B(g))
  BY <1>1
<1> QED
  BY <1>2, <1>3, <1>4

ActivePenalties(p, sol) == {i \in DOMAIN p.penalties : PenaltyActive(p, sol, p.penalties[i])}

LEMMA ReuseCostSums ==
    ASSUME NEW p, NEW sol
    PROVE  ReuseCost(p, sol) = SumOver([i \in ActivePenalties(p, sol) |-> p.penalties[i].cost],
                                       ActivePenalties(p, sol))
<1> DEFINE S == ActivePenalties(p, sol)
           f == [i \in S |-> p.penalties[i].cost]
           A(g) == [s \in SUBSET S |->
                       IF s = {} THEN 0
                       ELSE SaturatingAdd(p.penalties[CHOOSE x \in s : TRUE].cost,
                                          g[s \ {CHOOSE x \in s : TRUE}])]
           B(g) == [s \in SUBSET S |-> Summed(f, g, s)]
<1>1. ASSUME NEW g PROVE A(g) = B(g)
  <2>1. ASSUME NEW s \in SUBSET S, s # {}
        PROVE  f[CHOOSE x \in s : TRUE] = p.penalties[CHOOSE x \in s : TRUE].cost
    <3>1. (CHOOSE x \in s : TRUE) \in S
      BY <2>1
    <3> QED
      BY <3>1
  <2> HIDE DEF S
  <2> QED
    BY <2>1 DEF Summed
<1>2. ReuseCost(p, sol) = (CHOOSE g : g = A(g))[S]
  BY DEF ReuseCost, SaturatingSum, MapThenFoldSet, ActivePenalties
<1>3. SumOver(f, S) = (CHOOSE g : g = B(g))[S]
  BY DEF SumOver
<1> HIDE DEF A, B
<1>4. (CHOOSE g : g = A(g)) = (CHOOSE g : g = B(g))
  BY <1>1
<1> QED
  BY <1>2, <1>3, <1>4

\* The placed nodes a node pays for at an offset, and what it pays.
PaysFor(s, off, c, at) ==
    {d \in DOMAIN off : <<c, d>> \in DOMAIN s.soft /\ Touches(s, off, c, at, d)}

LEMMA IncrementalCostSums ==
    ASSUME NEW s, NEW off, NEW c, NEW at
    PROVE  IncrementalReuseCost(s, off, c, at) =
               SumOver([d \in PaysFor(s, off, c, at) |-> s.soft[<<c, d>>]], PaysFor(s, off, c, at))
<1> DEFINE S == PaysFor(s, off, c, at)
           f == [d \in S |-> s.soft[<<c, d>>]]
           A(g) == [t \in SUBSET S |->
                       IF t = {} THEN 0
                       ELSE SaturatingAdd(s.soft[<<c, CHOOSE x \in t : TRUE>>],
                                          g[t \ {CHOOSE x \in t : TRUE}])]
           B(g) == [t \in SUBSET S |-> Summed(f, g, t)]
<1>1. ASSUME NEW g PROVE A(g) = B(g)
  <2>1. ASSUME NEW t \in SUBSET S, t # {}
        PROVE  f[CHOOSE x \in t : TRUE] = s.soft[<<c, CHOOSE x \in t : TRUE>>]
    <3>1. (CHOOSE x \in t : TRUE) \in S
      BY <2>1
    <3> HIDE DEF S
    <3> QED
      BY <3>1
  <2> HIDE DEF S, f
  <2> QED
    BY <2>1 DEF Summed
<1>2. IncrementalReuseCost(s, off, c, at) = (CHOOSE g : g = A(g))[S]
  BY DEF IncrementalReuseCost, PaysFor, SaturatingSum, MapThenFoldSet
<1>3. SumOver(f, S) = (CHOOSE g : g = B(g))[S]
  BY DEF SumOver
<1> HIDE DEF A, B
<1>4. (CHOOSE g : g = A(g)) = (CHOOSE g : g = B(g))
  BY <1>1
<1> QED
  BY <1>2, <1>3, <1>4

Overfull(p, sol) == {q \in DOMAIN p.capacity : PeakOfPool(p, sol, q) > p.capacity[q]}

LEMMA CapacityOverflowSums ==
    ASSUME NEW p, NEW sol
    PROVE  CapacityOverflow(p, sol) =
               SumOver([q \in Overfull(p, sol) |-> PeakOfPool(p, sol, q) - p.capacity[q]],
                       Overfull(p, sol))
<1> DEFINE S == Overfull(p, sol)
           f == [q \in S |-> PeakOfPool(p, sol, q) - p.capacity[q]]
           A(g) == [s \in SUBSET S |->
                       IF s = {} THEN 0
                       ELSE SaturatingAdd(PeakOfPool(p, sol, CHOOSE x \in s : TRUE)
                                              - p.capacity[CHOOSE x \in s : TRUE],
                                          g[s \ {CHOOSE x \in s : TRUE}])]
           B(g) == [s \in SUBSET S |-> Summed(f, g, s)]
<1>1. ASSUME NEW g PROVE A(g) = B(g)
  <2>1. ASSUME NEW s \in SUBSET S, s # {}
        PROVE  f[CHOOSE x \in s : TRUE] =
                   PeakOfPool(p, sol, CHOOSE x \in s : TRUE) - p.capacity[CHOOSE x \in s : TRUE]
    <3>1. (CHOOSE x \in s : TRUE) \in S
      BY <2>1
    <3> QED
      BY <3>1
  <2> HIDE DEF S
  <2> QED
    BY <2>1 DEF Summed
<1>2. CapacityOverflow(p, sol) = (CHOOSE g : g = A(g))[S]
  BY DEF CapacityOverflow, SaturatingSum, MapThenFoldSet, Overfull
<1>3. SumOver(f, S) = (CHOOSE g : g = B(g))[S]
  BY DEF SumOver
<1> HIDE DEF A, B
<1>4. (CHOOSE g : g = A(g)) = (CHOOSE g : g = B(g))
  BY <1>1
<1> QED
  BY <1>2, <1>3, <1>4

\* The objective reads nothing of a placement but its pools and offsets.
LEMMA SameObjective ==
    ASSUME NEW p, NEW sol, NEW other, DOMAIN other = DOMAIN sol,
           \A b \in DOMAIN sol : other[b].pool = sol[b].pool /\ other[b].offset = sol[b].offset
    PROVE  ObjectiveScore(p, other) = ObjectiveScore(p, sol)
<1>1. ASSUME NEW q PROVE PeakOfPool(p, other, q) = PeakOfPool(p, sol, q)
  <2> DEFINE M(s) == {x \in DOMAIN s : s[x].pool = q /\ ~AddOverflows(s[x].offset, p.size[x])}
             E(s) == {s[b].offset + p.size[b] : b \in M(s)}
  <2>1. M(other) = M(sol) /\ M(sol) \subseteq DOMAIN sol
    OBVIOUS
  <2>2. E(other) = E(sol)
    <3> HIDE DEF M
    <3> QED
      BY <2>1
  <2> QED
    BY <2>2 DEF PeakOfPool
<1>2. ActivePenalties(p, other) = ActivePenalties(p, sol)
  <2>1. ASSUME NEW penalty PROVE PenaltyActive(p, other, penalty) <=> PenaltyActive(p, sol, penalty)
    BY DEF PenaltyActive, ExtentsOverlap
  <2> QED
    BY <2>1 DEF ActivePenalties
<1>3. ReuseCost(p, other) = ReuseCost(p, sol)
  BY <1>2, ReuseCostSums
<1>4. TotalPeak(p, other) = TotalPeak(p, sol)
  BY <1>1, TotalPeakSums
<1>5. MaxPeak(p, other) = MaxPeak(p, sol)
  BY <1>1 DEF MaxPeak
<1>6. CapacityOverflow(p, other) = CapacityOverflow(p, sol)
  <2>1. Overfull(p, other) = Overfull(p, sol)
    BY <1>1 DEF Overfull
  <2> QED
    BY <1>1, <2>1, CapacityOverflowSums
<1> QED
  BY <1>3, <1>4, <1>5, <1>6 DEF ObjectiveScore

\* Every metric but the bank cost is a word, and no overflow of the capacities
\* is left exactly when they all hold.
LEMMA MetricsTyped ==
    ASSUME NEW p, ProblemTyped(p), ObjectiveTyped(p), p.pools # {}, NEW sol, InWords(p, sol)
    PROVE  /\ ReuseCost(p, sol) \in 0..MaxUInt
           /\ TotalPeak(p, sol) \in 0..MaxUInt
           /\ MaxPeak(p, sol) \in 0..MaxUInt
           /\ CapacityOverflow(p, sol) \in 0..MaxUInt
           /\ CapacityOverflow(p, sol) = 0 <=> FitsCapacities(p, sol)
<1>1. \A q \in p.pools : PeakOfPool(p, sol, q) \in 0..MaxUInt
  BY PeakTyped
<1>2. IsFiniteSet(p.pools) /\ DOMAIN p.capacity \subseteq p.pools
  BY DEF ObjectiveTyped
<1>3. ReuseCost(p, sol) \in 0..MaxUInt
  <2> DEFINE S == ActivePenalties(p, sol)
             f == [i \in S |-> p.penalties[i].cost]
  <2>1. S \in SUBSET DOMAIN p.penalties
    BY DEF ActivePenalties
  <2>2. IsFiniteSet(S)
    BY <2>1, FS_Subset DEF ObjectiveTyped
  <2>3. f \in [S -> 0..MaxUInt]
    BY <2>1 DEF ObjectiveTyped
  <2>4. ReuseCost(p, sol) = SumOver(f, S)
    BY ReuseCostSums
  <2> HIDE DEF f, S
  <2> QED
    BY <2>2, <2>3, <2>4, SumTyped
<1>4. TotalPeak(p, sol) \in 0..MaxUInt
  <2> DEFINE S == p.pools
             f == [q \in S |-> PeakOfPool(p, sol, q)]
  <2>1. f \in [S -> 0..MaxUInt] /\ IsFiniteSet(S)
    BY <1>1, <1>2
  <2>2. TotalPeak(p, sol) = SumOver(f, S)
    BY TotalPeakSums
  <2> HIDE DEF f, S
  <2> QED
    BY <2>1, <2>2, SumTyped
<1>5. MaxPeak(p, sol) \in 0..MaxUInt
  <2> DEFINE T == {PeakOfPool(p, sol, q) : q \in p.pools}
  <2>1. T \in SUBSET (0..MaxUInt) /\ T # {}
    BY <1>1
  <2>2. MaxPeak(p, sol) = Max(T)
    BY DEF MaxPeak
  <2> HIDE DEF T
  <2> QED
    BY <2>1, <2>2, MaxNatural, MaxUIntAssumption
<1> DEFINE S == Overfull(p, sol)
           f == [q \in S |-> PeakOfPool(p, sol, q) - p.capacity[q]]
<1>6. \A q \in DOMAIN p.capacity :
          PeakOfPool(p, sol, q) \in 0..MaxUInt /\ p.capacity[q] \in 0..MaxUInt
  BY <1>1, <1>2 DEF ProblemTyped
<1>7. \A q \in S : f[q] \in 0..MaxUInt /\ f[q] # 0
  <2>1. \A q \in S : q \in DOMAIN p.capacity /\ PeakOfPool(p, sol, q) > p.capacity[q]
    BY DEF Overfull
  <2> HIDE DEF S
  <2> QED
    BY <1>6, <2>1, MaxUIntAssumption
<1>8. IsFiniteSet(S)
  <2>1. S \in SUBSET p.pools
    BY <1>2 DEF Overfull
  <2> QED
    BY <1>2, <2>1, FS_Subset
<1>9. CapacityOverflow(p, sol) = SumOver(f, S)
  BY CapacityOverflowSums
<1>10. f \in [S -> 0..MaxUInt]
  <2> HIDE DEF S
  <2> QED
    BY <1>7
<1>11. S = {} <=> FitsCapacities(p, sol)
  BY <1>6, MaxUIntAssumption DEF Overfull, FitsCapacities
<1> HIDE DEF f, S
<1>12. SumOver(f, S) \in 0..MaxUInt /\ (SumOver(f, S) = 0 <=> \A x \in S : f[x] = 0)
  BY <1>8, <1>10, SumTyped
<1>13. CapacityOverflow(p, sol) \in 0..MaxUInt
  BY <1>9, <1>12
<1>14. CapacityOverflow(p, sol) = 0 <=> FitsCapacities(p, sol)
  BY <1>7, <1>9, <1>11, <1>12
<1> QED
  BY <1>3, <1>4, <1>5, <1>13, <1>14

(***************************************************************************)
(* Results                                                                 *)
(***************************************************************************)
\* A score has a word for every term.
Scored(p, score) == score \in [DOMAIN p.terms -> 0..MaxUInt]

LEMMA ObjectiveScored ==
    ASSUME NEW p, ProblemTyped(p), ObjectiveTyped(p), p.pools # {}, "bank_cost" \notin Range(p.terms),
           NEW sol, InWords(p, sol)
    PROVE  /\ Scored(p, ObjectiveScore(p, sol))
           /\ \A i \in DOMAIN p.terms : p.terms[i] = "capacity_overflow" =>
                  (ObjectiveScore(p, sol)[i] = 0 <=> FitsCapacities(p, sol))
<1>1. ASSUME NEW i \in DOMAIN p.terms
      PROVE  p.terms[i] \in {"reuse", "total_peak", "max_peak", "capacity_overflow"}
  <2>1. p.terms[i] \in {"reuse", "total_peak", "max_peak", "capacity_overflow", "bank_cost"}
    <3> DEFINE names == {"reuse", "total_peak", "max_peak", "capacity_overflow", "bank_cost"}
    <3>1. p.terms \in Seq(names)
      BY DEF ObjectiveTyped
    <3> HIDE DEF names
    <3>2. p.terms[i] \in names
      BY <3>1, ElementOfSeq, LenProperties
    <3> QED
      BY <3>2 DEF names
  <2>2. p.terms[i] \in Range(p.terms)
    BY DEF Range
  <2> QED
    BY <2>1, <2>2
<1>2. \A i \in DOMAIN p.terms :
          /\ ObjectiveScore(p, sol)[i] \in 0..MaxUInt
          /\ p.terms[i] = "capacity_overflow" =>
                 ObjectiveScore(p, sol)[i] = CapacityOverflow(p, sol)
  <2> TAKE i \in DOMAIN p.terms
  <2> DEFINE metric ==
                 CASE p.terms[i] = "reuse" -> ReuseCost(p, sol)
                   [] p.terms[i] = "total_peak" -> TotalPeak(p, sol)
                   [] p.terms[i] = "max_peak" -> MaxPeak(p, sol)
                   [] p.terms[i] = "capacity_overflow" -> CapacityOverflow(p, sol)
                   [] p.terms[i] = "bank_cost" -> 0
  <2>1. metric \in 0..MaxUInt /\ (p.terms[i] = "capacity_overflow" => metric = CapacityOverflow(p, sol))
    BY <1>1, MetricsTyped
  <2>2. ObjectiveScore(p, sol)[i] = metric
    BY DEF ObjectiveScore
  <2> QED
    BY <2>1, <2>2
<1>3. ObjectiveScore(p, sol) = [i \in DOMAIN p.terms |-> ObjectiveScore(p, sol)[i]]
  <2> DEFINE metric(i) ==
                 CASE p.terms[i] = "reuse" -> ReuseCost(p, sol)
                   [] p.terms[i] = "total_peak" -> TotalPeak(p, sol)
                   [] p.terms[i] = "max_peak" -> MaxPeak(p, sol)
                   [] p.terms[i] = "capacity_overflow" -> CapacityOverflow(p, sol)
                   [] p.terms[i] = "bank_cost" -> 0
  <2>1. ObjectiveScore(p, sol) = [i \in DOMAIN p.terms |-> metric(i)]
    BY DEF ObjectiveScore
  <2> HIDE DEF metric
  <2> QED
    BY <2>1
<1> QED
  BY <1>2, <1>3, MetricsTyped DEF Scored

\* The results of the decoder: a score of the terms, and no capacity overflow
\* in it exactly for the orders that fit.
LEMMA DecodeScored ==
    ASSUME NEW p, ProblemTyped(p), ObjectiveTyped(p), PrepareAccepts(p),
           "bank_cost" \notin Range(p.terms), NEW o \in Orders(p)
    PROVE  /\ Scored(p, Decode(p, o).score)
           /\ \A i \in DOMAIN p.terms : p.terms[i] = "capacity_overflow" =>
                  (Decode(p, o).score[i] = 0 <=> Decode(p, o).status = "kFeasible")
<1> DEFINE Good(r) == /\ Scored(p, r.score)
                      /\ \A i \in DOMAIN p.terms : p.terms[i] = "capacity_overflow" =>
                             (r.score[i] = 0 <=> r.status = "kFeasible")
<1>1. /\ p.pools # {} /\ Known(p)
  BY DEF PrepareAccepts, ValidProblem, KnownColocations, Known, ObjectiveTyped
<1>2. ASSUME NEW status, status # "kFeasible", NEW solution,
             solution = {} \/ status \notin {"kFeasible", "kBestEffortNoFit"}
      PROVE  Good(ResultOf(p, status, solution))
  <2>1. ResultScore(p, status, solution) = [i \in DOMAIN p.terms |-> MaxUInt]
    BY <1>2 DEF ResultScore, WorstScore
  <2> QED
    BY <1>2, <2>1, MaxUIntAssumption DEF ResultOf, Scored
<1>3. ASSUME NEW off \in PartialsOf(p)
      PROVE  Good(ResultOf(p, Verdict(p, off), {SolutionOf(p, off)}))
  <2> DEFINE sol == SolutionOf(p, off)
             status == Verdict(p, off)
  <2>1. InWords(p, sol)
    BY <1>1, SolutionTyped
  <2>2. \/ status = "kInfeasibleProven"
        \/ status = "kFeasible" /\ FitsCapacities(p, sol)
        \/ status = "kBestEffortNoFit" /\ ~FitsCapacities(p, sol)
    BY DEF Verdict
  <2> HIDE DEF sol, status
  <2>3. CASE status = "kInfeasibleProven"
    BY <1>2, <2>3 DEF sol, status
  <2>4. CASE status \in {"kFeasible", "kBestEffortNoFit"}
    <3>1. (CHOOSE x \in {sol} : TRUE) = sol
      OBVIOUS
    <3>2. ResultScore(p, status, {sol}) = ObjectiveScore(p, sol)
      BY <2>4, <3>1 DEF ResultScore
    <3>3. /\ Scored(p, ObjectiveScore(p, sol))
          /\ \A i \in DOMAIN p.terms : p.terms[i] = "capacity_overflow" =>
                 (ObjectiveScore(p, sol)[i] = 0 <=> FitsCapacities(p, sol))
      BY <1>1, <2>1, ObjectiveScored
    <3>4. Good(ResultOf(p, status, {sol}))
      BY <2>2, <2>4, <3>2, <3>3 DEF ResultOf
    <3> QED
      BY <3>4 DEF sol, status
  <2> QED
    BY <2>2, <2>3, <2>4
<1>4. Good(Decode(p, o))
  <2> HIDE DEF Good
  <2>1. CASE PinOverflows(p)
    <3>1. Decode(p, o) = ResultOf(p, "kInvalidProblem", {})
      BY <2>1 DEF Decode
    <3> QED
      BY <1>2, <3>1
  <2>2. CASE ~PinOverflows(p) /\ FlexiblePools(p)
    <3>1. Decode(p, o) = ResultOf(p, "kUnsupported", {})
      BY <2>2 DEF Decode
    <3> QED
      BY <1>2, <3>1
  <2>3. CASE ~PinOverflows(p) /\ ~FlexiblePools(p) /\ Placements(p, o) = {}
    <3>1. Decode(p, o) = ResultOf(p, "kBestEffortNoFit", {})
      BY <2>3 DEF Decode
    <3> QED
      BY <1>2, <3>1
  <2>4. CASE ~PinOverflows(p) /\ ~FlexiblePools(p) /\ Placements(p, o) # {}
    <3> DEFINE off == CHOOSE off \in Placements(p, o) : TRUE
    <3>1. Decode(p, o) = ResultOf(p, Verdict(p, off), {SolutionOf(p, off)})
      BY <2>4 DEF Decode
    <3>2. off \in Placements(p, o)
      BY <2>4
    <3> HIDE DEF off
    <3>3. off \in PartialsOf(p)
      BY <1>1, <3>2, PlacementsTyped
    <3> QED
      BY <1>3, <3>1, <3>3
  <2> QED
    BY <2>1, <2>2, <2>3, <2>4
<1> QED
  BY <1>4

(***************************************************************************)
(* The order of the scores                                                 *)
(***************************************************************************)
\* Of two different scores one comes before the other, at the first difference.
LEMMA ScoresCompare ==
    ASSUME NEW n \in Nat, NEW x \in [1..n -> Int], NEW y \in [1..n -> Int]
    PROVE  x = y \/ ScoreBefore(x, y) \/ ScoreBefore(y, x)
<1> SUFFICES ASSUME x # y PROVE ScoreBefore(x, y) \/ ScoreBefore(y, x)
  OBVIOUS
<1> DEFINE T == {i \in 1..n : x[i] # y[i]}
<1>1. PICK i \in T : \A j \in T : i <= j
  <2>1. T \in SUBSET Nat /\ T # {}
    OBVIOUS
  <2> HIDE DEF T
  <2> QED
    BY <2>1, LeastNatural
<1>2. i \in 1..n /\ x[i] # y[i] /\ \A j \in 1..(i - 1) : x[j] = y[j]
  <2>1. \A j \in 1..(i - 1) : j \in 1..n /\ ~(i <= j)
    OBVIOUS
  <2> QED
    BY <1>1, <2>1
<1>3. x[i] \in Int /\ y[i] \in Int /\ i \in DOMAIN x /\ i \in DOMAIN y
  BY <1>2
<1>4. x[i] < y[i] \/ y[i] < x[i]
  BY <1>2, <1>3
<1> HIDE DEF T
<1> QED
  BY <1>2, <1>3, <1>4 DEF ScoreBefore

LEMMA ScoresOrdered ==
    ASSUME NEW n \in Nat, NEW x \in [1..n -> Int], NEW y \in [1..n -> Int], NEW z \in [1..n -> Int]
    PROVE  /\ ~ScoreBefore(x, x)
           /\ ~(ScoreBefore(x, y) /\ ScoreBefore(y, x))
           /\ ScoreBefore(x, y) /\ ScoreBefore(y, z) => ScoreBefore(x, z)
<1>1. ASSUME NEW u \in [1..n -> Int], NEW v \in [1..n -> Int], ScoreBefore(u, v)
      PROVE  \E i \in 1..n : u[i] < v[i] /\ \A j \in 1..(i - 1) : u[j] = v[j]
  BY <1>1 DEF ScoreBefore
<1>2. \A i, k \in 1..n : i = k \/ i \in 1..(k - 1) \/ k \in 1..(i - 1)
  OBVIOUS
<1>3. ~ScoreBefore(x, x)
  <2> SUFFICES ASSUME ScoreBefore(x, x) PROVE FALSE
    OBVIOUS
  <2>1. PICK i \in 1..n : x[i] < x[i]
    BY <1>1
  <2>2. x[i] \in Int
    OBVIOUS
  <2> QED
    BY <2>1, <2>2
<1>4. ~(ScoreBefore(x, y) /\ ScoreBefore(y, x))
  <2> SUFFICES ASSUME ScoreBefore(x, y), ScoreBefore(y, x) PROVE FALSE
    OBVIOUS
  <2>1. PICK i \in 1..n : x[i] < y[i] /\ \A j \in 1..(i - 1) : x[j] = y[j]
    BY <1>1
  <2>2. PICK k \in 1..n : y[k] < x[k] /\ \A j \in 1..(k - 1) : y[j] = x[j]
    BY <1>1
  <2> QED
    BY <1>2, <2>1, <2>2
<1>5. ASSUME ScoreBefore(x, y), ScoreBefore(y, z) PROVE ScoreBefore(x, z)
  <2>1. PICK i \in 1..n : x[i] < y[i] /\ \A j \in 1..(i - 1) : x[j] = y[j]
    BY <1>1, <1>5
  <2>2. PICK k \in 1..n : y[k] < z[k] /\ \A j \in 1..(k - 1) : y[j] = z[j]
    BY <1>1, <1>5
  <2>3. CASE i \in 1..k
    <3>1. x[i] < z[i]
      <4>1. i = k \/ i \in 1..(k - 1)
        BY <2>3
      <4> QED
        BY <2>1, <2>2, <4>1
    <3>2. \A j \in 1..(i - 1) : x[j] = z[j]
      <4>1. \A j \in 1..(i - 1) : j \in 1..(k - 1)
        BY <2>3
      <4> QED
        BY <2>1, <2>2, <4>1
    <3> QED
      BY <3>1, <3>2 DEF ScoreBefore
  <2>4. CASE k \in 1..(i - 1)
    <3>1. x[k] < z[k]
      BY <2>1, <2>2, <2>4
    <3>2. \A j \in 1..(k - 1) : x[j] = z[j]
      <4>1. \A j \in 1..(k - 1) : j \in 1..(i - 1)
        BY <2>4
      <4> QED
        BY <2>1, <2>2, <4>1
    <3> QED
      BY <3>1, <3>2 DEF ScoreBefore
  <2>5. i \in 1..k \/ k \in 1..(i - 1)
    OBVIOUS
  <2> QED
    BY <2>3, <2>4, <2>5
<1> QED
  BY <1>3, <1>4, <1>5

\* What is not after the better of two scores is not after the other.
LEMMA ScoresBetween ==
    ASSUME NEW n \in Nat, NEW x \in [1..n -> Int], NEW y \in [1..n -> Int], NEW z \in [1..n -> Int],
           ScoreBefore(x, z), ~ScoreBefore(y, z)
    PROVE  ScoreBefore(x, y)
<1>1. y = z \/ ScoreBefore(z, y)
  BY ScoresCompare
<1> QED
  BY <1>1, ScoresOrdered

\* If x is not before y and y not before z, x is not before z.
LEMMA ScoresChain ==
    ASSUME NEW n \in Nat, NEW x \in [1..n -> Int], NEW y \in [1..n -> Int], NEW z \in [1..n -> Int],
           ~ScoreBefore(x, y), ~ScoreBefore(y, z)
    PROVE  ~ScoreBefore(x, z)
  BY ScoresBetween

\* BestScore: there is one least score.
LEMMA BestScoreIs ==
    ASSUME NEW n \in Nat, NEW scores \in SUBSET [1..n -> Int], NEW x \in scores,
           \A o \in scores : ~ScoreBefore(o, x)
    PROVE  BestScore(scores) = x
<1> DEFINE best == BestScore(scores)
<1>1. best \in scores /\ \A o \in scores : ~ScoreBefore(o, best)
  BY DEF BestScore
<1> HIDE DEF best
<1>2. x = best \/ ScoreBefore(x, best) \/ ScoreBefore(best, x)
  BY <1>1, ScoresCompare
<1> QED
  BY <1>1, <1>2 DEF best
-----------------------------------------------------------------------------
(***************************************************************************)
(* Legal solutions and capacities                                          *)
(***************************************************************************)
\* Taking the capacities away changes nothing else.
LEMMA CapacitiesOnly ==
    ASSUME NEW p, ProblemTyped(p)
    PROVE  LET w == WithoutCapacities(p)
           IN  /\ w.buffers = p.buffers /\ w.allowed = p.allowed /\ w.alignment = p.alignment
               /\ w.size = p.size /\ w.reserved = p.reserved /\ w.colocations = p.colocations
               /\ w.separations = p.separations /\ w.exclusions = p.exclusions
               /\ w.pins = p.pins /\ w.live = p.live /\ w.terms = p.terms /\ w.capacity = <<>>
  BY DEF ProblemTyped, WithoutCapacities

LEMMA SameClasses ==
    ASSUME NEW p, ProblemTyped(p)
    PROVE  LET w == WithoutCapacities(p)
           IN  /\ \A b : ClassOf(w, b) = ClassOf(p, b)
               /\ \A c : ClassSize(w, c) = ClassSize(p, c)
               /\ \A a, b : MustNotReuse(w, a, b) <=> MustNotReuse(p, a, b)
<1> DEFINE w == WithoutCapacities(p)
<1>1. /\ w.buffers = p.buffers /\ w.size = p.size /\ w.colocations = p.colocations
      /\ w.exclusions = p.exclusions /\ w.pins = p.pins /\ w.live = p.live
  BY CapacitiesOnly
<1> HIDE DEF w
<1>2. \A b : ClassOf(w, b) = ClassOf(p, b)
  BY <1>1 DEF ClassOf, ClosedUnderColocation
<1>3. \A c : ClassSize(w, c) = ClassSize(p, c)
  BY <1>1 DEF ClassSize
<1>4. \A a, b : MustNotReuse(w, a, b) <=> MustNotReuse(p, a, b)
  BY <1>1 DEF MustNotReuse, HaveTemporalConflict, TemporallyExcluded, LifetimesOverlap,
              ExclusivelyPinned
<1> QED
  BY <1>2, <1>3, <1>4 DEF w

LEMMA SameExtents ==
    ASSUME NEW p, ProblemTyped(p), NEW sol, NEW a, NEW b
    PROVE  ExtentsOverlap(WithoutCapacities(p), sol, a, b) <=> ExtentsOverlap(p, sol, a, b)
  BY SameClasses DEF ExtentsOverlap

\* What the validator asks of one buffer apart from the capacity of its pool.
LegalPlace(p, sol, b) ==
    /\ sol[b].pool \in p.allowed[b]
    /\ Aligned(sol[b].offset, p.alignment[b])
    /\ ~AddOverflows(sol[b].offset, p.size[b])
    /\ ~OverlapsReserved(p, sol[b].pool, sol[b].offset, p.size[b])

\* What the validator asks of a complete placement apart from the capacities.
LegalSolution(p, sol) ==
    /\ DOMAIN sol = p.buffers
    /\ \A b \in p.buffers : LegalPlace(p, sol, b)
    /\ \A pair \in p.colocations : sol[pair[1]] = sol[pair[2]]
    /\ \A a, b \in p.buffers :
           ClassOf(p, a) # ClassOf(p, b) /\ MustNotReuse(p, a, b)
               => ~ExtentsOverlap(p, sol, a, b)
    /\ \A pair \in p.separations : ~ExtentsOverlap(p, sol, pair[1], pair[2])
    /\ \A pin \in p.pins : sol[pin.buffer] = [pool |-> pin.pool, offset |-> pin.offset]

LEMMA LegalWithoutCapacities ==
    ASSUME NEW p, ProblemTyped(p), NEW sol
    PROVE  ValidSolution(WithoutCapacities(p), sol)
               <=> ValidProblem(WithoutCapacities(p)) /\ LegalSolution(p, sol)
<1> DEFINE w == WithoutCapacities(p)
<1>1. /\ w.buffers = p.buffers /\ w.colocations = p.colocations
      /\ w.separations = p.separations /\ w.pins = p.pins
  BY CapacitiesOnly
<1>2. \A b : WellPlaced(w, sol, b) <=> LegalPlace(p, sol, b)
  <2>1. /\ w.allowed = p.allowed /\ w.alignment = p.alignment /\ w.size = p.size
        /\ w.reserved = p.reserved /\ DOMAIN w.capacity = {}
    BY CapacitiesOnly
  <2> HIDE DEF w
  <2> QED
    BY <2>1 DEF WellPlaced, LegalPlace, OverlapsReserved
<1>3. /\ \A b : ClassOf(w, b) = ClassOf(p, b)
      /\ \A a, b : MustNotReuse(w, a, b) <=> MustNotReuse(p, a, b)
      /\ \A a, b : ExtentsOverlap(w, sol, a, b) <=> ExtentsOverlap(p, sol, a, b)
  BY SameClasses, SameExtents
<1> HIDE DEF w
<1>4. ValidSolution(w, sol) <=> ValidProblem(w) /\ LegalSolution(p, sol)
  BY <1>1, <1>2, <1>3 DEF ValidSolution, LegalSolution
<1> QED
  BY <1>4 DEF w

\* A legal solution within the capacities is valid.
LEMMA LegalAndFits ==
    ASSUME NEW p, ProblemTyped(p), ValidProblem(p), NEW sol, LegalSolution(p, sol),
           FitsCapacities(p, sol),
           \A b \in p.buffers : sol[b].offset \in 0..MaxUInt
    PROVE  ValidSolution(p, sol)
<1>1. ASSUME NEW b \in p.buffers, sol[b].pool \in DOMAIN p.capacity
      PROVE  sol[b].offset + p.size[b] <= p.capacity[sol[b].pool]
  <2> DEFINE q == sol[b].pool
             placed == {sol[x].offset + p.size[x] :
                           x \in {y \in DOMAIN sol : /\ sol[y].pool = q
                                                     /\ ~AddOverflows(sol[y].offset, p.size[y])}}
             ends == {0} \cup {r[2] : r \in p.reserved[q]} \cup placed
  <2>1. DOMAIN sol = p.buffers /\ LegalPlace(p, sol, b)
    BY DEF LegalSolution
  <2>2. q \in p.pools
    BY <2>1 DEF LegalPlace, ValidProblem, ValidBuffer
  <2>3. \A r \in p.reserved[q] : r[2] \in 0..MaxUInt
    BY <2>2 DEF ProblemTyped
  <2>4. placed \subseteq 0..MaxUInt
    <3> SUFFICES ASSUME NEW x \in p.buffers, ~AddOverflows(sol[x].offset, p.size[x])
                 PROVE  sol[x].offset + p.size[x] \in 0..MaxUInt
      BY <2>1
    <3>1. sol[x].offset \in 0..MaxUInt /\ p.size[x] \in 0..MaxUInt
      BY DEF ProblemTyped
    <3> QED
      BY <3>1, MaxUIntAssumption DEF AddOverflows
  <2>5. sol[b].offset + p.size[b] \in placed
    BY <2>1 DEF LegalPlace
  <2>6. ends \in SUBSET (0..MaxUInt) /\ ends # {} /\ MaxUInt \in Nat
    BY <2>3, <2>4, MaxUIntAssumption
  <2>7. PeakOfPool(p, sol, q) = Max(ends)
    BY DEF PeakOfPool
  <2>8. Max(ends) \in ends /\ sol[b].offset + p.size[b] <= Max(ends)
    <3>1. sol[b].offset + p.size[b] \in ends
      BY <2>5
    <3> HIDE DEF ends
    <3> QED
      BY <2>6, <3>1, MaxNatural
  <2>9. Max(ends) <= p.capacity[q] /\ p.capacity[q] \in 0..MaxUInt
    BY <1>1, <2>7 DEF FitsCapacities, ProblemTyped
  <2>10. sol[b].offset + p.size[b] \in 0..MaxUInt /\ Max(ends) \in 0..MaxUInt
    BY <2>4, <2>5, <2>6, <2>8
  <2> HIDE DEF ends
  <2> QED
    BY <2>8, <2>9, <2>10
<1>2. \A b \in p.buffers : WellPlaced(p, sol, b)
  BY <1>1 DEF LegalSolution, LegalPlace, WellPlaced
<1> QED
  BY <1>2 DEF ValidSolution, LegalSolution
\* A valid solution is within the capacities.
LEMMA ValidFits ==
    ASSUME NEW p, ProblemTyped(p), ObjectiveTyped(p), NEW sol, ValidSolution(p, sol), InWords(p, sol)
    PROVE  FitsCapacities(p, sol)
<1> SUFFICES ASSUME NEW q \in DOMAIN p.capacity PROVE PeakOfPool(p, sol, q) <= p.capacity[q]
  BY DEF FitsCapacities
<1> DEFINE placed == {sol[b].offset + p.size[b] :
                         b \in {x \in DOMAIN sol : /\ sol[x].pool = q
                                                   /\ ~AddOverflows(sol[x].offset, p.size[x])}}
           ends == {0} \cup {r[2] : r \in p.reserved[q]} \cup placed
<1>1. q \in p.pools /\ p.capacity[q] \in 0..MaxUInt
  BY DEF ObjectiveTyped, ProblemTyped
<1>2. ASSUME NEW r \in p.reserved[q] PROVE r[2] \in 0..p.capacity[q]
  <2>1. r[2] \in 0..MaxUInt /\ r[2] <= p.capacity[q]
    BY <1>1 DEF ValidSolution, ValidProblem, ValidPool, ProblemTyped
  <2> QED
    BY <1>1, <2>1
<1>3. ASSUME NEW b \in DOMAIN sol, sol[b].pool = q PROVE sol[b].offset + p.size[b] \in 0..p.capacity[q]
  <2>1. b \in p.buffers /\ WellPlaced(p, sol, b)
    BY DEF ValidSolution
  <2>2. sol[b].offset \in 0..MaxUInt /\ p.size[b] \in 0..MaxUInt
    BY <2>1 DEF InWords, ProblemTyped
  <2>3. sol[b].offset + p.size[b] <= p.capacity[q]
    BY <1>3, <2>1 DEF WellPlaced
  <2> QED
    BY <1>1, <2>2, <2>3
<1>4. ends \in SUBSET (0..p.capacity[q]) /\ ends # {} /\ p.capacity[q] \in Nat
  BY <1>1, <1>2, <1>3
<1>5. PeakOfPool(p, sol, q) = Max(ends)
  BY DEF PeakOfPool
<1> HIDE DEF ends
<1>6. Max(ends) \in ends
  BY <1>4, MaxNatural
<1>7. Max(ends) \in 0..p.capacity[q]
  BY <1>4, <1>6
<1> QED
  BY <1>1, <1>5, <1>7

LEMMA ValidIsLegal ==
    ASSUME NEW p, NEW sol, ValidSolution(p, sol)
    PROVE  LegalSolution(p, sol)
  BY DEF ValidSolution, WellPlaced, LegalSolution, LegalPlace

\* Where a legal solution has the members of a class.
LEMMA LegalSeed ==
    ASSUME NEW p, Fixed(p), NEW sol, LegalSolution(p, sol), NEW c \in Classes(p), NEW m \in c
    PROVE  /\ m \in p.buffers /\ ClassOf(p, m) = c
           /\ sol[m] = sol[Min(c)] /\ sol[m].pool = PoolOf(p, c)
<1> DEFINE b == Min(c)
<1>1. b \in c /\ c \subseteq p.buffers /\ ClassOf(p, b) = c
  BY NodesTyped
<1>2. Known(p) /\ KnownColocations(p)
  BY FixedKnown DEF Known
<1>3. \A pair \in p.colocations : sol[pair[1]] = sol[pair[2]]
  BY DEF LegalSolution
<1> HIDE DEF b
<1>4. ASSUME NEW x \in c PROVE sol[x] = sol[b]
  BY <1>1, <1>2, <1>3, ColocatedTogether
<1>5. \A x \in c : sol[x].pool \in p.allowed[x]
  BY <1>1 DEF LegalSolution, LegalPlace
<1>6. sol[b].pool \in ClassPools(p, c)
  <2>1. \A x \in c : sol[b].pool \in p.allowed[x]
    BY <1>4, <1>5
  <2>2. sol[b].pool \in p.pools
    BY <1>1, <2>1, FixedKnown
  <2> QED
    BY <2>1, <2>2 DEF ClassPools
<1>7. sol[b].pool = PoolOf(p, c)
  BY <1>6, NodesTyped
<1>8. ClassOf(p, m) = c
  BY <1>2, ClassIsOfMember
<1> QED
  BY <1>1, <1>4, <1>7, <1>8 DEF b

LEMMA SeedOfNode ==
    ASSUME NEW p, Fixed(p), NEW sol, ValidSolution(p, sol), NEW c \in Classes(p), NEW m \in c
    PROVE  /\ m \in p.buffers /\ ClassOf(p, m) = c
           /\ sol[m] = sol[Min(c)] /\ sol[m].pool = PoolOf(p, c)
  BY ValidIsLegal, LegalSeed

\* The extents of classes that block each other do not overlap.
LEMMA LegalApart ==
    ASSUME NEW p, Fixed(p), NEW sol, LegalSolution(p, sol),
           NEW c \in Classes(p), NEW d \in Classes(p), c # d, Blocks(p, c, d)
    PROVE  ~AddressRangesOverlap(sol[Min(c)].offset, ClassSize(p, c),
                                 sol[Min(d)].offset, ClassSize(p, d))
<1>1. ASSUME NEW a \in c, NEW e \in d, ~ExtentsOverlap(p, sol, a, e)
      PROVE  ~AddressRangesOverlap(sol[Min(c)].offset, ClassSize(p, c),
                                   sol[Min(d)].offset, ClassSize(p, d))
  <2>1. /\ ClassOf(p, a) = c /\ sol[a] = sol[Min(c)] /\ sol[a].pool = PoolOf(p, c)
        /\ ClassOf(p, e) = d /\ sol[e] = sol[Min(d)] /\ sol[e].pool = PoolOf(p, d)
    BY LegalSeed
  <2>2. PoolOf(p, c) = PoolOf(p, d)
    BY DEF Blocks
  <2> QED
    BY <1>1, <2>1, <2>2 DEF ExtentsOverlap
<1>2. CASE SuperBuffersConflict(p, c, d)
  <2>1. PICK a \in c, e \in d : HaveTemporalConflict(p, a, e)
    BY <1>2 DEF SuperBuffersConflict
  <2>2. ClassOf(p, a) # ClassOf(p, e) /\ a \in p.buffers /\ e \in p.buffers
    BY LegalSeed
  <2>3. ~ExtentsOverlap(p, sol, a, e)
    BY <2>1, <2>2 DEF LegalSolution, MustNotReuse
  <2> QED
    BY <1>1, <2>3
<1>3. CASE Separated(p, c, d)
  <2>1. PICK pair \in p.separations : \/ pair[1] \in c /\ pair[2] \in d
                                      \/ pair[1] \in d /\ pair[2] \in c
    BY <1>3 DEF Separated
  <2>2. ~ExtentsOverlap(p, sol, pair[1], pair[2])
    BY DEF LegalSolution
  <2>3. ~ExtentsOverlap(p, sol, pair[2], pair[1])
    BY <2>2, OverlapSymmetric DEF ExtentsOverlap
  <2> QED
    BY <1>1, <2>1, <2>2, <2>3
<1>4. ~PinnedExclusive(p, c) /\ ~PinnedExclusive(p, d)
  BY DEF Fixed, PinnedExclusive, ClassPins
<1> QED
  BY <1>2, <1>3, <1>4 DEF Blocks

LEMMA BlockersApart ==
    ASSUME NEW p, Fixed(p), NEW sol, ValidSolution(p, sol),
           NEW c \in Classes(p), NEW d \in Classes(p), c # d, Blocks(p, c, d)
    PROVE  ~AddressRangesOverlap(sol[Min(c)].offset, ClassSize(p, c),
                                 sol[Min(d)].offset, ClassSize(p, d))
  BY ValidIsLegal, LegalApart
=============================================================================
