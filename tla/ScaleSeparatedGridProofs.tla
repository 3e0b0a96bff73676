---------------------- MODULE ScaleSeparatedGridProofs ----------------------
(***************************************************************************)
(* RunGridDp forgets nothing that matters: for every problem and every     *)
(* limit, a layer of the sweep has an entry for the window of every grid   *)
(* placement of the ranks swept, at the cost of the cheapest.  The way     *)
(* back through the layers is such a placement, any placement within the   *)
(* capacity rounds to one in the augmented band, and so what               *)
(* BuildBicriteriaResult answers pays no more than any placement that fits.*)
(***************************************************************************)
EXTENDS ScaleSeparatedGrid, DsaModelProofs

(***************************************************************************)
(* Numbers                                                                 *)
(***************************************************************************)
\* The place of an entry tells where it came from and its colour.
LEMMA PlaceOf ==
    ASSUME NEW n \in Nat, NEW c \in Nat \ {0}, NEW x \in 0..(c - 1)
    PROVE  /\ n * c + x \in Nat
           /\ (n * c + x) \div c = n /\ (n * c + x) % c = x
<1> DEFINE v == n * c + x
           q == v \div c
           r == v % c
<1>1. v \in Nat
  OBVIOUS
<1>2. q \in Nat /\ r \in 0..(c - 1) /\ v = c * q + r
  BY <1>1, DivMod
<1>3. v = c * n + x
  OBVIOUS
<1> HIDE DEF v, q, r
<1>4. q = n
  <2>1. c * q + r = c * n + x
    BY <1>2, <1>3
  <2>2. CASE q < n
    <3>1. c * (q + 1) <= c * n
      <4>1. q + 1 <= n
        BY <1>2, <2>2
      <4> QED
        BY <1>2, <4>1
    <3>2. c * (q + 1) = c * q + c
      BY <1>2
    <3> QED
      BY <1>2, <2>1, <3>1, <3>2
  <2>3. CASE n < q
    <3>1. c * (n + 1) <= c * q
      <4>1. n + 1 <= q
        BY <1>2, <2>3
      <4> QED
        BY <1>2, <4>1
    <3>2. c * (n + 1) = c * n + c
      OBVIOUS
    <3> QED
      BY <1>2, <2>1, <3>1, <3>2
  <2> QED
    BY <1>2, <2>2, <2>3
<1>5. r = x
  BY <1>2, <1>3, <1>4
<1> QED
  BY <1>1, <1>4, <1>5 DEF v, q, r

\* A multiple below a number is a multiple of what it holds.
LEMMA MultipleBelow ==
    ASSUME NEW k \in Nat, NEW v \in Nat, NEW a \in Nat \ {0}, k * a <= v
    PROVE  k <= v \div a
<1> DEFINE n == v \div a
<1>1. n \in Nat /\ v % a \in 0..(a - 1) /\ v = a * n + (v % a)
  BY DivMod
<1> HIDE DEF n
<1>2. v <= a * n + (a - 1)
  BY <1>1
<1>3. ASSUME n + 1 <= k PROVE FALSE
  <2>1. (n + 1) * a <= k * a
    BY <1>1, <1>3
  <2>2. (n + 1) * a = a * n + a
    BY <1>1
  <2> QED
    BY <1>1, <1>2, <2>1, <2>2
<1>4. k <= n
  BY <1>1, <1>3
<1> QED
  BY <1>4 DEF n

LEMMA ProductGrows ==
    ASSUME NEW v \in Nat, NEW w \in Nat, v <= w, NEW a \in Nat
    PROVE  v * a \in Nat /\ w * a \in Nat /\ v * a <= w * a
<1>1. PICK k \in Nat : w = v + k
  <2>1. w - v \in Nat /\ w = v + (w - v)
    OBVIOUS
  <2> QED
    BY <2>1
<1>2. w * a = v * a + k * a /\ k * a \in Nat /\ v * a \in Nat
  BY <1>1
<1> QED
  BY <1>2

LEMMA QuotientFits ==
    ASSUME NEW v \in Nat, NEW q \in Nat \ {0}
    PROVE  /\ v \div q \in 0..v
           /\ \A x \in 0..(v \div q) : x * q \in Nat /\ x * q <= v
<1>1. PICK d \in Nat, r \in Nat : v \div q = d /\ v = q * d + r
  BY DivMod
<1>2. d <= q * d /\ q * d \in Nat
  BY <1>1
<1>3. d <= v
  BY <1>1, <1>2
<1>4. ASSUME NEW x \in 0..d PROVE x * q \in Nat /\ x * q <= v
  <2>1. q * x <= q * d /\ x * q = q * x /\ q * x \in Nat
    BY <1>4
  <2> QED
    BY <1>1, <1>2, <2>1
<1> QED
  BY <1>1, <1>3, <1>4

LEMMA SaturatingAddGrows ==
    ASSUME NEW a \in 0..MaxUInt, NEW b \in 0..MaxUInt, NEW c \in 0..MaxUInt, a <= b
    PROVE  SaturatingAdd(a, c) <= SaturatingAdd(b, c)
  BY MaxUIntAssumption DEF SaturatingAdd, AddOverflows

\* A number that bounds a set from below and is in it is its least.
LEMMA LeastIs ==
    ASSUME NEW T \in SUBSET Nat, NEW v \in T, \A n \in T : v <= n
    PROVE  Min(T) = v
<1>1. Min(T) \in T /\ Min(T) <= v
  BY MinNatural
<1>2. Min(T) \in Nat /\ v \in Nat /\ v <= Min(T)
  BY <1>1
<1> QED
  BY <1>1, <1>2

(***************************************************************************)
(* The grid placements of the first ranks                                  *)
(***************************************************************************)
\* What BuildWindows and RunGridDp are given.
Gridded(g) ==
    /\ g.quantum \in Nat \ {0} /\ g.limit \in 0..MaxUInt
    /\ Len(g.nodes) \in Nat /\ DOMAIN g.nodes = 1..Len(g.nodes)
    /\ g.rounded \in [1..Len(g.nodes) -> 0..MaxUInt]
    /\ g.window = [i \in 1..Len(g.nodes) |-> {k \in 1..i : i < Len(g.nodes) /\ KeptAfter(g.nodes, i, k)}]

\* The first ranks fit the band.
FitBand(g, m) == \A i \in 1..m : g.rounded[i] <= g.limit

LEMMA ColorsCounted ==
    ASSUME NEW g, Gridded(g), NEW i \in 1..Len(g.nodes), g.rounded[i] <= g.limit
    PROVE  /\ ColorCount(g, i) \in 1..(g.limit + 1)
           /\ \A x \in 0..(ColorCount(g, i) - 1) :
                  x * g.quantum \in Nat /\ x * g.quantum + g.rounded[i] <= g.limit
<1> DEFINE room == g.limit - g.rounded[i]
           fit == room \div g.quantum
<1>1. room \in Nat /\ g.quantum \in Nat \ {0} /\ g.limit \in Nat /\ g.rounded[i] \in Nat
  BY DEF Gridded
<1>2. room <= g.limit /\ \A y \in Nat : y <= room => y + g.rounded[i] <= g.limit
  BY <1>1
<1>3. ColorCount(g, i) = fit + 1
  BY DEF ColorCount
<1> HIDE DEF room
<1>4. fit \in 0..room /\ \A x \in 0..fit : x * g.quantum \in Nat /\ x * g.quantum <= room
  BY <1>1, QuotientFits
<1> HIDE DEF fit
<1>5. ColorCount(g, i) \in 1..(g.limit + 1) /\ ColorCount(g, i) - 1 = fit
  <2>1. fit \in Nat /\ fit <= g.limit
    BY <1>1, <1>2, <1>4
  <2> QED
    BY <1>1, <1>3, <2>1
<1> QED
  BY <1>2, <1>4, <1>5

\* The bound that makes the grid placements a finite set bounds nothing else.
LEMMA AssignmentIs ==
    ASSUME NEW g, Gridded(g), NEW m \in 0..Len(g.nodes), FitBand(g, m), NEW f
    PROVE  f \in Assignments(g, m) <=>
               /\ f \in [1..m -> Nat]
               /\ \A i \in 1..m : /\ f[i] < ColorCount(g, i)
                                  /\ \A k \in Before(g, i, space.hard) : ~Meet(g, i, f[i], k, f[k])
<1> DEFINE counts == {ColorCount(g, i) : i \in 1..m}
           most == Max({0} \cup counts)
<1>0. m \in Nat /\ m <= Len(g.nodes) /\ Len(g.nodes) \in Nat
  BY DEF Gridded
<1>1. g.limit + 1 \in Nat
  BY MaxUIntAssumption DEF Gridded
<1>2. \A i \in 1..m : ColorCount(g, i) \in 1..(g.limit + 1)
  <2> TAKE i \in 1..m
  <2>1. i \in 1..Len(g.nodes) /\ g.rounded[i] <= g.limit
    BY <1>0 DEF FitBand
  <2> QED
    BY <2>1, ColorsCounted
<1>3. most \in 0..(g.limit + 1) /\ \A i \in 1..m : ColorCount(g, i) <= most
  <2> DEFINE T == {0} \cup counts
  <2>1. T \in SUBSET (0..(g.limit + 1)) /\ T # {} /\ \A i \in 1..m : ColorCount(g, i) \in T
    BY <1>1, <1>2
  <2> HIDE DEF T
  <2>2. Max(T) \in T /\ \A n \in T : n <= Max(T)
    BY <1>1, <2>1, MaxNatural
  <2>3. Max(T) \in 0..(g.limit + 1) /\ \A i \in 1..m : ColorCount(g, i) <= Max(T)
    BY <2>1, <2>2
  <2> QED
    BY <2>3 DEF T
<1>4. Assignments(g, m) =
          {h \in [1..m -> 0..most] :
              \A i \in 1..m : /\ h[i] < ColorCount(g, i)
                              /\ \A k \in Before(g, i, space.hard) : ~Meet(g, i, h[i], k, h[k])}
  BY DEF Assignments
<1> HIDE DEF most, counts
<1>5. ASSUME f \in [1..m -> Nat], \A i \in 1..m : f[i] < ColorCount(g, i)
      PROVE  f \in [1..m -> 0..most]
  BY <1>1, <1>2, <1>3, <1>5
<1>6. f \in [1..m -> 0..most] => f \in [1..m -> Nat]
  BY <1>3
<1> QED
  BY <1>4, <1>5, <1>6

\* A placement of one more rank is one of the ranks before and a colour.
WithoutLast(f, m) == [k \in 1..m |-> f[k]]

More(f, m, x) == [k \in 1..(m + 1) |-> IF k = m + 1 THEN x ELSE f[k]]

\* A colour meets none of the ranks that it must not meet.
Fitting(g, f, i, x) == \A k \in Before(g, i, space.hard) : ~Meet(g, i, x, k, f[k])

LEMMA FrontAssigned ==
    ASSUME NEW g, Gridded(g), NEW m \in Nat, m + 1 <= Len(g.nodes), FitBand(g, m + 1),
           NEW f \in Assignments(g, m + 1)
    PROVE  /\ WithoutLast(f, m) \in Assignments(g, m)
           /\ f[m + 1] \in 0..(ColorCount(g, m + 1) - 1) /\ Fitting(g, WithoutLast(f, m), m + 1, f[m + 1])
           /\ f = More(WithoutLast(f, m), m, f[m + 1])
<1> DEFINE h == WithoutLast(f, m)
<1>0. m + 1 \in 0..Len(g.nodes) /\ m \in 0..Len(g.nodes) /\ Len(g.nodes) \in Nat
  BY DEF Gridded
<1>1. /\ f \in [1..(m + 1) -> Nat]
      /\ \A i \in 1..(m + 1) : /\ f[i] < ColorCount(g, i)
                               /\ \A k \in Before(g, i, space.hard) : ~Meet(g, i, f[i], k, f[k])
  BY <1>0, AssignmentIs
<1>2. FitBand(g, m) /\ m + 1 \in 1..(m + 1) /\ \A i \in 1..m : i \in 1..(m + 1)
  BY DEF FitBand
<1>3. h \in [1..m -> Nat] /\ \A i \in 1..m : h[i] = f[i]
  BY <1>1, <1>2 DEF WithoutLast
<1>4. \A i \in 1..(m + 1) : \A k \in Before(g, i, space.hard) : k \in 1..m /\ h[k] = f[k]
  BY <1>3 DEF Before
<1>5. h \in Assignments(g, m)
  <2>1. \A i \in 1..m : /\ h[i] < ColorCount(g, i)
                        /\ \A k \in Before(g, i, space.hard) : ~Meet(g, i, h[i], k, h[k])
    BY <1>1, <1>2, <1>3, <1>4
  <2> QED
    BY <1>0, <1>2, <1>3, <2>1, AssignmentIs
<1>6. Fitting(g, h, m + 1, f[m + 1])
  BY <1>1, <1>2, <1>4 DEF Fitting
<1>7. f[m + 1] \in 0..(ColorCount(g, m + 1) - 1)
  <2>1. m + 1 \in 1..Len(g.nodes) /\ g.rounded[m + 1] <= g.limit
    BY <1>0, <1>2 DEF FitBand
  <2>2. ColorCount(g, m + 1) \in Nat
    BY <2>1, ColorsCounted
  <2>3. f[m + 1] \in Nat /\ f[m + 1] < ColorCount(g, m + 1)
    BY <1>1, <1>2
  <2> QED
    BY <2>2, <2>3
<1>8. f = More(h, m, f[m + 1])
  <2>1. f = [k \in 1..(m + 1) |-> f[k]]
    BY <1>1
  <2>2. \A k \in 1..(m + 1) : k # m + 1 => k \in 1..m
    OBVIOUS
  <2> HIDE DEF h
  <2> QED
    BY <1>3, <2>1, <2>2 DEF More
<1> QED
  BY <1>5, <1>6, <1>7, <1>8

LEMMA MoreAssigned ==
    ASSUME NEW g, Gridded(g), NEW m \in Nat, m + 1 <= Len(g.nodes), FitBand(g, m + 1),
           NEW f \in Assignments(g, m), NEW x \in 0..(ColorCount(g, m + 1) - 1),
           Fitting(g, f, m + 1, x)
    PROVE  More(f, m, x) \in Assignments(g, m + 1)
<1> DEFINE h == More(f, m, x)
<1>0. m + 1 \in 0..Len(g.nodes) /\ m \in 0..Len(g.nodes) /\ Len(g.nodes) \in Nat
  BY DEF Gridded
<1>1. FitBand(g, m) /\ m + 1 \in 1..(m + 1) /\ \A i \in 1..m : i \in 1..(m + 1)
  BY DEF FitBand
<1>2. /\ f \in [1..m -> Nat]
      /\ \A i \in 1..m : /\ f[i] < ColorCount(g, i)
                         /\ \A k \in Before(g, i, space.hard) : ~Meet(g, i, f[i], k, f[k])
  BY <1>0, <1>1, AssignmentIs
<1>3. ColorCount(g, m + 1) \in Nat
  <2>1. m + 1 \in 1..Len(g.nodes) /\ g.rounded[m + 1] <= g.limit
    BY <1>0, <1>1 DEF FitBand
  <2> QED
    BY <2>1, ColorsCounted
<1>4. h[m + 1] = x /\ \A i \in 1..m : h[i] = f[i]
  BY DEF More
<1>5. h \in [1..(m + 1) -> Nat]
  <2>1. \A k \in 1..(m + 1) : k # m + 1 => k \in 1..m
    OBVIOUS
  <2>2. x \in Nat
    BY <1>3
  <2> QED
    BY <1>2, <2>1, <2>2 DEF More
<1> HIDE DEF h
<1>6. \A i \in 1..(m + 1) : \A k \in Before(g, i, space.hard) : k \in 1..m /\ h[k] = f[k]
  BY <1>4 DEF Before
<1>7. ASSUME NEW i \in 1..(m + 1)
      PROVE  h[i] < ColorCount(g, i) /\ \A k \in Before(g, i, space.hard) : ~Meet(g, i, h[i], k, h[k])
  <2>1. CASE i = m + 1
    <3>1. h[i] < ColorCount(g, i)
      BY <1>3, <1>4, <2>1
    <3> QED
      BY <1>4, <1>6, <2>1, <3>1 DEF Fitting
  <2>2. CASE i \in 1..m
    BY <1>2, <1>4, <1>6, <2>2
  <2> QED
    BY <2>1, <2>2
<1>8. h \in Assignments(g, m + 1)
  BY <1>0, <1>5, <1>7, AssignmentIs
<1> QED
  BY <1>8 DEF h

(***************************************************************************)
(* What a grid placement costs                                             *)
(***************************************************************************)
\* Sums of the same terms are equal.
LEMMA SameTerms ==
    ASSUME NEW A, IsFiniteSet(A), NEW F, InWordsOver(F, A), NEW G, \A x \in A : G[x] = F[x]
    PROVE  SumOver(F, A) = SumOver(G, A)
<1> DEFINE h == [x \in A |-> x]
<1>1. A = {h[x] : x \in A}
  OBVIOUS
<1>2. Renames(h, A, A, F, G)
  BY <1>1 DEF Renames
<1> QED
  BY <1>2, SumRenamed

\* The pairs of ranks that pay, and the ranks that a colour of a new one pays for.
PayingPairs(g, f) ==
    {e \in (DOMAIN f) \X (DOMAIN f) :
        /\ e[2] \in Before(g, e[1], DOMAIN space.soft)
        /\ Meet(g, e[1], f[e[1]], e[2], f[e[2]])}

PairWeights(g, S) == [e \in S |-> space.soft[<<g.nodes[e[1]], g.nodes[e[2]]>>]]

PayingRanks(g, key, i, x) ==
    {k \in Before(g, i, DOMAIN space.soft) : Meet(g, i, x, k, key[k])}

RankWeights(g, i, S) == [k \in S |-> space.soft[<<g.nodes[i], g.nodes[k]>>]]

LEMMA AssignmentCostSums ==
    ASSUME NEW g, NEW f
    PROVE  AssignmentCost(g, f) = SumOver(PairWeights(g, PayingPairs(g, f)), PayingPairs(g, f))
<1> DEFINE S == PayingPairs(g, f)
           F == PairWeights(g, S)
           w(e) == space.soft[<<g.nodes[e[1]], g.nodes[e[2]]>>]
           A(h) == [s \in SUBSET S |->
                       IF s = {} THEN 0
                       ELSE SaturatingAdd(w(CHOOSE x \in s : TRUE), h[s \ {CHOOSE x \in s : TRUE}])]
           B(h) == [s \in SUBSET S |-> Summed(F, h, s)]
<1>1. ASSUME NEW h PROVE A(h) = B(h)
  <2>1. ASSUME NEW s \in SUBSET S, s # {} PROVE F[CHOOSE x \in s : TRUE] = w(CHOOSE x \in s : TRUE)
    <3>1. (CHOOSE x \in s : TRUE) \in S
      BY <2>1
    <3> HIDE DEF S
    <3> QED
      BY <3>1 DEF PairWeights
  <2> HIDE DEF S, F, w
  <2> QED
    BY <2>1 DEF Summed
<1>2. AssignmentCost(g, f) = (CHOOSE h : h = A(h))[S]
  BY DEF AssignmentCost, PayingPairs, SaturatingSum, MapThenFoldSet
<1>3. SumOver(F, S) = (CHOOSE h : h = B(h))[S]
  BY DEF SumOver
<1> HIDE DEF A, B
<1>4. (CHOOSE h : h = A(h)) = (CHOOSE h : h = B(h))
  BY <1>1
<1> QED
  BY <1>2, <1>3, <1>4

LEMMA TransitionCostSums ==
    ASSUME NEW g, NEW entry, NEW i, NEW x
    PROVE  TransitionCost(g, entry, i, x) =
               SumOver(RankWeights(g, i, PayingRanks(g, entry.key, i, x)),
                       PayingRanks(g, entry.key, i, x))
<1> DEFINE S == PayingRanks(g, entry.key, i, x)
           F == RankWeights(g, i, S)
           w(k) == space.soft[<<g.nodes[i], g.nodes[k]>>]
           A(h) == [s \in SUBSET S |->
                       IF s = {} THEN 0
                       ELSE SaturatingAdd(w(CHOOSE y \in s : TRUE), h[s \ {CHOOSE y \in s : TRUE}])]
           B(h) == [s \in SUBSET S |-> Summed(F, h, s)]
<1>1. ASSUME NEW h PROVE A(h) = B(h)
  <2>1. ASSUME NEW s \in SUBSET S, s # {} PROVE F[CHOOSE y \in s : TRUE] = w(CHOOSE y \in s : TRUE)
    <3>1. (CHOOSE y \in s : TRUE) \in S
      BY <2>1
    <3> HIDE DEF S
    <3> QED
      BY <3>1 DEF RankWeights
  <2> HIDE DEF S, F, w
  <2> QED
    BY <2>1 DEF Summed
<1>2. TransitionCost(g, entry, i, x) = (CHOOSE h : h = A(h))[S]
  BY DEF TransitionCost, PayingRanks, SaturatingSum, MapThenFoldSet
<1>3. SumOver(F, S) = (CHOOSE h : h = B(h))[S]
  BY DEF SumOver
<1> HIDE DEF A, B
<1>4. (CHOOSE h : h = A(h)) = (CHOOSE h : h = B(h))
  BY <1>1
<1> QED
  BY <1>2, <1>3, <1>4

\* Penalties are words.
SoftWords == \A edge \in DOMAIN space.soft : space.soft[edge] \in 0..MaxUInt

LEMMA AssignmentCostTyped ==
    ASSUME SoftWords, NEW g, NEW m \in Nat, NEW f, DOMAIN f = 1..m
    PROVE  /\ IsFiniteSet(PayingPairs(g, f))
           /\ InWordsOver(PairWeights(g, PayingPairs(g, f)), PayingPairs(g, f))
           /\ AssignmentCost(g, f) \in 0..MaxUInt
<1> DEFINE S == PayingPairs(g, f)
           F == PairWeights(g, S)
<1>1. IsFiniteSet(S)
  <2>1. IsFiniteSet(1..m)
    BY FS_Interval
  <2>2. IsFiniteSet((1..m) \X (1..m))
    BY <2>1, FS_Product
  <2>3. S \subseteq (1..m) \X (1..m)
    BY DEF PayingPairs
  <2> QED
    BY <2>2, <2>3, FS_Subset
<1>2. F \in [S -> 0..MaxUInt]
  BY DEF PairWeights, PayingPairs, Before, SoftWords
<1> HIDE DEF S, F
<1>3. InWordsOver(F, S) /\ SumOver(F, S) \in 0..MaxUInt
  BY <1>1, <1>2, SumTyped DEF InWordsOver
<1> QED
  BY <1>1, <1>3, AssignmentCostSums DEF S, F

\* A colour adds what it pays for: the pairs with the new rank.
LEMMA MoreCosts ==
    ASSUME SoftWords, NEW g, NEW m \in Nat, NEW f, DOMAIN f = 1..m, NEW x, NEW entry,
           \A k \in Before(g, m + 1, DOMAIN space.soft) : entry.key[k] = f[k]
    PROVE  /\ TransitionCost(g, entry, m + 1, x) \in 0..MaxUInt
           /\ AssignmentCost(g, More(f, m, x)) =
                  SaturatingAdd(AssignmentCost(g, f), TransitionCost(g, entry, m + 1, x))
<1> DEFINE h == More(f, m, x)
           old == PayingPairs(g, f)
           all == PayingPairs(g, h)
           payers == PayingRanks(g, entry.key, m + 1, x)
           new == {<<m + 1, k>> : k \in payers}
           F == PairWeights(g, all)
           W == RankWeights(g, m + 1, payers)
           name == [k \in payers |-> <<m + 1, k>>]
<1>1. DOMAIN h = 1..(m + 1) /\ h[m + 1] = x /\ \A k \in 1..m : h[k] = f[k]
  BY DEF More
<1>2. \A i \in 1..(m + 1) : (i # m + 1 <=> i \in 1..m) /\ (i \in 1..m => i # m + 1)
  OBVIOUS
<1> HIDE DEF h
<1>3. \A i \in 1..(m + 1) : \A k \in Before(g, i, DOMAIN space.soft) : k \in 1..m
  BY DEF Before
<1>4. all = old \cup new
  <2>1. ASSUME NEW e \in all PROVE e \in old \cup new
    <3>1. /\ e \in (1..(m + 1)) \X (1..(m + 1)) /\ e[2] \in Before(g, e[1], DOMAIN space.soft)
          /\ Meet(g, e[1], h[e[1]], e[2], h[e[2]])
      BY <1>1, <2>1 DEF PayingPairs
    <3>2. e[2] \in 1..m
      BY <1>3, <3>1
    <3>3. CASE e[1] = m + 1
      <4>1. e[2] \in payers /\ e = <<m + 1, e[2]>>
        BY <1>1, <3>1, <3>2, <3>3 DEF PayingRanks
      <4> QED
        BY <4>1
    <3>4. CASE e[1] \in 1..m
      BY <1>1, <3>1, <3>2, <3>4 DEF PayingPairs
    <3> QED
      BY <1>2, <3>1, <3>3, <3>4
  <2>2. ASSUME NEW e \in old PROVE e \in all
    BY <1>1, <1>2 DEF PayingPairs
  <2>3. ASSUME NEW k \in payers PROVE <<m + 1, k>> \in all
    <3>1. k \in 1..m /\ k \in 1..(m + 1) /\ m + 1 \in 1..(m + 1)
      BY <1>3 DEF PayingRanks
    <3>2. k \in Before(g, m + 1, DOMAIN space.soft) /\ Meet(g, m + 1, x, k, f[k])
      BY DEF PayingRanks
    <3> DEFINE e == <<m + 1, k>>
    <3>3. e \in (DOMAIN h) \X (DOMAIN h) /\ e[1] = m + 1 /\ e[2] = k
      BY <1>1, <3>1
    <3> HIDE DEF e
    <3>4. Meet(g, e[1], h[e[1]], e[2], h[e[2]])
      BY <1>1, <3>1, <3>2, <3>3
    <3>5. e \in all
      BY <3>2, <3>3, <3>4 DEF PayingPairs
    <3> QED
      BY <3>5 DEF e
  <2> QED
    BY <2>1, <2>2, <2>3
<1>5. old \cap new = {}
  <2>1. \A e \in old : e[1] \in 1..m
    BY DEF PayingPairs
  <2> QED
    BY <1>2, <2>1
<1>6. IsFiniteSet(all) /\ InWordsOver(F, all) /\ AssignmentCost(g, h) = SumOver(F, all)
  <2>1. m + 1 \in Nat
    OBVIOUS
  <2> QED
    BY <1>1, <2>1, AssignmentCostTyped, AssignmentCostSums
<1>7. SumOver(F, old) = AssignmentCost(g, f)
  <2> DEFINE G == PairWeights(g, old)
  <2>1. IsFiniteSet(old) /\ InWordsOver(G, old)
    BY AssignmentCostTyped
  <2>2. \A e \in old : F[e] = G[e]
    BY <1>4 DEF PairWeights
  <2>3. AssignmentCost(g, f) = SumOver(G, old)
    BY AssignmentCostSums
  <2> HIDE DEF F, G, old
  <2> QED
    BY <2>1, <2>2, <2>3, SameTerms
<1>8. IsFiniteSet(payers) /\ W \in [payers -> 0..MaxUInt]
  <2>1. IsFiniteSet(1..m)
    BY FS_Interval
  <2>2. payers \subseteq 1..m
    BY <1>3 DEF PayingRanks
  <2>3. W \in [payers -> 0..MaxUInt]
    BY DEF RankWeights, PayingRanks, Before, SoftWords
  <2> QED
    BY <2>1, <2>2, <2>3, FS_Subset
<1>9. SumOver(W, payers) = SumOver(F, new)
  <2>1. InWordsOver(W, payers)
    BY <1>8 DEF InWordsOver
  <2>2. IsFiniteSet(new)
    BY <1>4, <1>6, FS_Subset
  <2>3. \A k \in payers : F[name[k]] = W[k]
    <3> TAKE k \in payers
    <3>1. <<m + 1, k>> \in all
      BY <1>4
    <3> HIDE DEF all, payers
    <3> QED
      BY <3>1 DEF PairWeights, RankWeights
  <2>4. new = {name[k] : k \in payers} /\ \A k, j \in payers : name[k] = name[j] => k = j
    <3> HIDE DEF payers
    <3> QED
      OBVIOUS
  <2> HIDE DEF F, W, new, payers, name
  <2>5. Renames(name, payers, new, W, F)
    BY <2>3, <2>4 DEF Renames
  <2> QED
    BY <1>8, <2>1, <2>2, <2>5, SumRenamed
<1>10. TransitionCost(g, entry, m + 1, x) = SumOver(W, payers)
  BY TransitionCostSums
<1>11. SumOver(W, payers) \in 0..MaxUInt
  <2> HIDE DEF W, payers
  <2> QED
    BY <1>8, SumTyped
<1> HIDE DEF F, W, old, new, all, payers
<1>12. SumOver(F, old \cup new) = SaturatingAdd(SumOver(F, old), SumOver(F, new))
  <2>1. old \in SUBSET all /\ new \in SUBSET all
    BY <1>4
  <2> QED
    BY <1>5, <1>6, <2>1, SumJoins
<1> QED
  BY <1>4, <1>6, <1>7, <1>9, <1>10, <1>11, <1>12 DEF h

(***************************************************************************)
(* The entries of a layer                                                  *)
(***************************************************************************)
\* What a placement of the first ranks leaves in their window.
Seen(g, m, f) == IF m = 0 THEN <<>> ELSE [k \in g.window[m] |-> f[k]]

\* Every placement of the first ranks is seen, none is seen cheaper than it is, and
\* the cheapest of those that are seen alike gives the cost.
Cheapest(g, m, P) ==
    /\ \A n \in DOMAIN P : \E f \in Assignments(g, m) :
           P[n].key = Seen(g, m, f) /\ P[n].cost = AssignmentCost(g, f)
    /\ \A f \in Assignments(g, m) :
           /\ \E n \in DOMAIN P : P[n].key = Seen(g, m, f)
           /\ \A n \in DOMAIN P : P[n].key = Seen(g, m, f) => P[n].cost <= AssignmentCost(g, f)

\* The sweep starts from the empty placement, which costs nothing.
LEMMA FirstIsCheapest ==
    ASSUME SoftWords, NEW g, Gridded(g)
    PROVE  Cheapest(g, 0, <<First>>)
<1>1. \A f \in Assignments(g, 0) : AssignmentCost(g, f) = 0
  <2> TAKE f \in Assignments(g, 0)
  <2>1. DOMAIN f = 1..0
    BY DEF Assignments
  <2>2. PayingPairs(g, f) = {}
    BY <2>1 DEF PayingPairs
  <2>3. IsFiniteSet({}) /\ InWordsOver(PairWeights(g, {}), {})
    BY FS_EmptySet DEF InWordsOver
  <2>4. SumOver(PairWeights(g, {}), {}) = 0
    BY <2>3, SumUnfolds
  <2> QED
    BY <2>2, <2>4, AssignmentCostSums
<1>2. \E f : f \in Assignments(g, 0)
  <2>1. FitBand(g, 0) /\ 0 \in 0..Len(g.nodes)
    BY DEF FitBand, Gridded
  <2> DEFINE none == [k \in 1..0 |-> 0]
  <2>2. none \in [1..0 -> Nat] /\ \A i \in 1..0 : FALSE
    OBVIOUS
  <2> HIDE DEF none
  <2>3. none \in Assignments(g, 0)
    BY <2>1, <2>2, AssignmentIs
  <2> QED
    BY <2>3
<1>3. DOMAIN <<First>> = {1} /\ <<First>>[1].key = <<>> /\ <<First>>[1].cost = 0
  BY DEF First
<1> QED
  BY <1>1, <1>2, <1>3 DEF Cheapest, Seen

\* What the invariant says of a layer.
LEMMA CheapestLayer ==
    ASSUME SoftWords, NEW g, Gridded(g), NEW m \in 1..Len(g.nodes), NEW P
    PROVE  Cheapest(g, m, P) <=> LayerIsCheapest(g, m, P)
<1> DEFINE seen(f) == [k \in g.window[m] |-> f[k]]
           table == [f \in Assignments(g, m) |-> AssignmentCost(g, f)]
           cost == Tabulated(table)
           costs(key) == {cost[f] : f \in {h \in DOMAIN cost : seen(h) = key}}
<1>1. DOMAIN cost = Assignments(g, m) /\ \A f \in Assignments(g, m) : cost[f] = AssignmentCost(g, f)
  <2>1. cost = table
    BY TabulatedIs
  <2> HIDE DEF cost
  <2> QED
    BY <2>1
<1>2. \A f : Seen(g, m, f) = seen(f)
  BY DEF Seen
<1>3. \A f \in Assignments(g, m) : AssignmentCost(g, f) \in 0..MaxUInt
  <2> TAKE f \in Assignments(g, m)
  <2>1. DOMAIN f = 1..m /\ m \in Nat
    BY DEF Assignments
  <2> QED
    BY <2>1, AssignmentCostTyped
<1>4. \A key : costs(key) \in SUBSET Nat
  BY <1>1, <1>3
<1> HIDE DEF seen, cost, table
<1>5. ASSUME Cheapest(g, m, P)
      PROVE  /\ {P[n].key : n \in DOMAIN P} = {seen(f) : f \in DOMAIN cost}
             /\ \A n \in DOMAIN P : P[n].cost = Min(costs(P[n].key))
  <2>1. {P[n].key : n \in DOMAIN P} = {seen(f) : f \in DOMAIN cost}
    BY <1>1, <1>2, <1>5 DEF Cheapest
  <2>2. ASSUME NEW n \in DOMAIN P PROVE P[n].cost = Min(costs(P[n].key))
    <3>1. P[n].cost \in costs(P[n].key)
      BY <1>1, <1>2, <1>5 DEF Cheapest
    <3>2. \A v \in costs(P[n].key) : P[n].cost <= v
      BY <1>1, <1>2, <1>5 DEF Cheapest
    <3> HIDE DEF costs
    <3> QED
      BY <1>4, <3>1, <3>2, LeastIs
  <2> QED
    BY <2>1, <2>2
<1>6. ASSUME {P[n].key : n \in DOMAIN P} = {seen(f) : f \in DOMAIN cost},
             \A n \in DOMAIN P : P[n].cost = Min(costs(P[n].key))
      PROVE  Cheapest(g, m, P)
  <2>1. ASSUME NEW n \in DOMAIN P
        PROVE  /\ P[n].cost \in costs(P[n].key)
               /\ \A v \in costs(P[n].key) : P[n].cost <= v
    <3>1. PICK f \in DOMAIN cost : P[n].key = seen(f)
      BY <1>6
    <3>2. cost[f] \in costs(P[n].key)
      BY <3>1
    <3>3. P[n].cost = Min(costs(P[n].key))
      BY <1>6
    <3> HIDE DEF costs
    <3> QED
      BY <1>4, <3>2, <3>3, MinNatural
  <2>2. \A n \in DOMAIN P : \E f \in Assignments(g, m) :
            P[n].key = seen(f) /\ P[n].cost = AssignmentCost(g, f)
    BY <1>1, <2>1
  <2>3. \A f \in Assignments(g, m) : \E n \in DOMAIN P : P[n].key = seen(f)
    BY <1>1, <1>6
  <2>4. \A f \in Assignments(g, m) : \A n \in DOMAIN P :
            P[n].key = seen(f) => P[n].cost <= AssignmentCost(g, f)
    BY <1>1, <2>1
  <2> QED
    BY <1>2, <2>2, <2>3, <2>4 DEF Cheapest
<1> QED
  BY <1>5, <1>6 DEF LayerIsCheapest, CostsOf, seen, cost, table

\* The transitions are the entries with the colours that fit next to them.
LEMMA TransitionsAre ==
    ASSUME NEW g, NEW i, ColorCount(g, i) \in Nat \ {0}, DOMAIN Previous \subseteq Nat
    PROVE  LET T == Transitions(g, i)
           IN  /\ DOMAIN T \subseteq Nat
               /\ \A t \in DOMAIN T : \E n \in DOMAIN Previous, x \in 0..(ColorCount(g, i) - 1) :
                      TransitionFits(g, Previous[n], i, x) /\ T[t] = Reached(g, i, n, x)
               /\ \A n \in DOMAIN Previous, x \in 0..(ColorCount(g, i) - 1) :
                      TransitionFits(g, Previous[n], i, x) =>
                          \E t \in DOMAIN T : T[t] = Reached(g, i, n, x)
<1> DEFINE T == Transitions(g, i)
           c == ColorCount(g, i)
           places == {n * c + x : n \in DOMAIN Previous, x \in 0..(c - 1)}
           fitting == {t \in places : TransitionFits(g, Previous[t \div c], i, t % c)}
<1>1. DOMAIN T = fitting /\ \A t \in fitting : T[t] = Reached(g, i, t \div c, t % c)
  BY DEF Transitions
<1>2. \A n \in DOMAIN Previous, x \in 0..(c - 1) :
          n * c + x \in Nat /\ (n * c + x) \div c = n /\ (n * c + x) % c = x
  BY PlaceOf
<1> HIDE DEF T, c
<1>3. places \subseteq Nat
  BY <1>2
<1>4. \A t \in places : \E n \in DOMAIN Previous, x \in 0..(c - 1) : t \div c = n /\ t % c = x
  BY <1>2
<1>5. \A t \in fitting : \E n \in DOMAIN Previous, x \in 0..(c - 1) :
          TransitionFits(g, Previous[n], i, x) /\ T[t] = Reached(g, i, n, x)
  BY <1>1, <1>4
<1>6. ASSUME NEW n \in DOMAIN Previous, NEW x \in 0..(c - 1), TransitionFits(g, Previous[n], i, x)
      PROVE  \E t \in fitting : T[t] = Reached(g, i, n, x)
  <2> DEFINE t == n * c + x
  <2>1. t \in places /\ t \div c = n /\ t % c = x
    BY <1>2
  <2> HIDE DEF t
  <2> QED
    BY <1>1, <1>6, <2>1
<1> QED
  BY <1>1, <1>3, <1>5, <1>6 DEF T, c

\* CheapestOf chooses one that costs no more than another.
LEMMA CheapestChosen ==
    ASSUME NEW T, NEW S \in SUBSET Nat, S # {}, \A n \in S : T[n].cost \in Nat
    PROVE  /\ CheapestOf(T, S) \in S
           /\ \A u \in S : T[CheapestOf(T, S)].cost <= T[u].cost
<1> DEFINE costs == {T[n].cost : n \in S}
           cheap == {n \in S : T[n].cost = Min(costs)}
<1>1. costs \in SUBSET Nat /\ costs # {}
  OBVIOUS
<1>2. Min(costs) \in costs /\ \A v \in costs : Min(costs) <= v
  <2> HIDE DEF costs
  <2> QED
    BY <1>1, MinNatural
<1>3. cheap \in SUBSET Nat /\ cheap # {}
  BY <1>1, <1>2
<1>4. Min(cheap) \in cheap
  <2> HIDE DEF cheap, costs
  <2> QED
    BY <1>3, MinNatural
<1>5. CheapestOf(T, S) = Min(cheap)
  BY DEF CheapestOf
<1>6. CheapestOf(T, S) \in S /\ T[CheapestOf(T, S)].cost = Min(costs)
  BY <1>4, <1>5
<1>7. \A u \in S : Min(costs) <= T[u].cost
  BY <1>2
<1> QED
  BY <1>6, <1>7

\* Of every key a cheapest entry stays.
LEMMA MergedKeepsCheapest ==
    ASSUME NEW T, DOMAIN T \subseteq Nat, \A t \in DOMAIN T : T[t].cost \in Nat
    PROVE  LET M == Merged(T)
           IN  /\ DOMAIN M \subseteq DOMAIN T
               /\ \A n \in DOMAIN M : \E t \in DOMAIN T :
                      /\ M[n] = T[t]
                      /\ \A u \in DOMAIN T : T[u].key = T[t].key => T[t].cost <= T[u].cost
               /\ \A t \in DOMAIN T : \E n \in DOMAIN M : M[n].key = T[t].key
<1> DEFINE M == Merged(T)
           keys == {T[n].key : n \in DOMAIN T}
           alike(key) == {n \in DOMAIN T : T[n].key = key}
           table == [key \in keys |-> alike(key)]
           group == Tabulated(table)
<1>1. DOMAIN group = keys /\ \A key \in keys : group[key] = alike(key)
  <2>1. group = table
    BY TabulatedIs
  <2> HIDE DEF group, keys, alike
  <2> QED
    BY <2>1
<1>2. /\ DOMAIN M = {Min(group[key]) : key \in DOMAIN group}
      /\ \A n \in DOMAIN M : M[n] = T[CheapestOf(T, group[T[n].key])]
  BY DEF Merged
<1> HIDE DEF M, group, table
<1>3. ASSUME NEW key \in keys
      PROVE  /\ Min(alike(key)) \in alike(key)
             /\ CheapestOf(T, alike(key)) \in alike(key)
             /\ \A u \in alike(key) : T[CheapestOf(T, alike(key))].cost <= T[u].cost
  <2>1. alike(key) \in SUBSET Nat /\ alike(key) # {} /\ \A u \in alike(key) : T[u].cost \in Nat
    BY <1>3
  <2> HIDE DEF alike
  <2> QED
    BY <2>1, MinNatural, CheapestChosen
<1>4. ASSUME NEW n \in DOMAIN M
      PROVE  /\ n \in DOMAIN T
             /\ \E t \in DOMAIN T :
                    /\ M[n] = T[t]
                    /\ \A u \in DOMAIN T : T[u].key = T[t].key => T[t].cost <= T[u].cost
  <2>1. PICK key \in keys : n = Min(alike(key))
    <3> HIDE DEF alike, keys
    <3> QED
      BY <1>1, <1>2
  <2>2. n \in DOMAIN T /\ T[n].key = key
    <3>1. n \in alike(key)
      <4> HIDE DEF alike
      <4> QED
        BY <1>3, <2>1
    <3> QED
      BY <3>1
  <2> DEFINE t == CheapestOf(T, alike(key))
  <2>3. M[n] = T[t]
    BY <1>1, <1>2, <2>2
  <2>4. t \in DOMAIN T /\ T[t].key = key /\ \A u \in alike(key) : T[t].cost <= T[u].cost
    BY <1>3
  <2> HIDE DEF t
  <2> QED
    BY <2>2, <2>3, <2>4
<1>5. ASSUME NEW t \in DOMAIN T PROVE \E n \in DOMAIN M : M[n].key = T[t].key
  <2> DEFINE key == T[t].key
             n == Min(alike(key))
  <2>1. key \in keys
    OBVIOUS
  <2>2. n \in DOMAIN M
    BY <1>1, <1>2, <2>1
  <2>3. T[n].key = key
    BY <1>3, <2>1
  <2>4. M[n] = T[CheapestOf(T, alike(key))]
    BY <1>1, <1>2, <2>1, <2>2, <2>3
  <2>5. T[CheapestOf(T, alike(key))].key = key
    BY <1>3, <2>1
  <2> HIDE DEF key, n, alike
  <2>6. M[n].key = key
    BY <2>4, <2>5
  <2> QED
    BY <2>2, <2>6 DEF key
<1> QED
  BY <1>4, <1>5 DEF M

\* The key of an entry after a rank that took a colour.
KeyAfter(g, i, key, x) == [k \in g.window[i] |-> IF k = i THEN x ELSE key[k]]

\* An entry that sees a placement agrees with it; with a colour that fits, it leads
\* to one that sees the placement of one rank more.
LEMMA EntrySees ==
    ASSUME SoftWords, NEW g, Gridded(g), NEW m \in Nat, m + 1 <= Len(g.nodes), FitBand(g, m + 1),
           NEW entry, ~Lost(g, entry, m + 1),
           NEW f \in Assignments(g, m), entry.key = Seen(g, m, f), NEW x
    PROVE  /\ Before(g, m + 1, space.hard) \subseteq DOMAIN entry.key =>
                  /\ TransitionFits(g, entry, m + 1, x) => Fitting(g, f, m + 1, x)
                  /\ Fitting(g, f, m + 1, x) => TransitionFits(g, entry, m + 1, x)
           /\ KeyAfter(g, m + 1, entry.key, x) = Seen(g, m + 1, More(f, m, x))
           /\ TransitionCost(g, entry, m + 1, x) \in 0..MaxUInt
           /\ AssignmentCost(g, More(f, m, x)) =
                  SaturatingAdd(AssignmentCost(g, f), TransitionCost(g, entry, m + 1, x))
<1> DEFINE i == m + 1
<1>1. \A k \in DOMAIN entry.key : entry.key[k] = f[k]
  BY DEF Seen
<1>2. /\ Before(g, i, DOMAIN space.soft) \subseteq DOMAIN entry.key
      /\ \A k \in g.window[i] : k # i => k \in DOMAIN entry.key
  BY DEF Lost
<1>3. Before(g, i, space.hard) \subseteq DOMAIN entry.key =>
          /\ TransitionFits(g, entry, i, x) => Fitting(g, f, i, x)
          /\ Fitting(g, f, i, x) => TransitionFits(g, entry, i, x)
  BY <1>1 DEF TransitionFits, Fitting
<1>4. KeyAfter(g, i, entry.key, x) = Seen(g, i, More(f, m, x))
  <2>1. i \in 1..Len(g.nodes) /\ i # 0
    BY DEF Gridded
  <2>2. g.window[i] \subseteq 1..(m + 1)
    BY <2>1 DEF Gridded
  <2>3. \A k \in g.window[i] : (IF k = i THEN x ELSE entry.key[k]) = More(f, m, x)[k]
    BY <1>1, <1>2, <2>2 DEF More
  <2> HIDE DEF i
  <2> QED
    BY <2>1, <2>3 DEF KeyAfter, Seen
<1>5. DOMAIN f = 1..m
  BY DEF Assignments
<1>6. \A k \in Before(g, i, DOMAIN space.soft) : entry.key[k] = f[k]
  BY <1>1, <1>2
<1> QED
  BY <1>3, <1>4, <1>5, <1>6, MoreCosts

LEMMA ReachedSees ==
    ASSUME SoftWords, NEW g, Gridded(g), NEW m \in Nat, m + 1 <= Len(g.nodes), FitBand(g, m + 1),
           NEW n \in DOMAIN Previous, ~Lost(g, Previous[n], m + 1),
           NEW f \in Assignments(g, m), Previous[n].key = Seen(g, m, f), NEW x
    PROVE  /\ Before(g, m + 1, space.hard) \subseteq DOMAIN Previous[n].key =>
                  /\ TransitionFits(g, Previous[n], m + 1, x) => Fitting(g, f, m + 1, x)
                  /\ Fitting(g, f, m + 1, x) => TransitionFits(g, Previous[n], m + 1, x)
           /\ Reached(g, m + 1, n, x).key = Seen(g, m + 1, More(f, m, x))
           /\ TransitionCost(g, Previous[n], m + 1, x) \in 0..MaxUInt
           /\ Reached(g, m + 1, n, x).cost =
                  SaturatingAdd(Previous[n].cost, TransitionCost(g, Previous[n], m + 1, x))
           /\ AssignmentCost(g, More(f, m, x)) =
                  SaturatingAdd(AssignmentCost(g, f), TransitionCost(g, Previous[n], m + 1, x))
<1>1. /\ Reached(g, m + 1, n, x).key = KeyAfter(g, m + 1, Previous[n].key, x)
      /\ Reached(g, m + 1, n, x).cost =
             SaturatingAdd(Previous[n].cost, TransitionCost(g, Previous[n], m + 1, x))
  BY DEF Reached, KeyAfter
<1>2. PICK entry : entry = Previous[n]
  OBVIOUS
<1> QED
  BY <1>1, <1>2, EntrySees

LEMMA SweepKeepsCheapest ==
    ASSUME SoftWords, NEW g, Gridded(g), NEW m \in Nat, m + 1 <= Len(g.nodes), FitBand(g, m + 1),
           DOMAIN Previous \subseteq Nat, Cheapest(g, m, Previous),
           \A n \in DOMAIN Previous : /\ ~Lost(g, Previous[n], m + 1)
                                      /\ Before(g, m + 1, space.hard) \subseteq DOMAIN Previous[n].key
    PROVE  LET M == Merged(Transitions(g, m + 1))
           IN  /\ Cheapest(g, m + 1, M)
               /\ DOMAIN M \subseteq Nat
               /\ \A n \in DOMAIN M : \E e \in DOMAIN Previous, x \in 0..(ColorCount(g, m + 1) - 1) :
                      TransitionFits(g, Previous[e], m + 1, x) /\ M[n] = Reached(g, m + 1, e, x)
<1> DEFINE i == m + 1
           T == Transitions(g, i)
           M == Merged(T)
           colors == 0..(ColorCount(g, i) - 1)
<1>1. ColorCount(g, i) \in Nat \ {0}
  <2>1. i \in 1..Len(g.nodes) /\ g.rounded[i] <= g.limit
    BY DEF Gridded, FitBand
  <2>2. ColorCount(g, i) \in 1..(g.limit + 1) /\ g.limit + 1 \in Nat
    <3>1. ColorCount(g, i) \in 1..(g.limit + 1)
      BY <2>1, ColorsCounted
    <3>2. g.limit + 1 \in Nat
      BY MaxUIntAssumption DEF Gridded
    <3> QED
      BY <3>1, <3>2
  <2> QED
    BY <2>2
<1>2. /\ DOMAIN T \subseteq Nat
      /\ \A t \in DOMAIN T : \E n \in DOMAIN Previous, x \in colors :
             TransitionFits(g, Previous[n], i, x) /\ T[t] = Reached(g, i, n, x)
      /\ \A n \in DOMAIN Previous, x \in colors :
             TransitionFits(g, Previous[n], i, x) => \E t \in DOMAIN T : T[t] = Reached(g, i, n, x)
  BY <1>1, TransitionsAre
<1>3. \A f \in Assignments(g, m) : AssignmentCost(g, f) \in 0..MaxUInt
  <2> TAKE f \in Assignments(g, m)
  <2>1. DOMAIN f = 1..m
    BY DEF Assignments
  <2> QED
    BY <2>1, AssignmentCostTyped
<1> HIDE DEF T, M
<1>4. ASSUME NEW t \in DOMAIN T
      PROVE  /\ T[t].cost \in 0..MaxUInt
             /\ \E f \in Assignments(g, i) : T[t].key = Seen(g, i, f) /\ T[t].cost = AssignmentCost(g, f)
  <2>1. PICK n \in DOMAIN Previous, x \in colors :
            TransitionFits(g, Previous[n], i, x) /\ T[t] = Reached(g, i, n, x)
    BY <1>2
  <2>2. PICK f \in Assignments(g, m) :
            Previous[n].key = Seen(g, m, f) /\ Previous[n].cost = AssignmentCost(g, f)
    BY DEF Cheapest
  <2>3. /\ Fitting(g, f, i, x) /\ T[t].key = Seen(g, i, More(f, m, x))
        /\ T[t].cost = AssignmentCost(g, More(f, m, x))
        /\ TransitionCost(g, Previous[n], i, x) \in 0..MaxUInt
        /\ T[t].cost = SaturatingAdd(Previous[n].cost, TransitionCost(g, Previous[n], i, x))
    <3>0. ~Lost(g, Previous[n], m + 1) /\ Previous[n].key = Seen(g, m, f)
      BY <2>2
    <3>1. TransitionFits(g, Previous[n], m + 1, x) => Fitting(g, f, m + 1, x)
      BY <3>0, ReachedSees
    <3>2. Reached(g, m + 1, n, x).key = Seen(g, m + 1, More(f, m, x))
      BY <3>0, ReachedSees
    <3>3. TransitionCost(g, Previous[n], m + 1, x) \in 0..MaxUInt
      BY <3>0, ReachedSees
    <3>4. Reached(g, m + 1, n, x).cost =
                 SaturatingAdd(Previous[n].cost, TransitionCost(g, Previous[n], m + 1, x))
      BY DEF Reached
    <3>5. AssignmentCost(g, More(f, m, x)) =
                 SaturatingAdd(AssignmentCost(g, f), TransitionCost(g, Previous[n], m + 1, x))
      BY <3>0, ReachedSees
    <3> QED
      BY <2>1, <2>2, <3>1, <3>2, <3>3, <3>4, <3>5
  <2>4. T[t].cost \in 0..MaxUInt
    BY <1>3, <2>2, <2>3, SaturatingAddTyped
  <2>5. More(f, m, x) \in Assignments(g, i)
    BY <2>1, <2>3, MoreAssigned
  <2> QED
    BY <2>3, <2>4, <2>5
<1>5. ASSUME NEW f \in Assignments(g, i)
      PROVE  \E t \in DOMAIN T : T[t].key = Seen(g, i, f) /\ T[t].cost <= AssignmentCost(g, f)
  <2> DEFINE h == WithoutLast(f, m)
             x == f[i]
  <2>1. h \in Assignments(g, m) /\ x \in colors /\ Fitting(g, h, i, x) /\ f = More(h, m, x)
    BY FrontAssigned
  <2> HIDE DEF h, x
  <2>2. PICK n \in DOMAIN Previous : Previous[n].key = Seen(g, m, h)
    BY <2>1 DEF Cheapest
  <2>3. Previous[n].cost <= AssignmentCost(g, h) /\ Previous[n].cost \in 0..MaxUInt
    BY <1>3, <2>1, <2>2 DEF Cheapest
  <2>4. /\ TransitionFits(g, Previous[n], i, x)
        /\ Reached(g, i, n, x).key = Seen(g, i, f)
        /\ TransitionCost(g, Previous[n], i, x) \in 0..MaxUInt
        /\ Reached(g, i, n, x).cost = SaturatingAdd(Previous[n].cost, TransitionCost(g, Previous[n], i, x))
        /\ AssignmentCost(g, f) = SaturatingAdd(AssignmentCost(g, h), TransitionCost(g, Previous[n], i, x))
    BY <2>1, <2>2, ReachedSees
  <2>5. Reached(g, i, n, x).cost <= AssignmentCost(g, f)
    BY <1>3, <2>1, <2>3, <2>4, SaturatingAddGrows
  <2>6. PICK t \in DOMAIN T : T[t] = Reached(g, i, n, x)
    BY <1>2, <2>1, <2>4
  <2> QED
    BY <2>4, <2>5, <2>6
<1>6. /\ DOMAIN M \subseteq DOMAIN T
      /\ \A n \in DOMAIN M : \E t \in DOMAIN T :
             /\ M[n] = T[t]
             /\ \A u \in DOMAIN T : T[u].key = T[t].key => T[t].cost <= T[u].cost
      /\ \A t \in DOMAIN T : \E n \in DOMAIN M : M[n].key = T[t].key
  <2>1. \A t \in DOMAIN T : T[t].cost \in Nat
    BY <1>4, MaxUIntAssumption
  <2> QED
    BY <1>2, <2>1, MergedKeepsCheapest DEF M
<1>7. ASSUME NEW f \in Assignments(g, i)
      PROVE  /\ \E n \in DOMAIN M : M[n].key = Seen(g, i, f)
             /\ \A n \in DOMAIN M : M[n].key = Seen(g, i, f) => M[n].cost <= AssignmentCost(g, f)
  <2>1. PICK u \in DOMAIN T : T[u].key = Seen(g, i, f) /\ T[u].cost <= AssignmentCost(g, f)
    BY <1>5
  <2>2. \E n \in DOMAIN M : M[n].key = Seen(g, i, f)
    BY <1>6, <2>1
  <2>3. ASSUME NEW n \in DOMAIN M, M[n].key = Seen(g, i, f) PROVE M[n].cost <= AssignmentCost(g, f)
    <3>1. PICK t \in DOMAIN T : M[n] = T[t] /\ T[t].cost <= T[u].cost
      BY <1>6, <2>1, <2>3
    <3>2. AssignmentCost(g, f) \in 0..MaxUInt
      <4>1. DOMAIN f = 1..i /\ i \in Nat
        BY DEF Assignments
      <4> QED
        BY <4>1, AssignmentCostTyped
    <3>3. T[t].cost \in Int /\ T[u].cost \in Int
      BY <1>4
    <3> QED
      BY <2>1, <3>1, <3>2, <3>3
  <2> QED
    BY <2>2, <2>3
<1>8. \A n \in DOMAIN M : \E f \in Assignments(g, i) :
          M[n].key = Seen(g, i, f) /\ M[n].cost = AssignmentCost(g, f)
  <2> TAKE n \in DOMAIN M
  <2>1. PICK t \in DOMAIN T : M[n] = T[t]
    BY <1>6
  <2> QED
    BY <1>4, <2>1
<1>9. Cheapest(g, i, M)
  BY <1>7, <1>8 DEF Cheapest
<1>10. /\ DOMAIN M \subseteq Nat
       /\ \A n \in DOMAIN M : \E e \in DOMAIN Previous, x \in colors :
              TransitionFits(g, Previous[e], i, x) /\ M[n] = Reached(g, i, e, x)
  BY <1>2, <1>6
<1> QED
  BY <1>9, <1>10 DEF M, T

(***************************************************************************)
(* Orders                                                                  *)
(***************************************************************************)
\* Keys are vectors of one length, and no two members share one.
Keys(key, D, n) ==
    /\ IsFiniteSet(D) /\ n \in Nat
    /\ key \in [D -> [1..n -> Int]]
    /\ \A c, d \in D : key[c] = key[d] => c = d

Earlier(key, c) == {d \in DOMAIN key : ScoreBefore(key[d], key[c])}

LEMMA EarlierCounts ==
    ASSUME NEW D, NEW key, NEW n, Keys(key, D, n), NEW c \in D
    PROVE  /\ IsFiniteSet(Earlier(key, c)) /\ Cardinality(Earlier(key, c)) \in 0..(Cardinality(D) - 1)
           /\ \A d \in D : Cardinality(Earlier(key, c)) = Cardinality(Earlier(key, d)) => c = d
<1>1. DOMAIN key = D /\ \A d \in D : key[d] \in [1..n -> Int]
  BY DEF Keys
<1>2. \A d \in D : /\ Earlier(key, d) \in SUBSET D /\ d \notin Earlier(key, d)
                   /\ IsFiniteSet(Earlier(key, d)) /\ Cardinality(Earlier(key, d)) \in Nat
  <2> TAKE d \in D
  <2>1. Earlier(key, d) \in SUBSET D /\ d \notin Earlier(key, d)
    BY <1>1, ScoresOrdered DEF Earlier, Keys
  <2> QED
    BY <2>1, FS_Subset, FS_CardinalityType DEF Keys
<1>3. ASSUME NEW a \in D, NEW b \in D, ScoreBefore(key[a], key[b])
      PROVE  Cardinality(Earlier(key, a)) < Cardinality(Earlier(key, b))
  <2>1. n \in Nat /\ key[a] \in [1..n -> Int] /\ key[b] \in [1..n -> Int]
    BY <1>1 DEF Keys
  <2>2. ASSUME NEW d \in Earlier(key, a) PROVE d \in Earlier(key, b)
    <3>1. d \in D /\ ScoreBefore(key[d], key[a]) /\ key[d] \in [1..n -> Int]
      BY <1>1 DEF Earlier
    <3>2. ScoreBefore(key[d], key[b])
      BY <1>3, <2>1, <3>1, ScoresOrdered
    <3> QED
      BY <1>1, <3>1, <3>2 DEF Earlier
  <2>3. a \in Earlier(key, b) /\ a \notin Earlier(key, a)
    BY <1>1, <1>2, <1>3 DEF Earlier
  <2>4. Earlier(key, a) \in SUBSET Earlier(key, b) /\ Earlier(key, a) # Earlier(key, b)
    BY <2>2, <2>3
  <2>5. /\ Cardinality(Earlier(key, a)) <= Cardinality(Earlier(key, b))
        /\ Cardinality(Earlier(key, a)) # Cardinality(Earlier(key, b))
    BY <1>2, <2>4, FS_Subset
  <2> QED
    BY <1>2, <2>5
<1>4. \A d \in D : Cardinality(Earlier(key, c)) = Cardinality(Earlier(key, d)) => c = d
  <2> SUFFICES ASSUME NEW d \in D, Cardinality(Earlier(key, c)) = Cardinality(Earlier(key, d)), c # d
               PROVE  FALSE
    OBVIOUS
  <2>1. n \in Nat /\ key[c] \in [1..n -> Int] /\ key[d] \in [1..n -> Int] /\ key[c] # key[d]
    BY <1>1 DEF Keys
  <2>2. ScoreBefore(key[c], key[d]) \/ ScoreBefore(key[d], key[c])
    BY <2>1, ScoresCompare
  <2> QED
    BY <1>2, <1>3, <2>2
<1>5. Cardinality(Earlier(key, c)) \in 0..(Cardinality(D) - 1)
  <2>1. IsFiniteSet(D) /\ Cardinality(D) \in Nat
    BY FS_CardinalityType DEF Keys
  <2>2. Cardinality(Earlier(key, c)) <= Cardinality(D) /\ Cardinality(Earlier(key, c)) # Cardinality(D)
    BY <1>2, <2>1, FS_Subset
  <2> QED
    BY <1>2, <2>1, <2>2
<1> QED
  BY <1>2, <1>4, <1>5

\* Members of distinct keys are arranged by them.
LEMMA SortedByArranges ==
    ASSUME NEW D, NEW key, NEW n, Keys(key, D, n)
    PROVE  /\ Arrangement(SortedBy(key), D) /\ Len(SortedBy(key)) = Cardinality(D)
           /\ SortedBy(key) \in [1..Cardinality(D) -> D]
<1> DEFINE N == Cardinality(D)
           s == SortedBy(key)
           rank == [c \in D |-> Cardinality(Earlier(key, c)) + 1]
<1>1. DOMAIN key = D /\ IsFiniteSet(D) /\ N \in Nat
  BY FS_CardinalityType DEF Keys
<1>2. /\ \A c \in D : Cardinality(Earlier(key, c)) \in 0..(N - 1)
      /\ \A c, d \in D : Cardinality(Earlier(key, c)) = Cardinality(Earlier(key, d)) => c = d
  BY EarlierCounts
<1>3. s = [i \in 1..N |-> CHOOSE c \in D : Cardinality(Earlier(key, c)) = i - 1]
  BY <1>1 DEF SortedBy, Earlier
<1> HIDE DEF s
<1>4. rank \in Injection(D, 1..N)
  <2>1. \A c \in D : rank[c] \in 1..N
    BY <1>1, <1>2
  <2>2. \A c, d \in D : rank[c] = rank[d] => c = d
    BY <1>1, <1>2
  <2>3. rank \in [D -> 1..N]
    BY <2>1
  <2> QED
    BY <2>2, <2>3 DEF Injection, IsInjective
<1>5. \A i \in 1..N : \E c \in D : rank[c] = i
  <2>1. IsFiniteSet(1..N) /\ Cardinality(1..N) = N
    <3>1. Cardinality(1..N) = IF 1 > N THEN 0 ELSE N - 1 + 1
      BY <1>1, FS_Interval
    <3>2. IsFiniteSet(1..N)
      BY <1>1, FS_Interval
    <3> QED
      BY <1>1, <3>1, <3>2
  <2> HIDE DEF rank
  <2>2. Cardinality(D) = Cardinality(1..N) <=> rank \in Surjection(D, 1..N)
    BY <1>4, <2>1, FS_Injection
  <2>3. rank \in Surjection(D, 1..N)
    BY <2>1, <2>2
  <2> QED
    BY <2>3 DEF Surjection
<1>6. \A i \in 1..N : s[i] \in D /\ Cardinality(Earlier(key, s[i])) = i - 1
  <2> TAKE i \in 1..N
  <2>1. PICK c \in D : rank[c] = i
    BY <1>5
  <2>2. Cardinality(Earlier(key, c)) = i - 1
    BY <1>2, <2>1
  <2> QED
    BY <1>3, <2>2
<1>7. s \in [1..N -> D]
  BY <1>3, <1>6
<1>8. s \in Seq(D) /\ Len(s) = N
  <2>1. s \in Seq(D)
    BY <1>1, <1>7, SeqDef
  <2>2. Len(s) \in Nat /\ DOMAIN s = 1..Len(s)
    BY <2>1, LenProperties
  <2> QED
    BY <1>1, <1>7, <2>1, <2>2
<1>9. Once(s)
  BY <1>6, <1>8 DEF Once
<1>10. Lists(s, D)
  <2>1. ASSUME NEW c \in D PROVE \E i \in 1..N : s[i] = c
    <3> DEFINE i == Cardinality(Earlier(key, c)) + 1
    <3>1. i \in 1..N /\ i - 1 = Cardinality(Earlier(key, c))
      BY <1>1, <1>2
    <3> HIDE DEF i
    <3>2. s[i] \in D /\ Cardinality(Earlier(key, s[i])) = Cardinality(Earlier(key, c))
      BY <1>6, <3>1
    <3>3. s[i] = c
      BY <1>2, <3>2
    <3> QED
      BY <3>1, <3>3
  <2> QED
    BY <1>6, <1>8, <2>1 DEF Lists
<1> QED
  BY <1>7, <1>8, <1>9, <1>10 DEF Arrangement, s

(***************************************************************************)
(* What the refusals leave                                                 *)
(***************************************************************************)
\* A problem that is solved, with its search space.
Given ==
    /\ problem \in Problems /\ options \in Options
    /\ PrepareAccepts(problem) => space = SearchSpace(problem)
    /\ Refusal = "none"

LEMMA GivenTyped ==
    ASSUME Given
    PROVE  /\ Fixed(problem) /\ space = SearchSpace(problem) /\ SpaceTyped(problem, space) /\ SoftWords
           /\ problem.pools \subseteq Nat
           /\ {options.maxLarge, options.epsilon, options.maxSpan, options.maxStates,
               options.maxTransitions, options.maxOffsets} \subseteq Nat
           /\ options.maxLarge # 0 /\ options.epsilon # 0
<1>1. /\ ValidProblem(problem) /\ Compatible /\ PrepareAccepts(problem)
      /\ options.maxLarge # 0 /\ options.epsilon # 0
  BY DEF Given, Refusal
<1>2. /\ ProblemTyped(problem) /\ ObjectiveTyped(problem) /\ problem.pools \subseteq Nat
      /\ {options.maxLarge, options.epsilon, options.maxSpan, options.maxStates,
          options.maxTransitions, options.maxOffsets} \subseteq Nat
  BY ProblemsAssumption, OptionsAssumption DEF Given
<1>3. ~FlexiblePools(problem)
  <2> SUFFICES ASSUME NEW c \in Classes(problem), Cardinality(ClassPools(problem, c)) > 1
               PROVE  FALSE
    BY DEF FlexiblePools
  <2>1. KnownColocations(problem) /\ \A b \in problem.buffers : problem.allowed[b] \subseteq problem.pools
    BY <1>1 DEF ValidProblem, ValidBuffer, KnownColocations
  <2>2. PICK b \in c : b \in problem.buffers
    BY <2>1, ClassIsOfMember
  <2>3. IsFiniteSet(problem.allowed[b]) /\ ClassPools(problem, c) \subseteq problem.allowed[b]
    <3>1. problem.allowed[b] \in SUBSET problem.pools /\ IsFiniteSet(problem.pools)
      BY <1>2, <2>1, <2>2 DEF ObjectiveTyped
    <3> QED
      BY <2>2, <3>1, FS_Subset DEF ClassPools
  <2>4. /\ Cardinality(ClassPools(problem, c)) \in Nat /\ Cardinality(problem.allowed[b]) \in Nat
        /\ Cardinality(ClassPools(problem, c)) <= Cardinality(problem.allowed[b])
    BY <2>3, FS_Subset, FS_CardinalityType
  <2>5. Cardinality(problem.allowed[b]) <= 1
    BY <1>1, <2>2 DEF Compatible
  <2> QED
    BY <2>4, <2>5
<1>4. Fixed(problem)
  BY <1>1, <1>2, <1>3 DEF Fixed, Compatible
<1>5. space = SearchSpace(problem) /\ SpaceTyped(problem, space)
  BY <1>1, <1>4, SpaceBuilt DEF Given
<1>6. SoftWords
  BY <1>5 DEF SpaceTyped, SoftWords
<1> QED
  BY <1>1, <1>2, <1>4, <1>5, <1>6

LEMMA NodesAre ==
    ASSUME Given, NEW q
    PROVE  /\ IsFiniteSet(NodesOf(space, q)) /\ IsFiniteSet(Classes(problem))
           /\ \A c \in NodesOf(space, q) :
                  /\ c \in Classes(problem) /\ space.pool[c] = q
                  /\ space.size[c] \in 0..MaxUInt /\ Min(c) \in Nat
                  /\ space.alignment[c] \in Nat \ {0}
                  /\ \A d \in NodesOf(space, q) : Min(c) = Min(d) => c = d
           /\ PoolAlignment(q) \in Nat \ {0}
<1>1. Fixed(problem) /\ space = SearchSpace(problem) /\ SpaceTyped(problem, space)
  BY GivenTyped
<1>2. NodesOf(space, q) \in SUBSET Classes(problem)
  BY <1>1 DEF NodesOf, SpaceTyped
<1>3. IsFiniteSet(NodesOf(space, q)) /\ IsFiniteSet(Classes(problem))
  BY <1>1, <1>2, FixedKnown, ClassesFinite, FS_Subset
<1>4. ASSUME NEW c \in NodesOf(space, q)
      PROVE  /\ c \in Classes(problem) /\ space.pool[c] = q
             /\ space.size[c] \in 0..MaxUInt /\ Min(c) \in Nat
             /\ \A d \in NodesOf(space, q) : Min(c) = Min(d) => c = d
  <2>1. c \in Classes(problem) /\ space.pool[c] = q /\ space.size[c] \in 0..MaxUInt
    BY <1>1, <1>2 DEF NodesOf, SpaceTyped
  <2>2. Min(c) \in Nat /\ \A d \in NodesOf(space, q) : Min(c) = Min(d) => c = d
    BY <1>1, <1>2, <2>1, NodesTyped, NodesNamed
  <2> QED
    BY <2>1, <2>2
<1>5. ASSUME NEW c \in NodesOf(space, q) PROVE space.alignment[c] \in Nat \ {0}
  <2>1. c \in Classes(problem) /\ c \in SUBSET problem.buffers
    BY <1>1, <1>2, NodesTyped
  <2>2. \A b \in c : problem.alignment[b] # 0
    BY <1>1, <2>1, FixedKnown DEF ValidProblem, ValidBuffer
  <2>3. ClassAlignment(problem, c) \in Nat \ {0}
    BY <1>1, <2>1, <2>2, ClassAlignmentDivides DEF Fixed
  <2>4. space.alignment[c] = ClassAlignment(problem, c)
    BY <1>1, <2>1 DEF SearchSpace
  <2> QED
    BY <2>3, <2>4
<1>6. PoolAlignment(q) \in Nat \ {0}
  <2> DEFINE S == {space.alignment[c] : c \in NodesOf(space, q)}
             f == [c \in NodesOf(space, q) |-> space.alignment[c]]
  <2>1. S \in SUBSET (Nat \ {0})
    BY <1>5
  <2>2. f \in Surjection(NodesOf(space, q), S)
    BY DEF Surjection
  <2>3. IsFiniteSet(S)
    BY <1>3, <2>2, FS_Surjection
  <2> HIDE DEF S
  <2>4. FoldSet(LeastCommonMultiple, 1, S) \in Nat \ {0}
    BY <2>1, <2>3, FoldDivides
  <2> QED
    BY <2>4 DEF PoolAlignment, S
<1> QED
  BY <1>3, <1>4, <1>5, <1>6

\* A class lives from the first birth to the last death of its members.
LEMMA HullTyped ==
    ASSUME Given, NEW c \in Classes(problem)
    PROVE  Birth(c) \in Int /\ Death(c) \in Int
<1>1. Fixed(problem)
  BY GivenTyped
<1>2. c # {} /\ c \in SUBSET problem.buffers /\ IsFiniteSet(c)
  <2>1. c # {} /\ c \in SUBSET problem.buffers
    BY <1>1, NodesTyped
  <2>2. IsFiniteSet(problem.buffers)
    BY <1>1 DEF Fixed, ObjectiveTyped
  <2> QED
    BY <2>1, <2>2, FS_Subset
<1>3. ASSUME NEW b \in c
      PROVE  /\ IsFiniteSet(problem.live[b]) /\ problem.live[b] \subseteq Int \X Int /\ problem.live[b] # {}
  <2>1. b \in problem.buffers
    BY <1>2
  <2>2. problem.live[b] # {}
    BY <1>1, <2>1, FixedKnown DEF ValidProblem, ValidBuffer
  <2> QED
    BY <2>1, <2>2, ProblemsAssumption DEF Given
<1> DEFINE births(b) == {x[1] : x \in problem.live[b]}
           deaths(b) == {x[2] : x \in problem.live[b]}
           B == {births(b) : b \in c}
           E == {deaths(b) : b \in c}
<1>4. ASSUME NEW b \in c PROVE IsFiniteSet(births(b)) /\ IsFiniteSet(deaths(b))
  <2>1. [x \in problem.live[b] |-> x[1]] \in Surjection(problem.live[b], births(b))
    BY DEF Surjection
  <2>2. [x \in problem.live[b] |-> x[2]] \in Surjection(problem.live[b], deaths(b))
    BY DEF Surjection
  <2> HIDE DEF births, deaths
  <2> QED
    BY <1>3, <2>1, <2>2, FS_Surjection
<1>5. IsFiniteSet(UNION B) /\ IsFiniteSet(UNION E)
  <2>1. [b \in c |-> births(b)] \in Surjection(c, B)
    BY DEF Surjection
  <2>2. [b \in c |-> deaths(b)] \in Surjection(c, E)
    BY DEF Surjection
  <2>3. (\A T \in B : IsFiniteSet(T)) /\ \A T \in E : IsFiniteSet(T)
    BY <1>4
  <2> HIDE DEF B, E
  <2>4. IsFiniteSet(B) /\ IsFiniteSet(E)
    BY <1>2, <2>1, <2>2, FS_Surjection
  <2> QED
    BY <2>3, <2>4, FS_UNION
<1>6. UNION B \in SUBSET Int /\ UNION E \in SUBSET Int
  BY <1>3
<1>7. UNION B # {} /\ UNION E # {}
  BY <1>2, <1>3
<1>8. Birth(c) = Min(UNION B) /\ Death(c) = Max(UNION E)
  BY DEF Birth, Death
<1> HIDE DEF B, E
<1> QED
  BY <1>5, <1>6, <1>7, <1>8, FiniteBounds

LEMMA LargeNodesAre ==
    ASSUME Given, NEW q, SoftPairs(space, q) # {}
    PROVE  /\ MinimumLargeSize(q) \in 0..MaxUInt
           /\ LargeNodes(q) \in SUBSET NodesOf(space, q) /\ LargeNodes(q) # {} /\ IsFiniteSet(LargeNodes(q))
<1> DEFINE ends == UNION {{e[1], e[2]} : e \in SoftPairs(space, q)}
           sizes == {space.size[c] : c \in ends}
<1>1. SpaceTyped(problem, space)
  BY GivenTyped
<1>2. \A e \in SoftPairs(space, q) : /\ e \in Classes(problem) \X Classes(problem)
                                     /\ e[1] \in NodesOf(space, q)
  BY <1>1 DEF SoftPairs, SpaceTyped, NodesOf
<1>3. PICK e \in SoftPairs(space, q) : TRUE
  OBVIOUS
<1>4. \A c \in ends : space.size[c] \in 0..MaxUInt
  BY <1>1, <1>2 DEF SpaceTyped
<1>5. sizes \in SUBSET (0..MaxUInt) /\ space.size[e[1]] \in sizes
  BY <1>3, <1>4
<1>6. Min(sizes) \in sizes /\ \A v \in sizes : Min(sizes) <= v
  <2> HIDE DEF sizes
  <2> QED
    BY <1>5, MinNatural
<1>7. MinimumLargeSize(q) = Min(sizes)
  BY DEF MinimumLargeSize
<1> HIDE DEF sizes, ends
<1>8. MinimumLargeSize(q) \in 0..MaxUInt /\ space.size[e[1]] \in 0..MaxUInt
  BY <1>5, <1>6, <1>7, Zenon
<1>9. e[1] \in LargeNodes(q)
  <2>1. e[1] \in NodesOf(space, q) /\ MinimumLargeSize(q) <= space.size[e[1]]
    BY <1>2, <1>3, <1>5, <1>6, <1>7
  <2>2. space.size[e[1]] >= MinimumLargeSize(q)
    BY <1>8, <2>1, MaxUIntAssumption
  <2> QED
    BY <2>1, <2>2 DEF LargeNodes
<1>10. LargeNodes(q) \in SUBSET NodesOf(space, q)
  BY DEF LargeNodes
<1>11. IsFiniteSet(LargeNodes(q))
  BY <1>10, NodesAre, FS_Subset
<1> QED
  BY <1>9, <1>10, <1>8, <1>11

\* The grid of a pool that is not refused.
LEMMA GridBuilt ==
    ASSUME Given, NEW q, PoolRefusal(q) = "none", SoftPairs(space, q) # {}
    PROVE  LET g == GridOf(q)
           IN  /\ Gridded(g) /\ g.pool = q /\ Len(g.nodes) # 0
               /\ Arrangement(g.nodes, LargeNodes(q))
<1> DEFINE L == LargeNodes(q)
           key == [c \in L |-> <<Birth(c), Death(c), Min(c)>>]
           nodes == SortedBy(key)
           g == GridOf(q)
           small == MinimumLargeSize(q)
           alignment == PoolAlignment(q)
           quantum == Quantum(q)
           capacity == problem.capacity[q]
<1>1. L \in SUBSET NodesOf(space, q) /\ L # {} /\ IsFiniteSet(L) /\ small \in 0..MaxUInt
  BY LargeNodesAre
<1>2. Keys(key, L, 3)
  <2>1. \A c \in L : /\ Birth(c) \in Int /\ Death(c) \in Int /\ Min(c) \in Nat
                     /\ \A d \in L : Min(c) = Min(d) => c = d
    BY <1>1, NodesAre, HullTyped
  <2>2. \A c \in L : key[c] \in [1..3 -> Int]
    <3> TAKE c \in L
    <3>1. key[c] = <<Birth(c), Death(c), Min(c)>>
      OBVIOUS
    <3> QED
      BY <2>1, <3>1
  <2>3. \A c, d \in L : key[c] = key[d] => c = d
    BY <2>1
  <2>4. DOMAIN key = L /\ key = [c \in L |-> key[c]]
    OBVIOUS
  <2> HIDE DEF key
  <2> QED
    BY <1>1, <2>2, <2>3, <2>4 DEF Keys
<1>3. Arrangement(nodes, L) /\ Len(nodes) = Cardinality(L) /\ nodes \in [1..Cardinality(L) -> L]
  <2> HIDE DEF key
  <2> QED
    BY <1>2, SortedByArranges
<1>4. Cardinality(L) \in Nat /\ Cardinality(L) # 0
  BY <1>1, FS_CardinalityType, FS_EmptySet
<1>5. /\ q \in DOMAIN problem.capacity /\ quantum # 0
      /\ ~AddOverflows(capacity, Augmentation(q))
      /\ \A c \in L : ~(AlignUp(space.size[c], quantum) > MaxUInt)
  <2>1. NodesOf(space, q) # {}
    BY <1>1
  <2> QED
    BY <2>1 DEF PoolRefusal
<1>6. options.epsilon \in Nat \ {0} /\ alignment \in Nat \ {0} /\ capacity \in 0..MaxUInt
  <2>1. options.epsilon \in Nat \ {0} /\ Fixed(problem)
    BY GivenTyped
  <2>2. alignment \in Nat \ {0}
    BY NodesAre
  <2>3. capacity \in 0..MaxUInt
    BY <1>5, <2>1 DEF Fixed, ProblemTyped
  <2> QED
    BY <2>1, <2>2, <2>3
<1>7. quantum \in Nat \ {0}
  <2>1. quantum = ((small \div options.epsilon) \div alignment) * alignment
    BY DEF Quantum
  <2> HIDE DEF quantum, small, alignment
  <2>2. small \in Nat
    BY <1>1
  <2>3. small \div options.epsilon \in Nat
    BY <1>6, <2>2, DivMod
  <2>4. (small \div options.epsilon) \div alignment \in Nat
    BY <1>6, <2>3, DivMod
  <2>5. ((small \div options.epsilon) \div alignment) * alignment \in Nat
    BY <1>6, <2>4
  <2> QED
    BY <1>5, <2>1, <2>5
<1>8. capacity + Augmentation(q) \in 0..MaxUInt
  <2>1. Augmentation(q) = (capacity + options.epsilon - 1) \div options.epsilon
    BY DEF Augmentation, CeilDivide
  <2> HIDE DEF capacity
  <2>2. capacity + options.epsilon - 1 \in Nat
    BY <1>6
  <2>3. Augmentation(q) \in Nat
    BY <1>6, <2>1, <2>2, DivMod
  <2> QED
    BY <1>5, <1>6, <2>3, MaxUIntAssumption DEF AddOverflows
<1>9. \A c \in L : AlignUp(space.size[c], quantum) \in 0..MaxUInt
  <2> HIDE DEF quantum
  <2> TAKE c \in L
  <2>1. space.size[c] \in Nat
    BY <1>1, NodesAre
  <2>2. AlignUp(space.size[c], quantum) \in Nat
    BY <1>7, <2>1, AlignUpLeast
  <2> QED
    BY <1>5, <2>2, MaxUIntAssumption
<1>10. /\ g.pool = q /\ g.quantum = quantum /\ g.limit = capacity + Augmentation(q) /\ g.nodes = nodes
       /\ g.rounded = [i \in DOMAIN nodes |-> AlignUp(space.size[nodes[i]], quantum)]
       /\ g.window = [i \in DOMAIN nodes |-> {k \in 1..i : i < Len(nodes) /\ KeptAfter(nodes, i, k)}]
  BY DEF GridOf
<1> HIDE DEF g, nodes, quantum, capacity, L
<1>11. DOMAIN nodes = 1..Len(nodes) /\ Len(nodes) \in Nat
  BY <1>3, <1>4
<1>12. g.rounded \in [1..Len(g.nodes) -> 0..MaxUInt]
  BY <1>3, <1>9, <1>10, <1>11
<1>13. Gridded(g)
  BY <1>7, <1>8, <1>10, <1>11, <1>12 DEF Gridded
<1> QED
  BY <1>3, <1>4, <1>10, <1>13 DEF g, L

(***************************************************************************)
(* The small band                                                          *)
(***************************************************************************)
LEMMA CeilDivideTyped ==
    ASSUME NEW v \in Nat, NEW a \in Nat \ {0}
    PROVE  CeilDivide(v, a) \in Nat
<1>1. v + a - 1 \in Nat
  OBVIOUS
<1> QED
  BY <1>1, DivMod DEF CeilDivide

\* The quanta of a threshold, in addresses, are the threshold aligned up.
LEMMA WholeQuanta ==
    ASSUME NEW v \in Nat, NEW a \in Nat \ {0}
    PROVE  CeilDivide(v, a) * a \in Nat /\ CeilDivide(v, a) * a <= AlignUp(v, a)
<1> DEFINE whole == (v + a - 1) \div a
           up == AlignUp(v, a)
<1>1. v + a - 1 \in Nat
  OBVIOUS
<1>2. PICK n \in Nat : n = whole /\ n * a \in Nat /\ n * a <= v + a - 1
  <2> DEFINE x == v + a - 1
  <2>1. x \div a \in Nat /\ x % a \in 0..(a - 1) /\ x = a * (x \div a) + (x % a)
    BY <1>1, DivMod
  <2>2. PICK n \in Nat : n = x \div a
    BY <2>1
  <2>3. n * a = a * n /\ n * a \in Nat
    OBVIOUS
  <2> HIDE DEF x
  <2>4. n * a <= x
    BY <2>1, <2>2, <2>3
  <2> QED
    BY <2>2, <2>3, <2>4 DEF x
<1>3. up \in Nat /\ v <= up /\ up % a = 0
  BY AlignUpLeast DEF Aligned
<1> HIDE DEF up, whole
<1>4. PICK k \in Nat : up = k * a
  <2>1. up \div a \in Nat /\ up = a * (up \div a)
    BY <1>3, DivMod
  <2>2. PICK k \in Nat : k = up \div a
    BY <2>1
  <2> QED
    BY <2>1, <2>2
<1>5. n <= k
  <2> SUFFICES ASSUME k + 1 <= n PROVE FALSE
    OBVIOUS
  <2>1. (k + 1) * a <= n * a
    BY ProductGrows
  <2>2. (k + 1) * a = k * a + a /\ k * a \in Nat
    OBVIOUS
  <2> QED
    BY <1>2, <1>3, <1>4, <2>1, <2>2
<1>6. n * a <= k * a
  BY <1>5, ProductGrows
<1> QED
  BY <1>2, <1>4, <1>6 DEF whole, up, CeilDivide

LEMMA WordTyped ==
    ASSUME NEW v \in Nat
    PROVE  Word(v) \in Nat /\ Word(v) <= v /\ (v <= MaxUInt => Word(v) = v)
<1>1. MaxUInt + 1 \in Nat \ {0}
  BY MaxUIntAssumption
<1>2. PICK a \in Nat \ {0} : a = MaxUInt + 1
  BY <1>1
<1>3. v % a \in Nat /\ v % a <= v /\ (v < a => v % a = v)
  <2>1. v \div a \in Nat /\ v % a \in 0..(a - 1) /\ v = a * (v \div a) + (v % a)
    BY DivMod
  <2>2. PICK n \in Nat : n = v \div a
    BY <2>1
  <2>3. a * n \in Nat /\ (n = 0 \/ a <= a * n)
    <3>1. CASE n = 0
      BY <3>1
    <3>2. CASE n # 0
      <4>1. PICK m \in Nat : n = m + 1
        <5>1. n - 1 \in Nat /\ n = (n - 1) + 1
          BY <3>2
        <5> QED
          BY <5>1
      <4>2. a * n = a * m + a /\ a * m \in Nat
        BY <4>1
      <4> QED
        BY <4>2
    <3> QED
      BY <3>1, <3>2
  <2>4. PICK r \in Nat : r = v % a
    BY <2>1
  <2>5. v = a * n + r
    BY <2>1, <2>2, <2>4
  <2>6. r <= v /\ (v < a => r = v)
    <3>1. CASE n = 0
      <4>1. a * n = 0
        BY <3>1
      <4> QED
        BY <2>5, <4>1
    <3>2. CASE n # 0
      BY <2>3, <2>5, <3>2
    <3> QED
      BY <3>1, <3>2
  <2> QED
    BY <2>4, <2>6
<1>4. v <= MaxUInt => v < a
  BY <1>2, MaxUIntAssumption
<1> QED
  BY <1>2, <1>3, <1>4 DEF Word

\* A turn of the loop never widens the tracks and never loses the size, though it may wrap.
LEMMA HalvedTyped ==
    ASSUME NEW upper \in Nat, NEW units \in Nat
    PROVE  /\ Halved(upper, units) \in Nat /\ Halved(upper, units) <= upper
           /\ units <= upper => units <= Halved(upper, units)
<1> DEFINE w == Word(upper + 1)
           next == w \div 2
<1>1. w \in Nat /\ w <= upper + 1
  BY WordTyped
<1>2. Halved(upper, units) = IF upper <= 1 \/ next < units THEN upper ELSE next
  BY DEF Halved
<1> HIDE DEF w
<1>3. next \in Nat /\ 2 * next <= w
  BY <1>1
<1> HIDE DEF next
<1> QED
  BY <1>1, <1>2, <1>3

LEMMA HarmonicTyped ==
    ASSUME NEW size \in Nat, NEW threshold \in Nat, NEW alignment \in Nat \ {0}
    PROVE  /\ HarmonicUpper(size, threshold, alignment) \in Nat
           /\ size % alignment = 0 /\ size <= threshold /\ AlignUp(threshold, alignment) <= MaxUInt =>
                  size <= HarmonicUpper(size, threshold, alignment)
<1> DEFINE units == size \div alignment
           whole == CeilDivide(threshold, alignment)
           V == {v \in Nat : v <= whole /\ (units <= whole => units <= v)}
           Step(g, n) == IF n = 0 THEN whole ELSE Halved(g[n - 1], units)
           D == [x \in (1..whole) \X V |-> Halved(x[2], units)]
           upper == CHOOSE g : g = [n \in 0..whole |-> Step(g, n)]
           T == {n \in 0..whole : upper[n] \in V}
<1>1. whole \in Nat /\ units \in Nat /\ size = alignment * units + (size % alignment)
  BY CeilDivideTyped, DivMod
<1>2. HarmonicUpper(size, threshold, alignment) = Word(upper[whole] * alignment)
  BY DEF HarmonicUpper
<1>3. whole * alignment \in Nat /\ whole * alignment <= AlignUp(threshold, alignment)
  BY WholeQuanta
<1>4. size % alignment = 0 /\ size <= threshold => units <= whole /\ size = alignment * units
  <2> SUFFICES ASSUME size % alignment = 0, size <= threshold
               PROVE  units <= whole /\ size = alignment * units
    OBVIOUS
  <2>1. size = alignment * units
    BY <1>1
  <2>2. threshold + alignment - 1 \in Nat /\ size <= threshold + alignment - 1
    OBVIOUS
  <2> HIDE DEF units
  <2>3. units * alignment <= threshold + alignment - 1
    BY <1>1, <2>1, <2>2
  <2>4. units <= (threshold + alignment - 1) \div alignment
    BY <1>1, <2>2, <2>3, MultipleBelow
  <2> QED
    BY <2>1, <2>4 DEF CeilDivide
<1> HIDE DEF whole, units
<1>5. whole \in V /\ \A v \in V : Halved(v, units) \in V
  <2>1. ASSUME NEW v \in V PROVE Halved(v, units) \in V
    <3>1. v \in Nat /\ v <= whole /\ (units <= whole => units <= v)
      OBVIOUS
    <3>2. /\ Halved(v, units) \in Nat /\ Halved(v, units) <= v
          /\ units <= v => units <= Halved(v, units)
      BY <1>1, <3>1, HalvedTyped
    <3> QED
      BY <1>1, <3>1, <3>2
  <2> QED
    BY <1>1, <2>1
<1> HIDE DEF V
<1>6. \E g : g = [n \in 0..whole |-> Step(g, n)]
  <2>1. D \in [(1..whole) \X V -> V]
    BY <1>5
  <2>2. PICK g : RecursionIn(whole, V, whole, D, g)
    <3> HIDE DEF D
    <3> QED
      BY <1>1, <1>5, <2>1, RecursionTyped
  <2>3. g \in [0..whole -> V] /\ g[0] = whole /\ \A n \in 1..whole : g[n] = D[<<n, g[n - 1]>>]
    BY <2>2 DEF RecursionIn
  <2>4. \A n \in 0..whole : g[n] = Step(g, n)
    <3> TAKE n \in 0..whole
    <3>1. CASE n = 0
      BY <2>3, <3>1
    <3>2. CASE n # 0
      <4>1. n \in 1..whole /\ n - 1 \in 0..whole
        BY <1>1, <3>2
      <4>2. g[n - 1] \in V /\ g[n] = D[<<n, g[n - 1]>>]
        BY <2>3, <4>1
      <4> QED
        BY <3>2, <4>1, <4>2
    <3> QED
      BY <3>1, <3>2
  <2> HIDE DEF Step
  <2> QED
    BY <2>3, <2>4
<1>7. upper = [n \in 0..whole |-> Step(upper, n)]
  <2> HIDE DEF Step
  <2> QED
    BY <1>6
<1> HIDE DEF upper
<1>8. \A n \in 0..whole : n \in T
  <2>1. 0 \in T
    <3>1. 0 \in 0..whole
      BY <1>1
    <3>2. upper[0] = whole
      BY <1>7, <3>1
    <3> QED
      BY <1>5, <3>1, <3>2
  <2>2. ASSUME NEW n \in 1..whole, n - 1 \in T PROVE n \in T
    <3>1. n \in 0..whole /\ n # 0
      BY <1>1
    <3>2. upper[n] = Halved(upper[n - 1], units)
      BY <1>7, <3>1
    <3> QED
      BY <1>5, <2>2, <3>1, <3>2
  <2> HIDE DEF T
  <2> QED
    BY <1>1, <2>1, <2>2, NaturalInduction
<1>9. PICK m \in Nat : m = upper[whole] /\ m <= whole /\ (units <= whole => units <= m)
  <2>1. whole \in 0..whole
    BY <1>1
  <2> QED
    BY <1>8, <2>1 DEF V
<1>10. m * alignment \in Nat /\ m * alignment <= whole * alignment
  BY <1>1, <1>9, ProductGrows
<1>11. HarmonicUpper(size, threshold, alignment) = Word(m * alignment)
  BY <1>2, <1>9
<1>12. ASSUME size % alignment = 0, size <= threshold, AlignUp(threshold, alignment) <= MaxUInt
       PROVE  size <= Word(m * alignment)
  <2>1. AlignUp(threshold, alignment) \in Nat
    BY AlignUpLeast
  <2>2. m * alignment <= MaxUInt
    BY <1>3, <1>10, <1>12, <2>1, MaxUIntAssumption
  <2>3. Word(m * alignment) = m * alignment
    BY <1>10, <2>2, WordTyped
  <2>4. units * alignment <= m * alignment /\ units * alignment = alignment * units
    BY <1>1, <1>4, <1>9, <1>12, ProductGrows
  <2> QED
    BY <1>4, <1>12, <2>3, <2>4
<1> QED
  BY <1>10, <1>11, <1>12, WordTyped

\* Functions on some of the members of a set.
PartialOn(S, V) == UNION {[U -> V] : U \in SUBSET S}

LEMMA ExtendedPartial ==
    ASSUME NEW S, NEW V, NEW f \in PartialOn(S, V), NEW c \in S, NEW v \in V
    PROVE  Extend(f, c, v) \in PartialOn(S, V) /\ c \in DOMAIN Extend(f, c, v)
<1>1. PICK U \in SUBSET S : f \in [U -> V]
  BY DEF PartialOn
<1>2. Extend(f, c, v) \in [U \cup {c} -> V] /\ U \cup {c} \in SUBSET S
  BY <1>1 DEF Extend
<1> QED
  BY <1>2 DEF PartialOn

LEMMA OverPartial ==
    ASSUME NEW S, NEW V, NEW f \in PartialOn(S, V), NEW g \in PartialOn(S, V)
    PROVE  Over(f, g) \in PartialOn(S, V)
<1>1. PICK U \in SUBSET S : f \in [U -> V]
  BY DEF PartialOn
<1>2. PICK W \in SUBSET S : g \in [W -> V]
  BY DEF PartialOn
<1>3. Over(f, g) \in [U \cup W -> V] /\ U \cup W \in SUBSET S
  BY <1>1, <1>2 DEF Over
<1> QED
  BY <1>3 DEF PartialOn

\* There are more colours than neighbours.
LEMMA FreeColorTyped ==
    ASSUME NEW S, IsFiniteSet(S), NEW f \in PartialOn(S, Nat), NEW c
    PROVE  /\ FreeColor(f, c) \in Nat
           /\ \A d \in DOMAIN f : <<c, d>> \in space.hard => f[d] # FreeColor(f, c)
<1> DEFINE near == {e \in DOMAIN f : <<c, e>> \in space.hard}
           taken == {f[d] : d \in near}
           N == Cardinality(DOMAIN f)
           free == (0..N) \ taken
<1>1. IsFiniteSet(DOMAIN f) /\ N \in Nat
  <2>1. DOMAIN f \in SUBSET S
    BY DEF PartialOn
  <2> QED
    BY <2>1, FS_Subset, FS_CardinalityType
<1>2. IsFiniteSet(near) /\ Cardinality(near) \in Nat /\ Cardinality(near) <= N
  <2>1. near \in SUBSET DOMAIN f
    OBVIOUS
  <2> QED
    BY <1>1, <2>1, FS_Subset, FS_CardinalityType
<1>3. IsFiniteSet(taken) /\ Cardinality(taken) \in Nat /\ Cardinality(taken) <= Cardinality(near)
  <2>1. [d \in near |-> f[d]] \in Surjection(near, taken)
    BY DEF Surjection
  <2> HIDE DEF near, taken
  <2> QED
    BY <1>2, <2>1, FS_Surjection, FS_CardinalityType
<1>4. Cardinality(0..N) = N + 1
  <2>1. Cardinality(0..N) = IF 0 > N THEN 0 ELSE N - 0 + 1
    BY <1>1, FS_Interval
  <2> QED
    BY <1>1, <2>1
<1>5. free # {}
  <2> SUFFICES ASSUME 0..N \in SUBSET taken PROVE FALSE
    OBVIOUS
  <2> HIDE DEF taken, near, N
  <2>1. Cardinality(0..N) <= Cardinality(taken)
    BY <1>3, FS_Subset
  <2> QED
    BY <1>1, <1>2, <1>3, <1>4, <2>1
<1>6. free \in SUBSET Nat
  BY <1>1
<1>7. FreeColor(f, c) = Min(free)
  BY DEF FreeColor
<1>8. FreeColor(f, c) \in free
  <2> HIDE DEF free
  <2> QED
    BY <1>5, <1>6, <1>7, MinNatural
<1> QED
  BY <1>6, <1>8

LEMMA NothingPartial ==
    ASSUME NEW S, NEW V
    PROVE  <<>> \in PartialOn(S, V)
<1>1. <<>> \in [{} -> V]
  OBVIOUS
<1> QED
  BY <1>1 DEF PartialOn

\* Colours of some nodes, neighbours that block each other with different ones.
ProperColors(nodes) ==
    {f \in PartialOn(nodes, Nat) :
        \A c, d \in DOMAIN f : <<c, d>> \in space.hard => f[c] # f[d]}

LEMMA ExtendedProper ==
    ASSUME Given, NEW nodes \in SUBSET Classes(problem), NEW f \in ProperColors(nodes), NEW c \in nodes
    PROVE  /\ Extend(f, c, FreeColor(f, c)) \in ProperColors(nodes)
           /\ DOMAIN Extend(f, c, FreeColor(f, c)) = DOMAIN f \cup {c}
<1> DEFINE v == FreeColor(f, c)
           h == Extend(f, c, v)
<1>1. IsFiniteSet(nodes)
  BY GivenTyped, FixedKnown, ClassesFinite, FS_Subset
<1>2. f \in PartialOn(nodes, Nat) /\ \A d, e \in DOMAIN f : <<d, e>> \in space.hard => f[d] # f[e]
  BY DEF ProperColors
<1>3. v \in Nat /\ \A d \in DOMAIN f : <<c, d>> \in space.hard => f[d] # v
  BY <1>1, <1>2, FreeColorTyped
<1>4. \A d, e : <<d, e>> \in space.hard => d # e /\ <<e, d>> \in space.hard
  BY GivenTyped DEF SpaceTyped
<1> HIDE DEF v
<1>5. h \in PartialOn(nodes, Nat)
  BY <1>2, <1>3, ExtendedPartial
<1>6. /\ DOMAIN h = DOMAIN f \cup {c} /\ h[c] = v
      /\ \A d \in DOMAIN f : d # c => h[d] = f[d]
  BY DEF Extend
<1> HIDE DEF h
<1>7. ASSUME NEW d \in DOMAIN h, NEW e \in DOMAIN h, <<d, e>> \in space.hard PROVE h[d] # h[e]
  <2>1. d # e /\ <<e, d>> \in space.hard
    BY <1>4, <1>7
  <2>2. CASE d = c
    BY <1>3, <1>6, <1>7, <2>1, <2>2
  <2>3. CASE e = c
    BY <1>3, <1>6, <1>7, <2>1, <2>3
  <2>4. CASE d # c /\ e # c
    BY <1>2, <1>6, <1>7, <2>4
  <2> QED
    BY <2>2, <2>3, <2>4
<1> QED
  BY <1>5, <1>6, <1>7 DEF ProperColors, h, v

LEMMA TrackColorsTyped ==
    ASSUME Given, NEW nodes \in SUBSET Classes(problem)
    PROVE  TrackColors(nodes) \in ProperColors(nodes) /\ DOMAIN TrackColors(nodes) = nodes
<1> DEFINE key == [c \in nodes |-> <<Birth(c), Min(c)>>]
           order == SortedBy(key)
           n == Len(order)
           V == ProperColors(nodes)
           With(f, c) == Extend(f, c, FreeColor(f, c))
           Step(g, i) == IF i = 0 THEN <<>> ELSE With(g[i - 1], order[i])
           D == [x \in (1..n) \X V |-> With(x[2], order[x[1]])]
           color == CHOOSE g : g = [i \in 0..n |-> Step(g, i)]
           T == {i \in 0..n : color[i] \in V /\ \A j \in 1..i : order[j] \in DOMAIN color[i]}
<1>1. Fixed(problem) /\ IsFiniteSet(nodes)
  <2>1. Fixed(problem)
    BY GivenTyped
  <2> QED
    BY <2>1, FixedKnown, ClassesFinite, FS_Subset
<1>2. Keys(key, nodes, 2)
  <2>1. \A c \in nodes : /\ Birth(c) \in Int /\ Min(c) \in Nat
                         /\ \A d \in nodes : Min(c) = Min(d) => c = d
    BY <1>1, NodesTyped, NodesNamed, HullTyped
  <2>2. \A c \in nodes : key[c] \in [1..2 -> Int]
    <3> TAKE c \in nodes
    <3>1. key[c] = <<Birth(c), Min(c)>>
      OBVIOUS
    <3> QED
      BY <2>1, <3>1
  <2>3. \A c, d \in nodes : key[c] = key[d] => c = d
    BY <2>1
  <2>4. DOMAIN key = nodes /\ key = [c \in nodes |-> key[c]]
    OBVIOUS
  <2> HIDE DEF key
  <2> QED
    BY <1>1, <2>2, <2>3, <2>4 DEF Keys
<1>3. /\ n \in Nat /\ \A i \in 1..n : order[i] \in nodes
      /\ \A c \in nodes : \E i \in 1..n : order[i] = c
  <2>1. Arrangement(order, nodes) /\ n = Cardinality(nodes) /\ order \in [1..Cardinality(nodes) -> nodes]
    <3> HIDE DEF key
    <3> QED
      BY <1>2, SortedByArranges
  <2>2. Cardinality(nodes) \in Nat
    BY <1>1, FS_CardinalityType
  <2> HIDE DEF order
  <2> QED
    BY <2>1, <2>2 DEF Arrangement, Lists
<1>4. TrackColors(nodes) = color[n]
  BY DEF TrackColors
<1> HIDE DEF order, n
<1>5. ASSUME NEW f \in V, NEW c \in nodes PROVE With(f, c) \in V /\ DOMAIN With(f, c) = DOMAIN f \cup {c}
  <2>1. f \in ProperColors(nodes)
    OBVIOUS
  <2> QED
    BY <2>1, ExtendedProper, Zenon
<1>6. <<>> \in V
  BY NothingPartial DEF ProperColors
<1> HIDE DEF V, With
<1>7. \E g : g = [i \in 0..n |-> Step(g, i)]
  <2>1. D \in [(1..n) \X V -> V]
    BY <1>3, <1>5
  <2>2. PICK g : RecursionIn(n, V, <<>>, D, g)
    <3> HIDE DEF D
    <3> QED
      BY <1>3, <1>6, <2>1, RecursionTyped
  <2>3. g \in [0..n -> V] /\ g[0] = <<>> /\ \A i \in 1..n : g[i] = D[<<i, g[i - 1]>>]
    BY <2>2 DEF RecursionIn
  <2>4. \A i \in 0..n : g[i] = Step(g, i)
    <3> TAKE i \in 0..n
    <3>1. CASE i = 0
      BY <2>3, <3>1
    <3>2. CASE i # 0
      <4>1. i \in 1..n /\ i - 1 \in 0..n
        BY <1>3, <3>2
      <4>2. g[i - 1] \in V /\ g[i] = D[<<i, g[i - 1]>>]
        BY <2>3, <4>1
      <4> QED
        BY <3>2, <4>1, <4>2
    <3> QED
      BY <3>1, <3>2
  <2> HIDE DEF Step
  <2> QED
    BY <2>3, <2>4
<1>8. color = [i \in 0..n |-> Step(color, i)]
  <2> HIDE DEF Step
  <2> QED
    BY <1>7
<1> HIDE DEF color
<1>9. ASSUME NEW i \in 1..n, i - 1 \in T PROVE i \in T
  <2>1. i \in 0..n /\ i # 0 /\ i - 1 \in 0..n /\ order[i] \in nodes
    BY <1>3
  <2>2. color[i] = With(color[i - 1], order[i])
    BY <1>8, <2>1
  <2>3. color[i] \in V /\ DOMAIN color[i] = DOMAIN color[i - 1] \cup {order[i]}
    BY <1>5, <1>9, <2>1, <2>2
  <2>4. \A j \in 1..i : j = i \/ j \in 1..(i - 1)
    BY <2>1
  <2> QED
    BY <1>9, <2>1, <2>3, <2>4
<1>10. \A i \in 0..n : i \in T
  <2>1. 0 \in T
    <3>1. 0 \in 0..n
      BY <1>3
    <3>2. color[0] = <<>>
      BY <1>8, <3>1
    <3> QED
      BY <1>6, <3>1, <3>2
  <2>2. \A i \in 1..n : i - 1 \in T => i \in T
    BY <1>9
  <2> HIDE DEF T
  <2> QED
    BY <1>3, <2>1, <2>2, NaturalInduction
<1>11. color[n] \in V /\ \A j \in 1..n : order[j] \in DOMAIN color[n]
  <2>1. n \in 0..n
    BY <1>3
  <2> QED
    BY <1>10, <2>1
<1>12. DOMAIN color[n] \subseteq nodes
  BY <1>11 DEF V, ProperColors, PartialOn
<1>13. nodes \subseteq DOMAIN color[n]
  BY <1>3, <1>11
<1> QED
  BY <1>4, <1>11, <1>12, <1>13 DEF V

\* A band with its offsets below the end of the address space.
Bands(S) == [top : Nat, at : PartialOn(S, 0..MaxUInt)]

LEMMA SumAligned ==
    ASSUME NEW a \in Nat \ {0}, NEW u \in Nat, NEW w \in Nat, u % a = 0, w % a = 0
    PROVE  (u + w) % a = 0
<1>1. u = a * (u \div a) /\ w = a * (w \div a) /\ u \div a \in Nat /\ w \div a \in Nat
  BY DivMod
<1>2. PICK k \in Nat, m \in Nat : u = a * k /\ w = a * m
  BY <1>1
<1>3. u + w = a * (k + m) /\ k + m \in Nat
  BY <1>2
<1>4. (a * (k + m)) % a = 0
  BY <1>3, MultipleAligned
<1> QED
  BY <1>3, <1>4

\* The bands so far: every node has a place of its width above the start, and those
\* that block each other have different ones.
Standing(S, up, alignment, start) ==
    {band \in Bands(S) :
        /\ start <= band.top /\ (DOMAIN band.at # {} => band.top <= MaxUInt)
        /\ \A c \in DOMAIN band.at :
               /\ start <= band.at[c] /\ band.at[c] % alignment = 0
               /\ band.at[c] + up[c] <= band.top
               /\ \A d \in DOMAIN band.at : <<c, d>> \in space.hard =>
                      band.at[c] + up[c] <= band.at[d] \/ band.at[d] + up[d] <= band.at[c]}

LEMMA StackedStands ==
    ASSUME Given, NEW S \in SUBSET Classes(problem), NEW nodes \in SUBSET S, nodes # {},
           NEW alignment \in Nat \ {0}, NEW upper \in Nat,
           NEW up \in [S -> Nat], \A c \in nodes : up[c] = AlignUp(upper, alignment),
           NEW start \in Nat, NEW band \in Standing(S, up, alignment, start)
    PROVE  \A next \in Stacked(band, nodes, upper, alignment) :
               next \in Standing(S, up, alignment, start) /\ DOMAIN next.at = DOMAIN band.at \cup nodes
<1> SUFFICES ASSUME NEW width \in Nat, width = AlignUp(upper, alignment), width % alignment = 0,
                    \A c \in nodes : up[c] = width
             PROVE  \A next \in Stacked(band, nodes, upper, alignment) :
                        /\ next \in Standing(S, up, alignment, start)
                        /\ DOMAIN next.at = DOMAIN band.at \cup nodes
  BY AlignUpLeast DEF Aligned
<1> DEFINE color == TrackColors(nodes)
           base == AlignUp(band.top, alignment)
           most == Max(Range(color))
           top == base + (most + 1) * width
           at == [c \in DOMAIN color |-> base + color[c] * width]
<1>1. /\ color \in PartialOn(nodes, Nat) /\ DOMAIN color = nodes
      /\ \A c, d \in nodes : <<c, d>> \in space.hard => color[c] # color[d]
  BY TrackColorsTyped DEF ProperColors
<1>2. /\ band.top \in Nat /\ band.at \in PartialOn(S, 0..MaxUInt) /\ start <= band.top
      /\ \A c \in DOMAIN band.at :
             /\ start <= band.at[c] /\ band.at[c] % alignment = 0
             /\ band.at[c] + up[c] <= band.top
             /\ \A d \in DOMAIN band.at : <<c, d>> \in space.hard =>
                    band.at[c] + up[c] <= band.at[d] \/ band.at[d] + up[d] <= band.at[c]
  BY DEF Standing, Bands
<1>3. base \in Nat /\ band.top <= base /\ base % alignment = 0
  BY <1>2, AlignUpLeast DEF Aligned
<1>4. Stacked(band, nodes, upper, alignment) =
          IF base > MaxUInt \/ top > MaxUInt THEN {} ELSE {[top |-> top, at |-> Over(at, band.at)]}
  BY DEF Stacked
<1>5. /\ DOMAIN color \in SUBSET nodes /\ color \in [DOMAIN color -> Nat]
      /\ IsFiniteSet(DOMAIN color)
  <2>1. DOMAIN color \in SUBSET nodes /\ color \in [DOMAIN color -> Nat]
    <3> HIDE DEF color
    <3> QED
      BY <1>1 DEF PartialOn
  <2>2. IsFiniteSet(Classes(problem))
    BY GivenTyped, FixedKnown, ClassesFinite
  <2>3. nodes \in SUBSET Classes(problem)
    OBVIOUS
  <2> QED
    BY <2>1, <2>2, <2>3, FS_Subset
<1> HIDE DEF color
<1>6. most \in Nat /\ \A c \in DOMAIN color : color[c] <= most
  <2> DEFINE values == Range(color)
  <2>1. values = {color[c] : c \in DOMAIN color}
    BY DEF Range
  <2>2. color \in Surjection(DOMAIN color, values)
    BY <1>5, <2>1 DEF Surjection
  <2>3. IsFiniteSet(values)
    BY <1>5, <2>2, FS_Surjection
  <2>4. values \in SUBSET Int /\ values # {} /\ values \in SUBSET Nat
    BY <1>1, <1>5, <2>1
  <2> HIDE DEF values
  <2>5. Max(values) \in values /\ \A v \in values : v <= Max(values)
    BY <2>3, <2>4, FiniteBounds
  <2> QED
    BY <2>1, <2>4, <2>5 DEF values
<1> HIDE DEF base, most
<1>7. (most + 1) * width \in Nat /\ (most + 1) * width = most * width + width /\ most * width \in Nat
  BY <1>6
<1>8. ASSUME ~(base > MaxUInt \/ top > MaxUInt)
      PROVE  /\ top \in Nat /\ top <= MaxUInt /\ base <= top
             /\ \A c \in nodes : /\ at[c] \in 0..MaxUInt /\ at[c] % alignment = 0
                                  /\ base <= at[c] /\ at[c] + width <= top
             /\ \A c, d \in nodes : color[c] < color[d] => at[c] + width <= at[d]
  <2>1. top \in Nat /\ top <= MaxUInt /\ base <= top /\ top = base + most * width + width
    BY <1>3, <1>7, <1>8, MaxUIntAssumption
  <2>2. ASSUME NEW c \in nodes
        PROVE  \E w \in Nat : /\ w = color[c] * width /\ w <= most * width /\ w % alignment = 0
                               /\ at[c] = base + w
    <3>1. color[c] \in Nat /\ color[c] <= most
      BY <1>1, <1>5, <1>6
    <3>2. color[c] * width \in Nat /\ color[c] * width <= most * width
      BY <1>6, <3>1, ProductGrows
    <3>3. (color[c] * width) % alignment = 0
      <4>1. CASE width = 0
        <5>1. color[c] * width = 0
          BY <3>1, <4>1
        <5> QED
          BY <5>1
      <4>2. CASE width # 0
        <5>1. PICK x \in Nat : x = color[c]
          BY <3>1
        <5>2. (width * x) % width = 0 /\ width * x = x * width /\ x * width \in Nat
          BY <4>2, MultipleAligned
        <5>3. (x * width) % alignment = 0
          BY <4>2, <5>2, Divides
        <5> QED
          BY <5>1, <5>3
      <4> QED
        BY <4>1, <4>2
    <3>4. at[c] = base + color[c] * width
      BY <1>1
    <3> QED
      BY <3>2, <3>3, <3>4
  <2>3. PICK end \in Nat : end = most * width
    BY <1>7
  <2>4. ASSUME NEW c \in nodes
        PROVE  /\ at[c] \in 0..MaxUInt /\ at[c] % alignment = 0
               /\ base <= at[c] /\ at[c] + width <= top
    <3>1. PICK w \in Nat : /\ w = color[c] * width /\ w <= most * width /\ w % alignment = 0
                            /\ at[c] = base + w
      BY <2>2
    <3>2. (base + w) % alignment = 0
      BY <1>3, <3>1, SumAligned
    <3>3. base + w + width <= top
      <4>1. w <= end /\ top = base + end + width
        BY <2>1, <2>3, <3>1
      <4> QED
        BY <1>3, <4>1
    <3> HIDE DEF at
    <3> QED
      BY <1>3, <2>1, <3>1, <3>2, <3>3, MaxUIntAssumption
  <2>5. ASSUME NEW c \in nodes, NEW d \in nodes, color[c] < color[d] PROVE at[c] + width <= at[d]
    <3>1. color[c] \in Nat /\ color[d] \in Nat
      BY <1>1, <1>5
    <3>2. PICK k \in Nat : color[d] = color[c] + 1 + k
      <4>1. color[d] - (color[c] + 1) \in Nat /\ color[d] = color[c] + 1 + (color[d] - (color[c] + 1))
        BY <2>5, <3>1
      <4> QED
        BY <4>1
    <3>3. /\ color[d] * width = color[c] * width + width + k * width
          /\ k * width \in Nat /\ color[c] * width \in Nat
      BY <3>1, <3>2
    <3>4. at[c] = base + color[c] * width /\ at[d] = base + color[d] * width
      BY <1>1
    <3> HIDE DEF at
    <3> QED
      BY <1>3, <3>3, <3>4
  <2> QED
    BY <2>1, <2>4, <2>5
<1>9. DOMAIN at = nodes
  BY <1>1
<1> HIDE DEF at, top
<1>10. ASSUME ~(base > MaxUInt \/ top > MaxUInt), NEW next, next = [top |-> top, at |-> Over(at, band.at)]
       PROVE  next \in Standing(S, up, alignment, start) /\ DOMAIN next.at = DOMAIN band.at \cup nodes
  <2>1. next.top = top /\ next.at = Over(at, band.at)
    BY <1>10
  <2>2. Over(at, band.at) \in PartialOn(S, 0..MaxUInt)
    <3>1. at \in [nodes -> 0..MaxUInt]
      <4>1. at = [c \in nodes |-> base + color[c] * width]
        BY <1>1 DEF at
      <4>2. \A c \in nodes : at[c] \in 0..MaxUInt
        BY <1>8, <1>10
      <4> QED
        BY <4>1, <4>2
    <3>2. at \in PartialOn(S, 0..MaxUInt)
      BY <3>1 DEF PartialOn
    <3> QED
      BY <1>2, <3>2, OverPartial
  <2>3. /\ DOMAIN next.at = DOMAIN band.at \cup nodes
        /\ \A c \in nodes : next.at[c] = at[c]
        /\ \A c \in DOMAIN next.at : c \notin nodes => c \in DOMAIN band.at /\ next.at[c] = band.at[c]
    BY <1>9, <2>1 DEF Over
  <2>4. next \in Bands(S)
    BY <1>8, <1>10, <2>1, <2>2 DEF Bands
  <2>5. DOMAIN band.at \subseteq S /\ \A c \in DOMAIN band.at : band.at[c] \in Nat
    BY <1>2 DEF PartialOn
  <2>6. /\ top \in Nat /\ base <= top /\ start <= base /\ start <= top
        /\ \A c \in S : up[c] \in Nat
    BY <1>2, <1>3, <1>8, <1>10
  <2>7. ASSUME NEW c \in DOMAIN next.at, c \notin nodes
        PROVE  /\ c \in DOMAIN band.at /\ next.at[c] = band.at[c] /\ next.at[c] + up[c] <= base
               /\ next.at[c] \in Nat /\ up[c] \in Nat
               /\ start <= next.at[c] /\ next.at[c] % alignment = 0
    <3>1. c \in DOMAIN band.at /\ next.at[c] = band.at[c] /\ band.at[c] \in Nat /\ up[c] \in Nat
      BY <2>3, <2>5, <2>6, <2>7
    <3>2. band.at[c] + up[c] <= band.top /\ start <= band.at[c] /\ band.at[c] % alignment = 0
      BY <1>2, <3>1
    <3> QED
      BY <1>2, <1>3, <3>1, <3>2
  <2>8. ASSUME NEW c \in nodes
        PROVE  /\ next.at[c] = at[c] /\ up[c] = width /\ next.at[c] \in Nat
               /\ base <= next.at[c] /\ next.at[c] + up[c] <= top /\ next.at[c] % alignment = 0
    BY <1>8, <1>10, <2>3
  <2>9. ASSUME NEW c \in DOMAIN next.at
        PROVE  start <= next.at[c] /\ next.at[c] % alignment = 0 /\ next.at[c] + up[c] <= top
    <3>1. CASE c \in nodes
      BY <1>3, <2>6, <2>8, <3>1
    <3>2. CASE c \notin nodes
      BY <1>3, <2>6, <2>7, <3>2
    <3> QED
      BY <3>1, <3>2
  <2>10. ASSUME NEW c \in DOMAIN next.at, NEW d \in DOMAIN next.at, <<c, d>> \in space.hard
         PROVE  next.at[c] + up[c] <= next.at[d] \/ next.at[d] + up[d] <= next.at[c]
    <3>1. CASE c \in nodes /\ d \in nodes
      <4>1. color[c] # color[d] /\ color[c] \in Nat /\ color[d] \in Nat
        BY <1>1, <1>5, <2>10, <3>1
      <4>2. color[c] < color[d] \/ color[d] < color[c]
        BY <4>1
      <4> QED
        BY <1>8, <1>10, <2>8, <3>1, <4>2
    <3>2. CASE c \in nodes /\ d \notin nodes
      <4>1. next.at[d] + up[d] <= base /\ base <= next.at[c] /\ next.at[c] \in Nat /\ next.at[d] + up[d] \in Nat
        BY <2>7, <2>8, <3>2
      <4> QED
        BY <1>3, <4>1
    <3>3. CASE c \notin nodes /\ d \in nodes
      <4>1. next.at[c] + up[c] <= base /\ base <= next.at[d] /\ next.at[d] \in Nat /\ next.at[c] + up[c] \in Nat
        BY <2>7, <2>8, <3>3
      <4> QED
        BY <1>3, <4>1
    <3>4. CASE c \notin nodes /\ d \notin nodes
      BY <1>2, <2>7, <2>10, <3>4
    <3> QED
      BY <3>1, <3>2, <3>3, <3>4
  <2>11. DOMAIN next.at # {} => next.top <= MaxUInt
    BY <1>8, <1>10, <2>1
  <2> QED
    BY <2>1, <2>3, <2>4, <2>6, <2>9, <2>10, <2>11 DEF Standing
<1> QED
  BY <1>4, <1>10

\* Two nodes have no address in common.
Disjoint(off, c, d) ==
    off[c] + space.size[c] <= off[d] \/ off[d] + space.size[d] <= off[c]

\* Every node gets a place above the start.  When the sizes are not above the threshold,
\* and the threshold in whole quanta is a word, the places end in the address space, and
\* nodes that block each other are disjoint.
LEMMA SmallBandStands ==
    ASSUME Given, NEW nodes \in SUBSET Classes(problem), NEW threshold \in Nat,
           NEW alignment \in Nat \ {0}, NEW start \in Nat,
           NEW at \in SmallBand(nodes, threshold, alignment, start)
    PROVE  /\ at \in [nodes -> 0..MaxUInt]
           /\ \A c \in nodes : start <= at[c] /\ at[c] % alignment = 0
           /\ /\ AlignUp(threshold, alignment) <= MaxUInt
              /\ \A c \in nodes : space.size[c] % alignment = 0 /\ space.size[c] <= threshold
              => \A c \in nodes :
                      /\ at[c] + space.size[c] <= MaxUInt
                      /\ \A d \in nodes : <<c, d>> \in space.hard => Disjoint(at, c, d)
<1> DEFINE upper(c) == HarmonicUpper(space.size[c], threshold, alignment)
           W == {upper(c) : c \in nodes}
           key == [width \in W |-> <<-width>>]
           widths == SortedBy(key)
           n == Len(widths)
           up == [c \in nodes |-> AlignUp(upper(c), alignment)]
           V == SUBSET Standing(nodes, up, alignment, start)
           first == {[top |-> start, at |-> <<>>]}
           Class(i) == {c \in nodes : upper(c) = widths[i]}
           With(bands, i) == UNION {Stacked(band, Class(i), widths[i], alignment) : band \in bands}
           Step(g, i) == IF i = 0 THEN first ELSE With(g[i - 1], i)
           D == [x \in (1..n) \X V |-> With(x[2], x[1])]
           bands == CHOOSE g : g = [i \in 0..n |-> Step(g, i)]
           T == {i \in 0..n : /\ bands[i] \in V
                              /\ \A band \in bands[i], j \in 1..i : Class(j) \subseteq DOMAIN band.at}
<1>1. SmallBand(nodes, threshold, alignment, start) = {band.at : band \in bands[n]}
  BY DEF SmallBand
<1>2. ASSUME NEW c \in nodes
      PROVE  /\ upper(c) \in Nat /\ space.size[c] \in Nat
             /\ AlignUp(upper(c), alignment) \in Nat
             /\ /\ AlignUp(threshold, alignment) <= MaxUInt
                /\ space.size[c] % alignment = 0 /\ space.size[c] <= threshold
                => space.size[c] <= AlignUp(upper(c), alignment)
  <2>1. space.size[c] \in Nat
    BY GivenTyped DEF SpaceTyped
  <2>2. /\ upper(c) \in Nat
        /\ /\ space.size[c] % alignment = 0 /\ space.size[c] <= threshold
           /\ AlignUp(threshold, alignment) <= MaxUInt
           => space.size[c] <= upper(c)
    BY <2>1, HarmonicTyped
  <2> HIDE DEF upper
  <2>3. AlignUp(upper(c), alignment) \in Nat /\ upper(c) <= AlignUp(upper(c), alignment)
    BY <2>2, AlignUpLeast
  <2> QED
    BY <2>1, <2>2, <2>3
<1> HIDE DEF upper
<1>3. /\ n \in Nat /\ \A i \in 1..n : widths[i] \in Nat /\ Class(i) # {}
      /\ \A c \in nodes : \E i \in 1..n : c \in Class(i)
  <2>1. IsFiniteSet(nodes)
    BY GivenTyped, FixedKnown, ClassesFinite, FS_Subset
  <2>2. [c \in nodes |-> upper(c)] \in Surjection(nodes, W)
    BY DEF Surjection
  <2>3. IsFiniteSet(W) /\ Cardinality(W) \in Nat
    <3> HIDE DEF W
    <3> QED
      BY <2>1, <2>2, FS_Surjection, FS_CardinalityType
  <2>4. Keys(key, W, 1)
    <3>1. W \in SUBSET Nat
      BY <1>2
    <3> HIDE DEF W
    <3>2. \A width \in W : key[width] \in [1..1 -> Int] /\ key[width][1] = -width
      <4> TAKE width \in W
      <4>1. key[width] = <<-width>> /\ -width \in Int
        BY <3>1
      <4> QED
        BY <4>1
    <3>3. \A width, other \in W : key[width] = key[other] => width = other
      BY <3>1, <3>2
    <3>4. DOMAIN key = W /\ key = [width \in W |-> key[width]]
      OBVIOUS
    <3> HIDE DEF key
    <3> QED
      BY <2>3, <3>2, <3>3, <3>4 DEF Keys
  <2>5. /\ n = Cardinality(W) /\ widths \in [1..Cardinality(W) -> W]
        /\ \A width \in W : \E i \in 1..n : widths[i] = width
    <3> HIDE DEF key, W
    <3> QED
      BY <2>4, SortedByArranges DEF Arrangement, Lists
  <2>6. \A i \in 1..n : widths[i] \in W
    <3> HIDE DEF widths, W
    <3> QED
      BY <2>5
  <2>7. n \in Nat
    BY <2>3, <2>5
  <2> HIDE DEF widths, n
  <2>8. ASSUME NEW i \in 1..n PROVE widths[i] \in Nat /\ Class(i) # {}
    <3>1. PICK c \in nodes : widths[i] = upper(c)
      BY <2>6
    <3> QED
      BY <1>2, <3>1
  <2>9. ASSUME NEW c \in nodes PROVE \E i \in 1..n : c \in Class(i)
    <3>1. upper(c) \in W
      OBVIOUS
    <3> HIDE DEF W
    <3> QED
      BY <2>5, <3>1
  <2> QED
    BY <2>7, <2>8, <2>9
<1> HIDE DEF widths, n, W
<1>4. first \in V
  <2>1. [top |-> start, at |-> <<>>] \in Standing(nodes, up, alignment, start)
    BY NothingPartial DEF Bands, Standing
  <2> QED
    BY <2>1
<1>5. ASSUME NEW S \in V, NEW i \in 1..n
      PROVE  /\ With(S, i) \in V
             /\ \A next \in With(S, i) : \E band \in S : DOMAIN next.at = DOMAIN band.at \cup Class(i)
  <2>1. /\ Class(i) \in SUBSET nodes /\ Class(i) # {} /\ widths[i] \in Nat
        /\ up \in [nodes -> Nat] /\ \A c \in Class(i) : up[c] = AlignUp(widths[i], alignment)
    BY <1>2, <1>3
  <2>2. nodes \in SUBSET Classes(problem)
    OBVIOUS
  <2> HIDE DEF Class, up
  <2>3. ASSUME NEW band \in S
        PROVE  \A next \in Stacked(band, Class(i), widths[i], alignment) :
                   /\ next \in Standing(nodes, up, alignment, start)
                   /\ DOMAIN next.at = DOMAIN band.at \cup Class(i)
    BY <2>1, <2>2, StackedStands
  <2> QED
    BY <2>3
<1> HIDE DEF V, With, first, up
<1>6. \E g : g = [i \in 0..n |-> Step(g, i)]
  <2>1. D \in [(1..n) \X V -> V]
    BY <1>3, <1>5
  <2>2. PICK g : RecursionIn(n, V, first, D, g)
    <3> HIDE DEF D
    <3> QED
      BY <1>3, <1>4, <2>1, RecursionTyped
  <2>3. g \in [0..n -> V] /\ g[0] = first /\ \A i \in 1..n : g[i] = D[<<i, g[i - 1]>>]
    BY <2>2 DEF RecursionIn
  <2>4. \A i \in 0..n : g[i] = Step(g, i)
    <3> TAKE i \in 0..n
    <3>1. CASE i = 0
      BY <2>3, <3>1
    <3>2. CASE i # 0
      <4>1. i \in 1..n /\ i - 1 \in 0..n
        BY <1>3, <3>2
      <4>2. g[i - 1] \in V /\ g[i] = D[<<i, g[i - 1]>>]
        BY <2>3, <4>1
      <4> QED
        BY <3>2, <4>1, <4>2
    <3> QED
      BY <3>1, <3>2
  <2> HIDE DEF Step
  <2> QED
    BY <2>3, <2>4
<1>7. bands = [i \in 0..n |-> Step(bands, i)]
  <2> HIDE DEF Step
  <2> QED
    BY <1>6
<1> HIDE DEF bands
<1>8. \A i \in 0..n : i \in T
  <2>1. 0 \in T
    <3>1. 0 \in 0..n /\ 1..0 = {}
      BY <1>3
    <3>2. bands[0] = first
      BY <1>7, <3>1
    <3> QED
      BY <1>4, <3>1, <3>2
  <2>2. ASSUME NEW i \in 1..n, i - 1 \in T PROVE i \in T
    <3>1. i \in 0..n /\ i # 0 /\ i - 1 \in 0..n /\ \A j \in 1..i : j = i \/ j \in 1..(i - 1)
      BY <1>3
    <3>2. bands[i] = With(bands[i - 1], i)
      BY <1>7, <3>1
    <3>3. /\ bands[i - 1] \in V
          /\ \A band \in bands[i - 1], j \in 1..(i - 1) : Class(j) \subseteq DOMAIN band.at
      BY <2>2
    <3> HIDE DEF Class
    <3>4. /\ bands[i] \in V
          /\ \A next \in bands[i] : \E band \in bands[i - 1] : DOMAIN next.at = DOMAIN band.at \cup Class(i)
      BY <1>5, <3>2, <3>3
    <3>5. \A next \in bands[i], j \in 1..i : Class(j) \subseteq DOMAIN next.at
      BY <3>1, <3>3, <3>4
    <3> QED
      BY <3>1, <3>4, <3>5
  <2> HIDE DEF T
  <2> QED
    BY <1>3, <2>1, <2>2, NaturalInduction
<1>9. bands[n] \in V /\ \A band \in bands[n], j \in 1..n : Class(j) \subseteq DOMAIN band.at
  <2>1. n \in 0..n
    BY <1>3
  <2> QED
    BY <1>8, <2>1
<1>10. PICK band \in bands[n] : at = band.at
  BY <1>1
<1>11. band \in Standing(nodes, up, alignment, start)
  BY <1>9, <1>10 DEF V
<1>12. DOMAIN at = nodes
  <2>1. DOMAIN at \subseteq nodes
    BY <1>10, <1>11 DEF Standing, Bands, PartialOn
  <2>2. nodes \subseteq DOMAIN at
    BY <1>3, <1>9, <1>10
  <2> QED
    BY <2>1, <2>2
<1>13. at \in [nodes -> 0..MaxUInt]
  BY <1>10, <1>11, <1>12 DEF Standing, Bands, PartialOn
<1>14. \A c \in nodes : start <= at[c] /\ at[c] % alignment = 0
  BY <1>10, <1>11, <1>12 DEF Standing
<1>15. ASSUME AlignUp(threshold, alignment) <= MaxUInt,
              \A c \in nodes : space.size[c] % alignment = 0 /\ space.size[c] <= threshold,
              NEW c \in nodes
       PROVE  /\ at[c] + space.size[c] <= MaxUInt
              /\ \A d \in nodes : <<c, d>> \in space.hard => Disjoint(at, c, d)
  <2>1. \A d \in nodes : /\ space.size[d] <= up[d] /\ space.size[d] \in Nat /\ up[d] \in Nat
                          /\ at[d] \in Nat
    BY <1>2, <1>13, <1>15 DEF up
  <2>2. /\ at[c] + up[c] <= band.top /\ band.top <= MaxUInt /\ band.top \in Nat
        /\ \A d \in nodes : <<c, d>> \in space.hard =>
               at[c] + up[c] <= at[d] \/ at[d] + up[d] <= at[c]
    BY <1>10, <1>11, <1>12 DEF Standing, Bands
  <2>3. at[c] + space.size[c] <= MaxUInt
    BY <2>1, <2>2, MaxUIntAssumption
  <2>4. ASSUME NEW d \in nodes, <<c, d>> \in space.hard PROVE Disjoint(at, c, d)
    BY <2>1, <2>2, <2>4 DEF Disjoint
  <2> QED
    BY <2>3, <2>4
<1> QED
  BY <1>13, <1>14, <1>15

LEMMA SmallBandTyped ==
    ASSUME Given, NEW nodes \in SUBSET Classes(problem), NEW threshold \in Nat,
           NEW alignment \in Nat \ {0}, NEW start \in Nat
    PROVE  SmallBand(nodes, threshold, alignment, start) \in SUBSET PartialOn(nodes, 0..MaxUInt)
<1>1. \A at \in SmallBand(nodes, threshold, alignment, start) : at \in [nodes -> 0..MaxUInt]
  BY SmallBandStands
<1> QED
  BY <1>1 DEF PartialOn

(***************************************************************************)
(* The way back                                                            *)
(***************************************************************************)
\* The entries on the way back from the best one of the last layer.
IsWayBack(way, n) ==
    /\ way[n] = layers[n][Best] /\ Best \in DOMAIN layers[n]
    /\ \A i \in 1..n : \E x \in DOMAIN layers[i] : way[i] = layers[i][x]
    /\ \A i \in 1..n : i # n => way[i] = layers[i][way[i + 1].from]

LEMMA WayBack ==
    ASSUME NEW g \in grid, LayersLeadBack, NEW n \in Nat \ {0}, DOMAIN layers = 1..n, Len(layers) = n,
           \A x \in DOMAIN layers[n] : layers[n][x].cost \in Nat
    PROVE  \E way : IsWayBack(way, n) /\ ColorsBack(g) = [i \in 1..n |-> way[i].color]
<1> DEFINE Met(i) == {layers[i][x] : x \in DOMAIN layers[i]}
           Back(e, i) == layers[i][e.from]
           last == layers[n][Best]
           Step(e, i) == IF i = n THEN last ELSE Back(e[i + 1], i)
           entry == CHOOSE e : e = [i \in 1..n |-> Step(e, i)]
           D == [x \in (1..(n - 1)) \X UNION {Met(i) : i \in 1..n} |-> Back(x[2], n - x[1])]
           T(e) == {j \in 0..(n - 1) : e[n - j] \in Met(n - j)}
<1>1. \A i \in 1..n :
          /\ DOMAIN layers[i] # {}
          /\ \A x \in DOMAIN layers[i] :
                 /\ x \in Nat /\ layers[i][x].color \in 0..(ColorCount(g, i) - 1)
                 /\ i > 1 => layers[i][x].from \in DOMAIN layers[i - 1]
  BY DEF LayersLeadBack
<1>2. Best \in DOMAIN layers[n]
  <2>1. n \in 1..n /\ Best = CheapestOf(layers[n], DOMAIN layers[n])
    BY DEF Best, Last
  <2>2. DOMAIN layers[n] \in SUBSET Nat /\ DOMAIN layers[n] # {}
    BY <1>1, <2>1
  <2> QED
    BY <2>1, <2>2, CheapestChosen
<1>3. last \in Met(n)
  BY <1>2
<1>4. ASSUME NEW i \in 1..n, i # n, NEW e \in Met(i + 1) PROVE Back(e, i) \in Met(i)
  <2>1. i + 1 \in 1..n /\ i + 1 > 1 /\ i + 1 - 1 = i
    BY <1>4
  <2>2. e.from \in DOMAIN layers[i]
    BY <1>1, <2>1
  <2> QED
    BY <2>2
<1>5. ColorsBack(g) = [i \in 1..n |-> entry[i].color]
  <2> DEFINE A(e) == [i \in DOMAIN layers |->
                         IF i = Len(layers) THEN layers[i][Best] ELSE layers[i][e[i + 1].from]]
             B(e) == [i \in 1..n |-> Step(e, i)]
  <2>1. ASSUME NEW e PROVE A(e) = B(e)
    OBVIOUS
  <2>2. ColorsBack(g) = [i \in DOMAIN layers |-> (CHOOSE e : e = A(e))[i].color]
    BY DEF ColorsBack
  <2>3. entry = CHOOSE e : e = B(e)
    OBVIOUS
  <2> HIDE DEF A, B, entry
  <2>4. (CHOOSE e : e = A(e)) = (CHOOSE e : e = B(e))
    BY <2>1
  <2> QED
    BY <2>2, <2>3, <2>4
<1> HIDE DEF Met, Back, last
<1>7. \E e : e = [i \in 1..n |-> Step(e, i)]
  <2>1. PICK h : IsRecursion(n - 1, last, D, h)
    <3>1. n - 1 \in Nat
      OBVIOUS
    <3> HIDE DEF D
    <3> QED
      BY <3>1, RecursionExists
  <2>2. \A j \in 0..(n - 1) : h[j] = IF j = 0 THEN last ELSE D[<<j, h[j - 1]>>]
    <3> HIDE DEF D
    <3> QED
      BY <2>1 DEF IsRecursion
  <2> DEFINE e == [i \in 1..n |-> h[n - i]]
             U == {j \in 0..(n - 1) : h[j] \in Met(n - j)}
  <2>3. ASSUME NEW j \in 1..(n - 1), j - 1 \in U
        PROVE  h[j] = Back(h[j - 1], n - j) /\ j \in U
    <3>1. /\ j \in 0..(n - 1) /\ j # 0 /\ n - j \in 1..n /\ n - j # n
          /\ n - (j - 1) = n - j + 1 /\ n - (j - 1) \in 1..n
      OBVIOUS
    <3>2. h[j - 1] \in Met(n - j + 1)
      BY <2>3, <3>1
    <3>3. <<j, h[j - 1]>> \in (1..(n - 1)) \X UNION {Met(i) : i \in 1..n}
      BY <3>1, <3>2
    <3>4. h[j] = Back(h[j - 1], n - j)
      BY <2>2, <3>1, <3>3
    <3>5. h[j] \in Met(n - j)
      BY <1>4, <3>1, <3>2, <3>4
    <3> QED
      BY <3>1, <3>4, <3>5
  <2>4. \A j \in 0..(n - 1) : j \in U
    <3>1. 0 \in U
      <4>1. 0 \in 0..(n - 1) /\ n - 0 = n
        OBVIOUS
      <4>2. h[0] = last
        <5> HIDE DEF D
        <5> QED
          BY <2>2, <4>1
      <4> QED
        BY <1>3, <4>1, <4>2
    <3>2. n - 1 \in Nat /\ \A j \in 1..(n - 1) : j - 1 \in U => j \in U
      BY <2>3
    <3> HIDE DEF U
    <3> QED
      BY <3>1, <3>2, NaturalInduction
  <2>5. ASSUME NEW i \in 1..n PROVE e[i] = Step(e, i)
    <3>1. CASE i = n
      <4>1. n - n = 0 /\ 0 \in 0..(n - 1)
        OBVIOUS
      <4>2. h[0] = last
        <5> HIDE DEF D
        <5> QED
          BY <2>2, <4>1
      <4> QED
        BY <3>1, <4>1, <4>2
    <3>2. CASE i # n
      <4> DEFINE j == n - i
      <4>1. j \in 1..(n - 1) /\ j - 1 \in 0..(n - 1) /\ n - j = i /\ n - (i + 1) = j - 1 /\ i + 1 \in 1..n
        BY <3>2
      <4>2. e[i + 1] = h[j - 1] /\ e[i] = h[j]
        BY <4>1
      <4> HIDE DEF j, e, U
      <4>3. h[j] = Back(h[j - 1], n - j)
        BY <2>3, <2>4, <4>1
      <4> QED
        BY <3>2, <4>1, <4>2, <4>3
    <3> QED
      BY <3>1, <3>2
  <2>6. e = [i \in 1..n |-> Step(e, i)]
    <3> HIDE DEF Step
    <3> QED
      BY <2>5
  <2> QED
    BY <2>6
<1>8. entry = [i \in 1..n |-> Step(entry, i)]
  <2> HIDE DEF Step
  <2> QED
    BY <1>7
<1> HIDE DEF entry
<1>9. \A j \in 0..(n - 1) : j \in T(entry)
  <2>1. 0 \in T(entry)
    <3>1. 0 \in 0..(n - 1) /\ n - 0 = n /\ n \in 1..n
      OBVIOUS
    <3>2. entry[n] = last
      BY <1>8, <3>1
    <3> QED
      BY <1>3, <3>1, <3>2
  <2>2. ASSUME NEW j \in 1..(n - 1), j - 1 \in T(entry) PROVE j \in T(entry)
    <3>1. /\ j \in 0..(n - 1) /\ n - j \in 1..n /\ n - j # n /\ n - (j - 1) = n - j + 1
      OBVIOUS
    <3>2. entry[n - j] = Back(entry[n - j + 1], n - j)
      BY <1>8, <3>1
    <3>3. entry[n - j + 1] \in Met(n - j + 1)
      BY <2>2, <3>1
    <3>4. entry[n - j] \in Met(n - j)
      BY <1>4, <3>1, <3>2, <3>3
    <3> QED
      BY <3>1, <3>4
  <2>3. n - 1 \in Nat /\ \A j \in 1..(n - 1) : j - 1 \in T(entry) => j \in T(entry)
    BY <2>2
  <2> HIDE DEF T
  <2> QED
    BY <2>1, <2>3, NaturalInduction
<1>10. ASSUME NEW i \in 1..n PROVE entry[i] \in Met(i)
  <2> DEFINE j == n - i
  <2>1. j \in 0..(n - 1) /\ n - j = i
    OBVIOUS
  <2> HIDE DEF j
  <2> QED
    BY <1>9, <2>1
<1>11. n \in 1..n /\ entry[n] = last
  BY <1>8
<1>12. \A i \in 1..n : i # n => entry[i] = Back(entry[i + 1], i)
  BY <1>8
<1>13. \A i \in 1..n : \E x \in DOMAIN layers[i] : entry[i] = layers[i][x]
  BY <1>10 DEF Met
<1>14. IsWayBack(entry, n)
  BY <1>2, <1>11, <1>12, <1>13 DEF IsWayBack, last, Back
<1> QED
  BY <1>5, <1>14

\* Every step back meets an entry, and its colour keeps the rank inside the band.
LEMMA ColorsBackTyped ==
    ASSUME NEW g \in grid, LayersLeadBack, NEW n \in Nat \ {0}, DOMAIN layers = 1..n, Len(layers) = n,
           \A x \in DOMAIN layers[n] : layers[n][x].cost \in Nat
    PROVE  /\ Best \in DOMAIN layers[n]
           /\ DOMAIN ColorsBack(g) = 1..n
           /\ \A i \in 1..n : ColorsBack(g)[i] \in 0..(ColorCount(g, i) - 1)
<1>1. PICK way : IsWayBack(way, n) /\ ColorsBack(g) = [i \in 1..n |-> way[i].color]
  BY WayBack
<1>2. \A i \in 1..n : \A x \in DOMAIN layers[i] : layers[i][x].color \in 0..(ColorCount(g, i) - 1)
  BY DEF LayersLeadBack
<1> QED
  BY <1>1, <1>2 DEF IsWayBack

(***************************************************************************)
(* The problem, its space and the options never change                     *)
(***************************************************************************)
LEMMA PoolsSame ==
    ASSUME input' = input
    PROVE  /\ Refusal' = Refusal
           /\ \A q : /\ (PoolRefusal(q))' = PoolRefusal(q)
                     /\ (LargeNodes(q))' = LargeNodes(q)
                     /\ (PoolAlignment(q))' = PoolAlignment(q)
<1>1. problem' = problem /\ options' = options /\ space' = space
  BY DEF input
<1>2. Refusal' = Refusal
  BY <1>1 DEF Refusal, Compatible, RequiresReuse
<1>3. \A q : /\ (PoolAlignment(q))' = PoolAlignment(q)
             /\ (MinimumLargeSize(q))' = MinimumLargeSize(q)
  BY <1>1 DEF PoolAlignment, MinimumLargeSize
<1>4. \A q : (LargeNodes(q))' = LargeNodes(q)
  BY <1>1, <1>3 DEF LargeNodes
<1>5. \A q : (SmallNodes(q))' = SmallNodes(q)
  BY <1>1, <1>4 DEF SmallNodes
<1>6. \A nodes : (IsIntervalSmallBand(nodes))' = IsIntervalSmallBand(nodes)
  BY <1>1 DEF IsIntervalSmallBand
<1>7. \A q : (Quantum(q))' = Quantum(q) /\ (Augmentation(q))' = Augmentation(q)
  BY <1>1, <1>3 DEF Quantum, Augmentation
<1>8. \A q : (PoolRefusal(q))' = PoolRefusal(q)
  BY <1>1, <1>3, <1>4, <1>5, <1>6, <1>7 DEF PoolRefusal
<1> QED
  BY <1>2, <1>3, <1>4, <1>8

LEMMA GridsSame ==
    ASSUME input' = input
    PROVE  \A q : (GridOf(q))' = GridOf(q)
<1>1. problem' = problem /\ options' = options /\ space' = space
  BY DEF input
<1>2. \A q : (Quantum(q))' = Quantum(q) /\ (Augmentation(q))' = Augmentation(q)
  BY <1>1 DEF Quantum, Augmentation, MinimumLargeSize, PoolAlignment
<1>3. \A c : (Birth(c))' = Birth(c) /\ (Death(c))' = Death(c)
  BY <1>1 DEF Birth, Death
<1>4. \A nodes, i, k : (KeptAfter(nodes, i, k))' = KeptAfter(nodes, i, k)
  BY <1>1, <1>3 DEF KeptAfter, LastPartner, Related
<1>5. \A q : (LargeNodes(q))' = LargeNodes(q)
  BY PoolsSame
<1> QED
  BY <1>1, <1>2, <1>3, <1>4, <1>5 DEF GridOf

LEMMA PlacementsSame ==
    ASSUME space' = space
    PROVE  \A g, m, layer : (LayerIsCheapest(g, m, layer))' <=> LayerIsCheapest(g, m, layer)
<1>1. \A g, m : (Assignments(g, m))' = Assignments(g, m)
  BY DEF Assignments, Before, Meet, ColorCount
<1>2. \A g, f : (AssignmentCost(g, f))' = AssignmentCost(g, f)
  BY DEF AssignmentCost, Before, Meet, SaturatingSum, MapThenFoldSet
<1>3. \A g, m : (CostsOf(g, m))' = CostsOf(g, m)
  BY <1>1, <1>2 DEF CostsOf
<1> TAKE g, m, layer
<1> DEFINE seen(f) == [k \in g.window[m] |-> f[k]]
           L(cost) == /\ {layer[n].key : n \in DOMAIN layer} = {seen(f) : f \in DOMAIN cost}
                      /\ \A n \in DOMAIN layer :
                             layer[n].cost = Min({cost[f] : f \in {h \in DOMAIN cost : seen(h) = layer[n].key}})
<1>4. LayerIsCheapest(g, m, layer) = L(CostsOf(g, m))
  BY DEF LayerIsCheapest
<1>5. (LayerIsCheapest(g, m, layer))' = L((CostsOf(g, m))')
  BY DEF LayerIsCheapest
<1>6. (CostsOf(g, m))' = CostsOf(g, m)
  BY <1>3
<1> HIDE DEF L
<1> QED
  BY <1>4, <1>5, <1>6

(***************************************************************************)
(* The steps                                                               *)
(***************************************************************************)
\* A sequence is one over its own elements.
LEMMA SequenceOverRange ==
    ASSUME NEW S, NEW s \in Seq(S)
    PROVE  s \in Seq(Range(s)) /\ Len(s) \in Nat /\ DOMAIN s = 1..Len(s)
<1>1. Len(s) \in Nat /\ DOMAIN s = 1..Len(s) /\ s \in [1..Len(s) -> S]
  BY LenProperties
<1>2. s \in [1..Len(s) -> Range(s)]
  BY <1>1 DEF Range
<1> QED
  BY <1>1, <1>2, SeqDef

\* A function without arguments is the empty sequence.
LEMMA NothingIsEmpty ==
    ASSUME NEW f, f = [x \in DOMAIN f |-> f[x]], f # <<>>
    PROVE  DOMAIN f # {}
<1> SUFFICES ASSUME DOMAIN f = {} PROVE FALSE
  OBVIOUS
<1>1. f \in [{} -> {}]
  <2>1. f \in [DOMAIN f -> {}]
    OBVIOUS
  <2> QED
    BY <2>1
<1>2. <<>> \in [{} -> {}]
  OBVIOUS
<1>3. f = <<>>
  BY <1>1, <1>2
<1> QED
  BY <1>3

LEMMA InitInv ==
    ASSUME Init
    PROVE  IInv
<1>1. TypeOK
  <2>1. layers \in Seq({})
    BY EmptySeq DEF Init
  <2>2. layers \in Seq(Range(layers))
    BY <2>1, SequenceOverRange
  <2> QED
    BY <2>2, MaxUIntAssumption DEF Init, TypeOK
<1>2. InputKept
  BY DEF Init, InputKept
<1> QED
  BY <1>1, <1>2 DEF Init, IInv, LayersLeadBack, WindowsSuffice, LayersAreCheapest

\* A step that takes no pool and sweeps no rank.
LEMMA StoppedKept ==
    ASSUME IInv, UNCHANGED <<input, poolsLeft, sweep, offsets, roundedCost>>
    PROVE  IInv'
<1>1. /\ problem' = problem /\ options' = options /\ space' = space /\ input' = input
      /\ poolsLeft' = poolsLeft /\ grid' = grid /\ layers' = layers
      /\ offsets' = offsets /\ roundedCost' = roundedCost
  BY DEF input, sweep
<1>2. TypeOK'
  BY <1>1 DEF IInv, TypeOK
<1>3. InputKept'
  BY <1>1, PoolsSame, GridsSame DEF IInv, InputKept, PoolNow
<1>4. LayersLeadBack'
  BY <1>1 DEF IInv, LayersLeadBack
<1>5. WindowsSuffice'
  BY <1>1 DEF IInv, WindowsSuffice, Previous, Related
<1>6. LayersAreCheapest'
  BY <1>1, PlacementsSame DEF IInv, LayersAreCheapest
<1> QED
  BY <1>2, <1>3, <1>4, <1>5, <1>6 DEF IInv

\* What a step works on.
LEMMA RunsGiven ==
    ASSUME IInv, Runs
    PROVE  /\ Given
           /\ \A g \in grid : /\ Gridded(g) /\ g.pool = PoolNow /\ Len(g.nodes) # 0
                              /\ Arrangement(g.nodes, LargeNodes(PoolNow))
                              /\ PoolRefusal(PoolNow) = "none" /\ SoftPairs(space, PoolNow) # {}
           /\ layers \in Seq(Range(layers)) /\ Len(layers) \in Nat /\ DOMAIN layers = 1..Len(layers)
<1>1. Given
  BY DEF IInv, InputKept, Runs, Given
<1>2. \A g \in grid : /\ g = GridOf(PoolNow)
                      /\ PoolRefusal(PoolNow) = "none" /\ SoftPairs(space, PoolNow) # {}
  BY DEF IInv, InputKept
<1>3. layers \in Seq(Range(layers))
  BY DEF IInv, TypeOK
<1> QED
  BY <1>1, <1>2, <1>3, GridBuilt, SequenceOverRange

\* The pool taken is one of those that are left.
LEMMA PoolNowLeft ==
    ASSUME IInv, Runs, poolsLeft # {}
    PROVE  PoolNow \in poolsLeft /\ PoolNow \in problem.pools
<1>1. poolsLeft \subseteq problem.pools /\ problem.pools \subseteq Nat
  BY GivenTyped, RunsGiven DEF IInv, TypeOK
<1> QED
  BY <1>1, MinNatural DEF PoolNow

\* The offsets of a pool that is done.
LEMMA OffsetsDone ==
    ASSUME IInv, Runs, NEW q \in poolsLeft, NEW at \in PartialOn(NodesOf(space, q), 0..MaxUInt)
    PROVE  \A c \in DOMAIN Over(at, offsets) :
               Over(at, offsets)[c] \in 0..MaxUInt /\ space.pool[c] \notin poolsLeft \ {q}
<1>1. \A c \in DOMAIN offsets : offsets[c] \in 0..MaxUInt /\ space.pool[c] \notin poolsLeft
  BY DEF IInv, TypeOK
<1>2. \A c \in DOMAIN at : at[c] \in 0..MaxUInt /\ space.pool[c] = q
  BY DEF PartialOn, NodesOf
<1> QED
  BY <1>1, <1>2 DEF Over

LEMMA TakeKept ==
    ASSUME IInv, TakePool
    PROVE  IInv'
<1>0. PICK q : q = PoolNow
  OBVIOUS
<1>1. Runs /\ grid = {} /\ poolsLeft # {}
  BY DEF TakePool
<1>2. Given /\ q \in poolsLeft /\ q \in problem.pools
  BY <1>0, <1>1, RunsGiven, PoolNowLeft
<1>3. CASE AnswerWith(PoolRefusal(q))
  BY <1>3, StoppedKept DEF AnswerWith
<1>4. CASE PoolRefusal(q) = "none" /\ PlaceSoftFreePool(q)
  <2> DEFINE nodes == NodesOf(space, q)
             bands == SmallBand(nodes, problem.capacity[q], PoolAlignment(q), 0)
  <2>1. CASE AnswerWith("kInvalidProblem")
    BY <2>1, StoppedKept DEF AnswerWith
  <2>2. CASE /\ \E band \in bands : offsets' = Over(band, offsets)
             /\ poolsLeft' = poolsLeft \ {q}
             /\ UNCHANGED <<input, sweep, roundedCost, answer>>
    <3>1. PICK band \in bands : offsets' = Over(band, offsets)
      BY <2>2
    <3>2. /\ problem' = problem /\ options' = options /\ space' = space
          /\ grid' = {} /\ layers' = layers /\ roundedCost' = roundedCost /\ poolsLeft' = poolsLeft \ {q}
      BY <1>1, <2>2 DEF input, sweep
    <3>3. band \in PartialOn(nodes, 0..MaxUInt)
      <4>1. q \in DOMAIN problem.capacity
        BY <1>4 DEF PoolRefusal
      <4>2. problem.capacity[q] \in Nat
        BY <1>2, <4>1, GivenTyped, MaxUIntAssumption DEF Fixed, ProblemTyped
      <4>3. nodes \in SUBSET Classes(problem) /\ PoolAlignment(q) \in Nat \ {0}
        BY <1>2, NodesAre
      <4>4. bands \in SUBSET PartialOn(nodes, 0..MaxUInt)
        BY <1>2, <4>2, <4>3, SmallBandTyped
      <4> QED
        BY <4>4
    <3>4. \A c \in DOMAIN offsets' : offsets'[c] \in 0..MaxUInt /\ space.pool[c] \notin poolsLeft \ {q}
      BY <1>1, <1>2, <3>1, <3>3, OffsetsDone
    <3>5. TypeOK'
      BY <3>2, <3>4 DEF IInv, TypeOK
    <3>6. InputKept'
      BY <3>2 DEF IInv, InputKept
    <3> QED
      BY <3>2, <3>5, <3>6 DEF IInv, LayersLeadBack, WindowsSuffice, LayersAreCheapest
  <2> QED
    BY <1>4, <2>1, <2>2 DEF PlaceSoftFreePool
<1>5. CASE PoolRefusal(q) = "none" /\ SoftPairs(space, q) # {} /\ BeginSweep(q)
  <2>1. /\ problem' = problem /\ options' = options /\ space' = space /\ input' = input
        /\ poolsLeft' = poolsLeft /\ grid' = {GridOf(q)} /\ layers' = <<>>
        /\ offsets' = offsets /\ roundedCost' = roundedCost
    BY <1>5 DEF BeginSweep, input
  <2>2. /\ Gridded(GridOf(q)) /\ GridOf(q).pool = q
    BY <1>2, <1>5, GridBuilt
  <2>3. PoolNow' = PoolNow
    BY <2>1 DEF PoolNow
  <2>4. TypeOK'
    <3>1. layers' \in Seq(Range(layers')) /\ Len(layers') = 0
      BY <2>1, EmptySeq, SequenceOverRange
    <3>2. Len(GridOf(q).nodes) \in Nat
      BY <2>2 DEF Gridded
    <3> QED
      BY <1>2, <2>1, <2>2, <3>1, <3>2 DEF IInv, TypeOK
  <2>5. InputKept'
    <3>1. Refusal' = "none" /\ (PrepareAccepts(problem) => space = SearchSpace(problem))
      BY <1>2, <2>1, PoolsSame DEF Given
    <3>2. (PoolRefusal(q))' = "none" /\ (GridOf(q))' = GridOf(q)
      BY <1>5, <2>1, PoolsSame, GridsSame
    <3>3. PoolNow' = q
      BY <1>0, <2>3
    <3> QED
      BY <1>2, <1>5, <2>1, <3>1, <3>2, <3>3 DEF InputKept, Given
  <2> QED
    BY <2>1, <2>4, <2>5 DEF IInv, LayersLeadBack, WindowsSuffice, LayersAreCheapest
<1> QED
  BY <1>0, <1>3, <1>4, <1>5 DEF TakePool

\* What the sweep of a rank starts from.
LEMMA RankGiven ==
    ASSUME IInv, Runs, NEW g \in grid, Len(layers) + 1 <= Len(g.nodes),
           RankRefusal(g, Len(layers) + 1) = "none"
    PROVE  /\ FitBand(g, Len(layers) + 1) /\ DOMAIN Previous \subseteq Nat
           /\ Cheapest(g, Len(layers), Previous)
           /\ \A n \in DOMAIN Previous :
                  /\ ~Lost(g, Previous[n], Len(layers) + 1)
                  /\ Before(g, Len(layers) + 1, space.hard) \subseteq DOMAIN Previous[n].key
<1> DEFINE m == Len(layers)
<1>1. /\ Gridded(g) /\ Len(g.nodes) \in Nat /\ m \in Nat /\ DOMAIN layers = 1..m
      /\ SoftWords /\ SpaceTyped(problem, space)
  BY RunsGiven, GivenTyped DEF Gridded
<1>2. /\ g.rounded[m + 1] <= g.limit
      /\ \A n \in DOMAIN Previous : ~Lost(g, Previous[n], m + 1)
  <2>1. g.rounded[m + 1] \in Nat /\ g.limit \in Nat
    BY <1>1 DEF Gridded
  <2>2. ~(g.rounded[m + 1] > g.limit)
    BY DEF RankRefusal
  <2>3. ~(\E n \in DOMAIN Previous : Lost(g, Previous[n], m + 1))
    BY DEF RankRefusal
  <2> QED
    BY <2>1, <2>2, <2>3
<1>3. \A i \in 1..m : g.rounded[i] <= g.limit /\ DOMAIN layers[i] \subseteq Nat
  BY <1>1 DEF IInv, LayersLeadBack
<1>4. FitBand(g, m + 1)
  <2>1. \A i \in 1..(m + 1) : i \in 1..m \/ i = m + 1
    BY <1>1
  <2> QED
    BY <1>2, <1>3, <2>1 DEF FitBand
<1>5. CASE m = 0
  <2>1. layers = <<>>
    BY <1>1, <1>5
  <2>2. Previous = <<First>>
    BY <2>1 DEF Previous
  <2>3. DOMAIN Previous \subseteq Nat /\ Cheapest(g, m, Previous)
    BY <1>1, <1>5, <2>2, FirstIsCheapest
  <2>4. Before(g, m + 1, space.hard) = {}
    BY <1>5 DEF Before
  <2> QED
    BY <1>2, <1>4, <2>3, <2>4
<1>6. CASE m # 0
  <2>1. m \in 1..m /\ m \in 1..Len(g.nodes) /\ layers # <<>>
    BY <1>1, <1>6
  <2>2. Previous = layers[m] /\ Previous = Last(layers)
    BY <2>1 DEF Previous, Last
  <2>3. Cheapest(g, m, Previous)
    <3>1. LayerIsCheapest(g, m, Previous)
      BY <2>1, <2>2 DEF IInv, LayersAreCheapest
    <3> QED
      BY <1>1, <2>1, <3>1, CheapestLayer
  <2>4. ASSUME NEW n \in DOMAIN Previous, NEW k \in Before(g, m + 1, space.hard)
        PROVE  k \in DOMAIN Previous[n].key
    <3>1. k \in 1..m /\ <<g.nodes[m + 1], g.nodes[k]>> \in space.hard
      BY <1>1 DEF Before
    <3>2. Related(g.nodes[k], g.nodes[m + 1])
      BY <1>1, <3>1 DEF SpaceTyped, Related
    <3>3. k \in DOMAIN layers /\ m + 1 \in (m + 1)..Len(g.nodes)
      BY <1>1, <3>1
    <3> QED
      BY <3>2, <3>3 DEF IInv, WindowsSuffice
  <2> QED
    BY <1>2, <1>3, <1>4, <2>1, <2>2, <2>3, <2>4
<1> QED
  BY <1>5, <1>6

LEMMA RankKept ==
    ASSUME IInv, SweepRank
    PROVE  IInv'
<1>0. Runs
  BY DEF SweepRank
<1>1. PICK g \in grid :
          LET i == Len(layers) + 1
          IN  /\ i <= Len(g.nodes)
              /\ \/ RankRefusal(g, i) # "none" /\ AnswerWith(RankRefusal(g, i))
                 \/ /\ RankRefusal(g, i) = "none"
                    /\ \E layer \in {Merged(Transitions(g, i))} :
                           \/ LayerRefusal(layer) # "none" /\ AnswerWith(LayerRefusal(layer))
                           \/ /\ LayerRefusal(layer) = "none"
                              /\ layers' = Append(layers, layer)
                              /\ dpStates' = dpStates + Cardinality(DOMAIN layer)
                              /\ transitions' = TransitionsAfter(g, i)
                              /\ UNCHANGED <<input, poolsLeft, grid, offsets, roundedCost, answer>>
  BY DEF SweepRank
<1>2. PICK m : m = Len(layers)
  OBVIOUS
<1>3. CASE \E status : AnswerWith(status)
  BY <1>3, StoppedKept DEF AnswerWith
<1>4. CASE /\ RankRefusal(g, m + 1) = "none"
           /\ \E layer \in {Merged(Transitions(g, m + 1))} :
                  /\ LayerRefusal(layer) = "none"
                  /\ layers' = Append(layers, layer)
                  /\ UNCHANGED <<input, poolsLeft, grid, offsets, roundedCost, answer>>
  <2>1. PICK layer : /\ layer = Merged(Transitions(g, m + 1))
                     /\ LayerRefusal(layer) = "none" /\ layers' = Append(layers, layer)
    BY <1>4
  <2>2. /\ problem' = problem /\ options' = options /\ space' = space /\ input' = input
        /\ poolsLeft' = poolsLeft /\ grid' = grid /\ offsets' = offsets /\ roundedCost' = roundedCost
    BY <1>4 DEF input
  <2>3. /\ Gridded(g) /\ Len(g.nodes) \in Nat /\ m \in Nat /\ DOMAIN layers = 1..m
        /\ layers \in Seq(Range(layers)) /\ SoftWords /\ m + 1 <= Len(g.nodes)
    BY <1>0, <1>1, <1>2, RunsGiven, GivenTyped DEF Gridded
  <2>4. /\ Cheapest(g, m + 1, layer) /\ DOMAIN layer \subseteq Nat
        /\ \A n \in DOMAIN layer : \E e \in DOMAIN Previous, x \in 0..(ColorCount(g, m + 1) - 1) :
               layer[n] = Reached(g, m + 1, e, x)
        /\ FitBand(g, m + 1)
    BY <1>0, <1>2, <1>4, <2>1, <2>3, RankGiven, SweepKeepsCheapest
  <2>5. /\ layers' \in Seq(Range(layers')) /\ Len(layers') = m + 1 /\ DOMAIN layers' = 1..(m + 1)
        /\ layers'[m + 1] = layer /\ \A i \in 1..m : layers'[i] = layers[i]
    <3> DEFINE S == Range(layers) \cup {layer}
    <3>1. layers \in Seq(S) /\ layer \in S
      BY <2>3, SeqMonotonic
    <3> HIDE DEF S
    <3>2. /\ layers' \in Seq(S) /\ Len(layers') = m + 1
          /\ layers'[m + 1] = layer /\ \A i \in 1..m : layers'[i] = layers[i]
      BY <1>2, <2>1, <3>1, AppendProperties
    <3> QED
      BY <3>2, SequenceOverRange
  <2>6. layers' # <<>> /\ Previous' = layer /\ Last(layers') = layer
    <3>1. layers' # <<>>
      BY <2>3, <2>5
    <3> QED
      BY <2>5, <3>1 DEF Previous, Last
  <2>7. \A h \in grid : h = g
    BY DEF IInv, TypeOK
  <2>8. TypeOK'
    BY <2>2, <2>3, <2>5, <2>7 DEF IInv, TypeOK
  <2>9. InputKept'
    BY <2>2, PoolsSame, GridsSame DEF IInv, InputKept, PoolNow
  <2>10. LayersLeadBack'
    <3>1. ASSUME NEW i \in 1..m
          PROVE  /\ DOMAIN layers'[i] # {} /\ g.rounded[i] <= g.limit
                 /\ \A n \in DOMAIN layers'[i] :
                        /\ n \in Nat /\ layers'[i][n].color \in 0..(ColorCount(g, i) - 1)
                        /\ i > 1 => layers'[i][n].from \in DOMAIN layers'[i - 1]
      <4>1. i > 1 => i - 1 \in 1..m
        BY <2>3
      <4> QED
        BY <2>3, <2>5, <4>1 DEF IInv, LayersLeadBack
    <3>2. /\ DOMAIN layer # {} /\ g.rounded[m + 1] <= g.limit
          /\ \A n \in DOMAIN layer :
                 /\ n \in Nat /\ layer[n].color \in 0..(ColorCount(g, m + 1) - 1)
                 /\ m + 1 > 1 => layer[n].from \in DOMAIN layers'[m]
      <4>1. layer # <<>>
        BY <2>1 DEF LayerRefusal
      <4>2. layer = [n \in DOMAIN layer |-> layer[n]]
        BY <2>1 DEF Merged
      <4>3. DOMAIN layer # {}
        BY <4>1, <4>2, NothingIsEmpty
      <4>4. g.rounded[m + 1] <= g.limit
        BY <2>3, <2>4 DEF FitBand
      <4>5. ASSUME NEW n \in DOMAIN layer
            PROVE  /\ n \in Nat /\ layer[n].color \in 0..(ColorCount(g, m + 1) - 1)
                   /\ m + 1 > 1 => layer[n].from \in DOMAIN layers'[m]
        <5>1. PICK e \in DOMAIN Previous, x \in 0..(ColorCount(g, m + 1) - 1) :
                  layer[n] = Reached(g, m + 1, e, x)
          BY <2>4
        <5>2. layer[n].color = x /\ layer[n].from = e
          BY <5>1 DEF Reached
        <5>3. m + 1 > 1 => Previous = layers[m] /\ layers'[m] = layers[m]
          BY <1>2, <2>3, <2>5 DEF Previous, Last
        <5> QED
          BY <2>4, <5>1, <5>2, <5>3
      <4> QED
        BY <4>3, <4>4, <4>5
    <3>3. \A i \in 1..(m + 1) : i \in 1..m \/ i = m + 1
      BY <2>3
    <3> QED
      BY <2>2, <2>3, <2>5, <2>7, <3>1, <3>2, <3>3 DEF LayersLeadBack
  <2>11. WindowsSuffice'
    <3> SUFFICES ASSUME NEW k \in 1..(m + 1), NEW j \in (m + 2)..Len(g.nodes),
                        (Related(g.nodes[k], g.nodes[j]))', NEW n \in DOMAIN layer
                 PROVE  k \in DOMAIN layer[n].key
      <4>1. m + 1 + 1 = m + 2
        BY <2>3
      <4> QED
        BY <2>2, <2>5, <2>6, <2>7, <4>1 DEF WindowsSuffice
    <3>1. Related(g.nodes[k], g.nodes[j])
      BY <2>2 DEF Related
    <3>2. DOMAIN layer[n].key = g.window[m + 1]
      BY <2>4 DEF Reached
    <3>3. LastPartner(g.nodes, k) >= m + 2
      <4> DEFINE partners == {k} \cup {l \in (k + 1)..Len(g.nodes) : Related(g.nodes[k], g.nodes[l])}
      <4>1. j \in partners /\ partners \in SUBSET (0..Len(g.nodes)) /\ partners # {}
        BY <2>3, <3>1
      <4> HIDE DEF partners
      <4>2. Len(g.nodes) \in Nat
        BY <2>3
      <4>3. Max(partners) \in partners /\ \A l \in partners : l <= Max(partners)
        BY <4>1, <4>2, MaxNatural
      <4>4. Max(partners) \in Nat /\ j <= Max(partners)
        <5>1. Max(partners) \in 0..Len(g.nodes)
          BY <4>1, <4>3, Zenon
        <5>2. j <= Max(partners)
          BY <4>1, <4>3, Zenon
        <5> QED
          BY <4>2, <5>1, <5>2
      <4> QED
        BY <2>3, <4>4 DEF LastPartner, partners
    <3>4. m + 1 \in 1..Len(g.nodes) /\ m + 1 < Len(g.nodes) /\ m + 1 + 1 = m + 2
      BY <2>3
    <3>5. KeptAfter(g.nodes, m + 1, k)
      BY <3>3, <3>4 DEF KeptAfter
    <3> QED
      BY <2>3, <3>2, <3>4, <3>5 DEF Gridded
  <2>12. LayersAreCheapest'
    <3>1. LayerIsCheapest(g, m + 1, layer)
      <4>1. m + 1 \in 1..Len(g.nodes)
        BY <2>3
      <4> QED
        BY <2>3, <2>4, <4>1, CheapestLayer
    <3>2. (LayerIsCheapest(g, m + 1, layer))'
      BY <2>2, <3>1, PlacementsSame
    <3> QED
      BY <2>2, <2>5, <2>6, <2>7, <3>2 DEF LayersAreCheapest
  <2> QED
    BY <2>8, <2>9, <2>10, <2>11, <2>12 DEF IInv
<1> QED
  BY <1>1, <1>2, <1>3, <1>4

\* The cost of the best entry and the offsets of the large nodes are words.
LEMMA SweepEnded ==
    ASSUME IInv, Runs, NEW g \in grid, Len(layers) = Len(g.nodes)
    PROVE  /\ Last(layers)[Best].cost \in 0..MaxUInt
           /\ LargeOffsets(g) \in [LargeNodes(PoolNow) -> 0..MaxUInt]
<1>1. PICK n : n = Len(layers)
  OBVIOUS
<1>2. /\ Gridded(g) /\ n \in Nat \ {0} /\ DOMAIN layers = 1..n /\ Len(layers) = n /\ Len(g.nodes) = n
      /\ Arrangement(g.nodes, LargeNodes(PoolNow)) /\ SoftWords
  BY <1>1, RunsGiven, GivenTyped
<1>3. n \in 1..n /\ layers # <<>> /\ Last(layers) = layers[n] /\ LayersLeadBack
  BY <1>2 DEF Last, IInv
<1>4. \A x \in DOMAIN layers[n] : layers[n][x].cost \in 0..MaxUInt
  <2>1. LayerIsCheapest(g, n, layers[n])
    BY <1>2, <1>3 DEF IInv, LayersAreCheapest
  <2>2. Cheapest(g, n, layers[n])
    BY <1>2, <1>3, <2>1, CheapestLayer
  <2> TAKE x \in DOMAIN layers[n]
  <2>3. PICK f \in Assignments(g, n) : layers[n][x].cost = AssignmentCost(g, f)
    BY <2>2 DEF Cheapest
  <2>4. DOMAIN f = 1..n
    BY DEF Assignments
  <2> QED
    BY <1>2, <2>3, <2>4, AssignmentCostTyped
<1>5. /\ Best \in DOMAIN layers[n] /\ DOMAIN ColorsBack(g) = 1..n
      /\ \A i \in 1..n : ColorsBack(g)[i] \in 0..(ColorCount(g, i) - 1)
  <2>1. \A x \in DOMAIN layers[n] : layers[n][x].cost \in Nat
    BY <1>4, MaxUIntAssumption
  <2> QED
    BY <1>2, <1>3, <2>1, ColorsBackTyped
<1>6. \A i \in 1..n : ColorsBack(g)[i] * g.quantum \in 0..MaxUInt
  <2> TAKE i \in 1..n
  <2>1. g.rounded[i] <= g.limit /\ i \in 1..Len(g.nodes)
    BY <1>2, <1>3 DEF LayersLeadBack
  <2>2. /\ ColorsBack(g)[i] * g.quantum \in Nat
        /\ ColorsBack(g)[i] * g.quantum + g.rounded[i] <= g.limit
    BY <1>2, <1>5, <2>1, ColorsCounted
  <2>3. g.limit \in 0..MaxUInt /\ g.rounded[i] \in 0..MaxUInt
    BY <1>2, <2>1 DEF Gridded
  <2> QED
    BY <2>2, <2>3, MaxUIntAssumption
<1>7. Range(g.nodes) = LargeNodes(PoolNow) /\ \A c \in Range(g.nodes) : \E i \in 1..n : g.nodes[i] = c
  <2>1. DOMAIN g.nodes = 1..n
    BY <1>2 DEF Gridded
  <2> QED
    BY <1>2, <2>1 DEF Arrangement, Lists, Range
<1>8. LargeOffsets(g) = [c \in Range(g.nodes) |->
                            ColorsBack(g)[CHOOSE i \in 1..n : g.nodes[i] = c] * g.quantum]
  BY <1>5 DEF LargeOffsets
<1>9. \A c \in Range(g.nodes) : (CHOOSE i \in 1..n : g.nodes[i] = c) \in 1..n
  BY <1>7
<1>10. LargeOffsets(g) \in [Range(g.nodes) -> 0..MaxUInt]
  <2> DEFINE offset(c) == ColorsBack(g)[CHOOSE i \in 1..n : g.nodes[i] = c] * g.quantum
  <2>1. \A c \in Range(g.nodes) : offset(c) \in 0..MaxUInt
    BY <1>6, <1>9, Zenon
  <2>2. LargeOffsets(g) = [c \in Range(g.nodes) |-> offset(c)]
    BY <1>8, Zenon
  <2> HIDE DEF offset
  <2> QED
    BY <2>1, <2>2
<1> QED
  BY <1>3, <1>4, <1>5, <1>7, <1>10

LEMMA EndKept ==
    ASSUME IInv, EndSweep
    PROVE  IInv'
<1>1. Runs
  BY DEF EndSweep
<1>2. PICK g \in grid :
          /\ Len(layers) = Len(g.nodes)
          /\ \E at \in {LargeOffsets(g)} :
                 LET bands == SmallBand(SmallNodes(g.pool), MinimumLargeSize(g.pool),
                                        PoolAlignment(g.pool), PeakOf(at))
                 IN  \/ bands = {} /\ AnswerWith("kInvalidProblem")
                     \/ /\ \E band \in bands : offsets' = Over(band, Over(at, offsets))
                        /\ roundedCost' = SaturatingAdd(roundedCost, Last(layers)[Best].cost)
                        /\ poolsLeft' = poolsLeft \ {g.pool} /\ grid' = {} /\ layers' = <<>>
                        /\ UNCHANGED <<input, dpStates, transitions, answer>>
  BY DEF EndSweep
<1>3. PICK at \in {LargeOffsets(g)} :
          LET bands == SmallBand(SmallNodes(g.pool), MinimumLargeSize(g.pool),
                                 PoolAlignment(g.pool), PeakOf(at))
          IN  \/ bands = {} /\ AnswerWith("kInvalidProblem")
              \/ /\ \E band \in bands : offsets' = Over(band, Over(at, offsets))
                 /\ roundedCost' = SaturatingAdd(roundedCost, Last(layers)[Best].cost)
                 /\ poolsLeft' = poolsLeft \ {g.pool} /\ grid' = {} /\ layers' = <<>>
                 /\ UNCHANGED <<input, dpStates, transitions, answer>>
  BY <1>2
<1>4. PICK q : q = g.pool
  OBVIOUS
<1>5. /\ Given /\ q = PoolNow /\ q \in poolsLeft /\ SoftPairs(space, q) # {}
      /\ Last(layers)[Best].cost \in 0..MaxUInt /\ at \in [LargeNodes(q) -> 0..MaxUInt]
  BY <1>1, <1>2, <1>4, <1>3, RunsGiven, SweepEnded DEF IInv, TypeOK
<1> DEFINE bands == SmallBand(SmallNodes(q), MinimumLargeSize(q), PoolAlignment(q), PeakOf(at))
<1>6. CASE AnswerWith("kInvalidProblem")
  BY <1>6, StoppedKept DEF AnswerWith
<1>7. CASE /\ \E band \in bands : offsets' = Over(band, Over(at, offsets))
           /\ roundedCost' = SaturatingAdd(roundedCost, Last(layers)[Best].cost)
           /\ poolsLeft' = poolsLeft \ {q} /\ grid' = {} /\ layers' = <<>>
           /\ UNCHANGED <<input, dpStates, transitions, answer>>
  <2>1. PICK band \in bands : offsets' = Over(band, Over(at, offsets))
    BY <1>7
  <2>2. /\ LargeNodes(q) \in SUBSET NodesOf(space, q) /\ LargeNodes(q) # {} /\ IsFiniteSet(LargeNodes(q))
        /\ MinimumLargeSize(q) \in Nat /\ PoolAlignment(q) \in Nat \ {0}
        /\ NodesOf(space, q) \in SUBSET Classes(problem)
        /\ \A c \in LargeNodes(q) : space.size[c] \in Nat
    BY <1>5, LargeNodesAre, NodesAre, MaxUIntAssumption
  <2>3. PeakOf(at) \in Nat
    <3> DEFINE ends == {at[c] + space.size[c] : c \in LargeNodes(q)}
               end == [c \in LargeNodes(q) |-> at[c] + space.size[c]]
    <3>1. ends \in SUBSET Nat /\ ends \in SUBSET Int /\ ends # {}
      BY <1>5, <2>2
    <3>2. end \in Surjection(LargeNodes(q), ends)
      BY DEF Surjection
    <3>3. PeakOf(at) = Max(ends)
      BY <1>5 DEF PeakOf
    <3> HIDE DEF ends, end
    <3>4. IsFiniteSet(ends)
      BY <2>2, <3>2, FS_Surjection
    <3> QED
      BY <3>1, <3>3, <3>4, FiniteBounds
  <2>4. band \in PartialOn(SmallNodes(q), 0..MaxUInt)
    <3>1. SmallNodes(q) \in SUBSET Classes(problem)
      BY <2>2 DEF SmallNodes
    <3>2. bands \in SUBSET PartialOn(SmallNodes(q), 0..MaxUInt)
      BY <1>5, <2>2, <2>3, <3>1, SmallBandTyped
    <3> QED
      BY <3>2
  <2>5. Over(band, at) \in PartialOn(NodesOf(space, q), 0..MaxUInt)
    <3>1. band \in PartialOn(NodesOf(space, q), 0..MaxUInt)
      BY <2>4 DEF PartialOn, SmallNodes
    <3>2. at \in PartialOn(NodesOf(space, q), 0..MaxUInt)
      BY <1>5, <2>2 DEF PartialOn
    <3> QED
      BY <3>1, <3>2, OverPartial
  <2>6. offsets' = Over(Over(band, at), offsets)
    BY <2>1 DEF Over
  <2>7. /\ problem' = problem /\ options' = options /\ space' = space
        /\ poolsLeft' = poolsLeft \ {q} /\ grid' = {} /\ layers' = <<>>
    BY <1>7 DEF input
  <2>8. \A c \in DOMAIN offsets' : offsets'[c] \in 0..MaxUInt /\ space.pool[c] \notin poolsLeft \ {q}
    BY <1>1, <1>5, <2>5, <2>6, OffsetsDone
  <2>9. roundedCost' \in 0..MaxUInt
    BY <1>5, <1>7, SaturatingAddTyped DEF IInv, TypeOK
  <2>10. layers' \in Seq(Range(layers'))
    BY <2>7, EmptySeq, SequenceOverRange
  <2>11. TypeOK'
    BY <2>7, <2>8, <2>9, <2>10 DEF IInv, TypeOK
  <2>12. InputKept'
    BY <2>7 DEF IInv, InputKept
  <2> QED
    BY <2>7, <2>11, <2>12 DEF IInv, LayersLeadBack, WindowsSuffice, LayersAreCheapest
<1> QED
  BY <1>4, <1>6, <1>7, <1>3

LEMMA NextInv ==
    ASSUME IInv, [Next]_vars
    PROVE  IInv'
<1>1. CASE Refuse
  BY <1>1, StoppedKept DEF Refuse, AnswerWith
<1>2. CASE TakePool
  BY <1>2, TakeKept
<1>3. CASE SweepRank
  BY <1>3, RankKept
<1>4. CASE EndSweep
  BY <1>4, EndKept
<1>5. CASE EndPools
  BY <1>5, StoppedKept DEF EndPools
<1>6. CASE UNCHANGED vars
  BY <1>6, StoppedKept DEF vars
<1> QED
  BY <1>1, <1>2, <1>3, <1>4, <1>5, <1>6 DEF Next, Terminated

\* For every problem and every option, the windows of RunGridDp drop no rank that a
\* later one asks for, its layers hold the cheapest grid placement of every window,
\* and the offsets read off on the way back are words in pools that are done.
THEOREM Safety == Spec => []IInv
<1>1. Init => IInv
  BY InitInv
<1>2. IInv /\ [Next]_vars => IInv'
  BY NextInv
<1> QED
  BY <1>1, <1>2, PTL DEF Spec

(***************************************************************************)
(* The way back is a grid placement, and none is cheaper                   *)
(***************************************************************************)
LayerBefore(i) == IF i = 1 THEN <<First>> ELSE layers[i - 1]

\* A colour that fits leads from one entry to another.
LeadsTo(g, i, entry, x, next) ==
    /\ ~Lost(g, entry, i) /\ TransitionFits(g, entry, i, x)
    /\ next.key = KeyAfter(g, i, entry.key, x)
    /\ next.cost = SaturatingAdd(entry.cost, TransitionCost(g, entry, i, x))

\* Every entry is what its colour leads to from the entry it names.
LayersLinked ==
    \A g \in grid : \A i \in DOMAIN layers : \A n \in DOMAIN layers[i] :
        LET entry == layers[i][n]
        IN  /\ entry.from \in DOMAIN LayerBefore(i)
            /\ LeadsTo(g, i, LayerBefore(i)[entry.from], entry.color, entry)

\* What an entry leads to depends on the space alone.
LEMMA LinksSame ==
    ASSUME space' = space
    PROVE  \A g, i, entry, x, next : LeadsTo(g, i, entry, x, next)' <=> LeadsTo(g, i, entry, x, next)
<1>1. /\ \A g, i, entry : (Lost(g, entry, i))' <=> Lost(g, entry, i)
      /\ \A g, i, entry, x : (TransitionFits(g, entry, i, x))' <=> TransitionFits(g, entry, i, x)
  BY DEF Lost, TransitionFits, Before, Meet
<1>2. \A g, i, entry, x : (TransitionCost(g, entry, i, x))' = TransitionCost(g, entry, i, x)
  BY DEF TransitionCost, SaturatingSum, MapThenFoldSet, Before, Meet
<1>3. \A g, i, key, x : (KeyAfter(g, i, key, x))' = KeyAfter(g, i, key, x)
  BY DEF KeyAfter
<1> QED
  BY <1>1, <1>2, <1>3 DEF LeadsTo

\* A layer of the sweep keeps the links.
LEMMA RankLinks ==
    ASSUME IInv, LayersLinked, Runs, NEW g \in grid, Len(layers) + 1 <= Len(g.nodes),
           RankRefusal(g, Len(layers) + 1) = "none",
           layers' = Append(layers, Merged(Transitions(g, Len(layers) + 1))),
           UNCHANGED <<input, grid>>
    PROVE  LayersLinked'
<1>0. PICK m : m = Len(layers)
  OBVIOUS
<1>00. PICK layer : layer = Merged(Transitions(g, m + 1))
  OBVIOUS
<1>1. /\ Gridded(g) /\ m \in Nat /\ DOMAIN layers = 1..m /\ SoftWords /\ layers \in Seq(Range(layers))
      /\ space' = space /\ grid' = grid
  BY <1>0, RunsGiven, GivenTyped DEF input
<1>2. /\ \A n \in DOMAIN layer : \E e \in DOMAIN Previous, x \in 0..(ColorCount(g, m + 1) - 1) :
             TransitionFits(g, Previous[e], m + 1, x) /\ layer[n] = Reached(g, m + 1, e, x)
      /\ \A n \in DOMAIN Previous : ~Lost(g, Previous[n], m + 1)
  BY <1>0, <1>00, <1>1, RankGiven, SweepKeepsCheapest
<1>3. /\ DOMAIN layers' = 1..(m + 1)
      /\ layers'[m + 1] = layer /\ \A i \in 1..m : layers'[i] = layers[i]
  <2> DEFINE S == Range(layers) \cup {layer}
  <2>1. layers \in Seq(S) /\ layer \in S
    BY <1>1, SeqMonotonic
  <2> HIDE DEF S
  <2>2. /\ layers' \in Seq(S) /\ Len(layers') = m + 1
        /\ layers'[m + 1] = layer /\ \A i \in 1..m : layers'[i] = layers[i]
    BY <1>0, <1>00, <2>1, AppendProperties
  <2> QED
    BY <2>2, SequenceOverRange
<1>4. ASSUME NEW i \in 1..m PROVE LayerBefore(i)' = LayerBefore(i)
  <2>1. i # 1 => i - 1 \in 1..m
    BY <1>1
  <2> QED
    BY <1>3, <2>1 DEF LayerBefore, First
<1>5. LayerBefore(m + 1)' = Previous
  <2>1. CASE m = 0
    <3>1. layers = <<>>
      BY <1>0, <1>1, <2>1
    <3> QED
      BY <2>1, <3>1 DEF LayerBefore, Previous, First
  <2>2. CASE m # 0
    <3>1. layers # <<>> /\ m \in 1..m /\ m + 1 # 1 /\ m + 1 - 1 = m
      BY <1>1, <2>2
    <3> QED
      BY <1>0, <1>3, <3>1 DEF LayerBefore, Previous, Last
  <2> QED
    BY <2>1, <2>2
<1>6. \A h \in grid : h = g
  BY DEF IInv, TypeOK
<1>7. ASSUME NEW n \in DOMAIN layer
      PROVE  /\ layer[n].from \in DOMAIN Previous
             /\ LeadsTo(g, m + 1, Previous[layer[n].from], layer[n].color, layer[n])
  <2>1. PICK e \in DOMAIN Previous, x \in 0..(ColorCount(g, m + 1) - 1) :
            TransitionFits(g, Previous[e], m + 1, x) /\ layer[n] = Reached(g, m + 1, e, x)
    BY <1>2
  <2> QED
    BY <1>2, <2>1 DEF Reached, LeadsTo, KeyAfter
<1>8. \A h, i, entry, x, next : LeadsTo(h, i, entry, x, next)' <=> LeadsTo(h, i, entry, x, next)
  BY <1>1, LinksSame
<1>9. ASSUME NEW i \in 1..(m + 1), NEW n \in DOMAIN layers'[i]
      PROVE  /\ layers'[i][n].from \in DOMAIN LayerBefore(i)'
             /\ LeadsTo(g, i, LayerBefore(i)'[layers'[i][n].from], layers'[i][n].color, layers'[i][n])
  <2>1. CASE i = m + 1
    BY <1>3, <1>5, <1>7, <1>9, <2>1
  <2>2. CASE i # m + 1
    <3>1. i \in 1..m
      BY <1>1, <2>2
    <3> QED
      BY <1>1, <1>3, <1>4, <1>9, <3>1 DEF LayersLinked
  <2> QED
    BY <2>1, <2>2
<1> QED
  BY <1>1, <1>3, <1>6, <1>8, <1>9 DEF LayersLinked

\* The colours on the way back are a grid placement at the cost of the best entry, and
\* no grid placement costs less.
LEMMA WayBackIsCheapest ==
    ASSUME IInv, LayersLinked, Runs, NEW g \in grid, Len(layers) = Len(g.nodes)
    PROVE  /\ ColorsBack(g) \in Assignments(g, Len(g.nodes))
           /\ Last(layers)[Best].cost = AssignmentCost(g, ColorsBack(g))
           /\ \A f \in Assignments(g, Len(g.nodes)) : Last(layers)[Best].cost <= AssignmentCost(g, f)
<1>1. PICK n : n = Len(layers)
  OBVIOUS
<1>2. /\ Gridded(g) /\ n \in Nat \ {0} /\ DOMAIN layers = 1..n /\ Len(layers) = n /\ Len(g.nodes) = n
      /\ SoftWords
  BY <1>1, RunsGiven, GivenTyped
<1>3. n \in 1..n /\ layers # <<>> /\ Last(layers) = layers[n] /\ LayersLeadBack
  BY <1>2 DEF Last, IInv
<1>4. FitBand(g, n) /\ \A m \in 0..n : FitBand(g, m)
  BY <1>2, <1>3 DEF FitBand, LayersLeadBack
<1>5. Cheapest(g, n, layers[n])
  <2>1. LayerIsCheapest(g, n, layers[n])
    BY <1>2, <1>3 DEF IInv, LayersAreCheapest
  <2> QED
    BY <1>2, <1>3, <2>1, CheapestLayer
<1>6. \A m \in Nat : \A f \in Assignments(g, m) : DOMAIN f = 1..m /\ AssignmentCost(g, f) \in 0..MaxUInt
  <2> TAKE m \in Nat
  <2> TAKE f \in Assignments(g, m)
  <2>1. DOMAIN f = 1..m
    BY DEF Assignments
  <2> QED
    BY <1>2, <2>1, AssignmentCostTyped
<1>7. \A x \in DOMAIN layers[n] : layers[n][x].cost \in 0..MaxUInt
  BY <1>2, <1>5, <1>6 DEF Cheapest
<1>8. PICK way : IsWayBack(way, n) /\ ColorsBack(g) = [i \in 1..n |-> way[i].color]
  <2>1. \A x \in DOMAIN layers[n] : layers[n][x].cost \in Nat
    BY <1>7, MaxUIntAssumption
  <2> QED
    BY <1>2, <1>3, <2>1, WayBack
<1> DEFINE Entry(i) == IF i = 0 THEN First ELSE way[i]
           ColorsTo(i) == [k \in 1..i |-> way[k].color]
           T == {i \in 0..n : /\ ColorsTo(i) \in Assignments(g, i)
                              /\ Entry(i).key = Seen(g, i, ColorsTo(i))
                              /\ Entry(i).cost = AssignmentCost(g, ColorsTo(i))}
<1>9. 0 \in T
  <2>1. Cheapest(g, 0, <<First>>)
    BY <1>2, FirstIsCheapest
  <2>2. PICK f \in Assignments(g, 0) : First.key = Seen(g, 0, f) /\ First.cost = AssignmentCost(g, f)
    BY <2>1 DEF Cheapest
  <2>3. f = ColorsTo(0)
    BY <2>2 DEF Assignments
  <2> QED
    BY <1>2, <2>2, <2>3
<1>10. ASSUME NEW i \in 1..n, i - 1 \in T PROVE i \in T
  <2>1. PICK m \in Nat : m = i - 1 /\ m + 1 = i /\ m \in 0..n /\ i # 0 /\ i \in 0..n
    BY <1>10, <1>2
  <2>2. /\ ColorsTo(m) \in Assignments(g, m) /\ Entry(m).key = Seen(g, m, ColorsTo(m))
        /\ Entry(m).cost = AssignmentCost(g, ColorsTo(m))
    BY <1>10, <2>1
  <2>3. PICK x \in DOMAIN layers[i] : way[i] = layers[i][x]
    BY <1>8 DEF IsWayBack
  <2>4. /\ way[i].from \in DOMAIN LayerBefore(i)
        /\ LeadsTo(g, i, LayerBefore(i)[way[i].from], way[i].color, way[i])
        /\ way[i].color \in 0..(ColorCount(g, i) - 1)
    BY <1>2, <1>3, <2>3 DEF LayersLinked, LayersLeadBack
  <2>5. LayerBefore(i)[way[i].from] = Entry(m)
    <3>1. CASE i = 1
      <4>1. m = 0 /\ LayerBefore(i) = <<First>>
        BY <2>1, <3>1 DEF LayerBefore
      <4> HIDE DEF First
      <4>2. way[i].from = 1
        BY <2>4, <4>1
      <4> QED
        BY <4>1, <4>2
    <3>2. CASE i # 1
      <4>1. m \in 1..n /\ m # n /\ m # 0
        BY <2>1, <3>2
      <4>2. way[m] = layers[m][way[m + 1].from]
        BY <1>8, <4>1 DEF IsWayBack
      <4> QED
        BY <2>1, <3>2, <4>1, <4>2 DEF LayerBefore
    <3> QED
      BY <3>1, <3>2
  <2>6. /\ ~Lost(g, Entry(m), m + 1) /\ TransitionFits(g, Entry(m), m + 1, way[i].color)
        /\ way[i].key = KeyAfter(g, m + 1, Entry(m).key, way[i].color)
        /\ way[i].cost = SaturatingAdd(Entry(m).cost, TransitionCost(g, Entry(m), m + 1, way[i].color))
    BY <2>1, <2>4, <2>5 DEF LeadsTo
  <2>7. Before(g, m + 1, space.hard) \subseteq DOMAIN Entry(m).key
    BY <2>6 DEF TransitionFits
  <2>8. FitBand(g, m + 1) /\ m + 1 <= Len(g.nodes)
    BY <1>2, <1>4, <2>1
  <2>9. PICK e, f, c : e = Entry(m) /\ f = ColorsTo(m) /\ c = way[i].color
    OBVIOUS
  <2>10. /\ TransitionFits(g, e, m + 1, c) => Fitting(g, f, m + 1, c)
         /\ KeyAfter(g, m + 1, e.key, c) = Seen(g, m + 1, More(f, m, c))
         /\ AssignmentCost(g, More(f, m, c)) = SaturatingAdd(AssignmentCost(g, f), TransitionCost(g, e, m + 1, c))
    <3> HIDE DEF Entry, ColorsTo
    <3>1. /\ ~Lost(g, e, m + 1) /\ Before(g, m + 1, space.hard) \subseteq DOMAIN e.key
          /\ f \in Assignments(g, m) /\ e.key = Seen(g, m, f)
      BY <2>2, <2>6, <2>7, <2>9
    <3>2. SoftWords /\ Gridded(g)
      BY <1>2
    <3>3. /\ Before(g, m + 1, space.hard) \subseteq DOMAIN e.key =>
                  /\ TransitionFits(g, e, m + 1, c) => Fitting(g, f, m + 1, c)
                  /\ Fitting(g, f, m + 1, c) => TransitionFits(g, e, m + 1, c)
          /\ KeyAfter(g, m + 1, e.key, c) = Seen(g, m + 1, More(f, m, c))
          /\ TransitionCost(g, e, m + 1, c) \in 0..MaxUInt
          /\ AssignmentCost(g, More(f, m, c)) = SaturatingAdd(AssignmentCost(g, f), TransitionCost(g, e, m + 1, c))
      BY <2>8, <3>1, <3>2, EntrySees
    <3> QED
      BY <3>1, <3>3
  <2>11. More(f, m, c) = ColorsTo(i)
    BY <2>1, <2>9 DEF More
  <2>12. More(f, m, c) \in Assignments(g, m + 1)
    <3> HIDE DEF Entry, ColorsTo
    <3> QED
      BY <1>2, <2>1, <2>2, <2>4, <2>6, <2>8, <2>9, <2>10, MoreAssigned
  <2>13. Entry(i) = way[i]
    BY <2>1
  <2>14. /\ ColorsTo(i) \in Assignments(g, i) /\ way[i].key = Seen(g, i, ColorsTo(i))
         /\ way[i].cost = AssignmentCost(g, ColorsTo(i))
    <3> HIDE DEF Entry, ColorsTo
    <3> QED
      BY <2>1, <2>2, <2>6, <2>9, <2>10, <2>11, <2>12
  <2> QED
    BY <2>1, <2>13, <2>14
<1>11. n \in T
  <2>1. n \in Nat /\ n \in 0..n /\ \A i \in 1..n : i - 1 \in T => i \in T
    BY <1>2, <1>10
  <2> HIDE DEF T
  <2> QED
    BY <1>9, <2>1, NaturalInduction
<1>12. ColorsBack(g) \in Assignments(g, n) /\ layers[n][Best].cost = AssignmentCost(g, ColorsBack(g))
  <2>1. ColorsTo(n) = ColorsBack(g) /\ Entry(n) = layers[n][Best]
    BY <1>2, <1>8 DEF IsWayBack
  <2> QED
    BY <1>11, <2>1
<1>13. ASSUME NEW f \in Assignments(g, n) PROVE layers[n][Best].cost <= AssignmentCost(g, f)
  <2>1. PICK x \in DOMAIN layers[n] : layers[n][x].key = Seen(g, n, f)
    BY <1>5 DEF Cheapest
  <2>2. layers[n][x].cost <= AssignmentCost(g, f)
    BY <1>5, <2>1 DEF Cheapest
  <2>3. layers[n][Best].cost <= layers[n][x].cost
    <3>1. Best = CheapestOf(layers[n], DOMAIN layers[n])
      BY <1>3 DEF Best
    <3>2. DOMAIN layers[n] \in SUBSET Nat /\ DOMAIN layers[n] # {}
      BY <1>2, <1>3, <2>1 DEF LayersLeadBack
    <3>3. \A u \in DOMAIN layers[n] : layers[n][u].cost \in Nat
      BY <1>7, MaxUIntAssumption
    <3> QED
      BY <3>1, <3>2, <3>3, CheapestChosen
  <2>4. /\ layers[n][x].cost \in 0..MaxUInt /\ AssignmentCost(g, f) \in 0..MaxUInt
        /\ Best \in DOMAIN layers[n]
    BY <1>2, <1>6, <1>7, <1>8 DEF IsWayBack
  <2> QED
    BY <1>7, <2>2, <2>3, <2>4
<1> QED
  BY <1>2, <1>3, <1>12, <1>13

(***************************************************************************)
(* Rounding                                                                *)
(***************************************************************************)
LEMMA QuotientsAdd ==
    ASSUME NEW v \in Nat, NEW w \in Nat, NEW a \in Nat \ {0}
    PROVE  (v \div a) + (w \div a) <= (v + w) \div a
<1>1. PICK m \in Nat, n \in Nat : m = v \div a /\ n = w \div a /\ m * a <= v /\ n * a <= w
  <2>1. /\ v \div a \in Nat /\ v % a \in 0..(a - 1) /\ v = a * (v \div a) + (v % a)
        /\ w \div a \in Nat /\ w % a \in 0..(a - 1) /\ w = a * (w \div a) + (w % a)
    BY DivMod
  <2>2. (v \div a) * a <= v /\ (w \div a) * a <= w
    BY <2>1
  <2> QED
    BY <2>1, <2>2
<1>2. (m + n) * a <= v + w
  BY <1>1
<1>3. m + n \in Nat /\ v + w \in Nat
  BY <1>1
<1>4. m + n <= (v + w) \div a
  BY <1>2, <1>3, MultipleBelow
<1> QED
  BY <1>1, <1>4

\* A larger number has at least as many multiples below it.
LEMMA QuotientGrows ==
    ASSUME NEW v \in Nat, NEW w \in Nat, v <= w, NEW a \in Nat \ {0}
    PROVE  v \div a \in Nat /\ w \div a \in Nat /\ v \div a <= w \div a
<1>1. /\ v \div a \in Nat /\ v % a \in 0..(a - 1) /\ v = a * (v \div a) + (v % a)
  BY DivMod
<1>2. w \div a \in Nat
  BY DivMod
<1>3. (v \div a) * a <= w
  BY <1>1
<1> QED
  BY <1>1, <1>2, <1>3, MultipleBelow

\* Rounding up adds less than the unit, and gives a multiple of it.
LEMMA AlignUpNear ==
    ASSUME NEW v \in Nat, NEW a \in Nat \ {0}
    PROVE  /\ AlignUp(v, a) \in Nat /\ v <= AlignUp(v, a) /\ AlignUp(v, a) <= v + a
           /\ \E k \in Nat : AlignUp(v, a) = k * a
<1>1. AlignUp(v, a) \in Nat /\ AlignUp(v, a) >= v /\ Aligned(AlignUp(v, a), a)
  BY AlignUpLeast
<1>2. v % a \in 0..(a - 1)
  BY DivMod
<1>3. AlignUp(v, a) <= v + a
  BY <1>2 DEF AlignUp
<1> DEFINE w == AlignUp(v, a)
<1>4. w \in Nat /\ w % a = 0
  BY <1>1 DEF Aligned
<1> HIDE DEF w
<1>5. w \div a \in Nat /\ w = a * (w \div a) + (w % a)
  BY <1>4, DivMod
<1>6. PICK k : k = w \div a
  OBVIOUS
<1>7. k \in Nat /\ w = k * a
  BY <1>4, <1>5, <1>6
<1> QED
  BY <1>1, <1>3, <1>7 DEF w

\* The colour of an offset: it is raised by a share of itself before it is rounded down.
ColorOf(offset, epsilon, quantum) == (offset + (offset \div epsilon)) \div quantum

\* A size that holds the quantum as a share of itself ends no later on the grid than its
\* end is raised to; a range that begins there begins no earlier on the grid.
LEMMA RoundedEnds ==
    ASSUME NEW e \in Nat \ {0}, NEW u \in Nat \ {0}, NEW s \in Nat, u <= s \div e,
           NEW x \in Nat, NEW y \in Nat, x + s <= y
    PROVE  /\ ColorOf(x, e, u) \in Nat /\ ColorOf(y, e, u) \in Nat
           /\ ColorOf(x, e, u) * u + AlignUp(s, u) <= y + (y \div e)
           /\ ColorOf(x, e, u) * u + AlignUp(s, u) <= ColorOf(y, e, u) * u
<1> DEFINE k == ColorOf(x, e, u)
           raised == x + (x \div e)
           top == y + (y \div e)
<1>1. x \div e \in Nat /\ s \div e \in Nat /\ y \div e \in Nat
  BY DivMod
<1>2. k \in Nat /\ k * u <= raised
  <2>1. raised \in Nat
    BY <1>1
  <2>2. /\ raised \div u \in Nat /\ raised % u \in 0..(u - 1)
        /\ raised = u * (raised \div u) + (raised % u)
    BY <2>1, DivMod
  <2> HIDE DEF raised
  <2>3. k = raised \div u
    BY DEF ColorOf, raised
  <2> HIDE DEF k
  <2> QED
    BY <2>1, <2>2, <2>3
<1>3. PICK w \in Nat : AlignUp(s, u) = w * u /\ w * u <= s + u
  BY AlignUpNear
<1>4. (x \div e) + (s \div e) <= y \div e
  <2>1. (x \div e) + (s \div e) <= (x + s) \div e
    BY QuotientsAdd
  <2>2. (x + s) \div e \in Nat /\ (x + s) \div e <= y \div e
    <3>1. x + s \in Nat
      OBVIOUS
    <3> QED
      BY <3>1, QuotientGrows
  <2> QED
    BY <1>1, <2>1, <2>2
<1> HIDE DEF k
<1>5. k * u \in Nat /\ w * u \in Nat
  BY <1>2, <1>3
<1>6. k * u + w * u <= top
  BY <1>1, <1>2, <1>3, <1>4, <1>5
<1>7. (k + w) * u <= top
  BY <1>2, <1>3, <1>6
<1>8. k + w \in Nat /\ top \in Nat
  BY <1>1, <1>2, <1>3
<1>9. k + w <= top \div u /\ top \div u \in Nat
  <2> HIDE DEF top
  <2> QED
    BY <1>7, <1>8, MultipleBelow, DivMod
<1>10. ColorOf(y, e, u) = top \div u
  BY DEF ColorOf
<1> HIDE DEF top
<1>11. (k + w) * u <= (top \div u) * u
  BY <1>8, <1>9
<1>12. k * u + w * u <= (top \div u) * u
  BY <1>2, <1>3, <1>11
<1> QED
  BY <1>2, <1>3, <1>6, <1>9, <1>10, <1>12 DEF k, top

(***************************************************************************)
(* The nodes of a pool                                                     *)
(***************************************************************************)
LEMMA SizesPositive ==
    ASSUME Given, NEW q, NEW c \in NodesOf(space, q)
    PROVE  space.size[c] \in 1..MaxUInt /\ space.size[c] \in Nat \ {0}
<1>1. Fixed(problem) /\ SpaceTyped(problem, space) /\ c \in Classes(problem)
  BY GivenTyped, NodesAre
<1>2. space.size[c] = ClassSize(problem, c) /\ space.size[c] \in 0..MaxUInt
  BY <1>1 DEF SpaceTyped
<1>3. c # {} /\ c \in SUBSET problem.buffers
  BY <1>1, NodesTyped
<1>4. PICK b \in c : ClassSize(problem, c) = problem.size[b]
  BY <1>1, <1>3, ClassSizeLargest DEF Fixed
<1>5. problem.size[b] # 0
  BY <1>1, <1>3, <1>4, FixedKnown DEF ValidProblem, ValidBuffer
<1> QED
  BY <1>2, <1>4, <1>5

\* Both ends of a soft edge are large nodes of its pool.
LEMMA SoftEnds ==
    ASSUME Given, NEW q, NEW e \in SoftPairs(space, q)
    PROVE  /\ e = <<e[1], e[2]>> /\ e \in DOMAIN space.soft /\ e[1] # e[2]
           /\ e[1] \in LargeNodes(q) /\ e[2] \in LargeNodes(q) /\ Min(e[1]) < Min(e[2])
<1> DEFINE ends == UNION {{d[1], d[2]} : d \in SoftPairs(space, q)}
           sizes == {space.size[c] : c \in ends}
<1>1. SpaceTyped(problem, space) /\ DOMAIN space.soft = SoftEdges(problem)
  BY GivenTyped, SpaceWeighs
<1>2. ASSUME NEW d \in SoftPairs(space, q)
      PROVE  /\ d = <<d[1], d[2]>> /\ d[1] \in Classes(problem) /\ d[2] \in Classes(problem)
             /\ d[1] \in NodesOf(space, q) /\ d[2] \in NodesOf(space, q) /\ d[1] # d[2]
  <2>1. d \in SoftEdges(problem) /\ space.pool[d[1]] = q
    BY <1>1 DEF SoftPairs
  <2>2. d \in Classes(problem) \X Classes(problem) /\ PoolOf(problem, d[1]) = PoolOf(problem, d[2])
        /\ d[1] # d[2]
    BY <2>1 DEF SoftEdges
  <2>3. space.pool[d[1]] = PoolOf(problem, d[1]) /\ space.pool[d[2]] = PoolOf(problem, d[2])
    BY <1>1, <2>2 DEF SpaceTyped
  <2> QED
    BY <1>1, <2>1, <2>2, <2>3 DEF NodesOf, SpaceTyped
<1>3. \A c \in ends : c \in NodesOf(space, q) /\ space.size[c] \in Nat
  <2>1. \A c \in ends : c \in NodesOf(space, q)
    BY <1>2
  <2> QED
    BY <2>1, NodesAre, MaxUIntAssumption
<1>4. sizes \in SUBSET Nat /\ e[1] \in ends /\ e[2] \in ends
  BY <1>3
<1>5. \A v \in sizes : Min(sizes) <= v /\ Min(sizes) \in Nat
  <2>1. sizes # {}
    <3> HIDE DEF ends
    <3> QED
      BY <1>4
  <2> HIDE DEF sizes
  <2> QED
    BY <1>4, <2>1, MinNatural
<1>6. MinimumLargeSize(q) = Min(sizes)
  BY DEF MinimumLargeSize
<1>7. \A c \in ends : space.size[c] >= MinimumLargeSize(q)
  <2> TAKE c \in ends
  <2>1. space.size[c] \in sizes
    OBVIOUS
  <2> HIDE DEF sizes
  <2>2. Min(sizes) <= space.size[c] /\ Min(sizes) \in Nat /\ space.size[c] \in Nat
    BY <1>4, <1>5, <2>1
  <2> QED
    BY <1>6, <2>2
<1>8. e[1] \in LargeNodes(q) /\ e[2] \in LargeNodes(q)
  BY <1>3, <1>4, <1>7 DEF LargeNodes
<1> QED
  BY <1>2, <1>8 DEF SoftPairs

\* The grid of a pool, by the sizes of its nodes.
LEMMA GridIs ==
    ASSUME Given, NEW q, PoolRefusal(q) = "none", SoftPairs(space, q) # {}, NEW g, g = GridOf(q)
    PROVE  /\ Gridded(g) /\ g.pool = q /\ Arrangement(g.nodes, LargeNodes(q))
           /\ options.epsilon \in Nat \ {0}
           /\ q \in DOMAIN problem.capacity /\ problem.capacity[q] \in 0..MaxUInt
           /\ g.limit = problem.capacity[q] + Augmentation(q)
           /\ g.quantum % PoolAlignment(q) = 0
           /\ \A i \in 1..Len(g.nodes) :
                  /\ g.nodes[i] \in LargeNodes(q) /\ g.nodes[i] \in NodesOf(space, q)
                  /\ g.rounded[i] = AlignUp(space.size[g.nodes[i]], g.quantum)
                  /\ g.quantum <= space.size[g.nodes[i]] \div options.epsilon
<1>1. /\ Gridded(g) /\ g.pool = q /\ Arrangement(g.nodes, LargeNodes(q))
  BY GridBuilt
<1>2. options.epsilon \in Nat \ {0} /\ PoolAlignment(q) \in Nat \ {0} /\ Fixed(problem)
  BY GivenTyped, NodesAre
<1>3. q \in DOMAIN problem.capacity
  BY DEF PoolRefusal
<1>4. problem.capacity[q] \in 0..MaxUInt
  BY <1>2, <1>3 DEF Fixed, ProblemTyped
<1>5. /\ g.limit = problem.capacity[q] + Augmentation(q) /\ g.quantum = Quantum(q)
      /\ g.rounded = [i \in DOMAIN g.nodes |-> AlignUp(space.size[g.nodes[i]], Quantum(q))]
  BY DEF GridOf
<1>6. DOMAIN g.nodes = 1..Len(g.nodes) /\ Len(g.nodes) \in Nat /\ g.nodes \in Seq(LargeNodes(q))
  BY <1>1 DEF Gridded, Arrangement
<1>7. \A i \in 1..Len(g.nodes) : g.nodes[i] \in LargeNodes(q)
  BY <1>6, ElementOfSeq
<1>8. MinimumLargeSize(q) \in 0..MaxUInt
  BY LargeNodesAre
<1> DEFINE small == MinimumLargeSize(q)
           share == small \div options.epsilon
           units == share \div PoolAlignment(q)
<1>9. share \in Nat
  <2>1. small \in Nat
    BY <1>8
  <2> HIDE DEF small
  <2> QED
    BY <1>2, <2>1, DivMod
<1>10. /\ units \in Nat /\ units * PoolAlignment(q) <= share
       /\ (units * PoolAlignment(q)) % PoolAlignment(q) = 0
  <2> HIDE DEF share
  <2>0. units = share \div PoolAlignment(q)
    OBVIOUS
  <2> HIDE DEF units
  <2>1. /\ units \in Nat /\ share % PoolAlignment(q) \in 0..(PoolAlignment(q) - 1)
        /\ share = PoolAlignment(q) * units + (share % PoolAlignment(q))
    BY <1>2, <1>9, <2>0, DivMod
  <2>2. (PoolAlignment(q) * units) % PoolAlignment(q) = 0
    BY <1>2, <2>1, MultipleAligned
  <2>3. PoolAlignment(q) * units = units * PoolAlignment(q)
    BY <1>2, <2>1
  <2> QED
    BY <1>2, <1>9, <2>1, <2>2, <2>3
<1>11. Quantum(q) = units * PoolAlignment(q)
  BY DEF Quantum
<1>12. ASSUME NEW i \in 1..Len(g.nodes) PROVE g.quantum <= space.size[g.nodes[i]] \div options.epsilon
  <2>1. PICK s \in Nat : s = space.size[g.nodes[i]] /\ small <= s /\ small \in Nat
    BY <1>7, <1>8, LargeNodesAre, NodesAre, MaxUIntAssumption DEF LargeNodes
  <2> HIDE DEF small
  <2>2. share <= s \div options.epsilon /\ s \div options.epsilon \in Nat
    BY <1>2, <2>1, QuotientGrows
  <2> HIDE DEF share
  <2>3. units * PoolAlignment(q) \in Nat
    BY <1>2, <1>10
  <2> HIDE DEF units
  <2> QED
    BY <1>5, <1>9, <1>10, <1>11, <2>1, <2>2, <2>3
<1>13. g.quantum % PoolAlignment(q) = 0
  BY <1>5, <1>10, <1>11
<1>14. \A i \in 1..Len(g.nodes) : /\ g.rounded[i] = AlignUp(space.size[g.nodes[i]], g.quantum)
                                  /\ g.nodes[i] \in NodesOf(space, q)
  BY <1>5, <1>6, <1>7 DEF LargeNodes
<1> QED
  BY <1>1, <1>2, <1>3, <1>4, <1>5, <1>7, <1>12, <1>13, <1>14

(***************************************************************************)
(* Placements of a pool                                                    *)
(***************************************************************************)
\* The nodes of the pool that block each other are disjoint.
Separate(off, q) ==
    \A c \in NodesOf(space, q) :
        /\ off[c] \in Nat
        /\ \A d \in NodesOf(space, q) : <<c, d>> \in space.hard => Disjoint(off, c, d)

\* The neighbours that share addresses, and what they pay.
Sharing(off, q) ==
    {e \in SoftPairs(space, q) :
        AddressRangesOverlap(off[e[1]], space.size[e[1]], off[e[2]], space.size[e[2]])}

PoolCost(off, q) == SumOver(space.soft, Sharing(off, q))

\* The place of a node in the order of births.
RankIn(g, c) == CHOOSE i \in 1..Len(g.nodes) : g.nodes[i] = c

\* The neighbours that meet on the grid.
Meeting(g, f) ==
    {e \in SoftPairs(space, g.pool) :
        LET i == RankIn(g, e[1])
            k == RankIn(g, e[2])
        IN  Meet(g, i, f[i], k, f[k])}

\* Any set of soft pairs weighs a word.
LEMMA SoftPairsWeigh ==
    ASSUME Given, NEW q, NEW S \in SUBSET SoftPairs(space, q)
    PROVE  /\ IsFiniteSet(S) /\ InWordsOver(space.soft, S)
           /\ SumOver(space.soft, S) \in 0..MaxUInt
<1>1. SpaceTyped(problem, space) /\ SoftWords
  BY GivenTyped
<1>2. S \subseteq DOMAIN space.soft
  BY DEF SoftPairs
<1>3. IsFiniteSet(S) /\ InWordsOver(space.soft, S)
  BY <1>1, <1>2, FS_Subset DEF SpaceTyped, SoftWords, InWordsOver
<1> QED
  BY <1>3, SumUnfolds

\* Ranks and the classes swept name each other.
LEMMA RankOf ==
    ASSUME NEW L, NEW g, Arrangement(g.nodes, L)
    PROVE  /\ \A c \in L : RankIn(g, c) \in 1..Len(g.nodes) /\ g.nodes[RankIn(g, c)] = c
           /\ \A i \in 1..Len(g.nodes) : RankIn(g, g.nodes[i]) = i
<1>1. \A c \in L : \E i \in 1..Len(g.nodes) : g.nodes[i] = c
  BY DEF Arrangement, Lists
<1>2. \A i, j \in 1..Len(g.nodes) : g.nodes[i] = g.nodes[j] => i = j
  BY DEF Arrangement, Once
<1> QED
  BY <1>1, <1>2 DEF RankIn

\* Meeting is mutual.
LEMMA MeetSymmetric ==
    ASSUME NEW g, NEW i, NEW x, NEW k, NEW y, Meet(g, i, x, k, y)
    PROVE  Meet(g, k, y, i, x)
  BY OverlapSymmetric DEF Meet

\* A grid placement costs what the neighbours that meet pay, each pair once.
LEMMA MeetingCosts ==
    ASSUME Given, NEW q, PoolRefusal(q) = "none", SoftPairs(space, q) # {}, NEW g, g = GridOf(q),
           NEW f, DOMAIN f = 1..Len(g.nodes)
    PROVE  AssignmentCost(g, f) = SumOver(space.soft, Meeting(g, f))
<1>1. /\ Gridded(g) /\ g.pool = q /\ Arrangement(g.nodes, LargeNodes(q)) /\ Len(g.nodes) \in Nat
      /\ \A i \in 1..Len(g.nodes) : g.nodes[i] \in LargeNodes(q) /\ g.nodes[i] \in NodesOf(space, q)
  BY GridIs DEF Gridded
<1>2. SpaceTyped(problem, space) /\ SoftWords
  BY GivenTyped
<1>3. /\ \A c \in LargeNodes(q) : RankIn(g, c) \in 1..Len(g.nodes) /\ g.nodes[RankIn(g, c)] = c
      /\ \A i \in 1..Len(g.nodes) : RankIn(g, g.nodes[i]) = i
  BY <1>1, RankOf
<1>4. \A c, d \in LargeNodes(q) : Min(c) \in Nat /\ Min(d) \in Nat /\ (Min(c) = Min(d) => c = d)
  BY NodesAre DEF LargeNodes
<1> DEFINE n == Len(g.nodes)
           P == PayingPairs(g, f)
           W == PairWeights(g, P)
           S == Meeting(g, f)
           edge(c, d) == IF Min(c) < Min(d) THEN <<c, d>> ELSE <<d, c>>
           h == [e \in P |-> edge(g.nodes[e[1]], g.nodes[e[2]])]
<1>5. /\ IsFiniteSet(P) /\ InWordsOver(W, P) /\ AssignmentCost(g, f) = SumOver(W, P)
  BY <1>1, <1>2, AssignmentCostTyped, AssignmentCostSums
<1>6. ASSUME NEW i \in 1..n, NEW k \in 1..n
      PROVE  <<i, k>> \in P <=> /\ k < i
                                /\ <<g.nodes[i], g.nodes[k]>> \in DOMAIN space.soft
                                /\ Meet(g, i, f[i], k, f[k])
  <2>1. k \in 1..(i - 1) <=> k < i
    BY <1>1
  <2>2. k \in Before(g, i, DOMAIN space.soft) <=> k < i /\ <<g.nodes[i], g.nodes[k]>> \in DOMAIN space.soft
    BY <2>1 DEF Before
  <2>3. <<i, k>> \in (DOMAIN f) \X (DOMAIN f)
    OBVIOUS
  <2> QED
    BY <2>2, <2>3 DEF PayingPairs
<1>7. \A e \in P : e = <<e[1], e[2]>> /\ e[1] \in 1..n /\ e[2] \in 1..n
  BY DEF PayingPairs
<1>8. ASSUME NEW i \in 1..n, NEW k \in 1..n, k < i, <<g.nodes[i], g.nodes[k]>> \in DOMAIN space.soft,
             Meet(g, i, f[i], k, f[k])
      PROVE  /\ edge(g.nodes[i], g.nodes[k]) \in S
             /\ space.soft[edge(g.nodes[i], g.nodes[k])] = space.soft[<<g.nodes[i], g.nodes[k]>>]
  <2> DEFINE c == g.nodes[i]
             d == g.nodes[k]
  <2>1. /\ c \in LargeNodes(q) /\ d \in LargeNodes(q) /\ c # d
        /\ <<d, c>> \in DOMAIN space.soft /\ space.soft[<<d, c>>] = space.soft[<<c, d>>]
        /\ space.pool[c] = q /\ space.pool[d] = q
    BY <1>1, <1>2, <1>8 DEF SpaceTyped, NodesOf
  <2>2. RankIn(g, c) = i /\ RankIn(g, d) = k /\ Meet(g, k, f[k], i, f[i])
    BY <1>3, <1>8, MeetSymmetric
  <2> HIDE DEF c, d
  <2>3. CASE Min(c) < Min(d)
    <3>1. <<c, d>> \in SoftPairs(space, q)
      BY <1>8, <2>1, <2>3 DEF SoftPairs, c, d
    <3>2. <<c, d>> \in S
      BY <1>1, <1>8, <2>2, <3>1 DEF Meeting
    <3> QED
      BY <2>3, <3>2 DEF c, d
  <2>4. CASE ~(Min(c) < Min(d))
    <3>1. Min(d) < Min(c)
      BY <1>4, <2>1, <2>4
    <3>2. <<d, c>> \in SoftPairs(space, q)
      BY <1>8, <2>1, <3>1 DEF SoftPairs
    <3>3. <<d, c>> \in S
      BY <1>1, <2>2, <3>2 DEF Meeting
    <3> QED
      BY <2>1, <2>4, <3>3 DEF c, d
  <2> QED
    BY <2>3, <2>4
<1>9. ASSUME NEW e \in S PROVE \E i \in 1..n, k \in 1..n :
          /\ k < i /\ <<g.nodes[i], g.nodes[k]>> \in DOMAIN space.soft /\ Meet(g, i, f[i], k, f[k])
          /\ e = edge(g.nodes[i], g.nodes[k])
  <2>1. e \in SoftPairs(space, q)
    BY <1>1 DEF Meeting
  <2>2. PICK c \in LargeNodes(q), d \in LargeNodes(q) :
            /\ e = <<c, d>> /\ c # d /\ Min(c) < Min(d) /\ <<c, d>> \in DOMAIN space.soft
    BY <2>1, SoftEnds
  <2>3. <<d, c>> \in DOMAIN space.soft
    BY <1>2, <2>2 DEF SpaceTyped
  <2>4. PICK i \in 1..n, k \in 1..n : i = RankIn(g, c) /\ k = RankIn(g, d) /\ g.nodes[i] = c /\ g.nodes[k] = d
    BY <1>3, <2>2
  <2>5. Meet(g, i, f[i], k, f[k]) /\ Meet(g, k, f[k], i, f[i])
    BY <2>2, <2>4, MeetSymmetric DEF Meeting
  <2>6. i # k
    BY <2>2, <2>4
  <2>7. ~(Min(d) < Min(c))
    BY <1>4, <2>2
  <2>8. edge(c, d) = e /\ edge(d, c) = e
    BY <2>2, <2>7
  <2> HIDE DEF edge, S
  <2>9. k < i \/ i < k
    BY <1>1, <2>6
  <2>10. CASE k < i
    BY <2>2, <2>4, <2>5, <2>8, <2>10
  <2>11. CASE i < k
    BY <2>3, <2>4, <2>5, <2>8, <2>11
  <2> QED
    BY <2>9, <2>10, <2>11
<1>10. S = {h[e] : e \in P}
  <2>1. ASSUME NEW e \in P PROVE h[e] \in S
    <3>1. PICK i \in 1..n, k \in 1..n : e = <<i, k>>
      BY <1>7
    <3> HIDE DEF S, P, edge
    <3>2. h[e] = edge(g.nodes[i], g.nodes[k])
      BY <3>1
    <3> QED
      BY <1>6, <1>8, <3>1, <3>2
  <2>2. ASSUME NEW e \in S PROVE \E x \in P : h[x] = e
    <3>1. PICK i \in 1..n, k \in 1..n :
          /\ k < i /\ <<g.nodes[i], g.nodes[k]>> \in DOMAIN space.soft /\ Meet(g, i, f[i], k, f[k])
          /\ e = edge(g.nodes[i], g.nodes[k])
      BY <1>9
    <3>2. <<i, k>> \in P
      BY <1>6, <3>1
    <3> HIDE DEF S, P, edge
    <3>3. h[<<i, k>>] = edge(g.nodes[i], g.nodes[k])
      BY <3>2
    <3> QED
      BY <3>1, <3>2, <3>3
  <2> HIDE DEF S, P, h
  <2> QED
    BY <2>1, <2>2
<1>11. ASSUME NEW x \in P, NEW y \in P, h[x] = h[y] PROVE x = y
  <2>1. PICK i \in 1..n, k \in 1..n, j \in 1..n, l \in 1..n : x = <<i, k>> /\ y = <<j, l>> /\ k < i /\ l < j
    <3>1. x = <<x[1], x[2]>> /\ y = <<y[1], y[2]>>
      BY <1>7
    <3>2. x[1] \in 1..n /\ x[2] \in 1..n /\ y[1] \in 1..n /\ y[2] \in 1..n
      BY <1>7
    <3>3. x[2] < x[1] /\ y[2] < y[1]
      BY <1>6, <3>1, <3>2
    <3> QED
      BY <3>1, <3>2, <3>3
  <2>2. h[x] = edge(g.nodes[i], g.nodes[k]) /\ h[y] = edge(g.nodes[j], g.nodes[l])
    <3> HIDE DEF P, edge
    <3> QED
      BY <2>1
  <2>3. {g.nodes[i], g.nodes[k]} = {g.nodes[j], g.nodes[l]}
    BY <1>11, <2>2
  <2>4. {i, k} = {j, l}
    <3>1. \A a, b \in 1..n : g.nodes[a] = g.nodes[b] => a = b
      BY <1>3
    <3> QED
      BY <2>1, <2>3, <3>1
  <2>5. i = j /\ k = l
    BY <2>1, <2>4
  <2> QED
    BY <2>1, <2>5
<1>12. ASSUME NEW x \in P PROVE space.soft[h[x]] = W[x]
  <2>1. PICK i \in 1..n, k \in 1..n : x = <<i, k>>
    BY <1>7
  <2>2. k < i /\ <<g.nodes[i], g.nodes[k]>> \in DOMAIN space.soft /\ Meet(g, i, f[i], k, f[k])
    BY <1>6, <2>1
  <2> HIDE DEF P, edge
  <2>3. h[x] = edge(g.nodes[i], g.nodes[k]) /\ W[x] = space.soft[<<g.nodes[i], g.nodes[k]>>]
    BY <2>1 DEF PairWeights
  <2> QED
    BY <1>8, <2>2, <2>3
<1>13. S \in SUBSET SoftPairs(space, q)
  BY <1>1 DEF Meeting
<1> HIDE DEF S, P, W, h, edge
<1>14. IsFiniteSet(S)
  BY <1>13, SoftPairsWeigh
<1>15. Renames(h, P, S, W, space.soft)
  BY <1>10, <1>11, <1>12 DEF Renames
<1>16. SumOver(W, P) = SumOver(space.soft, S)
  BY <1>5, <1>14, <1>15, SumRenamed
<1> QED
  BY <1>5, <1>16 DEF S

\* Nodes that are not disjoint share addresses.
LEMMA NotDisjointOverlaps ==
    ASSUME Given, NEW q, NEW c \in NodesOf(space, q), NEW d \in NodesOf(space, q), NEW off,
           off[c] \in Nat, off[d] \in Nat, ~Disjoint(off, c, d)
    PROVE  AddressRangesOverlap(off[c], space.size[c], off[d], space.size[d])
<1>1. space.size[c] \in Nat \ {0} /\ space.size[d] \in Nat \ {0}
  BY SizesPositive
<1> QED
  BY <1>1 DEF Disjoint, AddressRangesOverlap

\* Where the first ranks are after rounding.
OnGrid(g, off, m) == [i \in 1..m |-> ColorOf(off[g.nodes[i]], options.epsilon, g.quantum)]

\* A placement that fits the capacity is rounded to a grid placement that fits the
\* augmented band, and which makes no two nodes meet that were disjoint.
LEMMA RoundedFits ==
    ASSUME Given, NEW q, PoolRefusal(q) = "none", SoftPairs(space, q) # {}, NEW g, g = GridOf(q),
           NEW off, Separate(off, q),
           \A c \in NodesOf(space, q) : off[c] + space.size[c] <= problem.capacity[q]
    PROVE  LET f == OnGrid(g, off, Len(g.nodes))
           IN  /\ \A i \in 1..Len(g.nodes) :
                      /\ f[i] \in Nat /\ g.rounded[i] <= g.limit /\ f[i] < ColorCount(g, i)
               /\ \A i, k \in 1..Len(g.nodes) :
                      Disjoint(off, g.nodes[i], g.nodes[k]) => ~Meet(g, i, f[i], k, f[k])
<1> DEFINE n == Len(g.nodes)
           u == g.quantum
           e == options.epsilon
           C == problem.capacity[q]
           f == OnGrid(g, off, n)
<1>1. /\ Gridded(g) /\ e \in Nat \ {0} /\ C \in 0..MaxUInt /\ g.limit = C + Augmentation(q)
      /\ \A i \in 1..n : /\ g.nodes[i] \in NodesOf(space, q)
                         /\ g.rounded[i] = AlignUp(space.size[g.nodes[i]], u)
                         /\ u <= space.size[g.nodes[i]] \div e
  BY GridIs
<1>2. /\ u \in Nat \ {0} /\ g.limit \in 0..MaxUInt /\ \A i \in 1..n : g.rounded[i] \in 0..MaxUInt
  BY <1>1 DEF Gridded
<1>3. C + (C \div e) <= g.limit
  <2>1. Augmentation(q) = (C + e - 1) \div e
    BY DEF Augmentation, CeilDivide
  <2> HIDE DEF C, e
  <2>2. C \in Nat /\ C + e - 1 \in Nat /\ C <= C + e - 1
    BY <1>1
  <2>3. C \div e \in Nat /\ (C + e - 1) \div e \in Nat /\ C \div e <= (C + e - 1) \div e
    BY <1>1, <2>2, QuotientGrows
  <2> QED
    BY <1>1, <2>1, <2>2, <2>3
<1>4. ASSUME NEW i \in 1..n
      PROVE  \E x \in Nat, s \in Nat :
                 /\ x = off[g.nodes[i]] /\ s = space.size[g.nodes[i]]
                 /\ u <= s \div e /\ g.rounded[i] = AlignUp(s, u) /\ x + s <= C
                 /\ f[i] = ColorOf(x, e, u)
  <2>1. g.nodes[i] \in NodesOf(space, q)
    BY <1>1
  <2>2. off[g.nodes[i]] \in Nat /\ space.size[g.nodes[i]] \in Nat
    BY <2>1, SizesPositive DEF Separate
  <2> QED
    BY <1>1, <2>1, <2>2 DEF OnGrid
<1> HIDE DEF f
<1>5. ASSUME NEW i \in 1..n
      PROVE  /\ f[i] \in Nat /\ f[i] * u \in Nat /\ f[i] * u + g.rounded[i] <= g.limit
             /\ g.rounded[i] <= g.limit /\ f[i] < ColorCount(g, i)
  <2>1. PICK x \in Nat, s \in Nat :
                 /\ x = off[g.nodes[i]] /\ s = space.size[g.nodes[i]]
                 /\ u <= s \div e /\ g.rounded[i] = AlignUp(s, u) /\ x + s <= C
                 /\ f[i] = ColorOf(x, e, u)
    BY <1>4
  <2>2. C \in Nat
    BY <1>1
  <2> HIDE DEF C, e, u
  <2>3. f[i] \in Nat /\ f[i] * u + g.rounded[i] <= C + (C \div e)
    <3>1. e \in Nat \ {0} /\ u \in Nat \ {0} /\ u <= s \div e /\ x + s <= C
      BY <1>1, <1>2, <2>1
    <3>2. /\ ColorOf(x, e, u) \in Nat
          /\ ColorOf(x, e, u) * u + AlignUp(s, u) <= C + (C \div e)
      BY <2>2, <3>1, RoundedEnds
    <3> QED
      BY <2>1, <3>2
  <2>4. C \div e \in Nat
    BY <1>1, <2>2, DivMod
  <2>5. f[i] * u \in Nat
    BY <1>2, <2>3
  <2>6. g.rounded[i] \in Nat /\ g.limit \in Nat
    BY <1>2
  <2>7. f[i] * u + g.rounded[i] <= g.limit /\ g.rounded[i] <= g.limit
    BY <1>3, <2>2, <2>3, <2>4, <2>5, <2>6
  <2>8. f[i] <= (g.limit - g.rounded[i]) \div u /\ (g.limit - g.rounded[i]) \div u \in Nat
    <3>1. g.limit - g.rounded[i] \in Nat /\ f[i] * u <= g.limit - g.rounded[i]
      BY <2>5, <2>6, <2>7
    <3> QED
      BY <1>2, <2>3, <3>1, MultipleBelow, DivMod
  <2> QED
    BY <2>3, <2>5, <2>7, <2>8 DEF ColorCount, u
<1>6. ASSUME NEW i \in 1..n, NEW k \in 1..n, off[g.nodes[i]] + space.size[g.nodes[i]] <= off[g.nodes[k]]
      PROVE  f[i] * u + g.rounded[i] <= f[k] * u
  <2>1. PICK x \in Nat, s \in Nat :
                 /\ x = off[g.nodes[i]] /\ s = space.size[g.nodes[i]]
                 /\ u <= s \div e /\ g.rounded[i] = AlignUp(s, u) /\ x + s <= C
                 /\ f[i] = ColorOf(x, e, u)
    BY <1>4
  <2>2. PICK y \in Nat : y = off[g.nodes[k]] /\ f[k] = ColorOf(y, e, u)
    BY <1>4
  <2>3. x + s <= y
    BY <1>6, <2>1, <2>2
  <2> HIDE DEF C, e, u
  <2>4. e \in Nat \ {0} /\ u \in Nat \ {0} /\ u <= s \div e
    BY <1>1, <1>2, <2>1
  <2>5. ColorOf(x, e, u) * u + AlignUp(s, u) <= ColorOf(y, e, u) * u
    BY <2>3, <2>4, RoundedEnds
  <2> QED
    BY <2>1, <2>2, <2>5
<1>7. ASSUME NEW i \in 1..n, NEW k \in 1..n, Disjoint(off, g.nodes[i], g.nodes[k])
      PROVE  ~Meet(g, i, f[i], k, f[k])
  <2>1. \/ f[i] * u + g.rounded[i] <= f[k] * u
        \/ f[k] * u + g.rounded[k] <= f[i] * u
    BY <1>6, <1>7 DEF Disjoint
  <2>2. /\ f[i] * u \in Nat /\ f[k] * u \in Nat /\ g.rounded[i] \in Nat /\ g.rounded[k] \in Nat
        /\ f[i] * u + g.rounded[i] <= MaxUInt /\ f[k] * u + g.rounded[k] <= MaxUInt
    <3>1. /\ f[i] * u \in Nat /\ f[k] * u \in Nat
          /\ f[i] * u + g.rounded[i] <= g.limit /\ f[k] * u + g.rounded[k] <= g.limit
      BY <1>5
    <3> QED
      BY <1>2, <3>1, MaxUIntAssumption
  <2>3. PICK x, y, v, w : x = f[i] * u /\ y = f[k] * u /\ v = g.rounded[i] /\ w = g.rounded[k]
    OBVIOUS
  <2>4. ~AddressRangesOverlap(x, v, y, w)
    BY <2>1, <2>2, <2>3, MaxUIntAssumption DEF AddressRangesOverlap, AddOverflows
  <2> QED
    BY <2>3, <2>4 DEF Meet
<1> QED
  BY <1>5, <1>7 DEF f

\* Its first ranks are a grid placement, and the whole costs no more.
LEMMA RoundedAssigned ==
    ASSUME Given, NEW q, PoolRefusal(q) = "none", SoftPairs(space, q) # {}, NEW g, g = GridOf(q),
           NEW off, Separate(off, q),
           \A c \in NodesOf(space, q) : off[c] + space.size[c] <= problem.capacity[q]
    PROVE  /\ \A m \in 0..Len(g.nodes) : OnGrid(g, off, m) \in Assignments(g, m)
           /\ AssignmentCost(g, OnGrid(g, off, Len(g.nodes))) <= PoolCost(off, q)
<1> DEFINE n == Len(g.nodes)
           f == OnGrid(g, off, n)
<1>1. /\ Gridded(g) /\ g.pool = q /\ Arrangement(g.nodes, LargeNodes(q)) /\ n \in Nat
      /\ \A i \in 1..n : g.nodes[i] \in NodesOf(space, q)
  BY GridIs DEF Gridded
<1>2. /\ \A i \in 1..n : f[i] \in Nat /\ g.rounded[i] <= g.limit /\ f[i] < ColorCount(g, i)
      /\ \A i, k \in 1..n : Disjoint(off, g.nodes[i], g.nodes[k]) => ~Meet(g, i, f[i], k, f[k])
  BY RoundedFits
<1>3. ASSUME NEW m \in 0..n PROVE OnGrid(g, off, m) \in Assignments(g, m)
  <2> DEFINE h == OnGrid(g, off, m)
  <2>1. \A i \in 1..m : i \in 1..n /\ h[i] = f[i]
    BY <1>1 DEF OnGrid
  <2>2. h \in [1..m -> Nat]
    <3>1. h = [i \in 1..m |-> h[i]] /\ \A i \in 1..m : h[i] \in Nat
      BY <1>2, <2>1 DEF OnGrid
    <3> HIDE DEF h
    <3> QED
      BY <3>1
  <2>3. FitBand(g, m)
    BY <1>2, <2>1 DEF FitBand
  <2> HIDE DEF h, f
  <2>4. ASSUME NEW i \in 1..m, NEW k \in Before(g, i, space.hard) PROVE ~Meet(g, i, h[i], k, h[k])
    <3>1. k \in 1..m /\ <<g.nodes[i], g.nodes[k]>> \in space.hard
      BY <1>1 DEF Before
    <3>2. Disjoint(off, g.nodes[i], g.nodes[k])
      BY <1>1, <2>1, <3>1 DEF Separate
    <3> QED
      BY <1>2, <2>1, <3>1, <3>2
  <2>5. \A i \in 1..m : h[i] < ColorCount(g, i)
    BY <1>2, <2>1
  <2> QED
    BY <1>1, <2>2, <2>3, <2>4, <2>5, AssignmentIs DEF h
<1>4. AssignmentCost(g, f) = SumOver(space.soft, Meeting(g, f))
  <2>1. DOMAIN f = 1..n
    BY DEF OnGrid
  <2> HIDE DEF f
  <2> QED
    BY <2>1, MeetingCosts
<1>5. Meeting(g, f) \subseteq Sharing(off, q)
  <2> HIDE DEF f
  <2> SUFFICES ASSUME NEW e \in Meeting(g, f) PROVE e \in Sharing(off, q)
    OBVIOUS
  <2>1. e \in SoftPairs(space, q)
    BY <1>1 DEF Meeting
  <2>2. e[1] \in LargeNodes(q) /\ e[2] \in LargeNodes(q)
    BY <2>1, SoftEnds
  <2>3. PICK i \in 1..n, k \in 1..n :
            i = RankIn(g, e[1]) /\ k = RankIn(g, e[2]) /\ g.nodes[i] = e[1] /\ g.nodes[k] = e[2]
    <3>1. \A c \in LargeNodes(q) : RankIn(g, c) \in 1..n /\ g.nodes[RankIn(g, c)] = c
      BY <1>1, RankOf
    <3> HIDE DEF n
    <3> QED
      BY <2>2, <3>1
  <2>4. Meet(g, i, f[i], k, f[k])
    BY <2>3 DEF Meeting
  <2>5. ~Disjoint(off, e[1], e[2])
    BY <1>2, <2>3, <2>4
  <2>6. e[1] \in NodesOf(space, q) /\ e[2] \in NodesOf(space, q) /\ off[e[1]] \in Nat /\ off[e[2]] \in Nat
    BY <2>2 DEF Separate, LargeNodes
  <2>7. AddressRangesOverlap(off[e[1]], space.size[e[1]], off[e[2]], space.size[e[2]])
    BY <2>5, <2>6, NotDisjointOverlaps
  <2> QED
    BY <2>1, <2>7 DEF Sharing
<1>6. Sharing(off, q) \in SUBSET SoftPairs(space, q)
  BY DEF Sharing
<1> HIDE DEF f
<1>7. SumOver(space.soft, Meeting(g, f)) <= SumOver(space.soft, Sharing(off, q))
  BY <1>5, <1>6, SoftPairsWeigh, SumOfFewer
<1> QED
  BY <1>3, <1>4, <1>7 DEF PoolCost, f

\* On a grid, what is clear of a node is clear of its rounded size.
LEMMA RoundedGap ==
    ASSUME NEW u \in Nat \ {0}, NEW x \in Nat, NEW y \in Nat, NEW t \in Nat, y * u + t <= x * u
    PROVE  y * u + AlignUp(t, u) <= x * u
<1>1. x * u \in Nat /\ y * u \in Nat /\ y * u <= x * u
  OBVIOUS
<1>2. y <= x
  <2>1. CASE x < y
    <3>1. (x + 1) * u <= y * u
      <4>1. PICK k \in Nat : y = x + 1 + k
        <5>1. y - (x + 1) \in Nat /\ y = x + 1 + (y - (x + 1))
          BY <2>1
        <5> QED
          BY <5>1
      <4>2. y * u = (x + 1) * u + k * u /\ k * u \in Nat /\ (x + 1) * u \in Nat
        BY <4>1
      <4> QED
        BY <4>2
    <3>2. (x + 1) * u = x * u + u
      OBVIOUS
    <3> QED
      BY <1>1, <3>1, <3>2
  <2> QED
    BY <2>1
<1>3. PICK k \in Nat : x = y + k
  <2>1. x - y \in Nat /\ x = y + (x - y)
    BY <1>2
  <2> QED
    BY <2>1
<1>4. x * u = y * u + k * u /\ k * u \in Nat /\ k * u = u * k
  BY <1>3
<1>5. t <= u * k /\ u * k \in Nat
  BY <1>1, <1>4
<1>6. Aligned(u * k, u)
  BY MultipleAligned DEF Aligned
<1>7. AlignUp(t, u) \in Nat /\ AlignUp(t, u) <= u * k
  BY <1>5, <1>6, AlignUpLeast
<1> QED
  BY <1>1, <1>4, <1>7

\* The colours of a grid placement as offsets.
OffsetsOf(g, f) ==
    [c \in Range(g.nodes) |-> f[CHOOSE i \in DOMAIN f : g.nodes[i] = c] * g.quantum]

\* A grid placement keeps the large nodes in the band, apart where they block each
\* other, and makes those share addresses that meet on the grid.
LEMMA GridPlaces ==
    ASSUME Given, NEW q, PoolRefusal(q) = "none", SoftPairs(space, q) # {}, NEW g, g = GridOf(q),
           FitBand(g, Len(g.nodes)), NEW f \in Assignments(g, Len(g.nodes)), NEW at, at = OffsetsOf(g, f)
    PROVE  /\ DOMAIN at = LargeNodes(q)
           /\ \A c \in LargeNodes(q) :
                  /\ at[c] \in Nat /\ at[c] % PoolAlignment(q) = 0
                  /\ at[c] + space.size[c] <= g.limit
                  /\ \A d \in LargeNodes(q) : <<c, d>> \in space.hard => Disjoint(at, c, d)
           /\ \A off : (\A c \in LargeNodes(q) : off[c] = at[c]) => Sharing(off, q) = Meeting(g, f)
<1> DEFINE n == Len(g.nodes)
           u == g.quantum
<1>1. /\ Gridded(g) /\ g.pool = q /\ Arrangement(g.nodes, LargeNodes(q)) /\ n \in Nat
      /\ g.quantum % PoolAlignment(q) = 0 /\ DOMAIN g.nodes = 1..n
      /\ \A i \in 1..n : /\ g.nodes[i] \in LargeNodes(q) /\ g.nodes[i] \in NodesOf(space, q)
                         /\ g.rounded[i] = AlignUp(space.size[g.nodes[i]], u)
  BY GridIs DEF Gridded
<1>2. /\ u \in Nat \ {0} /\ g.limit \in Nat /\ g.limit <= MaxUInt
  BY <1>1, MaxUIntAssumption DEF Gridded
<1>3. /\ f \in [1..n -> Nat]
      /\ \A i \in 1..n : /\ f[i] \in 0..(ColorCount(g, i) - 1)
                         /\ \A k \in Before(g, i, space.hard) : ~Meet(g, i, f[i], k, f[k])
  <2>1. /\ f \in [1..n -> Nat]
        /\ \A i \in 1..n : /\ f[i] < ColorCount(g, i)
                           /\ \A k \in Before(g, i, space.hard) : ~Meet(g, i, f[i], k, f[k])
    BY <1>1, AssignmentIs
  <2>2. \A i \in 1..n : ColorCount(g, i) \in Nat
    BY <1>1, <1>2, ColorsCounted DEF FitBand
  <2> QED
    BY <2>1, <2>2
<1>4. /\ \A c \in LargeNodes(q) : RankIn(g, c) \in 1..n /\ g.nodes[RankIn(g, c)] = c
      /\ \A i \in 1..n : RankIn(g, g.nodes[i]) = i
  <2>1. Arrangement(g.nodes, LargeNodes(q))
    BY <1>1
  <2> QED
    BY <2>1, RankOf
<1>5. /\ DOMAIN at = LargeNodes(q)
      /\ \A c \in LargeNodes(q) : at[c] = f[RankIn(g, c)] * u
  <2>1. Range(g.nodes) = LargeNodes(q)
    BY <1>1, <1>4 DEF Range
  <2>2. DOMAIN f = 1..n
    BY <1>3
  <2> QED
    BY <2>1, <2>2 DEF OffsetsOf, RankIn
\* A rank: its offset, its size and its rounded size.
<1>6. ASSUME NEW i \in 1..n
      PROVE  \E x \in Nat, s \in Nat \ {0}, r \in Nat :
                 /\ x = f[i] /\ s = space.size[g.nodes[i]] /\ r = g.rounded[i] /\ r = AlignUp(s, u)
                 /\ at[g.nodes[i]] = x * u /\ x * u \in Nat
                 /\ s <= r /\ x * u + r <= g.limit
  <2>1. f[i] \in Nat /\ f[i] * u \in Nat /\ f[i] * u + g.rounded[i] <= g.limit
    BY <1>1, <1>3, ColorsCounted DEF FitBand
  <2>2. space.size[g.nodes[i]] \in Nat \ {0}
    BY <1>1, SizesPositive
  <2>3. AlignUp(space.size[g.nodes[i]], u) \in Nat /\ space.size[g.nodes[i]] <= AlignUp(space.size[g.nodes[i]], u)
    BY <1>2, <2>2, AlignUpLeast
  <2>4. at[g.nodes[i]] = f[i] * u
    BY <1>1, <1>4, <1>5
  <2> QED
    BY <1>1, <2>1, <2>2, <2>3, <2>4
<1> HIDE DEF u
<1>7. ASSUME NEW c \in LargeNodes(q)
      PROVE  at[c] \in Nat /\ at[c] % PoolAlignment(q) = 0 /\ at[c] + space.size[c] <= g.limit
  <2>1. PICK i \in 1..n : g.nodes[i] = c
    BY <1>4
  <2>2. PICK x \in Nat, s \in Nat \ {0}, r \in Nat :
                 /\ x = f[i] /\ s = space.size[g.nodes[i]] /\ r = g.rounded[i] /\ r = AlignUp(s, u)
                 /\ at[g.nodes[i]] = x * u /\ x * u \in Nat
                 /\ s <= r /\ x * u + r <= g.limit
    BY <1>6
  <2>3. (x * u) % PoolAlignment(q) = 0
    <3>1. PoolAlignment(q) \in Nat \ {0} /\ u % PoolAlignment(q) = 0
      BY <1>1, NodesAre DEF u
    <3>2. (u * x) % u = 0 /\ u * x = x * u
      BY <1>2, MultipleAligned
    <3> QED
      BY <1>2, <2>2, <3>1, <3>2, Divides
  <2>4. x * u + s <= g.limit
    <3>1. PICK a \in Nat : a = x * u
      BY <2>2
    <3>2. a + s <= g.limit
      <4>1. a + r <= g.limit /\ s <= r
        BY <2>2, <3>1
      <4> QED
        BY <1>2, <4>1
    <3> QED
      BY <3>1, <3>2
  <2> QED
    BY <2>1, <2>2, <2>3, <2>4
<1>8. ASSUME NEW i \in 1..n, NEW k \in 1..n
      PROVE  /\ Meet(g, i, f[i], k, f[k]) <=> ~Disjoint(at, g.nodes[i], g.nodes[k])
             /\ Meet(g, i, f[i], k, f[k]) <=>
                    AddressRangesOverlap(at[g.nodes[i]], space.size[g.nodes[i]],
                                         at[g.nodes[k]], space.size[g.nodes[k]])
  <2>1. PICK x \in Nat, s \in Nat \ {0}, r \in Nat :
                 /\ x = f[i] /\ s = space.size[g.nodes[i]] /\ r = g.rounded[i] /\ r = AlignUp(s, u)
                 /\ at[g.nodes[i]] = x * u /\ x * u \in Nat
                 /\ s <= r /\ x * u + r <= g.limit
    BY <1>6
  <2>2. PICK y \in Nat, t \in Nat \ {0}, w \in Nat :
                 /\ y = f[k] /\ t = space.size[g.nodes[k]] /\ w = g.rounded[k] /\ w = AlignUp(t, u)
                 /\ at[g.nodes[k]] = y * u /\ y * u \in Nat
                 /\ t <= w /\ y * u + w <= g.limit
    BY <1>6
  <2>3. y * u + t <= x * u => y * u + w <= x * u
    BY <1>2, <2>1, <2>2, RoundedGap
  <2>4. x * u + s <= y * u => x * u + r <= y * u
    BY <1>2, <2>1, <2>2, RoundedGap
  <2>5. PICK a \in Nat, b \in Nat : a = x * u /\ b = y * u
    BY <2>1, <2>2
  <2>6. /\ AddressRangesOverlap(a, r, b, w) <=> ~(a + s <= b \/ b + t <= a)
        /\ AddressRangesOverlap(a, r, b, w) <=> AddressRangesOverlap(a, s, b, t)
    <3>1. /\ b + t <= a => b + w <= a
          /\ a + s <= b => a + r <= b
          /\ s <= r /\ t <= w /\ s # 0 /\ t # 0 /\ a + r <= MaxUInt /\ b + w <= MaxUInt
      <4>1. b + t <= a => b + w <= a
        BY <2>3, <2>5
      <4>2. a + s <= b => a + r <= b
        BY <2>4, <2>5
      <4>3. a + r <= g.limit /\ b + w <= g.limit
        BY <2>1, <2>2, <2>5
      <4>4. a + r <= MaxUInt /\ b + w <= MaxUInt
        BY <1>2, <4>3, MaxUIntAssumption
      <4> QED
        BY <2>1, <2>2, <4>1, <4>2, <4>4
    <3> QED
      BY <3>1, MaxUIntAssumption DEF AddressRangesOverlap, AddOverflows
  <2> QED
    BY <2>1, <2>2, <2>5, <2>6 DEF Meet, Disjoint, u
<1>9. ASSUME NEW c \in LargeNodes(q), NEW d \in LargeNodes(q), <<c, d>> \in space.hard
      PROVE  Disjoint(at, c, d)
  <2>1. PICK i \in 1..n, k \in 1..n : g.nodes[i] = c /\ g.nodes[k] = d
    BY <1>4
  <2>2. c # d /\ <<d, c>> \in space.hard
    BY <1>9, GivenTyped DEF SpaceTyped
  <2>3. i # k
    BY <2>1, <2>2
  <2>4. k < i \/ i < k
    BY <1>1, <2>3
  <2>5. CASE k < i
    <3>1. k \in Before(g, i, space.hard)
      BY <1>1, <1>9, <2>1, <2>5 DEF Before
    <3> QED
      BY <1>3, <1>8, <2>1, <3>1
  <2>6. CASE i < k
    <3>1. i \in Before(g, k, space.hard)
      BY <1>1, <2>1, <2>2, <2>6 DEF Before
    <3>2. Disjoint(at, d, c)
      BY <1>3, <1>8, <2>1, <3>1
    <3> QED
      BY <3>2 DEF Disjoint
  <2> QED
    BY <2>4, <2>5, <2>6
<1>10. ASSUME NEW off, \A c \in LargeNodes(q) : off[c] = at[c] PROVE Sharing(off, q) = Meeting(g, f)
  <2> SUFFICES ASSUME NEW e \in SoftPairs(space, q)
               PROVE  AddressRangesOverlap(off[e[1]], space.size[e[1]], off[e[2]], space.size[e[2]])
                          <=> Meet(g, RankIn(g, e[1]), f[RankIn(g, e[1])], RankIn(g, e[2]), f[RankIn(g, e[2])])
    BY <1>1 DEF Sharing, Meeting
  <2>1. e[1] \in LargeNodes(q) /\ e[2] \in LargeNodes(q)
    BY SoftEnds
  <2>2. PICK i \in 1..n, k \in 1..n :
            i = RankIn(g, e[1]) /\ k = RankIn(g, e[2]) /\ g.nodes[i] = e[1] /\ g.nodes[k] = e[2]
    <3> HIDE DEF n
    <3> QED
      BY <1>4, <2>1
  <2>3. off[e[1]] = at[e[1]] /\ off[e[2]] = at[e[2]]
    BY <1>10, <2>1
  <2> QED
    BY <1>8, <2>2, <2>3
<1> QED
  BY <1>5, <1>7, <1>9, <1>10

(***************************************************************************)
(* Placements of all pools                                                 *)
(***************************************************************************)
\* The nodes of the pool end in the address space, and those that block each other are
\* disjoint.
Apart(off, q) ==
    Separate(off, q) /\ \A c \in NodesOf(space, q) : off[c] + space.size[c] <= MaxUInt

\* What BuildBicriteriaResult asks of the pool.
Sound(off, q) ==
    Apart(off, q) /\ \A c \in NodesOf(space, q) : off[c] % space.alignment[c] = 0

\* Nodes that are disjoint share no address.
LEMMA DisjointIsClear ==
    ASSUME Given, NEW q, NEW c \in NodesOf(space, q), NEW d \in NodesOf(space, q), NEW off,
           off[c] \in Nat, off[d] \in Nat, off[c] + space.size[c] <= MaxUInt,
           off[d] + space.size[d] <= MaxUInt
    PROVE  AddressRangesOverlap(off[c], space.size[c], off[d], space.size[d]) <=> ~Disjoint(off, c, d)
<1>1. space.size[c] \in Nat \ {0} /\ space.size[d] \in Nat \ {0}
  BY SizesPositive
<1>2. PICK x \in Nat, y \in Nat, s \in Nat \ {0}, t \in Nat \ {0} :
          x = off[c] /\ y = off[d] /\ s = space.size[c] /\ t = space.size[d]
  BY <1>1
<1>3. x + s <= MaxUInt /\ y + t <= MaxUInt
  BY <1>2
<1>4. AddressRangesOverlap(x, s, y, t) <=> ~(x + s <= y \/ y + t <= x)
  BY <1>3, MaxUIntAssumption DEF AddressRangesOverlap, AddOverflows
<1> QED
  BY <1>2, <1>4 DEF Disjoint

\* Where SolutionOf has the buffers.
LEMMA Everywhere ==
    ASSUME Given, NEW off, DOMAIN off = Classes(problem)
    PROVE  LET sol == SolutionOf(problem, off)
           IN  /\ DOMAIN sol = problem.buffers
               /\ \A b \in problem.buffers :
                      /\ sol[b] = [pool |-> PoolOf(problem, ClassOf(problem, b)),
                                   offset |-> off[ClassOf(problem, b)]]
                      /\ b \in ClassOf(problem, b) /\ ClassOf(problem, b) \in Classes(problem)
               /\ \A c \in Classes(problem) : sol[Min(c)].offset = off[c] /\ Min(c) \in problem.buffers
<1>1. Fixed(problem) /\ KnownColocations(problem)
  BY GivenTyped, FixedKnown DEF Known
<1>2. \A b \in problem.buffers : b \in ClassOf(problem, b) /\ ClassOf(problem, b) \in Classes(problem)
  BY ClassMembers DEF Classes
<1>3. \A c \in Classes(problem) : /\ c \subseteq problem.buffers
                                  /\ Min(c) \in problem.buffers /\ ClassOf(problem, Min(c)) = c
  BY <1>1, NodesTyped
<1>4. UNION Classes(problem) = problem.buffers
  BY <1>2, <1>3
<1> QED
  BY <1>2, <1>3, <1>4 DEF SolutionOf

\* Every class is a node of its pool, and every node of a pool is a class.
LEMMA PoolsOfClasses ==
    ASSUME Given
    PROVE  /\ IsFiniteSet(problem.pools)
           /\ \A c \in Classes(problem) : /\ space.pool[c] = PoolOf(problem, c) /\ space.pool[c] \in problem.pools
                                          /\ c \in NodesOf(space, space.pool[c])
                                          /\ space.size[c] = ClassSize(problem, c)
           /\ \A q : \A c \in NodesOf(space, q) : c \in Classes(problem) /\ space.pool[c] = q
<1>1. SpaceTyped(problem, space) /\ Fixed(problem)
  BY GivenTyped
<1> QED
  BY <1>1 DEF SpaceTyped, Fixed, ObjectiveTyped, NodesOf

\* Every pair of neighbours that shares addresses.
AllSharing(off) == UNION {Sharing(off, q) : q \in problem.pools}

\* The penalties that a placement pays are those of the neighbours that share addresses:
\* classes that block each other do not.
LEMMA ActiveOfSharing ==
    ASSUME Given, NEW off, DOMAIN off = Classes(problem), \A q \in problem.pools : Apart(off, q)
    PROVE  ActivePenalties(problem, SolutionOf(problem, off)) =
               UNION {PenaltiesBetween(problem, edge[1], edge[2]) : edge \in AllSharing(off)}
<1> DEFINE sol == SolutionOf(problem, off)
           C == Classes(problem)
           Touch(c, d) == AddressRangesOverlap(off[c], ClassSize(problem, c), off[d], ClassSize(problem, d))
<1>1. /\ Fixed(problem) /\ SpaceTyped(problem, space) /\ DOMAIN space.soft = SoftEdges(problem)
  BY GivenTyped, SpaceWeighs
<1>2. /\ DOMAIN sol = problem.buffers
      /\ \A b \in problem.buffers :
             /\ sol[b].pool = PoolOf(problem, ClassOf(problem, b)) /\ sol[b].offset = off[ClassOf(problem, b)]
             /\ b \in ClassOf(problem, b) /\ ClassOf(problem, b) \in C
  <2>1. /\ DOMAIN sol = problem.buffers
        /\ \A b \in problem.buffers :
               /\ sol[b] = [pool |-> PoolOf(problem, ClassOf(problem, b)),
                            offset |-> off[ClassOf(problem, b)]]
               /\ b \in ClassOf(problem, b) /\ ClassOf(problem, b) \in C
    BY Everywhere
  <2> HIDE DEF sol, C
  <2>2. ASSUME NEW b \in problem.buffers
        PROVE  /\ sol[b].pool = PoolOf(problem, ClassOf(problem, b)) /\ sol[b].offset = off[ClassOf(problem, b)]
               /\ b \in ClassOf(problem, b) /\ ClassOf(problem, b) \in C
    <3>1. sol[b] = [pool |-> PoolOf(problem, ClassOf(problem, b)), offset |-> off[ClassOf(problem, b)]]
      BY <2>1
    <3>2. sol[b].pool = PoolOf(problem, ClassOf(problem, b)) /\ sol[b].offset = off[ClassOf(problem, b)]
      BY <3>1
    <3> QED
      BY <2>1, <3>2
  <2> QED
    BY <2>1, <2>2
<1> HIDE DEF sol
<1>3. \A c \in C : /\ space.size[c] = ClassSize(problem, c) /\ Min(c) \in Nat
                   /\ \A d \in C : Min(c) = Min(d) => c = d
  BY <1>1, PoolsOfClasses, NodesTyped, NodesNamed
<1>4. \A c, d \in C : Touch(c, d) => Touch(d, c)
  BY OverlapSymmetric
<1>5. \A e : e \in AllSharing(off) <=>
               /\ e \in DOMAIN space.soft /\ Min(e[1]) < Min(e[2])
               /\ e[1] \in C /\ e[2] \in C /\ Touch(e[1], e[2])
  <2> TAKE e
  <2>1. ASSUME e \in DOMAIN space.soft
        PROVE  e[1] \in C /\ e[2] \in C /\ space.pool[e[1]] \in problem.pools
    <3>1. e[1] \in C /\ e[2] \in C
      BY <1>1, <2>1 DEF SpaceTyped
    <3> QED
      BY <3>1, PoolsOfClasses
  <2>2. ASSUME e[1] \in C, e[2] \in C
        PROVE  AddressRangesOverlap(off[e[1]], space.size[e[1]], off[e[2]], space.size[e[2]]) <=> Touch(e[1], e[2])
    BY <1>3, <2>2
  <2> HIDE DEF Touch, C
  <2>3. e \in AllSharing(off) <=>
            \E q \in problem.pools :
                /\ e \in DOMAIN space.soft /\ space.pool[e[1]] = q /\ Min(e[1]) < Min(e[2])
                /\ AddressRangesOverlap(off[e[1]], space.size[e[1]], off[e[2]], space.size[e[2]])
    BY DEF AllSharing, Sharing, SoftPairs
  <2> QED
    BY <2>1, <2>2, <2>3
<1>6. ASSUME NEW c \in C, NEW d \in C, c # d, Touch(c, d), PoolOf(problem, c) = PoolOf(problem, d)
      PROVE  ~Blocks(problem, c, d)
  <2>1. PICK q \in problem.pools : c \in NodesOf(space, q) /\ d \in NodesOf(space, q)
    BY <1>6, PoolsOfClasses
  <2>2. /\ off[c] \in Nat /\ off[d] \in Nat /\ off[c] + space.size[c] <= MaxUInt
        /\ off[d] + space.size[d] <= MaxUInt
        /\ <<c, d>> \in space.hard => Disjoint(off, c, d)
    BY <2>1 DEF Apart, Separate
  <2>3. ~Disjoint(off, c, d)
    BY <1>3, <1>6, <2>1, <2>2, DisjointIsClear
  <2>4. <<c, d>> \notin space.hard
    BY <2>2, <2>3
  <2> QED
    BY <1>1, <1>6, <2>4 DEF SpaceTyped
<1> HIDE DEF C, Touch
<1>7. \A a, b \in problem.buffers :
          ExtentsOverlap(problem, sol, a, b) <=>
              /\ PoolOf(problem, ClassOf(problem, a)) = PoolOf(problem, ClassOf(problem, b))
              /\ Touch(ClassOf(problem, a), ClassOf(problem, b))
  BY <1>2 DEF ExtentsOverlap, Touch
<1>8. ASSUME NEW i \in ActivePenalties(problem, sol)
      PROVE  \E edge \in AllSharing(off) : i \in PenaltiesBetween(problem, edge[1], edge[2])
  <2> DEFINE a == problem.penalties[i].first
             b == problem.penalties[i].second
             c == ClassOf(problem, a)
             d == ClassOf(problem, b)
  <2>1. /\ i \in DOMAIN problem.penalties /\ a \in problem.buffers /\ b \in problem.buffers /\ c # d
        /\ ExtentsOverlap(problem, sol, a, b)
    BY <1>2 DEF ActivePenalties, PenaltyActive
  <2>2. c \in C /\ d \in C /\ Touch(c, d) /\ Touch(d, c) /\ PoolOf(problem, c) = PoolOf(problem, d)
    BY <1>2, <1>4, <1>7, <2>1
  <2>3. i \in PenaltiesBetween(problem, c, d) /\ i \in PenaltiesBetween(problem, d, c)
    BY <2>1 DEF PenaltiesBetween
  <2> HIDE DEF a, b, c, d
  <2>4. ~Blocks(problem, c, d) /\ ~Blocks(problem, d, c)
    BY <1>6, <2>1, <2>2
  <2>5. <<c, d>> \in DOMAIN space.soft /\ <<d, c>> \in DOMAIN space.soft
    BY <1>1, <2>1, <2>2, <2>3, <2>4 DEF SoftEdges, C
  <2>6. CASE Min(c) < Min(d)
    <3>1. <<c, d>> \in AllSharing(off)
      BY <1>5, <2>2, <2>5, <2>6
    <3> QED
      BY <2>3, <3>1
  <2>7. CASE Min(d) < Min(c)
    <3>1. <<d, c>> \in AllSharing(off)
      BY <1>5, <2>2, <2>5, <2>7
    <3> QED
      BY <2>3, <3>1
  <2>8. Min(c) < Min(d) \/ Min(d) < Min(c)
    BY <1>3, <2>1, <2>2
  <2> QED
    BY <2>6, <2>7, <2>8
<1>9. ASSUME NEW edge \in AllSharing(off), NEW i \in PenaltiesBetween(problem, edge[1], edge[2])
      PROVE  i \in ActivePenalties(problem, sol)
  <2> DEFINE a == problem.penalties[i].first
             b == problem.penalties[i].second
  <2>1. PICK c \in C, d \in C : c = edge[1] /\ d = edge[2] /\ edge \in DOMAIN space.soft /\ Touch(c, d)
    BY <1>5
  <2>2. c # d /\ ~Blocks(problem, c, d) /\ PoolOf(problem, c) = PoolOf(problem, d)
    BY <1>1, <2>1 DEF SoftEdges
  <2>3. /\ i \in DOMAIN problem.penalties
        /\ {ClassOf(problem, a), ClassOf(problem, b)} = {c, d}
    BY <2>1 DEF PenaltiesBetween
  <2>4. a \in problem.buffers /\ b \in problem.buffers
    BY <1>1, <2>3, FixedKnown DEF ValidProblem, KnownPair
  <2>5. ClassOf(problem, a) # ClassOf(problem, b)
    BY <2>2, <2>3
  <2>6. \/ ClassOf(problem, a) = c /\ ClassOf(problem, b) = d
        \/ ClassOf(problem, a) = d /\ ClassOf(problem, b) = c
    BY <2>3
  <2>7. ExtentsOverlap(problem, sol, a, b)
    BY <1>4, <1>7, <2>1, <2>2, <2>4, <2>6
  <2>8. ~HaveTemporalConflict(problem, a, b)
    <3>1. a \in ClassOf(problem, a) /\ b \in ClassOf(problem, b)
      BY <1>2, <2>4
    <3>2. ASSUME HaveTemporalConflict(problem, a, b) PROVE SuperBuffersConflict(problem, c, d)
      <4>1. HaveTemporalConflict(problem, b, a)
        BY <3>2, TemporalConflictSymmetric
      <4>2. (a \in c /\ b \in d) \/ (b \in c /\ a \in d)
        BY <2>6, <3>1
      <4> QED
        BY <3>2, <4>1, <4>2 DEF SuperBuffersConflict
    <3> QED
      BY <2>2, <3>2 DEF Blocks
  <2> QED
    BY <1>2, <2>3, <2>4, <2>5, <2>7, <2>8 DEF ActivePenalties, PenaltyActive
<1> QED
  BY <1>8, <1>9 DEF ActivePenalties, sol

\* EvaluateObjective charges what the pools cost.
LEMMA CostOfPools ==
    ASSUME Given, NEW off, DOMAIN off = Classes(problem), \A q \in problem.pools : Apart(off, q)
    PROVE  ReuseCost(problem, SolutionOf(problem, off)) =
               SumOver([q \in problem.pools |-> PoolCost(off, q)], problem.pools)
<1> DEFINE J == DOMAIN problem.penalties
           E == AllSharing(off)
           K == [edge \in E |-> PenaltiesBetween(problem, edge[1], edge[2])]
           A == ActivePenalties(problem, SolutionOf(problem, off))
           P == problem.pools
           F == [q \in P |-> PoolCost(off, q)]
           L == [q \in P |-> Sharing(off, q)]
           S == DOMAIN space.soft
<1>1. /\ Fixed(problem) /\ SpaceTyped(problem, space) /\ space = SearchSpace(problem)
      /\ IsFiniteSet(P) /\ IsFiniteSet(S) /\ InWordsOver(space.soft, S)
  BY GivenTyped, PoolsOfClasses DEF SpaceTyped, SoftWords, InWordsOver
<1>2. ReuseCost(problem, SolutionOf(problem, off)) = PenaltySum(problem, A)
  BY DEF ReuseCost, PenaltySum, ActivePenalties
<1>3. PenaltySum(problem, A) = SumOver(Costs(problem), A)
  <2>1. A \in SUBSET J
    BY DEF ActivePenalties
  <2> HIDE DEF A
  <2> QED
    BY <1>1, <2>1, PenaltySumTyped DEF Fixed
<1>4. A = UNION {PenaltiesBetween(problem, edge[1], edge[2]) : edge \in E}
  BY ActiveOfSharing
<1>5. UNION {PenaltiesBetween(problem, edge[1], edge[2]) : edge \in E} = UNION {K[edge] : edge \in E}
  <2>1. \A edge \in E : K[edge] = PenaltiesBetween(problem, edge[1], edge[2])
    OBVIOUS
  <2> HIDE DEF E, K
  <2> QED
    BY <2>1
<1>6. IsFiniteSet(J) /\ InWordsOver(Costs(problem), J)
  BY <1>1 DEF Fixed, ObjectiveTyped, InWordsOver, Costs
<1>7. /\ E \subseteq S /\ IsFiniteSet(E)
      /\ \A e \in E : e = <<e[1], e[2]>> /\ e[1] \in Classes(problem) /\ e[2] \in Classes(problem)
                      /\ Min(e[1]) < Min(e[2])
  <2>1. E \subseteq S /\ \A e \in E : Min(e[1]) < Min(e[2])
    BY DEF AllSharing, Sharing, SoftPairs
  <2> HIDE DEF E
  <2> QED
    BY <1>1, <2>1, FS_Subset DEF SpaceTyped
<1>8. K \in [E -> SUBSET J]
  BY DEF PenaltiesBetween
<1>9. ASSUME NEW x \in E, NEW y \in E, x # y PROVE K[x] \cap K[y] = {}
  <2>1. PICK a \in Classes(problem), b \in Classes(problem) : x = <<a, b>> /\ Min(a) < Min(b)
    <3> HIDE DEF E
    <3> QED
      BY <1>7
  <2>2. PICK c \in Classes(problem), d \in Classes(problem) : y = <<c, d>> /\ Min(c) < Min(d)
    <3> HIDE DEF E
    <3> QED
      BY <1>7
  <2>3. Min(a) \in Nat /\ Min(b) \in Nat /\ Min(c) \in Nat /\ Min(d) \in Nat
    BY <1>1, NodesTyped
  <2>4. {a, b} # {c, d}
    BY <1>9, <2>1, <2>2, <2>3
  <2>5. K[x] = PenaltiesBetween(problem, a, b) /\ K[y] = PenaltiesBetween(problem, c, d)
    BY <2>1, <2>2
  <2> HIDE DEF K
  <2> QED
    BY <2>4, <2>5 DEF PenaltiesBetween
<1>10. \A edge \in E : space.soft[edge] = SumOver(Costs(problem), K[edge])
  <2>1. \A edge \in E : /\ K[edge] = PenaltiesBetween(problem, edge[1], edge[2])
                        /\ edge \in SoftEdges(problem)
    BY <1>1, <1>7, SpaceWeighs
  <2>2. \A edge \in SoftEdges(problem) :
            space.soft[edge] = SumOver(Costs(problem), PenaltiesBetween(problem, edge[1], edge[2]))
    BY <1>1, SpaceWeighs
  <2> HIDE DEF K, E
  <2> QED
    BY <2>1, <2>2
<1>11. E = UNION {L[q] : q \in P}
  <2>1. \A q \in P : L[q] = Sharing(off, q)
    OBVIOUS
  <2> HIDE DEF L
  <2> QED
    BY <2>1 DEF AllSharing
<1>12. /\ L \in [P -> SUBSET S] /\ \A q \in P : F[q] = SumOver(space.soft, L[q])
       /\ \A q, r \in P : q # r => L[q] \cap L[r] = {}
  BY DEF Sharing, SoftPairs, PoolCost
<1> HIDE DEF J, E, K, A, F, L, P, S
<1>13. SumOver(space.soft, E) = SumOver(Costs(problem), UNION {K[edge] : edge \in E})
  BY <1>6, <1>7, <1>8, <1>9, <1>10, SumByGroups
<1>14. SumOver(F, P) = SumOver(space.soft, E)
  BY <1>1, <1>11, <1>12, SumByGroups
<1> QED
  BY <1>2, <1>3, <1>4, <1>5, <1>13, <1>14 DEF F, P

(***************************************************************************)
(* Placements that the validator passes                                    *)
(***************************************************************************)
\* What the validator passes keeps the nodes that block each other apart.
LEMMA LegalIsApart ==
    ASSUME Given, NEW off, DOMAIN off = Classes(problem), \A c \in Classes(problem) : off[c] \in Nat,
           LegalSolution(problem, SolutionOf(problem, off)), NEW q
    PROVE  Apart(off, q)
<1> DEFINE sol == SolutionOf(problem, off)
<1>1. Fixed(problem) /\ SpaceTyped(problem, space) /\ ProblemTyped(problem)
  BY GivenTyped DEF Fixed
<1>2. \A c \in Classes(problem) : sol[Min(c)].offset = off[c] /\ Min(c) \in problem.buffers
  BY Everywhere
<1>3. LegalSolution(problem, sol)
  OBVIOUS
<1> HIDE DEF sol
<1>4. ASSUME NEW c \in NodesOf(space, q)
      PROVE  /\ c \in Classes(problem) /\ space.size[c] = ClassSize(problem, c)
             /\ off[c] \in Nat /\ off[c] + space.size[c] <= MaxUInt
  <2>1. c \in Classes(problem) /\ space.size[c] = ClassSize(problem, c)
    BY PoolsOfClasses
  <2>2. c \in SUBSET problem.buffers /\ c # {}
    BY <1>1, <2>1, NodesTyped
  <2>3. PICK b \in c : ClassSize(problem, c) = problem.size[b]
    BY <1>1, <2>2, ClassSizeLargest
  <2>4. b \in problem.buffers /\ sol[b] = sol[Min(c)]
    BY <1>1, <1>3, <2>1, LegalSeed
  <2>5. sol[b].offset = off[c] /\ ~AddOverflows(sol[b].offset, problem.size[b])
    BY <1>2, <1>3, <2>1, <2>4 DEF LegalSolution, LegalPlace
  <2>6. off[c] \in Nat /\ problem.size[b] \in 0..MaxUInt
    BY <1>1, <2>1, <2>4 DEF ProblemTyped
  <2>7. ~(off[c] + space.size[c] > MaxUInt)
    BY <2>1, <2>3, <2>5 DEF AddOverflows
  <2>8. off[c] + space.size[c] \in Nat /\ MaxUInt \in Nat
    BY <2>1, <2>3, <2>6, MaxUIntAssumption
  <2> QED
    BY <2>1, <2>6, <2>7, <2>8
<1>5. ASSUME NEW c \in NodesOf(space, q), NEW d \in NodesOf(space, q), <<c, d>> \in space.hard
      PROVE  Disjoint(off, c, d)
  <2>1. /\ c \in Classes(problem) /\ space.size[c] = ClassSize(problem, c)
        /\ d \in Classes(problem) /\ space.size[d] = ClassSize(problem, d)
        /\ off[c] \in Nat /\ off[d] \in Nat
        /\ off[c] + space.size[c] <= MaxUInt /\ off[d] + space.size[d] <= MaxUInt
    BY <1>4
  <2>2. c # d /\ Blocks(problem, c, d)
    BY <1>1, <1>5, <2>1 DEF SpaceTyped
  <2>3. ~AddressRangesOverlap(sol[Min(c)].offset, ClassSize(problem, c),
                              sol[Min(d)].offset, ClassSize(problem, d))
    BY <1>1, <1>3, <2>1, <2>2, LegalApart
  <2>4. ~AddressRangesOverlap(off[c], space.size[c], off[d], space.size[d])
    BY <1>2, <2>1, <2>3
  <2> QED
    BY <2>1, <2>4, DisjointIsClear
<1> QED
  BY <1>4, <1>5 DEF Apart, Separate

\* Bands that are sound in every pool are a placement that the validator passes.
LEMMA SoundIsLegal ==
    ASSUME Given, NEW off, DOMAIN off = Classes(problem), \A q \in problem.pools : Sound(off, q)
    PROVE  LegalSolution(problem, SolutionOf(problem, off))
<1> DEFINE sol == SolutionOf(problem, off)
<1>1. /\ Fixed(problem) /\ SpaceTyped(problem, space) /\ ProblemTyped(problem) /\ space = SearchSpace(problem)
      /\ ValidProblem(problem) /\ KnownColocations(problem) /\ PrepareAccepts(problem)
  BY GivenTyped, FixedKnown DEF Fixed, Known
<1>2. problem.pins = {} /\ \A q \in problem.pools : problem.reserved[q] = {}
  BY DEF Given, Refusal, Compatible
<1>3. /\ DOMAIN sol = problem.buffers
      /\ \A b \in problem.buffers :
             /\ sol[b] = [pool |-> PoolOf(problem, ClassOf(problem, b)),
                          offset |-> off[ClassOf(problem, b)]]
             /\ b \in ClassOf(problem, b) /\ ClassOf(problem, b) \in Classes(problem)
  BY Everywhere
<1> HIDE DEF sol
<1>4. ASSUME NEW b \in problem.buffers
      PROVE  /\ sol[b].pool = PoolOf(problem, ClassOf(problem, b))
             /\ sol[b].offset = off[ClassOf(problem, b)]
             /\ b \in ClassOf(problem, b) /\ ClassOf(problem, b) \in Classes(problem)
  <2>1. sol[b] = [pool |-> PoolOf(problem, ClassOf(problem, b)), offset |-> off[ClassOf(problem, b)]]
    BY <1>3
  <2> QED
    BY <1>3, <2>1
<1>5. ASSUME NEW c \in Classes(problem)
      PROVE  \E q \in problem.pools :
                 /\ q = PoolOf(problem, c) /\ c \in NodesOf(space, q)
                 /\ space.size[c] = ClassSize(problem, c) /\ space.size[c] \in 0..MaxUInt
                 /\ off[c] \in Nat /\ off[c] + space.size[c] <= MaxUInt
                 /\ off[c] % space.alignment[c] = 0
                 /\ \A d \in NodesOf(space, q) : <<c, d>> \in space.hard => Disjoint(off, c, d)
  <2>1. PICK q \in problem.pools : /\ q = PoolOf(problem, c) /\ c \in NodesOf(space, q)
                                   /\ space.size[c] = ClassSize(problem, c)
    BY <1>5, PoolsOfClasses
  <2>2. space.size[c] \in 0..MaxUInt
    BY <1>1, <1>5 DEF SpaceTyped
  <2>3. Sound(off, q)
    BY <2>1
  <2> QED
    BY <2>1, <2>2, <2>3 DEF Sound, Apart, Separate
<1>6. ASSUME NEW b \in problem.buffers PROVE LegalPlace(problem, sol, b)
  <2> DEFINE c == ClassOf(problem, b)
  <2>1. /\ sol[b].pool = PoolOf(problem, c) /\ sol[b].offset = off[c]
        /\ b \in c /\ c \in Classes(problem)
    BY <1>4
  <2> HIDE DEF c
  <2>2. PICK q \in problem.pools :
            /\ q = PoolOf(problem, c) /\ off[c] \in Nat
            /\ space.size[c] = ClassSize(problem, c) /\ space.size[c] \in 0..MaxUInt
            /\ off[c] + space.size[c] <= MaxUInt /\ off[c] % space.alignment[c] = 0
    BY <1>5, <2>1
  <2>3. c \in SUBSET problem.buffers /\ c # {} /\ PoolOf(problem, c) \in ClassPools(problem, c)
    BY <1>1, <2>1, NodesTyped
  <2>4. sol[b].pool \in problem.allowed[b] /\ problem.reserved[sol[b].pool] = {}
    BY <1>2, <2>1, <2>2, <2>3 DEF ClassPools
  <2>5. Aligned(sol[b].offset, problem.alignment[b])
    <3>1. \A x \in c : problem.alignment[x] # 0
      BY <1>1, <2>3 DEF ValidProblem, ValidBuffer
    <3>2. ClassAlignment(problem, c) \in Nat \ {0} /\ ClassAlignment(problem, c) % problem.alignment[b] = 0
      BY <1>1, <2>1, <2>3, <3>1, ClassAlignmentDivides
    <3>3. space.alignment[c] = ClassAlignment(problem, c)
      BY <1>1, <2>1, SpaceWeighs
    <3>4. problem.alignment[b] \in Nat \ {0}
      BY <1>1, <2>1, <2>3, <3>1 DEF ProblemTyped
    <3>5. off[c] % problem.alignment[b] = 0
      BY <2>2, <3>2, <3>3, <3>4, Divides
    <3> QED
      BY <2>1, <3>5 DEF Aligned
  <2>6. ~AddOverflows(sol[b].offset, problem.size[b])
    <3>1. problem.size[b] <= ClassSize(problem, c) /\ problem.size[b] \in 0..MaxUInt
      BY <1>1, <2>1, <2>3, ClassSizeLargest DEF ProblemTyped
    <3>2. PICK x \in Nat, s \in Nat, t \in Nat :
              x = off[c] /\ s = problem.size[b] /\ t = space.size[c] /\ s <= t /\ x + t <= MaxUInt
      BY <2>2, <3>1
    <3>3. ~(x + s > MaxUInt)
      BY <3>2, MaxUIntAssumption
    <3> QED
      BY <2>1, <3>2, <3>3 DEF AddOverflows
  <2> QED
    BY <2>4, <2>5, <2>6 DEF LegalPlace, OverlapsReserved
<1>7. ASSUME NEW pair \in problem.colocations PROVE sol[pair[1]] = sol[pair[2]]
  <2>1. pair[1] \in problem.buffers /\ pair[2] \in problem.buffers
    BY <1>1 DEF KnownColocations, KnownPair
  <2>2. pair[2] \in ClassOf(problem, pair[1])
    BY <1>1, <1>3, <2>1, ClassClosed DEF ClosedUnderColocation
  <2>3. ClassOf(problem, pair[2]) = ClassOf(problem, pair[1])
    BY <1>1, <2>1, <2>2, ClassOfMember
  <2> QED
    BY <1>3, <2>1, <2>3
<1>8. ASSUME NEW a \in problem.buffers, NEW b \in problem.buffers,
             ClassOf(problem, a) # ClassOf(problem, b),
             \/ HaveTemporalConflict(problem, a, b)
             \/ Separated(problem, ClassOf(problem, a), ClassOf(problem, b))
      PROVE  ~ExtentsOverlap(problem, sol, a, b)
  <2> SUFFICES ASSUME sol[a].pool = sol[b].pool
               PROVE  ~AddressRangesOverlap(sol[a].offset, ClassSize(problem, ClassOf(problem, a)),
                                            sol[b].offset, ClassSize(problem, ClassOf(problem, b)))
    BY DEF ExtentsOverlap
  <2> DEFINE c == ClassOf(problem, a)
             d == ClassOf(problem, b)
  <2>1. /\ sol[a].pool = PoolOf(problem, c) /\ sol[a].offset = off[c] /\ a \in c /\ c \in Classes(problem)
        /\ sol[b].pool = PoolOf(problem, d) /\ sol[b].offset = off[d] /\ b \in d /\ d \in Classes(problem)
        /\ c # d /\ (HaveTemporalConflict(problem, a, b) \/ Separated(problem, c, d))
    BY <1>4, <1>8
  <2> HIDE DEF c, d
  <2>2. Blocks(problem, c, d)
    BY <2>1 DEF Blocks, SuperBuffersConflict
  <2>3. <<c, d>> \in space.hard
    BY <1>1, <2>1, <2>2 DEF SpaceTyped
  <2>4. PICK q \in problem.pools :
            /\ q = PoolOf(problem, c) /\ c \in NodesOf(space, q) /\ space.size[c] = ClassSize(problem, c)
            /\ off[c] \in Nat /\ off[c] + space.size[c] <= MaxUInt
            /\ \A x \in NodesOf(space, q) : <<c, x>> \in space.hard => Disjoint(off, c, x)
    BY <1>5, <2>1
  <2>5. /\ d \in NodesOf(space, q) /\ space.size[d] = ClassSize(problem, d)
        /\ off[d] \in Nat /\ off[d] + space.size[d] <= MaxUInt
    BY <1>5, <2>1, <2>4
  <2>6. Disjoint(off, c, d)
    BY <2>3, <2>4, <2>5
  <2>7. ~AddressRangesOverlap(off[c], space.size[c], off[d], space.size[d])
    BY <2>4, <2>5, <2>6, DisjointIsClear
  <2> QED
    BY <2>1, <2>4, <2>5, <2>7 DEF c, d
<1>9. \A a, b \in problem.buffers :
          ClassOf(problem, a) # ClassOf(problem, b) /\ MustNotReuse(problem, a, b)
              => ~ExtentsOverlap(problem, sol, a, b)
  BY <1>2, <1>8 DEF MustNotReuse, ExclusivelyPinned
<1>10. ASSUME NEW pair \in problem.separations PROVE ~ExtentsOverlap(problem, sol, pair[1], pair[2])
  <2>1. /\ pair[1] \in problem.buffers /\ pair[2] \in problem.buffers
        /\ ClassOf(problem, pair[1]) # ClassOf(problem, pair[2])
    BY <1>1 DEF ValidProblem, PrepareAccepts, KnownPair
  <2>2. Separated(problem, ClassOf(problem, pair[1]), ClassOf(problem, pair[2]))
    BY <1>3, <2>1 DEF Separated
  <2> QED
    BY <1>8, <2>1, <2>2
<1> QED
  BY <1>2, <1>3, <1>6, <1>7, <1>9, <1>10 DEF LegalSolution, sol

\* The validator without capacities accepts the problem as well.
LEMMA ValidUncapped ==
    ASSUME NEW p, ProblemTyped(p), ValidProblem(p)
    PROVE  ValidProblem(WithoutCapacities(p))
<1> DEFINE w == WithoutCapacities(p)
<1>1. w.pools = p.pools /\ w.penalties = p.penalties /\ w.capacity = <<>> /\ w.terms = p.terms
  BY DEF WithoutCapacities, ProblemTyped
<1>2. /\ w.buffers = p.buffers /\ w.allowed = p.allowed /\ w.alignment = p.alignment
      /\ w.size = p.size /\ w.reserved = p.reserved /\ w.colocations = p.colocations
      /\ w.separations = p.separations /\ w.exclusions = p.exclusions
      /\ w.pins = p.pins /\ w.live = p.live
  BY CapacitiesOnly
<1>3. DOMAIN w.capacity = {}
  BY <1>1
<1> HIDE DEF w
<1>4. /\ \A q \in p.pools : ValidPool(w, q)
      /\ \A b \in p.buffers : ValidBuffer(w, b)
      /\ \A pair : KnownPair(w, pair) <=> KnownPair(p, pair)
      /\ \A pin \in p.pins : ValidPin(w, pin)
  BY <1>1, <1>2, <1>3 DEF ValidProblem, ValidPool, ValidBuffer, KnownPair, ValidPin, OverlapsReserved
<1> QED
  BY <1>1, <1>2, <1>4 DEF ValidProblem, ValidObjective, w

\* The offsets of a placement.
OffsetsIn(sol) == [c \in Classes(problem) |-> sol[Min(c)].offset]

\* What the reference placements come to: they fit the capacities, and what they pay is
\* the sum over the pools.
LEMMA OthersFit ==
    ASSUME Given, NEW other \in PlacementsOf(problem)
    PROVE  LET off == OffsetsIn(other)
           IN  /\ DOMAIN off = Classes(problem)
               /\ \A q \in problem.pools :
                      /\ Apart(off, q)
                      /\ q \in DOMAIN problem.capacity =>
                             \A c \in NodesOf(space, q) : off[c] + space.size[c] <= problem.capacity[q]
               /\ ReuseCost(problem, other) =
                      SumOver([q \in problem.pools |-> PoolCost(off, q)], problem.pools)
<1>1. /\ Fixed(problem) /\ ProblemTyped(problem) /\ ObjectiveTyped(problem) /\ ValidProblem(problem)
      /\ SpaceTyped(problem, space)
  BY GivenTyped, FixedKnown DEF Fixed
<1>2. LastAddress(problem) \in Nat
  <2> DEFINE caps == {problem.capacity[q] : q \in problem.pools}
  <2>1. CASE problem.pools \subseteq DOMAIN problem.capacity
    <3>1. caps \in SUBSET (0..MaxUInt) /\ caps # {} /\ LastAddress(problem) = Max(caps)
      BY <1>1, <2>1 DEF LastAddress, ProblemTyped, ValidProblem
    <3> HIDE DEF caps
    <3>2. Max(caps) \in caps
      BY <3>1, MaxNatural, MaxUIntAssumption
    <3>3. Max(caps) \in 0..MaxUInt
      BY <3>1, <3>2
    <3> QED
      BY <3>1, <3>3
  <2>2. CASE ~(problem.pools \subseteq DOMAIN problem.capacity)
    BY <2>2, MaxUIntAssumption DEF LastAddress
  <2> QED
    BY <2>1, <2>2
<1>3. PICK off \in [Classes(problem) -> 0..LastAddress(problem)] :
          other = SolutionOf(problem, off) /\ ValidSolution(problem, other)
  BY DEF PlacementsOf
<1>4. DOMAIN off = Classes(problem) /\ \A c \in Classes(problem) : off[c] \in Nat
  BY <1>2
<1>5. \A c \in Classes(problem) : other[Min(c)].offset = off[c]
  BY <1>3, <1>4, Everywhere
<1>6. OffsetsIn(other) = off
  BY <1>3, <1>5 DEF OffsetsIn
<1>7. LegalSolution(problem, SolutionOf(problem, off))
  BY <1>3, ValidIsLegal
<1>8. \A q : Apart(off, q)
  BY <1>4, <1>7, LegalIsApart
<1>9. ASSUME NEW q \in problem.pools, q \in DOMAIN problem.capacity, NEW c \in NodesOf(space, q)
      PROVE  off[c] + space.size[c] <= problem.capacity[q]
  <2>1. c \in Classes(problem) /\ space.size[c] = ClassSize(problem, c) /\ space.pool[c] = q
        /\ q = PoolOf(problem, c)
    BY <1>9, PoolsOfClasses
  <2>2. c \in SUBSET problem.buffers /\ c # {}
    BY <1>1, <2>1, NodesTyped
  <2>3. PICK b \in c : ClassSize(problem, c) = problem.size[b]
    BY <1>1, <2>2, ClassSizeLargest
  <2>4. b \in problem.buffers /\ other[b] = other[Min(c)] /\ other[b].pool = q
    BY <1>1, <1>3, <2>1, SeedOfNode
  <2>5. other[b].offset = off[c] /\ WellPlaced(problem, other, b)
    BY <1>3, <1>5, <2>1, <2>4 DEF ValidSolution
  <2> QED
    BY <1>9, <2>1, <2>3, <2>4, <2>5 DEF WellPlaced
<1>10. ReuseCost(problem, other) = SumOver([q \in problem.pools |-> PoolCost(off, q)], problem.pools)
  BY <1>3, <1>4, <1>8, CostOfPools
<1> QED
  BY <1>4, <1>6, <1>8, <1>9, <1>10

(***************************************************************************)
(* Pools that are done                                                     *)
(***************************************************************************)
\* What the loop leaves in a pool: its nodes pay no more than in any placement that fits
\* the capacity, the large ones stay in the band, and what a validator would refuse is
\* the fault of a pool without soft edges that a node is larger than, or whose capacity in
\* whole quanta is no word.
PoolDone(off, q) ==
    /\ q \in DOMAIN problem.capacity /\ NodesOf(space, q) \subseteq DOMAIN off
    /\ (SoftPairs(space, q) = {} =>
            /\ AlignUp(problem.capacity[q], PoolAlignment(q)) <= MaxUInt
            /\ \A c \in NodesOf(space, q) : space.size[c] <= problem.capacity[q])
           => Sound(off, q)
    /\ SoftPairs(space, q) # {} =>
           \A c \in LargeNodes(q) : off[c] + space.size[c] <= problem.capacity[q] + Augmentation(q)
    /\ \A other \in PlacementsOf(problem) : PoolCost(off, q) <= PoolCost(OffsetsIn(other), q)

\* The pools of the loop so far.
Completed(off, left, cost) ==
    /\ DOMAIN off \subseteq Classes(problem)
    /\ cost = SumOver([q \in problem.pools |-> PoolCost(off, q)], problem.pools \ left)
    /\ \A q \in problem.pools \ left : PoolDone(off, q)

PoolsDone == Refusal = "none" => Completed(offsets, poolsLeft, roundedCost)

\* A pool is done where its nodes are.
LEMMA DoneWhere ==
    ASSUME Given, NEW q, NEW off, NEW also, NodesOf(space, q) \subseteq DOMAIN also,
           \A c \in NodesOf(space, q) : also[c] = off[c]
    PROVE  /\ PoolCost(also, q) = PoolCost(off, q)
           /\ PoolDone(off, q) => PoolDone(also, q)
<1>1. ASSUME NEW e \in SoftPairs(space, q) PROVE also[e[1]] = off[e[1]] /\ also[e[2]] = off[e[2]]
  <2>1. e[1] \in NodesOf(space, q) /\ e[2] \in NodesOf(space, q)
    BY SoftEnds DEF LargeNodes
  <2> QED
    BY <2>1
<1>2. Sharing(also, q) = Sharing(off, q)
  BY <1>1 DEF Sharing
<1>3. PoolCost(also, q) = PoolCost(off, q)
  BY <1>2 DEF PoolCost
<1>4. Sound(also, q) <=> Sound(off, q)
  BY DEF Sound, Apart, Separate, Disjoint
<1>5. \A c \in LargeNodes(q) : also[c] = off[c]
  BY DEF LargeNodes
<1> QED
  BY <1>3, <1>4, <1>5 DEF PoolDone

\* Offsets that a pool is aligned to are aligned for its nodes.
LEMMA PoolAligns ==
    ASSUME Given, NEW q, NEW c \in NodesOf(space, q), NEW v \in Nat, v % PoolAlignment(q) = 0
    PROVE  v % space.alignment[c] = 0
<1> DEFINE S == {space.alignment[d] : d \in NodesOf(space, q)}
           f == [d \in NodesOf(space, q) |-> space.alignment[d]]
<1>1. /\ \A d \in NodesOf(space, q) : space.alignment[d] \in Nat \ {0}
      /\ IsFiniteSet(NodesOf(space, q)) /\ PoolAlignment(q) \in Nat \ {0}
  BY NodesAre
<1>2. S \in SUBSET (Nat \ {0}) /\ space.alignment[c] \in S
  BY <1>1
<1>3. f \in Surjection(NodesOf(space, q), S)
  BY DEF Surjection
<1>4. PoolAlignment(q) = FoldSet(LeastCommonMultiple, 1, S)
  BY DEF PoolAlignment
<1> HIDE DEF S, f
<1>5. IsFiniteSet(S)
  BY <1>1, <1>3, FS_Surjection
<1>6. PoolAlignment(q) % space.alignment[c] = 0
  <2>1. \A a \in S : FoldSet(LeastCommonMultiple, 1, S) % a = 0
    BY <1>2, <1>5, FoldDivides
  <2> QED
    BY <1>2, <1>4, <2>1
<1> QED
  BY <1>1, <1>6, Divides

\* A pool without soft edges costs nothing, and its band is sound when the sizes fit.
LEMMA SoftFreeDone ==
    ASSUME Given, NEW q \in problem.pools, PoolRefusal(q) = "none", SoftPairs(space, q) = {},
           NEW band \in SmallBand(NodesOf(space, q), problem.capacity[q], PoolAlignment(q), 0)
    PROVE  /\ band \in [NodesOf(space, q) -> 0..MaxUInt] /\ PoolCost(band, q) = 0 /\ PoolDone(band, q)
<1> DEFINE nodes == NodesOf(space, q)
           capacity == problem.capacity[q]
           alignment == PoolAlignment(q)
<1>1. /\ nodes \in SUBSET Classes(problem) /\ alignment \in Nat \ {0}
      /\ \A c \in nodes : space.size[c] \in Nat
  BY NodesAre
<1>2. q \in DOMAIN problem.capacity /\ \A c \in nodes : space.size[c] % alignment = 0
  BY DEF PoolRefusal
<1>3. capacity \in Nat
  BY <1>2, GivenTyped DEF Fixed, ProblemTyped
<1>4. band \in SmallBand(nodes, capacity, alignment, 0)
  OBVIOUS
<1> HIDE DEF nodes, capacity, alignment
<1>5. /\ band \in [nodes -> 0..MaxUInt]
      /\ \A c \in nodes : 0 <= band[c] /\ band[c] % alignment = 0
      /\ /\ AlignUp(capacity, alignment) <= MaxUInt
         /\ \A c \in nodes : space.size[c] % alignment = 0 /\ space.size[c] <= capacity
         => \A c \in nodes :
                 /\ band[c] + space.size[c] <= MaxUInt
                 /\ \A d \in nodes : <<c, d>> \in space.hard => Disjoint(band, c, d)
  <2>1. 0 \in Nat
    OBVIOUS
  <2> QED
    BY <1>1, <1>3, <1>4, <2>1, SmallBandStands, Zenon
<1>6. ASSUME NEW off PROVE PoolCost(off, q) \in 0..MaxUInt
  <2>1. Sharing(off, q) \in SUBSET SoftPairs(space, q)
    BY DEF Sharing
  <2> QED
    BY <2>1, SoftPairsWeigh DEF PoolCost
<1>7. PoolCost(band, q) = 0
  <2>1. Sharing(band, q) = {}
    BY DEF Sharing
  <2>2. IsFiniteSet({}) /\ InWordsOver(space.soft, {})
    BY FS_EmptySet DEF InWordsOver
  <2>3. SumOver(space.soft, {}) = 0
    BY <2>2, SumUnfolds
  <2> QED
    BY <2>1, <2>3 DEF PoolCost
<1>8. ASSUME AlignUp(capacity, alignment) <= MaxUInt, \A c \in nodes : space.size[c] <= capacity
      PROVE  Sound(band, q)
  <2>1. ASSUME NEW c \in nodes
        PROVE  /\ band[c] \in Nat /\ band[c] + space.size[c] <= MaxUInt
               /\ \A d \in nodes : <<c, d>> \in space.hard => Disjoint(band, c, d)
    BY <1>2, <1>5, <1>8, MaxUIntAssumption
  <2>2. \A c \in nodes : band[c] % space.alignment[c] = 0
    BY <1>5, <2>1, PoolAligns DEF nodes, alignment
  <2> QED
    BY <2>1, <2>2 DEF Sound, Apart, Separate, nodes
<1>9. \A other : 0 <= PoolCost(OffsetsIn(other), q)
  BY <1>6
<1>10. nodes \subseteq DOMAIN band
  BY <1>5
<1>11. PoolDone(band, q)
  BY <1>2, <1>7, <1>8, <1>9, <1>10 DEF PoolDone, nodes, capacity, alignment
<1> QED
  BY <1>5, <1>7, <1>11 DEF nodes

\* The threshold of a pool with soft edges is the size of one of its nodes.
LEMMA ThresholdIsSize ==
    ASSUME Given, NEW q, SoftPairs(space, q) # {}
    PROVE  \E c \in NodesOf(space, q) : space.size[c] = MinimumLargeSize(q)
<1> DEFINE ends == UNION {{e[1], e[2]} : e \in SoftPairs(space, q)}
           sizes == {space.size[c] : c \in ends}
<1>1. \A c \in ends : c \in NodesOf(space, q)
  BY SoftEnds DEF LargeNodes
<1>2. \A c \in NodesOf(space, q) : space.size[c] \in Nat
  BY NodesAre
<1>3. ends # {}
  <2>1. PICK e \in SoftPairs(space, q) : TRUE
    OBVIOUS
  <2>2. e[1] \in ends
    BY <2>1
  <2> QED
    BY <2>2
<1> HIDE DEF ends
<1>4. sizes \in SUBSET Nat /\ sizes # {} /\ \A v \in sizes : \E c \in ends : space.size[c] = v
  BY <1>1, <1>2, <1>3
<1>5. MinimumLargeSize(q) = Min(sizes)
  BY DEF MinimumLargeSize, ends
<1> HIDE DEF sizes
<1>6. Min(sizes) \in sizes
  BY <1>4, MinNatural
<1> QED
  BY <1>1, <1>4, <1>5, <1>6

\* The nodes of a swept pool, large and small, block each other at disjoint addresses, and
\* no placement that fits the capacity costs less than the cheapest one on the grid.
LEMMA SweptDone ==
    ASSUME Given, NEW q \in problem.pools, PoolRefusal(q) = "none", SoftPairs(space, q) # {},
           NEW g, g = GridOf(q), FitBand(g, Len(g.nodes)), NEW f \in Assignments(g, Len(g.nodes)),
           \A h \in Assignments(g, Len(g.nodes)) : AssignmentCost(g, f) <= AssignmentCost(g, h),
           NEW at, at = OffsetsOf(g, f),
           NEW band \in SmallBand(SmallNodes(q), MinimumLargeSize(q), PoolAlignment(q), PeakOf(at)),
           NEW off, NodesOf(space, q) \subseteq DOMAIN off,
           \A c \in LargeNodes(q) : off[c] = at[c], \A c \in SmallNodes(q) : off[c] = band[c]
    PROVE  /\ DOMAIN band = SmallNodes(q)
           /\ PoolCost(off, q) = AssignmentCost(g, f) /\ PoolDone(off, q)
<1> DEFINE nodes == NodesOf(space, q)
           large == LargeNodes(q)
           small == SmallNodes(q)
           alignment == PoolAlignment(q)
           threshold == MinimumLargeSize(q)
           start == PeakOf(at)
           limit == problem.capacity[q] + Augmentation(q)
<1>1. /\ nodes \in SUBSET Classes(problem) /\ alignment \in Nat \ {0}
      /\ large \in SUBSET nodes /\ large # {} /\ IsFiniteSet(large)
      /\ threshold \in 0..MaxUInt /\ threshold \in Nat
      /\ \E c \in nodes : space.size[c] = threshold
      /\ \A c \in nodes : space.size[c] \in Nat
  BY NodesAre, LargeNodesAre, ThresholdIsSize, MaxUIntAssumption
<1>2. /\ DOMAIN at = large
      /\ \A c \in large :
             /\ at[c] \in Nat /\ at[c] % alignment = 0
             /\ at[c] + space.size[c] <= g.limit
             /\ \A d \in large : <<c, d>> \in space.hard => Disjoint(at, c, d)
      /\ \A x : (\A c \in large : x[c] = at[c]) => Sharing(x, q) = Meeting(g, f)
  BY GridPlaces
<1>3. /\ g.limit = limit /\ q \in DOMAIN problem.capacity /\ problem.capacity[q] \in 0..MaxUInt
  BY GridIs
<1>4. /\ limit \in Nat /\ limit <= MaxUInt /\ \A c \in nodes : space.size[c] % alignment = 0
  <2>1. /\ ~AddOverflows(problem.capacity[q], Augmentation(q))
        /\ \A c \in nodes : space.size[c] % alignment = 0
    <3>1. nodes # {}
      BY <1>1
    <3> QED
      BY <3>1 DEF PoolRefusal
  <2>2. Augmentation(q) \in Nat
    <3>1. problem.capacity[q] \in Nat /\ options.epsilon \in Nat \ {0}
      BY <1>3, GridIs
    <3> QED
      BY <3>1, CeilDivideTyped DEF Augmentation
  <2> QED
    BY <1>3, <2>1, <2>2, MaxUIntAssumption DEF AddOverflows
<1>5. nodes = large \cup small /\ small \in SUBSET nodes /\ small \in SUBSET Classes(problem)
      /\ \A c \in small : c \notin large
  BY <1>1 DEF SmallNodes
<1>6. \A c \in small : space.size[c] <= threshold
  BY <1>1, <1>5 DEF LargeNodes
<1>7. start \in Nat /\ \A c \in large : at[c] + space.size[c] <= start
  <2> DEFINE ends == {at[c] + space.size[c] : c \in large}
             end == [c \in large |-> at[c] + space.size[c]]
  <2>1. ends \in SUBSET Nat /\ ends \in SUBSET Int /\ ends # {}
    BY <1>1, <1>2
  <2>2. end \in Surjection(large, ends)
    BY DEF Surjection
  <2>3. start = Max(ends) /\ \A c \in large : at[c] + space.size[c] \in ends
    BY <1>2 DEF PeakOf
  <2> HIDE DEF ends, end, start
  <2>4. IsFiniteSet(ends)
    BY <1>1, <2>2, FS_Surjection
  <2>5. Max(ends) \in ends /\ \A n \in ends : n <= Max(ends)
    BY <2>1, <2>4, FiniteBounds
  <2> QED
    BY <2>1, <2>3, <2>5
<1>8. band \in SmallBand(small, threshold, alignment, start)
  OBVIOUS
<1>9. (\A c \in large : off[c] = at[c]) /\ (\A c \in small : off[c] = band[c])
  OBVIOUS
<1> HIDE DEF nodes, large, small, alignment, threshold, start, limit
<1>10. /\ band \in [small -> 0..MaxUInt]
       /\ \A c \in small : start <= band[c] /\ band[c] % alignment = 0
       /\ /\ AlignUp(threshold, alignment) <= MaxUInt
          /\ \A c \in small : space.size[c] % alignment = 0 /\ space.size[c] <= threshold
          => \A c \in small :
                  /\ band[c] + space.size[c] <= MaxUInt
                  /\ \A d \in small : <<c, d>> \in space.hard => Disjoint(band, c, d)
  BY <1>1, <1>5, <1>7, <1>8, SmallBandStands
<1>11. /\ \A c \in small :
             /\ off[c] \in Nat /\ start <= off[c] /\ off[c] % alignment = 0
             /\ off[c] + space.size[c] <= MaxUInt
             /\ \A d \in small : <<c, d>> \in space.hard => Disjoint(off, c, d)
       /\ \A c \in large :
             /\ off[c] \in Nat /\ off[c] % alignment = 0
             /\ off[c] + space.size[c] <= limit /\ off[c] + space.size[c] <= MaxUInt
             /\ off[c] + space.size[c] <= start
             /\ \A d \in large : <<c, d>> \in space.hard => Disjoint(off, c, d)
  <2>1. \A c \in small :
             /\ band[c] \in Nat /\ band[c] + space.size[c] <= MaxUInt
             /\ \A d \in small : <<c, d>> \in space.hard => Disjoint(band, c, d)
    <3>1. AlignUp(threshold, alignment) = threshold /\ threshold <= MaxUInt
      <4>1. threshold % alignment = 0
        BY <1>1, <1>4
      <4> QED
        BY <1>1, <4>1, MaxUIntAssumption DEF AlignUp
    <3> QED
      BY <1>4, <1>5, <1>6, <1>10, <3>1, MaxUIntAssumption
  <2>2. ASSUME NEW c \in large
        PROVE  /\ off[c] \in Nat /\ off[c] % alignment = 0
               /\ off[c] + space.size[c] <= limit /\ off[c] + space.size[c] <= MaxUInt
               /\ off[c] + space.size[c] <= start
               /\ \A d \in large : <<c, d>> \in space.hard => Disjoint(off, c, d)
    <3>1. PICK x \in Nat, s \in Nat : x = at[c] /\ s = space.size[c]
      BY <1>1, <1>2
    <3>2. x + s <= limit /\ limit <= MaxUInt /\ limit \in Int
      BY <1>2, <1>3, <1>4, <3>1
    <3>3. x + s <= MaxUInt
      BY <3>1, <3>2, MaxUIntAssumption
    <3> QED
      BY <1>2, <1>7, <1>9, <3>1, <3>2, <3>3 DEF Disjoint
  <2> QED
    BY <1>9, <1>10, <2>1, <2>2 DEF Disjoint
<1>12. Apart(off, q)
  <2>1. ASSUME NEW c \in nodes, NEW d \in nodes, <<c, d>> \in space.hard PROVE Disjoint(off, c, d)
    <3>1. CASE c \in large /\ d \in small
      <4>1. PICK x \in Nat, y \in Nat, s \in Nat, t \in Nat :
                x = off[c] /\ y = off[d] /\ s = space.size[c] /\ t = start /\ x + s <= t /\ t <= y
        BY <1>1, <1>7, <1>11, <3>1
      <4> QED
        BY <4>1 DEF Disjoint
    <3>2. CASE c \in small /\ d \in large
      <4>1. PICK x \in Nat, y \in Nat, s \in Nat, t \in Nat :
                x = off[d] /\ y = off[c] /\ s = space.size[d] /\ t = start /\ x + s <= t /\ t <= y
        BY <1>1, <1>7, <1>11, <3>2
      <4> QED
        BY <4>1 DEF Disjoint
    <3> QED
      BY <1>5, <1>11, <2>1, <3>1, <3>2
  <2> QED
    BY <1>5, <1>11, <2>1 DEF Apart, Separate, nodes
<1>13. Sound(off, q)
  <2>1. ASSUME NEW c \in nodes PROVE off[c] % space.alignment[c] = 0
    <3>1. off[c] \in Nat /\ off[c] % PoolAlignment(q) = 0
      BY <1>5, <1>11 DEF alignment
    <3> QED
      BY <3>1, PoolAligns DEF nodes
  <2> QED
    BY <1>12, <2>1 DEF Sound, nodes
<1>14. PoolCost(off, q) = AssignmentCost(g, f)
  <2>1. Sharing(off, q) = Meeting(g, f)
    BY <1>2, <1>9
  <2>2. DOMAIN f = 1..Len(g.nodes)
    BY GridIs, AssignmentIs DEF FitBand
  <2>3. AssignmentCost(g, f) = SumOver(space.soft, Meeting(g, f))
    BY <2>2, MeetingCosts
  <2> QED
    BY <2>1, <2>3 DEF PoolCost
<1>15. ASSUME NEW other \in PlacementsOf(problem) PROVE PoolCost(off, q) <= PoolCost(OffsetsIn(other), q)
  <2> DEFINE also == OffsetsIn(other)
             m == Len(g.nodes)
  <2>1. Apart(also, q) /\ \A c \in NodesOf(space, q) : also[c] + space.size[c] <= problem.capacity[q]
    BY <1>3, OthersFit
  <2> HIDE DEF also
  <2>2. Separate(also, q)
    BY <2>1 DEF Apart
  <2>3. m \in Nat
    BY GridBuilt DEF Arrangement, Lists
  <2>4. /\ OnGrid(g, also, m) \in Assignments(g, m)
        /\ AssignmentCost(g, OnGrid(g, also, m)) <= PoolCost(also, q)
    BY <2>1, <2>2, <2>3, RoundedAssigned
  <2>5. AssignmentCost(g, f) <= AssignmentCost(g, OnGrid(g, also, m))
    BY <2>4
  <2>6. /\ PoolCost(off, q) \in Nat /\ PoolCost(also, q) \in Nat
        /\ AssignmentCost(g, OnGrid(g, also, m)) \in Nat
    <3>1. Sharing(off, q) \in SUBSET SoftPairs(space, q) /\ Sharing(also, q) \in SUBSET SoftPairs(space, q)
      BY DEF Sharing
    <3>2. PoolCost(off, q) \in 0..MaxUInt /\ PoolCost(also, q) \in 0..MaxUInt
      BY <3>1, SoftPairsWeigh DEF PoolCost
    <3>3. AssignmentCost(g, OnGrid(g, also, m)) \in 0..MaxUInt
      <4>1. DOMAIN OnGrid(g, also, m) = 1..m
        BY DEF OnGrid
      <4> QED
        BY <2>3, <4>1, GivenTyped, AssignmentCostTyped
    <3> QED
      BY <3>2, <3>3
  <2> QED
    BY <1>14, <2>4, <2>5, <2>6 DEF also
<1>16. PoolDone(off, q)
  BY <1>3, <1>11, <1>13, <1>15 DEF PoolDone, large, limit
<1> QED
  BY <1>10, <1>14, <1>16 DEF small

\* Whether the pools done are completed depends on the input and the offsets alone.
LEMMA CompletedSame ==
    ASSUME input' = input
    PROVE  \A off, left, cost : (Completed(off, left, cost))' <=> Completed(off, left, cost)
<1>1. problem' = problem /\ options' = options /\ space' = space
  BY DEF input
<1>2. \A off, q : (Sharing(off, q))' = Sharing(off, q)
  BY <1>1 DEF Sharing
<1>3. \A off, q : (PoolCost(off, q))' = PoolCost(off, q)
  BY <1>1, <1>2 DEF PoolCost
<1>4. \A off, q : (Sound(off, q))' <=> Sound(off, q)
  BY <1>1 DEF Sound, Apart, Separate, Disjoint
<1>5. \A sol : (OffsetsIn(sol))' = OffsetsIn(sol)
  BY <1>1 DEF OffsetsIn
<1>6. \A q : /\ (LargeNodes(q))' = LargeNodes(q) /\ (Augmentation(q))' = Augmentation(q)
             /\ (PoolAlignment(q))' = PoolAlignment(q)
  BY <1>1, PoolsSame DEF Augmentation
<1>7. \A off, q : (PoolDone(off, q))' <=> PoolDone(off, q)
  BY <1>1, <1>3, <1>4, <1>5, <1>6 DEF PoolDone
<1> QED
  BY <1>1, <1>3, <1>7 DEF Completed

\* What a pool pays under any offsets is a word.
LEMMA CostTyped ==
    ASSUME Given, NEW off, NEW q
    PROVE  PoolCost(off, q) \in 0..MaxUInt
<1>1. Sharing(off, q) \in SUBSET SoftPairs(space, q)
  BY DEF Sharing
<1> QED
  BY <1>1, SoftPairsWeigh DEF PoolCost

\* One pool more is done.
LEMMA PoolAdded ==
    ASSUME Given, NEW off, NEW left \in SUBSET problem.pools, NEW cost, Completed(off, left, cost),
           NEW q \in left, NEW new, DOMAIN new = DOMAIN off \cup NodesOf(space, q),
           \A c \in DOMAIN off \ NodesOf(space, q) : new[c] = off[c], PoolDone(new, q)
    PROVE  Completed(new, left \ {q}, SaturatingAdd(cost, PoolCost(new, q)))
<1> DEFINE P == problem.pools
           F == [r \in P |-> PoolCost(off, r)]
           G == [r \in P |-> PoolCost(new, r)]
           done == P \ left
           now == P \ (left \ {q})
<1>1. IsFiniteSet(P) /\ NodesOf(space, q) \subseteq Classes(problem) /\ q \in P
  BY PoolsOfClasses
<1>2. now = done \cup {q} /\ q \notin done /\ done \in SUBSET P /\ now \in SUBSET P
  BY <1>1
<1>3. /\ DOMAIN off \subseteq Classes(problem) /\ \A r \in done : PoolDone(off, r)
      /\ cost = SumOver(F, done)
  BY DEF Completed
<1>4. ASSUME NEW r \in done PROVE PoolCost(new, r) = PoolCost(off, r) /\ PoolDone(new, r)
  <2>1. NodesOf(space, r) \subseteq DOMAIN off
    BY <1>3 DEF PoolDone
  <2>2. \A c \in NodesOf(space, r) : c \notin NodesOf(space, q)
    BY <1>2 DEF NodesOf
  <2>3. NodesOf(space, r) \subseteq DOMAIN new /\ \A c \in NodesOf(space, r) : new[c] = off[c]
    BY <2>1, <2>2
  <2> QED
    BY <1>3, <2>3, DoneWhere
<1>5. InWordsOver(F, P) /\ InWordsOver(G, P) /\ G[q] = PoolCost(new, q)
  BY <1>1, CostTyped DEF InWordsOver
<1>6. \A r \in done : F[r] = G[r]
  BY <1>4
<1> HIDE DEF F, G, done, now, P
<1>7. IsFiniteSet(done) /\ IsFiniteSet(now) /\ InWordsOver(F, done) /\ InWordsOver(G, now) /\ InWordsOver(G, done)
  BY <1>1, <1>2, <1>5, FS_Subset DEF InWordsOver
<1>8. SumOver(F, done) = SumOver(G, done)
  BY <1>6, <1>7, SameTerms
<1>9. SumOver(G, now) = SaturatingAdd(G[q], SumOver(G, done))
  <2>1. now \ {q} = done /\ q \in now
    BY <1>2
  <2>2. TakesAny(G, now)
    BY <1>7, SumTakes
  <2> QED
    BY <2>1, <2>2 DEF TakesAny
<1>10. SumOver(G, done) \in 0..MaxUInt /\ G[q] \in 0..MaxUInt
  <2>1. \A s \in SUBSET done : SumOver(G, s) \in 0..MaxUInt
    BY <1>7, SumUnfolds
  <2> QED
    BY <1>1, <1>5, <2>1 DEF InWordsOver
<1>11. SumOver(G, now) = SaturatingAdd(cost, PoolCost(new, q))
  BY <1>3, <1>5, <1>8, <1>9, <1>10, SaturatingAddSwaps
<1>12. \A r \in now : PoolDone(new, r)
  BY <1>2, <1>4
<1>13. DOMAIN new \subseteq Classes(problem)
  BY <1>1, <1>3
<1> QED
  BY <1>11, <1>12, <1>13 DEF Completed, G, now, P

(***************************************************************************)
(* The loop over the pools keeps the bounds                                *)
(***************************************************************************)
\* What holds of the layers and of the pools that are done.
Reckoned == IInv /\ LayersLinked /\ PoolsDone

\* The bounds say nothing of an answer without a solution that blames no placement.
LEMMA AnsweredBounds ==
    ASSUME NEW status, answer' = [status |-> status, solution |-> {}], status # "kInfeasibleProven",
           status = "kInvalidProblem" => Refusal' # "none" \/ poolsLeft' # {}
    PROVE  BoundsHold'
<1>1. answer'.solution = {} /\ answer'.status = status
  OBVIOUS
<1> QED
  BY <1>1 DEF BoundsHold

\* Before BuildBicriteriaResult answers there is nothing to bound.
LEMMA NotAnsweredBounds ==
    ASSUME answer' = NoAnswer
    PROVE  BoundsHold'
<1>1. answer'.solution = {} /\ answer'.status = "none"
  BY DEF NoAnswer
<1> QED
  BY <1>1 DEF BoundsHold

\* A step that keeps the grid and the layers keeps where their entries lead.
LEMMA LinksKept ==
    ASSUME LayersLinked, UNCHANGED <<input, grid, layers>>
    PROVE  LayersLinked'
<1>1. space' = space /\ grid' = grid /\ layers' = layers
  BY DEF input
<1>2. \A h, i, entry, x, next : LeadsTo(h, i, entry, x, next)' <=> LeadsTo(h, i, entry, x, next)
  BY <1>1, LinksSame
<1>3. \A i : LayerBefore(i)' = LayerBefore(i)
  BY <1>1 DEF LayerBefore, First
<1> QED
  BY <1>1, <1>2, <1>3 DEF LayersLinked

\* The pools done stay done when a step completes what it leaves behind.
LEMMA DoneKept ==
    ASSUME PoolsDone, input' = input, NEW cost, NEW left, NEW off,
           roundedCost' = cost, poolsLeft' = left, offsets' = off,
           Refusal = "none" => Completed(off, left, cost)
    PROVE  PoolsDone'
<1>1. Refusal' = Refusal
  BY PoolsSame
<1>2. \A o, l, c : (Completed(o, l, c))' <=> Completed(o, l, c)
  BY CompletedSame
<1> QED
  BY <1>1, <1>2 DEF PoolsDone

\* A status ends the loop where it is.
LEMMA StoppedReckoned ==
    ASSUME Reckoned, UNCHANGED <<input, poolsLeft, sweep, offsets, roundedCost>>
    PROVE  Reckoned'
<1>1. IInv'
  BY StoppedKept DEF Reckoned
<1>2. LayersLinked'
  BY LinksKept DEF Reckoned, sweep
<1>3. PoolsDone'
  BY DoneKept DEF Reckoned, PoolsDone
<1> QED
  BY <1>1, <1>2, <1>3 DEF Reckoned

\* TakePool answers where pools are left.
LEMMA TakeBounds ==
    ASSUME Reckoned, TakePool
    PROVE  Reckoned' /\ BoundsHold'
<1>0. PICK q : q = PoolNow
  OBVIOUS
<1>1. Runs /\ grid = {} /\ poolsLeft # {} /\ IInv /\ answer = NoAnswer
  BY DEF TakePool, Runs, Reckoned
<1>2. Given /\ q \in poolsLeft /\ q \in problem.pools /\ poolsLeft \in SUBSET problem.pools
  BY <1>0, <1>1, RunsGiven, PoolNowLeft DEF IInv, TypeOK
<1>3. IInv'
  BY <1>1, TakeKept
<1>4. Completed(offsets, poolsLeft, roundedCost)
  BY <1>2 DEF Reckoned, PoolsDone, Given
<1>5. CASE \E status \in {"kUnsupported", "kInvalidProblem"} : AnswerWith(status)
  <2>1. PICK status \in {"kUnsupported", "kInvalidProblem"} : AnswerWith(status)
    BY <1>5
  <2>2. /\ answer' = [status |-> status, solution |-> {}] /\ poolsLeft' = poolsLeft
        /\ UNCHANGED <<input, poolsLeft, sweep, offsets, roundedCost>>
    BY <2>1 DEF AnswerWith
  <2>3. Reckoned'
    BY <2>2, StoppedReckoned
  <2>4. BoundsHold'
    BY <1>1, <2>1, <2>2, AnsweredBounds
  <2> QED
    BY <2>3, <2>4
<1>6. CASE /\ PoolRefusal(q) = "none" /\ SoftPairs(space, q) = {}
           /\ \E band \in SmallBand(NodesOf(space, q), problem.capacity[q], PoolAlignment(q), 0) :
                  offsets' = Over(band, offsets)
           /\ poolsLeft' = poolsLeft \ {q}
           /\ UNCHANGED <<input, sweep, roundedCost, answer>>
  <2>1. PICK band \in SmallBand(NodesOf(space, q), problem.capacity[q], PoolAlignment(q), 0) :
            offsets' = Over(band, offsets)
    BY <1>6
  <2>2. band \in [NodesOf(space, q) -> 0..MaxUInt] /\ PoolCost(band, q) = 0 /\ PoolDone(band, q)
    BY <1>2, <1>6, <2>1, SoftFreeDone
  <2> DEFINE new == Over(band, offsets)
  <2>3. /\ DOMAIN new = DOMAIN offsets \cup NodesOf(space, q)
        /\ \A c \in NodesOf(space, q) : new[c] = band[c]
        /\ \A c \in DOMAIN offsets \ NodesOf(space, q) : new[c] = offsets[c]
    BY <2>2 DEF Over
  <2> HIDE DEF new
  <2>4. PoolDone(new, q) /\ PoolCost(new, q) = 0
    BY <1>2, <2>2, <2>3, DoneWhere
  <2>5. SaturatingAdd(roundedCost, PoolCost(new, q)) = roundedCost
    <3>1. roundedCost \in 0..MaxUInt
      BY <1>1 DEF IInv, TypeOK
    <3> QED
      BY <2>4, <3>1, MaxUIntAssumption DEF SaturatingAdd, AddOverflows
  <2>6. Completed(new, poolsLeft \ {q}, SaturatingAdd(roundedCost, PoolCost(new, q)))
    BY <1>2, <1>4, <2>3, <2>4, PoolAdded
  <2>7. input' = input /\ grid' = {} /\ roundedCost' = roundedCost /\ answer' = NoAnswer /\ offsets' = new
    BY <1>1, <1>6, <2>1 DEF sweep, new
  <2>8. PoolsDone'
    BY <1>6, <2>5, <2>6, <2>7, DoneKept DEF Reckoned
  <2>9. LayersLinked'
    BY <2>7 DEF LayersLinked
  <2>10. BoundsHold'
    BY <2>7, NotAnsweredBounds
  <2> QED
    BY <1>3, <2>8, <2>9, <2>10 DEF Reckoned
<1>7. CASE BeginSweep(q)
  <2>1. /\ input' = input /\ layers' = <<>> /\ answer' = NoAnswer
        /\ poolsLeft' = poolsLeft /\ offsets' = offsets /\ roundedCost' = roundedCost
    BY <1>1, <1>7 DEF BeginSweep
  <2>2. PoolsDone'
    BY <1>4, <2>1, DoneKept DEF Reckoned
  <2>3. LayersLinked'
    BY <2>1 DEF LayersLinked
  <2>4. BoundsHold'
    BY <2>1, NotAnsweredBounds
  <2> QED
    BY <1>3, <2>2, <2>3, <2>4 DEF Reckoned
<1>8. ASSUME PoolRefusal(q) # "none" PROVE PoolRefusal(q) \in {"kUnsupported", "kInvalidProblem"}
  BY <1>8 DEF PoolRefusal
<1>9. \/ PoolRefusal(q) # "none" /\ AnswerWith(PoolRefusal(q))
      \/ PoolRefusal(q) = "none" /\ SoftPairs(space, q) = {} /\ PlaceSoftFreePool(q)
      \/ PoolRefusal(q) = "none" /\ SoftPairs(space, q) # {} /\ BeginSweep(q)
  BY <1>0 DEF TakePool
<1> QED
  BY <1>5, <1>6, <1>7, <1>8, <1>9 DEF PlaceSoftFreePool

\* An empty layer is a proof: a placement that fits the capacity, rounded to the grid,
\* would have an entry in it.
LEMMA EmptyLayer ==
    ASSUME IInv, Runs, NEW g \in grid, Len(layers) + 1 <= Len(g.nodes),
           RankRefusal(g, Len(layers) + 1) = "none", Merged(Transitions(g, Len(layers) + 1)) = <<>>
    PROVE  ValidPlacements[problem] = {}
<1>0. PICK m, q : m = Len(layers) /\ q = PoolNow
  OBVIOUS
<1>00. PICK layer : layer = Merged(Transitions(g, m + 1))
  OBVIOUS
<1>1. /\ Gridded(g) /\ m \in Nat /\ SoftWords /\ Given
      /\ g.pool = q /\ PoolRefusal(q) = "none" /\ SoftPairs(space, q) # {}
  BY <1>0, RunsGiven, GivenTyped
<1>2. q \in problem.pools /\ g = GridOf(q)
  BY <1>0, <1>1 DEF IInv, TypeOK, InputKept
<1>3. Cheapest(g, m + 1, layer)
  BY <1>0, <1>00, <1>1, RankGiven, SweepKeepsCheapest
<1>4. DOMAIN layer = {}
  BY <1>0, <1>00
<1>5. ASSUME NEW other \in PlacementsOf(problem) PROVE FALSE
  <2> DEFINE off == OffsetsIn(other)
  <2>1. q \in DOMAIN problem.capacity
    BY <1>1, <1>2, GridIs
  <2>2. Apart(off, q) /\ \A c \in NodesOf(space, q) : off[c] + space.size[c] <= problem.capacity[q]
    BY <1>1, <1>2, <2>1, OthersFit
  <2> HIDE DEF off
  <2>3. Separate(off, q)
    BY <2>2 DEF Apart
  <2>4. \A i \in 0..Len(g.nodes) : OnGrid(g, off, i) \in Assignments(g, i)
    BY <1>1, <1>2, <2>2, <2>3, RoundedAssigned
  <2>5. m + 1 \in 0..Len(g.nodes)
    BY <1>0, <1>1 DEF Gridded
  <2>6. OnGrid(g, off, m + 1) \in Assignments(g, m + 1)
    BY <2>4, <2>5
  <2> QED
    BY <1>3, <1>4, <2>6 DEF Cheapest
<1>6. PlacementsOf(problem) = {}
  BY <1>5
<1>7. problem \in Problems /\ PrepareAccepts(problem)
  BY <1>1 DEF Given, Refusal
<1>8. ValidPlacements[problem] = PlacementsOf(problem)
  BY <1>7, TabulatedIs DEF ValidPlacements
<1> QED
  BY <1>6, <1>8

\* A rank of RunGridDp: its entries are linked, an empty layer proves infeasibility.
LEMMA RankBounds ==
    ASSUME Reckoned, SweepRank
    PROVE  Reckoned' /\ BoundsHold'
<1>0. Runs /\ IInv /\ answer = NoAnswer
  BY DEF SweepRank, Runs, Reckoned
<1>1. PICK g \in grid :
          LET i == Len(layers) + 1
          IN  /\ i <= Len(g.nodes)
              /\ \/ RankRefusal(g, i) # "none" /\ AnswerWith(RankRefusal(g, i))
                 \/ /\ RankRefusal(g, i) = "none"
                    /\ \E layer \in {Merged(Transitions(g, i))} :
                           \/ LayerRefusal(layer) # "none" /\ AnswerWith(LayerRefusal(layer))
                           \/ /\ LayerRefusal(layer) = "none"
                              /\ layers' = Append(layers, layer)
                              /\ dpStates' = dpStates + Cardinality(DOMAIN layer)
                              /\ transitions' = TransitionsAfter(g, i)
                              /\ UNCHANGED <<input, poolsLeft, grid, offsets, roundedCost, answer>>
  BY DEF SweepRank
<1>2. poolsLeft # {}
  BY <1>0 DEF IInv, TypeOK
<1>3. PICK m : m = Len(layers)
  OBVIOUS
<1>4. IInv'
  BY <1>0, RankKept
<1>5. CASE \E status \in {"kUnsupported", "kTimeout", "kInvalidProblem"} : AnswerWith(status)
  <2>1. PICK status \in {"kUnsupported", "kTimeout", "kInvalidProblem"} : AnswerWith(status)
    BY <1>5
  <2>2. /\ answer' = [status |-> status, solution |-> {}] /\ poolsLeft' = poolsLeft
        /\ UNCHANGED <<input, poolsLeft, sweep, offsets, roundedCost>>
    BY <2>1 DEF AnswerWith
  <2>3. Reckoned'
    BY <2>2, StoppedReckoned
  <2>4. BoundsHold'
    BY <1>2, <2>1, <2>2, AnsweredBounds
  <2> QED
    BY <2>3, <2>4
<1>6. CASE /\ RankRefusal(g, m + 1) = "none" /\ Merged(Transitions(g, m + 1)) = <<>>
           /\ AnswerWith("kInfeasibleProven")
  <2>1. /\ answer' = [status |-> "kInfeasibleProven", solution |-> {}]
        /\ UNCHANGED <<input, poolsLeft, sweep, offsets, roundedCost>>
    BY <1>6 DEF AnswerWith
  <2>2. Reckoned'
    BY <2>1, StoppedReckoned
  <2>3. ValidPlacements[problem] = {}
    BY <1>0, <1>1, <1>3, <1>6, EmptyLayer
  <2>4. (ValidPlacements[problem])' = {}
    BY <2>1, <2>3 DEF input, ValidPlacements
  <2>5. answer'.solution = {} /\ answer'.status = "kInfeasibleProven"
    BY <2>1
  <2>6. BoundsHold'
    BY <2>4, <2>5 DEF BoundsHold
  <2> QED
    BY <2>2, <2>6
<1>7. CASE /\ RankRefusal(g, m + 1) = "none"
           /\ layers' = Append(layers, Merged(Transitions(g, m + 1)))
           /\ UNCHANGED <<input, poolsLeft, grid, offsets, roundedCost, answer>>
  <2>1. /\ input' = input /\ answer' = NoAnswer
        /\ poolsLeft' = poolsLeft /\ offsets' = offsets /\ roundedCost' = roundedCost
    BY <1>0, <1>7
  <2>2. PoolsDone'
    BY <2>1, DoneKept DEF Reckoned, PoolsDone
  <2>3. LayersLinked'
    BY <1>0, <1>1, <1>3, <1>7, RankLinks DEF Reckoned
  <2>4. BoundsHold'
    BY <2>1, NotAnsweredBounds
  <2> QED
    BY <1>4, <2>2, <2>3, <2>4 DEF Reckoned
<1>8. /\ \A i : RankRefusal(g, i) # "none" => RankRefusal(g, i) \in {"kUnsupported", "kTimeout", "kInvalidProblem"}
      /\ \A layer : LayerRefusal(layer) # "none" =>
             LayerRefusal(layer) = "kTimeout" \/ (LayerRefusal(layer) = "kInfeasibleProven" /\ layer = <<>>)
  BY DEF RankRefusal, LayerRefusal
<1> QED
  BY <1>1, <1>3, <1>5, <1>6, <1>7, <1>8

\* The offsets of a swept pool.
LEMMA SweepBounds ==
    ASSUME Reckoned, EndSweep
    PROVE  Reckoned' /\ BoundsHold'
<1>1. Runs /\ IInv /\ answer = NoAnswer /\ LayersLinked
  BY DEF EndSweep, Runs, Reckoned
<1>2. PICK g \in grid :
          /\ Len(layers) = Len(g.nodes)
          /\ \E at \in {LargeOffsets(g)} :
                 LET bands == SmallBand(SmallNodes(g.pool), MinimumLargeSize(g.pool),
                                        PoolAlignment(g.pool), PeakOf(at))
                 IN  \/ bands = {} /\ AnswerWith("kInvalidProblem")
                     \/ /\ \E band \in bands : offsets' = Over(band, Over(at, offsets))
                        /\ roundedCost' = SaturatingAdd(roundedCost, Last(layers)[Best].cost)
                        /\ poolsLeft' = poolsLeft \ {g.pool} /\ grid' = {} /\ layers' = <<>>
                        /\ UNCHANGED <<input, dpStates, transitions, answer>>
  BY DEF EndSweep
<1>3. PICK at \in {LargeOffsets(g)} :
          LET bands == SmallBand(SmallNodes(g.pool), MinimumLargeSize(g.pool),
                                 PoolAlignment(g.pool), PeakOf(at))
          IN  \/ bands = {} /\ AnswerWith("kInvalidProblem")
              \/ /\ \E band \in bands : offsets' = Over(band, Over(at, offsets))
                 /\ roundedCost' = SaturatingAdd(roundedCost, Last(layers)[Best].cost)
                 /\ poolsLeft' = poolsLeft \ {g.pool} /\ grid' = {} /\ layers' = <<>>
                 /\ UNCHANGED <<input, dpStates, transitions, answer>>
  BY <1>2
<1>4. PICK q, f, n : q = g.pool /\ f = ColorsBack(g) /\ n = Len(g.nodes)
  OBVIOUS
<1>5. /\ Given /\ q = PoolNow /\ q \in poolsLeft /\ q \in problem.pools /\ poolsLeft \in SUBSET problem.pools
      /\ PoolRefusal(q) = "none" /\ SoftPairs(space, q) # {} /\ g = GridOf(q)
      /\ Gridded(g) /\ DOMAIN layers = 1..Len(layers)
  BY <1>1, <1>4, RunsGiven DEF IInv, TypeOK, InputKept
<1>6. IInv'
  BY <1>1, EndKept
<1>7. Completed(offsets, poolsLeft, roundedCost)
  BY <1>5 DEF Reckoned, PoolsDone, Given
<1>8. CASE AnswerWith("kInvalidProblem")
  <2>1. /\ answer' = [status |-> "kInvalidProblem", solution |-> {}] /\ poolsLeft' = poolsLeft
        /\ UNCHANGED <<input, poolsLeft, sweep, offsets, roundedCost>>
    BY <1>8 DEF AnswerWith
  <2>2. Reckoned'
    BY <2>1, StoppedReckoned
  <2>3. BoundsHold'
    BY <1>5, <2>1, AnsweredBounds
  <2> QED
    BY <2>2, <2>3
<1>9. /\ f \in Assignments(g, n) /\ Last(layers)[Best].cost = AssignmentCost(g, f)
      /\ \A h \in Assignments(g, n) : AssignmentCost(g, f) <= AssignmentCost(g, h)
  BY <1>1, <1>2, <1>4, WayBackIsCheapest
<1>10. FitBand(g, n)
  BY <1>1, <1>2, <1>4, <1>5 DEF FitBand, IInv, LayersLeadBack
<1>11. at = OffsetsOf(g, f)
  BY <1>3, <1>4 DEF LargeOffsets, OffsetsOf
<1>12. CASE /\ \E band \in SmallBand(SmallNodes(q), MinimumLargeSize(q), PoolAlignment(q), PeakOf(at)) :
                   offsets' = Over(band, Over(at, offsets))
            /\ roundedCost' = SaturatingAdd(roundedCost, Last(layers)[Best].cost)
            /\ poolsLeft' = poolsLeft \ {q} /\ grid' = {} /\ layers' = <<>>
            /\ UNCHANGED <<input, dpStates, transitions, answer>>
  <2>1. PICK band \in SmallBand(SmallNodes(q), MinimumLargeSize(q), PoolAlignment(q), PeakOf(at)) :
            offsets' = Over(band, Over(at, offsets))
    BY <1>12
  <2> DEFINE new == Over(band, Over(at, offsets))
  <2>2. DOMAIN at = LargeNodes(q) /\ LargeNodes(q) \in SUBSET NodesOf(space, q)
    BY <1>1, <1>2, <1>3, <1>5, SweepEnded, LargeNodesAre
  <2> DEFINE both == [c \in NodesOf(space, q) |-> IF c \in LargeNodes(q) THEN at[c] ELSE band[c]]
  <2>3. /\ NodesOf(space, q) = LargeNodes(q) \cup SmallNodes(q)
        /\ \A c \in SmallNodes(q) : c \notin LargeNodes(q)
    BY <2>2 DEF SmallNodes
  <2>4. /\ NodesOf(space, q) \subseteq DOMAIN both
        /\ \A c \in LargeNodes(q) : both[c] = at[c]
        /\ \A c \in SmallNodes(q) : both[c] = band[c]
    BY <2>2, <2>3
  <2> HIDE DEF both
  <2>5. DOMAIN band = SmallNodes(q) /\ PoolCost(both, q) = AssignmentCost(g, f) /\ PoolDone(both, q)
    BY <1>4, <1>5, <1>9, <1>10, <1>11, <2>4, SweptDone
  <2>6. /\ DOMAIN new = DOMAIN offsets \cup NodesOf(space, q)
        /\ \A c \in NodesOf(space, q) : new[c] = both[c]
        /\ \A c \in DOMAIN offsets \ NodesOf(space, q) : new[c] = offsets[c]
    BY <2>2, <2>3, <2>4, <2>5 DEF Over
  <2>7. new = Over(band, Over(at, offsets))
    OBVIOUS
  <2> HIDE DEF new
  <2>8. PoolDone(new, q) /\ PoolCost(new, q) = AssignmentCost(g, f)
    BY <1>5, <2>5, <2>6, DoneWhere
  <2>9. Completed(new, poolsLeft \ {q}, SaturatingAdd(roundedCost, PoolCost(new, q)))
    BY <1>5, <1>7, <2>6, <2>8, PoolAdded
  <2>10. /\ input' = input /\ grid' = {} /\ answer' = NoAnswer /\ offsets' = new
         /\ poolsLeft' = poolsLeft \ {q}
         /\ roundedCost' = SaturatingAdd(roundedCost, PoolCost(new, q))
    BY <1>1, <1>9, <1>12, <2>1, <2>7, <2>8
  <2>11. PoolsDone'
    BY <2>9, <2>10, DoneKept DEF Reckoned
  <2>12. LayersLinked'
    BY <2>10 DEF LayersLinked
  <2>13. BoundsHold'
    BY <2>10, NotAnsweredBounds
  <2> QED
    BY <1>6, <2>11, <2>12, <2>13 DEF Reckoned
<1> QED
  BY <1>3, <1>4, <1>8, <1>12

\* What the loop comes to when no pool is left.
LEMMA PoolsEnd ==
    ASSUME Reckoned, Runs, poolsLeft = {}
    PROVE  /\ Given /\ DOMAIN offsets = Classes(problem) /\ \A c \in Classes(problem) : offsets[c] \in Nat
           /\ roundedCost = SumOver([q \in problem.pools |-> PoolCost(offsets, q)], problem.pools)
           /\ \A q \in problem.pools : PoolDone(offsets, q)
<1>1. Given /\ IInv
  BY RunsGiven DEF Reckoned
<1>2. Completed(offsets, {}, roundedCost) /\ problem.pools \ {} = problem.pools
  BY <1>1 DEF Reckoned, PoolsDone, Given
<1>3. /\ DOMAIN offsets \subseteq Classes(problem) /\ \A q \in problem.pools : PoolDone(offsets, q)
      /\ roundedCost = SumOver([q \in problem.pools |-> PoolCost(offsets, q)], problem.pools)
  BY <1>2 DEF Completed
<1>4. Classes(problem) \subseteq DOMAIN offsets
  <2> SUFFICES ASSUME NEW c \in Classes(problem) PROVE c \in DOMAIN offsets
    OBVIOUS
  <2>1. PICK q \in problem.pools : c \in NodesOf(space, q)
    BY <1>1, PoolsOfClasses
  <2> QED
    BY <1>3, <2>1 DEF PoolDone
<1>5. \A c \in DOMAIN offsets : offsets[c] \in Nat
  BY <1>1, MaxUIntAssumption DEF IInv, TypeOK
<1> QED
  BY <1>1, <1>3, <1>4, <1>5

\* A placement that the validator passes costs what the pools cost, no more than any
\* placement that fits the capacities.
LEMMA LegalBounds ==
    ASSUME Reckoned, Runs, poolsLeft = {}, NEW sol, sol = SolutionOf(problem, offsets),
           LegalSolution(problem, sol)
    PROVE  /\ ReuseCost(problem, sol) = roundedCost
           /\ \A other \in ValidPlacements[problem] : roundedCost <= ReuseCost(problem, other)
           /\ \A q \in problem.pools : SoftPairs(space, q) # {} =>
                  \A c \in LargeNodes(q) :
                      sol[Min(c)].offset + space.size[c] <= problem.capacity[q] + Augmentation(q)
<1> DEFINE P == problem.pools
           F == [q \in P |-> PoolCost(offsets, q)]
<1>1. /\ Given /\ DOMAIN offsets = Classes(problem) /\ \A c \in Classes(problem) : offsets[c] \in Nat
      /\ roundedCost = SumOver(F, P) /\ \A q \in P : PoolDone(offsets, q)
  BY PoolsEnd
<1>2. \A q \in P : Apart(offsets, q)
  BY <1>1, LegalIsApart
<1>3. ReuseCost(problem, sol) = roundedCost
  BY <1>1, <1>2, CostOfPools
<1>4. IsFiniteSet(P)
  BY <1>1, PoolsOfClasses
<1>5. ASSUME NEW other \in PlacementsOf(problem) PROVE roundedCost <= ReuseCost(problem, other)
  <2> DEFINE G == [q \in P |-> PoolCost(OffsetsIn(other), q)]
  <2>1. ReuseCost(problem, other) = SumOver(G, P)
    BY <1>1, OthersFit
  <2>2. InWordsOver(F, P) /\ InWordsOver(G, P)
    BY <1>1, CostTyped DEF InWordsOver
  <2>3. \A q \in P : F[q] <= G[q]
    BY <1>1 DEF PoolDone
  <2> HIDE DEF F, G, P
  <2> QED
    BY <1>1, <1>4, <2>1, <2>2, <2>3, SumMonotone
<1>6. ValidPlacements[problem] = PlacementsOf(problem)
  <2>1. problem \in Problems /\ PrepareAccepts(problem)
    BY <1>1 DEF Given, Refusal
  <2> QED
    BY <2>1, TabulatedIs DEF ValidPlacements
<1>7. ASSUME NEW q \in P, SoftPairs(space, q) # {}, NEW c \in LargeNodes(q)
      PROVE  sol[Min(c)].offset + space.size[c] <= problem.capacity[q] + Augmentation(q)
  <2>1. c \in Classes(problem)
    BY <1>1, NodesAre DEF LargeNodes
  <2>2. sol[Min(c)].offset = offsets[c]
    BY <1>1, <2>1, Everywhere
  <2> QED
    BY <1>1, <1>7, <2>2 DEF PoolDone
<1> QED
  BY <1>3, <1>5, <1>6, <1>7

\* When the nodes fit the pools without soft edges the validator passes the placement.
LEMMA FitIsLegal ==
    ASSUME Reckoned, Runs, poolsLeft = {}, SoftFreePoolsFit
    PROVE  LegalSolution(problem, SolutionOf(problem, offsets))
<1>1. /\ Given /\ DOMAIN offsets = Classes(problem) /\ \A q \in problem.pools : PoolDone(offsets, q)
  BY PoolsEnd
<1>2. \A q \in problem.pools : Sound(offsets, q)
  BY <1>1 DEF PoolDone, SoftFreePoolsFit
<1> QED
  BY <1>1, <1>2, SoundIsLegal

\* The bounds are of the input, the rounded cost and the answer.
LEMMA BoundsCarried ==
    ASSUME input' = input, roundedCost' = roundedCost, NEW sol,
           /\ ReuseCost(problem, sol) = roundedCost
           /\ \A other \in ValidPlacements[problem] : roundedCost <= ReuseCost(problem, other)
           /\ \A q \in problem.pools : SoftPairs(space, q) # {} =>
                  \A c \in LargeNodes(q) :
                      sol[Min(c)].offset + space.size[c] <= problem.capacity[q] + Augmentation(q),
           NEW status \in {"kFeasible", "kBestEffortNoFit"}, answer' = [status |-> status, solution |-> {sol}]
    PROVE  BoundsHold'
<1>1. problem' = problem /\ space' = space /\ options' = options
  BY DEF input
<1>2. answer'.solution = {sol} /\ answer'.status # "kInfeasibleProven" /\ answer'.status # "kInvalidProblem"
  OBVIOUS
<1>3. \A q : (LargeNodes(q))' = LargeNodes(q) /\ (Augmentation(q))' = Augmentation(q)
  BY <1>1, PoolsSame DEF Augmentation
<1>4. (ValidPlacements)' = ValidPlacements
  BY DEF ValidPlacements
<1> QED
  BY <1>1, <1>2, <1>3, <1>4 DEF BoundsHold

\* The end of the pools: the costs add up to what BuildBicriteriaResult reports.
LEMMA EndBounds ==
    ASSUME Reckoned, EndPools
    PROVE  Reckoned' /\ BoundsHold'
<1> DEFINE sol == SolutionOf(problem, offsets)
<1>1. /\ Runs /\ poolsLeft = {} /\ answer' = Bicriteria(sol)
      /\ UNCHANGED <<input, poolsLeft, sweep, offsets, roundedCost>>
  BY DEF EndPools
<1>2. Reckoned'
  BY <1>1, StoppedReckoned
<1>3. Given /\ ProblemTyped(problem) /\ ValidProblem(problem)
  BY <1>1, PoolsEnd, GivenTyped, FixedKnown DEF Fixed
<1>4. ValidSolution(WithoutCapacities(problem), sol) <=> LegalSolution(problem, sol)
  BY <1>3, ValidUncapped, LegalWithoutCapacities
<1>5. ASSUME LegalSolution(problem, sol)
      PROVE  /\ ReuseCost(problem, sol) = roundedCost
             /\ \A other \in ValidPlacements[problem] : roundedCost <= ReuseCost(problem, other)
             /\ \A q \in problem.pools : SoftPairs(space, q) # {} =>
                    \A c \in LargeNodes(q) :
                        sol[Min(c)].offset + space.size[c] <= problem.capacity[q] + Augmentation(q)
  BY <1>1, <1>5, LegalBounds
<1>6. roundedCost \in 0..MaxUInt
  BY DEF Reckoned, IInv, TypeOK
<1> HIDE DEF sol
<1>7. CASE LegalSolution(problem, sol)
  <2>1. ~(ReuseCost(problem, sol) > roundedCost)
    BY <1>5, <1>6, <1>7
  <2>2. PICK status \in {"kFeasible", "kBestEffortNoFit"} : answer' = [status |-> status, solution |-> {sol}]
    BY <1>1, <1>4, <1>7, <2>1 DEF Bicriteria
  <2>3. BoundsHold'
    BY <1>1, <1>5, <1>7, <2>2, BoundsCarried
  <2> QED
    BY <1>2, <2>3
<1>8. CASE ~LegalSolution(problem, sol)
  <2>1. answer' = [status |-> "kInvalidProblem", solution |-> {}]
    BY <1>1, <1>4, <1>8 DEF Bicriteria
  <2>2. ~SoftFreePoolsFit
    BY <1>1, <1>8, FitIsLegal DEF sol
  <2>3. (SoftFreePoolsFit)' <=> SoftFreePoolsFit
    BY <1>1, PoolsSame DEF input, SoftFreePoolsFit
  <2>4. answer'.solution = {} /\ answer'.status = "kInvalidProblem"
    BY <2>1
  <2>5. BoundsHold'
    BY <2>2, <2>3, <2>4 DEF BoundsHold
  <2> QED
    BY <1>2, <2>5
<1> QED
  BY <1>7, <1>8

\* Every step keeps the reckoning and the bound.
LEMMA NextBounds ==
    ASSUME Reckoned, BoundsHold, [Next]_vars
    PROVE  Reckoned' /\ BoundsHold'
<1>1. CASE Refuse
  <2>1. /\ answer' = [status |-> Refusal, solution |-> {}] /\ Refusal # "none"
        /\ UNCHANGED <<input, poolsLeft, sweep, offsets, roundedCost>>
    BY <1>1 DEF Refuse, AnswerWith
  <2>2. Refusal' # "none"
    BY <2>1, PoolsSame
  <2>3. Refusal # "kInfeasibleProven"
    BY DEF Refusal
  <2> QED
    BY <2>1, <2>2, <2>3, StoppedReckoned, AnsweredBounds
<1>2. CASE UNCHANGED vars
  <2>1. /\ UNCHANGED <<input, poolsLeft, sweep, offsets, roundedCost>>
        /\ input' = input /\ problem' = problem /\ space' = space /\ options' = options
        /\ poolsLeft' = poolsLeft /\ answer' = answer /\ roundedCost' = roundedCost
    BY <1>2 DEF vars, input
  <2>2. Reckoned'
    BY <2>1, StoppedReckoned
  <2>3. Refusal' = Refusal /\ \A q : (LargeNodes(q))' = LargeNodes(q) /\ (Augmentation(q))' = Augmentation(q)
    BY <2>1, PoolsSame DEF Augmentation
  <2>4. (ValidPlacements)' = ValidPlacements /\ (SoftFreePoolsFit' <=> SoftFreePoolsFit)
    BY <2>1, PoolsSame DEF ValidPlacements, SoftFreePoolsFit
  <2>5. BoundsHold'
    BY <2>1, <2>3, <2>4 DEF BoundsHold
  <2> QED
    BY <2>2, <2>5
<1> QED
  BY <1>1, <1>2, TakeBounds, RankBounds, SweepBounds, EndBounds DEF Next, Terminated

\* Nothing is reckoned at the start.
LEMMA InitBounds ==
    ASSUME Init
    PROVE  Reckoned /\ BoundsHold
<1>1. IInv
  BY InitInv
<1>2. LayersLinked
  BY DEF Init, LayersLinked
<1>3. PoolsDone
  <2>1. DOMAIN offsets = {} /\ roundedCost = 0 /\ problem.pools \ poolsLeft = {}
    BY DEF Init
  <2>2. \A F : SumOver(F, {}) = 0
    <3> TAKE F
    <3>1. IsFiniteSet({}) /\ InWordsOver(F, {})
      BY FS_EmptySet DEF InWordsOver
    <3> QED
      BY <3>1, SumUnfolds
  <2> QED
    BY <2>1, <2>2 DEF PoolsDone, Completed
<1>4. answer.solution = {} /\ answer.status = "none"
  BY DEF Init, NoAnswer
<1> QED
  BY <1>1, <1>2, <1>3, <1>4 DEF Reckoned, BoundsHold

\* For every problem and every option, a solution of BuildBicriteriaResult pays what the
\* grid says and no more than any placement that fits the capacities, its large nodes stay
\* in the augmented band; kInfeasibleProven is right; and the final check only fails when,
\* in a pool without soft edges, a node is larger than the capacity or the capacity in
\* whole quanta, as HarmonicUpper leaves it, is no word.
THEOREM Bounds == Spec => []BoundsHold
<1>1. Init => Reckoned /\ BoundsHold
  BY InitBounds
<1>2. Reckoned /\ BoundsHold /\ [Next]_vars => Reckoned' /\ BoundsHold'
  BY NextBounds
<1> QED
  BY <1>1, <1>2, PTL DEF Spec
=============================================================================
