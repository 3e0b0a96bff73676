------------------------ MODULE PromotedSearchProofs ------------------------
(***************************************************************************)
(* The local search over orders and promoted edges, with the baselines it  *)
(* calls for its seeds: for every set of problems and options it never     *)
(* forgets the least score it met, leads with its best candidate, spends   *)
(* its budget and answers with the best of all it evaluated or was handed; *)
(* and what each baseline promises of its answer holds when it is called   *)
(* by itself.                                                              *)
(* The proof first ranks finite sets by their keys, then types tables,     *)
(* moves and results, and shows the invariants inductive.                  *)
(***************************************************************************)
EXTENDS PromotedSearch, DsaModelProofs

(***************************************************************************)
(* Ranks                                                                   *)
(***************************************************************************)
\* Distinct keys of n numbers for the elements of S.
Keys(K, S, n) == K \in [S -> [1..n -> Int]] /\ \A x, y \in S : K[x] = K[y] => x = y

Below(K, S, x) == {y \in S : ScoreBefore(K[y], K[x])}

\* Every rank is taken: the elements of a finite set with distinct keys have
\* 0, 1, 2, ... others below them.
LEMMA RanksFilled ==
    ASSUME NEW S, IsFiniteSet(S), NEW n \in Nat, NEW K, Keys(K, S, n), NEW i \in 1..Cardinality(S)
    PROVE  \E x \in S : Cardinality(Below(K, S, x)) = i - 1
<1> DEFINE N == Cardinality(S)
           rank == [x \in S |-> Cardinality(Below(K, S, x))]
<1>1. N \in Nat
  BY FS_CardinalityType
<1>2. \A x \in S : K[x] \in [1..n -> Int]
  BY DEF Keys
<1>3. ASSUME NEW x \in S
      PROVE  /\ Below(K, S, x) \in SUBSET (S \ {x}) /\ IsFiniteSet(Below(K, S, x))
             /\ rank[x] \in 0..(N - 1)
  <2>1. Below(K, S, x) \in SUBSET (S \ {x})
    BY <1>2, ScoresOrdered DEF Below
  <2>2. IsFiniteSet(S \ {x}) /\ Cardinality(S \ {x}) = N - 1
    BY FS_RemoveElement
  <2>3. IsFiniteSet(Below(K, S, x)) /\ Cardinality(Below(K, S, x)) <= N - 1
    BY <2>1, <2>2, FS_Subset
  <2>4. Cardinality(Below(K, S, x)) \in Nat
    BY <2>3, FS_CardinalityType
  <2> QED
    BY <1>1, <2>1, <2>3, <2>4
<1>4. ASSUME NEW x \in S, NEW y \in S, ScoreBefore(K[x], K[y]) PROVE rank[x] # rank[y]
  <2>1. Below(K, S, x) \in SUBSET Below(K, S, y)
    BY <1>2, <1>4, ScoresOrdered DEF Below
  <2>2. x \in Below(K, S, y) /\ x \notin Below(K, S, x)
    BY <1>3, <1>4 DEF Below
  <2>3. Cardinality(Below(K, S, x)) # Cardinality(Below(K, S, y))
    BY <1>3, <2>1, <2>2, FS_Subset
  <2> QED
    BY <2>3
<1>5. \A x, y \in S : rank[x] = rank[y] => x = y
  BY <1>2, <1>4, ScoresCompare DEF Keys
<1>6. IsFiniteSet(0..(N - 1)) /\ Cardinality(0..(N - 1)) = N
  <2>1. 0 \in Int /\ N - 1 \in Int
    BY <1>1
  <2>2. Cardinality(0..(N - 1)) = IF 0 > N - 1 THEN 0 ELSE N - 1 - 0 + 1
    BY <2>1, FS_Interval
  <2> QED
    BY <1>1, <2>1, <2>2, FS_Interval
<1>7. rank \in Injection(S, 0..(N - 1))
  <2>1. rank \in [S -> 0..(N - 1)]
    BY <1>3
  <2> HIDE DEF rank
  <2> QED
    BY <1>5, <2>1 DEF Injection, IsInjective
<1> HIDE DEF rank
<1>8. rank \in Surjection(S, 0..(N - 1))
  BY <1>6, <1>7, FS_Injection
<1>9. i - 1 \in 0..(N - 1)
  BY <1>1
<1>10. \E x \in S : rank[x] = i - 1
  BY <1>8, <1>9 DEF Surjection
<1> QED
  BY <1>10 DEF rank

\* The values of a function on a finite set.
LEMMA ValuesFinite ==
    ASSUME NEW S, IsFiniteSet(S), NEW f, DOMAIN f = S
    PROVE  IsFiniteSet({f[x] : x \in S})
<1> DEFINE T == {f[x] : x \in S}
           g == [x \in S |-> f[x]]
<1>1. g \in Surjection(S, T)
  BY DEF Surjection
<1> HIDE DEF T, g
<1>2. IsFiniteSet(T)
  BY <1>1, FS_Surjection
<1> QED
  BY <1>2 DEF T

(***************************************************************************)
(* Orders                                                                  *)
(***************************************************************************)
\* The assumption on a problem of a case.
Cased(p) ==
    /\ ProblemTyped(p) /\ ObjectiveTyped(p) /\ p.pools \subseteq Nat
    /\ \A b \in p.buffers : IsFiniteSet(p.live[b]) /\ p.live[b] \subseteq Int \X Int

LEMMA CasedKnown ==
    ASSUME NEW p, Cased(p), PrepareAccepts(p)
    PROVE  /\ Known(p) /\ ValidProblem(p) /\ p.pools # {}
           /\ \A c \in Classes(p) : /\ c # {} /\ c \in SUBSET p.buffers
                                    /\ Min(c) \in c /\ Min(c) \in Nat /\ ClassOf(p, Min(c)) = c
                                    /\ ClassSize(p, c) \in 0..MaxUInt
<1>1. ValidProblem(p) /\ p.pools # {}
  BY DEF PrepareAccepts, ValidProblem
<1>2. Known(p)
  BY <1>1 DEF ValidProblem, KnownColocations, Known, Cased, ObjectiveTyped
<1>3. ASSUME NEW c \in Classes(p)
      PROVE  /\ c # {} /\ c \in SUBSET p.buffers
             /\ Min(c) \in c /\ Min(c) \in Nat /\ ClassOf(p, Min(c)) = c
             /\ ClassSize(p, c) \in 0..MaxUInt
  <2>1. c # {} /\ c \in SUBSET p.buffers /\ Min(c) \in c /\ ClassOf(p, Min(c)) = c
    BY <1>2, ClassIsOfMember, RepresentativeOfClass DEF Known
  <2>2. ClassSize(p, c) \in 0..MaxUInt
    BY <2>1, ClassSizeLargest DEF Cased
  <2> QED
    BY <1>2, <2>1, <2>2 DEF Known
<1> QED
  BY <1>1, <1>2, <1>3

\* Sorting the classes by distinct keys gives an order of them.
LEMMA OrderByArranges ==
    ASSUME NEW p, Known(p), NEW n \in Nat, NEW key, Keys(key, Classes(p), n)
    PROVE  OrderBy(key) \in Orders(p)
<1> DEFINE S == Classes(p)
           N == Cardinality(S)
           At(i) == CHOOSE c \in S : Cardinality(Below(key, S, c)) = i - 1
           o == [i \in 1..N |-> Min(At(i))]
<1>1. DOMAIN key = S
  BY DEF Keys
<1>2. OrderBy(key) = o
  BY <1>1 DEF OrderBy, Below
<1>3. \A i \in 1..N : At(i) \in S /\ Cardinality(Below(key, S, At(i))) = i - 1
  <2>1. IsFiniteSet(S)
    BY ClassesFinite
  <2>2. \A i \in 1..N : \E c \in S : Cardinality(Below(key, S, c)) = i - 1
    BY <2>1, RanksFilled
  <2> HIDE DEF S, N
  <2> QED
    BY <2>2
<1> HIDE DEF At
<1>4. ASSUME NEW i \in 1..N, NEW j \in 1..N, o[i] = o[j] PROVE i = j
  <2>1. Min(At(i)) = Min(At(j))
    BY <1>4
  <2>2. At(i) = At(j)
    BY <1>3, <2>1, RepresentativeNames
  <2>3. N \in Nat
    BY ClassesFinite, FS_CardinalityType
  <2> QED
    BY <1>3, <2>2, <2>3
<1>5. o \in [1..N -> Representatives(p)]
  BY <1>3 DEF Representatives
<1>6. DOMAIN o = 1..N
  OBVIOUS
<1> HIDE DEF o
<1> QED
  BY <1>2, <1>4, <1>5, <1>6 DEF Orders

\* The first occurrences of the elements of a sequence that is not empty.
LEMMA DistinctKeeps ==
    ASSUME NEW S, NEW s \in Seq(S), Len(s) > 0
    PROVE  Distinct(s) \in Seq(S) /\ Len(Distinct(s)) > 0
<1> DEFINE first == {i \in DOMAIN s : \A j \in 1..(i - 1) : s[j] # s[i]}
           N == Cardinality(first)
           At(k) == CHOOSE i \in first : Cardinality({j \in first : j < i}) = k - 1
           t == [k \in 1..N |-> s[At(k)]]
<1>1. DOMAIN s = 1..Len(s) /\ Len(s) \in Nat /\ \A i \in 1..Len(s) : s[i] \in S
  BY LenProperties, ElementOfSeq
<1>2. IsFiniteSet(first)
  <2>1. first \in SUBSET (1..Len(s)) /\ 1 \in Int /\ Len(s) \in Int
    BY <1>1
  <2> HIDE DEF first
  <2> QED
    BY <2>1, FS_Interval, FS_Subset
<1>3. N \in Nat /\ N # 0
  <2>1. 1 \in first
    BY <1>1
  <2> HIDE DEF first
  <2> QED
    BY <1>2, <2>1, FS_CardinalityType, FS_EmptySet
<1>4. ASSUME NEW k \in 1..N PROVE At(k) \in first
  <2> DEFINE K == [i \in first |-> [one \in 1..1 |-> i]]
  <2>1. first \subseteq Int
    BY <1>1
  <2> HIDE DEF first
  <2>2. \A i \in first : K[i] \in [1..1 -> Int] /\ K[i][1] = i
    BY <2>1
  <2>3. Keys(K, first, 1)
    <3>1. K \in [first -> [1..1 -> Int]]
      BY <2>1
    <3>2. \A i, j \in first : K[i] = K[j] => i = j
      BY <2>2
    <3> HIDE DEF K
    <3> QED
      BY <3>1, <3>2 DEF Keys
  <2>4. PICK i \in first : Cardinality(Below(K, first, i)) = k - 1
    BY <1>2, <2>3, RanksFilled
  <2>5. Below(K, first, i) = {j \in first : j < i}
    <3>1. \A j \in first : ScoreBefore(K[j], K[i]) <=> j < i
      <4>1. DOMAIN K[i] = 1..1 /\ \A j \in first : DOMAIN K[j] = 1..1
        OBVIOUS
      <4> HIDE DEF K
      <4>2. \A j \in first : ScoreBefore(K[j], K[i]) <=> K[j][1] < K[i][1]
        BY <4>1 DEF ScoreBefore
      <4> QED
        BY <2>2, <4>2
    <3> QED
      BY <3>1 DEF Below
  <2> QED
    BY <2>4, <2>5
<1>5. Distinct(s) = t
  BY DEF Distinct
<1>6. \A k \in 1..N : t[k] \in S
  <2>1. \A i \in first : s[i] \in S
    BY <1>1
  <2> HIDE DEF first, At
  <2> QED
    BY <1>4, <2>1
<1>7. t \in [1..N -> S]
  <2>1. DOMAIN t = 1..N /\ t = [k \in 1..N |-> t[k]]
    OBVIOUS
  <2> HIDE DEF t
  <2> QED
    BY <1>6, <2>1
<1> HIDE DEF t, N
<1> QED
  BY <1>3, <1>5, <1>7, SeqDef, LenProperties
(***************************************************************************)
(* The table                                                               *)
(***************************************************************************)
\* Soft edges are pairs of nodes and their weights words.
LEMMA SoftTyped ==
    ASSUME NEW p, Cased(p), PrepareAccepts(p), NEW s, s = SearchSpace(p)
    PROVE  /\ DOMAIN s.pool = Classes(p)
           /\ \A c \in Classes(p) : s.size[c] = ClassSize(p, c)
           /\ DOMAIN s.soft \subseteq Classes(p) \X Classes(p) /\ IsFiniteSet(DOMAIN s.soft)
           /\ \A edge \in DOMAIN s.soft : s.soft[edge] \in 0..MaxUInt
           /\ s.hard \subseteq Classes(p) \X Classes(p)
<1> DEFINE C == Classes(p)
<1>1. /\ s.pool = [c \in C |-> PoolOf(p, c)]
      /\ s.size = [c \in C |-> ClassSize(p, c)]
      /\ s.hard = {edge \in C \X C : edge[1] # edge[2] /\ Blocks(p, edge[1], edge[2])}
      /\ s.soft = [edge \in SoftEdges(p) |-> PenaltySum(p, PenaltiesBetween(p, edge[1], edge[2]))]
  BY DEF SearchSpace, PenaltySum
<1>2. SoftEdges(p) \in SUBSET (C \X C)
  BY DEF SoftEdges
<1>3. IsFiniteSet(SoftEdges(p))
  <2>1. IsFiniteSet(C \X C)
    BY CasedKnown, ClassesFinite, FS_Product
  <2> QED
    BY <1>2, <2>1, FS_Subset
<1>4. ASSUME NEW edge \in SoftEdges(p)
      PROVE  PenaltySum(p, PenaltiesBetween(p, edge[1], edge[2])) \in 0..MaxUInt
  <2> DEFINE I == PenaltiesBetween(p, edge[1], edge[2])
  <2>1. I \in SUBSET DOMAIN p.penalties
    BY DEF PenaltiesBetween
  <2> HIDE DEF I
  <2>2. PenaltySum(p, I) \in 0..MaxUInt
    BY <2>1, PenaltySumTyped DEF Cased
  <2> QED
    BY <2>2 DEF I
<1>5. DOMAIN s.soft = SoftEdges(p) /\ \A edge \in SoftEdges(p) : s.soft[edge] \in 0..MaxUInt
  BY <1>1, <1>4
<1>6. DOMAIN s.pool = C /\ \A c \in C : s.size[c] = ClassSize(p, c)
  BY <1>1
<1>7. s.hard \subseteq C \X C
  BY <1>1
<1> QED
  BY <1>2, <1>3, <1>5, <1>6, <1>7

\* The keys of the three fixed orders of canonical_greedy are numbers.
LEMMA FixedOrdersTyped ==
    ASSUME NEW p, Cased(p), PrepareAccepts(p), NEW s, s = SearchSpace(p)
    PROVE  FixedOrders(p, s) \in Seq(Orders(p)) /\ Len(FixedOrders(p, s)) > 0
<1> DEFINE C == Classes(p)
           size(c) == MaxUInt - s.size[c]
           weight(c) == MaxUInt - IncidentWeight(s, c)
           first == [c \in C |-> <<size(c), FirstBirthOf(p, c), Min(c)>>]
           second == [c \in C |-> <<FirstBirthOf(p, c), Min(c)>>]
           third == [c \in C |-> <<weight(c), size(c), Min(c)>>]
<1>1. Known(p) /\ \A c \in C : Min(c) \in Int /\ size(c) \in Int
  <2>1. \A c \in C : Min(c) \in Nat /\ s.size[c] \in 0..MaxUInt
    BY CasedKnown, SoftTyped
  <2> QED
    BY <2>1, CasedKnown, MaxUIntAssumption
<1>2. ASSUME NEW c \in C, NEW d \in C, Min(c) = Min(d) PROVE c = d
  BY <1>2, CasedKnown
<1>3. ASSUME NEW c \in C PROVE weight(c) \in Int
  <2> DEFINE S == {e \in DOMAIN s.soft : e[1] = c}
  <2>1. IsFiniteSet(S) /\ InWordsOver(s.soft, S)
    BY SoftTyped, FS_Subset DEF InWordsOver
  <2>2. IncidentWeight(s, c) = SumOver(s.soft, S)
    BY DEF IncidentWeight, SaturatingSum, MapThenFoldSet, SumOver, Summed
  <2>3. SumOver(s.soft, S) \in 0..MaxUInt
    BY <2>1, SumUnfolds
  <2> QED
    BY <2>2, <2>3, MaxUIntAssumption
<1>4. ASSUME NEW c \in C PROVE FirstBirthOf(p, c) \in Int
  <2> DEFINE births == UNION {{x[1] : x \in p.live[b]} : b \in c}
  <2>1. c # {} /\ c \in SUBSET p.buffers /\ IsFiniteSet(c)
    BY CasedKnown, FS_Subset DEF Known
  <2>2. ASSUME NEW b \in c PROVE IsFiniteSet({x[1] : x \in p.live[b]})
    <3> DEFINE f == [x \in p.live[b] |-> x[1]]
    <3>1. IsFiniteSet(p.live[b])
      BY <2>1 DEF Cased
    <3>2. IsFiniteSet({f[x] : x \in p.live[b]})
      <4>1. DOMAIN f = p.live[b]
        OBVIOUS
      <4> HIDE DEF f
      <4> QED
        BY <3>1, <4>1, ValuesFinite
    <3>3. {f[x] : x \in p.live[b]} = {x[1] : x \in p.live[b]}
      OBVIOUS
    <3> QED
      BY <3>2, <3>3
  <2>3. IsFiniteSet(births)
    <3> DEFINE sets == {{x[1] : x \in p.live[b]} : b \in c}
               f == [b \in c |-> {x[1] : x \in p.live[b]}]
    <3>1. IsFiniteSet(sets)
      <4>1. DOMAIN f = c /\ {f[b] : b \in c} = sets
        OBVIOUS
      <4> HIDE DEF f, sets
      <4> QED
        BY <2>1, <4>1, ValuesFinite
    <3>2. \A T \in sets : IsFiniteSet(T)
      BY <2>2
    <3> HIDE DEF sets
    <3>3. IsFiniteSet(UNION sets)
      BY <3>1, <3>2, FS_UNION
    <3> QED
      BY <3>3 DEF sets
  <2>4. births \in SUBSET Int /\ births # {}
    <3>1. \A b \in c : p.live[b] \subseteq Int \X Int /\ p.live[b] # {}
      BY <2>1, CasedKnown DEF Cased, ValidProblem, ValidBuffer
    <3> QED
      BY <2>1, <3>1
  <2> HIDE DEF births
  <2>5. Min(births) \in Int
    BY <2>3, <2>4, FiniteBounds
  <2> QED
    BY <2>5 DEF FirstBirthOf, births
<1>5. Keys(first, C, 3) /\ Keys(second, C, 2) /\ Keys(third, C, 3)
  <2>1. first \in [C -> [1..3 -> Int]] /\ second \in [C -> [1..2 -> Int]] /\ third \in [C -> [1..3 -> Int]]
    BY <1>1, <1>3, <1>4
  <2>2. \A c \in C : first[c][3] = Min(c) /\ second[c][2] = Min(c) /\ third[c][3] = Min(c)
    OBVIOUS
  <2> HIDE DEF first, second, third
  <2> QED
    BY <1>2, <2>1, <2>2 DEF Keys
<1> DEFINE orders == <<OrderBy(first), OrderBy(second), OrderBy(third)>>
<1>6. OrderBy(first) \in Orders(p) /\ OrderBy(second) \in Orders(p) /\ OrderBy(third) \in Orders(p)
  <2> HIDE DEF first, second, third
  <2> QED
    BY <1>1, <1>5, OrderByArranges
<1>7. FixedOrders(p, s) = Distinct(orders)
  BY DEF FixedOrders
<1>8. orders \in Seq(Orders(p)) /\ Len(orders) = 3
  <2> HIDE DEF first, second, third
  <2> QED
    BY <1>6
<1> HIDE DEF orders
<1> QED
  BY <1>7, <1>8, DistinctKeeps
(***************************************************************************)
(* Decodings                                                               *)
(***************************************************************************)
\* Promoting soft edges adds separations and changes nothing else.
LEMMA PromotedFields ==
    ASSUME NEW p, ProblemTyped(p), NEW pairs
    PROVE  LET w == WithPromotedReuseEdges(p, pairs)
           IN  /\ w.buffers = p.buffers /\ w.pools = p.pools /\ w.size = p.size
               /\ w.alignment = p.alignment /\ w.live = p.live /\ w.allowed = p.allowed
               /\ w.capacity = p.capacity /\ w.reserved = p.reserved
               /\ w.colocations = p.colocations /\ w.exclusions = p.exclusions
               /\ w.pins = p.pins /\ w.penalties = p.penalties
               /\ w.separations = p.separations \cup {<<Min(e[1]), Min(e[2])>> : e \in pairs}
               /\ DOMAIN w = DOMAIN p
  BY DEF ProblemTyped, WithPromotedReuseEdges

LEMMA PromotedSame ==
    ASSUME NEW p, ProblemTyped(p), NEW pairs
    PROVE  LET w == WithPromotedReuseEdges(p, pairs)
           IN  /\ \A b : ClassOf(w, b) = ClassOf(p, b)
               /\ Classes(w) = Classes(p) /\ Orders(w) = Orders(p)
               /\ \A c : ClassSize(w, c) = ClassSize(p, c) /\ PoolOf(w, c) = PoolOf(p, c)
               /\ \A off : SolutionOf(w, off) = SolutionOf(p, off)
               /\ \A a, b : MustNotReuse(w, a, b) <=> MustNotReuse(p, a, b)
               /\ \A sol, a, b : ExtentsOverlap(w, sol, a, b) <=> ExtentsOverlap(p, sol, a, b)
               /\ \A sol, b : LegalPlace(w, sol, b) <=> LegalPlace(p, sol, b)
               /\ \A sol : FitsCapacities(w, sol) <=> FitsCapacities(p, sol)
               /\ PartialsOf(w) = PartialsOf(p) /\ ProblemTyped(w) /\ (Known(p) => Known(w))
<1> DEFINE w == WithPromotedReuseEdges(p, pairs)
<1>1. /\ w.buffers = p.buffers /\ w.pools = p.pools /\ w.size = p.size
      /\ w.alignment = p.alignment /\ w.live = p.live /\ w.allowed = p.allowed
      /\ w.capacity = p.capacity /\ w.reserved = p.reserved
      /\ w.colocations = p.colocations /\ w.exclusions = p.exclusions
      /\ w.pins = p.pins /\ DOMAIN w = DOMAIN p
  BY PromotedFields
<1> HIDE DEF w
<1>2. \A b : ClassOf(w, b) = ClassOf(p, b)
  BY <1>1 DEF ClassOf, ClosedUnderColocation
<1>3. Classes(w) = Classes(p)
  BY <1>1, <1>2 DEF Classes
<1>4. Orders(w) = Orders(p)
  BY <1>3 DEF Orders, Representatives
<1>5. \A c : ClassSize(w, c) = ClassSize(p, c)
  BY <1>1 DEF ClassSize
<1>6. \A c : PoolOf(w, c) = PoolOf(p, c)
  BY <1>1 DEF PoolOf, Pinned, PinOf, ClassPins, ClassPools
<1>7. \A off : SolutionOf(w, off) = SolutionOf(p, off)
  BY <1>2, <1>6 DEF SolutionOf
<1>8. \A a, b : MustNotReuse(w, a, b) <=> MustNotReuse(p, a, b)
  BY <1>1 DEF MustNotReuse, HaveTemporalConflict, TemporallyExcluded, LifetimesOverlap,
              ExclusivelyPinned
<1>9. \A sol, a, b : ExtentsOverlap(w, sol, a, b) <=> ExtentsOverlap(p, sol, a, b)
  BY <1>2, <1>5 DEF ExtentsOverlap
<1>10. \A sol, b : LegalPlace(w, sol, b) <=> LegalPlace(p, sol, b)
  BY <1>1 DEF LegalPlace, OverlapsReserved
<1>11. \A sol : FitsCapacities(w, sol) <=> FitsCapacities(p, sol)
  <2>1. \A sol, q : PeakOfPool(w, sol, q) = PeakOfPool(p, sol, q)
    BY <1>1 DEF PeakOfPool
  <2> QED
    BY <1>1, <2>1 DEF FitsCapacities
<1>12. PartialsOf(w) = PartialsOf(p)
  BY <1>3 DEF PartialsOf
<1>13. ProblemTyped(w)
  BY <1>1 DEF ProblemTyped
<1>14. Known(p) => Known(w)
  BY <1>1 DEF Known, KnownColocations, KnownPair
<1> QED
  BY <1>2, <1>3, <1>4, <1>5, <1>6, <1>7, <1>8, <1>9, <1>10, <1>11, <1>12, <1>13, <1>14 DEF w

\* What is legal with promoted edges is legal without them, and keeps them apart.
LEMMA PromotedLegal ==
    ASSUME NEW p, ProblemTyped(p), NEW pairs, NEW sol,
           LegalSolution(WithPromotedReuseEdges(p, pairs), sol)
    PROVE  /\ LegalSolution(p, sol)
           /\ \A e \in pairs : ~ExtentsOverlap(p, sol, Min(e[1]), Min(e[2]))
<1> DEFINE w == WithPromotedReuseEdges(p, pairs)
<1>1. /\ w.buffers = p.buffers /\ w.colocations = p.colocations /\ w.pins = p.pins
      /\ w.separations = p.separations \cup {<<Min(e[1]), Min(e[2])>> : e \in pairs}
  BY PromotedFields
<1>2. /\ \A b : ClassOf(w, b) = ClassOf(p, b)
      /\ \A a, b : MustNotReuse(w, a, b) <=> MustNotReuse(p, a, b)
      /\ \A a, b : ExtentsOverlap(w, sol, a, b) <=> ExtentsOverlap(p, sol, a, b)
      /\ \A b : LegalPlace(w, sol, b) <=> LegalPlace(p, sol, b)
  BY PromotedSame
<1>3. LegalSolution(w, sol)
  OBVIOUS
<1> HIDE DEF w
<1>4. LegalSolution(p, sol)
  BY <1>1, <1>2, <1>3 DEF LegalSolution
<1>5. ASSUME NEW e \in pairs PROVE ~ExtentsOverlap(p, sol, Min(e[1]), Min(e[2]))
  <2> DEFINE pair == <<Min(e[1]), Min(e[2])>>
  <2>1. pair \in w.separations
    BY <1>1
  <2>2. ~ExtentsOverlap(w, sol, pair[1], pair[2])
    BY <1>3, <2>1 DEF LegalSolution
  <2> QED
    BY <1>2, <2>2
<1> QED
  BY <1>4, <1>5

\* A result has an objective of words, and a fit is one the validator accepts: it
\* exceeds no capacity.
ResultHolds(p, r) ==
    /\ r.objective \in [{"reuse", "total_peak", "max_peak", "capacity_overflow"} -> 0..MaxUInt]
    /\ r.status = "kFeasible" =>
           /\ r.objective.capacity_overflow = 0
           /\ \A sol \in r.solution : ValidSolution(p, sol) /\ InWords(p, sol)

LEMMA WithoutHolds ==
    ASSUME NEW p, NEW status
    PROVE  ResultHolds(p, Without(status))
<1>1. 0 \in 0..MaxUInt
  BY MaxUIntAssumption
<1> QED
  BY <1>1 DEF ResultHolds, Without, NoObjective

LEMMA WithHolds ==
    ASSUME NEW p, Cased(p), ValidProblem(p), NEW status, NEW sol, InWords(p, sol),
           status = "kFeasible" => ValidSolution(p, sol)
    PROVE  ResultHolds(p, With(p, status, sol))
<1>1. /\ ReuseCost(p, sol) \in 0..MaxUInt /\ TotalPeak(p, sol) \in 0..MaxUInt
      /\ MaxPeak(p, sol) \in 0..MaxUInt /\ CapacityOverflow(p, sol) \in 0..MaxUInt
  BY MetricsTyped DEF Cased, ValidProblem
<1>2. status = "kFeasible" => CapacityOverflow(p, sol) = 0
  <2>1. CapacityOverflow(p, sol) = 0 <=> FitsCapacities(p, sol)
    BY MetricsTyped DEF Cased, ValidProblem
  <2> QED
    BY <2>1, ValidFits DEF Cased
<1> QED
  BY <1>1, <1>2 DEF ResultHolds, With

\* PlaceWithOrder with some of the soft edges promoted: a fit is valid and keeps
\* the promoted edges apart.
LEMMA DecodingHolds ==
    ASSUME NEW p, Cased(p), PrepareAccepts(p), NEW o \in Orders(p), NEW pairs
    PROVE  /\ ResultHolds(p, Decoding(p, o, pairs))
           /\ Decoding(p, o, pairs).status = "kFeasible" =>
                  \A sol \in Decoding(p, o, pairs).solution :
                      \A e \in pairs : ~ExtentsOverlap(p, sol, Min(e[1]), Min(e[2]))
<1> DEFINE w == WithPromotedReuseEdges(p, pairs)
           off == CHOOSE off \in Placements(w, o) : TRUE
           made == SolutionOf(w, off)
           r == Decode(w, o)
           sol == CHOOSE sol \in r.solution : TRUE
<1>1. /\ ProblemTyped(p) /\ Known(p) /\ ValidProblem(p)
      /\ ProblemTyped(w) /\ Known(w) /\ Orders(w) = Orders(p) /\ PartialsOf(w) = PartialsOf(p)
  <2>1. Known(p) /\ ValidProblem(p) /\ ProblemTyped(p)
    BY CasedKnown DEF Cased
  <2> QED
    BY <2>1, PromotedSame
<1>2. CASE r.solution = {}
  <2>1. Decoding(p, o, pairs) = Without(r.status)
    BY <1>2 DEF Decoding
  <2>2. Without(r.status).solution = {}
    BY DEF Without
  <2> QED
    BY <2>1, <2>2, WithoutHolds
<1>3. CASE r.solution # {}
  <2>1. /\ PrepareAccepts(w) /\ ~PinOverflows(w) /\ ~FlexiblePools(w) /\ Placements(w, o) # {}
        /\ r = ResultOf(w, Verdict(w, off), {made})
    BY <1>3 DEF Decode, ResultOf
  <2>2. r.status = Verdict(w, off) /\ r.solution = {made}
    BY <2>1 DEF ResultOf
  <2>3. off \in PartialsOf(p)
    <3>1. off \in Placements(w, o)
      BY <2>1
    <3>2. Placements(w, o) \in SUBSET PartialsOf(w)
      BY <1>1, PlacementsTyped
    <3> QED
      BY <1>1, <3>1, <3>2
  <2> HIDE DEF off
  <2>4. sol = made /\ made = SolutionOf(p, off)
    <3>1. sol = made
      <4> HIDE DEF made, r
      <4> QED
        BY <2>2
    <3>2. made = SolutionOf(p, off)
      BY <1>1, PromotedSame
    <3> QED
      BY <3>1, <3>2
  <2>5. InWords(p, made)
    <3>1. InWords(p, SolutionOf(p, off))
      BY <1>1, <2>3, SolutionTyped
    <3> QED
      BY <2>4, <3>1
  <2>6. Decoding(p, o, pairs) = With(p, r.status, made)
    <3>1. Decoding(p, o, pairs) = With(p, r.status, sol)
      BY <1>3 DEF Decoding
    <3> QED
      BY <2>4, <3>1
  <2>7. ASSUME r.status = "kFeasible"
        PROVE  /\ ValidSolution(p, made)
               /\ \A e \in pairs : ~ExtentsOverlap(p, made, Min(e[1]), Min(e[2]))
    <3>1. ValidSolution(WithoutCapacities(w), made) /\ FitsCapacities(w, made)
      BY <2>2, <2>7 DEF Verdict
    <3>2. LegalSolution(w, made)
      BY <1>1, <3>1, LegalWithoutCapacities
    <3>3. /\ LegalSolution(p, made)
          /\ \A e \in pairs : ~ExtentsOverlap(p, made, Min(e[1]), Min(e[2]))
      BY <1>1, <3>2, PromotedLegal
    <3>4. FitsCapacities(p, made)
      BY <1>1, <3>1, PromotedSame
    <3>5. \A b \in p.buffers : made[b].offset \in 0..MaxUInt
      BY <2>5, <3>3 DEF InWords, LegalSolution
    <3> HIDE DEF made, w
    <3> QED
      BY <1>1, <3>3, <3>4, <3>5, LegalAndFits
  <2> HIDE DEF made, r
  <2>8. ResultHolds(p, With(p, r.status, made))
    BY <1>1, <2>5, <2>7, WithHolds
  <2>9. With(p, r.status, made).solution = {made} /\ With(p, r.status, made).status = r.status
    BY DEF With
  <2> QED
    BY <2>6, <2>7, <2>8, <2>9
<1> QED
  BY <1>2, <1>3
(***************************************************************************)
(* Greedy placements                                                       *)
(***************************************************************************)
\* The placements after the first i classes of an order, from those before.
GreedyStep(p, s, o, i, before) ==
    UNION {{Extend(off, ClassOf(p, o[i]), at) : at \in LeastCost(p, s, off, ClassOf(p, o[i]))} :
               off \in before}

AtMostOne(S) == \A x, y \in S : x = y

\* What a node pays is a number, and of the offsets that cost least the lowest is one.
LEMMA LeastCostOnce ==
    ASSUME NEW p, Cased(p), PrepareAccepts(p), NEW s, s = SearchSpace(p),
           NEW off \in PartialsOf(p), NEW c
    PROVE  AtMostOne(LeastCost(p, s, off, c))
<1> DEFINE key(x) == <<IncrementalReuseCost(s, off, c, x), x>>
<1>1. ASSUME NEW x PROVE IncrementalReuseCost(s, off, c, x) \in 0..MaxUInt
  <2> DEFINE S == PaysFor(s, off, c, x)
             f == [d \in S |-> s.soft[<<c, d>>]]
  <2>1. IsFiniteSet(S)
    <3>1. S \in SUBSET Classes(p)
      BY DEF PaysFor, PartialsOf
    <3>2. IsFiniteSet(Classes(p))
      BY CasedKnown, ClassesFinite
    <3> HIDE DEF S
    <3> QED
      BY <3>1, <3>2, FS_Subset
  <2>2. f \in [S -> 0..MaxUInt]
    BY SoftTyped DEF PaysFor
  <2>3. IncrementalReuseCost(s, off, c, x) = SumOver(f, S)
    BY IncrementalCostSums
  <2> HIDE DEF S, f
  <2> QED
    BY <2>1, <2>2, <2>3, SumTyped
<1>2. ASSUME NEW x \in LeastCost(p, s, off, c), NEW y \in LeastCost(p, s, off, c) PROVE x = y
  <2>1. x \in 0..MaxUInt /\ y \in 0..MaxUInt
    BY DEF LeastCost, CanonicalOffsetsForNode
  <2>2. ~ScoreBefore(key(x), key(y)) /\ ~ScoreBefore(key(y), key(x))
    BY DEF LeastCost
  <2>3. key(x) \in [1..2 -> Int] /\ key(y) \in [1..2 -> Int]
    BY <1>1, <2>1
  <2>4. key(x)[2] = x /\ key(y)[2] = y
    OBVIOUS
  <2> HIDE DEF key
  <2>5. key(x) = key(y)
    BY <2>2, <2>3, ScoresCompare
  <2> QED
    BY <2>4, <2>5
<1> QED
  BY <1>2 DEF AtMostOne

\* The sets of partial placements a greedy order goes through: empty or of one.
SomePartial(p) == {before \in SUBSET PartialsOf(p) : AtMostOne(before)}

LEMMA GreedyStepPartial ==
    ASSUME NEW p, Cased(p), PrepareAccepts(p), NEW s, s = SearchSpace(p),
           NEW o \in Orders(p), NEW i \in 1..Len(o), NEW before \in SomePartial(p)
    PROVE  GreedyStep(p, s, o, i, before) \in SomePartial(p)
<1> DEFINE class == ClassOf(p, o[i])
<1>0. Known(p) /\ before \in SUBSET PartialsOf(p) /\ AtMostOne(before)
  BY CasedKnown DEF SomePartial
<1>1. class \in Classes(p)
  <2>1. o \in Seq(Representatives(p))
    BY <1>0, OrdersArrange DEF Arrangement
  <2>2. o[i] \in Representatives(p)
    BY <2>1, LenProperties
  <2> QED
    BY <1>0, <2>2, RepresentativeNames
<1>2. \A off \in before : \A at \in LeastCost(p, s, off, class) : Extend(off, class, at) \in PartialsOf(p)
  <2>1. \A off : LeastCost(p, s, off, class) \subseteq 0..MaxUInt
    BY DEF LeastCost, CanonicalOffsetsForNode
  <2> HIDE DEF class
  <2> QED
    BY <1>0, <1>1, <2>1, ExtendPartial
<1>3. \A off \in before : AtMostOne(LeastCost(p, s, off, class))
  BY <1>0, LeastCostOnce
<1> HIDE DEF class
<1>4. AtMostOne(UNION {{Extend(off, class, at) : at \in LeastCost(p, s, off, class)} : off \in before})
  BY <1>0, <1>3 DEF AtMostOne
<1> QED
  BY <1>2, <1>4 DEF GreedyStep, SomePartial, class

LEMMA GreedilyPlacedHolds ==
    ASSUME NEW p, Cased(p), PrepareAccepts(p), NEW s, s = SearchSpace(p), NEW o \in Orders(p)
    PROVE  /\ \A found \in GreedilyPlaced(p, s, o) : ResultHolds(p, found) /\ found.status = "kFeasible"
           /\ AtMostOne(GreedilyPlaced(p, s, o))
<1> DEFINE n == Len(o)
           V == SomePartial(p)
           D == [x \in (1..n) \X V |-> GreedyStep(p, s, o, x[1], x[2])]
           Step(g, i) == IF i = 0 THEN {<<>>} ELSE GreedyStep(p, s, o, i, g[i - 1])
           after == CHOOSE g : g = [i \in 0..n |-> Step(g, i)]
<1>0. Known(p) /\ ValidProblem(p)
  BY CasedKnown
<1>1. n \in Nat
  <2>1. o \in Seq(Representatives(p))
    BY <1>0, OrdersArrange DEF Arrangement
  <2> QED
    BY <2>1, LenProperties
<1>2. {<<>>} \in V
  <2>1. <<>> \in [{} -> 0..MaxUInt]
    OBVIOUS
  <2>2. <<>> \in PartialsOf(p)
    BY <2>1 DEF PartialsOf
  <2> QED
    BY <2>2 DEF SomePartial, AtMostOne
<1>3. D \in [(1..n) \X V -> V]
  <2>1. \A x \in (1..n) \X V : GreedyStep(p, s, o, x[1], x[2]) \in V
    BY <1>0, GreedyStepPartial
  <2> HIDE DEF V, n
  <2> QED
    BY <2>1
<1>4. GreedilyPlaced(p, s, o) =
          {With(p, "kFeasible", sol) : sol \in {x \in {SolutionOf(p, off) : off \in after[n]} :
                                                   ValidSolution(p, x)}}
  BY DEF GreedilyPlaced, GreedyStep
<1>5. PICK g : RecursionIn(n, V, {<<>>}, D, g)
  <2> DEFINE base == {<<>>}
  <2>1. base \in V
    BY <1>2
  <2> HIDE DEF D, V, n, base
  <2>2. \E g : RecursionIn(n, V, base, D, g)
    BY <1>1, <1>3, <2>1, RecursionTyped
  <2> QED
    BY <2>2 DEF base
<1>6. g = [i \in 0..n |-> Step(g, i)]
  <2>0. g \in [0..n -> V] /\ g[0] = {<<>>} /\ \A i \in 1..n : g[i] = D[<<i, g[i - 1]>>]
    <3> HIDE DEF D, V, n
    <3> QED
      BY <1>5 DEF RecursionIn
  <2>1. \A i \in 1..n : i - 1 \in 0..n
    BY <1>1
  <2>2. \A i \in 1..n : g[i] = GreedyStep(p, s, o, i, g[i - 1])
    <3>1. \A i \in 1..n : <<i, g[i - 1]>> \in (1..n) \X V
      <4> HIDE DEF V, n
      <4> QED
        BY <2>0, <2>1
    <3> HIDE DEF V, n
    <3> QED
      BY <2>0, <3>1
  <2>3. \A i \in 0..n : i = 0 \/ i \in 1..n
    BY <1>1
  <2>4. \A i \in 0..n : g[i] = Step(g, i)
    BY <2>0, <2>2, <2>3
  <2>5. g = [i \in 0..n |-> g[i]]
    BY <2>0
  <2> HIDE DEF Step, n
  <2> QED
    BY <2>4, <2>5
<1>7. after = [i \in 0..n |-> Step(after, i)]
  <2> HIDE DEF Step, n
  <2> QED
    BY <1>6
<1>8. \A i \in 0..n : after[i] = Step(after, i)
  <2> HIDE DEF Step, n, after
  <2> QED
    BY <1>7
<1> DEFINE T == {i \in 0..n : after[i] \in V}
<1>9. 0 \in T
  <2> HIDE DEF after
  <2> QED
    BY <1>1, <1>2, <1>8
<1>10. ASSUME NEW i \in 1..n, i - 1 \in T PROVE i \in T
  <2>1. i \in 0..n /\ i # 0
    BY <1>1
  <2>2. after[i] = GreedyStep(p, s, o, i, after[i - 1])
    <3> HIDE DEF after
    <3> QED
      BY <1>8, <2>1
  <2>3. after[i - 1] \in V
    BY <1>10
  <2> HIDE DEF after
  <2>4. GreedyStep(p, s, o, i, after[i - 1]) \in V
    BY <1>0, <2>3, GreedyStepPartial
  <2> QED
    BY <2>1, <2>2, <2>4
<1> HIDE DEF T, n
<1>11. \A i \in 0..n : i \in T
  BY <1>1, <1>9, <1>10, NaturalInduction
<1>12. n \in 0..n
  BY <1>1
<1> HIDE DEF after
<1>13. after[n] \subseteq PartialsOf(p) /\ AtMostOne(after[n])
  BY <1>11, <1>12 DEF T, SomePartial
<1>14. \A off \in after[n] : InWords(p, SolutionOf(p, off))
  BY <1>0, <1>13, SolutionTyped
<1>15. \A sol : InWords(p, sol) /\ ValidSolution(p, sol) =>
           ResultHolds(p, With(p, "kFeasible", sol)) /\ With(p, "kFeasible", sol).status = "kFeasible"
  BY <1>0, WithHolds DEF With
<1>16. AtMostOne(GreedilyPlaced(p, s, o))
  <2>1. AtMostOne({SolutionOf(p, off) : off \in after[n]})
    BY <1>13 DEF AtMostOne
  <2> QED
    BY <1>4, <2>1 DEF AtMostOne
<1> QED
  BY <1>4, <1>14, <1>15, <1>16

\* The table of a searchable problem.
LEMMA TableTyped ==
    ASSUME NEW p, Cased(p), Searchable(p), NEW t, t = TableOf(p)
    PROVE  /\ t.space = SearchSpace(p)
           /\ t.soft \subseteq DOMAIN t.space.soft /\ IsFiniteSet(t.soft)
           /\ t.soft \subseteq Classes(p) \X Classes(p)
           /\ t.orders \in Seq(Orders(p)) /\ Len(t.orders) > 0
           /\ DOMAIN t.decoded = Orders(p) \X SUBSET t.soft
           /\ \A o \in Orders(p), pairs \in SUBSET t.soft :
                  t.decoded[<<o, pairs>>] = Decoding(p, o, pairs)
           /\ \A o \in Orders(p) : t.placed[o] = GreedilyPlaced(p, t.space, o)
<1> DEFINE s == SearchSpace(p)
           soft == SoftPairsOf(p)
           decoded == [x \in Orders(p) \X SUBSET soft |-> Decoding(p, x[1], x[2])]
           placed == [o \in Orders(p) |-> GreedilyPlaced(p, s, o)]
<1>1. t = [space |-> s, soft |-> soft, orders |-> FixedOrders(p, s),
           decoded |-> Tabulated(decoded), placed |-> Tabulated(placed)]
  BY DEF TableOf
<1>2. Tabulated(decoded) = decoded /\ Tabulated(placed) = placed
  BY TabulatedIs
<1>3. PrepareAccepts(p)
  BY DEF Searchable
<1> HIDE DEF s
<1>4. soft \subseteq DOMAIN s.soft /\ IsFiniteSet(soft) /\ soft \subseteq Classes(p) \X Classes(p)
  <2>1. soft \in SUBSET DOMAIN s.soft
    <3>1. UNION {SoftPairs(s, q) : q \in p.pools} \in SUBSET DOMAIN s.soft
      BY DEF SoftPairs
    <3>2. soft = UNION {SoftPairs(s, q) : q \in p.pools} \/ soft = {}
      BY DEF SoftPairsOf, s
    <3> QED
      BY <3>1, <3>2
  <2>2. IsFiniteSet(DOMAIN s.soft) /\ DOMAIN s.soft \subseteq Classes(p) \X Classes(p)
    BY <1>3, SoftTyped DEF s
  <2> HIDE DEF soft
  <2> QED
    BY <2>1, <2>2, FS_Subset
<1>5. FixedOrders(p, s) \in Seq(Orders(p)) /\ Len(FixedOrders(p, s)) > 0
  BY <1>3, FixedOrdersTyped DEF s
<1>6. \A o \in Orders(p), pairs \in SUBSET soft :
          decoded[<<o, pairs>>] = Decoding(p, o, pairs)
  OBVIOUS
<1>7. DOMAIN decoded = Orders(p) \X SUBSET soft /\ \A o \in Orders(p) : placed[o] = GreedilyPlaced(p, s, o)
  OBVIOUS
<1> HIDE DEF decoded, placed, soft
<1>8. t.space = s /\ t.soft = soft /\ t.orders = FixedOrders(p, s) /\ t.decoded = decoded /\ t.placed = placed
  BY <1>1, <1>2
<1> QED
  BY <1>4, <1>5, <1>6, <1>7, <1>8 DEF s
-----------------------------------------------------------------------------
(***************************************************************************)
(* What the invariants add to IInv                                         *)
(***************************************************************************)
Search == "reuse_penalty_local_search"

Candidates == Orders(problem) \X SUBSET AllSoft

\* The problem and the options are those of a case.
InputInv == \E x \in Cases : problem = x[1] /\ options = x[2] /\ table = TableOf(problem)

LEMMA InputTyped ==
    ASSUME InputInv
    PROVE  /\ Cased(problem) /\ table = TableOf(problem)
           /\ options.solver \in Baselines \cup {Search}
           /\ {options.randomRestarts, options.samples, options.rank, options.maxNodes,
               options.maxEvaluations, options.restarts, options.stagnationLimit,
               options.softMoves, options.orderMoves} \subseteq Nat
<1>1. PICK x \in Cases : problem = x[1] /\ options = x[2] /\ table = TableOf(problem)
  BY DEF InputInv
<1>2. /\ ProblemTyped(x[1]) /\ ObjectiveTyped(x[1]) /\ x[1].pools \subseteq Nat
      /\ \A b \in x[1].buffers : IsFiniteSet(x[1].live[b]) /\ x[1].live[b] \subseteq Int \X Int
      /\ x[2].solver \in Baselines \cup {Search}
      /\ {x[2].randomRestarts, x[2].samples, x[2].rank, x[2].maxNodes, x[2].maxEvaluations,
          x[2].restarts, x[2].stagnationLimit, x[2].softMoves, x[2].orderMoves} \subseteq Nat
  BY CasesAssumption DEF Search
<1>3. Cased(problem)
  BY <1>1, <1>2 DEF Cased
<1> QED
  BY <1>1, <1>2, <1>3

LEMMA Tables ==
    ASSUME InputInv, Searchable(problem)
    PROVE  /\ table.space = SearchSpace(problem) /\ Nodes = Classes(problem)
           /\ AllSoft \subseteq DOMAIN table.space.soft /\ IsFiniteSet(AllSoft)
           /\ AllSoft \subseteq Nodes \X Nodes
           /\ table.orders \in Seq(Orders(problem)) /\ Len(table.orders) > 0
           /\ DOMAIN table.decoded = Candidates
           /\ \A x \in Candidates :
                  /\ table.decoded[x] = Decoding(problem, x[1], x[2])
                  /\ ResultHolds(problem, table.decoded[x])
           /\ \A o \in Orders(problem) :
                  /\ table.placed[o] = GreedilyPlaced(problem, table.space, o)
                  /\ \A found \in table.placed[o] :
                         ResultHolds(problem, found) /\ found.status = "kFeasible"
                  /\ AtMostOne(table.placed[o])
<1>1. Cased(problem) /\ table = TableOf(problem) /\ PrepareAccepts(problem)
  BY InputTyped DEF Searchable
<1>2. /\ table.space = SearchSpace(problem)
      /\ table.soft \subseteq DOMAIN table.space.soft /\ IsFiniteSet(table.soft)
      /\ table.soft \subseteq Classes(problem) \X Classes(problem)
      /\ table.orders \in Seq(Orders(problem)) /\ Len(table.orders) > 0
      /\ DOMAIN table.decoded = Orders(problem) \X SUBSET table.soft
      /\ \A o \in Orders(problem), pairs \in SUBSET table.soft :
             table.decoded[<<o, pairs>>] = Decoding(problem, o, pairs)
      /\ \A o \in Orders(problem) : table.placed[o] = GreedilyPlaced(problem, table.space, o)
  BY <1>1, TableTyped
<1>3. Nodes = Classes(problem)
  BY <1>1, <1>2, SoftTyped DEF Nodes
<1>4. \A x \in Candidates :
          /\ table.decoded[x] = Decoding(problem, x[1], x[2])
          /\ ResultHolds(problem, table.decoded[x])
  <2> SUFFICES ASSUME NEW o \in Orders(problem), NEW pairs \in SUBSET AllSoft
               PROVE  /\ table.decoded[<<o, pairs>>] = Decoding(problem, o, pairs)
                      /\ ResultHolds(problem, table.decoded[<<o, pairs>>])
    BY DEF Candidates
  <2>1. table.decoded[<<o, pairs>>] = Decoding(problem, o, pairs)
    BY <1>2 DEF AllSoft
  <2> QED
    BY <1>1, <2>1, DecodingHolds
<1>5. \A o \in Orders(problem) : \A found \in table.placed[o] :
          ResultHolds(problem, found) /\ found.status = "kFeasible"
  BY <1>1, <1>2, GreedilyPlacedHolds
<1>6. \A o \in Orders(problem) : AtMostOne(table.placed[o])
  BY <1>1, <1>2, GreedilyPlacedHolds
<1> QED
  BY <1>2, <1>3, <1>4, <1>5, <1>6 DEF AllSoft, Candidates

(***************************************************************************)
(* Scores                                                                  *)
(***************************************************************************)
Width == Len(problem.terms) + 2
Words == [1..Width -> 0..MaxUInt]

LEMMA WordsAreVectors == InputInv => Width \in Nat /\ Words \subseteq [1..Width -> Int]
<1> SUFFICES ASSUME InputInv PROVE Width \in Nat /\ Words \subseteq [1..Width -> Int]
  OBVIOUS
<1>1. Len(problem.terms) \in Nat
  BY InputTyped, LenProperties DEF Cased, ObjectiveTyped
<1> QED
  BY <1>1, MaxUIntAssumption DEF Width, Words

LEMMA SearchScoreTyped ==
    ASSUME InputInv, "bank_cost" \notin Range(problem.terms), NEW r, ResultHolds(problem, r)
    PROVE  SearchScore(problem, r) \in Words
<1> DEFINE terms == problem.terms
           rest == [i \in DOMAIN terms |-> r.objective[terms[i]]]
           head == <<IF r.status = "kFeasible" THEN 0 ELSE 1, r.objective.capacity_overflow>>
           names == {"reuse", "total_peak", "max_peak", "capacity_overflow"}
<1>1. terms \in Seq(names \cup {"bank_cost"}) /\ DOMAIN terms = 1..Len(terms) /\ Len(terms) \in Nat
  <2>1. terms \in Seq({"reuse", "total_peak", "max_peak", "capacity_overflow", "bank_cost"})
    BY InputTyped DEF Cased, ObjectiveTyped
  <2>2. names \cup {"bank_cost"} = {"reuse", "total_peak", "max_peak", "capacity_overflow", "bank_cost"}
    OBVIOUS
  <2> QED
    BY <2>1, <2>2, LenProperties
<1>2. \A i \in DOMAIN terms : terms[i] \in names
  <2>1. \A i \in DOMAIN terms : terms[i] \in names \cup {"bank_cost"} /\ terms[i] # "bank_cost"
    <3>1. \A i \in DOMAIN terms : terms[i] \in names \cup {"bank_cost"}
      <4> HIDE DEF names, terms
      <4> QED
        BY <1>1, ElementOfSeq
    <3> QED
      BY <3>1 DEF Range
  <2> QED
    BY <2>1
<1>3. r.objective \in [names -> 0..MaxUInt]
  BY DEF ResultHolds
<1>4. 0 \in 0..MaxUInt /\ 1 \in 0..MaxUInt /\ MaxUInt \in 0..MaxUInt
  BY MaxUIntAssumption
<1>5. rest \in Seq(0..MaxUInt) /\ Len(rest) = Len(terms)
  <2>1. \A i \in DOMAIN terms : r.objective[terms[i]] \in 0..MaxUInt
    <3> HIDE DEF names, terms
    <3> QED
      BY <1>2, <1>3
  <2>2. rest \in [1..Len(terms) -> 0..MaxUInt]
    BY <1>1, <2>1
  <2> DEFINE n == Len(terms)
             W == 0..MaxUInt
  <2>3. n \in Nat /\ rest \in [1..n -> W]
    BY <1>1, <2>2
  <2> HIDE DEF rest, terms, W, n
  <2>4. rest \in Seq(W) /\ Len(rest) = n
    BY <2>3
  <2> QED
    BY <2>4 DEF n, W
<1>6. head \in Seq(0..MaxUInt) /\ Len(head) = 2
  <2>1. r.objective.capacity_overflow \in 0..MaxUInt
    BY <1>3
  <2> QED
    BY <1>4, <2>1
<1> HIDE DEF head, rest
<1>7. head \o rest \in Seq(0..MaxUInt) /\ Len(head \o rest) = Width
  <2>1. head \o rest \in Seq(0..MaxUInt) /\ Len(head \o rest) = Len(head) + Len(rest)
    BY <1>5, <1>6, ConcatProperties
  <2>2. 2 + Len(problem.terms) = Width
    BY <1>1 DEF Width
  <2> HIDE DEF terms
  <2> QED
    BY <1>5, <1>6, <2>1, <2>2 DEF terms
<1>8. head \o rest \in Words
  <2> DEFINE h == head \o rest
  <2> HIDE DEF h
  <2>1. h \in Words
    BY <1>7, LenProperties DEF h, Words
  <2> QED
    BY <2>1 DEF h
<1>9. [i \in 1..Width |-> MaxUInt] \in Words
  BY <1>4 DEF Words
<1>10. \/ SearchScore(problem, r) = head \o rest
       \/ SearchScore(problem, r) = [i \in 1..Width |-> MaxUInt]
  BY DEF SearchScore, head, rest, Width
<1> QED
  BY <1>8, <1>9, <1>10
\* A search that is not refused.
Ready == InputInv /\ SearchRefusal(problem) = "none"

LEMMA ReadyFacts ==
    ASSUME Ready
    PROVE  /\ InputInv /\ Cased(problem) /\ PrepareAccepts(problem) /\ Known(problem)
           /\ Searchable(problem) /\ "bank_cost" \notin Range(problem.terms)
<1>1. /\ InputInv /\ PrepareAccepts(problem) /\ FixedCapacities(problem)
      /\ \A b \in problem.buffers : ~(Cardinality(problem.allowed[b]) > 1)
      /\ "bank_cost" \notin Range(problem.terms)
  BY DEF Ready, SearchRefusal
<1>2. Cased(problem) /\ Known(problem) /\ ValidProblem(problem)
  BY <1>1, InputTyped, CasedKnown
<1>3. ASSUME NEW b \in problem.buffers PROVE Cardinality(problem.allowed[b]) = 1
  <2>1. problem.allowed[b] # {} /\ problem.allowed[b] \in SUBSET problem.pools /\ IsFiniteSet(problem.pools)
    BY <1>2 DEF ValidProblem, ValidBuffer, Cased, ObjectiveTyped
  <2>2. IsFiniteSet(problem.allowed[b])
    BY <2>1, FS_Subset
  <2>3. Cardinality(problem.allowed[b]) \in Nat /\ Cardinality(problem.allowed[b]) # 0
    BY <2>1, <2>2, FS_CardinalityType, FS_EmptySet
  <2> QED
    BY <1>1, <2>3
<1> QED
  BY <1>1, <1>2, <1>3 DEF Searchable

LEMMA CandidatesTyped ==
    ASSUME Ready, NEW x \in Candidates
    PROVE  /\ ScoreOfCandidate(x) \in Words /\ ScoreOfCandidate(x) \in [1..Width -> Int]
           /\ Cardinality(x[2]) \in Nat
           /\ x[1] \in [1..Cardinality(Classes(problem)) -> Int]
           /\ Cardinality(Classes(problem)) \in Nat /\ Width \in Nat
<1>1. ScoreOfCandidate(x) \in Words
  BY ReadyFacts, Tables, SearchScoreTyped DEF ScoreOfCandidate
<1>2. x[1] \in Orders(problem) /\ x[2] \in SUBSET AllSoft
  BY DEF Candidates
<1>3. Cardinality(x[2]) \in Nat
  BY <1>2, ReadyFacts, Tables, FS_Subset, FS_CardinalityType
<1>4. x[1] \in [1..Cardinality(Classes(problem)) -> Int]
  <2>1. Representatives(problem) \subseteq Int
    BY ReadyFacts, RepresentativeNames DEF Known
  <2>2. x[1] \in [1..Cardinality(Classes(problem)) -> Representatives(problem)]
    BY <1>2 DEF Orders
  <2> QED
    BY <2>1, <2>2
<1>5. Cardinality(Classes(problem)) \in Nat
  BY ReadyFacts, ClassesFinite, FS_CardinalityType
<1> QED
  BY <1>1, <1>3, <1>4, <1>5, ReadyFacts, WordsAreVectors

\* Candidates are compared by a strict order, scores first.
LEMMA BetterScores ==
    ASSUME Ready, NEW x \in Candidates, NEW y \in Candidates
    PROVE  /\ Better(x, y) => ~ScoreBefore(ScoreOfCandidate(y), ScoreOfCandidate(x))
           /\ ~Better(x, y) => ~ScoreBefore(ScoreOfCandidate(x), ScoreOfCandidate(y))
           /\ ~Better(x, x)
           /\ ~(Better(x, y) /\ Better(y, x))
<1> DEFINE s(u) == ScoreOfCandidate(u)
           m == Cardinality(Classes(problem))
<1>1. s(x) \in [1..Width -> Int] /\ s(y) \in [1..Width -> Int] /\ Width \in Nat
  BY CandidatesTyped
<1>2. x[1] \in [1..m -> Int] /\ y[1] \in [1..m -> Int] /\ m \in Nat
  BY CandidatesTyped
<1>3. Cardinality(x[2]) \in Nat /\ Cardinality(y[2]) \in Nat
  BY CandidatesTyped
<1>4. ~ScoreBefore(s(x), s(x)) /\ ~(ScoreBefore(s(x), s(y)) /\ ScoreBefore(s(y), s(x)))
      /\ ~ScoreBefore(s(y), s(y))
  BY <1>1, ScoresOrdered
<1>5. ~ScoreBefore(x[1], x[1]) /\ ~(ScoreBefore(x[1], y[1]) /\ ScoreBefore(y[1], x[1]))
  BY <1>2, ScoresOrdered
<1> HIDE DEF s
<1>6. Better(x, y) <=> \/ ScoreBefore(s(x), s(y))
                       \/ /\ s(x) = s(y)
                          /\ \/ Cardinality(x[2]) > Cardinality(y[2])
                             \/ Cardinality(x[2]) = Cardinality(y[2]) /\ ScoreBefore(x[1], y[1])
  BY DEF Better, s
<1>7. Better(y, x) <=> \/ ScoreBefore(s(y), s(x))
                       \/ /\ s(y) = s(x)
                          /\ \/ Cardinality(y[2]) > Cardinality(x[2])
                             \/ Cardinality(y[2]) = Cardinality(x[2]) /\ ScoreBefore(y[1], x[1])
  BY DEF Better, s
<1>8. Better(x, x) <=> \/ ScoreBefore(s(x), s(x))
                       \/ /\ s(x) = s(x)
                          /\ \/ Cardinality(x[2]) > Cardinality(x[2])
                             \/ Cardinality(x[2]) = Cardinality(x[2]) /\ ScoreBefore(x[1], x[1])
  BY DEF Better, s
<1>9. /\ Better(x, y) => ~ScoreBefore(s(y), s(x))
      /\ ~Better(x, y) => ~ScoreBefore(s(x), s(y))
      /\ ~Better(x, x)
      /\ ~(Better(x, y) /\ Better(y, x))
  BY <1>3, <1>4, <1>5, <1>6, <1>7, <1>8
<1> QED
  BY <1>9 DEF s

\* What is not better than one that is not better is not better.
LEMMA BetterChain ==
    ASSUME Ready, NEW x \in Candidates, NEW y \in Candidates, NEW z \in Candidates,
           ~Better(x, y), ~Better(y, z)
    PROVE  ~Better(x, z)
<1> DEFINE s(u) == ScoreOfCandidate(u)
           k(u) == Cardinality(u[2])
           m == Cardinality(Classes(problem))
           B(u, v) == \/ ScoreBefore(s(u), s(v))
                      \/ /\ s(u) = s(v)
                         /\ \/ k(u) > k(v)
                            \/ k(u) = k(v) /\ ScoreBefore(u[1], v[1])
<1>1. s(x) \in [1..Width -> Int] /\ s(y) \in [1..Width -> Int] /\ s(z) \in [1..Width -> Int] /\ Width \in Nat
  BY CandidatesTyped
<1>2. x[1] \in [1..m -> Int] /\ y[1] \in [1..m -> Int] /\ z[1] \in [1..m -> Int] /\ m \in Nat
  BY CandidatesTyped
<1>3. k(x) \in Nat /\ k(y) \in Nat /\ k(z) \in Nat
  BY CandidatesTyped
<1>4. ~B(x, y) /\ ~B(y, z)
  BY DEF Better
<1>5. /\ s(x) = s(y) \/ ScoreBefore(s(x), s(y)) \/ ScoreBefore(s(y), s(x))
      /\ s(y) = s(z) \/ ScoreBefore(s(y), s(z)) \/ ScoreBefore(s(z), s(y))
      /\ ~(ScoreBefore(s(x), s(z)) /\ ScoreBefore(s(z), s(x)))
      /\ ~ScoreBefore(s(z), s(z))
      /\ ScoreBefore(s(z), s(y)) /\ ScoreBefore(s(y), s(x)) => ScoreBefore(s(z), s(x))
  BY <1>1, ScoresCompare, ScoresOrdered
<1>6. ~ScoreBefore(x[1], y[1]) /\ ~ScoreBefore(y[1], z[1]) => ~ScoreBefore(x[1], z[1])
  BY <1>2, ScoresChain
<1> HIDE DEF s, k
<1>7. ~B(x, z)
  BY <1>3, <1>4, <1>5, <1>6
<1> QED
  BY <1>7 DEF Better, s, k

LEMMA BetterOfIs ==
    ASSUME Ready, NEW x \in Candidates, NEW y \in Candidates
    PROVE  /\ BetterOf(x, y) \in {x, y} /\ BetterOf(x, y) \in Candidates
           /\ ~Better(x, BetterOf(x, y)) /\ ~Better(y, BetterOf(x, y))
<1>1. CASE Better(x, y)
  BY <1>1, BetterScores DEF BetterOf
<1>2. CASE ~Better(x, y)
  BY <1>2, BetterScores DEF BetterOf
<1> QED
  BY <1>1, <1>2

(***************************************************************************)
(* The least of the scores that are kept                                   *)
(***************************************************************************)
Low(s, scores) == s \in scores /\ \A o \in scores : ~ScoreBefore(o, s)

\* One more score.
LEMMA LesserLow ==
    ASSUME InputInv, NEW S \in SUBSET Words, NEW l, Low(l, S), NEW s \in Words
    PROVE  Low(Lesser(s, l), S \cup {s})
<1>1. l \in [1..Width -> Int] /\ s \in [1..Width -> Int] /\ Width \in Nat
      /\ \A o \in S : o \in [1..Width -> Int]
  BY WordsAreVectors DEF Low
<1>2. CASE ScoreBefore(s, l)
  <2>1. ASSUME NEW o \in S PROVE ~ScoreBefore(o, s)
    BY <1>1, <1>2, ScoresOrdered DEF Low
  <2> QED
    BY <1>1, <1>2, <2>1, ScoresOrdered DEF Low, Lesser
<1>3. CASE ~ScoreBefore(s, l)
  BY <1>3 DEF Low, Lesser
<1> QED
  BY <1>2, <1>3

\* The least stays among scores that are as good as those left out.
LEMMA LowOfPart ==
    ASSUME InputInv, NEW S \in SUBSET Words, NEW l, Low(l, S), NEW T \in SUBSET S,
           \A s \in S : \E t \in T : ~ScoreBefore(s, t)
    PROVE  Low(l, T)
<1>1. l \in S /\ \A o \in S : ~ScoreBefore(o, l)
  BY DEF Low
<1>2. PICK t \in T : ~ScoreBefore(l, t)
  BY <1>1
<1>3. t \in S /\ ~ScoreBefore(t, l)
  BY <1>1
<1>4. l \in [1..Width -> Int] /\ t \in [1..Width -> Int] /\ Width \in Nat
  BY <1>1, <1>3, WordsAreVectors
<1>5. l = t
  BY <1>2, <1>3, <1>4, ScoresCompare
<1> QED
  BY <1>1, <1>5 DEF Low
(***************************************************************************)
(* Moves                                                                   *)
(***************************************************************************)
\* Moves between two positions of an order give orders.
LEMMA MovesOrder ==
    ASSUME NEW p, Known(p), NEW o \in Orders(p),
           NEW i \in DOMAIN o, NEW j \in DOMAIN o, i # j
    PROVE  MovesBetween(o, i, j) \subseteq Orders(p)
<1> DEFINE R == Representatives(p)
           l == Len(o)
           swapped == [o EXCEPT ![i] = o[j], ![j] = o[i]]
           k == IF i < j THEN j - 1 ELSE j
           moved == InsertAt(RemoveAt(o, i), k, o[i])
<1>1. Arrangement(o, R)
  BY OrdersArrange
<1>2. /\ o \in Seq(R) /\ l \in Nat /\ DOMAIN o = 1..l /\ o \in [1..l -> R]
      /\ i \in 1..l /\ j \in 1..l
  BY <1>1, LenProperties DEF Arrangement
<1>3. Arrangement(swapped, R)
  <2> DEFINE at == [n \in 1..l |-> IF n = i THEN j ELSE IF n = j THEN i ELSE n]
  <2>1. at \in [1..l -> 1..l] /\ \A n \in 1..l : at[at[n]] = n
    BY <1>2
  <2>2. swapped = [n \in 1..l |-> o[at[n]]]
    BY <1>2
  <2>3. swapped = Permuted(o, at)
    BY <2>2 DEF Permuted
  <2> HIDE DEF swapped, at
  <2> QED
    BY <1>1, <2>1, <2>3, ArrangementPermuted
<1>4. Arrangement(moved, R)
  <2> DEFINE rest == RemoveAt(o, i)
  <2>1. Arrangement(rest, R \ {o[i]}) /\ Len(rest) = l - 1
    BY <1>1, <1>2, ArrangementRemoved
  <2>2. k \in 1..(Len(rest) + 1) /\ o[i] \notin R \ {o[i]} /\ o[i] \in R
    BY <1>2, <2>1
  <2> HIDE DEF rest, k
  <2>3. Arrangement(InsertAt(rest, k, o[i]), (R \ {o[i]}) \cup {o[i]})
    BY <2>1, <2>2, ArrangementInserted
  <2>4. (R \ {o[i]}) \cup {o[i]} = R
    BY <2>2
  <2> QED
    BY <2>3, <2>4 DEF rest
<1>5. MovesBetween(o, i, j) = {swapped, moved}
  BY DEF MovesBetween
<1> HIDE DEF swapped, moved
<1> QED
  BY <1>3, <1>4, <1>5, OrdersArrange

LEMMA OrderMovesTyped ==
    ASSUME NEW p, Known(p), NEW o \in Orders(p)
    PROVE  OrderMoves(o) \subseteq Orders(p) /\ OrderMoves(o) # {}
<1>1. \A x \in {y \in (DOMAIN o) \X (DOMAIN o) : y[1] # y[2]} :
          MovesBetween(o, x[1], x[2]) \subseteq Orders(p)
  BY MovesOrder
<1>2. ASSUME ~(Len(o) < 2) PROVE OrderMoves(o) # {}
  <2>1. o \in Seq(Representatives(p))
    BY OrdersArrange DEF Arrangement
  <2>2. 1 \in DOMAIN o /\ 2 \in DOMAIN o
    BY <1>2, <2>1, LenProperties
  <2>3. MovesBetween(o, 1, 2) # {}
    BY DEF MovesBetween
  <2>4. MovesBetween(o, 1, 2) \subseteq OrderMoves(o)
    <3>1. <<1, 2>> \in {y \in (DOMAIN o) \X (DOMAIN o) : y[1] # y[2]} /\ <<1, 2>>[1] = 1 /\ <<1, 2>>[2] = 2
      BY <2>2
    <3> QED
      BY <1>2, <3>1 DEF OrderMoves
  <2> QED
    BY <2>3, <2>4
<1> QED
  BY <1>1, <1>2 DEF OrderMoves

LEMMA PositionsOf ==
    ASSUME NEW p, Known(p), NEW o \in Orders(p), NEW c \in Classes(p), NEW d \in Classes(p), c # d
    PROVE  /\ PositionOf(o, c) \in DOMAIN o /\ PositionOf(o, d) \in DOMAIN o
           /\ PositionOf(o, c) # PositionOf(o, d)
<1>1. /\ Arrangement(o, Representatives(p)) /\ DOMAIN o = 1..Len(o)
      /\ Min(c) \in Representatives(p) /\ Min(d) \in Representatives(p)
  BY OrdersArrange, LenProperties DEF Arrangement, Representatives
<1>2. Min(c) # Min(d)
  BY RepresentativeNames
<1>3. PositionOf(o, c) \in DOMAIN o /\ o[PositionOf(o, c)] = Min(c)
  BY <1>1 DEF PositionOf, Arrangement, Lists
<1>4. PositionOf(o, d) \in DOMAIN o /\ o[PositionOf(o, d)] = Min(d)
  BY <1>1 DEF PositionOf, Arrangement, Lists
<1> QED
  BY <1>2, <1>3, <1>4

\* The nodes a targeted move starts from and the ones it goes to.
LEMMA TargetsTyped ==
    ASSUME Ready, NEW x \in Candidates
    PROVE  TargetNodes(x) \subseteq Nodes /\ \A c : CombinedNeighbors(c) \subseteq Nodes
<1>1. ActivatedBy(x) \subseteq AllSoft
  BY DEF ActivatedBy, ActivatedPairs
<1>2. MayBeDrawn(ActivatedBy(x)) \subseteq AllSoft /\ AllSoft \subseteq Nodes \X Nodes
  BY <1>1, ReadyFacts, Tables DEF MayBeDrawn
<1>3. \A e \in MayBeDrawn(ActivatedBy(x)) : {e[1], e[2]} \subseteq Nodes
  BY <1>2
<1>4. \A sol : Highest(sol) \subseteq Nodes
  BY DEF Highest
<1> QED
  BY <1>3, <1>4 DEF TargetNodes, CombinedNeighbors

LEMMA TargetedMovesTyped ==
    ASSUME Ready, NEW x \in Candidates
    PROVE  TargetedOrderMoves(x) \subseteq Orders(problem)
<1> DEFINE near(t) == (CombinedNeighbors(t) \cup
                           UNION {CombinedNeighbors(d) : d \in CombinedNeighbors(t)}) \ {t}
           Moves(t) == IF near(t) = {} THEN OrderMoves(x[1])
                       ELSE UNION {MovesBetween(x[1], PositionOf(x[1], t), PositionOf(x[1], d)) :
                                       d \in near(t)}
<1>1. Known(problem) /\ x[1] \in Orders(problem) /\ Nodes = Classes(problem)
  BY ReadyFacts, Tables DEF Candidates
<1>2. TargetNodes(x) \subseteq Nodes /\ \A t : near(t) \subseteq Nodes \ {t}
  BY TargetsTyped
<1> HIDE DEF near
<1>3. ASSUME NEW t \in TargetNodes(x), NEW d \in near(t)
      PROVE  MovesBetween(x[1], PositionOf(x[1], t), PositionOf(x[1], d)) \subseteq Orders(problem)
  <2>1. t \in Classes(problem) /\ d \in Classes(problem) /\ t # d
    BY <1>1, <1>2
  <2>2. /\ PositionOf(x[1], t) \in DOMAIN x[1] /\ PositionOf(x[1], d) \in DOMAIN x[1]
        /\ PositionOf(x[1], t) # PositionOf(x[1], d)
    BY <1>1, <2>1, PositionsOf
  <2> QED
    BY <1>1, <2>2, MovesOrder
<1>4. OrderMoves(x[1]) \subseteq Orders(problem)
  BY <1>1, OrderMovesTyped
<1>5. \A t \in TargetNodes(x) : Moves(t) \subseteq Orders(problem)
  BY <1>3, <1>4
<1>6. TargetedOrderMoves(x) = UNION {Moves(t) : t \in TargetNodes(x)}
  BY DEF TargetedOrderMoves, near
<1> HIDE DEF Moves
<1> QED
  BY <1>5, <1>6

LEMMA PairsJoined ==
    ASSUME NEW S, NEW h \in Seq(S), NEW t \in Seq(S), Len(h) = 2, Len(t) = 2
    PROVE  h \o t \in [1..4 -> S] /\ (h \o t)[3] = t[1] /\ (h \o t)[4] = t[2]
<1> DEFINE key == h \o t
<1>1. /\ key \in Seq(S) /\ Len(key) = Len(h) + Len(t)
      /\ \A i \in 1..(Len(h) + Len(t)) : key[i] = IF i <= Len(h) THEN h[i] ELSE t[i - Len(h)]
  BY ConcatProperties
<1> HIDE DEF key
<1>2. key \in [1..Len(key) -> S]
  BY <1>1, LenProperties
<1>3. key \in [1..4 -> S] /\ key[3] = t[1] /\ key[4] = t[2]
  BY <1>1, <1>2
<1> QED
  BY <1>3 DEF key

\* A soft move is about a soft edge: the edges are ranked by distinct keys.
LEMMA SoftMoveTyped ==
    ASSUME Ready, NEW x \in Candidates, NEW i \in 1..Cardinality(AllSoft)
    PROVE  /\ SoftMoveAt(x, i) \in AllSoft
           /\ <<x[1], Toggle(x[2], SoftMoveAt(x, i))>> \in Candidates
<1> DEFINE K == [e \in AllSoft |-> SoftMoveKey(x, e)]
<1>1. /\ IsFiniteSet(AllSoft) /\ AllSoft \subseteq Classes(problem) \X Classes(problem)
      /\ \A e \in AllSoft : table.space.soft[e] \in 0..MaxUInt
  <2>1. /\ table.space = SearchSpace(problem) /\ AllSoft \subseteq DOMAIN table.space.soft
        /\ IsFiniteSet(AllSoft) /\ AllSoft \subseteq Nodes \X Nodes /\ Nodes = Classes(problem)
    BY ReadyFacts, Tables
  <2>2. \A e \in DOMAIN table.space.soft : table.space.soft[e] \in 0..MaxUInt
    BY <2>1, ReadyFacts, SoftTyped
  <2> QED
    BY <2>1, <2>2
<1>2. ASSUME NEW e \in AllSoft
      PROVE  /\ SoftMoveKey(x, e) \in [1..4 -> Int]
             /\ SoftMoveKey(x, e)[3] = Min(e[1]) /\ SoftMoveKey(x, e)[4] = Min(e[2])
  <2>1. table.space.soft[e] \in Int /\ MaxUInt - table.space.soft[e] \in Int
    BY <1>1, MaxUIntAssumption
  <2>2. Min(e[1]) \in Int /\ Min(e[2]) \in Int
    BY <1>1, ReadyFacts, CasedKnown
  <2> DEFINE head == IF e \in x[2] THEN <<1, table.space.soft[e]>>
                     ELSE IF e \in ActivatedBy(x) THEN <<0, MaxUInt - table.space.soft[e]>>
                     ELSE <<2, MaxUInt - table.space.soft[e]>>
             tail == <<Min(e[1]), Min(e[2])>>
             key == head \o tail
  <2>3. head \in Seq(Int) /\ Len(head) = 2 /\ tail \in Seq(Int) /\ Len(tail) = 2
        /\ tail[1] = Min(e[1]) /\ tail[2] = Min(e[2])
    BY <2>1, <2>2
  <2>4. SoftMoveKey(x, e) = key
    BY DEF SoftMoveKey
  <2> HIDE DEF head, tail
  <2> DEFINE I == Int
  <2>5. head \in Seq(I) /\ Len(head) = 2 /\ tail \in Seq(I) /\ Len(tail) = 2
    BY <2>3
  <2> HIDE DEF I
  <2>6. key \in [1..4 -> I] /\ key[3] = tail[1] /\ key[4] = tail[2]
    BY <2>5, PairsJoined
  <2> HIDE DEF key
  <2> QED
    BY <2>3, <2>4, <2>6 DEF I
<1>3. Keys(K, AllSoft, 4)
  <2>1. K \in [AllSoft -> [1..4 -> Int]]
    BY <1>2
  <2>2. ASSUME NEW e \in AllSoft, NEW f \in AllSoft, K[e] = K[f] PROVE e = f
    <3>1. Min(e[1]) = Min(f[1]) /\ Min(e[2]) = Min(f[2])
      <4>1. SoftMoveKey(x, e) = SoftMoveKey(x, f)
        BY <2>2
      <4> QED
        BY <1>2, <4>1
    <3>2. e[1] \in Classes(problem) /\ e[2] \in Classes(problem) /\ f[1] \in Classes(problem)
          /\ f[2] \in Classes(problem) /\ e = <<e[1], e[2]>> /\ f = <<f[1], f[2]>>
      BY <1>1
    <3>3. e[1] = f[1] /\ e[2] = f[2]
      BY <3>1, <3>2, ReadyFacts, CasedKnown
    <3> QED
      BY <3>2, <3>3
  <2> HIDE DEF K
  <2> QED
    BY <2>1, <2>2 DEF Keys
<1>4. \E e \in AllSoft : Cardinality(Below(K, AllSoft, e)) = i - 1
  <2> HIDE DEF K
  <2> QED
    BY <1>1, <1>3, RanksFilled
<1>5. \A e \in AllSoft :
          Below(K, AllSoft, e) = {f \in AllSoft : ScoreBefore(SoftMoveKey(x, f), SoftMoveKey(x, e))}
  BY DEF Below
<1>6. SoftMoveAt(x, i) \in AllSoft
  BY <1>4, <1>5 DEF SoftMoveAt
<1> QED
  BY <1>6 DEF Toggle, Candidates

\* The seed made of a fit is a candidate, since no two classes share a key.
LEMMA SeedTyped ==
    ASSUME Ready, ResultHolds(problem, answer), answer.status = "kFeasible",
           NEW sol \in answer.solution, NEW solver
    PROVE  ConstructiveSeed(solver, sol) \in Candidates
<1> DEFINE C == Classes(problem)
           K == [c \in C |-> <<sol[Min(c)].pool, sol[Min(c)].offset, Min(c)>>]
<1>1. Known(problem) /\ Nodes = C
  BY ReadyFacts, Tables
<1>2. ValidSolution(problem, sol) /\ InWords(problem, sol)
  BY DEF ResultHolds
<1>3. ASSUME NEW c \in C
      PROVE  sol[Min(c)].pool \in Int /\ sol[Min(c)].offset \in Int /\ Min(c) \in Int
  <2>1. Min(c) \in problem.buffers /\ Min(c) \in Int
    BY ReadyFacts, CasedKnown
  <2>2. sol[Min(c)].pool \in problem.pools
    BY <1>2, <2>1 DEF ValidSolution, WellPlaced, ValidProblem, ValidBuffer
  <2>3. sol[Min(c)].offset \in 0..MaxUInt
    BY <1>2, <2>1 DEF ValidSolution, InWords
  <2> QED
    BY <2>1, <2>2, <2>3, ReadyFacts, MaxUIntAssumption DEF Cased
<1>4. Keys(K, C, 3)
  <2>1. K \in [C -> [1..3 -> Int]] /\ \A c \in C : K[c][3] = Min(c)
    BY <1>3
  <2>2. \A c, d \in C : Min(c) = Min(d) => c = d
    BY <1>1, RepresentativeNames
  <2> HIDE DEF K, C
  <2> QED
    BY <2>1, <2>2 DEF Keys
<1>5. OrderBy(K) \in Orders(problem)
  <2> HIDE DEF K
  <2> QED
    BY <1>1, <1>4, OrderByArranges
<1>6. ConstructiveSeed(solver, sol) =
          <<OrderBy(K), IF solver = "promote_repair" THEN AllSoft \ ActivatedPairs(problem, sol) ELSE {}>>
  BY <1>1 DEF ConstructiveSeed
<1> HIDE DEF K
<1> QED
  BY <1>5, <1>6 DEF Candidates
-----------------------------------------------------------------------------
(***************************************************************************)
(* The strengthened invariants                                             *)
(***************************************************************************)
\* The calls that may be in progress.
Calls ==
    {<<>>, <<options.solver>>}
        \cup {s \in {<<Search, "canonical_greedy">>, <<Search, "promote_repair">>,
                     <<Search, "promote_repair", "canonical_greedy">>,
                     <<"promote_repair", "canonical_greedy">>} : s[1] = options.solver}

\* What the heuristics hold on to.
GreedyInv ==
    /\ DOMAIN greedy = {"index", "best", "fromFirstFit"}
    /\ greedy.index \in Nat /\ (greedy.index > 0 => Searchable(problem))
    /\ \A r \in greedy.best : ResultHolds(problem, r)

RepairInv ==
    /\ DOMAIN repair = {"index", "active", "last"}
    /\ repair.index \in Nat /\ (repair.index > 0 => Searchable(problem))
    /\ repair.active \subseteq AllSoft /\ ResultHolds(problem, repair.last)

AnswerInv ==
    options.solver \in {Search, "canonical_greedy", "promote_repair"} =>
        ResultHolds(problem, answer)

HeldInv == running \in Calls /\ GreedyInv /\ RepairInv /\ AnswerInv

Early == {"plain", "strict", "canonical_greedy", "promote_repair", "ready"}
Late == {"iterate", "moves", "kick", "restart"}

\* The stage, the budget and the calls of the search.
StageInv ==
    /\ stage \in Early \cup Late
    /\ evaluations \in Nat /\ restart \in Nat /\ stagnation \in Nat /\ move \in Nat
    /\ BudgetIsKept
    /\ stage = "plain" <=> evaluations = 0
    /\ stage # "plain" => options.solver = Search /\ SearchRefusal(problem) = "none"
    /\ options.solver = Search /\ running # <<>> /\ (running # <<Search>> \/ answer # NoAnswer) =>
           /\ stage \in {"canonical_greedy", "promote_repair"} /\ BudgetLeft
           /\ running # <<Search>> => running[2] = stage
    /\ stage \in Early => restart = 0 /\ current = NoCandidate /\ next = NoCandidate
    /\ stage \in {"iterate", "moves", "kick"} => restart < options.restarts
    /\ stage = "restart" => restart <= options.restarts
    /\ stage = "kick" => BudgetLeft

\* The candidates at stage s: the best, the current and the next one, the escapes.
CandidatesHold(s, b, c, n, e) ==
    /\ s # "plain" => b \in Candidates
    /\ n \in Candidates \cup {NoCandidate}
    /\ s \in Late => NoCandidate \notin Candidates /\ c \in Candidates /\ ~Better(c, b)
    /\ s = "moves" =>
           /\ n \in Candidates /\ (n = c \/ Better(n, c))
           /\ \A x \in e : x \in Candidates /\ ~Better(x, c)
    /\ s \in Late \ {"moves"} /\ n # NoCandidate => ~Better(n, b)

CandidatesInv == CandidatesHold(stage, best, current, next, escape)

\* The scores among which the least is: those of the best candidate, of the
\* constructive results and of the next candidate.
Kept(b, found, n) ==
    {ScoreOfCandidate(b)} \cup {SearchScore(problem, r) : r \in found}
        \cup {ScoreOfCandidate(x) : x \in {n} \ {NoCandidate}}

ScoresHold(s, b, found, n, l) ==
    /\ \A r \in found : found = {r} /\ ResultHolds(problem, r)
    /\ s = "plain" => found = {} /\ l = WorstSearchScore
    /\ s # "plain" => Low(l, Kept(b, found, n))

ScoresInv == ScoresHold(stage, best, constructive, next, least)

SearchInv == HeldInv /\ StageInv /\ CandidatesInv /\ ScoresInv
-----------------------------------------------------------------------------
(***************************************************************************)
(* Calls                                                                   *)
(***************************************************************************)
LEMMA FrontOfAppend ==
    ASSUME NEW S, NEW s \in Seq(S), NEW e \in S
    PROVE  Front(Append(s, e)) = s /\ Last(Append(s, e)) = e
<1> DEFINE t == Append(s, e)
           l == Len(s)
           f == SubSeq(t, 1, l)
<1>1. /\ t \in Seq(S) /\ Len(t) = l + 1 /\ l \in Nat
      /\ \A i \in 1..l : t[i] = s[i] /\ t[i] \in S
      /\ t[l + 1] = e
  BY AppendProperties, LenProperties
<1> HIDE DEF t
<1>2. f \in Seq(S) /\ Len(f) = l /\ \A i \in 1..l : f[i] = t[i]
  <2>1. /\ f \in Seq(S) /\ Len(f) = (IF 1 <= l THEN l - 1 + 1 ELSE 0)
        /\ \A i \in 1..(l - 1 + 1) : f[i] = t[1 + i - 1]
    BY <1>1, SubSeqProperties
  <2> HIDE DEF f
  <2>2. Len(f) = l /\ l - 1 + 1 = l /\ \A i \in 1..l : 1 + i - 1 = i
    BY <1>1, <2>1
  <2> QED
    BY <2>1, <2>2
<1> HIDE DEF f
<1>3. f = s
  BY <1>1, <1>2, SeqEqual
<1>4. Front(t) = f /\ Last(t) = e
  BY <1>1 DEF Front, Last, f
<1> QED
  BY <1>3, <1>4 DEF t

LEMMA OneCall ==
    ASSUME NEW a
    PROVE  Last(<<a>>) = a /\ Front(<<a>>) = <<>> /\ <<a>> # <<>>
<1> DEFINE S == {a}
<1>1. <<>> \in Seq(S) /\ a \in S /\ <<a>> \in Seq(S) /\ Len(<<a>>) = 1 /\ Len(<<>>) = 0 /\ <<a>>[1] = a
  OBVIOUS
<1> HIDE DEF S
<1>2. Append(<<>>, a) = <<a>>
  <2>1. Append(<<>>, a) \in Seq(S) /\ Len(Append(<<>>, a)) = 1 /\ Append(<<>>, a)[1] = a
    BY <1>1, AppendProperties
  <2> QED
    BY <1>1, <2>1, SeqEqual
<1>3. Front(Append(<<>>, a)) = <<>> /\ Last(Append(<<>>, a)) = a
  BY <1>1, FrontOfAppend
<1> QED
  BY <1>2, <1>3

LEMMA TwoCalls ==
    ASSUME NEW a, NEW b
    PROVE  /\ Last(<<a, b>>) = b /\ Front(<<a, b>>) = <<a>> /\ Append(<<a>>, b) = <<a, b>>
           /\ <<a, b>> # <<>> /\ <<a, b>> # <<a>> /\ <<a, b>>[1] = a /\ <<a, b>>[2] = b
<1> DEFINE S == {a, b}
           u == <<a>>
           v == <<a, b>>
           t == Append(u, b)
<1>1. /\ u \in Seq(S) /\ Len(u) = 1 /\ u[1] = a /\ b \in S
      /\ v \in Seq(S) /\ Len(v) = 2 /\ v[1] = a /\ v[2] = b
  OBVIOUS
<1>2. <<a, b>> # <<>> /\ <<a, b>> # <<a>>
  OBVIOUS
<1> HIDE DEF S, u, v
<1>3. t \in Seq(S) /\ Len(t) = Len(u) + 1 /\ (\A i \in 1..Len(u) : t[i] = u[i]) /\ t[Len(u) + 1] = b
  <2>1. u \in Seq(S) /\ b \in S
    BY <1>1
  <2> QED
    BY <2>1, AppendProperties
<1>4. Front(t) = u /\ Last(t) = b
  BY <1>1, FrontOfAppend
<1> HIDE DEF t
<1>5. t = v
  BY <1>1, <1>3, SeqEqual
<1> QED
  BY <1>1, <1>2, <1>4, <1>5 DEF t, u, v

LEMMA ThreeCalls ==
    ASSUME NEW a, NEW b, NEW c
    PROVE  /\ Last(<<a, b, c>>) = c /\ Front(<<a, b, c>>) = <<a, b>>
           /\ Append(<<a, b>>, c) = <<a, b, c>>
           /\ <<a, b, c>> # <<>> /\ <<a, b, c>> # <<a>> /\ <<a, b, c>>[1] = a /\ <<a, b, c>>[2] = b
<1> DEFINE S == {a, b, c}
           u == <<a, b>>
           v == <<a, b, c>>
           t == Append(u, c)
<1>1. /\ u \in Seq(S) /\ Len(u) = 2 /\ u[1] = a /\ u[2] = b /\ c \in S
      /\ v \in Seq(S) /\ Len(v) = 3 /\ v[1] = a /\ v[2] = b /\ v[3] = c
  OBVIOUS
<1>2. <<a, b, c>> # <<>> /\ <<a, b, c>> # <<a>>
  OBVIOUS
<1> HIDE DEF S, u, v
<1>3. t \in Seq(S) /\ Len(t) = Len(u) + 1 /\ (\A i \in 1..Len(u) : t[i] = u[i]) /\ t[Len(u) + 1] = c
  <2>1. u \in Seq(S) /\ c \in S
    BY <1>1
  <2> QED
    BY <2>1, AppendProperties
<1>4. Front(t) = u /\ Last(t) = c
  BY <1>1, FrontOfAppend
<1> HIDE DEF t
<1>5. t = v
  BY <1>1, <1>3, SeqEqual
<1> QED
  BY <1>1, <1>2, <1>4, <1>5 DEF t, u, v

\* The calls in progress and what is on top of them.
LEMMA CallStacks ==
    LET g == "canonical_greedy"
        r == "promote_repair"
    IN  /\ Last(<<Search, g>>) = g /\ Front(<<Search, g>>) = <<Search>> /\ <<Search, g>> # <<Search>>
        /\ Last(<<Search, r>>) = r /\ Front(<<Search, r>>) = <<Search>> /\ <<Search, r>> # <<Search>>
        /\ Last(<<Search, r, g>>) = g /\ Front(<<Search, r, g>>) = <<Search, r>>
        /\ <<Search, r, g>> # <<Search>> /\ <<Search, r>>[2] = r /\ <<Search, r, g>>[2] = r
        /\ Last(<<r, g>>) = g /\ Front(<<r, g>>) = <<r>>
        /\ Append(<<Search, r>>, g) = <<Search, r, g>> /\ Append(<<r>>, g) = <<r, g>>
        /\ <<Search, g>>[1] = Search /\ <<Search, r>>[1] = Search /\ <<Search, r, g>>[1] = Search
        /\ <<r, g>>[1] = r /\ <<Search, g>>[2] = g
        /\ Append(<<Search>>, g) = <<Search, g>> /\ Append(<<Search>>, r) = <<Search, r>>
<1> DEFINE g == "canonical_greedy"
           r == "promote_repair"
<1> HIDE DEF g, r
<1>1. /\ Last(<<Search, g>>) = g /\ Front(<<Search, g>>) = <<Search>> /\ <<Search, g>> # <<Search>>
      /\ <<Search, g>>[1] = Search /\ <<Search, g>>[2] = g /\ Append(<<Search>>, g) = <<Search, g>>
  BY TwoCalls
<1>2. /\ Last(<<Search, r>>) = r /\ Front(<<Search, r>>) = <<Search>> /\ <<Search, r>> # <<Search>>
      /\ <<Search, r>>[1] = Search /\ <<Search, r>>[2] = r /\ Append(<<Search>>, r) = <<Search, r>>
  BY TwoCalls
<1>3. Last(<<r, g>>) = g /\ Front(<<r, g>>) = <<r>> /\ <<r, g>>[1] = r /\ Append(<<r>>, g) = <<r, g>>
  BY TwoCalls
<1>4. /\ Last(<<Search, r, g>>) = g /\ Front(<<Search, r, g>>) = <<Search, r>>
      /\ <<Search, r, g>> # <<Search>> /\ <<Search, r, g>>[1] = Search /\ <<Search, r, g>>[2] = r
      /\ Append(<<Search, r>>, g) = <<Search, r, g>>
  BY ThreeCalls
<1> QED
  BY <1>1, <1>2, <1>3, <1>4 DEF g, r

\* What a call of a baseline may return to and what it may call.
LEMMA CallsKept ==
    ASSUME InputInv, running \in Calls, NEW solver \in Baselines, Active(solver)
    PROVE  /\ running # <<>> /\ Front(running) \in Calls
           /\ options.solver = Search =>
                  /\ running # <<Search>>
                  /\ Front(running) \notin {<<>>, <<Search>>} => Front(running)[2] = running[2]
           /\ solver = "promote_repair" =>
                  /\ Append(running, "canonical_greedy") \in Calls
                  /\ options.solver = Search =>
                         /\ Append(running, "canonical_greedy") # <<Search>>
                         /\ Append(running, "canonical_greedy")[2] = running[2]
           /\ solver \notin {"canonical_greedy", "promote_repair"} =>
                  options.solver = solver /\ running = <<options.solver>>
           /\ options.solver \in {Search, "canonical_greedy", "promote_repair"}
                  => solver \in {"canonical_greedy", "promote_repair"}
<1>1. running # <<>> /\ Last(running) = solver /\ Search \notin Baselines
  BY DEF Active, Search, Baselines
<1>2. CASE running = <<options.solver>>
  <2>1. options.solver = solver /\ Front(running) = <<>> /\ solver # Search
    BY <1>1, <1>2, OneCall, CallStacks
  <2>2. solver = "promote_repair" =>
            Append(running, "canonical_greedy") = <<"promote_repair", "canonical_greedy">>
    BY <1>2, <2>1, OneCall, CallStacks
  <2>3. <<"promote_repair", "canonical_greedy">>[1] = "promote_repair"
    OBVIOUS
  <2>4. solver = "promote_repair" => <<"promote_repair", "canonical_greedy">> \in Calls
    BY <2>1, <2>3 DEF Calls
  <2>5. <<>> \in Calls
    BY DEF Calls
  <2> QED
    BY <1>1, <1>2, <2>1, <2>2, <2>4, <2>5
<1>3. CASE running = <<Search, "canonical_greedy">> /\ options.solver = Search
  <2>1. solver = "canonical_greedy" /\ Front(running) = <<Search>> /\ running # <<Search>>
    BY <1>1, <1>3, OneCall, CallStacks
  <2>2. <<Search>> \in Calls
    BY <1>3 DEF Calls
  <2> QED
    BY <1>1, <1>3, <2>1, <2>2
<1>4. CASE running = <<Search, "promote_repair">> /\ options.solver = Search
  <2>1. solver = "promote_repair" /\ Front(running) = <<Search>> /\ running # <<Search>>
        /\ running[2] = "promote_repair"
    BY <1>1, <1>4, OneCall, CallStacks
  <2>2. Append(running, "canonical_greedy") = <<Search, "promote_repair", "canonical_greedy">>
    BY <1>4, OneCall, CallStacks
  <2>3. /\ <<Search, "promote_repair", "canonical_greedy">>[1] = Search
        /\ <<Search, "promote_repair", "canonical_greedy">>[2] = "promote_repair"
        /\ <<Search, "promote_repair", "canonical_greedy">> # <<Search>>
    BY OneCall, CallStacks
  <2>4. <<Search, "promote_repair", "canonical_greedy">> \in Calls /\ <<Search>> \in Calls
    BY <1>4, <2>3 DEF Calls
  <2> QED
    BY <1>1, <1>4, <2>1, <2>2, <2>3, <2>4
<1>5. CASE running = <<Search, "promote_repair", "canonical_greedy">> /\ options.solver = Search
  <2>1. /\ solver = "canonical_greedy" /\ Front(running) = <<Search, "promote_repair">>
        /\ running # <<Search>> /\ running[2] = "promote_repair"
        /\ <<Search, "promote_repair">>[2] = "promote_repair"
    BY <1>1, <1>5, OneCall, CallStacks
  <2>2. <<Search, "promote_repair">> \in Calls
    <3>1. <<Search, "promote_repair">>[1] = Search
      OBVIOUS
    <3> QED
      BY <1>5, <3>1 DEF Calls
  <2> QED
    BY <1>1, <1>5, <2>1, <2>2
<1>6. CASE running = <<"promote_repair", "canonical_greedy">> /\ options.solver = "promote_repair"
  <2>1. solver = "canonical_greedy" /\ Front(running) = <<"promote_repair">>
    BY <1>1, <1>6, OneCall, CallStacks
  <2>2. <<"promote_repair">> \in Calls
    BY <1>6 DEF Calls
  <2> QED
    BY <1>1, <1>6, <2>1, <2>2 DEF Search
<1>7. \/ running = <<>> \/ running = <<options.solver>>
      \/ /\ running \in {<<Search, "canonical_greedy">>, <<Search, "promote_repair">>,
                         <<Search, "promote_repair", "canonical_greedy">>,
                         <<"promote_repair", "canonical_greedy">>}
         /\ running[1] = options.solver
  BY DEF Calls
<1>8. /\ <<Search, "canonical_greedy">>[1] = Search /\ <<Search, "promote_repair">>[1] = Search
      /\ <<Search, "promote_repair", "canonical_greedy">>[1] = Search
      /\ <<"promote_repair", "canonical_greedy">>[1] = "promote_repair"
  OBVIOUS
<1> QED
  BY <1>1, <1>2, <1>3, <1>4, <1>5, <1>6, <1>7, <1>8

LEMMA SearchCalls ==
    ASSUME InputInv, running \in Calls, SearchMayRun
    PROVE  options.solver = Search /\ running = <<Search>> /\ Front(running) = <<>>
<1>1. running # <<>> /\ Last(running) = Search
  BY DEF SearchMayRun, Active, Search
<1>2. \/ running = <<options.solver>>
      \/ running \in {<<Search, "canonical_greedy">>, <<Search, "promote_repair">>,
                      <<Search, "promote_repair", "canonical_greedy">>,
                      <<"promote_repair", "canonical_greedy">>}
  BY <1>1 DEF Calls
<1>3. /\ Last(<<Search, "canonical_greedy">>) = "canonical_greedy"
      /\ Last(<<Search, "promote_repair">>) = "promote_repair"
      /\ Last(<<Search, "promote_repair", "canonical_greedy">>) = "canonical_greedy"
      /\ Last(<<"promote_repair", "canonical_greedy">>) = "canonical_greedy"
  BY OneCall, CallStacks
<1>4. running = <<options.solver>>
  BY <1>1, <1>2, <1>3 DEF Search
<1> QED
  BY <1>1, <1>4, OneCall, CallStacks
-----------------------------------------------------------------------------
(***************************************************************************)
(* The invariants hold at the start                                        *)
(***************************************************************************)
LEMMA BudgetBounds ==
    ASSUME InputInv
    PROVE  /\ options.maxEvaluations \in Nat /\ options.restarts \in Nat
           /\ options.stagnationLimit \in Nat /\ options.softMoves \in Nat
           /\ options.orderMoves \in Nat /\ options.randomRestarts \in Nat
           /\ Max({1, options.maxEvaluations}) \in Nat
           /\ 1 <= Max({1, options.maxEvaluations})
           /\ options.maxEvaluations <= Max({1, options.maxEvaluations})
<1> DEFINE m == options.maxEvaluations
           T == {1, m}
<1>1. /\ m \in Nat /\ options.restarts \in Nat /\ options.stagnationLimit \in Nat
      /\ options.softMoves \in Nat /\ options.orderMoves \in Nat /\ options.randomRestarts \in Nat
  BY InputTyped
<1>2. T \in SUBSET (0..(m + 1)) /\ m + 1 \in Nat /\ T # {} /\ 1 \in T /\ m \in T
  BY <1>1
<1> HIDE DEF T, m
<1>3. Max(T) \in T /\ \A n \in T : n <= Max(T)
  BY <1>2, MaxNatural
<1> QED
  BY <1>1, <1>2, <1>3 DEF T, m

LEMMA InitHolds == Init => InputInv /\ SearchInv
<1> SUFFICES ASSUME Init PROVE InputInv /\ SearchInv
  OBVIOUS
<1>1. PICK p \in {x[1] : x \in Cases} :
          /\ problem = p /\ table = TableOf(p)
          /\ \E x \in {y \in Cases : y[1] = p} : options = x[2]
  BY DEF Init
<1>2. PICK x \in {y \in Cases : y[1] = p} : options = x[2]
  BY <1>1
<1>3. InputInv
  BY <1>1, <1>2 DEF InputInv
<1>4. /\ running = <<options.solver>> /\ answer = NoAnswer
      /\ greedy = NoGreedy /\ repair = NoRepair
      /\ stage = "plain" /\ evaluations = 0 /\ restart = 0 /\ stagnation = 0 /\ move = 0
      /\ current = NoCandidate /\ next = NoCandidate
      /\ constructive = {} /\ least = WorstSearchScore
  BY DEF Init, BaselinesInit
<1>5. ResultHolds(problem, NoAnswer)
  BY WithoutHolds DEF NoAnswer
<1>6. HeldInv
  <2>1. running \in Calls
    BY <1>4 DEF Calls
  <2>2. GreedyInv
    BY <1>4 DEF GreedyInv, NoGreedy
  <2>3. RepairInv
    BY <1>4, <1>5 DEF RepairInv, NoRepair
  <2> QED
    BY <1>4, <1>5, <2>1, <2>2, <2>3 DEF HeldInv, AnswerInv
<1>7. StageInv
  <2>1. BudgetIsKept
    BY <1>3, <1>4, BudgetBounds DEF BudgetIsKept
  <2> QED
    BY <1>4, <2>1 DEF StageInv, Early, Late
<1>8. CandidatesInv /\ ScoresInv
  BY <1>4 DEF CandidatesInv, CandidatesHold, ScoresInv, ScoresHold, Late
<1> QED
  BY <1>3, <1>6, <1>7, <1>8 DEF SearchInv

-----------------------------------------------------------------------------
(***************************************************************************)
(* The steps of the baselines                                              *)
(***************************************************************************)
LEMMA InputKept == InputInv /\ UNCHANGED input => InputInv'
  BY DEF InputInv, input

\* The problem does not change, nor what is said of candidates and scores.
LEMMA Frozen ==
    ASSUME UNCHANGED input
    PROVE  /\ problem' = problem /\ table' = table /\ options' = options
           /\ CandidatesInv' <=> CandidatesHold(stage', best', current', next', escape')
           /\ ScoresInv' <=> ScoresHold(stage', best', constructive', next', least')
<1>1. problem' = problem /\ table' = table /\ options' = options
  BY DEF input
<1>2. CandidatesInv' <=> CandidatesHold(stage', best', current', next', escape')
  BY <1>1 DEF CandidatesInv, CandidatesHold, Candidates, AllSoft, Better, ScoreOfCandidate
<1>3. ScoresInv' <=> ScoresHold(stage', best', constructive', next', least')
  BY <1>1 DEF ScoresInv, ScoresHold, Kept, WorstSearchScore, ScoreOfCandidate
<1> QED
  BY <1>1, <1>2, <1>3

\* The baselines leave the search alone.
LEMMA SearchUntouched ==
    ASSUME CandidatesInv, ScoresInv, UNCHANGED <<input, searchVars>>
    PROVE  CandidatesInv' /\ ScoresInv'
<1>1. /\ stage' = stage /\ best' = best /\ current' = current /\ next' = next
      /\ escape' = escape /\ constructive' = constructive /\ least' = least
  BY DEF searchVars, budget, candidates
<1> QED
  BY <1>1, Frozen DEF CandidatesInv, ScoresInv

\* A step of one baseline that is on top of the calls.
StepOf(solver) ==
    /\ Active(solver) /\ UNCHANGED input
    /\ \/ UNCHANGED <<running, answer>>
       \/ running' = Front(running)
       \/ solver = "promote_repair" /\ running' = Append(running, "canonical_greedy")

LEMMA CallsStep ==
    ASSUME InputInv, running \in Calls, StageInv, UNCHANGED searchVars,
           NEW solver \in Baselines, StepOf(solver)
    PROVE  running' \in Calls' /\ StageInv'
<1>1. /\ problem' = problem /\ table' = table /\ options' = options /\ Calls' = Calls
  BY DEF StepOf, input, Calls
<1>2. running' \in Calls
  BY <1>1, CallsKept DEF StepOf
<1>3. ASSUME options.solver = Search
      PROVE  /\ stage \in {"canonical_greedy", "promote_repair"} /\ BudgetLeft
             /\ running' \notin {<<>>, <<Search>>} => running'[2] = stage
  <2>1. running # <<>> /\ running # <<Search>>
    BY <1>3, CallsKept DEF StepOf
  <2>2. stage \in {"canonical_greedy", "promote_repair"} /\ BudgetLeft /\ running[2] = stage
    BY <1>3, <2>1 DEF StageInv
  <2> QED
    BY <1>3, <2>2, CallsKept DEF StepOf
<1>4. /\ stage' = stage /\ evaluations' = evaluations /\ restart' = restart
      /\ stagnation' = stagnation /\ current' = current /\ next' = next /\ move' = move
  BY DEF searchVars, budget, candidates
<1> QED
  BY <1>1, <1>2, <1>3, <1>4 DEF StageInv, BudgetIsKept, BudgetLeft

(***************************************************************************)
(* Scores of the baselines                                                 *)
(***************************************************************************)
LEMMA TermsTyped ==
    ASSUME InputInv
    PROVE  /\ Len(Terms) \in Nat /\ DOMAIN Terms = 1..Len(Terms)
           /\ \A i \in DOMAIN Terms :
                  Terms[i] \in {"reuse", "total_peak", "max_peak", "capacity_overflow", "bank_cost"}
<1> DEFINE names == {"reuse", "total_peak", "max_peak", "capacity_overflow", "bank_cost"}
<1>1. problem.terms \in Seq(names)
  BY InputTyped DEF Cased, ObjectiveTyped
<1>2. <<"capacity_overflow", "reuse">> \in Seq(names)
  OBVIOUS
<1>3. Terms \in Seq(names)
  BY <1>1, <1>2 DEF Terms
<1> HIDE DEF names
<1>4. Len(Terms) \in Nat /\ DOMAIN Terms = 1..Len(Terms) /\ \A i \in DOMAIN Terms : Terms[i] \in names
  BY <1>3, LenProperties, ElementOfSeq
<1> QED
  BY <1>4 DEF names

Scores == [1..Len(Terms) -> 0..MaxUInt]

LEMMA ScoreOfTyped ==
    ASSUME InputInv, "bank_cost" \notin Range(Terms), NEW r, ResultHolds(problem, r)
    PROVE  ScoreOf(r) \in Scores /\ Len(Terms) \in Nat /\ Scores \subseteq [1..Len(Terms) -> Int]
<1> DEFINE names == {"reuse", "total_peak", "max_peak", "capacity_overflow"}
<1>1. Len(Terms) \in Nat /\ DOMAIN Terms = 1..Len(Terms)
  BY TermsTyped
<1>2. \A i \in DOMAIN Terms : Terms[i] \in names
  <2>1. \A i \in DOMAIN Terms : Terms[i] # "bank_cost"
    BY DEF Range
  <2> QED
    BY <2>1, TermsTyped
<1>3. r.objective \in [names -> 0..MaxUInt]
  BY DEF ResultHolds
<1> HIDE DEF names
<1>4. \A i \in DOMAIN Terms : r.objective[Terms[i]] \in 0..MaxUInt
  BY <1>2, <1>3
<1>5. ScoreOf(r) \in Scores
  BY <1>1, <1>4 DEF ScoreOf, Scores
<1>6. Scores \subseteq [1..Len(Terms) -> Int]
  BY MaxUIntAssumption DEF Scores
<1> QED
  BY <1>1, <1>5, <1>6

LEMMA NotBeforeItself ==
    ASSUME NEW n \in Nat, NEW x \in [1..n -> Int]
    PROVE  ~ScoreBefore(x, x)
  BY ScoresOrdered

\* Among scores in a row there is a first least one.
LEMMA FirstLeast ==
    ASSUME NEW n \in Nat, NEW m \in Nat \ {0}, NEW f \in [1..m -> [1..n -> Int]]
    PROVE  \E i \in 1..m : \A j \in 1..m :
               ~ScoreBefore(f[j], f[i]) /\ (j < i => ScoreBefore(f[i], f[j]))
<1> DEFINE Leads(i, j) == ~ScoreBefore(f[j], f[i]) /\ (j < i => ScoreBefore(f[i], f[j]))
           T == {k \in 0..m : k = 0 \/ \E i \in 1..k : \A j \in 1..k : Leads(i, j)}
<1>1. 0 \in T
  OBVIOUS
<1>2. ASSUME NEW k \in 1..m, k - 1 \in T PROVE k \in T
  <2>0. k \in 0..m /\ k \in 1..k /\ k - 1 \in Nat
    OBVIOUS
  <2>1. f[k] \in [1..n -> Int] /\ ~ScoreBefore(f[k], f[k])
    <3>1. f[k] \in [1..n -> Int]
      OBVIOUS
    <3> QED
      BY <3>1, NotBeforeItself
  <2>2. CASE k = 1
    <3>1. ASSUME NEW j \in 1..k PROVE Leads(k, j)
      <4>1. j = k /\ ~(j < k)
        BY <2>2
      <4> QED
        BY <2>1, <4>1
    <3>2. \A j \in 1..k : Leads(k, j)
      BY <3>1
    <3> HIDE DEF Leads
    <3> QED
      BY <2>0, <3>2
  <2>3. CASE k # 1
    <3>1. PICK i \in 1..(k - 1) : \A j \in 1..(k - 1) : Leads(i, j)
      BY <1>2, <2>3
    <3>2. CASE ScoreBefore(f[k], f[i])
      <4>1. ASSUME NEW j \in 1..(k - 1) PROVE ScoreBefore(f[k], f[j]) /\ ~ScoreBefore(f[j], f[k])
        <5>1. ~ScoreBefore(f[j], f[i]) /\ f[j] \in [1..n -> Int] /\ f[i] \in [1..n -> Int]
          BY <3>1
        <5>2. ScoreBefore(f[k], f[j])
          BY <2>1, <3>2, <5>1, ScoresBetween
        <5> QED
          BY <2>1, <5>1, <5>2, ScoresOrdered
      <4>2. \A j \in 1..k : j = k \/ j \in 1..(k - 1)
        OBVIOUS
      <4>3. \A j \in 1..k : Leads(k, j)
        BY <2>1, <4>1, <4>2
      <4> HIDE DEF Leads
      <4> QED
        BY <2>0, <4>3
    <3>3. CASE ~ScoreBefore(f[k], f[i])
      <4>1. \A j \in 1..k : j = k \/ j \in 1..(k - 1)
        OBVIOUS
      <4>2. \A j \in 1..k : Leads(i, j)
        BY <3>1, <3>3, <4>1
      <4>3. i \in 1..k
        BY <2>0
      <4> HIDE DEF Leads
      <4> QED
        BY <2>0, <4>2, <4>3
    <3> QED
      BY <3>2, <3>3
  <2> QED
    BY <2>2, <2>3
<1> HIDE DEF T
<1>3. \A k \in 0..m : k \in T
  BY <1>1, <1>2, NaturalInduction
<1>4. m \in T
  BY <1>3
<1> QED
  BY <1>4 DEF T

\* What first fit returns is one of the decodings of the fixed orders.
LEMMA FirstFitIs ==
    ASSUME InputInv, Searchable(problem), "bank_cost" \notin Range(Terms)
    PROVE  ResultHolds(problem, FirstFit)
<1> DEFINE n == Len(table.orders)
           results == [i \in DOMAIN table.orders |-> table.decoded[<<table.orders[i], {}>>]]
           score(r) == <<IF r.status = "kFeasible" THEN 0 ELSE 1>> \o ScoreOf(r)
           First(i) == \A j \in DOMAIN results :
                           /\ ~ScoreBefore(score(results[j]), score(results[i]))
                           /\ j < i => ScoreBefore(score(results[i]), score(results[j]))
           w == Len(Terms) + 1
<1>1. /\ DOMAIN table.orders = 1..n /\ n \in Nat \ {0}
      /\ \A i \in 1..n : ResultHolds(problem, results[i])
  <2>1. table.orders \in Seq(Orders(problem)) /\ n > 0
    BY Tables
  <2>2. DOMAIN table.orders = 1..n /\ n \in Nat \ {0} /\ \A i \in 1..n : table.orders[i] \in Orders(problem)
    BY <2>1, LenProperties, ElementOfSeq
  <2>3. \A i \in 1..n : <<table.orders[i], {}>> \in Candidates
    BY <2>2 DEF Candidates
  <2> QED
    BY <2>2, <2>3, Tables
<1>2. Len(Terms) \in Nat
  BY TermsTyped
<1>3. ASSUME NEW i \in 1..n PROVE score(results[i]) \in [1..w -> Int]
  <2> DEFINE I == Int
             h == <<IF results[i].status = "kFeasible" THEN 0 ELSE 1>>
             t == ScoreOf(results[i])
             l == Len(Terms)
  <2>1. t \in [1..l -> I] /\ l \in Nat
    BY <1>1, ScoreOfTyped
  <2>2. h \in Seq(I) /\ Len(h) = 1
    OBVIOUS
  <2> HIDE DEF I, h, t, l
  <2>3. t \in Seq(I) /\ Len(t) = l
    BY <2>1
  <2>4. h \o t \in Seq(I) /\ Len(h \o t) = Len(h) + Len(t)
    BY <2>2, <2>3, ConcatProperties
  <2> DEFINE u == h \o t
  <2> HIDE DEF u
  <2>5. u \in [1..Len(u) -> I]
    BY <2>4, LenProperties DEF u
  <2>6. Len(u) = w
    BY <2>1, <2>2, <2>3, <2>4 DEF u, l
  <2>7. u \in [1..w -> I]
    BY <2>5, <2>6
  <2> QED
    BY <2>7 DEF u, h, t, I
<1>4. \E i \in DOMAIN results : First(i)
  <2> DEFINE f == [i \in 1..n |-> score(results[i])]
  <2>2. f \in [1..n -> [1..w -> Int]] /\ w \in Nat
    <3> HIDE DEF results, score
    <3> QED
      BY <1>2, <1>3
  <2>3. DOMAIN results = 1..n
    BY <1>1
  <2>4. \A i \in 1..n : f[i] = score(results[i])
    OBVIOUS
  <2> HIDE DEF f, score, results, w, n
  <2>5. \E i \in 1..n : \A j \in 1..n :
             ~ScoreBefore(f[j], f[i]) /\ (j < i => ScoreBefore(f[i], f[j]))
    BY <1>1, <2>2, FirstLeast
  <2> QED
    BY <2>3, <2>4, <2>5
<1>5. FirstFit = IF problem.penalties = <<>> THEN results[1]
                 ELSE results[CHOOSE i \in DOMAIN results : First(i)]
  BY DEF FirstFit
<1>6. \E i \in 1..n : FirstFit = results[i]
  <2>1. (CHOOSE i \in DOMAIN results : First(i)) \in DOMAIN results
    <3> HIDE DEF First, results
    <3> QED
      BY <1>4
  <2>2. DOMAIN results = 1..n /\ 1 \in 1..n
    BY <1>1
  <2> HIDE DEF First, results
  <2> QED
    BY <1>5, <2>1, <2>2
<1> HIDE DEF results
<1> QED
  BY <1>1, <1>6

\* A problem that a baseline other than promote_all takes can be searched.
LEMMA TakenIsSearchable ==
    ASSUME InputInv, NEW solver \in Baselines \ {"promote_all"}, Refusal(problem, solver) = "none"
    PROVE  Searchable(problem) /\ "bank_cost" \notin Range(Terms)
<1>1. /\ Compatible(problem, solver) /\ FixedCapacities(problem) /\ PrepareAccepts(problem)
  <2>1. Compatible(problem, solver)
    BY DEF Refusal
  <2>2. FixedCapacities(problem)
    BY <2>1 DEF Refusal, UnitShape, Baselines
  <2>3. PrepareAccepts(problem)
    BY <2>1, <2>2 DEF Refusal
  <2> QED
    BY <2>1, <2>2, <2>3
<1>2. Cased(problem) /\ ValidProblem(problem)
  BY <1>1, InputTyped, CasedKnown
<1>3. ASSUME NEW b \in problem.buffers PROVE Cardinality(problem.allowed[b]) = 1
  <2>1. problem.allowed[b] # {} /\ problem.allowed[b] \in SUBSET problem.pools /\ IsFiniteSet(problem.pools)
    BY <1>2 DEF ValidProblem, ValidBuffer, Cased, ObjectiveTyped
  <2>2. IsFiniteSet(problem.allowed[b])
    BY <2>1, FS_Subset
  <2>3. Cardinality(problem.allowed[b]) \in Nat /\ Cardinality(problem.allowed[b]) # 0
    BY <2>1, <2>2, FS_CardinalityType, FS_EmptySet
  <2>4. Cardinality(problem.allowed[b]) <= 1
    BY <1>1 DEF Compatible
  <2> QED
    BY <2>3, <2>4
<1> QED
  BY <1>1, <1>3 DEF Searchable, Compatible

\* What a step of a baseline leaves of its part of the invariant.
LEMMA AnswerKept ==
    ASSUME AnswerInv, UNCHANGED input, answer' = answer \/ ResultHolds(problem, answer')
    PROVE  AnswerInv'
  BY DEF AnswerInv, input

LEMMA GreedyKept ==
    ASSUME GreedyInv, UNCHANGED <<input, greedy>>
    PROVE  GreedyInv'
  BY DEF GreedyInv, input

LEMMA RepairKept ==
    ASSUME RepairInv, UNCHANGED <<input, repair>>
    PROVE  RepairInv'
  BY DEF RepairInv, input, AllSoft

LEMMA RefuseHeld ==
    ASSUME InputInv, HeldInv, NEW solver \in Baselines, Refuse(solver)
    PROVE  StepOf(solver) /\ GreedyInv' /\ RepairInv' /\ AnswerInv'
<1>1. /\ Active(solver) /\ UNCHANGED <<input, baselineVars>>
      /\ running' = Front(running) /\ answer' = Without(Refusal(problem, solver))
  BY DEF Refuse, Return
<1>2. ResultHolds(problem, answer')
  BY <1>1, WithoutHolds
<1>3. UNCHANGED input /\ UNCHANGED greedy /\ UNCHANGED repair
  BY <1>1 DEF baselineVars
<1>4. GreedyInv' /\ RepairInv' /\ AnswerInv'
  BY <1>2, <1>3, AnswerKept, GreedyKept, RepairKept DEF HeldInv
<1> QED
  BY <1>1, <1>3, <1>4 DEF StepOf

LEMMA GreedyBeginsHeld ==
    ASSUME InputInv, HeldInv, GreedyBegins
    PROVE  StepOf("canonical_greedy") /\ GreedyInv' /\ RepairInv' /\ AnswerInv'
<1> DEFINE kept == IF FirstFit.status = "kFeasible" THEN {FirstFit} ELSE {}
<1>1. /\ Active("canonical_greedy") /\ Refusal(problem, "canonical_greedy") = "none"
      /\ greedy' = [index |-> 1, best |-> kept, fromFirstFit |-> kept # {}]
      /\ UNCHANGED input /\ UNCHANGED running /\ UNCHANGED answer /\ UNCHANGED repair
  BY DEF GreedyBegins, GreedyMayRun
<1>2. Searchable(problem) /\ ResultHolds(problem, FirstFit)
  BY <1>1, TakenIsSearchable, FirstFitIs DEF Baselines
<1> HIDE DEF kept
<1>3. \A r \in kept : ResultHolds(problem, r)
  BY <1>2 DEF kept
<1>4. /\ greedy'.index = 1 /\ greedy'.best = kept
      /\ DOMAIN greedy' = {"index", "best", "fromFirstFit"}
  BY <1>1
<1>5. GreedyInv'
  BY <1>1, <1>2, <1>3, <1>4 DEF GreedyInv, input
<1>6. RepairInv' /\ AnswerInv'
  BY <1>1, AnswerKept, RepairKept DEF HeldInv
<1> QED
  BY <1>1, <1>5, <1>6 DEF StepOf

LEMMA GreedyOrdersTyped ==
    ASSUME InputInv, Searchable(problem)
    PROVE  GreedyOrders \subseteq Orders(problem)
<1>1. table.orders \in Seq(Orders(problem))
  BY Tables
<1>2. \A i \in DOMAIN table.orders : table.orders[i] \in Orders(problem)
  BY <1>1, LenProperties
<1> QED
  BY <1>2 DEF GreedyOrders

\* canonical_greedy returns what it kept.
LEMMA GreedyAnswersHeld ==
    ASSUME InputInv, HeldInv, Active("canonical_greedy"), UNCHANGED <<input, repair>>,
           NEW kept, \A r \in kept : ResultHolds(problem, r), GreedyAnswers(kept)
    PROVE  StepOf("canonical_greedy") /\ GreedyInv' /\ RepairInv' /\ AnswerInv'
<1>1. /\ running' = Front(running) /\ greedy' = NoGreedy
      /\ answer' = IF kept = {} THEN Without("kBestEffortNoFit") ELSE CHOOSE r \in kept : TRUE
  BY DEF GreedyAnswers, Return
<1>2. ResultHolds(problem, answer')
  BY <1>1, WithoutHolds
<1>3. GreedyInv'
  BY <1>1 DEF GreedyInv, NoGreedy
<1>4. RepairInv' /\ AnswerInv'
  BY <1>2, AnswerKept, RepairKept DEF HeldInv
<1> QED
  BY <1>1, <1>3, <1>4 DEF StepOf

LEMMA GreedyTriesOrderHeld ==
    ASSUME InputInv, HeldInv, GreedyTriesOrder
    PROVE  StepOf("canonical_greedy") /\ GreedyInv' /\ RepairInv' /\ AnswerInv'
<1>1. Active("canonical_greedy") /\ greedy.index > 0 /\ UNCHANGED input /\ UNCHANGED repair
  BY DEF GreedyTriesOrder, GreedyMayRun
<1>2. /\ Searchable(problem) /\ greedy.index \in Nat
      /\ DOMAIN greedy = {"index", "best", "fromFirstFit"}
      /\ \A r \in greedy.best : ResultHolds(problem, r)
  BY <1>1 DEF HeldInv, GreedyInv
<1>3. PICK o \in GreedyOrders : \/ table.placed[o] = {} /\ Skip
                                \/ \E found \in table.placed[o] : Consider(found)
  BY DEF GreedyTriesOrder
<1>4. \A found \in table.placed[o] : ResultHolds(problem, found)
  BY <1>2, GreedyOrdersTyped, Tables
<1>5. CASE Skip
  <2>1. /\ greedy' = [greedy EXCEPT !.index = @ + 1] /\ UNCHANGED running /\ UNCHANGED answer
    BY <1>5 DEF Skip
  <2>2. greedy'.index = greedy.index + 1 /\ greedy'.best = greedy.best /\ DOMAIN greedy' = DOMAIN greedy
    BY <1>2, <2>1
  <2>3. GreedyInv'
    BY <1>1, <1>2, <2>2 DEF GreedyInv, input
  <2>4. RepairInv' /\ AnswerInv'
    BY <1>1, <2>1, AnswerKept, RepairKept DEF HeldInv
  <2> QED
    BY <1>1, <2>1, <2>3, <2>4 DEF StepOf
<1>6. ASSUME NEW found \in table.placed[o], Consider(found)
      PROVE  StepOf("canonical_greedy") /\ GreedyInv' /\ RepairInv' /\ AnswerInv'
  <2> DEFINE kept == IF Retains(found) THEN {found} ELSE greedy.best
  <2>1. \/ GreedyAnswers(kept)
        \/ /\ greedy' = [index |-> greedy.index + 1, best |-> kept,
                         fromFirstFit |-> greedy.fromFirstFit /\ ~Retains(found)]
           /\ UNCHANGED running /\ UNCHANGED answer
    BY <1>6 DEF Consider
  <2>2. \A r \in kept : ResultHolds(problem, r)
    BY <1>2, <1>4
  <2> HIDE DEF kept
  <2>3. CASE GreedyAnswers(kept)
    BY <1>1, <2>2, <2>3, GreedyAnswersHeld
  <2>4. CASE /\ greedy' = [index |-> greedy.index + 1, best |-> kept,
                           fromFirstFit |-> greedy.fromFirstFit /\ ~Retains(found)]
             /\ UNCHANGED running /\ UNCHANGED answer
    <3>1. /\ greedy'.index = greedy.index + 1 /\ greedy'.best = kept
          /\ DOMAIN greedy' = {"index", "best", "fromFirstFit"}
      BY <2>4
    <3>2. GreedyInv'
      BY <1>1, <1>2, <2>2, <3>1 DEF GreedyInv, input
    <3>3. RepairInv' /\ AnswerInv'
      BY <1>1, <2>4, AnswerKept, RepairKept DEF HeldInv
    <3> QED
      BY <1>1, <2>4, <3>2, <3>3 DEF StepOf
  <2> QED
    BY <2>1, <2>3, <2>4
<1> QED
  BY <1>3, <1>5, <1>6

LEMMA GreedyEndsHeld ==
    ASSUME InputInv, HeldInv, GreedyEnds
    PROVE  StepOf("canonical_greedy") /\ GreedyInv' /\ RepairInv' /\ AnswerInv'
<1>1. /\ Active("canonical_greedy") /\ UNCHANGED <<input, repair>> /\ GreedyAnswers(greedy.best)
  BY DEF GreedyEnds, GreedyMayRun
<1>2. \A r \in greedy.best : ResultHolds(problem, r)
  BY DEF HeldInv, GreedyInv
<1> QED
  BY <1>1, <1>2, GreedyAnswersHeld

LEMMA RepairBeginsHeld ==
    ASSUME InputInv, HeldInv, RepairBegins
    PROVE  StepOf("promote_repair") /\ GreedyInv' /\ RepairInv' /\ AnswerInv'
<1>1. /\ Active("promote_repair") /\ Refusal(problem, "promote_repair") = "none"
      /\ repair' = [index |-> 1, active |-> AllSoft, last |-> NoAnswer]
      /\ UNCHANGED input /\ UNCHANGED running /\ UNCHANGED answer /\ UNCHANGED greedy
  BY DEF RepairBegins, RepairMayRun
<1>2. Searchable(problem) /\ ResultHolds(problem, NoAnswer)
  BY <1>1, TakenIsSearchable, WithoutHolds DEF NoAnswer, Baselines
<1>3. /\ repair'.index = 1 /\ repair'.active = AllSoft /\ repair'.last = NoAnswer
      /\ DOMAIN repair' = {"index", "active", "last"}
  BY <1>1
<1>4. RepairInv'
  BY <1>1, <1>2, <1>3 DEF RepairInv, input, AllSoft
<1>5. GreedyInv' /\ AnswerInv'
  BY <1>1, AnswerKept, GreedyKept DEF HeldInv
<1> QED
  BY <1>1, <1>4, <1>5 DEF StepOf

LEMMA RepairDecodesHeld ==
    ASSUME InputInv, HeldInv, RepairDecodes
    PROVE  StepOf("promote_repair") /\ GreedyInv' /\ RepairInv' /\ AnswerInv'
<1> DEFINE last == table.decoded[<<table.orders[repair.index], repair.active>>]
           promoted == WithPromotedReuseEdges(problem, repair.active)
           demote == UNION {CheapestOnChain(promoted, sol, repair.active) : sol \in last.solution}
<1>1. /\ Active("promote_repair") /\ repair.index > 0 /\ repair.index < NoOrderLeft
      /\ UNCHANGED input /\ UNCHANGED greedy
  BY DEF RepairDecodes, RepairMayRun
<1>2. /\ Searchable(problem) /\ repair.index \in Nat /\ repair.active \subseteq AllSoft
      /\ DOMAIN repair = {"index", "active", "last"}
  BY <1>1 DEF HeldInv, RepairInv
<1>3. /\ Len(table.orders) \in Nat /\ table.orders[repair.index] \in Orders(problem)
      /\ <<table.orders[repair.index], repair.active>> \in Candidates
  <2>1. table.orders \in Seq(Orders(problem))
    BY <1>2, Tables
  <2>2. Len(table.orders) \in Nat /\ repair.index \in 1..Len(table.orders)
    BY <1>1, <1>2, <2>1, LenProperties DEF NoOrderLeft
  <2>3. table.orders[repair.index] \in Orders(problem)
    BY <2>1, <2>2, LenProperties
  <2> QED
    BY <1>2, <2>2, <2>3 DEF Candidates
<1>4. ResultHolds(problem, last)
  BY <1>2, <1>3, Tables
<1>5. \/ Return(last) /\ repair' = [repair EXCEPT !.index = 0]
      \/ FallsBack(last)
      \/ /\ repair' = [repair EXCEPT !.active = Demotes(demote), !.last = last]
         /\ UNCHANGED running /\ UNCHANGED answer
      \/ /\ repair' = [repair EXCEPT !.index = @ + 1, !.last = last]
         /\ UNCHANGED running /\ UNCHANGED answer
  BY DEF RepairDecodes
<1>6. Demotes(demote) \subseteq AllSoft
  BY <1>2 DEF Demotes
<1> HIDE DEF last, demote
<1>7. /\ repair'.index \in Nat /\ repair'.active \subseteq AllSoft
      /\ repair'.last \in {repair.last, last} /\ DOMAIN repair' = DOMAIN repair
  <2>1. CASE repair' = [repair EXCEPT !.index = 0]
    BY <1>2, <2>1
  <2>2. CASE FallsBack(last)
    <3>1. repair' = [repair EXCEPT !.index = NoOrderLeft, !.last = last] /\ NoOrderLeft \in Nat
      BY <1>3, <2>2 DEF FallsBack, NoOrderLeft
    <3> QED
      BY <1>2, <3>1
  <2>3. CASE repair' = [repair EXCEPT !.active = Demotes(demote), !.last = last]
    <3> DEFINE fewer == Demotes(demote)
    <3>1. repair' = [repair EXCEPT !.active = fewer, !.last = last] /\ fewer \subseteq AllSoft
      BY <1>6, <2>3
    <3> HIDE DEF fewer
    <3> QED
      BY <1>2, <3>1
  <2>4. CASE repair' = [repair EXCEPT !.index = @ + 1, !.last = last]
    BY <1>2, <2>4
  <2> QED
    BY <1>5, <2>1, <2>2, <2>3, <2>4
<1>8. RepairInv'
  <2>1. ResultHolds(problem, repair.last)
    BY DEF HeldInv, RepairInv
  <2>2. ResultHolds(problem, repair'.last)
    BY <1>4, <1>7, <2>1
  <2> QED
    BY <1>1, <1>2, <1>7, <2>2 DEF RepairInv, input, AllSoft
<1>9. /\ answer' = answer \/ ResultHolds(problem, answer')
      /\ \/ UNCHANGED <<running, answer>> \/ running' = Front(running)
         \/ running' = Append(running, "canonical_greedy")
  <2>1. ResultHolds(problem, NoAnswer)
    BY WithoutHolds DEF NoAnswer
  <2> QED
    BY <1>4, <1>5, <2>1 DEF Return, FallsBack, Call
<1>10. GreedyInv' /\ AnswerInv'
  BY <1>1, <1>9, AnswerKept, GreedyKept DEF HeldInv
<1> QED
  BY <1>1, <1>8, <1>9, <1>10 DEF StepOf

LEMMA RepairReturnsHeld ==
    ASSUME InputInv, HeldInv, RepairReturns
    PROVE  StepOf("promote_repair") /\ GreedyInv' /\ RepairInv' /\ AnswerInv'
<1>1. /\ Active("promote_repair") /\ UNCHANGED input /\ UNCHANGED greedy
      /\ running' = Front(running) /\ repair' = NoRepair
      /\ answer' = IF answer.status = "kFeasible" THEN answer ELSE repair.last
  BY DEF RepairReturns, Return
<1>2. ResultHolds(problem, repair.last) /\ ResultHolds(problem, NoAnswer)
  BY WithoutHolds DEF HeldInv, RepairInv, NoAnswer
<1>3. answer' = answer \/ ResultHolds(problem, answer')
  BY <1>1, <1>2
<1>4. RepairInv'
  <2>1. /\ repair'.index = 0 /\ repair'.active = {} /\ repair'.last = NoAnswer
        /\ DOMAIN repair' = {"index", "active", "last"}
    BY <1>1 DEF NoRepair
  <2>2. problem' = problem
    BY <1>1 DEF input
  <2> QED
    BY <1>2, <2>1, <2>2 DEF RepairInv
<1>5. GreedyInv' /\ AnswerInv'
  BY <1>1, <1>3, AnswerKept, GreedyKept DEF HeldInv
<1> QED
  BY <1>1, <1>4, <1>5 DEF StepOf

\* promote_all and the unit colourings are called by no other solver.
Others == {"promote_all", "unit_random_coloring", "unit_low_rank_rounding"}

LEMMA OthersHeld ==
    ASSUME InputInv, HeldInv, NEW solver \in Others, Active(solver),
           UNCHANGED <<input, greedy, repair>>,
           UNCHANGED <<running, answer>> \/ running' = Front(running)
    PROVE  StepOf(solver) /\ GreedyInv' /\ RepairInv' /\ AnswerInv'
<1>1. solver \in Baselines /\ solver \notin {"canonical_greedy", "promote_repair"}
  BY DEF Others, Baselines
<1>2. options.solver \notin {Search, "canonical_greedy", "promote_repair"}
  BY <1>1, CallsKept DEF HeldInv
<1>3. AnswerInv'
  BY <1>2 DEF AnswerInv, input
<1> QED
  BY <1>3, GreedyKept, RepairKept DEF HeldInv, StepOf

LEMMA PromoteAllHeld ==
    ASSUME InputInv, HeldInv, PromoteAll
    PROVE  StepOf("promote_all") /\ GreedyInv' /\ RepairInv' /\ AnswerInv'
<1>1. /\ Active("promote_all") /\ running' = Front(running)
      /\ UNCHANGED input /\ UNCHANGED greedy /\ UNCHANGED repair
  BY DEF PromoteAll, Return, baselineVars
<1> QED
  BY <1>1, OthersHeld DEF Others

LEMMA SamplingHeld ==
    ASSUME InputInv, HeldInv, SamplingBegins \/ Sample \/ SamplingEnds
    PROVE  \E solver \in Baselines :
               StepOf(solver) /\ GreedyInv' /\ RepairInv' /\ AnswerInv'
<1>1. PICK solver \in {"unit_random_coloring", "unit_low_rank_rounding"} : Active(solver)
  BY DEF SamplingBegins, Sample, SamplingEnds, SamplingMayRun
<1>2. /\ UNCHANGED input /\ UNCHANGED greedy /\ UNCHANGED repair
      /\ UNCHANGED <<running, answer>> \/ running' = Front(running)
  <2>1. CASE SamplingBegins
    BY <2>1 DEF SamplingBegins
  <2>2. CASE Sample
    BY <2>2 DEF Sample, Return
  <2>3. CASE SamplingEnds
    BY <2>3 DEF SamplingEnds, Return
  <2> QED
    BY <2>1, <2>2, <2>3
<1>3. solver \in Others /\ solver \in Baselines
  BY DEF Others, Baselines
<1> QED
  BY <1>1, <1>2, <1>3, OthersHeld

\* Every step of the baselines is one of a baseline that runs.
LEMMA SomeBaselineSteps ==
    ASSUME InputInv, HeldInv, BaselinesNext
    PROVE  \E solver \in Baselines : StepOf(solver) /\ GreedyInv' /\ RepairInv' /\ AnswerInv'
<1>1. "canonical_greedy" \in Baselines /\ "promote_repair" \in Baselines /\ "promote_all" \in Baselines
  BY DEF Baselines
<1>2. CASE \E solver \in Baselines : Refuse(solver)
  BY <1>1, <1>2, RefuseHeld
<1>3. CASE GreedyBegins
  BY <1>1, <1>3, GreedyBeginsHeld
<1>4. CASE GreedyTriesOrder
  BY <1>1, <1>4, GreedyTriesOrderHeld
<1>5. CASE GreedyEnds
  BY <1>1, <1>5, GreedyEndsHeld
<1>6. CASE RepairBegins
  BY <1>1, <1>6, RepairBeginsHeld
<1>7. CASE RepairDecodes
  BY <1>1, <1>7, RepairDecodesHeld
<1>8. CASE RepairReturns
  BY <1>1, <1>8, RepairReturnsHeld
<1>9. CASE PromoteAll
  BY <1>1, <1>9, PromoteAllHeld
<1>10. CASE SamplingBegins \/ Sample \/ SamplingEnds
  BY <1>1, <1>10, SamplingHeld
<1> QED
  BY <1>2, <1>3, <1>4, <1>5, <1>6, <1>7, <1>8, <1>9, <1>10 DEF BaselinesNext

LEMMA BaselinesStep ==
    ASSUME InputInv, SearchInv, BaselinesNext, UNCHANGED searchVars
    PROVE  InputInv' /\ SearchInv'
<1>1. PICK solver \in Baselines : StepOf(solver) /\ GreedyInv' /\ RepairInv' /\ AnswerInv'
  BY SomeBaselineSteps DEF SearchInv
<1>2. UNCHANGED input
  BY <1>1 DEF StepOf
<1>3. running' \in Calls' /\ StageInv'
  BY <1>1, CallsStep DEF SearchInv, HeldInv
<1>4. CandidatesInv' /\ ScoresInv'
  BY <1>2, SearchUntouched DEF SearchInv
<1> QED
  BY <1>1, <1>2, <1>3, <1>4, InputKept DEF SearchInv, HeldInv
-----------------------------------------------------------------------------
(***************************************************************************)
(* What a step does to the scores that are kept                            *)
(***************************************************************************)
LEMMA BetterFollows ==
    ASSUME Ready, NEW x \in Candidates, NEW y \in Candidates, NEW z \in Candidates,
           Better(x, y), Better(y, z)
    PROVE  Better(x, z)
<1> SUFFICES ASSUME ~Better(x, z) PROVE FALSE
  OBVIOUS
<1>1. ~Better(z, y)
  BY BetterScores
<1>2. ~Better(x, y)
  BY <1>1, BetterChain
<1> QED
  BY <1>2

\* The candidates and results whose scores are kept.
Holders(b, found, n) ==
    /\ b \in Candidates /\ n \in Candidates \cup {NoCandidate}
    /\ \A r \in found : found = {r} /\ ResultHolds(problem, r)
    /\ n = NoCandidate \/ NoCandidate \notin Candidates

LEMMA KeptTyped ==
    ASSUME Ready, NEW b, NEW found, NEW n, Holders(b, found, n)
    PROVE  Kept(b, found, n) \subseteq Words
<1>1. ScoreOfCandidate(b) \in Words /\ \A x \in {n} \ {NoCandidate} : ScoreOfCandidate(x) \in Words
  BY CandidatesTyped DEF Holders
<1>2. \A r \in found : SearchScore(problem, r) \in Words
  BY ReadyFacts, SearchScoreTyped DEF Holders
<1> QED
  BY <1>1, <1>2 DEF Kept

\* A score not before one of them may join them.
LEMMA LowWith ==
    ASSUME InputInv, NEW S \in SUBSET Words, NEW l, Low(l, S), NEW t \in S, NEW s \in Words,
           ~ScoreBefore(s, t)
    PROVE  Low(l, S \cup {s})
<1>1. l \in S /\ ~ScoreBefore(t, l)
  BY DEF Low
<1>2. /\ l \in [1..Width -> Int] /\ t \in [1..Width -> Int] /\ s \in [1..Width -> Int]
      /\ Width \in Nat
  BY <1>1, WordsAreVectors
<1>3. ~ScoreBefore(s, l)
  BY <1>1, <1>2, ScoresChain
<1> QED
  BY <1>1, <1>3 DEF Low

\* A candidate is evaluated and taken when it is better than the best one.
LEMMA BestTakes ==
    ASSUME Ready, NEW b, NEW found, NEW n, Holders(b, found, n), NEW x \in Candidates,
           NEW l, Low(l, Kept(b, found, n))
    PROVE  Low(Lesser(ScoreOfCandidate(x), l), Kept(BetterOf(x, b), found, n))
<1> DEFINE S == Kept(b, found, n)
           y == BetterOf(x, b)
           T == Kept(y, found, n)
           s == ScoreOfCandidate(x)
           m == Lesser(s, l)
<1>1. b \in Candidates /\ y \in {x, b} /\ y \in Candidates /\ ~Better(x, y) /\ ~Better(b, y)
  BY BetterOfIs DEF Holders
<1>2. S \in SUBSET Words /\ s \in Words
  BY KeptTyped, CandidatesTyped
<1>3. Low(m, S \cup {s})
  <2> HIDE DEF S, s
  <2> QED
    BY <1>2, LesserLow DEF Ready, S
<1>4. ~ScoreBefore(s, ScoreOfCandidate(y)) /\ ~ScoreBefore(ScoreOfCandidate(b), ScoreOfCandidate(y))
  BY <1>1, BetterScores
<1>5. T \in SUBSET (S \cup {s})
  BY <1>1 DEF Kept
<1>6. ASSUME NEW u \in S \cup {s} PROVE \E t \in T : ~ScoreBefore(u, t)
  <2>1. CASE u = s \/ u = ScoreOfCandidate(b)
    <3>1. ScoreOfCandidate(y) \in T
      BY DEF Kept
    <3> QED
      BY <1>4, <2>1, <3>1
  <2>2. CASE u \in T
    <3>1. u \in [1..Width -> Int] /\ Width \in Nat
      BY <1>2, WordsAreVectors DEF Ready
    <3> QED
      BY <2>2, <3>1, NotBeforeItself
  <2> QED
    BY <2>1, <2>2 DEF Kept
<1> HIDE DEF S, T, s, m
<1>7. Low(m, T)
  <2>1. S \cup {s} \in SUBSET Words
    BY <1>2
  <2> QED
    BY <1>3, <1>5, <1>6, <2>1, LowOfPart DEF Ready
<1> QED
  BY <1>7 DEF T, m, s

\* A constructive result replaces the kept one when it is better.
LEMMA IncumbentTakes ==
    ASSUME Ready, NEW b, NEW found, NEW n, Holders(b, found, n),
           NEW r, ResultHolds(problem, r), NEW l, Low(l, Kept(b, found, n)),
           NEW now, now = IF \A old \in found :
                                 ScoreBefore(SearchScore(problem, r), SearchScore(problem, old))
                          THEN {r} ELSE found
    PROVE  /\ Low(Lesser(SearchScore(problem, r), l), Kept(b, now, n))
           /\ Holders(b, now, n)
<1> DEFINE S == Kept(b, found, n)
           T == Kept(b, now, n)
           s == SearchScore(problem, r)
           m == Lesser(s, l)
<1>1. S \in SUBSET Words /\ s \in Words
  BY KeptTyped, ReadyFacts, SearchScoreTyped
<1>2. Low(m, S \cup {s})
  <2> HIDE DEF S, s
  <2> QED
    BY <1>1, LesserLow DEF Ready, S
<1>3. \A u \in Words : ~ScoreBefore(u, u)
  BY WordsAreVectors, NotBeforeItself DEF Ready
<1>4. T \in SUBSET (S \cup {s})
  BY DEF Kept
<1>5. ASSUME NEW u \in S \cup {s} PROVE \E t \in T : ~ScoreBefore(u, t)
  <2>1. CASE \A old \in found : ScoreBefore(s, SearchScore(problem, old))
    <3>1. now = {r} /\ s \in T
      BY <2>1 DEF Kept
    <3>2. CASE \E old \in found : u = SearchScore(problem, old)
      <4>1. ScoreBefore(s, u) /\ u \in Words
        BY <1>1, <2>1, <3>2
      <4>2. s \in [1..Width -> Int] /\ u \in [1..Width -> Int] /\ Width \in Nat
        BY <1>1, <4>1, WordsAreVectors DEF Ready
      <4>3. ~ScoreBefore(u, s)
        BY <4>1, <4>2, ScoresOrdered
      <4> QED
        BY <3>1, <4>3
    <3>3. CASE ~\E old \in found : u = SearchScore(problem, old)
      <4>1. u \in T
        BY <3>1, <3>3 DEF Kept
      <4> QED
        BY <1>1, <1>3, <4>1
    <3> QED
      BY <3>2, <3>3
  <2>2. CASE ~\A old \in found : ScoreBefore(s, SearchScore(problem, old))
    <3>1. PICK old \in found : ~ScoreBefore(s, SearchScore(problem, old))
      BY <2>2
    <3>2. now = found /\ S = T /\ SearchScore(problem, old) \in T
      BY <2>2 DEF Kept
    <3> QED
      BY <1>1, <1>3, <3>1, <3>2
  <2> QED
    BY <2>1, <2>2
<1>6. Holders(b, now, n)
  BY DEF Holders
<1> HIDE DEF S, T, s, m
<1>7. Low(m, T)
  <2>1. S \cup {s} \in SUBSET Words
    BY <1>1
  <2> QED
    BY <1>2, <1>4, <1>5, <2>1, LowOfPart DEF Ready
<1> QED
  BY <1>6, <1>7 DEF T, m, s
-----------------------------------------------------------------------------
(***************************************************************************)
(* The steps of the search                                                 *)
(***************************************************************************)
LEMMA HeldKept ==
    ASSUME HeldInv, UNCHANGED <<input, baselineVars, running, answer>>
    PROVE  HeldInv'
<1>1. GreedyInv' /\ RepairInv'
  BY GreedyKept, RepairKept DEF HeldInv, baselineVars
<1>2. AnswerInv'
  BY AnswerKept DEF HeldInv
<1>3. running' \in Calls'
  BY DEF HeldInv, Calls, input
<1> QED
  BY <1>1, <1>2, <1>3 DEF HeldInv

\* When the search runs and is not at a seed, no call is in progress.
LEMMA SearchRuns ==
    ASSUME InputInv, SearchInv, SearchMayRun
    PROVE  /\ options.solver = Search /\ running = <<Search>> /\ Front(running) = <<>>
           /\ running # <<>>
           /\ answer = NoAnswer \/ (stage \in {"canonical_greedy", "promote_repair"} /\ BudgetLeft)
<1>1. options.solver = Search /\ running = <<Search>> /\ Front(running) = <<>>
  BY SearchCalls DEF SearchInv, HeldInv
<1>2. running # <<>>
  BY DEF SearchMayRun, Active
<1> QED
  BY <1>1, <1>2 DEF SearchInv, StageInv

LEMMA StageFacts ==
    ASSUME InputInv, SearchInv, stage # "plain"
    PROVE  /\ Ready /\ best \in Candidates /\ Holders(best, constructive, next)
           /\ Low(least, Kept(best, constructive, next))
<1>1. Ready
  BY DEF Ready, SearchInv, StageInv
<1>2. best \in Candidates /\ next \in Candidates \cup {NoCandidate}
  BY DEF SearchInv, CandidatesInv, CandidatesHold
<1>3. next = NoCandidate \/ NoCandidate \notin Candidates
  BY DEF SearchInv, CandidatesInv, CandidatesHold, StageInv
<1>4. /\ \A r \in constructive : constructive = {r} /\ ResultHolds(problem, r)
      /\ Low(least, Kept(best, constructive, next))
  BY DEF SearchInv, ScoresInv, ScoresHold
<1> QED
  BY <1>1, <1>2, <1>3, <1>4 DEF Holders

\* The budget after one more evaluation.
LEMMA BudgetSpent ==
    ASSUME InputInv, evaluations \in Nat, BudgetLeft \/ evaluations = 0, UNCHANGED input,
           evaluations' = evaluations + 1
    PROVE  BudgetIsKept' /\ evaluations' \in Nat /\ evaluations' # 0
<1>1. evaluations + 1 <= Max({1, options.maxEvaluations})
  <2> DEFINE top == Max({1, options.maxEvaluations})
  <2>1. options.maxEvaluations \in Nat /\ top \in Nat /\ 1 <= top /\ options.maxEvaluations <= top
    BY BudgetBounds
  <2> HIDE DEF top
  <2>2. evaluations + 1 <= top
    BY <2>1 DEF BudgetLeft
  <2> QED
    BY <2>2 DEF top
<1> QED
  BY <1>1 DEF BudgetIsKept, input

LEMMA RefuseSearchKeeps ==
    ASSUME InputInv, SearchInv, RefuseSearch
    PROVE  InputInv' /\ SearchInv'
<1>1. /\ SearchMayRun /\ running' = Front(running)
      /\ answer' = Without(SearchRefusal(problem))
      /\ UNCHANGED input /\ UNCHANGED baselineVars /\ UNCHANGED searchVars
  BY DEF RefuseSearch, Return
<1>2. running' = <<>>
  BY <1>1, SearchRuns
<1>3. HeldInv'
  <2>1. GreedyInv' /\ RepairInv'
    BY <1>1, GreedyKept, RepairKept DEF SearchInv, HeldInv, baselineVars
  <2>2. AnswerInv'
    BY <1>1, WithoutHolds, AnswerKept DEF SearchInv, HeldInv
  <2> QED
    BY <1>2, <2>1, <2>2 DEF HeldInv, Calls
<1>4. StageInv'
  BY <1>1, <1>2 DEF SearchInv, StageInv, BudgetIsKept, BudgetLeft, searchVars, budget, candidates, input
<1>5. CandidatesInv' /\ ScoresInv'
  BY <1>1, SearchUntouched DEF SearchInv
<1> QED
  BY <1>1, <1>3, <1>4, <1>5, InputKept DEF SearchInv

LEMMA PlainSeedKeeps ==
    ASSUME InputInv, SearchInv, PlainSeed
    PROVE  InputInv' /\ SearchInv'
<1> DEFINE x == <<table.orders[1], {}>>
           s == ScoreOfCandidate(x)
<1>1. /\ SearchMayRun /\ stage = "plain" /\ SearchRefusal(problem) = "none"
      /\ best' = x /\ evaluations' = evaluations + 1
      /\ least' = Lesser(ScoreOfCandidate(best'), least) /\ stage' = "strict"
      /\ UNCHANGED input /\ UNCHANGED <<running, answer>> /\ UNCHANGED baselineVars
      /\ restart' = restart /\ stagnation' = stagnation /\ move' = move
      /\ current' = current /\ next' = next
      /\ escape' = escape /\ constructive' = constructive
  BY DEF PlainSeed, Evaluates
<1>2. Ready
  BY <1>1 DEF Ready
<1>3. x \in Candidates
  <2>1. table.orders \in Seq(Orders(problem)) /\ Len(table.orders) > 0
    BY <1>2, ReadyFacts, Tables
  <2>2. table.orders[1] \in Orders(problem)
    BY <2>1, LenProperties
  <2> QED
    BY <2>2 DEF Candidates
<1> HIDE DEF x
<1>4. s \in Words /\ s \in [1..Width -> Int] /\ Width \in Nat
  BY <1>2, <1>3, CandidatesTyped
<1>5. /\ evaluations = 0 /\ restart = 0 /\ stagnation \in Nat /\ move \in Nat /\ constructive = {}
      /\ least = WorstSearchScore
      /\ current = NoCandidate /\ next = NoCandidate
      /\ answer = NoAnswer /\ running = <<Search>> /\ options.solver = Search
  BY <1>1, SearchRuns DEF SearchInv, StageInv, ScoresInv, ScoresHold, Early
<1>6. least' = s
  <2>1. least' = Lesser(s, least)
    BY <1>1
  <2>2. WorstSearchScore \in [1..Width -> Int] /\ \A i \in 1..Width : WorstSearchScore[i] = MaxUInt
    BY MaxUIntAssumption DEF WorstSearchScore, Width
  <2>3. ~ScoreBefore(WorstSearchScore, s)
    <3> SUFFICES ASSUME ScoreBefore(WorstSearchScore, s) PROVE FALSE
      OBVIOUS
    <3>1. PICK i \in DOMAIN WorstSearchScore : WorstSearchScore[i] < s[i]
      BY DEF ScoreBefore
    <3>2. i \in 1..Width /\ s[i] \in 0..MaxUInt /\ WorstSearchScore[i] = MaxUInt
      BY <1>4, <2>2, <3>1 DEF Words
    <3> QED
      BY <3>1, <3>2, MaxUIntAssumption
  <2>4. ScoreBefore(s, WorstSearchScore) \/ s = WorstSearchScore
    BY <1>4, <2>2, <2>3, ScoresCompare
  <2> QED
    BY <1>5, <2>1, <2>4 DEF Lesser
<1>7. ScoresInv'
  <2>1. Kept(x, {}, NoCandidate) = {s}
    BY DEF Kept
  <2>2. ~ScoreBefore(s, s)
    BY <1>4, NotBeforeItself
  <2>3. Low(s, Kept(x, {}, NoCandidate))
    BY <2>1, <2>2 DEF Low
  <2> QED
    BY <1>1, <1>5, <1>6, <2>3, Frozen DEF ScoresHold
<1>8. CandidatesInv'
  BY <1>1, <1>3, <1>5, Frozen DEF CandidatesHold, Late
<1>9. StageInv'
  <2>1. BudgetIsKept' /\ evaluations' \in Nat /\ evaluations' # 0
    BY <1>1, <1>5, BudgetSpent
  <2> QED
    BY <1>1, <1>5, <2>1, Frozen DEF StageInv, Early, Late
<1>10. HeldInv'
  BY <1>1, HeldKept DEF SearchInv
<1> QED
  BY <1>1, <1>7, <1>8, <1>9, <1>10, InputKept DEF SearchInv

LEMMA FirstOrder ==
    ASSUME Ready
    PROVE  table.orders[1] \in Orders(problem)
<1>1. table.orders \in Seq(Orders(problem)) /\ Len(table.orders) > 0
  BY ReadyFacts, Tables
<1> QED
  BY <1>1, LenProperties

\* A step of the search that calls nothing.
LEMMA SearchStep ==
    ASSUME InputInv, SearchInv, SearchMayRun, stage # "plain",
           UNCHANGED <<input, baselineVars, running>>, answer' = NoAnswer,
           stage' \in (Early \cup Late) \ {"plain"},
           evaluations' = evaluations \/ (BudgetLeft /\ evaluations' = evaluations + 1),
           restart' \in Nat, stagnation' \in Nat, move' \in Nat,
           stage' \in Early => restart' = 0 /\ current' = NoCandidate /\ next' = NoCandidate,
           stage' \in {"iterate", "moves", "kick"} => restart' < options.restarts,
           stage' = "restart" => restart' <= options.restarts,
           stage' = "kick" => evaluations' < options.maxEvaluations,
           CandidatesHold(stage', best', current', next', escape'),
           ScoresHold(stage', best', constructive', next', least')
    PROVE  InputInv' /\ SearchInv'
<1>1. problem' = problem /\ table' = table /\ options' = options /\ UNCHANGED input
      /\ running' = running /\ UNCHANGED baselineVars
  BY DEF input
<1>2. HeldInv'
  <2>1. GreedyInv' /\ RepairInv'
    BY <1>1, GreedyKept, RepairKept DEF SearchInv, HeldInv, baselineVars
  <2>2. ResultHolds(problem, NoAnswer)
    BY WithoutHolds DEF NoAnswer
  <2>3. AnswerInv'
    BY <1>1, <2>2 DEF AnswerInv
  <2>4. running' \in Calls'
    BY <1>1 DEF SearchInv, HeldInv, Calls
  <2> QED
    BY <2>1, <2>3, <2>4 DEF HeldInv
<1>3. options.solver = Search /\ running = <<Search>> /\ SearchRefusal(problem) = "none"
  BY SearchRuns DEF SearchInv, StageInv
<1>4. evaluations \in Nat /\ evaluations # 0
  BY DEF SearchInv, StageInv
<1>5. BudgetIsKept' /\ evaluations' \in Nat /\ evaluations' # 0
  <2>1. CASE evaluations' = evaluations
    BY <1>1, <1>4, <2>1 DEF SearchInv, StageInv, BudgetIsKept
  <2>2. CASE BudgetLeft /\ evaluations' = evaluations + 1
    BY <1>1, <1>4, <2>2, BudgetSpent
  <2> QED
    BY <2>1, <2>2
<1>6. StageInv'
  BY <1>1, <1>3, <1>5 DEF StageInv, BudgetLeft
<1>7. CandidatesInv' /\ ScoresInv'
  BY <1>1, Frozen
<1> QED
  BY <1>1, <1>2, <1>6, <1>7, InputKept DEF SearchInv

LEMMA StrictSeedKeeps ==
    ASSUME InputInv, SearchInv, StrictSeed
    PROVE  InputInv' /\ SearchInv'
<1> DEFINE x == <<table.orders[1], AllSoft>>
<1>1. /\ SearchMayRun /\ stage = "strict" /\ stage' = "canonical_greedy"
      /\ \/ /\ BudgetLeft /\ evaluations' = evaluations + 1
            /\ least' = Lesser(ScoreOfCandidate(x), least) /\ best' = BetterOf(x, best)
         \/ evaluations' = evaluations /\ least' = least /\ best' = best
      /\ UNCHANGED input /\ UNCHANGED running /\ UNCHANGED answer /\ UNCHANGED baselineVars
      /\ restart' = restart /\ stagnation' = stagnation /\ move' = move /\ current' = current
      /\ next' = next /\ escape' = escape /\ constructive' = constructive
  BY DEF StrictSeed, Evaluates
<1>2. Ready /\ x \in Candidates
  BY <1>1, StageFacts, FirstOrder DEF Candidates
<1> HIDE DEF x
<1>3. /\ best \in Candidates /\ Holders(best, constructive, next)
      /\ Low(least, Kept(best, constructive, next))
      /\ answer = NoAnswer /\ stagnation \in Nat /\ move \in Nat
      /\ restart = 0 /\ current = NoCandidate /\ next = NoCandidate
      /\ \A r \in constructive : constructive = {r} /\ ResultHolds(problem, r)
  BY <1>1, StageFacts, SearchRuns DEF SearchInv, StageInv, ScoresInv, ScoresHold, Early
<1>4. best' \in Candidates /\ Low(least', Kept(best', constructive', next'))
  BY <1>1, <1>2, <1>3, BestTakes, BetterOfIs
<1>5. CandidatesHold(stage', best', current', next', escape')
  BY <1>1, <1>3, <1>4 DEF CandidatesHold, Late
<1>6. ScoresHold(stage', best', constructive', next', least')
  BY <1>1, <1>3, <1>4 DEF ScoresHold
<1> QED
  BY <1>1, <1>3, <1>5, <1>6, SearchStep DEF Early

LEMMA CallSeedKeeps ==
    ASSUME InputInv, SearchInv, NEW solver \in {"canonical_greedy", "promote_repair"},
           CallSeed(solver)
    PROVE  InputInv' /\ SearchInv'
<1>1. /\ SearchMayRun /\ stage = solver /\ answer = NoAnswer
      /\ \/ /\ BudgetLeft /\ running' = Append(running, solver) /\ answer' = NoAnswer
            /\ stage' = stage
         \/ stage' = StageAfter(solver) /\ running' = running /\ answer' = answer
      /\ UNCHANGED input /\ UNCHANGED baselineVars
      /\ evaluations' = evaluations /\ restart' = restart /\ stagnation' = stagnation
      /\ move' = move /\ best' = best /\ current' = current /\ next' = next
      /\ escape' = escape /\ constructive' = constructive /\ least' = least
  BY DEF CallSeed, Call, budget, candidates
<1>2. options.solver = Search /\ running = <<Search>> /\ stage \in Early /\ stage # "plain"
  BY <1>1, SearchRuns DEF Early
<1>3. CASE BudgetLeft /\ running' = Append(running, solver) /\ answer' = NoAnswer /\ stage' = stage
  <2>1. running' = <<Search, solver>> /\ running' # <<Search>> /\ running'[2] = solver
    BY <1>2, <1>3, CallStacks
  <2>2. options' = options
    BY <1>1 DEF input
  <2>3. running' \in Calls'
    <3>1. <<Search, "canonical_greedy">>[1] = Search /\ <<Search, "promote_repair">>[1] = Search
      OBVIOUS
    <3> QED
      BY <1>2, <2>1, <2>2, <3>1 DEF Calls
  <2>4. HeldInv'
    BY <1>1, <1>3, <2>3, AnswerKept, GreedyKept, RepairKept DEF SearchInv, HeldInv, baselineVars
  <2>5. StageInv'
    BY <1>1, <1>2, <1>3, <2>1, <2>2, Frozen DEF SearchInv, StageInv, BudgetIsKept, BudgetLeft
  <2>6. CandidatesInv' /\ ScoresInv'
    BY <1>1, <1>3, Frozen DEF SearchInv, CandidatesInv, ScoresInv
  <2> QED
    BY <1>1, <2>4, <2>5, <2>6, InputKept DEF SearchInv
<1>4. CASE stage' = StageAfter(solver) /\ running' = running /\ answer' = answer
  <2>1. stage' \in Early \ {"plain"}
    BY <1>4 DEF StageAfter, Early
  <2>2. /\ restart = 0 /\ stagnation \in Nat /\ move \in Nat
        /\ current = NoCandidate /\ next = NoCandidate
    BY <1>2 DEF SearchInv, StageInv
  <2>3. CandidatesHold(stage', best', current', next', escape')
    BY <1>1, <1>2, <2>1, <2>2 DEF SearchInv, CandidatesInv, CandidatesHold, Early, Late
  <2>4. ScoresHold(stage', best', constructive', next', least')
    BY <1>1, <1>2, <2>1 DEF SearchInv, ScoresInv, ScoresHold
  <2> QED
    BY <1>1, <1>2, <1>4, <2>1, <2>2, <2>3, <2>4, SearchStep DEF Early
<1> QED
  BY <1>1, <1>3, <1>4

LEMMA SeedReturnsKeeps ==
    ASSUME InputInv, SearchInv, NEW solver \in {"canonical_greedy", "promote_repair"},
           SeedReturns(solver)
    PROVE  InputInv' /\ SearchInv'
<1>1. /\ SearchMayRun /\ stage = solver /\ answer # NoAnswer
      /\ \/ /\ answer.status = "kFeasible" /\ RetainIncumbent
            /\ \E seed \in {ConstructiveSeed(solver, sol) : sol \in answer.solution} :
                   /\ best' = BetterOf(seed, best)
                   /\ least' = Lesser(SearchScore(problem, answer),
                                      Lesser(ScoreOfCandidate(seed), least))
            /\ evaluations' = evaluations + 1
         \/ constructive' = constructive /\ best' = best /\ least' = least /\ evaluations' = evaluations
      /\ answer' = NoAnswer /\ stage' = StageAfter(solver)
      /\ UNCHANGED input /\ UNCHANGED running /\ UNCHANGED baselineVars
      /\ restart' = restart /\ stagnation' = stagnation
      /\ move' = move /\ current' = current /\ next' = next /\ escape' = escape
  BY DEF SeedReturns
<1>2. stage' \in Early \ {"plain"} /\ stage \in Early \ {"plain"}
  BY <1>1 DEF StageAfter, Early
<1>3. Ready /\ best \in Candidates /\ Holders(best, constructive, next)
      /\ Low(least, Kept(best, constructive, next)) /\ BudgetLeft
      /\ restart = 0 /\ stagnation \in Nat /\ move \in Nat
      /\ current = NoCandidate /\ next = NoCandidate
      /\ ResultHolds(problem, answer)
  <2>1. options.solver = Search
    BY <1>1, SearchRuns
  <2>2. ResultHolds(problem, answer)
    BY <2>1 DEF SearchInv, HeldInv, AnswerInv
  <2> QED
    BY <1>1, <1>2, <2>2, StageFacts, SearchRuns DEF SearchInv, StageInv
<1>4. /\ best' \in Candidates /\ Holders(best', constructive', next')
      /\ Low(least', Kept(best', constructive', next'))
      /\ evaluations' = evaluations \/ evaluations' = evaluations + 1
  <2>1. CASE constructive' = constructive /\ best' = best /\ least' = least /\ evaluations' = evaluations
    BY <1>1, <1>3, <2>1
  <2>2. CASE /\ answer.status = "kFeasible" /\ RetainIncumbent
             /\ \E seed \in {ConstructiveSeed(solver, sol) : sol \in answer.solution} :
                    /\ best' = BetterOf(seed, best)
                    /\ least' = Lesser(SearchScore(problem, answer),
                                       Lesser(ScoreOfCandidate(seed), least))
             /\ evaluations' = evaluations + 1
    <3>1. PICK sol \in answer.solution :
              /\ best' = BetterOf(ConstructiveSeed(solver, sol), best)
              /\ least' = Lesser(SearchScore(problem, answer),
                                 Lesser(ScoreOfCandidate(ConstructiveSeed(solver, sol)), least))
      BY <2>2
    <3> DEFINE seed == ConstructiveSeed(solver, sol)
               l == Lesser(ScoreOfCandidate(seed), least)
    <3>2. seed \in Candidates
      BY <1>3, <2>2, SeedTyped
    <3>3. best' = BetterOf(seed, best) /\ least' = Lesser(SearchScore(problem, answer), l)
      BY <3>1
    <3> HIDE DEF seed
    <3>4. Low(l, Kept(best', constructive, next)) /\ best' \in Candidates
      BY <1>3, <3>2, <3>3, BestTakes, BetterOfIs
    <3> HIDE DEF l
    <3>5. Holders(best', constructive, next)
      BY <1>3, <3>4 DEF Holders
    <3>6. constructive' = IF \A old \in constructive :
                                 ScoreBefore(SearchScore(problem, answer), SearchScore(problem, old))
                          THEN {answer} ELSE constructive
      BY <2>2 DEF RetainIncumbent
    <3>7. /\ Low(Lesser(SearchScore(problem, answer), l), Kept(best', constructive', next))
          /\ Holders(best', constructive', next)
      BY <1>3, <3>4, <3>5, <3>6, IncumbentTakes
    <3> QED
      BY <1>1, <2>2, <3>3, <3>4, <3>7
  <2> QED
    BY <1>1, <2>1, <2>2
<1>5. CandidatesHold(stage', best', current', next', escape')
  BY <1>1, <1>2, <1>3, <1>4 DEF CandidatesHold, Early, Late
<1>6. ScoresHold(stage', best', constructive', next', least')
  BY <1>2, <1>4 DEF ScoresHold, Holders
<1> QED
  BY <1>1, <1>2, <1>3, <1>4, <1>5, <1>6, SearchStep DEF Early

\* In the search proper no call is in progress.
LEMMA LateFacts ==
    ASSUME InputInv, SearchInv, SearchMayRun, stage \in Late
    PROVE  /\ Ready /\ answer = NoAnswer /\ stage # "plain"
           /\ best \in Candidates /\ current \in Candidates /\ NoCandidate \notin Candidates
           /\ ~Better(current, best) /\ Holders(best, constructive, next)
           /\ Low(least, Kept(best, constructive, next))
           /\ restart \in Nat /\ stagnation \in Nat /\ move \in Nat
           /\ stage # "restart" => restart < options.restarts
           /\ stage # "moves" /\ next # NoCandidate => ~Better(next, best)
<1>1. stage # "plain" /\ stage \notin {"canonical_greedy", "promote_repair"}
      /\ (stage # "restart" => stage \in {"iterate", "moves", "kick"})
      /\ (stage # "moves" => stage \in Late \ {"moves"})
  BY DEF Late
<1>2. answer = NoAnswer
  BY <1>1, SearchRuns
<1>3. current \in Candidates /\ NoCandidate \notin Candidates /\ ~Better(current, best)
      /\ (stage # "moves" /\ next # NoCandidate => ~Better(next, best))
  BY <1>1 DEF SearchInv, CandidatesInv, CandidatesHold
<1>4. /\ restart \in Nat /\ stagnation \in Nat /\ move \in Nat
      /\ stage # "restart" => restart < options.restarts
  BY <1>1 DEF SearchInv, StageInv
<1> QED
  BY <1>1, <1>2, <1>3, <1>4, StageFacts

\* The next candidate is left for one that is not better than the best.
LEMMA NextReplaced ==
    ASSUME Ready, NEW b, NEW found, NEW n, Holders(b, found, n),
           n # NoCandidate => ~Better(n, b), NEW l, Low(l, Kept(b, found, n)),
           NEW y \in Candidates, ~Better(y, b), NoCandidate \notin Candidates
    PROVE  Low(l, Kept(b, found, y)) /\ Holders(b, found, y)
<1> DEFINE S == Kept(b, found, n)
           M == S \cup {ScoreOfCandidate(y)}
           T == Kept(b, found, y)
           sb == ScoreOfCandidate(b)
           sy == ScoreOfCandidate(y)
<1>1. S \in SUBSET Words /\ sy \in Words /\ sb \in S /\ sb \in Words
  BY KeptTyped, CandidatesTyped DEF Kept, Holders
<1>2. ~ScoreBefore(sy, sb)
  BY BetterScores DEF Holders
<1>3. Low(l, M)
  <2> HIDE DEF S, sb, sy
  <2> QED
    BY <1>1, <1>2, LowWith DEF Ready, S, sy
<1>4. T \in SUBSET M /\ sb \in T
  BY DEF Kept
<1>5. ASSUME NEW u \in M PROVE \E t \in T : ~ScoreBefore(u, t)
  <2>1. CASE u \in T
    <3>1. u \in [1..Width -> Int] /\ Width \in Nat
      BY <1>1, WordsAreVectors DEF Ready
    <3> QED
      BY <2>1, <3>1, NotBeforeItself
  <2>2. CASE n # NoCandidate /\ u = ScoreOfCandidate(n)
    <3>1. n \in Candidates /\ ~Better(n, b) /\ b \in Candidates
      BY <2>2 DEF Holders
    <3>2. ~ScoreBefore(u, sb)
      BY <2>2, <3>1, BetterScores
    <3> QED
      BY <1>4, <3>2
  <2> QED
    BY <2>1, <2>2 DEF Kept
<1> HIDE DEF S, T, M, sb, sy
<1>6. Low(l, T)
  <2>1. M \in SUBSET Words
    BY <1>1 DEF M, sy
  <2> QED
    BY <1>3, <1>4, <1>5, <2>1, LowOfPart DEF Ready
<1>7. Holders(b, found, y)
  BY DEF Holders
<1> QED
  BY <1>6, <1>7 DEF T

\* A candidate is evaluated and taken when it is better than the next one.
LEMMA NextTakes ==
    ASSUME Ready, NEW b, NEW found, NEW n, Holders(b, found, n), n \in Candidates,
           NEW x \in Candidates, NoCandidate \notin Candidates,
           NEW l, Low(l, Kept(b, found, n))
    PROVE  Low(Lesser(ScoreOfCandidate(x), l), Kept(b, found, BetterOf(x, n)))
<1> DEFINE S == Kept(b, found, n)
           y == BetterOf(x, n)
           T == Kept(b, found, y)
           s == ScoreOfCandidate(x)
           m == Lesser(s, l)
<1>1. y \in {x, n} /\ y \in Candidates /\ ~Better(x, y) /\ ~Better(n, y) /\ y # NoCandidate
  BY BetterOfIs
<1>2. S \in SUBSET Words /\ s \in Words
  BY KeptTyped, CandidatesTyped
<1>3. Low(m, S \cup {s})
  <2> HIDE DEF S, s
  <2> QED
    BY <1>2, LesserLow DEF Ready, S
<1>4. ~ScoreBefore(s, ScoreOfCandidate(y)) /\ ~ScoreBefore(ScoreOfCandidate(n), ScoreOfCandidate(y))
  BY <1>1, BetterScores
<1>5. T \in SUBSET (S \cup {s})
  BY <1>1 DEF Kept
<1>6. ASSUME NEW u \in S \cup {s} PROVE \E t \in T : ~ScoreBefore(u, t)
  <2>1. CASE u = s \/ u = ScoreOfCandidate(n)
    <3>1. ScoreOfCandidate(y) \in T
      BY <1>1 DEF Kept
    <3> QED
      BY <1>4, <2>1, <3>1
  <2>2. CASE u \in T
    <3>1. u \in [1..Width -> Int] /\ Width \in Nat
      BY <1>2, WordsAreVectors DEF Ready
    <3> QED
      BY <2>2, <3>1, NotBeforeItself
  <2> QED
    BY <2>1, <2>2 DEF Kept
<1> HIDE DEF S, T, s, m
<1>7. Low(m, T)
  <2>1. S \cup {s} \in SUBSET Words
    BY <1>2
  <2> QED
    BY <1>3, <1>5, <1>6, <2>1, LowOfPart DEF Ready
<1> QED
  BY <1>7 DEF T, m, s

LEMMA FirstRestartKeeps ==
    ASSUME InputInv, SearchInv, FirstRestart
    PROVE  InputInv' /\ SearchInv'
<1>1. /\ SearchMayRun /\ stage = "ready" /\ ~NothingToSearch
      /\ current' = best /\ stagnation' = 0 /\ stage' = "iterate"
      /\ UNCHANGED input /\ UNCHANGED running /\ UNCHANGED answer /\ UNCHANGED baselineVars
      /\ evaluations' = evaluations /\ restart' = restart
      /\ move' = move /\ best' = best /\ next' = next /\ escape' = escape
      /\ constructive' = constructive /\ least' = least
  BY DEF FirstRestart
<1>2. /\ Ready /\ best \in Candidates /\ answer = NoAnswer
      /\ restart = 0 /\ move \in Nat /\ next = NoCandidate /\ options.restarts \in Nat
  BY <1>1, StageFacts, SearchRuns, BudgetBounds DEF SearchInv, StageInv, Early
<1>3. options.restarts # 0 /\ (Cardinality(Nodes) < 2 => AllSoft # {})
  BY <1>1 DEF NothingToSearch
<1>4. NoCandidate \notin Candidates
  <2> SUFFICES ASSUME NoCandidate \in Candidates PROVE FALSE
    OBVIOUS
  <2> DEFINE N == Cardinality(Classes(problem))
  <2>1. <<>> \in Orders(problem)
    BY DEF NoCandidate, Candidates
  <2>2. DOMAIN <<>> = 1..N
    BY <2>1 DEF Orders
  <2>3. N \in Nat /\ Nodes = Classes(problem) /\ AllSoft \subseteq Nodes \X Nodes
    BY <1>2, ReadyFacts, Tables, ClassesFinite, FS_CardinalityType
  <2>4. N = 0
    <3>1. DOMAIN <<>> = {}
      OBVIOUS
    <3> HIDE DEF N
    <3>2. 1..N = {}
      BY <2>2, <3>1
    <3> QED
      BY <2>3, <3>2
  <2>5. Nodes = {}
    BY <1>2, <2>3, <2>4, ReadyFacts, ClassesFinite, FS_EmptySet
  <2> QED
    BY <1>3, <2>3, <2>4, <2>5
<1>5. CandidatesHold(stage', best', current', next', escape')
  <2>1. ~Better(best, best)
    BY <1>2, BetterScores
  <2> QED
    BY <1>1, <1>2, <1>4, <2>1 DEF CandidatesHold
<1>6. ScoresHold(stage', best', constructive', next', least')
  BY <1>1 DEF SearchInv, ScoresInv, ScoresHold
<1> QED
  BY <1>1, <1>2, <1>3, <1>5, <1>6, SearchStep DEF Early, Late

\* A restart or a kick evaluates a candidate and goes on from it.
LEMMA JumpKeeps ==
    ASSUME InputInv, SearchInv, SearchMayRun, stage \in {"restart", "kick"}, BudgetLeft,
           restart < options.restarts, NEW x \in Candidates, current' = x,
           evaluations' = evaluations + 1, least' = Lesser(ScoreOfCandidate(x), least),
           best' = BetterOf(x, best), stage' = "iterate", stagnation' \in Nat,
           UNCHANGED input, UNCHANGED running, UNCHANGED answer, UNCHANGED baselineVars,
           restart' = restart, move' = move, next' = next, escape' = escape,
           constructive' = constructive
    PROVE  InputInv' /\ SearchInv'
<1>1. stage \in Late /\ stage # "moves"
  BY DEF Late
<1>2. /\ Ready /\ answer = NoAnswer /\ stage # "plain" /\ best \in Candidates
      /\ NoCandidate \notin Candidates /\ Holders(best, constructive, next)
      /\ Low(least, Kept(best, constructive, next)) /\ restart \in Nat /\ move \in Nat
      /\ next # NoCandidate => ~Better(next, best)
  BY <1>1, LateFacts
<1>3. best' \in Candidates /\ ~Better(x, best') /\ ~Better(best, best')
  BY <1>2, BetterOfIs
<1>4. Low(least', Kept(best', constructive', next'))
  BY <1>2, BestTakes
<1>5. CandidatesHold(stage', best', current', next', escape')
  <2>1. next # NoCandidate => ~Better(next, best')
    BY <1>2, <1>3, BetterChain DEF Holders
  <2> QED
    BY <1>2, <1>3, <2>1 DEF CandidatesHold, Holders
<1>6. ScoresHold(stage', best', constructive', next', least')
  BY <1>2, <1>4 DEF ScoresHold, Holders
<1> QED
  BY <1>2, <1>5, <1>6, SearchStep DEF Early, Late

LEMMA RestartKeeps ==
    ASSUME InputInv, SearchInv, Restart
    PROVE  InputInv' /\ SearchInv'
<1>1. PICK order \in Orders(problem), promoted \in SUBSET AllSoft : current' = <<order, promoted>>
  BY DEF Restart
<1> DEFINE x == <<order, promoted>>
<1>2. x \in Candidates /\ current' = x
  BY <1>1 DEF Candidates
<1> HIDE DEF x
<1>3. /\ SearchMayRun /\ stage = "restart" /\ BudgetLeft /\ restart < options.restarts
      /\ evaluations' = evaluations + 1 /\ least' = Lesser(ScoreOfCandidate(current'), least)
      /\ best' = BetterOf(current', best) /\ stagnation' = 0 /\ stage' = "iterate"
      /\ UNCHANGED input /\ UNCHANGED running /\ UNCHANGED answer /\ UNCHANGED baselineVars
      /\ restart' = restart /\ move' = move /\ next' = next /\ escape' = escape
      /\ constructive' = constructive
  BY DEF Restart, MayRestart, Evaluates
<1>4. least' = Lesser(ScoreOfCandidate(x), least) /\ best' = BetterOf(x, best) /\ stagnation' \in Nat
  BY <1>2, <1>3
<1> QED
  BY <1>2, <1>3, <1>4, JumpKeeps

LEMMA KickKeeps ==
    ASSUME InputInv, SearchInv, Kick
    PROVE  InputInv' /\ SearchInv'
<1>1. /\ SearchMayRun /\ stage = "kick"
      /\ evaluations' = evaluations + 1 /\ least' = Lesser(ScoreOfCandidate(current'), least)
      /\ best' = BetterOf(current', best) /\ stage' = "iterate"
      /\ UNCHANGED input /\ UNCHANGED running /\ UNCHANGED answer /\ UNCHANGED baselineVars
      /\ restart' = restart /\ stagnation' = stagnation /\ move' = move /\ next' = next
      /\ escape' = escape /\ constructive' = constructive
  BY DEF Kick, Evaluates
<1>2. Ready /\ current \in Candidates /\ stagnation \in Nat /\ restart < options.restarts
  BY <1>1, LateFacts DEF Late
<1>3. BudgetLeft
  BY <1>1 DEF SearchInv, StageInv
<1>4. current' \in Candidates
  <2>1. PICK order \in OrderMoves(current[1]),
             promoted \in IF AllSoft = {} THEN {current[2]}
                          ELSE {Toggle(current[2], e) : e \in AllSoft} :
                 current' = <<order, promoted>>
    BY DEF Kick
  <2>2. order \in Orders(problem)
    BY <1>2, ReadyFacts, OrderMovesTyped DEF Candidates
  <2>3. promoted \subseteq AllSoft
    BY <1>2 DEF Candidates, Toggle
  <2> QED
    BY <2>1, <2>2, <2>3 DEF Candidates
<1> QED
  BY <1>1, <1>2, <1>3, <1>4, JumpKeeps

LEMMA BeginIterationKeeps ==
    ASSUME InputInv, SearchInv, BeginIteration
    PROVE  InputInv' /\ SearchInv'
<1>1. /\ SearchMayRun /\ stage = "iterate"
      /\ \/ /\ next' = current /\ escape' = {} /\ move' = 0 /\ stage' = "moves"
            /\ restart' = restart
         \/ /\ restart' = restart + 1 /\ stage' = "restart"
            /\ next' = next /\ escape' = escape /\ move' = move
      /\ UNCHANGED input /\ UNCHANGED running /\ UNCHANGED answer /\ UNCHANGED baselineVars
      /\ evaluations' = evaluations /\ stagnation' = stagnation /\ best' = best
      /\ current' = current /\ constructive' = constructive /\ least' = least
  BY DEF BeginIteration
<1>2. /\ Ready /\ answer = NoAnswer /\ stage # "plain" /\ best \in Candidates
      /\ current \in Candidates /\ NoCandidate \notin Candidates
      /\ ~Better(current, best) /\ Holders(best, constructive, next)
      /\ Low(least, Kept(best, constructive, next))
      /\ restart \in Nat /\ stagnation \in Nat /\ move \in Nat /\ restart < options.restarts
      /\ (next # NoCandidate => ~Better(next, best)) /\ options.restarts \in Nat
  BY <1>1, LateFacts, BudgetBounds DEF Late
<1>3. CASE next' = current /\ escape' = {} /\ move' = 0 /\ stage' = "moves" /\ restart' = restart
  <2>1. Low(least, Kept(best, constructive, current)) /\ Holders(best, constructive, current)
    BY <1>2, NextReplaced
  <2>2. CandidatesHold(stage', best', current', next', escape')
    BY <1>1, <1>2, <1>3 DEF CandidatesHold
  <2>3. ScoresHold(stage', best', constructive', next', least')
    BY <1>1, <1>2, <1>3, <2>1 DEF ScoresHold, Holders
  <2> QED
    BY <1>1, <1>2, <1>3, <2>2, <2>3, SearchStep DEF Early, Late
<1>4. CASE /\ restart' = restart + 1 /\ stage' = "restart"
           /\ next' = next /\ escape' = escape /\ move' = move
  <2>1. CandidatesHold(stage', best', current', next', escape')
    BY <1>1, <1>2, <1>4 DEF CandidatesHold, Holders
  <2>2. ScoresHold(stage', best', constructive', next', least')
    BY <1>1, <1>2, <1>4 DEF ScoresHold, Holders
  <2> QED
    BY <1>1, <1>2, <1>4, <2>1, <2>2, SearchStep DEF Early, Late
<1> QED
  BY <1>1, <1>3, <1>4

\* A move is tried.
LEMMA TriesKeeps ==
    ASSUME InputInv, SearchInv, SearchMayRun, stage = "moves", BudgetLeft,
           NEW x \in Candidates, Tries(x)
    PROVE  InputInv' /\ SearchInv'
<1>1. /\ evaluations' = evaluations + 1 /\ least' = Lesser(ScoreOfCandidate(x), least)
      /\ \/ Better(x, next) /\ next' = x /\ escape' = escape
         \/ ~Better(x, next) /\ ~Better(x, current) /\ escape' = {x} /\ next' = next
         \/ ~Better(x, next) /\ next' = next /\ escape' = escape
      /\ move' = move + 1
      /\ UNCHANGED input /\ UNCHANGED running /\ UNCHANGED answer /\ UNCHANGED baselineVars
      /\ stage' = stage /\ restart' = restart /\ stagnation' = stagnation
      /\ best' = best /\ current' = current /\ constructive' = constructive
  BY DEF Tries, Evaluates, Improves
<1>2. /\ Ready /\ answer = NoAnswer /\ stage # "plain" /\ best \in Candidates
      /\ current \in Candidates /\ NoCandidate \notin Candidates
      /\ ~Better(current, best) /\ Holders(best, constructive, next)
      /\ Low(least, Kept(best, constructive, next))
      /\ restart \in Nat /\ stagnation \in Nat /\ move \in Nat /\ restart < options.restarts
  BY LateFacts DEF Late
<1>3. /\ next \in Candidates /\ (next = current \/ Better(next, current))
      /\ \A y \in escape : y \in Candidates /\ ~Better(y, current)
  BY DEF SearchInv, CandidatesInv, CandidatesHold
<1>4. next' = BetterOf(x, next) /\ next' \in Candidates
  BY <1>1, <1>3 DEF BetterOf
<1>5. Low(least', Kept(best', constructive', next'))
  BY <1>1, <1>2, <1>3, <1>4, NextTakes
<1>6. next' = current \/ Better(next', current)
  BY <1>1, <1>2, <1>3, BetterFollows
<1>7. \A y \in escape' : y \in Candidates /\ ~Better(y, current)
  BY <1>1, <1>3
<1>8. CandidatesHold(stage', best', current', next', escape')
  BY <1>1, <1>2, <1>4, <1>6, <1>7 DEF CandidatesHold
<1>9. ScoresHold(stage', best', constructive', next', least')
  BY <1>1, <1>2, <1>5 DEF ScoresHold, Holders
<1>10. restart' < options.restarts /\ move' \in Nat /\ stage' = "moves"
  BY <1>1, <1>2
<1> QED
  BY <1>1, <1>2, <1>8, <1>9, <1>10, SearchStep DEF Early, Late

LEMMA SoftMoveKeeps ==
    ASSUME InputInv, SearchInv, SoftMove
    PROVE  InputInv' /\ SearchInv'
<1> DEFINE N == Cardinality(AllSoft)
           x == <<current[1], Toggle(current[2], SoftMoveAt(current, move + 1))>>
<1>1. SearchMayRun /\ stage = "moves" /\ BudgetLeft /\ move < SoftLimit /\ Tries(x)
  BY DEF SoftMove
<1>2. Ready /\ current \in Candidates /\ move \in Nat
  BY <1>1, LateFacts DEF Late
<1>3. N \in Nat /\ options.softMoves \in Nat
  BY <1>2, ReadyFacts, Tables, FS_CardinalityType, BudgetBounds
<1>4. SoftLimit <= N /\ SoftLimit \in Nat
  <2> DEFINE T == {options.softMoves, N}
  <2>1. T \in SUBSET Nat /\ T # {} /\ N \in T
    BY <1>3
  <2> HIDE DEF T
  <2>2. Min(T) \in T /\ Min(T) <= N
    BY <2>1, MinNatural
  <2> QED
    BY <2>1, <2>2 DEF SoftLimit, T
<1>5. move + 1 \in 1..N
  BY <1>1, <1>2, <1>3, <1>4
<1>6. x \in Candidates
  BY <1>2, <1>5, SoftMoveTyped
<1> HIDE DEF x
<1> QED
  BY <1>1, <1>6, TriesKeeps

LEMMA OrderMoveKeeps ==
    ASSUME InputInv, SearchInv, OrderMove
    PROVE  InputInv' /\ SearchInv'
<1>1. SearchMayRun /\ stage = "moves" /\ BudgetLeft
  BY DEF OrderMove
<1>2. PICK order \in TargetedOrderMoves(current) : Tries(<<order, current[2]>>)
  BY DEF OrderMove
<1> DEFINE x == <<order, current[2]>>
<1>3. Ready /\ current \in Candidates
  BY <1>1, LateFacts DEF Late
<1>4. order \in Orders(problem)
  BY <1>2, <1>3, TargetedMovesTyped
<1>5. x \in Candidates /\ Tries(x)
  BY <1>2, <1>3, <1>4 DEF Candidates
<1> HIDE DEF x
<1> QED
  BY <1>1, <1>5, TriesKeeps

LEMMA TakeNextKeeps ==
    ASSUME InputInv, SearchInv, TakeNext
    PROVE  InputInv' /\ SearchInv'
<1>1. /\ SearchMayRun /\ stage = "moves"
      /\ current' = next /\ stagnation' = 0 /\ best' = BetterOf(next, best) /\ stage' = "iterate"
      /\ UNCHANGED input /\ UNCHANGED running /\ UNCHANGED answer /\ UNCHANGED baselineVars
      /\ evaluations' = evaluations /\ restart' = restart /\ move' = move /\ next' = next
      /\ escape' = escape /\ constructive' = constructive /\ least' = least
  BY DEF TakeNext, MovesEnd
<1>2. /\ Ready /\ answer = NoAnswer /\ stage # "plain" /\ best \in Candidates
      /\ NoCandidate \notin Candidates /\ Holders(best, constructive, next)
      /\ Low(least, Kept(best, constructive, next))
      /\ restart \in Nat /\ move \in Nat /\ restart < options.restarts
  BY <1>1, LateFacts DEF Late
<1>3. next \in Candidates /\ next # NoCandidate
  BY <1>1, <1>2 DEF SearchInv, CandidatesInv, CandidatesHold
<1>4. best' \in {next, best} /\ best' \in Candidates /\ ~Better(next, best') /\ ~Better(best, best')
  BY <1>1, <1>2, <1>3, BetterOfIs
<1>5. Low(least, Kept(best', constructive, next))
  <2> DEFINE S == Kept(best, constructive, next)
             T == Kept(best', constructive, next)
  <2>1. S \in SUBSET Words /\ Low(least, S)
    BY <1>2, KeptTyped
  <2>2. T \in SUBSET S
    BY <1>3, <1>4 DEF Kept
  <2>3. ASSUME NEW u \in S PROVE \E t \in T : ~ScoreBefore(u, t)
    <3>1. CASE u = ScoreOfCandidate(best)
      <4>1. ScoreOfCandidate(best') \in T
        BY DEF Kept
      <4> QED
        BY <1>2, <1>4, <3>1, <4>1, BetterScores
    <3>2. CASE u \in T
      <4>1. u \in [1..Width -> Int] /\ Width \in Nat
        BY <1>2, <2>1, WordsAreVectors DEF Ready
      <4> QED
        BY <3>2, <4>1, NotBeforeItself
    <3> QED
      BY <3>1, <3>2 DEF Kept
  <2> HIDE DEF S, T
  <2>4. Low(least, T)
    BY <2>1, <2>2, <2>3, LowOfPart
  <2> QED
    BY <2>4 DEF T
<1>6. CandidatesHold(stage', best', current', next', escape')
  BY <1>1, <1>2, <1>3, <1>4 DEF CandidatesHold
<1>7. ScoresHold(stage', best', constructive', next', least')
  BY <1>1, <1>2, <1>5 DEF ScoresHold, Holders
<1> QED
  BY <1>1, <1>2, <1>6, <1>7, SearchStep DEF Early, Late

LEMMA StagnateKeeps ==
    ASSUME InputInv, SearchInv, Stagnate
    PROVE  InputInv' /\ SearchInv'
<1>1. /\ SearchMayRun /\ stage = "moves" /\ next = current /\ stagnation' = stagnation + 1
      /\ \/ (\E e \in escape : current' = e) /\ stage' = "iterate"
         \/ current' = current /\ stage' \in {"iterate", "kick"}
            /\ (stage' = "kick" => BudgetLeft)
      /\ UNCHANGED input /\ UNCHANGED running /\ UNCHANGED answer /\ UNCHANGED baselineVars
      /\ evaluations' = evaluations /\ restart' = restart /\ move' = move /\ best' = best
      /\ next' = next /\ escape' = escape /\ constructive' = constructive /\ least' = least
  BY DEF Stagnate, MovesEnd
<1>2. /\ Ready /\ answer = NoAnswer /\ stage # "plain" /\ best \in Candidates
      /\ current \in Candidates /\ NoCandidate \notin Candidates
      /\ ~Better(current, best) /\ Holders(best, constructive, next)
      /\ Low(least, Kept(best, constructive, next))
      /\ restart \in Nat /\ stagnation \in Nat /\ move \in Nat /\ restart < options.restarts
  BY <1>1, LateFacts DEF Late
<1>3. \A y \in escape : y \in Candidates /\ ~Better(y, current)
  BY <1>1 DEF SearchInv, CandidatesInv, CandidatesHold
<1>4. current' \in Candidates /\ ~Better(current', best)
  BY <1>1, <1>2, <1>3, BetterChain
<1>5. CandidatesHold(stage', best', current', next', escape')
  BY <1>1, <1>2, <1>4 DEF CandidatesHold
<1>6. ScoresHold(stage', best', constructive', next', least')
  BY <1>1, <1>2 DEF ScoresHold, Holders
<1>7. stage' \in {"iterate", "kick"} /\ (stage' = "kick" => evaluations' < options.maxEvaluations)
  BY <1>1 DEF BudgetLeft
<1> QED
  BY <1>1, <1>2, <1>5, <1>6, <1>7, SearchStep DEF Early, Late
-----------------------------------------------------------------------------
(***************************************************************************)
(* The answer                                                              *)
(***************************************************************************)
\* The better of the best candidate and the constructive result has the least score,
\* once no next candidate is pending.
LEMMA OutputIsLeast ==
    ASSUME Ready, Holders(best, constructive, next), next # NoCandidate => ~Better(next, best),
           Low(least, Kept(best, constructive, next))
    PROVE  ResultHolds(problem, Output) /\ SearchScore(problem, Output) = least
<1> DEFINE S == Kept(best, constructive, next)
           sb == ScoreOfCandidate(best)
           so == SearchScore(problem, Output)
<1>1. S \subseteq Words /\ sb \in S /\ best \in Candidates
  BY KeptTyped DEF Kept, Holders
<1>2. \A u \in S : u \in [1..Width -> Int]
  BY <1>1, WordsAreVectors DEF Ready
<1>3. Width \in Nat
  BY WordsAreVectors DEF Ready
<1>4. next # NoCandidate => ~ScoreBefore(ScoreOfCandidate(next), sb) /\ ScoreOfCandidate(next) \in S
  BY BetterScores DEF Holders, Kept
<1>5. ResultHolds(problem, table.decoded[best])
  BY <1>1, ReadyFacts, Tables
<1>6. CASE \E found \in constructive : ScoreBefore(SearchScore(problem, found), sb)
  <2>1. PICK found \in constructive : ScoreBefore(SearchScore(problem, found), sb)
    BY <1>6
  <2>2. constructive = {found} /\ ResultHolds(problem, found)
    BY <2>1 DEF Holders
  <2>3. Output = found
    BY <2>1, <2>2 DEF Output
  <2>4. so \in S /\ ScoreBefore(so, sb)
    BY <2>1, <2>3 DEF Kept
  <2>5. ASSUME NEW u \in S PROVE ~ScoreBefore(u, so)
    <3>1. CASE u = so
      BY <1>2, <1>3, <2>4, <3>1, NotBeforeItself
    <3>2. CASE u = sb
      <4>1. so \in [1..Width -> Int] /\ sb \in [1..Width -> Int]
        BY <1>1, <1>2, <2>4
      <4> HIDE DEF so, sb
      <4> QED
        BY <1>3, <2>4, <3>2, <4>1, ScoresOrdered
    <3>3. CASE next # NoCandidate /\ u = ScoreOfCandidate(next)
      <4>1. so \in [1..Width -> Int] /\ sb \in [1..Width -> Int] /\ u \in [1..Width -> Int]
        BY <1>1, <1>2, <2>4
      <4>2. ~ScoreBefore(u, sb) /\ ScoreBefore(so, sb)
        BY <1>4, <2>4, <3>3
      <4> HIDE DEF so, sb
      <4> QED
        BY <1>3, <4>1, <4>2, ScoresOrdered
    <3> QED
      BY <2>2, <2>3, <3>1, <3>2, <3>3 DEF Kept
  <2>6. least \in S /\ ~ScoreBefore(so, least)
    BY <2>4 DEF Low
  <2>7. least = so
    <3>1. so \in [1..Width -> Int] /\ least \in [1..Width -> Int] /\ ~ScoreBefore(least, so)
      BY <1>2, <2>4, <2>5, <2>6
    <3> HIDE DEF so
    <3> QED
      BY <1>3, <2>6, <3>1, ScoresCompare
  <2> QED
    BY <2>2, <2>3, <2>7
<1>7. CASE ~\E found \in constructive : ScoreBefore(SearchScore(problem, found), sb)
  <2>1. Output = table.decoded[best]
    BY <1>7 DEF Output
  <2>2. so = sb
    BY <2>1 DEF ScoreOfCandidate
  <2>3. ASSUME NEW u \in S PROVE ~ScoreBefore(u, sb)
    <3>1. ~ScoreBefore(sb, sb)
      BY <1>1, <1>2, <1>3, NotBeforeItself
    <3> QED
      BY <1>4, <1>7, <3>1 DEF Kept
  <2>4. least \in S /\ ~ScoreBefore(sb, least)
    BY <1>1 DEF Low
  <2>5. least = sb
    <3>1. sb \in [1..Width -> Int] /\ least \in [1..Width -> Int] /\ ~ScoreBefore(least, sb)
      BY <1>1, <1>2, <2>3, <2>4
    <3> HIDE DEF sb
    <3> QED
      BY <1>3, <2>4, <3>1, ScoresCompare
  <2> QED
    BY <1>5, <2>1, <2>2, <2>5
<1> QED
  BY <1>6, <1>7

LEMMA FinishKeeps ==
    ASSUME InputInv, SearchInv, SeedsSuffice \/ RestartsEnd
    PROVE  InputInv' /\ SearchInv' /\ OutputIsBest'
<1>1. /\ SearchMayRun /\ running' = Front(running) /\ answer' = Output
      /\ UNCHANGED input /\ UNCHANGED baselineVars /\ UNCHANGED searchVars
      /\ stage = "ready" \/ stage = "restart"
  BY DEF SeedsSuffice, RestartsEnd, Finish, Return
<1>2. running' = <<>> /\ stage # "plain"
  BY <1>1, SearchRuns
<1>3. next # NoCandidate => ~Better(next, best)
  <2>1. CASE stage = "ready"
    BY <2>1 DEF SearchInv, StageInv, Early
  <2>2. CASE stage = "restart"
    BY <1>1, <2>2, LateFacts DEF Late
  <2> QED
    BY <1>1, <2>1, <2>2
<1>4. ResultHolds(problem, answer') /\ SearchScore(problem, answer') = least
  BY <1>1, <1>2, <1>3, StageFacts, OutputIsLeast
<1>5. HeldInv'
  <2>1. GreedyInv' /\ RepairInv' /\ AnswerInv'
    BY <1>1, <1>4, AnswerKept, GreedyKept, RepairKept DEF SearchInv, HeldInv, baselineVars
  <2> QED
    BY <1>2, <2>1 DEF HeldInv, Calls
<1>6. StageInv'
  BY <1>1, <1>2 DEF SearchInv, StageInv, BudgetIsKept, BudgetLeft, searchVars, budget, candidates, input
<1>7. CandidatesInv' /\ ScoresInv'
  BY <1>1, SearchUntouched DEF SearchInv
<1>8. OutputIsBest'
  <2>1. problem' = problem /\ least' = least
    BY <1>1 DEF input, searchVars, candidates
  <2> QED
    BY <1>4, <2>1 DEF OutputIsBest
<1> QED
  BY <1>1, <1>5, <1>6, <1>7, <1>8, InputKept DEF SearchInv

\* A baseline that the search called returns to it.
LEMMA BaselineReturns ==
    ASSUME InputInv, running \in Calls, options.solver = Search, NEW solver \in Baselines,
           StepOf(solver)
    PROVE  running' # <<>>
<1>1. /\ Active(solver) /\ running # <<>> /\ running # <<Search>>
      /\ \/ running' = running \/ running' = Front(running)
         \/ running' = Append(running, "canonical_greedy") /\ solver = "promote_repair"
  BY CallsKept DEF StepOf
<1>2. \/ running \in {<<Search, "canonical_greedy">>, <<Search, "promote_repair">>,
                      <<Search, "promote_repair", "canonical_greedy">>}
  <2>1. running[1] = Search /\ <<"promote_repair", "canonical_greedy">>[1] = "promote_repair"
    BY <1>1 DEF Calls
  <2> QED
    BY <1>1, <2>1 DEF Calls, Search
<1>3. Front(running) \in {<<Search>>, <<Search, "promote_repair">>}
  BY <1>2, CallStacks
<1>4. <<Search>> # <<>> /\ <<Search, "promote_repair">> # <<>>
  BY OneCall, CallStacks
<1>5. solver = "promote_repair" => Append(running, "canonical_greedy") # <<>>
  <2>1. solver = "promote_repair" => running = <<Search, "promote_repair">>
    <3>1. Last(running) = solver
      BY <1>1 DEF Active
    <3> QED
      BY <1>2, <3>1, CallStacks
  <2>2. Append(<<Search, "promote_repair">>, "canonical_greedy") = <<Search, "promote_repair", "canonical_greedy">>
    BY CallStacks
  <2>3. <<Search, "promote_repair", "canonical_greedy">> # <<>>
    OBVIOUS
  <2> QED
    BY <2>1, <2>2, <2>3
<1> QED
  BY <1>1, <1>3, <1>4, <1>5

LEMMA BaselinesAnswer ==
    ASSUME InputInv, SearchInv, BaselinesNext, UNCHANGED searchVars
    PROVE  OutputIsBest'
<1>1. PICK solver \in Baselines : StepOf(solver)
  BY SomeBaselineSteps DEF SearchInv
<1>2. options.solver = Search => running' # <<>>
  BY <1>1, BaselineReturns DEF SearchInv, HeldInv
<1>3. evaluations' = evaluations
  BY DEF searchVars, budget
<1>4. evaluations \in Nat /\ (evaluations # 0 => options.solver = Search)
  BY DEF SearchInv, StageInv
<1> QED
  BY <1>2, <1>3, <1>4 DEF OutputIsBest, Searching

\* The search goes on until it refuses the problem or finishes.
LEMMA SearchGoesOn ==
    ASSUME InputInv, SearchInv, SearchNext, ~RefuseSearch, ~SeedsSuffice, ~RestartsEnd
    PROVE  running' # <<>>
<1>1. CASE \E solver \in {"canonical_greedy", "promote_repair"} : CallSeed(solver)
  <2>1. PICK solver \in {"canonical_greedy", "promote_repair"} : CallSeed(solver)
    BY <1>1
  <2>2. SearchMayRun /\ (running' = running \/ running' = Append(running, solver))
    BY <2>1 DEF CallSeed, Call
  <2>3. running = <<Search>> /\ running # <<>>
    BY <2>2, SearchRuns
  <2>4. Append(<<Search>>, solver) \in {<<Search, "canonical_greedy">>, <<Search, "promote_repair">>}
    BY <2>1, CallStacks
  <2>5. <<Search, "canonical_greedy">> # <<>> /\ <<Search, "promote_repair">> # <<>>
    OBVIOUS
  <2> QED
    BY <2>2, <2>3, <2>4, <2>5
<1>2. CASE ~\E solver \in {"canonical_greedy", "promote_repair"} : CallSeed(solver)
  <2>1. SearchMayRun /\ running' = running
    BY <1>2 DEF SearchNext, PlainSeed, StrictSeed, SeedReturns, FirstRestart, Restart, BeginIteration,
                SoftMove, OrderMove, Tries, TakeNext, Stagnate, MovesEnd, Kick
  <2> QED
    BY <2>1, SearchRuns
<1> QED
  BY <1>1, <1>2

\* Every step keeps the invariants and the promise about the answer.
LEMMA StepKeeps ==
    ASSUME InputInv, SearchInv, OutputIsBest, [Next]_vars
    PROVE  InputInv' /\ SearchInv' /\ OutputIsBest'
<1>1. CASE UNCHANGED vars
  <2>1. /\ UNCHANGED input /\ UNCHANGED baselineVars /\ UNCHANGED searchVars
        /\ running' = running /\ answer' = answer
    BY <1>1 DEF vars
  <2>2. problem' = problem /\ options' = options /\ table' = table
    BY <2>1 DEF input
  <2>3. HeldInv' /\ InputInv'
    BY <2>1, HeldKept, InputKept DEF SearchInv
  <2>4. CandidatesInv' /\ ScoresInv'
    BY <2>1, SearchUntouched DEF SearchInv
  <2>5. StageInv' /\ OutputIsBest'
    BY <2>1, <2>2 DEF SearchInv, StageInv, BudgetIsKept, BudgetLeft, OutputIsBest, Searching,
                      SearchScore, searchVars, budget, candidates
  <2> QED
    BY <2>3, <2>4, <2>5 DEF SearchInv
<1>2. CASE BaselinesNext /\ UNCHANGED searchVars
  BY <1>2, BaselinesStep, BaselinesAnswer
<1>3. CASE RefuseSearch
  <2>1. InputInv' /\ SearchInv'
    BY <1>3, RefuseSearchKeeps
  <2>2. evaluations' = 0
    BY <1>3 DEF RefuseSearch, SearchInv, StageInv, searchVars, budget
  <2> QED
    BY <2>1, <2>2 DEF OutputIsBest, Searching
<1>4. CASE SeedsSuffice \/ RestartsEnd
  BY <1>4, FinishKeeps
<1>5. CASE SearchNext /\ ~RefuseSearch /\ ~SeedsSuffice /\ ~RestartsEnd
  <2>1. OutputIsBest'
    BY <1>5, SearchGoesOn DEF OutputIsBest
  <2>2. InputInv' /\ SearchInv'
    BY <1>5, PlainSeedKeeps, StrictSeedKeeps, CallSeedKeeps, SeedReturnsKeeps, FirstRestartKeeps,
       RestartKeeps, BeginIterationKeeps, SoftMoveKeeps, OrderMoveKeeps, TakeNextKeeps,
       StagnateKeeps, KickKeeps DEF SearchNext
  <2> QED
    BY <2>1, <2>2
<1> QED
  BY <1>1, <1>2, <1>3, <1>4, <1>5 DEF Next, Terminated

LEMMA CallsTyped ==
    ASSUME InputInv, running \in Calls
    PROVE  \A i \in DOMAIN running : running[i] \in Solvers
<1> DEFINE g == "canonical_greedy"
           r == "promote_repair"
<1>1. /\ Search \in Solvers /\ g \in Solvers /\ r \in Solvers /\ options.solver \in Solvers
  BY InputTyped DEF Solvers, Baselines, Search
<1>2. running \in {<<>>, <<options.solver>>, <<Search, g>>, <<Search, r>>, <<Search, r, g>>, <<r, g>>}
  BY DEF Calls
<1> HIDE DEF g, r
<1>3. \A s \in {<<>>, <<options.solver>>, <<Search, g>>, <<Search, r>>, <<Search, r, g>>, <<r, g>>} :
          \A i \in DOMAIN s : s[i] \in Solvers
  BY <1>1
<1> QED
  BY <1>2, <1>3

LEMMA IInvFollows == InputInv /\ SearchInv => IInv
<1> SUFFICES ASSUME InputInv, SearchInv PROVE IInv
  OBVIOUS
<1>1. evaluations \in Nat /\ restart \in Nat /\ stagnation \in Nat /\ BudgetIsKept
      /\ (evaluations > 0 => stage # "plain") /\ (current # NoCandidate => stage \in Late)
  BY DEF SearchInv, StageInv
<1>2. restart \in 0..options.restarts
  <2>1. options.restarts \in Nat /\ restart \in Nat
    BY <1>1, BudgetBounds
  <2>2. restart = 0 \/ restart < options.restarts \/ restart <= options.restarts
    BY DEF SearchInv, StageInv, Late
  <2> QED
    BY <2>1, <2>2
<1>3. Searching => best \in DOMAIN table.decoded /\ LeastIsKept
  <2> SUFFICES ASSUME stage # "plain" PROVE best \in DOMAIN table.decoded /\ LeastIsKept
    BY <1>1 DEF Searching
  <2> DEFINE S == Kept(best, constructive, next)
  <2>1. /\ Ready /\ best \in Candidates /\ Holders(best, constructive, next) /\ Low(least, S)
    BY StageFacts
  <2>2. best \in DOMAIN table.decoded
    BY <2>1, ReadyFacts, Tables
  <2>3. S \in SUBSET [1..Width -> Int] /\ Width \in Nat
    BY <2>1, KeptTyped, WordsAreVectors
  <2>4. least \in S /\ \A o \in S : ~ScoreBefore(o, least)
    BY <2>1 DEF Low
  <2> HIDE DEF S
  <2>5. BestScore(S) = least
    BY <2>3, <2>4, BestScoreIs
  <2> QED
    BY <2>2, <2>5 DEF S, Kept, LeastIsKept
<1>4. BestLeads
  BY <1>1 DEF BestLeads, SearchInv, CandidatesInv, CandidatesHold
<1>5. \A i \in DOMAIN running : running[i] \in Solvers
  BY CallsTyped DEF SearchInv, HeldInv
<1>6. TypeOK
  BY <1>1, <1>2, <1>3, <1>5 DEF TypeOK
<1>7. LeastIsKept
  BY <1>3 DEF LeastIsKept
<1> QED
  BY <1>1, <1>4, <1>6, <1>7 DEF IInv

LEMMA AlwaysHeld == Spec => [](InputInv /\ SearchInv /\ OutputIsBest)
<1>1. Init => InputInv /\ SearchInv /\ OutputIsBest
  <2>1. Init => evaluations = 0
    BY DEF Init
  <2> QED
    BY <2>1, InitHolds DEF OutputIsBest, Searching
<1>2. (InputInv /\ SearchInv /\ OutputIsBest) /\ [Next]_vars
          => (InputInv /\ SearchInv /\ OutputIsBest)'
  BY StepKeeps
<1> QED
  BY <1>1, <1>2, PTL DEF Spec

\* The local search types its state, leads with its best candidate, keeps the least
\* score it met with the best, the constructive or the next candidate, and never
\* evaluates more than its budget (Solve, TryCandidate, RunRestart).
THEOREM Safety == Spec => []IInv
BY AlwaysHeld, IInvFollows, PTL

\* What the local search answers has the least score of all it evaluated and of what
\* the constructive solvers handed over (the choice between the best candidate and
\* constructive_incumbent at the end of Solve).
THEOREM BestAnswered == Spec => []OutputIsBest
BY AlwaysHeld, PTL
-----------------------------------------------------------------------------
(***************************************************************************)
(* promote_all                                                             *)
(***************************************************************************)
\* A problem that a baseline takes leaves no pool open.
LEMMA TakenIsFixed ==
    ASSUME InputInv, NEW solver, Refusal(problem, solver) = "none"
    PROVE  Fixed(problem) /\ Compatible(problem, solver)
<1>1. Compatible(problem, solver)
  BY DEF Refusal
<1>2. PrepareAccepts(problem)
  BY <1>1 DEF Refusal
<1>3. ASSUME NEW c \in Classes(problem) PROVE ~(Cardinality(ClassPools(problem, c)) > 1)
  <2>1. PICK b \in c : b \in problem.buffers
    BY <1>2, InputTyped, CasedKnown
  <2> DEFINE few == ClassPools(problem, c)
             allowed == problem.allowed[b]
  <2>2. allowed \in SUBSET problem.pools /\ IsFiniteSet(problem.pools)
    BY <1>2, <2>1, InputTyped DEF PrepareAccepts, ValidProblem, ValidBuffer, Cased, ObjectiveTyped
  <2>3. Cardinality(allowed) <= 1
    BY <1>1, <2>1 DEF Compatible
  <2>4. few \in SUBSET allowed
    BY <2>1 DEF ClassPools
  <2> HIDE DEF few, allowed
  <2>5. IsFiniteSet(allowed) /\ Cardinality(allowed) \in Nat
    BY <2>2, FS_Subset, FS_CardinalityType
  <2>6. Cardinality(few) \in Nat /\ Cardinality(few) <= Cardinality(allowed)
    BY <2>4, <2>5, FS_Subset, FS_CardinalityType
  <2> QED
    BY <2>3, <2>5, <2>6 DEF few
<1>4. ProblemTyped(problem) /\ ObjectiveTyped(problem) /\ problem.pins = {}
  BY <1>1, InputTyped DEF Cased, Compatible
<1> QED
  BY <1>1, <1>2, <1>3, <1>4 DEF Fixed, FlexiblePools

\* A pair of classes that may share addresses at a cost is promoted in one order.
LEMMA PenaltyIsPromoted ==
    ASSUME NEW p, Fixed(p), NEW i \in DOMAIN p.penalties, NEW c \in Classes(p), NEW d \in Classes(p),
           c = ClassOf(p, p.penalties[i].first), d = ClassOf(p, p.penalties[i].second),
           c # d, PoolOf(p, c) = PoolOf(p, d), ~Blocks(p, c, d)
    PROVE  <<c, d>> \in SoftPairsOf(p) \/ <<d, c>> \in SoftPairsOf(p)
<1> DEFINE s == SearchSpace(p)
<1>1. SpaceTyped(p, s) /\ DOMAIN s.soft = SoftEdges(p)
  BY SpaceBuilt, SpaceWeighs
<1>2. i \in PenaltiesBetween(p, c, d)
  BY DEF PenaltiesBetween
<1>3. <<c, d>> \in SoftEdges(p)
  BY <1>2 DEF SoftEdges
<1> HIDE DEF s
<1>4. <<c, d>> \in DOMAIN s.soft /\ <<d, c>> \in DOMAIN s.soft
  BY <1>1, <1>3 DEF SpaceTyped
<1>5. s.pool[c] = PoolOf(p, c) /\ s.pool[d] = PoolOf(p, c) /\ PoolOf(p, c) \in p.pools
  BY <1>1 DEF SpaceTyped
<1>6. Min(c) < Min(d) \/ Min(d) < Min(c)
  <2>1. Min(c) \in Nat /\ Min(d) \in Nat
    BY NodesTyped
  <2>2. Min(c) # Min(d)
    BY NodesNamed
  <2> QED
    BY <2>1, <2>2
<1>7. \/ <<c, d>> \in SoftPairs(s, PoolOf(p, c)) \/ <<d, c>> \in SoftPairs(s, PoolOf(p, c))
  BY <1>4, <1>5, <1>6 DEF SoftPairs
<1>8. SoftPairsOf(p) = UNION {SoftPairs(s, q) : q \in p.pools}
  BY DEF SoftPairsOf, Fixed, s
<1> QED
  BY <1>5, <1>7, <1>8

\* promote_all: a placement that keeps all soft edges apart is valid and pays nothing.
LEMMA ApartIsFree ==
    ASSUME NEW p, Fixed(p), NEW sol \in PlacementsOf(WithPromotedReuseEdges(p, SoftPairsOf(p)))
    PROVE  ValidSolution(p, sol) /\ ReuseCost(p, sol) = 0
<1> DEFINE w == WithPromotedReuseEdges(p, SoftPairsOf(p))
<1>0. ProblemTyped(p) /\ ValidProblem(p) /\ KnownColocations(p)
  BY FixedKnown DEF Fixed, Known
<1>1. ValidSolution(w, sol)
  BY DEF PlacementsOf
<1>2. /\ w.buffers = p.buffers /\ w.pools = p.pools /\ w.size = p.size
      /\ w.alignment = p.alignment /\ w.live = p.live /\ w.allowed = p.allowed
      /\ w.capacity = p.capacity /\ w.reserved = p.reserved
      /\ w.colocations = p.colocations /\ w.exclusions = p.exclusions /\ w.pins = p.pins
      /\ w.separations = p.separations \cup {<<Min(e[1]), Min(e[2])>> : e \in SoftPairsOf(p)}
  BY <1>0, PromotedFields
<1>3. /\ \A b : ClassOf(w, b) = ClassOf(p, b)
      /\ \A a, b : MustNotReuse(w, a, b) <=> MustNotReuse(p, a, b)
      /\ \A a, b : ExtentsOverlap(w, sol, a, b) <=> ExtentsOverlap(p, sol, a, b)
  BY <1>0, PromotedSame
<1> HIDE DEF w
<1>4. \A b : WellPlaced(w, sol, b) <=> WellPlaced(p, sol, b)
  BY <1>2 DEF WellPlaced, OverlapsReserved
<1>5. ValidSolution(p, sol)
  BY <1>0, <1>1, <1>2, <1>3, <1>4 DEF ValidSolution
<1>6. ASSUME NEW i \in ActivePenalties(p, sol) PROVE FALSE
  <2> DEFINE a == p.penalties[i].first
             b == p.penalties[i].second
             c == ClassOf(p, a)
             d == ClassOf(p, b)
  <2>1. /\ i \in DOMAIN p.penalties /\ a \in p.buffers /\ b \in p.buffers /\ c # d
        /\ ExtentsOverlap(p, sol, a, b)
    BY <1>5 DEF ActivePenalties, PenaltyActive, ValidSolution
  <2>2. /\ c \in Classes(p) /\ d \in Classes(p) /\ a \in c /\ b \in d
    BY <2>1, ClassMembers DEF Classes
  <2> HIDE DEF c, d
  <2>3. /\ sol[a] = sol[Min(c)] /\ sol[a].pool = PoolOf(p, c)
        /\ sol[b] = sol[Min(d)] /\ sol[b].pool = PoolOf(p, d)
    BY <1>5, <2>2, SeedOfNode
  <2>4. ClassOf(p, Min(c)) = c /\ ClassOf(p, Min(d)) = d
    BY <2>2, NodesTyped
  <2>5. /\ PoolOf(p, c) = PoolOf(p, d)
        /\ AddressRangesOverlap(sol[Min(c)].offset, ClassSize(p, c), sol[Min(d)].offset, ClassSize(p, d))
    BY <2>1, <2>3 DEF ExtentsOverlap, c, d
  <2>6. ~Blocks(p, c, d)
    BY <1>5, <2>1, <2>2, <2>5, BlockersApart DEF c, d
  <2>7. <<c, d>> \in SoftPairsOf(p) \/ <<d, c>> \in SoftPairsOf(p)
    BY <2>1, <2>2, <2>5, <2>6, PenaltyIsPromoted DEF c, d
  <2>8. <<Min(c), Min(d)>> \in w.separations \/ <<Min(d), Min(c)>> \in w.separations
    <3>1. ASSUME NEW x, NEW y, <<x, y>> \in SoftPairsOf(p) PROVE <<Min(x), Min(y)>> \in w.separations
      <4>1. <<x, y>>[1] = x /\ <<x, y>>[2] = y
        OBVIOUS
      <4> QED
        BY <1>2, <3>1, <4>1
    <3> QED
      BY <2>7, <3>1
  <2>9. ~ExtentsOverlap(p, sol, Min(c), Min(d)) \/ ~ExtentsOverlap(p, sol, Min(d), Min(c))
    <3>1. \A x, y : <<x, y>> \in w.separations => ~ExtentsOverlap(w, sol, x, y)
      BY <1>1 DEF ValidSolution
    <3> QED
      BY <1>3, <2>8, <3>1
  <2>10. ~AddressRangesOverlap(sol[Min(c)].offset, ClassSize(p, c), sol[Min(d)].offset, ClassSize(p, d))
    BY <2>3, <2>4, <2>5, <2>9, OverlapSymmetric DEF ExtentsOverlap
  <2> QED
    BY <2>5, <2>10
<1>7. ReuseCost(p, sol) = 0
  <2> DEFINE S == ActivePenalties(p, sol)
             F == [i \in S |-> p.penalties[i].cost]
  <2>1. S = {} /\ IsFiniteSet({})
    BY <1>6, FS_EmptySet
  <2>2. ReuseCost(p, sol) = SumOver(F, S)
    BY ReuseCostSums
  <2>3. F \in [{} -> 0..MaxUInt]
    BY <2>1
  <2> HIDE DEF F, S
  <2> QED
    BY <2>1, <2>2, <2>3, SumTyped
<1> QED
  BY <1>5, <1>7
-----------------------------------------------------------------------------
(***************************************************************************)
(* The unit colourings                                                     *)
(***************************************************************************)
LEMMA UnitFits ==
    ASSUME NEW cap \in Nat, NEW u \in Nat \ {0}, NEW k \in Nat, k < cap \div u
    PROVE  k * u \in Nat /\ k * u + u <= cap
<1> DEFINE q == cap \div u
           m == q - (k + 1)
<1>1. q \in Nat /\ cap % u \in Nat /\ cap = u * q + (cap % u)
  BY DivMod
<1>2. m \in Nat /\ q = k + 1 + m
  BY <1>1
<1> HIDE DEF q, m
<1>3. u * q = u * k + u + u * m /\ u * m \in Nat /\ u * k \in Nat /\ k * u = u * k
  BY <1>2
<1> QED
  BY <1>1, <1>3

LEMMA MultipleOfAligned ==
    ASSUME NEW a \in Nat \ {0}, NEW u \in Nat, u % a = 0, NEW k \in Nat
    PROVE  (k * u) % a = 0
<1> DEFINE z == u \div a
<1>1. z \in Nat /\ u = a * z
  BY DivMod
<1> HIDE DEF z
<1>2. k * u = a * (k * z) /\ k * z \in Nat
  BY <1>1
<1> QED
  BY <1>2, MultipleAligned

LEMMA QuotientNatural ==
    ASSUME NEW cap \in 0..MaxUInt, NEW u \in Nat \ {0}
    PROVE  cap \div u \in Nat
<1>1. cap \in Nat
  BY MaxUIntAssumption
<1> QED
  BY <1>1, DivMod

\* Without conflicts and reserved ranges, aligned classes that fit are placed well.
LEMMA UnitsValid ==
    ASSUME NEW p, Fixed(p), \A q \in p.pools : p.reserved[q] = {},
           \A c, d \in Classes(p) : c # d => ~Blocks(p, c, d),
           NEW off \in [Classes(p) -> Nat],
           \A c \in Classes(p) :
               /\ off[c] % ClassAlignment(p, c) = 0 /\ PoolOf(p, c) \in DOMAIN p.capacity
               /\ off[c] + ClassSize(p, c) <= p.capacity[PoolOf(p, c)]
    PROVE  ValidSolution(p, SolutionOf(p, off))
<1> DEFINE sol == SolutionOf(p, off)
<1>0. /\ ProblemTyped(p) /\ ValidProblem(p) /\ KnownColocations(p) /\ p.pins = {} /\ PrepareAccepts(p)
  BY FixedKnown DEF Fixed, Known
<1>1. /\ DOMAIN sol = p.buffers
      /\ \A b \in p.buffers : /\ sol[b].pool = PoolOf(p, ClassOf(p, b))
                              /\ sol[b].offset = off[ClassOf(p, b)]
                              /\ sol[b] = [pool |-> PoolOf(p, ClassOf(p, b)), offset |-> off[ClassOf(p, b)]]
  <2>1. DOMAIN off = Classes(p) /\ UNION Classes(p) = p.buffers
    BY <1>0, ClassMembers DEF Classes
  <2> QED
    BY <2>1 DEF SolutionOf
<1> HIDE DEF sol
<1>2. ASSUME NEW b \in p.buffers PROVE WellPlaced(p, sol, b)
  <2> DEFINE c == ClassOf(p, b)
             q == PoolOf(p, c)
  <2>1. c \in Classes(p) /\ b \in c /\ c \in SUBSET p.buffers
    BY ClassMembers DEF Classes
  <2> HIDE DEF c
  <2>2. q \in ClassPools(p, c) /\ q \in p.pools
    BY <2>1, NodesTyped
  <2>3. sol[b].pool = q /\ sol[b].offset = off[c]
    BY <1>1 DEF c
  <2>4. q \in p.allowed[b]
    BY <2>1, <2>2 DEF ClassPools
  <2>5. off[c] \in Nat /\ off[c] + ClassSize(p, c) <= p.capacity[q] /\ p.capacity[q] \in 0..MaxUInt
    BY <1>0, <2>1 DEF ProblemTyped
  <2>6. ClassSize(p, c) \in 0..MaxUInt /\ p.size[b] <= ClassSize(p, c) /\ p.size[b] \in 0..MaxUInt
    BY <1>0, <2>1, ClassSizeLargest DEF ProblemTyped
  <2>7. Aligned(off[c], p.alignment[b])
    <3>1. \A x \in c : p.alignment[x] # 0
      BY <1>0, <2>1 DEF ValidProblem, ValidBuffer
    <3>2. p.alignment[b] \in Nat \ {0}
      BY <1>0, <2>1, <3>1 DEF ProblemTyped
    <3>3. ClassAlignment(p, c) \in Nat \ {0} /\ ClassAlignment(p, c) % p.alignment[b] = 0
      BY <1>0, <2>1, <3>1, ClassAlignmentDivides
    <3>4. off[c] % ClassAlignment(p, c) = 0
      BY <2>1
    <3> QED
      BY <2>5, <3>2, <3>3, <3>4, Divides DEF Aligned
  <2>8. off[c] + p.size[b] <= p.capacity[q] /\ ~AddOverflows(off[c], p.size[b])
    BY <2>5, <2>6, MaxUIntAssumption DEF AddOverflows
  <2>9. ~OverlapsReserved(p, q, off[c], p.size[b])
    BY <2>2 DEF OverlapsReserved
  <2> HIDE DEF q
  <2> QED
    BY <2>3, <2>4, <2>7, <2>8, <2>9 DEF WellPlaced
<1>3. ASSUME NEW pair \in p.colocations PROVE sol[pair[1]] = sol[pair[2]]
  <2>1. pair[1] \in p.buffers /\ pair[2] \in p.buffers
    BY <1>0 DEF KnownColocations, KnownPair
  <2>2. pair[2] \in ClassOf(p, pair[1])
    BY <1>0, <2>1, ClassMembers, ClassClosed DEF ClosedUnderColocation
  <2>3. ClassOf(p, pair[2]) = ClassOf(p, pair[1])
    BY <1>0, <2>1, <2>2, ClassOfMember
  <2> QED
    BY <1>1, <2>1, <2>3
<1>4. ASSUME NEW a \in p.buffers, NEW b \in p.buffers, ClassOf(p, a) # ClassOf(p, b),
             MustNotReuse(p, a, b) \/ Separated(p, ClassOf(p, a), ClassOf(p, b))
      PROVE  ~ExtentsOverlap(p, sol, a, b)
  <2> DEFINE c == ClassOf(p, a)
             d == ClassOf(p, b)
  <2>1. c \in Classes(p) /\ d \in Classes(p) /\ a \in c /\ b \in d
    BY ClassMembers DEF Classes
  <2>2. SuperBuffersConflict(p, c, d) \/ Separated(p, c, d)
    BY <1>0, <1>4, <2>1 DEF MustNotReuse, ExclusivelyPinned, SuperBuffersConflict
  <2> HIDE DEF c, d
  <2>3. ~Blocks(p, c, d)
    BY <1>4, <2>1 DEF c, d
  <2>4. PoolOf(p, c) # PoolOf(p, d)
    BY <2>2, <2>3 DEF Blocks
  <2> QED
    BY <1>1, <2>4 DEF ExtentsOverlap, c, d
<1>5. ASSUME NEW pair \in p.separations PROVE ~ExtentsOverlap(p, sol, pair[1], pair[2])
  <2>1. /\ pair[1] \in p.buffers /\ pair[2] \in p.buffers
        /\ ClassOf(p, pair[1]) # ClassOf(p, pair[2])
    BY <1>0 DEF ValidProblem, KnownPair, PrepareAccepts
  <2>2. Separated(p, ClassOf(p, pair[1]), ClassOf(p, pair[2]))
    BY <2>1, ClassMembers DEF Separated
  <2> QED
    BY <1>4, <2>1, <2>2
<1> QED
  BY <1>0, <1>1, <1>2, <1>3, <1>4, <1>5 DEF ValidSolution, sol
Units == {"unit_random_coloring", "unit_low_rank_rounding"}

\* Every coloring that a sample draws is placed well (UnitRandomColoringSolver,
\* UnitLowRankRoundingSolver).
LEMMA ColoringValid ==
    ASSUME InputInv, NEW solver \in Units, Refusal(problem, solver) = "none", NEW color \in Colorings,
           NEW sol, sol = SolutionOf(problem, [c \in DOMAIN color |-> color[c] * table.space.size[c]])
    PROVE  ValidSolution(problem, sol) /\ InWords(problem, sol)
<1> DEFINE p == problem
           s == table.space
           C == Classes(p)
           off == [c \in DOMAIN color |-> color[c] * s.size[c]]
<1>1. Fixed(p) /\ Compatible(p, solver) /\ Searchable(p) /\ Cased(p)
  BY TakenIsFixed, TakenIsSearchable, InputTyped DEF Units, Baselines
<1>2. UnitShape(p)
  BY <1>1 DEF Refusal, Units
<1>3. s = SearchSpace(p) /\ Nodes = C
  BY <1>1, Tables
<1>4. /\ SpaceTyped(p, s) /\ \A c \in C : s.alignment[c] = ClassAlignment(p, c) /\ s.alignment[c] \in Nat \ {0}
  BY <1>1, <1>3, SpaceBuilt, SpaceWeighs
<1>5. /\ DOMAIN p.capacity = p.pools /\ s.hard = {}
      /\ \A c \in C : s.size[c] % s.alignment[c] = 0 /\ p.capacity[s.pool[c]] >= s.size[c]
  BY <1>2, <1>4 DEF UnitShape, FixedCapacities, SpaceTyped
<1>6. \A c, d \in C : c # d => ~Blocks(p, c, d)
  BY <1>4, <1>5 DEF SpaceTyped
<1>7. \A q \in p.pools : p.reserved[q] = {}
  BY <1>1 DEF Compatible, Units
<1>8. ASSUME NEW c \in C
      PROVE  /\ s.pool[c] = PoolOf(p, c) /\ PoolOf(p, c) \in DOMAIN p.capacity
             /\ s.size[c] = ClassSize(p, c) /\ s.size[c] \in Nat \ {0}
             /\ p.capacity[PoolOf(p, c)] \in 0..MaxUInt
  <2>1. /\ s.pool[c] = PoolOf(p, c) /\ s.pool[c] \in p.pools
        /\ s.size[c] = ClassSize(p, c) /\ s.size[c] \in 0..MaxUInt
    BY <1>4 DEF SpaceTyped
  <2>2. PICK b \in c : b \in p.buffers /\ p.size[b] <= ClassSize(p, c)
    <3>1. c # {} /\ c \in SUBSET p.buffers
      BY <1>1, NodesTyped
    <3> QED
      BY <1>1, <3>1, ClassSizeLargest DEF Fixed
  <2>3. p.size[b] \in 0..MaxUInt /\ p.size[b] # 0
    BY <1>1, <2>2 DEF Fixed, ProblemTyped, PrepareAccepts, ValidProblem, ValidBuffer
  <2>4. s.size[c] # 0
    BY <2>1, <2>2, <2>3, MaxUIntAssumption
  <2> QED
    BY <1>1, <1>5, <2>1, <2>4, MaxUIntAssumption DEF Fixed, ProblemTyped
<1>9. ASSUME NEW c \in C
      PROVE  ColorsFor(c) \in Nat /\ ColorsFor(c) <= p.capacity[s.pool[c]] \div s.size[c]
  <2> DEFINE colors == p.capacity[s.pool[c]] \div s.size[c]
             few == Cardinality(NodesOf(s, s.pool[c]))
  <2>1. colors \in Nat
    <3>1. p.capacity[s.pool[c]] \in 0..MaxUInt /\ s.size[c] \in Nat \ {0}
      BY <1>8
    <3> QED
      BY <3>1, QuotientNatural
  <2>2. few \in Nat
    <3>1. IsFiniteSet(C)
      BY <1>1, FixedKnown, ClassesFinite
    <3>2. NodesOf(s, s.pool[c]) \in SUBSET C
      BY <1>4 DEF NodesOf, SpaceTyped
    <3> QED
      BY <3>1, <3>2, FS_Subset, FS_CardinalityType
  <2>3. ColorsFor(c) = IF Active("unit_low_rank_rounding") THEN Min({colors, few}) ELSE colors
    BY DEF ColorsFor, ColorsOf
  <2> HIDE DEF colors, few
  <2>4. Min({colors, few}) \in Nat /\ Min({colors, few}) <= colors
    BY <2>1, <2>2, MinNatural
  <2> QED
    BY <2>1, <2>3, <2>4 DEF colors
<1>10. ASSUME NEW c \in C PROVE color[c] \in Nat /\ color[c] < ColorsFor(c)
  <2> DEFINE S == {ColorsFor(d) : d \in Nodes}
             f == [d \in Nodes |-> ColorsFor(d)]
  <2>1. DOMAIN color = C /\ color \in [C -> 0..Max(S)] /\ color[c] < ColorsFor(c)
    BY <1>3 DEF Colorings
  <2>2. IsFiniteSet({f[d] : d \in Nodes})
    <3>1. IsFiniteSet(Nodes) /\ DOMAIN f = Nodes
      BY <1>1, <1>3, FixedKnown, ClassesFinite
    <3> HIDE DEF f
    <3> QED
      BY <3>1, ValuesFinite
  <2>3. S = {f[d] : d \in Nodes}
    OBVIOUS
  <2>4. S \in SUBSET Int /\ S # {}
    BY <1>3, <1>9
  <2> HIDE DEF S, f
  <2>5. Max(S) \in Int
    BY <2>2, <2>3, <2>4, FiniteBounds
  <2>6. color[c] \in 0..Max(S)
    BY <2>1
  <2> QED
    BY <2>1, <2>5, <2>6
<1>11. ASSUME NEW c \in C
       PROVE  /\ off[c] \in 0..MaxUInt /\ off[c] % ClassAlignment(p, c) = 0
              /\ off[c] + ClassSize(p, c) <= p.capacity[PoolOf(p, c)]
  <2> DEFINE k == color[c]
             u == s.size[c]
             cap == p.capacity[PoolOf(p, c)]
             a == ClassAlignment(p, c)
  <2>1. off[c] = k * u
    BY <1>3 DEF Colorings
  <2>2. /\ k \in Nat /\ u \in Nat \ {0} /\ cap \in 0..MaxUInt /\ a \in Nat \ {0}
        /\ u % a = 0 /\ u = ClassSize(p, c) /\ k < cap \div u
    <3>1. k < ColorsFor(c) /\ ColorsFor(c) <= cap \div u /\ ColorsFor(c) \in Nat /\ k \in Nat
      BY <1>8, <1>9, <1>10
    <3>2. cap \div u \in Nat
      <4>1. cap \in 0..MaxUInt /\ u \in Nat \ {0}
        BY <1>8
      <4> QED
        BY <4>1, QuotientNatural
    <3>3. k < cap \div u
      BY <3>1, <3>2
    <3> QED
      BY <1>4, <1>5, <1>8, <3>1, <3>3
  <2> HIDE DEF k, u, cap, a, off
  <2>3. k * u \in Nat /\ k * u + u <= cap /\ cap \in Nat
    BY <2>2, UnitFits, MaxUIntAssumption
  <2>4. (k * u) % a = 0
    BY <2>2, MultipleOfAligned
  <2> QED
    BY <2>1, <2>2, <2>3, <2>4, MaxUIntAssumption DEF a, cap
<1>12. off \in [C -> 0..MaxUInt] /\ off \in [C -> Nat]
  <2>1. DOMAIN off = C
    BY <1>3 DEF Colorings
  <2>2. off = [c \in C |-> off[c]]
    BY <2>1
  <2> HIDE DEF off, C
  <2> QED
    BY <1>11, <2>2, MaxUIntAssumption
<1> HIDE DEF off
<1>13. ValidSolution(p, SolutionOf(p, off))
  BY <1>1, <1>6, <1>7, <1>8, <1>11, <1>12, UnitsValid
<1>14. InWords(p, SolutionOf(p, off))
  <2>1. off \in PartialsOf(p)
    BY <1>12 DEF PartialsOf
  <2> QED
    BY <1>1, <2>1, FixedKnown, SolutionTyped
<1> QED
  BY <1>13, <1>14 DEF off
-----------------------------------------------------------------------------
(***************************************************************************)
(* canonical_greedy pays no more than what it tried                        *)
(***************************************************************************)
\* A fit that pays nothing is as good as any result.
LEMMA FreeIsBest ==
    ASSUME InputInv, Refusal(problem, "canonical_greedy") = "none",
           NEW r, ResultHolds(problem, r), r.status = "kFeasible", r.objective.reuse = 0,
           NEW found, ResultHolds(problem, found)
    PROVE  ~ScoreBefore(ScoreOf(found), ScoreOf(r))
<1> DEFINE x == ScoreOf(found)
           y == ScoreOf(r)
<1>1. "bank_cost" \notin Range(Terms) /\ Compatible(problem, "canonical_greedy")
  BY TakenIsSearchable, TakenIsFixed DEF Baselines
<1>2. x \in Scores /\ DOMAIN x = 1..Len(Terms)
  BY <1>1, ScoreOfTyped DEF Scores
<1>3. ASSUME NEW i \in DOMAIN x PROVE y[i] = 0 /\ x[i] \in 0..MaxUInt
  <2>1. i \in DOMAIN Terms
    BY <1>2, TermsTyped
  <2>2. Terms[i] \in {"reuse", "capacity_overflow"}
    <3>1. Terms[i] \in Range(Terms)
      BY <2>1 DEF Range
    <3>2. Terms[i] \notin {"total_peak", "max_peak", "bank_cost"}
      BY <1>1, <3>1 DEF Compatible
    <3> QED
      BY <2>1, <3>2, TermsTyped
  <2>3. r.objective.capacity_overflow = 0 /\ r.objective["capacity_overflow"] = 0
        /\ r.objective["reuse"] = 0
    BY DEF ResultHolds
  <2>4. y[i] = r.objective[Terms[i]]
    BY <2>1 DEF ScoreOf
  <2>5. x[i] \in 0..MaxUInt
    BY <1>2 DEF Scores
  <2> QED
    BY <2>2, <2>3, <2>4, <2>5
<1> HIDE DEF x, y
<1>4. ASSUME NEW i \in DOMAIN x PROVE ~(x[i] < y[i])
  <2>1. y[i] = 0 /\ x[i] \in Nat
    BY <1>3, MaxUIntAssumption
  <2> QED
    BY <2>1
<1>5. ~ScoreBefore(x, y)
  BY <1>4 DEF ScoreBefore
<1> QED
  BY <1>5 DEF x, y

\* What canonical_greedy has compared before its order n.
Tried(n) ==
    {r \in {FirstFit} : r.status = "kFeasible"}
        \cup UNION {table.placed[table.orders[j]] : j \in {k \in DOMAIN table.orders : k < n}}

Covers(kept, n) ==
    \A found \in Tried(n) : \E r \in kept : ~ScoreBefore(ScoreOf(found), ScoreOf(r))

\* What canonical_greedy keeps: a fit, none before it that was tried.
GreedyCovers(g) ==
    options.solver = "canonical_greedy" /\ g.index > 0 =>
        /\ Refusal(problem, "canonical_greedy") = "none"
        /\ AtMostOne(g.best) /\ \A r \in g.best : r.status = "kFeasible"
        /\ Covers(g.best, g.index)

AnswerCovers(a) ==
    \A found \in {r \in {FirstFit} : r.status = "kFeasible"}
                    \cup UNION {table.placed[o] : o \in Range(table.orders)} :
        /\ a.status = "kFeasible"
        /\ ~ScoreBefore(ScoreOf(found), ScoreOf(a))

LEMMA TriedTyped ==
    ASSUME InputInv, Refusal(problem, "canonical_greedy") = "none"
    PROVE  /\ Searchable(problem) /\ "bank_cost" \notin Range(Terms)
           /\ DOMAIN table.orders = 1..Len(table.orders) /\ Len(table.orders) \in Nat
           /\ \A j \in DOMAIN table.orders : table.orders[j] \in Orders(problem)
           /\ ResultHolds(problem, FirstFit)
           /\ \A n : \A found \in Tried(n) : ResultHolds(problem, found) /\ found.status = "kFeasible"
<1>1. Searchable(problem) /\ "bank_cost" \notin Range(Terms)
  BY TakenIsSearchable DEF Baselines
<1>2. table.orders \in Seq(Orders(problem))
  BY <1>1, Tables
<1>3. /\ DOMAIN table.orders = 1..Len(table.orders) /\ Len(table.orders) \in Nat
      /\ \A j \in DOMAIN table.orders : table.orders[j] \in Orders(problem)
  BY <1>2, LenProperties, ElementOfSeq
<1>4. ResultHolds(problem, FirstFit)
  BY <1>1, FirstFitIs
<1>5. ASSUME NEW n, NEW found \in Tried(n) PROVE ResultHolds(problem, found) /\ found.status = "kFeasible"
  <2>1. \/ found = FirstFit /\ FirstFit.status = "kFeasible"
        \/ \E j \in DOMAIN table.orders : found \in table.placed[table.orders[j]]
    BY DEF Tried
  <2> QED
    BY <1>1, <1>3, <1>4, <2>1, Tables
<1> QED
  BY <1>1, <1>3, <1>4, <1>5

\* The orders before n + 1 are those before n and the one that n names.
LEMMA TriedNext ==
    ASSUME InputInv, Refusal(problem, "canonical_greedy") = "none",
           greedy.index \in Nat, greedy.index > 0, NEW o \in GreedyOrders
    PROVE  Tried(greedy.index + 1) \subseteq Tried(greedy.index) \cup table.placed[o]
<1> DEFINE n == greedy.index
<1>1. DOMAIN table.orders = 1..Len(table.orders) /\ Len(table.orders) \in Nat
  BY TriedTyped
<1>2. ASSUME NEW j \in DOMAIN table.orders, j < n + 1
      PROVE  j < n \/ table.orders[j] = o
  <2>1. j \in Nat /\ n \in Nat
    BY <1>1
  <2>2. j < n \/ j = n
    BY <1>2, <2>1
  <2>3. j = n => o = table.orders[n]
    BY DEF GreedyOrders
  <2> QED
    BY <2>2, <2>3
<1> QED
  BY <1>2 DEF Tried

\* One placement takes the place of another, or not: what was covered stays covered.
LEMMA CoversNext ==
    ASSUME InputInv, HeldInv, options.solver = "canonical_greedy", GreedyCovers(greedy),
           greedy.index > 0, NEW o \in GreedyOrders, NEW found \in table.placed[o],
           NEW kept, kept = IF Retains(found) THEN {found} ELSE greedy.best
    PROVE  /\ Refusal(problem, "canonical_greedy") = "none"
           /\ AtMostOne(kept) /\ kept # {}
           /\ \A r \in kept : ResultHolds(problem, r) /\ r.status = "kFeasible"
           /\ Covers(kept, greedy.index + 1)
<1> DEFINE n == greedy.index
           V == [1..Len(Terms) -> Int]
<1>1. /\ Refusal(problem, "canonical_greedy") = "none"
      /\ AtMostOne(greedy.best) /\ Covers(greedy.best, n)
      /\ \A r \in greedy.best : ResultHolds(problem, r) /\ r.status = "kFeasible"
      /\ n \in Nat
  BY DEF GreedyCovers, HeldInv, GreedyInv
<1>2. Searchable(problem) /\ "bank_cost" \notin Range(Terms)
  BY <1>1, TriedTyped
<1>3. /\ o \in Orders(problem) /\ ResultHolds(problem, found) /\ found.status = "kFeasible"
      /\ AtMostOne(table.placed[o])
  BY <1>2, GreedyOrdersTyped, Tables
<1>4. /\ \A r \in greedy.best : ScoreOf(r) \in V
      /\ ScoreOf(found) \in V /\ Len(Terms) \in Nat
      /\ \A m : \A r \in Tried(m) : ScoreOf(r) \in V
  <2>1. \A r : ResultHolds(problem, r) => ScoreOf(r) \in V /\ Len(Terms) \in Nat
    BY <1>2, ScoreOfTyped
  <2> QED
    BY <1>1, <1>3, <2>1, TriedTyped
<1>5. /\ AtMostOne(kept)
      /\ \A r \in kept : ResultHolds(problem, r) /\ r.status = "kFeasible"
  BY <1>1, <1>3 DEF AtMostOne
<1>6. kept # {}
  <2>1. greedy.best = {} => Retains(found)
    BY DEF Retains
  <2> QED
    BY <2>1
<1> HIDE DEF V, n
<1>7. \E r \in kept : ~ScoreBefore(ScoreOf(found), ScoreOf(r))
  <2>1. CASE Retains(found)
    <3>1. ~ScoreBefore(ScoreOf(found), ScoreOf(found))
      BY <1>4, NotBeforeItself DEF V
    <3> QED
      BY <2>1, <3>1
  <2>2. CASE ~Retains(found)
    BY <2>2 DEF Retains
  <2> QED
    BY <2>1, <2>2
<1>8. ASSUME NEW f \in Tried(n)
      PROVE  \E r \in kept : ~ScoreBefore(ScoreOf(f), ScoreOf(r))
  <2>1. PICK r \in greedy.best : ~ScoreBefore(ScoreOf(f), ScoreOf(r))
    BY <1>1 DEF Covers
  <2>2. CASE Retains(found)
    <3>1. ScoreBefore(ScoreOf(found), ScoreOf(r)) \/ ScoreOf(found) = ScoreOf(r)
      BY <2>2 DEF Retains
    <3>2. ~ScoreBefore(ScoreOf(r), ScoreOf(found))
      BY <1>4, <3>1, ScoresOrdered DEF V
    <3>3. ~ScoreBefore(ScoreOf(f), ScoreOf(found))
      BY <1>4, <2>1, <3>2, ScoresChain DEF V
    <3> QED
      BY <2>2, <3>3
  <2>3. CASE ~Retains(found)
    BY <2>1, <2>3
  <2> QED
    BY <2>2, <2>3
<1>9. Tried(n + 1) \subseteq Tried(n) \cup {found}
  <2>1. table.placed[o] = {found}
    BY <1>3 DEF AtMostOne
  <2> QED
    BY <1>1, <2>1, TriedNext DEF n
<1>10. Covers(kept, n + 1)
  BY <1>7, <1>8, <1>9 DEF Covers
<1> QED
  BY <1>1, <1>5, <1>6, <1>10 DEF n

\* What canonical_greedy answers with when it stops over what it kept.
LEMMA CoversAnswered ==
    ASSUME InputInv, Refusal(problem, "canonical_greedy") = "none",
           NEW kept, AtMostOne(kept), \A r \in kept : r.status = "kFeasible",
           \A found \in Tried(Len(table.orders) + 1) :
               \E r \in kept : ~ScoreBefore(ScoreOf(found), ScoreOf(r)),
           NEW a, a = IF kept = {} THEN Without("kBestEffortNoFit") ELSE CHOOSE r \in kept : TRUE
    PROVE  AnswerCovers(a)
<1>1. \A r \in kept : a = r
  BY DEF AtMostOne
<1>2. {r \in {FirstFit} : r.status = "kFeasible"} \cup UNION {table.placed[o] : o \in Range(table.orders)}
          \subseteq Tried(Len(table.orders) + 1)
  <2>1. DOMAIN table.orders = 1..Len(table.orders) /\ Len(table.orders) \in Nat
    BY TriedTyped
  <2>2. \A j \in DOMAIN table.orders : j < Len(table.orders) + 1
    BY <2>1
  <2>3. \A o \in Range(table.orders) : \E j \in DOMAIN table.orders : o = table.orders[j]
    BY DEF Range
  <2> QED
    BY <2>2, <2>3 DEF Tried
<1> QED
  BY <1>1, <1>2 DEF AnswerCovers

LEMMA CoversLater ==
    ASSUME InputInv, Refusal(problem, "canonical_greedy") = "none",
           NEW kept, NEW n \in Nat, n > Len(table.orders), Covers(kept, n)
    PROVE  \A found \in Tried(Len(table.orders) + 1) :
               \E r \in kept : ~ScoreBefore(ScoreOf(found), ScoreOf(r))
<1>1. DOMAIN table.orders = 1..Len(table.orders) /\ Len(table.orders) \in Nat
  BY TriedTyped
<1>2. \A j \in DOMAIN table.orders : j < n
  BY <1>1
<1>3. Tried(Len(table.orders) + 1) \subseteq Tried(n)
  BY <1>2 DEF Tried
<1> QED
  BY <1>3 DEF Covers

\* A step of canonical_greedy when it is the solver that was called.
LEMMA GreedyBeginsCovers ==
    ASSUME InputInv, HeldInv, GreedyBegins
    PROVE  GreedyCovers(greedy') /\ UNCHANGED running
<1> DEFINE kept == IF FirstFit.status = "kFeasible" THEN {FirstFit} ELSE {}
<1>1. /\ Refusal(problem, "canonical_greedy") = "none" /\ UNCHANGED running
      /\ greedy' = [index |-> 1, best |-> kept, fromFirstFit |-> kept # {}]
  BY DEF GreedyBegins
<1>2. /\ DOMAIN table.orders = 1..Len(table.orders) /\ "bank_cost" \notin Range(Terms)
      /\ ResultHolds(problem, FirstFit) /\ Len(table.orders) \in Nat
  BY <1>1, TriedTyped
<1>3. ~ScoreBefore(ScoreOf(FirstFit), ScoreOf(FirstFit))
  BY <1>2, ScoreOfTyped, NotBeforeItself
<1>4. Tried(1) = kept
  <2>1. \A j \in DOMAIN table.orders : ~(j < 1)
    BY <1>2
  <2> QED
    BY <2>1 DEF Tried
<1>5. AtMostOne(kept) /\ \A r \in kept : r.status = "kFeasible" /\ r = FirstFit
  BY DEF AtMostOne
<1> HIDE DEF kept
<1>6. greedy'.index = 1 /\ greedy'.best = kept
  BY <1>1
<1>7. Covers(kept, 1)
  BY <1>3, <1>4, <1>5 DEF Covers
<1> QED
  BY <1>1, <1>5, <1>6, <1>7 DEF GreedyCovers

LEMMA GreedyStops ==
    ASSUME NEW kept, GreedyAnswers(kept)
    PROVE  /\ GreedyCovers(greedy')
           /\ answer' = IF kept = {} THEN Without("kBestEffortNoFit") ELSE CHOOSE r \in kept : TRUE
<1>1. greedy' = NoGreedy
  BY DEF GreedyAnswers
<1>2. greedy'.index = 0
  BY <1>1 DEF NoGreedy
<1> QED
  BY <1>2 DEF GreedyCovers, GreedyAnswers, Return

LEMMA GreedyTriesCovers ==
    ASSUME InputInv, HeldInv, options.solver = "canonical_greedy", GreedyCovers(greedy), GreedyTriesOrder
    PROVE  GreedyCovers(greedy') /\ (UNCHANGED running \/ AnswerCovers(answer'))
<1>1. greedy.index > 0 /\ greedy.index \in Nat /\ DOMAIN greedy = {"index", "best", "fromFirstFit"}
  BY DEF GreedyTriesOrder, HeldInv, GreedyInv
<1>2. /\ Refusal(problem, "canonical_greedy") = "none"
      /\ AtMostOne(greedy.best) /\ Covers(greedy.best, greedy.index)
      /\ \A r \in greedy.best : r.status = "kFeasible"
  BY <1>1 DEF GreedyCovers
<1>3. PICK o \in GreedyOrders : \/ table.placed[o] = {} /\ Skip
                                \/ \E found \in table.placed[o] : Consider(found)
  BY DEF GreedyTriesOrder
<1>4. CASE table.placed[o] = {} /\ Skip
  <2>1. greedy' = [greedy EXCEPT !.index = @ + 1] /\ UNCHANGED running
    BY <1>4 DEF Skip
  <2>2. greedy'.index = greedy.index + 1 /\ greedy'.best = greedy.best
    BY <1>1, <2>1
  <2>3. Tried(greedy.index + 1) \subseteq Tried(greedy.index)
    BY <1>1, <1>2, <1>4, TriedNext
  <2>4. Covers(greedy.best, greedy.index + 1)
    BY <1>2, <2>3 DEF Covers
  <2> QED
    BY <1>2, <2>1, <2>2, <2>4 DEF GreedyCovers
<1>5. ASSUME NEW found \in table.placed[o], Consider(found)
      PROVE  GreedyCovers(greedy') /\ (UNCHANGED running \/ AnswerCovers(answer'))
  <2> DEFINE kept == IF Retains(found) THEN {found} ELSE greedy.best
  <2>1. \/ (\A x \in kept : x.objective.reuse = 0) /\ GreedyAnswers(kept)
        \/ /\ greedy' = [index |-> greedy.index + 1, best |-> kept,
                         fromFirstFit |-> greedy.fromFirstFit /\ ~Retains(found)]
           /\ UNCHANGED running
    BY <1>5 DEF Consider
  <2>2. /\ AtMostOne(kept) /\ kept # {} /\ Covers(kept, greedy.index + 1)
        /\ \A r \in kept : ResultHolds(problem, r) /\ r.status = "kFeasible"
    BY <1>1, CoversNext
  <2> HIDE DEF kept
  <2>3. CASE GreedyAnswers(kept) /\ \A x \in kept : x.objective.reuse = 0
    <3>1. PICK r \in kept : TRUE
      BY <2>2
    <3>2. \A f \in Tried(Len(table.orders) + 1) : ~ScoreBefore(ScoreOf(f), ScoreOf(r))
      BY <1>2, <2>2, <2>3, <3>1, TriedTyped, FreeIsBest
    <3>3. AnswerCovers(answer')
      BY <1>2, <2>2, <2>3, <3>2, GreedyStops, CoversAnswered
    <3> QED
      BY <2>3, <3>3, GreedyStops
  <2>4. CASE /\ greedy' = [index |-> greedy.index + 1, best |-> kept,
                           fromFirstFit |-> greedy.fromFirstFit /\ ~Retains(found)]
             /\ UNCHANGED running
    <3>1. greedy'.index = greedy.index + 1 /\ greedy'.best = kept
      BY <2>4
    <3> QED
      BY <1>2, <2>2, <2>4, <3>1 DEF GreedyCovers
  <2> QED
    BY <2>1, <2>3, <2>4
<1> QED
  BY <1>3, <1>4, <1>5

LEMMA GreedyEndsCovers ==
    ASSUME InputInv, HeldInv, options.solver = "canonical_greedy", GreedyCovers(greedy), GreedyEnds
    PROVE  GreedyCovers(greedy') /\ AnswerCovers(answer')
<1>1. greedy.index > 0 /\ greedy.index \in Nat /\ greedy.index > OrdersToTry /\ GreedyAnswers(greedy.best)
  BY DEF GreedyEnds, HeldInv, GreedyInv
<1>2. /\ Refusal(problem, "canonical_greedy") = "none"
      /\ AtMostOne(greedy.best) /\ Covers(greedy.best, greedy.index)
      /\ \A r \in greedy.best : r.status = "kFeasible"
  BY <1>1 DEF GreedyCovers
<1>3. greedy.index > Len(table.orders)
  <2>1. Len(table.orders) \in Nat /\ options.randomRestarts \in Nat
    BY <1>2, TriedTyped, BudgetBounds
  <2> QED
    BY <1>1, <2>1 DEF OrdersToTry
<1> QED
  BY <1>1, <1>2, <1>3, CoversLater, CoversAnswered, GreedyStops
-----------------------------------------------------------------------------
(***************************************************************************)
(* The answers of the baselines                                            *)
(***************************************************************************)
\* What AnswersHold says of an answer a and of the edges that promote_repair left
\* active.
AnswerGood(a, active) ==
    /\ options.solver = "canonical_greedy" /\ Searchable(problem)
       /\ Refusal(problem, "canonical_greedy") = "none" => AnswerCovers(a)
    /\ a.status = "kFeasible" =>
           \A sol \in a.solution :
               /\ ValidSolution(problem, sol)
               /\ options.solver = "promote_repair" =>
                      ActivatedPairs(problem, sol) \cap active = {}
               /\ options.solver = "promote_all" => ReuseCost(problem, sol) = 0
    /\ \A solver \in Units :
           options.solver = solver /\ Refusal(problem, solver) = "none"
               => a.status = "kFeasible"

\* The samples kept are fits.
SamplingInv(kept) ==
    options.solver \in Units => \A r \in kept : r.status = "kFeasible" /\ ResultHolds(problem, r)

AnswersInv ==
    /\ GreedyCovers(greedy) /\ SamplingInv(sampling.best)
    /\ running = <<>> => AnswerGood(answer, repair.active)

LEMMA AnswersInvGives == AnswersInv => AnswersHold
  BY DEF AnswersInv, AnswersHold, AnswerGood, AnswerCovers, Units

\* The problem does not change, nor what is said of answers.
LEMMA AnswersFrozen ==
    ASSUME UNCHANGED input, GreedyCovers(greedy'), SamplingInv(sampling'.best),
           running' = <<>> => AnswerGood(answer', repair'.active)
    PROVE  AnswersInv'
<1>1. problem' = problem /\ options' = options /\ table' = table
  BY DEF input
<1>2. Terms' = Terms
  BY <1>1 DEF Terms
<1>3. ASSUME NEW solver PROVE Refusal(problem, solver)' = Refusal(problem, solver)
  BY <1>1, <1>2 DEF Refusal, Compatible, UnitShape
<1>4. FirstFit' = FirstFit
  BY <1>1, <1>2 DEF FirstFit, ScoreOf
<1>5. \A r : ScoreOf(r)' = ScoreOf(r)
  BY <1>1, <1>2 DEF ScoreOf
<1>6. GreedyCovers(greedy)'
  <2>1. Covers(greedy.best, greedy.index)' <=> Covers(greedy'.best, greedy'.index)
    BY <1>1, <1>2, <1>4 DEF Covers, Tried, ScoreOf
  <2>2. Refusal(problem, "canonical_greedy")' = Refusal(problem, "canonical_greedy")
    BY <1>3
  <2> QED
    BY <1>1, <2>1, <2>2 DEF GreedyCovers, AtMostOne
<1>7. SamplingInv(sampling.best)'
  BY <1>1 DEF SamplingInv
<1>8. (running = <<>> => AnswerGood(answer, repair.active))'
  <2>1. \A a : AnswerCovers(a)' <=> AnswerCovers(a)
    BY <1>1, <1>4, <1>5 DEF AnswerCovers
  <2>2. \A sol : ActivatedPairs(problem, sol)' = ActivatedPairs(problem, sol)
    BY <1>1 DEF ActivatedPairs, AllSoft
  <2>3. \A solver : Refusal(problem, solver)' = Refusal(problem, solver)
    BY <1>3
  <2>4. \A a, active : AnswerGood(a, active)' <=> AnswerGood(a, active)
    BY <1>1, <2>1, <2>2, <2>3 DEF AnswerGood
  <2> QED
    BY <2>4
<1> QED
  BY <1>6, <1>7, <1>8 DEF AnswersInv

\* Only the solver that was called returns to no one.
LEMMA LastReturns ==
    ASSUME InputInv, running \in Calls, NEW solver \in Baselines, StepOf(solver), running' = <<>>
    PROVE  options.solver = solver /\ running' = Front(running)
<1>1. options.solver # Search
  BY BaselineReturns
<1>2. running # <<>> /\ Last(running) = solver
  BY DEF StepOf, Active
<1>3. running = <<options.solver>> \/ running = <<"promote_repair", "canonical_greedy">>
  <2>1. /\ <<Search, "canonical_greedy">>[1] = Search /\ <<Search, "promote_repair">>[1] = Search
        /\ <<Search, "promote_repair", "canonical_greedy">>[1] = Search
    OBVIOUS
  <2> QED
    BY <1>1, <1>2, <2>1 DEF Calls
<1>4. running = <<options.solver>>
  <2>1. CASE running = <<"promote_repair", "canonical_greedy">>
    <3>1. solver = "canonical_greedy" /\ Front(running) = <<"promote_repair">>
      BY <1>2, <2>1, CallStacks
    <3>2. <<"promote_repair">> # <<>>
      BY OneCall
    <3> QED
      BY <1>2, <3>1, <3>2 DEF StepOf
  <2> QED
    BY <1>3, <2>1
<1>5. options.solver = solver
  BY <1>2, <1>4, OneCall
<1>6. running' = Front(running)
  <2>1. solver = "promote_repair" => Append(running, "canonical_greedy") = <<"promote_repair", "canonical_greedy">>
    BY <1>4, <1>5, CallStacks
  <2>2. <<"promote_repair", "canonical_greedy">> # <<>>
    OBVIOUS
  <2> QED
    BY <1>2, <2>1, <2>2 DEF StepOf
<1> QED
  BY <1>5, <1>6

LEMMA RefuseGood ==
    ASSUME InputInv, NEW solver \in Baselines, options.solver = solver, Refuse(solver), NEW active
    PROVE  AnswerGood(answer', active)
<1>1. answer' = Without(Refusal(problem, solver)) /\ Refusal(problem, solver) # "none"
  BY DEF Refuse, Return
<1>2. answer'.solution = {}
  BY <1>1 DEF Without
<1> QED
  BY <1>1, <1>2 DEF AnswerGood

\* A fit of the decoder activates none of the pairs it kept apart.
LEMMA RepairedGood ==
    ASSUME InputInv, Searchable(problem), NEW x \in Candidates, options.solver = "promote_repair",
           NEW a, a = table.decoded[x]
    PROVE  AnswerGood(a, x[2])
<1>1. a = Decoding(problem, x[1], x[2]) /\ ResultHolds(problem, a) /\ x[1] \in Orders(problem)
  BY Tables DEF Candidates
<1>2. Cased(problem) /\ PrepareAccepts(problem)
  BY InputTyped DEF Searchable
<1>3. a.status = "kFeasible" =>
          \A sol \in a.solution :
              /\ ValidSolution(problem, sol)
              /\ \A e \in x[2] : ~ExtentsOverlap(problem, sol, Min(e[1]), Min(e[2]))
  BY <1>1, <1>2, DecodingHolds DEF ResultHolds
<1> QED
  BY <1>3 DEF AnswerGood, ActivatedPairs, Units

LEMMA PromoteAllGood ==
    ASSUME InputInv, options.solver = "promote_all", PromoteAll, NEW active
    PROVE  AnswerGood(answer', active)
<1>1. Refusal(problem, "promote_all") = "none"
  BY DEF PromoteAll
<1>2. Fixed(problem) /\ table = TableOf(problem)
  BY <1>1, TakenIsFixed, InputTyped
<1>3. AllSoft = SoftPairsOf(problem)
  BY <1>2 DEF AllSoft, TableOf
<1>4. \/ \E sol \in PlacementsApart : answer' = With(problem, "kFeasible", sol)
      \/ answer' = Without("kInfeasibleProven") \/ answer' = Without("kTimeout")
      \/ \E sol \in PlacementsApart : answer' = With(problem, "kTimeout", sol)
  BY DEF PromoteAll, Return
<1>5. ASSUME NEW sol \in PlacementsApart PROVE ValidSolution(problem, sol) /\ ReuseCost(problem, sol) = 0
  BY <1>2, <1>3, ApartIsFree DEF PlacementsApart
<1>6. \/ answer'.status # "kFeasible"
      \/ \E sol \in PlacementsApart : answer'.solution = {sol}
  BY <1>4 DEF With, Without
<1> QED
  BY <1>5, <1>6 DEF AnswerGood, Units

\* The unit colourings return a sample, and every sample is a fit.
LEMMA SamplingGood ==
    ASSUME InputInv, HeldInv, SamplingInv(sampling.best), SamplingBegins \/ Sample \/ SamplingEnds
    PROVE  /\ SamplingInv(sampling'.best) /\ options.solver \in Units
           /\ UNCHANGED running \/ AnswerGood(answer', repair'.active)
<1>1. PICK solver \in Units : Active(solver) /\ Refusal(problem, solver) = "none"
  BY DEF SamplingBegins, Sample, SamplingEnds, SamplingMayRun, Units
<1>2. options.solver = solver
  <2>1. solver \in Baselines /\ solver \notin {"canonical_greedy", "promote_repair"}
    BY DEF Units, Baselines
  <2> QED
    BY <1>1, <2>1, CallsKept DEF HeldInv
<1>3. \A r \in sampling.best : r.status = "kFeasible" /\ ResultHolds(problem, r)
  BY <1>2 DEF SamplingInv
<1>4. CASE SamplingBegins
  <2>1. sampling' = [sampling EXCEPT !.left = options.samples] /\ UNCHANGED running
    BY <1>4 DEF SamplingBegins
  <2>2. sampling'.best = sampling.best
    BY <2>1
  <2> QED
    BY <1>2, <1>3, <2>1, <2>2 DEF SamplingInv
<1>5. CASE Sample
  <2>1. PICK color \in Colorings :
            LET sol == SolutionOf(problem, [c \in DOMAIN color |-> color[c] * table.space.size[c]])
            IN  IF ~ValidSolution(problem, sol)
                THEN Return(Without("kInvalidProblem")) /\ sampling' = NoSampling
                ELSE /\ sampling' = [left |-> sampling.left - 1,
                                     best |-> BetterSample(With(problem, "kFeasible", sol))]
                     /\ UNCHANGED <<running, answer>>
    BY <1>5 DEF Sample
  <2> DEFINE sol == SolutionOf(problem, [c \in DOMAIN color |-> color[c] * table.space.size[c]])
             found == With(problem, "kFeasible", sol)
  <2>2. ValidSolution(problem, sol) /\ InWords(problem, sol)
    BY <1>1, ColoringValid
  <2>3. /\ sampling' = [left |-> sampling.left - 1, best |-> BetterSample(found)]
        /\ UNCHANGED running
    BY <2>1, <2>2
  <2>4. found.status = "kFeasible" /\ ResultHolds(problem, found)
    <3>1. Cased(problem) /\ ValidProblem(problem)
      BY <1>1, TakenIsFixed, InputTyped, FixedKnown DEF Fixed
    <3> HIDE DEF sol
    <3>2. ResultHolds(problem, found)
      BY <2>2, <3>1, WithHolds
    <3> QED
      BY <3>2 DEF With
  <2> HIDE DEF found
  <2>5. sampling'.best = BetterSample(found)
    BY <2>3
  <2> QED
    BY <1>2, <1>3, <2>3, <2>4, <2>5 DEF BetterSample, SamplingInv
<1>6. CASE SamplingEnds
  <2>1. sampling' = NoSampling /\ \E kept \in sampling.best : answer' = kept
    BY <1>6 DEF SamplingEnds, Return
  <2>2. sampling'.best = {}
    BY <2>1 DEF NoSampling
  <2>3. AnswerGood(answer', repair'.active)
    <3>1. answer'.status = "kFeasible" /\ ResultHolds(problem, answer')
      BY <1>3, <2>1
    <3> QED
      BY <1>2, <3>1 DEF AnswerGood, ResultHolds, Units
  <2> QED
    BY <1>2, <2>2, <2>3 DEF SamplingInv
<1> QED
  BY <1>4, <1>5, <1>6

\* A step of canonical_greedy, called by the user or by another solver.
LEMMA GreedyStepCovers ==
    ASSUME InputInv, HeldInv, GreedyCovers(greedy), GreedyBegins \/ GreedyTriesOrder \/ GreedyEnds
    PROVE  /\ GreedyCovers(greedy')
           /\ options.solver = "canonical_greedy" => UNCHANGED running \/ AnswerCovers(answer')
<1>1. CASE options.solver = "canonical_greedy"
  BY <1>1, GreedyBeginsCovers, GreedyTriesCovers, GreedyEndsCovers
<1>2. CASE options.solver # "canonical_greedy"
  BY <1>2 DEF GreedyCovers
<1> QED
  BY <1>1, <1>2

\* A step of promote_repair that answers the user.
LEMMA RepairGood ==
    ASSUME InputInv, HeldInv, options.solver = "promote_repair", RepairDecodes \/ RepairReturns,
           running' = Front(running), running' = <<>>, AnswerInv'
    PROVE  AnswerGood(answer', repair'.active)
<1>1. ResultHolds(problem, answer')
  <2>1. problem' = problem /\ options' = options
    BY DEF RepairDecodes, RepairReturns, input
  <2> QED
    BY <2>1 DEF AnswerInv
<1>2. CASE RepairReturns
  <2>1. repair' = NoRepair
    BY <1>2 DEF RepairReturns
  <2>2. repair'.active = {}
    BY <2>1 DEF NoRepair
  <2> QED
    BY <1>1, <2>2 DEF AnswerGood, ResultHolds, Units
<1>3. CASE RepairDecodes
  <2> DEFINE x == <<table.orders[repair.index], repair.active>>
             last == table.decoded[x]
  <2>1. /\ Active("promote_repair") /\ repair.index > 0 /\ repair.index < NoOrderLeft
    BY <1>3 DEF RepairDecodes, RepairMayRun
  <2>2. /\ Searchable(problem) /\ repair.index \in Nat /\ repair.active \subseteq AllSoft
        /\ DOMAIN repair = {"index", "active", "last"}
    BY <2>1 DEF HeldInv, RepairInv
  <2>3. x \in Candidates
    <3>1. table.orders \in Seq(Orders(problem))
      BY <2>2, Tables
    <3>2. repair.index \in 1..Len(table.orders)
      BY <2>1, <2>2, <3>1, LenProperties DEF NoOrderLeft
    <3> QED
      BY <2>2, <3>1, <3>2, LenProperties DEF Candidates
  <2>4. answer' = last /\ repair' = [repair EXCEPT !.index = 0]
    <3>1. Append(running, "canonical_greedy") # <<>> /\ running # <<>>
      <4>1. running # <<>>
        BY <2>1 DEF Active
      <4>2. running = <<"promote_repair">>
        <5>1. /\ Last(<<"promote_repair", "canonical_greedy">>) = "canonical_greedy"
              /\ <<Search, "canonical_greedy">>[1] = Search /\ <<Search, "promote_repair">>[1] = Search
              /\ <<Search, "promote_repair", "canonical_greedy">>[1] = Search
          BY CallStacks
        <5>2. Last(running) = "promote_repair" /\ Search # "promote_repair"
          BY <2>1 DEF Active, Search
        <5> QED
          BY <4>1, <5>1, <5>2 DEF HeldInv, Calls
      <4>3. Append(<<"promote_repair">>, "canonical_greedy") = <<"promote_repair", "canonical_greedy">>
        BY CallStacks
      <4>4. <<"promote_repair", "canonical_greedy">> # <<>>
        OBVIOUS
      <4> QED
        BY <4>1, <4>2, <4>3, <4>4
    <3>2. ~FallsBack(last) /\ ~(UNCHANGED <<running, answer>>)
      BY <3>1 DEF FallsBack, Call
    <3> QED
      BY <1>3, <3>2 DEF RepairDecodes, Return
  <2>5. repair'.active = repair.active
    BY <2>2, <2>4
  <2>6. x[2] = repair.active
    OBVIOUS
  <2>7. AnswerGood(answer', x[2])
    <3> DEFINE a == answer'
    <3> HIDE DEF x
    <3>1. AnswerGood(table.decoded[x], x[2])
      BY <2>2, <2>3, RepairedGood
    <3> QED
      BY <2>4, <3>1
  <2> HIDE DEF x
  <2> QED
    BY <2>5, <2>6, <2>7
<1> QED
  BY <1>2, <1>3

LEMMA BaselinesAnswered ==
    ASSUME InputInv, HeldInv, AnswersInv, BaselinesNext, AnswerInv', InputInv'
    PROVE  AnswersInv'
<1>1. PICK solver \in Baselines : StepOf(solver)
  BY SomeBaselineSteps
<1>2. UNCHANGED input /\ Active(solver) /\ running # <<>>
  BY <1>1 DEF StepOf, Active
<1>3. problem' = problem /\ options' = options
  BY <1>2 DEF input
<1>4. GreedyCovers(greedy) /\ SamplingInv(sampling.best) /\ running \in Calls
  BY DEF AnswersInv, HeldInv
<1>5. running' = <<>> => options.solver = solver /\ running' = Front(running) /\ running' # running
  BY <1>1, <1>2, <1>4, LastReturns
<1>6. ASSUME NEW s \in Baselines, Active(s) PROVE s = solver
  BY <1>2, <1>6 DEF Active
<1>7. options.solver \in {"canonical_greedy", "promote_repair"} => ResultHolds(problem, answer')
  BY <1>3 DEF AnswerInv
<1> DEFINE Good == running' = <<>> => AnswerGood(answer', repair'.active)
<1>8. CASE \E s \in Baselines : Refuse(s)
  <2>1. PICK s \in Baselines : Refuse(s)
    BY <1>8
  <2>2. s = solver /\ UNCHANGED greedy /\ UNCHANGED sampling
    BY <1>6, <2>1 DEF Refuse, baselineVars
  <2>3. Good
    BY <1>5, <2>1, <2>2, RefuseGood
  <2> QED
    BY <1>2, <1>4, <2>2, <2>3, AnswersFrozen
<1>9. CASE GreedyBegins \/ GreedyTriesOrder \/ GreedyEnds
  <2>1. /\ GreedyCovers(greedy') /\ UNCHANGED sampling
        /\ options.solver = "canonical_greedy" => UNCHANGED running \/ AnswerCovers(answer')
    BY <1>4, <1>9, GreedyStepCovers DEF GreedyBegins, GreedyTriesOrder, GreedyEnds
  <2>2. solver = "canonical_greedy"
    BY <1>6, <1>9 DEF GreedyBegins, GreedyTriesOrder, GreedyEnds, GreedyMayRun, Baselines
  <2>3. Good
    BY <1>5, <1>7, <2>1, <2>2 DEF AnswerGood, ResultHolds, Units
  <2> QED
    BY <1>2, <1>4, <2>1, <2>3, AnswersFrozen
<1>10. CASE RepairBegins \/ RepairDecodes \/ RepairReturns
  <2>1. UNCHANGED greedy /\ UNCHANGED sampling
    BY <1>10 DEF RepairBegins, RepairDecodes, RepairReturns
  <2>2. solver = "promote_repair"
    BY <1>6, <1>10 DEF RepairBegins, RepairDecodes, RepairReturns, RepairMayRun, Baselines
  <2>3. Good
    <3>1. ~RepairBegins \/ UNCHANGED running
      BY DEF RepairBegins
    <3> QED
      BY <1>5, <1>10, <2>2, <3>1, RepairGood
  <2> QED
    BY <1>2, <1>4, <2>1, <2>3, AnswersFrozen
<1>11. CASE PromoteAll
  <2>1. UNCHANGED greedy /\ UNCHANGED sampling
    BY <1>11 DEF PromoteAll, baselineVars
  <2>2. solver = "promote_all"
    BY <1>6, <1>11 DEF PromoteAll, Baselines
  <2>3. Good
    BY <1>5, <1>11, <2>2, PromoteAllGood
  <2> QED
    BY <1>2, <1>4, <2>1, <2>3, AnswersFrozen
<1>12. CASE SamplingBegins \/ Sample \/ SamplingEnds
  <2>1. UNCHANGED greedy
    BY <1>12 DEF SamplingBegins, Sample, SamplingEnds
  <2>2. SamplingInv(sampling'.best) /\ (UNCHANGED running \/ AnswerGood(answer', repair'.active))
    BY <1>4, <1>12, SamplingGood
  <2>3. Good
    BY <1>5, <2>2
  <2> QED
    BY <1>2, <1>4, <2>1, <2>2, <2>3, AnswersFrozen
<1> QED
  BY <1>8, <1>9, <1>10, <1>11, <1>12 DEF BaselinesNext

\* The answer of the local search is a result of its own.
LEMMA SearchAnswered ==
    ASSUME InputInv, SearchInv, SearchNext, UNCHANGED input, AnswerInv'
    PROVE  AnswersInv'
<1>1. SearchMayRun
  BY DEF SearchNext, RefuseSearch, PlainSeed, StrictSeed, CallSeed, SeedReturns, SeedsSuffice, FirstRestart,
         Restart, RestartsEnd, BeginIteration, SoftMove, OrderMove, TakeNext, Stagnate, MovesEnd, Kick
<1>2. options.solver = Search
  BY <1>1, SearchRuns
<1>3. ResultHolds(problem, answer')
  BY <1>2 DEF AnswerInv, input
<1>4. GreedyCovers(greedy') /\ SamplingInv(sampling'.best)
  BY <1>2 DEF GreedyCovers, SamplingInv, Search, Units
<1>5. AnswerGood(answer', repair'.active)
  BY <1>2, <1>3 DEF AnswerGood, ResultHolds, Search, Units
<1> QED
  BY <1>4, <1>5, AnswersFrozen

LEMMA SearchKeepsInput == SearchNext => UNCHANGED input
  BY DEF SearchNext, RefuseSearch, PlainSeed, StrictSeed, CallSeed, SeedReturns, SeedsSuffice, FirstRestart,
         Finish, Restart, RestartsEnd, BeginIteration, SoftMove, OrderMove, Tries, TakeNext, Stagnate, Kick

LEMMA AnswersStep ==
    ASSUME InputInv, SearchInv, AnswersInv, [Next]_vars, InputInv', SearchInv'
    PROVE  AnswersInv'
<1>1. HeldInv /\ AnswerInv'
  BY DEF SearchInv, HeldInv
<1>2. CASE UNCHANGED vars
  <2>1. UNCHANGED input /\ UNCHANGED <<running, answer, greedy, repair, sampling>>
    BY <1>2 DEF vars, baselineVars
  <2> QED
    BY <2>1, AnswersFrozen DEF AnswersInv
<1>3. CASE BaselinesNext
  BY <1>1, <1>3, BaselinesAnswered
<1>4. CASE SearchNext
  BY <1>1, <1>4, SearchKeepsInput, SearchAnswered
<1> QED
  BY <1>2, <1>3, <1>4 DEF Next, Terminated

LEMMA AnswersStart == Init /\ InputInv => AnswersInv
<1> SUFFICES ASSUME Init, InputInv PROVE AnswersInv
  OBVIOUS
<1>1. running = <<options.solver>> /\ greedy = NoGreedy /\ sampling = NoSampling
  BY DEF Init, BaselinesInit
<1>2. running # <<>> /\ greedy.index = 0 /\ sampling.best = {}
  BY <1>1, OneCall DEF NoGreedy, NoSampling
<1> QED
  BY <1>2 DEF AnswersInv, GreedyCovers, SamplingInv

\* canonical_greedy answers with a fit that pays no more than first fit's and than
\* every order of its table; what promote_repair repaired pays for no edge that is
\* still promoted; promote_all pays for none; and every sample of a unit colouring
\* that is not refused is a fit (Solve of the baselines).
THEOREM Answers == Spec => []AnswersHold
<1>1. Init => AnswersInv
  BY InitHolds, AnswersStart
<1>2. InputInv /\ SearchInv /\ AnswersInv /\ [Next]_vars /\ InputInv' /\ SearchInv' => AnswersInv'
  BY AnswersStep
<1>3. AnswersInv => AnswersHold
  BY AnswersInvGives
<1> QED
  BY <1>1, <1>2, <1>3, AlwaysHeld, PTL DEF Spec
=============================================================================
