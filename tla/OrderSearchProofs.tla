------------------------- MODULE OrderSearchProofs -------------------------
(***************************************************************************)
(* The searches over the orders of the first-fit decoder never lose or     *)
(* repeat a class, keep every result with its order, spend exactly their   *)
(* budget and never give up their best result, for every set of problems   *)
(* and options.  The proof first follows the moves on an order, then the   *)
(* counters, and shows IInv inductive.                                     *)
(***************************************************************************)
EXTENDS OrderSearch, DsaModelProofs

(***************************************************************************)
(* Moves                                                                   *)
(***************************************************************************)
LEMMA SwapArranges ==
    ASSUME NEW S, NEW o, Arrangement(o, S), NEW i \in 1..Len(o), NEW j \in 1..Len(o)
    PROVE  Arrangement(Swap(o, i, j), S)
<1> DEFINE n == Len(o)
           at == [k \in 1..n |-> IF k = j THEN i ELSE IF k = i THEN j ELSE k]
<1>1. o \in Seq(S) /\ DOMAIN o = 1..n
  BY LenProperties DEF Arrangement
<1>2. Swap(o, i, j) = Permuted(o, at)
  BY <1>1 DEF Swap, Permuted
<1>3. at \in [1..n -> 1..n] /\ \A k \in 1..n : at[at[k]] = k
  OBVIOUS
<1> HIDE DEF at
<1> QED
  BY <1>2, <1>3, ArrangementPermuted

LEMMA ReverseArranges ==
    ASSUME NEW S, NEW o, Arrangement(o, S), NEW i \in 1..Len(o), NEW j \in 1..Len(o)
    PROVE  Arrangement(ReverseSegment(o, i, j), S)
<1> DEFINE n == Len(o)
           at == [k \in 1..n |-> IF k \in i..j THEN i + j - k ELSE k]
<1>1. o \in Seq(S) /\ DOMAIN o = 1..n /\ n \in Nat
  BY LenProperties DEF Arrangement
<1>2. ReverseSegment(o, i, j) = Permuted(o, at)
  <2> HIDE DEF n
  <2>1. \A k \in 1..n : o[at[k]] = IF k \in i..j THEN o[i + j - k] ELSE o[k]
    OBVIOUS
  <2> HIDE DEF at
  <2> QED
    BY <1>1, <2>1 DEF ReverseSegment, Permuted, n
<1>3. at \in [1..n -> 1..n] /\ \A k \in 1..n : at[at[k]] = k
  <2> HIDE DEF n
  <2>1. i \in 1..n /\ j \in 1..n
    BY DEF n
  <2>2. \A k \in 1..n : k \in i..j => i + j - k \in 1..n /\ i + j - k \in i..j /\ i + j - (i + j - k) = k
    BY <1>1, <2>1
  <2>3. at \in [1..n -> 1..n]
    BY <2>2
  <2>4. \A k \in 1..n : at[at[k]] = k
    BY <2>2
  <2> QED
    BY <2>3, <2>4
<1> HIDE DEF at
<1> QED
  BY <1>2, <1>3, ArrangementPermuted

\* An element taken out and put back elsewhere.
LEMMA MovedArranges ==
    ASSUME NEW S, NEW o, Arrangement(o, S), NEW from \in 1..Len(o), NEW to \in 1..Len(o)
    PROVE  Arrangement(InsertAt(RemoveAt(o, from), to, o[from]), S)
<1> DEFINE e == o[from]
           rest == RemoveAt(o, from)
           T == S \ {e}
<1>1. Arrangement(rest, T) /\ Len(rest) = Len(o) - 1
  BY ArrangementRemoved
<1>2. e \in S /\ e \notin T /\ Len(o) \in Nat
  BY LenProperties DEF Arrangement, Lists
<1>3. to \in 1..(Len(rest) + 1) /\ T \cup {e} = S
  BY <1>1, <1>2
<1> HIDE DEF e, rest, T
<1>4. Arrangement(InsertAt(rest, to, e), T \cup {e})
  BY <1>1, <1>2, <1>3, ArrangementInserted
<1> QED
  BY <1>3, <1>4 DEF e, rest

LEMMA GenericMovesArrange ==
    ASSUME NEW S, NEW o, Arrangement(o, S)
    PROVE  \A x \in GenericMoves(o) : Arrangement(x, S)
<1> TAKE x \in GenericMoves(o)
<1>1. DOMAIN o = 1..Len(o)
  BY LenProperties DEF Arrangement
<1>2. CASE Len(o) < 2
  BY <1>2 DEF GenericMoves
<1>3. CASE ~(Len(o) < 2)
  <2>1. PICK pair \in Positions(o) :
            x \in {Swap(o, pair[1], pair[2]),
                   InsertAt(RemoveAt(o, pair[2]), pair[1], o[pair[2]]),
                   ReverseSegment(o, pair[1], pair[2])}
    BY <1>3 DEF GenericMoves
  <2> DEFINE i == pair[1]
             j == pair[2]
  <2>2. i \in 1..Len(o) /\ j \in 1..Len(o)
    BY <1>1 DEF Positions
  <2>3. x \in {Swap(o, i, j), InsertAt(RemoveAt(o, j), i, o[j]), ReverseSegment(o, i, j)}
    BY <2>1
  <2> HIDE DEF i, j
  <2>4. Arrangement(Swap(o, i, j), S) /\ Arrangement(ReverseSegment(o, i, j), S)
    BY <2>2, SwapArranges, ReverseArranges
  <2>5. Arrangement(InsertAt(RemoveAt(o, j), i, o[j]), S)
    BY <2>2, MovedArranges
  <2> QED
    BY <2>3, <2>4, <2>5
<1> QED
  BY <1>2, <1>3

LEMMA MoveToArranges ==
    ASSUME NEW S, NEW o, Arrangement(o, S), NEW b, NEW destination \in Nat
    PROVE  \A x \in MoveTo(o, b, destination) : Arrangement(x, S)
<1> TAKE x \in MoveTo(o, b, destination)
<1> DEFINE from == PlaceOf(o, b)
           to == MovedIndex(o, b, destination) + 1
<1>1. DOMAIN o = 1..Len(o) /\ Len(o) \in Nat
  BY LenProperties DEF Arrangement
<1>2. CASE x \in GenericMoves(o)
  BY <1>2, GenericMovesArrange
<1>3. CASE x \notin GenericMoves(o)
  <2>1. b \in Range(o) /\ x = InsertAt(RemoveAt(o, from), to, b)
    BY <1>3 DEF MoveTo
  <2>2. from \in 1..Len(o) /\ o[from] = b
    BY <1>1, <2>1 DEF PlaceOf, Range
  <2>3. to \in 1..Len(o)
    <3> DEFINE index == IF from - 1 < destination THEN destination - 1 ELSE destination
               l == Len(o) - 1
    <3>1. index \in Nat /\ l \in Nat
      BY <1>1, <2>2
    <3>2. MovedIndex(o, b, destination) = Min({index, l})
      BY DEF MovedIndex
    <3> HIDE DEF index
    <3>3. Min({index, l}) \in {index, l} /\ \A n \in {index, l} : Min({index, l}) <= n
      <4> DEFINE T == {index, l}
      <4>1. T \in SUBSET Nat /\ T # {}
        BY <3>1
      <4> HIDE DEF T
      <4>2. Min(T) \in T /\ \A n \in T : Min(T) <= n
        BY <4>1, MinNatural
      <4> QED
        BY <4>2 DEF T
    <3> QED
      BY <1>1, <3>1, <3>2, <3>3
  <2> HIDE DEF from, to
  <2> QED
    BY <2>1, <2>2, <2>3, MovedArranges
<1> QED
  BY <1>2, <1>3

\* The blocks of a structure list a buffer once.
LEMMA PipelineMovesArrange ==
    ASSUME NEW p \in Problems, NEW S, NEW o, Arrangement(o, S)
    PROVE  \A x \in PipelineMoves(p, o) : Arrangement(x, S)
<1> TAKE x \in PipelineMoves(p, o)
<1>1. CASE x \in GenericMoves(o)
  BY <1>1, GenericMovesArrange
<1>2. CASE x \notin GenericMoves(o)
  <2> DEFINE members(block) == Filter(block, Range(o))
             rest(block) == Filter(o, Range(o) \ Range(block))
  <2>1. PICK block \in p.blocks : \E i \in 0..Len(rest(block)) :
            x = SubSeq(rest(block), 1, i) \o members(block)
                    \o SubSeq(rest(block), i + 1, Len(rest(block)))
    BY <1>2 DEF PipelineMoves
  <2> DEFINE r == rest(block)
             m == members(block)
             B == Range(block)
  <2>2. block \in Seq(p.buffers) /\ \A i, j \in DOMAIN block : block[i] = block[j] => i = j
    BY ProblemsAssumption
  <2>3. Once(block) /\ B = {block[i] : i \in 1..Len(block)}
    <3>1. DOMAIN block = 1..Len(block)
      BY <2>2, LenProperties
    <3> QED
      BY <2>2, <3>1 DEF Once, Range
  <2>4. o \in Seq(S) /\ Once(o) /\ Range(o) = S /\ S = {o[i] : i \in 1..Len(o)}
    <3>1. DOMAIN o = 1..Len(o)
      BY LenProperties DEF Arrangement
    <3> QED
      BY <3>1 DEF Arrangement, Lists, Range
  <2>5. Arrangement(m, B \cap S)
    <3>1. Arrangement(Filter(block, S), {block[i] : i \in 1..Len(block)} \cap S)
      BY <2>2, <2>3, FilterArranges
    <3> QED
      BY <2>3, <2>4, <3>1
  <2>6. Arrangement(r, S \ B)
    <3> DEFINE U == S \ B
    <3>1. Arrangement(Filter(o, U), {o[i] : i \in 1..Len(o)} \cap U)
      <4> HIDE DEF U, B
      <4> QED
        BY <2>4, FilterArranges
    <3>2. S \cap U = U
      OBVIOUS
    <3> HIDE DEF B
    <3> QED
      BY <2>4, <3>1, <3>2 DEF B
  <2>7. PICK i \in 0..Len(r) : x = SubSeq(r, 1, i) \o m \o SubSeq(r, i + 1, Len(r))
    BY <2>1
  <2>8. x = Splice(r, m, i + 1) /\ i + 1 \in 1..(Len(r) + 1)
    <3>1. Len(r) \in Nat
      BY <2>6, LenProperties DEF Arrangement
    <3> HIDE DEF r, m
    <3>2. i + 1 - 1 = i
      OBVIOUS
    <3> QED
      BY <2>7, <3>1, <3>2 DEF Splice
  <2> DEFINE A == S \ B
             C == B \cap S
             k == i + 1
  <2>9. Arrangement(r, A) /\ Arrangement(m, C) /\ A \cap C = {} /\ A \cup C = S
    BY <2>5, <2>6
  <2>10. x = Splice(r, m, k) /\ k \in 1..(Len(r) + 1)
    BY <2>8
  <2> HIDE DEF r, m, A, C, k
  <2>11. Arrangement(Splice(r, m, k), A \cup C)
    BY <2>9, <2>10, ArrangementSpliced
  <2> QED
    BY <2>9, <2>10, <2>11
<1> QED
  BY <1>1, <1>2

LEMMA MovesArrange ==
    ASSUME NEW p \in Problems, NEW solver, NEW S, NEW o, Arrangement(o, S)
    PROVE  \A x \in Moves(p, solver, o) : Arrangement(x, S)
<1>1. Len(o) \in Nat
  BY LenProperties DEF Arrangement
<1>2. \A x \in GenericMoves(o) \cup PipelineMoves(p, o) : Arrangement(x, S)
  BY GenericMovesArrange, PipelineMovesArrange
<1>3. \A x \in PenaltyMoves(p, o) : Arrangement(x, S)
  <2> TAKE x \in PenaltyMoves(p, o)
  <2>1. x \in GenericMoves(o) \/ \E b : \E destination \in {0, Len(o)} : x \in MoveTo(o, b, destination)
    BY DEF PenaltyMoves
  <2>2. {0, Len(o)} \subseteq Nat
    BY <1>1
  <2> QED
    BY <1>2, <2>1, <2>2, MoveToArranges
<1>4. \A x \in AliasMoves(p, o) : Arrangement(x, S)
  <2> TAKE x \in AliasMoves(p, o)
  <2>1. x \in GenericMoves(o) \/ \E b : \E destination \in 0..Len(o) : x \in MoveTo(o, b, destination)
    BY DEF AliasMoves
  <2>2. 0..Len(o) \subseteq Nat
    BY <1>1
  <2> QED
    BY <1>2, <2>1, <2>2, MoveToArranges
<1> QED
  BY <1>2, <1>3, <1>4 DEF Moves, StructuredMoves

\* What is known of a problem that passed the checks before the seed.
LEMMA SearchableKnown ==
    ASSUME NEW p \in Searchable
    PROVE  /\ p \in Problems /\ PrepareAccepts(p) /\ Known(p)
           /\ ProblemTyped(p) /\ ObjectiveTyped(p)
           /\ "bank_cost" \notin Range(p.terms)
<1>1. p \in Problems /\ PrepareAccepts(p) /\ "bank_cost" \notin Range(p.terms)
  BY DEF Searchable, Incompatible
<1>2. ProblemTyped(p) /\ ObjectiveTyped(p)
  BY <1>1, ProblemsAssumption
<1>3. Known(p)
  BY <1>1, <1>2 DEF PrepareAccepts, ValidProblem, KnownColocations, Known, ObjectiveTyped
<1> QED
  BY <1>1, <1>2, <1>3

LEMMA DecodedIs ==
    ASSUME NEW p \in Searchable, NEW o \in Orders(p)
    PROVE  Decoded[p][o] = Decode(p, o)
<1>1. Decoded = [q \in Searchable |-> Tabulated([x \in Orders(q) |-> Decode(q, x)])]
  BY TabulatedIs DEF Decoded
<1>2. Decoded[p] = Tabulated([x \in Orders(p) |-> Decode(p, x)])
  BY <1>1
<1>3. Decoded[p] = [x \in Orders(p) |-> Decode(p, x)]
  <2> DEFINE f == [x \in Orders(p) |-> Decode(p, x)]
  <2>1. Decoded[p] = Tabulated(f)
    BY <1>2
  <2> HIDE DEF f
  <2>2. Decoded[p] = f
    BY <2>1, TabulatedIs
  <2> QED
    BY <2>2 DEF f
<1> QED
  BY <1>3

LEMMA MovesFromIs ==
    ASSUME NEW p \in Searchable, NEW s \in {"local_search", "pypto_structured_search"},
           NEW o \in Orders(p)
    PROVE  MovesFrom[p][<<s, o>>] \in SUBSET Orders(p)
<1> DEFINE solvers == {"local_search", "pypto_structured_search"}
           f == [x \in solvers \X Orders(p) |-> Moves(p, x[1], x[2])]
<1>1. MovesFrom = [q \in Searchable |->
                      Tabulated([x \in solvers \X Orders(q) |-> Moves(q, x[1], x[2])])]
  BY TabulatedIs DEF MovesFrom
<1>2. MovesFrom[p] = Tabulated(f)
  BY <1>1
<1>3. <<s, o>> \in solvers \X Orders(p)
  OBVIOUS
<1>4. f[<<s, o>>] = Moves(p, s, o)
  BY <1>3
<1> HIDE DEF f
<1>5. MovesFrom[p] = f
  BY <1>2, TabulatedIs
<1>6. Arrangement(o, Representatives(p))
  BY SearchableKnown, OrdersArrange
<1>7. \A x \in Moves(p, s, o) : Arrangement(x, Representatives(p))
  BY <1>6, SearchableKnown, MovesArrange
<1>8. \A x \in Moves(p, s, o) : x \in Orders(p)
  BY <1>7, SearchableKnown, OrdersArrange
<1> QED
  BY <1>4, <1>5, <1>8

LEMMA SeedsForIs ==
    ASSUME NEW p \in Searchable, NEW o \in Options
    PROVE  SeedsFor[p][o.solver] = SeedOrders(p, o.solver)
<1> DEFINE solvers == {x.solver : x \in Options}
           f == [s \in solvers |-> SeedOrders(p, s)]
<1>1. SeedsFor = [q \in Searchable |-> Tabulated([s \in solvers |-> SeedOrders(q, s)])]
  BY TabulatedIs DEF SeedsFor
<1>2. SeedsFor[p] = Tabulated(f)
  BY <1>1
<1>3. f[o.solver] = SeedOrders(p, o.solver)
  OBVIOUS
<1> HIDE DEF f
<1> QED
  BY <1>2, <1>3, TabulatedIs

\* A perturbation leaves an order.
LEMMA PerturbedOrders ==
    ASSUME problem \in Searchable, options \in Options, LocalSearch,
           NEW o \in Orders(problem), NEW moves \in Nat
    PROVE  Perturbed(o, moves) \in SUBSET Orders(problem)
<1> DEFINE p == problem
           solver == options.solver
           V == SUBSET Orders(p)
           Moved(S) == UNION {MovesFrom[p][<<solver, x>>] : x \in S}
           D == [x \in (1..moves) \X V |-> Moved(x[2])]
           After(g, i) == IF i = 0 THEN {o} ELSE Moved(g[i - 1])
           after == CHOOSE g : g = [i \in 0..moves |-> After(g, i)]
<1>1. solver \in {"local_search", "pypto_structured_search"}
  BY OptionsAssumption DEF LocalSearch
<1>2. \A S \in V : Moved(S) \in V
  <2>1. \A x \in Orders(p) : MovesFrom[p][<<solver, x>>] \in V
    BY <1>1, MovesFromIs
  <2> QED
    BY <2>1
<1>3. Perturbed(o, moves) = after[moves]
  BY DEF Perturbed
<1> HIDE DEF Moved
<1>4. \E g : g = [i \in 0..moves |-> After(g, i)]
  <2> DEFINE base == {o}
  <2>1. D \in [(1..moves) \X V -> V] /\ base \in V
    BY <1>2
  <2>2. \A i \in 1..moves : i - 1 \in 0..moves
    OBVIOUS
  <2>3. \A x \in (1..moves) \X V : D[x] = Moved(x[2])
    OBVIOUS
  <2> HIDE DEF D, V
  <2>4. \E g : RecursionIn(moves, V, base, D, g)
    <3> HIDE DEF base
    <3> QED
      BY <2>1, RecursionTyped
  <2>5. PICK g : RecursionIn(moves, V, base, D, g)
    BY <2>4
  <2>6. g \in [0..moves -> V] /\ g[0] = base /\ \A i \in 1..moves : g[i] = D[<<i, g[i - 1]>>]
    BY <2>5 DEF RecursionIn
  <2>7. \A i \in 1..moves : g[i] = Moved(g[i - 1])
    <3>1. \A i \in 1..moves : <<i, g[i - 1]>> \in (1..moves) \X V
      BY <2>2, <2>6
    <3> QED
      BY <2>3, <2>6, <3>1
  <2>8. \A i \in 0..moves : g[i] = After(g, i)
    <3>1. \A i \in 0..moves : i = 0 \/ i \in 1..moves
      OBVIOUS
    <3> QED
      BY <2>6, <2>7, <3>1
  <2>9. g = [i \in 0..moves |-> g[i]]
    BY <2>6
  <2> HIDE DEF After
  <2>10. g = [i \in 0..moves |-> After(g, i)]
    BY <2>8, <2>9
  <2> QED
    BY <2>10
<1>5. after = [i \in 0..moves |-> After(after, i)]
  <2> HIDE DEF After
  <2> QED
    BY <1>4
<1>6. \A i \in 0..moves : after[i] = After(after, i)
  <2> HIDE DEF After, after
  <2> QED
    BY <1>5
<1> HIDE DEF after
<1> DEFINE T == {i \in 0..moves : after[i] \in V}
<1>7. 0 \in T
  BY <1>6
<1>8. ASSUME NEW i \in 1..moves, i - 1 \in T PROVE i \in T
  <2>1. i \in 0..moves /\ i # 0
    OBVIOUS
  <2>2. after[i] = Moved(after[i - 1]) /\ after[i - 1] \in V
    BY <1>6, <1>8, <2>1
  <2> QED
    BY <1>2, <2>1, <2>2
<1> HIDE DEF T
<1>9. \A i \in 0..moves : i \in T
  BY <1>7, <1>8, NaturalInduction
<1>10. moves \in 0..moves
  OBVIOUS
<1> QED
  BY <1>3, <1>9, <1>10 DEF T

(***************************************************************************)
(* Results                                                                 *)
(***************************************************************************)
\* An order with what the decoder makes of it.
Evaluated(p, e) == e.order \in Orders(p) /\ e.result = Decoded[p][e.order]

LEMMA EvaluationEvaluated ==
    ASSUME NEW o \in Orders(problem)
    PROVE  Evaluated(problem, Evaluation(o)) /\ Evaluation(o).order = o
  BY DEF Evaluated, Evaluation

LEMMA ResultScored ==
    ASSUME NEW p \in Searchable, NEW e, Evaluated(p, e)
    PROVE  /\ Len(p.terms) \in Nat /\ DOMAIN p.terms = 1..Len(p.terms)
           /\ e.result.score \in [1..Len(p.terms) -> Int]
           /\ Scored(p, e.result.score)
           /\ \A i \in DOMAIN p.terms : p.terms[i] = "capacity_overflow" =>
                  (e.result.score[i] = 0 <=> e.result.status = "kFeasible")
<1>1. e.result = Decode(p, e.order) /\ e.order \in Orders(p)
  BY DecodedIs DEF Evaluated
<1>2. /\ Scored(p, e.result.score)
      /\ \A i \in DOMAIN p.terms : p.terms[i] = "capacity_overflow" =>
             (e.result.score[i] = 0 <=> e.result.status = "kFeasible")
  BY <1>1, SearchableKnown, DecodeScored
<1>3. Len(p.terms) \in Nat /\ DOMAIN p.terms = 1..Len(p.terms)
  <2> DEFINE names == {"reuse", "total_peak", "max_peak", "capacity_overflow", "bank_cost"}
  <2>1. p.terms \in Seq(names)
    BY SearchableKnown DEF ObjectiveTyped
  <2> HIDE DEF names
  <2> QED
    BY <2>1, LenProperties
<1>4. e.result.score \in [1..Len(p.terms) -> Int]
  BY <1>2, <1>3, MaxUIntAssumption DEF Scored
<1> QED
  BY <1>2, <1>3, <1>4

\* Results are compared as scores are.
LEMMA ResultsCompare ==
    ASSUME NEW p \in Searchable, NEW e, NEW f, NEW g,
           Evaluated(p, e), Evaluated(p, f), Evaluated(p, g)
    PROVE  /\ ~Improves(e, e)
           /\ Improves(e, f) => ~Improves(f, e)
           /\ Improves(e, g) /\ ~Improves(f, g) => Improves(e, f)
<1> DEFINE n == Len(p.terms)
           x == e.result.score
           y == f.result.score
           z == g.result.score
<1>1. n \in Nat /\ x \in [1..n -> Int] /\ y \in [1..n -> Int] /\ z \in [1..n -> Int]
  BY ResultScored
<1> HIDE DEF n, x, y, z
<1>2. ~ScoreBefore(x, x) /\ ~(ScoreBefore(x, y) /\ ScoreBefore(y, x))
  BY <1>1, ScoresOrdered
<1>3. ScoreBefore(x, z) /\ ~ScoreBefore(y, z) => ScoreBefore(x, y)
  BY <1>1, ScoresBetween
<1> QED
  BY <1>2, <1>3 DEF Improves, x, y, z

\* With the capacity first, what is not worse than a fit is a fit.
LEMMA FitKept ==
    ASSUME NEW p \in Searchable, NEW e, NEW f, Evaluated(p, e), Evaluated(p, f),
           1 \in DOMAIN p.terms, p.terms[1] = "capacity_overflow",
           e.result.status = "kFeasible", ~Improves(e, f)
    PROVE  f.result.status = "kFeasible"
<1>1. e.result.score[1] = 0 /\ DOMAIN e.result.score = DOMAIN p.terms
  BY ResultScored DEF Scored
<1>2. f.result.score[1] \in 0..MaxUInt
  BY ResultScored DEF Scored
<1>3. f.result.score[1] # 0 => ScoreBefore(e.result.score, f.result.score)
  <2>1. \A j \in 1..(1 - 1) : FALSE
    OBVIOUS
  <2>2. f.result.score[1] # 0 => e.result.score[1] < f.result.score[1]
    BY <1>1, <1>2, MaxUIntAssumption
  <2> QED
    BY <1>1, <2>1, <2>2 DEF ScoreBefore
<1>4. f.result.score[1] = 0
  BY <1>3 DEF Improves
<1> QED
  BY <1>4, ResultScored

\* What the search holds, with every result evaluated.
LEMMA HeldEvaluated ==
    ASSUME IInv, Searching
    PROVE  /\ problem \in Searchable /\ options \in Options
           /\ Evaluated(problem, current) /\ Evaluated(problem, best)
           /\ Evaluated(problem, candidate)
           /\ ~Improves(candidate, best) /\ ~Improves(current, best)
  BY DEF IInv, PhaseInv, TypeOK, ResultsBelongToOrders, BestIsLeast, Evaluated

\* A step of the search leaves evaluated results, and a best one that is none
\* of them worse than and not worse than before.
Progress ==
    /\ Evaluated(problem, current') /\ Evaluated(problem, best') /\ Evaluated(problem, candidate')
    /\ ~Improves(candidate', best') /\ ~Improves(current', best')
    /\ Searching => ~Improves(best, best')

LEMMA KeptProgress ==
    ASSUME IInv, Searching, UNCHANGED <<current, best, candidate>>
    PROVE  Progress
  BY HeldEvaluated, ResultsCompare DEF Progress

LEMMA UpdatedBest ==
    ASSUME IInv, Searching, NEW e, Evaluated(problem, e), UpdateBest(e)
    PROVE  /\ Evaluated(problem, best')
           /\ ~Improves(e, best') /\ ~Improves(best, best') /\ ~Improves(current, best')
<1>1. /\ problem \in Searchable /\ Evaluated(problem, best) /\ Evaluated(problem, current)
      /\ ~Improves(current, best)
  BY HeldEvaluated
<1>2. CASE Improves(e, best)
  <2>1. best' = e
    BY <1>2 DEF UpdateBest
  <2> QED
    BY <1>1, <1>2, <2>1, ResultsCompare
<1>3. CASE ~Improves(e, best)
  <2>1. best' = best
    BY <1>3 DEF UpdateBest
  <2> QED
    BY <1>1, <1>3, <2>1, ResultsCompare
<1> QED
  BY <1>2, <1>3

LEMMA PerturbedProgress ==
    ASSUME IInv, Searching, LocalSearch, NEW divisor \in {8, 10},
           EvaluatePerturbed(best.order, divisor)
    PROVE  Progress
<1> DEFINE o == best.order
           moves == Max({2, Len(o) \div divisor})
<1>1. problem \in Searchable /\ options \in Options /\ o \in Orders(problem)
  BY HeldEvaluated DEF Evaluated
<1>2. moves \in Nat
  <2>1. Len(o) \in Nat
    <3>1. Arrangement(o, Representatives(problem))
      BY <1>1, SearchableKnown, OrdersArrange
    <3> QED
      BY <3>1, LenProperties DEF Arrangement
  <2> DEFINE k == Len(o) \div divisor
             T == {2, k}
             bound == 2 + k
  <2>2. k \in Nat
    <3> HIDE DEF o, moves
    <3>1. divisor \in Nat \ {0}
      OBVIOUS
    <3> QED
      BY <2>1, <3>1, DivMod
  <2> HIDE DEF k
  <2>3. bound \in Nat /\ T \in SUBSET (0..bound) /\ T # {}
    BY <2>2
  <2>4. moves = Max(T)
    BY DEF k
  <2>5. \A x \in T : x \in Nat
    BY <2>2
  <2> HIDE DEF T, bound, moves
  <2>6. Max(T) \in T
    BY <2>3, MaxNatural
  <2> QED
    BY <2>4, <2>5, <2>6
<1>3. PICK x \in Perturbed(o, moves) : candidate' = Evaluation(x)
  BY DEF EvaluatePerturbed
<1> HIDE DEF o, moves
<1>4. x \in Orders(problem)
  BY <1>1, <1>2, <1>3, PerturbedOrders
<1>5. Evaluated(problem, candidate')
  BY <1>3, <1>4, EvaluationEvaluated
<1>6. UpdateBest(candidate') /\ current' = candidate'
  BY DEF EvaluatePerturbed
<1>7. Evaluated(problem, best') /\ ~Improves(candidate', best') /\ ~Improves(best, best')
  BY <1>5, <1>6, UpdatedBest
<1> QED
  BY <1>5, <1>6, <1>7 DEF Progress

LEMMA StepProgress ==
    ASSUME IInv, Step
    PROVE  Progress
<1>1. Searching /\ LocalSearch
  BY DEF IInv, PhaseInv, Step
<1>2. /\ problem \in Searchable /\ options \in Options
      /\ Evaluated(problem, current) /\ Evaluated(problem, best)
      /\ ~Improves(current, best)
  BY <1>1, HeldEvaluated
<1>3. options.solver \in {"local_search", "pypto_structured_search"}
  BY <1>1, <1>2, OptionsAssumption DEF LocalSearch
<1>4. PICK x \in MovesFrom[problem][<<options.solver, current.order>>] : candidate' = Evaluation(x)
  BY DEF Step
<1>5. x \in Orders(problem)
  BY <1>2, <1>3, <1>4, MovesFromIs DEF Evaluated
<1>6. Evaluated(problem, candidate')
  BY <1>4, <1>5, EvaluationEvaluated
<1>7. CASE Improves(candidate', current) /\ current' = candidate' /\ UpdateBest(candidate')
  BY <1>1, <1>6, <1>7, UpdatedBest DEF Progress
<1>8. CASE ~Improves(candidate', current) /\ UNCHANGED <<current, best>>
  <2>1. ~Improves(candidate', best)
    <3>1. Improves(candidate', best) /\ ~Improves(current, best) => Improves(candidate', current)
      BY <1>2, <1>6, ResultsCompare
    <3> QED
      BY <1>2, <1>8, <3>1
  <2> QED
    BY <1>2, <1>6, <1>8, <2>1, ResultsCompare DEF Progress
<1> QED
  BY <1>7, <1>8 DEF Step

(***************************************************************************)
(* Hill climb                                                              *)
(***************************************************************************)
\* The position of a class in an order.
LEMMA PositionFound ==
    ASSUME NEW p \in Searchable, NEW o \in Orders(p), NEW c \in Classes(p)
    PROVE  PositionOf(o, c) \in 1..Len(o) /\ ClassOf(p, o[PositionOf(o, c)]) = c
<1>1. Known(p) /\ Arrangement(o, Representatives(p))
  BY SearchableKnown, OrdersArrange
<1>2. Min(c) \in c /\ Min(c) \in Representatives(p)
  BY <1>1, RepresentativeNames DEF Representatives
<1>3. DOMAIN o = 1..Len(o)
  BY <1>1, LenProperties DEF Arrangement
<1>4. \E i \in DOMAIN o : o[i] \in c
  BY <1>1, <1>2, <1>3 DEF Arrangement, Lists
<1>5. PositionOf(o, c) \in DOMAIN o /\ o[PositionOf(o, c)] \in c
  BY <1>4 DEF PositionOf
<1>6. \A b \in c : ClassOf(p, b) = c
  BY <1>1, ClassIsOfMember DEF Known
<1> QED
  BY <1>3, <1>5, <1>6

\* A proposal swaps two positions of classes without a pin.
LEMMA ProposalSwaps ==
    ASSUME NEW p \in Searchable, NEW e, e.order \in Orders(p), NEW o \in Proposals(p, e)
    PROVE  \E i, j \in 1..Len(e.order) :
               /\ o = Swap(e.order, i, j)
               /\ ~Pinned(p, ClassOf(p, e.order[i])) /\ ~Pinned(p, ClassOf(p, e.order[j]))
<1>1. PICK boundary \in HighWater(p, e) :
          \E c \in EarlierMovable(p, e.order, boundary) :
              \E d \in Levels(p, e.order, boundary) \ {c} :
                  o = Swap(e.order, PositionOf(e.order, c), PositionOf(e.order, d))
  BY DEF Proposals
<1>2. PICK c \in EarlierMovable(p, e.order, boundary) :
          \E d \in Levels(p, e.order, boundary) \ {c} :
              o = Swap(e.order, PositionOf(e.order, c), PositionOf(e.order, d))
  BY <1>1
<1>3. PICK d \in Levels(p, e.order, boundary) \ {c} :
          o = Swap(e.order, PositionOf(e.order, c), PositionOf(e.order, d))
  BY <1>2
<1>4. \A b : \A x \in EarlierMovable(p, e.order, b) : x \in Classes(p) /\ ~Pinned(p, x)
  BY DEF EarlierMovable, Conflicts
<1>5. c \in Classes(p) /\ ~Pinned(p, c)
  BY <1>4
<1>6. d \in Classes(p) /\ ~Pinned(p, d)
  BY <1>4 DEF Levels
<1> DEFINE i == PositionOf(e.order, c)
           j == PositionOf(e.order, d)
<1>7. /\ i \in 1..Len(e.order) /\ ClassOf(p, e.order[i]) = c
      /\ j \in 1..Len(e.order) /\ ClassOf(p, e.order[j]) = d
  BY <1>5, <1>6, PositionFound
<1>8. o = Swap(e.order, i, j)
  BY <1>3
<1> HIDE DEF i, j
<1> QED
  BY <1>5, <1>6, <1>7, <1>8

LEMMA ClimbProgress ==
    ASSUME IInv, Climb
    PROVE  Progress
<1>1. Searching /\ ~LocalSearch
  BY DEF IInv, PhaseInv, Climb, Climbing
<1>2. /\ problem \in Searchable
      /\ Evaluated(problem, current) /\ Evaluated(problem, best)
      /\ ~Improves(current, best)
  BY <1>1, HeldEvaluated
<1>3. PICK o \in Proposals(problem, current) : candidate' = Evaluation(o)
  BY DEF Climb
<1>4. o \in Orders(problem)
  <2>1. PICK i, j \in 1..Len(current.order) : o = Swap(current.order, i, j)
    BY <1>2, ProposalSwaps DEF Evaluated
  <2>2. Arrangement(current.order, Representatives(problem))
    BY <1>2, SearchableKnown, OrdersArrange DEF Evaluated
  <2>3. Arrangement(o, Representatives(problem))
    BY <2>1, <2>2, SwapArranges
  <2> QED
    BY <1>2, <2>3, SearchableKnown, OrdersArrange
<1>5. Evaluated(problem, candidate')
  BY <1>3, <1>4, EvaluationEvaluated
<1>6. CASE Accept
  BY <1>1, <1>5, <1>6, UpdatedBest DEF Accept, KeepBest, Progress
<1>7. CASE ~Improves(candidate', current) /\ Decline
  <2>1. ~Improves(candidate', best)
    <3>1. Improves(candidate', best) /\ ~Improves(current, best) => Improves(candidate', current)
      BY <1>2, <1>5, ResultsCompare
    <3> QED
      BY <1>2, <1>7, <3>1
  <2> QED
    BY <1>2, <1>5, <1>7, <2>1, ResultsCompare DEF Progress, Decline
<1> QED
  BY <1>6, <1>7 DEF Climb

\* The pinned classes of an order are in front of the others.
PinsInFront(p, o) ==
    \A i, j \in DOMAIN o : Pinned(p, ClassOf(p, o[j])) /\ i < j => Pinned(p, ClassOf(p, o[i]))

LEMMA SwapKeepsPins ==
    ASSUME NEW p, NEW o, PinsInFront(p, o), NEW i \in DOMAIN o, NEW j \in DOMAIN o,
           ~Pinned(p, ClassOf(p, o[i])), ~Pinned(p, ClassOf(p, o[j]))
    PROVE  PinsInFront(p, Swap(o, i, j))
<1> DEFINE x == Swap(o, i, j)
<1>1. DOMAIN x = DOMAIN o
  BY DEF Swap
<1>2. \A k \in DOMAIN o : x[k] = IF k = j THEN o[i] ELSE IF k = i THEN o[j] ELSE o[k]
  BY DEF Swap
<1> HIDE DEF x
<1>3. \A k \in DOMAIN o : Pinned(p, ClassOf(p, x[k])) <=> Pinned(p, ClassOf(p, o[k]))
  BY <1>2
<1>4. PinsInFront(p, x)
  BY <1>1, <1>3 DEF PinsInFront
<1> QED
  BY <1>4 DEF x

(***************************************************************************)
(* The seed                                                                *)
(***************************************************************************)
LEMMA SeedProgress ==
    ASSUME IInv, Seed
    PROVE  /\ Progress /\ problem \in Searchable
           /\ ~LocalSearch => PinsInFront(problem, current'.order)
<1>1. problem \in Searchable /\ options \in Options
  BY DEF Seed, IInv, TypeOK
<1>2. PICK o \in SeedsFor[problem][options.solver] :
          current' = Evaluation(o) /\ best' = current' /\ candidate' = current'
  BY DEF Seed
<1>3. o \in SeedOrders(problem, options.solver)
  BY <1>1, <1>2, SeedsForIs
<1>4. o \in Orders(problem)
  BY <1>3 DEF SeedOrders
<1>5. Evaluated(problem, current') /\ current'.order = o
  BY <1>2, <1>4, EvaluationEvaluated
<1>6. ~Improves(current', current')
  BY <1>1, <1>5, ResultsCompare
<1>7. ~Searching
  BY DEF Seed, IInv, PhaseInv, Searching
<1>8. ASSUME ~LocalSearch PROVE PinsInFront(problem, o)
  <2>1. \A i, j \in DOMAIN o : i < j =>
            ClimbBefore(problem, ClassOf(problem, o[i]), ClassOf(problem, o[j]))
    BY <1>3, <1>8 DEF SeedOrders, LocalSearch
  <2>2. \A i, j \in DOMAIN o : i < j /\ Pinned(problem, ClassOf(problem, o[j]))
            => Pinned(problem, ClassOf(problem, o[i]))
    <3> TAKE i, j \in DOMAIN o
    <3> DEFINE c == ClassOf(problem, o[i])
               d == ClassOf(problem, o[j])
    <3>1. i < j => ClimbBefore(problem, c, d)
      BY <2>1
    <3> HIDE DEF c, d
    <3>2. ClimbBefore(problem, c, d) => (Pinned(problem, d) => Pinned(problem, c))
      <4>1. CASE Pinned(problem, c) # Pinned(problem, d)
        BY <4>1, Zenon DEF ClimbBefore
      <4>2. CASE Pinned(problem, c) = Pinned(problem, d)
        BY <4>2, Zenon
      <4> QED
        BY <4>1, <4>2
    <3> QED
      BY <3>1, <3>2 DEF c, d
  <2> QED
    BY <2>2 DEF PinsInFront
<1> QED
  BY <1>1, <1>2, <1>5, <1>6, <1>7, <1>8 DEF Progress

(***************************************************************************)
(* The invariant                                                           *)
(***************************************************************************)
LEMMA NextInput ==
    ASSUME [Next]_vars
    PROVE  problem' = problem /\ options' = options
  BY DEF Next, vars, input, budget, Reject, Rejected, Seed, FirstRestart, Restart, Step, Kick,
         EndRestart, NoMoreRestarts, Finish, Stall, Climb, ClimbEnds, Done

\* Every action but four leaves what is evaluated alone.
LEMMA NextProgress ==
    ASSUME IInv, [Next]_vars, Searching'
    PROVE  problem \in Searchable /\ Progress
<1>1. CASE Seed
  BY <1>1, SeedProgress
<1>2. CASE Restart
  <2>1. Searching /\ LocalSearch
    BY <1>2 DEF IInv, PhaseInv, Restart, MayRestart
  <2> QED
    BY <1>2, <2>1, PerturbedProgress, HeldEvaluated DEF Restart
<1>3. CASE Kick
  <2>1. Searching /\ LocalSearch
    BY <1>3 DEF IInv, PhaseInv, Kick
  <2> QED
    BY <1>3, <2>1, PerturbedProgress, HeldEvaluated DEF Kick
<1>4. CASE Step
  <2>1. Searching
    BY <1>4 DEF IInv, PhaseInv, Step
  <2> QED
    BY <1>4, <2>1, StepProgress, HeldEvaluated
<1>5. CASE Climb
  <2>1. Searching
    BY <1>5 DEF IInv, PhaseInv, Climb, Climbing
  <2> QED
    BY <1>5, <2>1, ClimbProgress, HeldEvaluated
<1>6. CASE Reject
  <2>1. evaluated = 0 /\ evaluated' = evaluated
    BY <1>6 DEF Reject, Rejected, IInv, PhaseInv
  <2> QED
    BY <2>1 DEF Searching
<1>7. CASE FirstRestart \/ EndRestart \/ NoMoreRestarts \/ Stall \/ ClimbEnds \/ Done \/ UNCHANGED vars
  <2>1. UNCHANGED <<current, best, candidate, evaluated>>
    BY <1>7 DEF FirstRestart, EndRestart, NoMoreRestarts, Stall, ClimbEnds, Finish, Done, vars
  <2>2. Searching
    BY <2>1 DEF Searching
  <2> QED
    BY <2>1, <2>2, KeptProgress, HeldEvaluated
<1> QED
  BY <1>1, <1>2, <1>3, <1>4, <1>5, <1>6, <1>7 DEF Next

LEMMA NextPins ==
    ASSUME IInv, [Next]_vars
    PROVE  PinsStayInFront'
<1> SUFFICES ASSUME Searching', ~LocalSearch PROVE PinsInFront(problem, current'.order)
  BY NextInput DEF PinsStayInFront, PinsInFront, LocalSearch
<1>0. Searching => PinsInFront(problem, current.order)
  BY DEF IInv, PinsStayInFront, PinsInFront
<1>1. CASE Seed
  BY <1>1, SeedProgress
<1>2. CASE Climb
  <2>1. Searching
    BY <1>2 DEF IInv, PhaseInv, Climb, Climbing
  <2>2. problem \in Searchable /\ current.order \in Orders(problem)
    BY <2>1, HeldEvaluated DEF Evaluated
  <2>3. PICK o \in Proposals(problem, current) : candidate' = Evaluation(o)
    BY <1>2 DEF Climb
  <2>4. PICK i, j \in 1..Len(current.order) :
            /\ o = Swap(current.order, i, j)
            /\ ~Pinned(problem, ClassOf(problem, current.order[i]))
            /\ ~Pinned(problem, ClassOf(problem, current.order[j]))
    BY <2>2, ProposalSwaps
  <2>5. DOMAIN current.order = 1..Len(current.order)
    <3>1. Arrangement(current.order, Representatives(problem))
      BY <2>2, SearchableKnown, OrdersArrange
    <3> QED
      BY <3>1, LenProperties DEF Arrangement
  <2>6. PinsInFront(problem, o)
    <3>1. PinsInFront(problem, current.order)
      BY <1>0, <2>1
    <3> QED
      BY <2>4, <2>5, <3>1, SwapKeepsPins
  <2>7. current' = current \/ current' = Evaluation(o)
    BY <1>2, <2>3 DEF Climb, Accept, Decline
  <2> QED
    BY <1>0, <2>1, <2>6, <2>7 DEF Evaluation
<1>3. CASE Restart \/ Step \/ Kick
  BY <1>3 DEF IInv, PhaseInv, Restart, MayRestart, Step, Kick
<1>4. CASE \/ Reject \/ FirstRestart \/ EndRestart \/ NoMoreRestarts \/ Stall \/ ClimbEnds
           \/ Done \/ UNCHANGED vars
  <2>1. UNCHANGED <<current, evaluated>>
    BY <1>4 DEF Reject, Rejected, FirstRestart, EndRestart, NoMoreRestarts, Stall, ClimbEnds,
                Finish, Done, vars
  <2> QED
    BY <1>0, <2>1 DEF Searching
<1> QED
  BY <1>1, <1>2, <1>3, <1>4 DEF Next

\* A restart is given at least one evaluation and at most what is left, and the
\* last one all that is left.
LEMMA RestartBudgetBounds ==
    ASSUME options \in Options, evaluated \in Nat, restart \in Nat,
           restart < options.restarts, evaluated < options.maxIterations
    PROVE  /\ RestartBudget \in Nat /\ 1 <= RestartBudget
           /\ evaluated + RestartBudget <= options.maxIterations
           /\ restart + 1 = options.restarts =>
                  evaluated + RestartBudget = options.maxIterations
<1> DEFINE left == options.maxIterations - evaluated
           r == options.restarts - restart
           q == left \div r
           m == left % r
<1>1. options.maxIterations \in Nat /\ options.restarts \in Nat
  BY OptionsAssumption
<1>2. left \in Nat \ {0} /\ r \in Nat \ {0}
  BY <1>1
<1>3. evaluated + left = options.maxIterations /\ (restart + 1 = options.restarts => r = 1)
  BY <1>1
<1>4. RestartBudget = q + (IF m = 0 THEN 0 ELSE 1)
  BY DEF RestartBudget
<1> HIDE DEF left, r
<1>5. q \in Nat /\ m \in 0..(r - 1) /\ left = r * q + m
  BY <1>2, DivMod
<1> HIDE DEF q, m
<1>6. r * q >= q /\ (q = 0 => r * q = 0) /\ (r = 1 => r * q = q) /\ r * q \in Nat
  <2>1. r * q = q + (r - 1) * q
    BY <1>2, <1>5
  <2>2. (r - 1) * q \in Nat
    BY <1>2, <1>5
  <2> QED
    BY <1>2, <1>5, <2>1, <2>2
<1> DEFINE k == r * q
<1>7. k >= q /\ (q = 0 => k = 0) /\ (r = 1 => k = q) /\ k \in Nat /\ left = k + m
  BY <1>5, <1>6
<1> HIDE DEF k
<1>8. /\ RestartBudget \in Nat /\ 1 <= RestartBudget /\ RestartBudget <= left
      /\ r = 1 => RestartBudget = left
  BY <1>2, <1>4, <1>5, <1>7
<1> QED
  BY <1>2, <1>3, <1>8

\* The counters of the loops.
CountersOK ==
    /\ phase \in {"start", "restart", "search", "kick", "climb", "done"}
    /\ evaluated \in Nat /\ attempt \in Nat /\ stagnation \in Nat
    /\ restart \in 0..options.restarts /\ restartEnd \in Nat

LEMMA NextCounters ==
    ASSUME IInv, [Next]_vars
    PROVE  CountersOK' /\ BudgetIsSplit' /\ BudgetIsSpent' /\ PhaseInv'
<1> DEFINE M == options.maxIterations
           R == options.restarts
<1>1. M \in Nat /\ R \in Nat /\ options' = options /\ problem' = problem
  BY NextInput, OptionsAssumption DEF IInv, TypeOK
<1>2. CountersOK /\ BudgetIsSplit /\ BudgetIsSpent /\ PhaseInv
  BY DEF IInv, TypeOK, CountersOK
<1>3. CASE Reject
  BY <1>1, <1>2, <1>3
     DEF CountersOK, BudgetIsSplit, BudgetIsSpent, PhaseInv, Searching, LocalSearch,
         Reject, Rejected, budget
<1>4. CASE Seed
  BY <1>1, <1>2, <1>4
     DEF CountersOK, BudgetIsSplit, BudgetIsSpent, PhaseInv, Searching, LocalSearch,
         Seed, SeedSuffices, budget
<1>5. CASE FirstRestart
  <2>1. /\ RestartBudget \in Nat /\ 1 <= RestartBudget
        /\ evaluated + RestartBudget <= M
        /\ restart + 1 = R => evaluated + RestartBudget = M
    BY <1>2, <1>5, RestartBudgetBounds DEF FirstRestart, MayRestart, CountersOK, IInv, TypeOK
  <2> QED
    BY <1>1, <1>2, <1>5, <2>1
       DEF CountersOK, BudgetIsSplit, BudgetIsSpent, PhaseInv, Searching, LocalSearch,
           FirstRestart, MayRestart
<1>6. CASE Restart
  <2>1. /\ RestartBudget \in Nat /\ 1 <= RestartBudget
        /\ evaluated + RestartBudget <= M
        /\ restart + 1 = R => evaluated + RestartBudget = M
    BY <1>2, <1>6, RestartBudgetBounds DEF Restart, MayRestart, CountersOK, IInv, TypeOK
  <2>2. evaluated' = evaluated + 1
    BY <1>6 DEF Restart, EvaluatePerturbed
  <2> QED
    BY <1>1, <1>2, <1>6, <2>1, <2>2
       DEF CountersOK, BudgetIsSplit, BudgetIsSpent, PhaseInv, Searching, LocalSearch,
           Restart, MayRestart
<1>7. CASE Step
  <2>1. stagnation' \in Nat
    BY <1>2, <1>7 DEF Step, CountersOK
  <2>2. \/ phase' = "search"
        \/ phase' = "kick" /\ evaluated' < restartEnd
    BY <1>7 DEF Step, KickIsDue
  <2> QED
    BY <1>1, <1>2, <1>7, <2>1, <2>2
       DEF CountersOK, BudgetIsSplit, BudgetIsSpent, PhaseInv, Searching, LocalSearch, Step
<1>8. CASE Kick
  <2>1. evaluated' = evaluated + 1
    BY <1>8 DEF Kick, EvaluatePerturbed
  <2> QED
    BY <1>1, <1>2, <1>8, <2>1
       DEF CountersOK, BudgetIsSplit, BudgetIsSpent, PhaseInv, Searching, LocalSearch, Kick
<1>9. CASE EndRestart
  BY <1>1, <1>2, <1>9
     DEF CountersOK, BudgetIsSplit, BudgetIsSpent, PhaseInv, Searching, LocalSearch, EndRestart
<1>10. CASE NoMoreRestarts
  BY <1>1, <1>2, <1>10
     DEF CountersOK, BudgetIsSplit, BudgetIsSpent, PhaseInv, Searching, LocalSearch,
         NoMoreRestarts, MayRestart, Finish, budget
<1>11. CASE Stall
  BY <1>1, <1>2, <1>11
     DEF CountersOK, BudgetIsSplit, BudgetIsSpent, PhaseInv, Searching, LocalSearch,
         Stall, Climbing, Attempted, budget
<1>12. CASE Climb
  BY <1>1, <1>2, <1>12
     DEF CountersOK, BudgetIsSplit, BudgetIsSpent, PhaseInv, Searching, LocalSearch,
         Climb, Climbing, Attempted, budget
<1>13. CASE ClimbEnds
  BY <1>1, <1>2, <1>13
     DEF CountersOK, BudgetIsSplit, BudgetIsSpent, PhaseInv, Searching, LocalSearch,
         ClimbEnds, Finish, budget
<1>14. CASE Done \/ UNCHANGED vars
  BY <1>1, <1>2, <1>14
     DEF CountersOK, BudgetIsSplit, BudgetIsSpent, PhaseInv, Searching, LocalSearch,
         Done, vars, budget
<1> QED
  BY <1>3, <1>4, <1>5, <1>6, <1>7, <1>8, <1>9, <1>10, <1>11, <1>12, <1>13, <1>14 DEF Next

LEMMA NextInv ==
    ASSUME IInv, [Next]_vars
    PROVE  IInv'
<1>1. problem' = problem /\ options' = options
  BY NextInput
<1>2. CountersOK' /\ BudgetIsSplit' /\ BudgetIsSpent' /\ PhaseInv' /\ PinsStayInFront'
  BY NextCounters, NextPins
<1>3. Searching' => Progress
  BY NextProgress
<1>4. TypeOK'
  BY <1>1, <1>2, <1>3 DEF IInv, TypeOK, CountersOK, Progress, Evaluated
<1>5. ResultsBelongToOrders' /\ BestIsLeast'
  BY <1>1, <1>3 DEF ResultsBelongToOrders, BestIsLeast, Progress, Evaluated
<1> QED
  BY <1>2, <1>4, <1>5 DEF IInv

\* IInv holds of every run of the three solvers: no move loses or repeats a
\* class, a result belongs to its order, nothing evaluated is better than the
\* best result, the hill climb leaves the pinned classes in front, and restarts
\* and kicks consume one budget of evaluations, all of it.
THEOREM Safety == Spec => []IInv
<1>1. Init => IInv
  <2> SUFFICES ASSUME Init PROVE IInv
    OBVIOUS
  <2>1. options \in Options /\ options.restarts \in Nat /\ options.maxIterations \in Nat
    BY OptionsAssumption DEF Init
  <2>2. TypeOK
    BY <2>1 DEF Init, TypeOK, Searching
  <2> QED
    BY <2>1, <2>2
       DEF Init, IInv, ResultsBelongToOrders, BestIsLeast, PinsStayInFront, BudgetIsSplit,
           BudgetIsSpent, PhaseInv, Searching
<1>2. IInv /\ [Next]_vars => IInv'
  BY NextInv
<1> QED
  BY <1>1, <1>2, PTL DEF Spec

\* Restarts, kicks and accepted worse moves never cost the best result, and
\* never a fit once the objective puts the capacity first.
THEOREM KeepsBest == Spec => BestIsKept
<1> DEFINE Keeps == Searching =>
                        /\ ~Improves(best, best')
                        /\ CapacityFirst /\ best.result.status = "kFeasible"
                               => best'.result.status = "kFeasible"
<1>1. ASSUME IInv, [Next]_vars PROVE Keeps \/ UNCHANGED vars
  <2> SUFFICES ASSUME Searching PROVE Keeps \/ UNCHANGED vars
    OBVIOUS
  <2>1. Searching' \/ UNCHANGED vars
    BY <1>1 DEF Searching, IInv, TypeOK, Next, vars, Reject, Rejected, Seed, FirstRestart, Restart,
                EvaluatePerturbed, Step, Kick, EndRestart, NoMoreRestarts, Finish, Stall, Climb,
                ClimbEnds, Done
  <2>2. CASE Searching'
    <3>1. /\ problem \in Searchable /\ ~Improves(best, best')
          /\ Evaluated(problem, best) /\ Evaluated(problem, best')
      BY <1>1, <2>2, NextProgress, HeldEvaluated DEF Progress
    <3>2. CapacityFirst /\ best.result.status = "kFeasible" => best'.result.status = "kFeasible"
      BY <3>1, FitKept DEF CapacityFirst
    <3> QED
      BY <3>1, <3>2
  <2> QED
    BY <2>1, <2>2
<1>2. BestIsKept <=> [][Keeps]_vars
  BY DEF BestIsKept
<1> HIDE DEF Keeps
<1> QED
  BY <1>1, <1>2, Safety, PTL DEF Spec
=============================================================================
