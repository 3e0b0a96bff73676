----------------------- MODULE CanonicalSearchProofs -----------------------
(***************************************************************************)
(* RunCanonicalExactSearch, for every problem the solvers pass on, every   *)
(* limit and every seed.                                                   *)
(*                                                                         *)
(* Safety is the bookkeeping of undo and redo.  The cost a call carries is *)
(* a saturating sum that grew one neighbour at a time; it has to be the    *)
(* sum over all pairs.                                                     *)
(*                                                                         *)
(* Optimum is what the search is for.  It rests on three arguments: the    *)
(* search scores a placement as EvaluateObjective would; whatever class    *)
(* lies on nothing can move down without meeting anything new, so some     *)
(* canonical placement is as good as any other; and no canonical placement *)
(* is lost, for it is matched by the incumbent or is still reached by a    *)
(* branch that a call in progress has to take.                             *)
(*                                                                         *)
(* Exactness is what callers rely on.  A placement of the whole problem is *)
(* one of every pool; its reuse cost and its peaks are sums over the pools,*)
(* and the terms come in an order in which what is best in every pool is   *)
(* best as a whole, as long as a sum of costs that is the same has the same*)
(* summands.  A saturated sum need not: CostsAddUp is the condition.       *)
(***************************************************************************)
EXTENDS CanonicalSearch, DsaModelProofs, SequenceTheorems

(***************************************************************************)
(* The cost and the peak of a placement that grows by one class            *)
(***************************************************************************)
\* A placement of some classes at words.
Partial(p, off) == DOMAIN off \subseteq Classes(p) /\ off \in [DOMAIN off -> 0..MaxUInt]

LEMMA Extended ==
    ASSUME NEW p, NEW off, Partial(p, off), NEW c \in Classes(p), NEW at \in 0..MaxUInt
    PROVE  Partial(p, Extend(off, c, at))
  BY DEF Partial, Extend

\* Two nodes touch whichever is named first.
LEMMA TouchesSymmetric ==
    ASSUME NEW s, NEW off, NEW c, NEW d
    PROVE  Touches(s, off, c, off[c], d) <=> Touches(s, off, d, off[d], c)
  BY OverlapSymmetric DEF Touches

\* The pairs that pay in a placement.
Pays(s, off) ==
    {edge \in DOMAIN s.soft :
        /\ Min(edge[1]) < Min(edge[2]) /\ {edge[1], edge[2]} \subseteq DOMAIN off
        /\ Touches(s, off, edge[1], off[edge[1]], edge[2])}

LEMMA PoolCostSums ==
    ASSUME NEW off
    PROVE  PoolReuseCost(space, off) = SumOver(space.soft, Pays(space, off))
<1> DEFINE S == Pays(space, off)
           A(g) == [s \in SUBSET S |->
                       IF s = {} THEN 0
                       ELSE SaturatingAdd(space.soft[CHOOSE x \in s : TRUE],
                                          g[s \ {CHOOSE x \in s : TRUE}])]
<1>1. PoolReuseCost(space, off) = (CHOOSE g : g = A(g))[S]
  BY DEF PoolReuseCost, Pays, SaturatingSum, MapThenFoldSet
<1>2. SumOver(space.soft, S) = (CHOOSE g : g = A(g))[S]
  BY DEF SumOver, Summed
<1> QED
  BY <1>1, <1>2

\* A pair that pays after c is placed and did not before is c and a neighbour
\* c pays for.
PairOf(c, d) == IF Min(d) < Min(c) THEN <<d, c>> ELSE <<c, d>>

LEMMA NewPairs ==
    ASSUME NEW p, Fixed(p), NEW s, SpaceTyped(p, s), NEW off, Partial(p, off),
           NEW c \in Classes(p) \ DOMAIN off, NEW at \in 0..MaxUInt
    PROVE  LET later == Extend(off, c, at)
               payers == PaysFor(s, off, c, at)
           IN  /\ Pays(s, off) \subseteq Pays(s, later)
               /\ Pays(s, later) \ Pays(s, off) = {PairOf(c, d) : d \in payers}
               /\ \A d \in payers : s.soft[PairOf(c, d)] = s.soft[<<c, d>>]
               /\ \A d, e \in payers : PairOf(c, d) = PairOf(c, e) => d = e
<1> DEFINE later == Extend(off, c, at)
           payers == PaysFor(s, off, c, at)
<1>1. /\ DOMAIN later = DOMAIN off \cup {c} /\ later[c] = at
      /\ \A d \in DOMAIN off : later[d] = off[d] /\ d # c /\ d \in Classes(p)
  <2>1. \A d \in DOMAIN off : d # c /\ d \in Classes(p)
    BY DEF Partial
  <2>2. /\ DOMAIN later = DOMAIN off \cup {c} /\ later[c] = at
        /\ \A d \in DOMAIN off : d # c => later[d] = off[d]
    BY DEF Extend
  <2> HIDE DEF later
  <2> QED
    BY <2>1, <2>2
<1> HIDE DEF later
<1>2. \A d, e \in DOMAIN off : Touches(s, later, d, later[d], e) <=> Touches(s, off, d, off[d], e)
  BY <1>1 DEF Touches
<1>3. \A d \in DOMAIN off :
          /\ Touches(s, later, c, later[c], d) <=> Touches(s, off, c, at, d)
          /\ Touches(s, later, d, later[d], c) <=> Touches(s, off, c, at, d)
  <2>1. \A d \in DOMAIN off : Touches(s, later, c, later[c], d) <=> Touches(s, off, c, at, d)
    BY <1>1 DEF Touches
  <2> QED
    BY <2>1, TouchesSymmetric
<1>4. Pays(s, off) \subseteq Pays(s, later)
  BY <1>1, <1>2 DEF Pays
<1>5. \A d \in payers : /\ d \in DOMAIN off /\ d # c /\ d \in Classes(p)
                        /\ <<c, d>> \in DOMAIN s.soft /\ <<d, c>> \in DOMAIN s.soft
                        /\ s.soft[<<d, c>>] = s.soft[<<c, d>>]
                        /\ Touches(s, off, c, at, d)
  BY <1>1 DEF PaysFor, SpaceTyped
<1>6. \A d \in payers : Min(d) \in Nat /\ Min(c) \in Nat /\ Min(d) # Min(c)
  BY <1>5, NodesTyped, NodesNamed
<1> HIDE DEF payers
<1>7. ASSUME NEW d \in payers PROVE PairOf(c, d) \in Pays(s, later) \ Pays(s, off)
  <2>1. CASE Min(d) < Min(c)
    <3>1. PairOf(c, d) = <<d, c>>
      BY <2>1 DEF PairOf
    <3>2. <<d, c>> \in Pays(s, later) /\ <<d, c>> \notin Pays(s, off)
      BY <1>1, <1>3, <1>5, <2>1 DEF Pays
    <3> QED
      BY <3>1, <3>2
  <2>2. CASE Min(c) < Min(d)
    <3>1. PairOf(c, d) = <<c, d>>
      BY <1>6, <2>2 DEF PairOf
    <3>2. <<c, d>> \in Pays(s, later) /\ <<c, d>> \notin Pays(s, off)
      BY <1>1, <1>3, <1>5, <2>2 DEF Pays
    <3> QED
      BY <3>1, <3>2
  <2> QED
    BY <1>6, <2>1, <2>2
<1>8. ASSUME NEW edge \in Pays(s, later), edge \notin Pays(s, off)
      PROVE  \E d \in payers : edge = PairOf(c, d)
  <2>1. PICK a \in Classes(p), b \in Classes(p) : edge = <<a, b>>
    BY DEF Pays, SpaceTyped
  <2>2. /\ <<a, b>> \in DOMAIN s.soft /\ Min(a) < Min(b) /\ a \in DOMAIN later /\ b \in DOMAIN later
        /\ Touches(s, later, a, later[a], b) /\ a # b /\ <<b, a>> \in DOMAIN s.soft
    BY <2>1 DEF Pays, SpaceTyped
  <2>3. ~({a, b} \subseteq DOMAIN off)
    BY <1>2, <1>8, <2>1, <2>2 DEF Pays
  <2>4. CASE a = c
    <3>1. b \in DOMAIN off /\ b \in payers
      BY <1>1, <1>3, <2>2, <2>4 DEF payers, PaysFor
    <3>2. ~(Min(b) < Min(c))
      BY <1>6, <2>2, <2>4, <3>1
    <3> QED
      BY <2>1, <2>4, <3>1, <3>2 DEF PairOf
  <2>5. CASE a # c
    <3>1. b = c /\ a \in DOMAIN off
      BY <1>1, <2>2, <2>3, <2>5
    <3>2. a \in payers
      BY <1>3, <2>2, <3>1 DEF payers, PaysFor
    <3> QED
      BY <2>1, <2>2, <3>1, <3>2 DEF PairOf
  <2> QED
    BY <2>4, <2>5
<1>9. Pays(s, later) \ Pays(s, off) = {PairOf(c, d) : d \in payers}
  BY <1>7, <1>8
<1>10. \A d \in payers : s.soft[PairOf(c, d)] = s.soft[<<c, d>>]
  BY <1>5 DEF PairOf
<1>11. \A d, e \in payers : PairOf(c, d) = PairOf(c, e) => d = e
  BY <1>5 DEF PairOf
<1> QED
  BY <1>4, <1>9, <1>10, <1>11 DEF later, payers

\* IncrementalReuseCost: what the sum over all pairs grows by.
LEMMA CostGrows ==
    ASSUME Fixed(problem), SpaceTyped(problem, space), NEW off, Partial(problem, off),
           NEW c \in Classes(problem) \ DOMAIN off, NEW at \in 0..MaxUInt
    PROVE  PoolReuseCost(space, Extend(off, c, at)) =
               SaturatingAdd(PoolReuseCost(space, off), IncrementalReuseCost(space, off, c, at))
<1> DEFINE later == Extend(off, c, at)
           payers == PaysFor(space, off, c, at)
           old == Pays(space, off)
           new == Pays(space, later) \ old
           w == [d \in payers |-> space.soft[<<c, d>>]]
           h == [d \in payers |-> PairOf(c, d)]
           all == DOMAIN space.soft
<1>1. /\ old \subseteq Pays(space, later) /\ new = {PairOf(c, d) : d \in payers}
      /\ \A d \in payers : space.soft[PairOf(c, d)] = space.soft[<<c, d>>]
      /\ \A d, e \in payers : PairOf(c, d) = PairOf(c, e) => d = e
  BY NewPairs
<1>2. IsFiniteSet(all) /\ InWordsOver(space.soft, all)
  BY DEF SpaceTyped, InWordsOver
<1>3. old \in SUBSET all /\ new \in SUBSET all /\ old \cap new = {} /\ Pays(space, later) = old \cup new
  BY <1>1 DEF Pays
<1>4. IsFiniteSet(payers)
  <2>1. payers \subseteq Classes(problem)
    BY DEF PaysFor, Partial
  <2>2. IsFiniteSet(Classes(problem))
    BY FixedKnown, ClassesFinite
  <2> QED
    BY <2>1, <2>2, FS_Subset
<1>5. InWordsOver(w, payers)
  BY DEF InWordsOver, PaysFor, SpaceTyped
<1>6. Renames(h, payers, new, w, space.soft)
  BY <1>1 DEF Renames
<1>7. IncrementalReuseCost(space, off, c, at) = SumOver(w, payers)
  BY IncrementalCostSums
<1>8. PoolReuseCost(space, off) = SumOver(space.soft, old) /\ PoolReuseCost(space, later) = SumOver(space.soft, Pays(space, later))
  BY PoolCostSums
<1> HIDE DEF later, payers, old, new, w, h, all
<1>9. SumOver(w, payers) = SumOver(space.soft, new)
  <2>1. IsFiniteSet(new)
    BY <1>2, <1>3, FS_Subset
  <2> QED
    BY <1>4, <1>5, <1>6, <2>1, SumRenamed
<1>10. SumOver(space.soft, old \cup new) = SaturatingAdd(SumOver(space.soft, old), SumOver(space.soft, new))
  BY <1>2, <1>3, SumJoins
<1> QED
  BY <1>3, <1>7, <1>8, <1>9, <1>10 DEF later

\* A placement of a pool that fits, class by class.
Fits(p, s, off) == \A c \in DOMAIN off : FitsReuseNodeAt(p, s, off, c, off[c])

\* What fits next to a placement still fits when other classes are gone.
LEMMA FitsFewer ==
    ASSUME NEW p, NEW s, NEW off, NEW fewer, DOMAIN fewer \subseteq DOMAIN off,
           \A d \in DOMAIN fewer : fewer[d] = off[d], Fits(p, s, off)
    PROVE  Fits(p, s, fewer)
<1> SUFFICES ASSUME NEW c \in DOMAIN fewer PROVE FitsReuseNodeAt(p, s, fewer, c, fewer[c])
  BY DEF Fits
<1>1. FitsReuseNodeAt(p, s, off, c, fewer[c])
  BY DEF Fits
<1> QED
  BY <1>1 DEF FitsReuseNodeAt, Touches

\* A class that fits next to a placement that fits.
LEMMA FitsOneMore ==
    ASSUME NEW p, NEW s, SpaceTyped(p, s), NEW off, Partial(p, off), Fits(p, s, off),
           NEW c \in Classes(p) \ DOMAIN off, NEW at \in 0..MaxUInt,
           FitsReuseNodeAt(p, s, off, c, at)
    PROVE  Fits(p, s, Extend(off, c, at))
<1> DEFINE later == Extend(off, c, at)
<1>1. /\ DOMAIN later = DOMAIN off \cup {c} /\ later[c] = at
      /\ \A d \in DOMAIN off : d # c => later[d] = off[d]
  BY DEF Extend
<1>2. \A d \in DOMAIN off : d # c
  OBVIOUS
<1> HIDE DEF later
<1>3. FitsReuseNodeAt(p, s, later, c, later[c])
  <2>1. <<c, c>> \notin s.hard
    BY DEF SpaceTyped
  <2>2. \A d \in DOMAIN later : <<c, d>> \in s.hard => ~Touches(s, later, c, at, d)
    BY <1>1, <1>2, <2>1 DEF FitsReuseNodeAt, Touches
  <2> QED
    BY <1>1, <2>2 DEF FitsReuseNodeAt
<1>4. ASSUME NEW d \in DOMAIN off PROVE FitsReuseNodeAt(p, s, later, d, later[d])
  <2>1. FitsReuseNodeAt(p, s, off, d, later[d])
    BY <1>1, <1>2 DEF Fits
  <2>2. ASSUME NEW e \in DOMAIN later, <<d, e>> \in s.hard
        PROVE  ~Touches(s, later, d, later[d], e)
    <3>1. CASE e = c
      <4>1. <<c, d>> \in s.hard
        BY <2>2, <3>1 DEF SpaceTyped
      <4>2. ~Touches(s, later, c, later[c], d)
        BY <1>1, <1>2, <4>1 DEF FitsReuseNodeAt, Touches
      <4> QED
        BY <3>1, <4>2, TouchesSymmetric
    <3>2. CASE e # c
      BY <1>1, <1>2, <2>1, <2>2, <3>2 DEF FitsReuseNodeAt, Touches
    <3> QED
      BY <3>1, <3>2
  <2> QED
    BY <2>1, <2>2 DEF FitsReuseNodeAt
<1> QED
  BY <1>1, <1>3, <1>4 DEF Fits, later

\* The ends of a pool's reserved ranges and of what is placed in it.
Ends(p, s, q, off) ==
    {0} \cup {r[2] : r \in p.reserved[q]} \cup {off[c] + s.size[c] : c \in DOMAIN off}

LEMMA EndsTyped ==
    ASSUME NEW p, ProblemTyped(p), NEW s, SpaceTyped(p, s), NEW q \in p.pools,
           NEW off, Partial(p, off), Fits(p, s, off)
    PROVE  Ends(p, s, q, off) \in SUBSET (0..MaxUInt) /\ Ends(p, s, q, off) # {}
<1>1. \A r \in p.reserved[q] : r[2] \in 0..MaxUInt
  BY DEF ProblemTyped
<1>2. ASSUME NEW c \in DOMAIN off PROVE off[c] + s.size[c] \in 0..MaxUInt
  <2>1. off[c] \in 0..MaxUInt /\ s.size[c] \in 0..MaxUInt
    BY DEF Partial, SpaceTyped
  <2>2. ~(off[c] + s.size[c] > MaxUInt)
    BY DEF Fits, FitsReuseNodeAt, AddOverflows
  <2> QED
    BY <2>1, <2>2, MaxUIntAssumption
<1>3. 0 \in 0..MaxUInt
  BY MaxUIntAssumption
<1> QED
  BY <1>1, <1>2, <1>3 DEF Ends

\* The peak a call carries: what the largest end grows to.
LEMMA PeakGrows ==
    ASSUME Fixed(problem), SpaceTyped(problem, space), NEW q \in problem.pools,
           NEW off, Partial(problem, off), Fits(problem, space, off),
           NEW c \in Classes(problem) \ DOMAIN off, NEW at \in 0..MaxUInt,
           FitsReuseNodeAt(problem, space, off, c, at)
    PROVE  /\ PeakOf(problem, space, q, off) \in 0..MaxUInt
           /\ PeakOf(problem, space, q, Extend(off, c, at)) = Max({PeakOf(problem, space, q, off), at + space.size[c]})
<1> DEFINE later == Extend(off, c, at)
           T == Ends(problem, space, q, off)
           U == Ends(problem, space, q, later)
           v == at + space.size[c]
<1>1. PeakOf(problem, space, q, off) = Max(T) /\ PeakOf(problem, space, q, later) = Max(U)
  BY DEF PeakOf, Ends
<1>2. T \in SUBSET (0..MaxUInt) /\ T # {}
  BY EndsTyped DEF Fixed
<1>3. v \in 0..MaxUInt
  <2>1. space.size[c] \in 0..MaxUInt
    BY DEF SpaceTyped
  <2>2. ~(at + space.size[c] > MaxUInt)
    BY DEF FitsReuseNodeAt, AddOverflows
  <2> QED
    BY <2>1, <2>2, MaxUIntAssumption
<1>4. U = T \cup {v}
  <2>1. /\ DOMAIN later = DOMAIN off \cup {c} /\ later[c] = at
        /\ \A d \in DOMAIN off : d # c => later[d] = off[d]
    BY DEF Extend
  <2>2. \A d \in DOMAIN off : d # c
    OBVIOUS
  <2> HIDE DEF later
  <2> QED
    BY <2>1, <2>2 DEF Ends
<1> HIDE DEF later, T, U, v
<1>5. Max(T) \in 0..MaxUInt /\ Max(T \cup {v}) = Max({Max(T), v})
  <2>1. MaxUInt \in Nat
    BY MaxUIntAssumption
  <2>2. Max(T) \in 0..MaxUInt
    BY <1>2, <1>3, <2>1, MaxWith
  <2>3. Max(T \cup {v}) = Max({Max(T), v})
    BY <1>2, <1>3, <2>1, MaxWith
  <2> QED
    BY <2>2, <2>3
<1>6. /\ PeakOf(problem, space, q, off) \in 0..MaxUInt
      /\ PeakOf(problem, space, q, later) = Max({PeakOf(problem, space, q, off), v})
  BY <1>1, <1>4, <1>5
<1> QED
  BY <1>6 DEF later, v

\* The cost and the peak of a placement are words, and so is its score.
LEMMA ScoreTyped ==
    ASSUME Fixed(problem), SpaceTyped(problem, space), NEW q \in problem.pools,
           NEW off, Partial(problem, off), Fits(problem, space, off)
    PROVE  /\ PoolReuseCost(space, off) \in 0..MaxUInt /\ PeakOf(problem, space, q, off) \in 0..MaxUInt
           /\ PoolScore(problem, PoolReuseCost(space, off), PeakOf(problem, space, q, off)) \in Scores
<1>1. PoolReuseCost(space, off) \in 0..MaxUInt
  <2> DEFINE all == DOMAIN space.soft
             S == Pays(space, off)
  <2>1. IsFiniteSet(all) /\ InWordsOver(space.soft, all) /\ S \in SUBSET all
    BY DEF SpaceTyped, InWordsOver, Pays
  <2>2. PoolReuseCost(space, off) = SumOver(space.soft, S)
    BY PoolCostSums
  <2> HIDE DEF all, S
  <2> QED
    BY <2>1, <2>2, SumUnfolds
<1>2. PeakOf(problem, space, q, off) \in 0..MaxUInt
  <2> DEFINE T == Ends(problem, space, q, off)
  <2>1. T \in SUBSET (0..MaxUInt) /\ T # {}
    BY EndsTyped DEF Fixed
  <2>2. PeakOf(problem, space, q, off) = Max(T)
    BY DEF PeakOf, Ends
  <2> HIDE DEF T
  <2> QED
    BY <2>1, <2>2, MaxNatural, MaxUIntAssumption
<1>3. 0 \in 0..MaxUInt
  BY MaxUIntAssumption
<1> QED
  BY <1>1, <1>2, <1>3 DEF PoolScore, Scores

(***************************************************************************)
(* A seed passes the tests of the search (PoolCanonicalSearch's            *)
(* constructor): a placement the validator accepts fits in every pool.     *)
(***************************************************************************)
LEMMA SeedFits ==
    ASSUME NEW p, Fixed(p), NEW s, SpaceTyped(p, s), NEW q,
           NEW sol, ValidSolution(p, sol), \A b \in p.buffers : sol[b].offset \in 0..MaxUInt
    PROVE  /\ Partial(p, SeedPlacement(s, q, sol))
           /\ Fits(p, s, SeedPlacement(s, q, sol))
<1> DEFINE off == SeedPlacement(s, q, sol)
<1>1. /\ DOMAIN off = NodesOf(s, q)
      /\ \A c \in NodesOf(s, q) : off[c] = sol[Min(c)].offset
      /\ off \in [DOMAIN off -> {sol[Min(c)].offset : c \in NodesOf(s, q)}]
  BY DEF SeedPlacement
<1>2. \A c \in NodesOf(s, q) : c \in Classes(p) /\ s.pool[c] = q /\ PoolOf(p, c) = q
  BY DEF NodesOf, SpaceTyped
<1>3. \A c \in NodesOf(s, q) : sol[Min(c)].offset \in 0..MaxUInt
  BY <1>2, NodesTyped
<1> HIDE DEF off
<1>4. Partial(p, off)
  BY <1>1, <1>2, <1>3 DEF Partial
<1>5. ASSUME NEW c \in NodesOf(s, q) PROVE FitsReuseNodeAt(p, s, off, c, off[c])
  <2>1. c \in Classes(p) /\ s.size[c] = ClassSize(p, c) /\ s.pool[c] = PoolOf(p, c)
    BY <1>2 DEF SpaceTyped
  <2>2. PICK m \in c : ClassSize(p, c) = p.size[m]
    <3>1. c # {} /\ c \in SUBSET p.buffers /\ ProblemTyped(p)
      BY <2>1, NodesTyped DEF Fixed
    <3> QED
      BY <3>1, ClassSizeLargest
  <2>3. m \in p.buffers /\ sol[m] = sol[Min(c)] /\ sol[m].pool = s.pool[c]
    BY <2>1, <2>2, SeedOfNode
  <2>4. off[c] = sol[m].offset /\ s.size[c] = p.size[m]
    BY <1>1, <2>1, <2>2, <2>3
  <2>5. WellPlaced(p, sol, m)
    BY <2>3 DEF ValidSolution
  <2>6. /\ ~AddOverflows(off[c], s.size[c])
        /\ s.pool[c] \in DOMAIN p.capacity => off[c] + s.size[c] <= p.capacity[s.pool[c]]
        /\ ~OverlapsReserved(p, s.pool[c], off[c], s.size[c])
    BY <2>3, <2>4, <2>5 DEF WellPlaced
  <2>7. ASSUME NEW d \in DOMAIN off, <<c, d>> \in s.hard PROVE ~Touches(s, off, c, off[c], d)
    <3>1. d \in Classes(p) /\ c # d /\ Blocks(p, c, d) /\ s.size[d] = ClassSize(p, d)
      BY <1>1, <1>2, <2>1, <2>7 DEF SpaceTyped
    <3>2. off[d] = sol[Min(d)].offset /\ off[c] = sol[Min(c)].offset
      BY <1>1
    <3> QED
      BY <2>1, <3>1, <3>2, BlockersApart DEF Touches
  <2> QED
    BY <2>6, <2>7 DEF FitsReuseNodeAt
<1>6. Fits(p, s, off)
  BY <1>1, <1>5 DEF Fits
<1> QED
  BY <1>4, <1>6 DEF off

(***************************************************************************)
(* The branches of a call                                                  *)
(***************************************************************************)
LEMMA IncrementalCostTyped ==
    ASSUME NEW p, Fixed(p), NEW s, SpaceTyped(p, s), NEW off, Partial(p, off), NEW c, NEW at
    PROVE  IncrementalReuseCost(s, off, c, at) \in 0..MaxUInt
<1> DEFINE S == PaysFor(s, off, c, at)
           f == [d \in S |-> s.soft[<<c, d>>]]
<1>1. IsFiniteSet(S)
  <2>1. S \subseteq Classes(p)
    BY DEF PaysFor, Partial
  <2>2. IsFiniteSet(Classes(p))
    BY FixedKnown, ClassesFinite
  <2> QED
    BY <2>1, <2>2, FS_Subset
<1>2. f \in [S -> 0..MaxUInt]
  BY DEF PaysFor, SpaceTyped
<1>3. IncrementalReuseCost(s, off, c, at) = SumOver(f, S)
  BY IncrementalCostSums
<1> HIDE DEF S, f
<1> QED
  BY <1>1, <1>2, <1>3, SumTyped

\* What is known of a branch.
IsBranch(p, s, q, off, call, b) ==
    /\ b.class \in NodesOf(s, q) \ DOMAIN off /\ b.at \in 0..MaxUInt
    /\ b.cost = IncrementalReuseCost(s, off, b.class, b.at)
    /\ b = [class |-> b.class, at |-> b.at, cost |-> b.cost]
    /\ Comes(call, b.class, b.at)
    /\ FitsReuseNodeAt(p, s, off, b.class, b.at)
    /\ b.at \in CanonicalOffsetsForNode(p, s, off, b.class)

LEMMA BranchKnown ==
    ASSUME NEW p, NEW s, NEW q, NEW off, NEW call, NEW b \in Branches(p, s, q, off, call)
    PROVE  IsBranch(p, s, q, off, call, b)
<1>1. PICK c \in NodesOf(s, q) \ DOMAIN off :
         b \in {[class |-> c, at |-> at, cost |-> IncrementalReuseCost(s, off, c, at)] :
                   at \in {x \in CanonicalOffsetsForNode(p, s, off, c) :
                              Comes(call, c, x) /\ FitsReuseNodeAt(p, s, off, c, x)}}
  BY DEF Branches
<1>2. PICK at \in CanonicalOffsetsForNode(p, s, off, c) :
         /\ Comes(call, c, at) /\ FitsReuseNodeAt(p, s, off, c, at)
         /\ b = [class |-> c, at |-> at, cost |-> IncrementalReuseCost(s, off, c, at)]
  BY <1>1
<1>3. at \in 0..MaxUInt
  BY <1>2 DEF CanonicalOffsetsForNode
<1>4. b.class = c /\ b.at = at /\ b.cost = IncrementalReuseCost(s, off, c, at)
  BY <1>2
<1>5. b = [class |-> b.class, at |-> b.at, cost |-> b.cost]
  BY <1>2, <1>4
<1> QED
  BY <1>2, <1>3, <1>4, <1>5 DEF IsBranch

LEMMA BranchesTyped ==
    ASSUME NEW q, NEW off, NEW call, Fixed(problem), SpaceTyped(problem, space),
           Partial(problem, off)
    PROVE  Branches(problem, space, q, off, call) \subseteq Branch
<1> SUFFICES ASSUME NEW b \in Branches(problem, space, q, off, call) PROVE b \in Branch
  OBVIOUS
<1>1. IsBranch(problem, space, q, off, call, b)
  BY BranchKnown
<1>2. b.class \in DOMAIN space.pool /\ b.at \in 0..MaxUInt
  BY <1>1 DEF IsBranch, NodesOf
<1>3. b.cost \in 0..MaxUInt
  BY <1>1, IncrementalCostTyped DEF IsBranch
<1>4. b = [class |-> b.class, at |-> b.at, cost |-> b.cost]
  BY <1>1 DEF IsBranch
<1> QED
  BY <1>2, <1>3, <1>4 DEF Branch

\* The branches of a call depend on its class and its offset only.
LEMMA SameBranches ==
    ASSUME NEW p, NEW s, NEW q, NEW off, NEW call, NEW other,
           call.class = other.class, call.at = other.at
    PROVE  Branches(p, s, q, off, call) = Branches(p, s, q, off, other)
<1>1. \A c, x : Comes(call, c, x) <=> Comes(other, c, x)
  BY DEF Comes
<1> DEFINE Offsets(a, c) == {x \in CanonicalOffsetsForNode(p, s, off, c) :
                                Comes(a, c, x) /\ FitsReuseNodeAt(p, s, off, c, x)}
<1>2. \A c : Offsets(call, c) = Offsets(other, c)
  BY <1>1
<1>3. \A a : Branches(p, s, q, off, a) =
                 UNION {{[class |-> c, at |-> at, cost |-> IncrementalReuseCost(s, off, c, at)] :
                            at \in Offsets(a, c)} : c \in NodesOf(s, q) \ DOMAIN off}
  BY DEF Branches
<1> HIDE DEF Offsets
<1> QED
  BY <1>2, <1>3

(***************************************************************************)
(* The stack                                                               *)
(***************************************************************************)
\* What a call of the search leaves alone.
InputInv ==
    /\ problem \in Problems /\ seed \in SeedsOf(problem)
    /\ nodeLimit \in NodeLimits /\ space = SearchSpace(problem)

LEMMA InputTyped ==
    ASSUME InputInv
    PROVE  Fixed(problem) /\ SpaceTyped(problem, space)
<1>1. Fixed(problem)
  BY ProblemsAssumption DEF InputInv, Fixed
<1> QED
  BY <1>1, SpaceBuilt DEF InputInv

LEMMA StackTop ==
    ASSUME CallsPlace, stack # <<>>
    PROVE  /\ Len(stack) \in Nat \ {0} /\ DOMAIN stack = 1..Len(stack)
           /\ \A i \in 1..Len(stack) : stack[i] \in Invocation
           /\ Top = stack[Len(stack)] /\ Top \in Invocation
<1>1. stack \in Seq(Invocation)
  BY DEF CallsPlace
<1>2. /\ Len(stack) \in Nat \ {0} /\ DOMAIN stack = 1..Len(stack)
      /\ \A i \in 1..Len(stack) : stack[i] \in Invocation
  BY <1>1
<1>3. Len(stack) \in 1..Len(stack)
  BY <1>2
<1> QED
  BY <1>2, <1>3 DEF Top, Last

\* The placement of the calls in progress is that of the last of them.
LEMMA PlacedNow ==
    ASSUME TypeOK, CallsPlace, StackIsPlacement, stack # <<>>
    PROVE  PlacedBy(stack, placed, Len(stack)) = placed
<1>1. DOMAIN placed = {stack[i].class : i \in 2..Len(stack)}
  BY DEF StackIsPlacement
<1>2. placed = [c \in DOMAIN placed |-> placed[c]]
  BY DEF TypeOK
<1> QED
  BY <1>1, <1>2 DEF PlacedBy

\* What Return leaves on the stack.
LEMMA Popped ==
    ASSUME CallsPlace, stack # <<>>, stack' = Front(stack)
    PROVE  /\ stack' \in Seq(Invocation) /\ Len(stack') = Len(stack) - 1
           /\ \A i \in 1..Len(stack') : stack'[i] = stack[i]
<1> DEFINE n == Len(stack) - 1
<1>1. n \in Nat /\ \A i \in 1..n : stack[i] \in Invocation
  BY StackTop
<1>2. stack' = SubSeq(stack, 1, n)
  BY DEF Front
<1>3. /\ SubSeq(stack, 1, n) \in Seq(Invocation)
      /\ Len(SubSeq(stack, 1, n)) = n
      /\ \A i \in 1..n : SubSeq(stack, 1, n)[i] = stack[i]
  <2> HIDE DEF n
  <2>1. \A i \in 1..n : stack[1 + i - 1] = stack[i]
    BY <1>1
  <2>2. Len(SubSeq(stack, 1, n)) = IF 1 <= n THEN n - 1 + 1 ELSE 0
    BY <1>1, SubSeqProperties
  <2>3. SubSeq(stack, 1, n) \in Seq(Invocation)
    BY <1>1, SubSeqProperties
  <2>4. \A i \in 1..(n - 1 + 1) : SubSeq(stack, 1, n)[i] = stack[1 + i - 1]
    BY <1>1, SubSeqProperties
  <2> QED
    BY <1>1, <2>1, <2>2, <2>3, <2>4
<1> QED
  BY <1>2, <1>3

\* What the loop leaves of the last call when it goes on with some branches.
LEMMA LoopGoesOn ==
    ASSUME CallsPlace, stack # <<>>, NEW todo \in SUBSET Branch
    PROVE  LET calls == [stack EXCEPT ![Len(stack)].todo = todo]
           IN  /\ calls \in Seq(Invocation) /\ Len(calls) = Len(stack)
               /\ \A i \in 1..Len(stack) :
                      /\ calls[i].class = stack[i].class /\ calls[i].at = stack[i].at
                      /\ calls[i].cost = stack[i].cost /\ calls[i].peak = stack[i].peak
                      /\ calls[i].todo = IF i = Len(stack) THEN todo ELSE stack[i].todo
<1> DEFINE n == Len(stack)
           call == [stack[n] EXCEPT !.todo = todo]
           calls == [stack EXCEPT ![n].todo = todo]
<1>1. stack \in Seq(Invocation) /\ n \in 1..Len(stack) /\ stack[n] \in Invocation
  BY StackTop DEF CallsPlace
<1>2. call \in Invocation
  BY <1>1 DEF Invocation
<1>3. calls = [stack EXCEPT ![n] = call]
  BY <1>1
<1>4. /\ calls \in Seq(Invocation) /\ Len(calls) = Len(stack)
      /\ calls[n] = call
      /\ \A i \in 1..Len(stack) : i # n => calls[i] = stack[i]
  <2> HIDE DEF calls, call
  <2> QED
    BY <1>1, <1>2, <1>3, ExceptSeq
<1> HIDE DEF calls
<1>5. /\ calls[n].class = stack[n].class /\ calls[n].at = stack[n].at
      /\ calls[n].cost = stack[n].cost /\ calls[n].peak = stack[n].peak
      /\ calls[n].todo = todo
  BY <1>1, <1>4 DEF Invocation
<1> HIDE DEF call
<1>6. \A i \in 1..Len(stack) :
          /\ calls[i].class = stack[i].class /\ calls[i].at = stack[i].at
          /\ calls[i].cost = stack[i].cost /\ calls[i].peak = stack[i].peak
          /\ calls[i].todo = IF i = n THEN todo ELSE stack[i].todo
  BY <1>4, <1>5
<1> QED
  BY <1>4, <1>6 DEF calls

(***************************************************************************)
(* Undo: what holds of the calls in progress holds after one returns.      *)
(***************************************************************************)
StackInv == CallsPlace /\ StackIsPlacement /\ CarriedAlong /\ BranchesStay /\ PartialPlacementFits

PlacedTyped == DOMAIN placed \subseteq DOMAIN space.pool /\ placed \in [DOMAIN placed -> 0..MaxUInt]

\* The calls that are left keep their placements.
LEMMA PlacementsReturn ==
    ASSUME CallsPlace, StackIsPlacement, stack # <<>>, Return
    PROVE  /\ DOMAIN placed' = {stack[i].class : i \in 2..(Len(stack) - 1)}
           /\ \A c \in DOMAIN placed' : c \in DOMAIN placed /\ placed'[c] = placed[c]
           /\ \A i \in 1..(Len(stack) - 1) :
                  PlacedBy(stack', placed', i) = PlacedBy(stack, placed, i)
<1>1. PICK n \in Nat \ {0} : n = Len(stack) /\ Top = stack[n]
  <2>1. Len(stack) \in Nat \ {0} /\ Top = stack[Len(stack)]
    BY StackTop
  <2> QED
    BY <2>1
<1>2. Len(stack') = n - 1 /\ \A i \in 1..(n - 1) : stack'[i] = stack[i]
  BY <1>1, Popped DEF Return
<1>3. DOMAIN placed = {stack[i].class : i \in 2..n}
  BY <1>1 DEF StackIsPlacement
<1>4. \A i \in 2..(n - 1) : i \in 2..n /\ stack[i].class # Top.class
  <2>1. \A i \in 2..(n - 1) : i \in 2..n /\ n \in 2..n /\ i # n
    BY <1>1
  <2>2. \A i, j \in 2..n : stack[i].class = stack[j].class => i = j
    BY <1>1 DEF CallsPlace
  <2> QED
    BY <1>1, <2>1, <2>2
<1>5. /\ DOMAIN placed' = DOMAIN placed \ {Top.class}
      /\ \A c \in DOMAIN placed' : c \in DOMAIN placed /\ placed'[c] = placed[c]
  BY DEF Return
<1>6. DOMAIN placed' = {stack[i].class : i \in 2..(n - 1)}
  <2>1. ASSUME NEW i \in 2..n, stack[i].class # Top.class PROVE i \in 2..(n - 1)
    <3>1. i # n
      BY <1>1, <2>1
    <3> QED
      BY <1>1, <3>1
  <2>2. \A c \in DOMAIN placed' : \E i \in 2..(n - 1) : c = stack[i].class
    BY <1>3, <1>5, <2>1
  <2>3. \A i \in 2..(n - 1) : stack[i].class \in DOMAIN placed'
    BY <1>3, <1>4, <1>5
  <2> QED
    BY <2>2, <2>3
<1>7. ASSUME NEW i \in 1..(n - 1)
      PROVE  PlacedBy(stack', placed', i) = PlacedBy(stack, placed, i)
  <2>1. \A j \in 2..i : j \in 2..(n - 1) /\ j \in 1..(n - 1)
    BY <1>1
  <2>2. \A j \in 2..i : /\ stack'[j].class = stack[j].class
                        /\ placed'[stack[j].class] = placed[stack[j].class]
    BY <1>2, <1>5, <1>6, <2>1
  <2>3. {stack'[j].class : j \in 2..i} = {stack[j].class : j \in 2..i}
    BY <2>2
  <2> QED
    BY <2>2, <2>3 DEF PlacedBy
<1> QED
  BY <1>1, <1>5, <1>6, <1>7

LEMMA Returned ==
    ASSUME PlacedTyped, StackInv, stack # <<>>, Return, UNCHANGED <<problem, space, poolNow>>
    PROVE  PlacedTyped' /\ StackInv'
<1>1. PICK n \in Nat \ {0} : n = Len(stack)
  <2>1. Len(stack) \in Nat \ {0}
    BY StackTop DEF StackInv
  <2> QED
    BY <2>1
<1>2. /\ stack' \in Seq(Invocation) /\ Len(stack') = n - 1 /\ DOMAIN stack' = 1..(n - 1)
      /\ \A i \in 1..(n - 1) : stack'[i] = stack[i]
  <2>1. stack' \in Seq(Invocation)
    BY Popped DEF Return, StackInv
  <2>2. Len(stack') = n - 1 /\ \A i \in 1..Len(stack') : stack'[i] = stack[i]
    BY <1>1, Popped DEF Return, StackInv
  <2> QED
    BY <2>1, <2>2
<1>3. /\ DOMAIN placed' = {stack[i].class : i \in 2..(n - 1)}
      /\ \A c \in DOMAIN placed' : c \in DOMAIN placed /\ placed'[c] = placed[c]
      /\ \A i \in 1..(n - 1) : PlacedBy(stack', placed', i) = PlacedBy(stack, placed, i)
  BY <1>1, PlacementsReturn DEF StackInv
<1>4. PlacedTyped'
  <2>1. placed' = [c \in DOMAIN placed \ {Top.class} |-> placed[c]]
    BY DEF Return
  <2> QED
    BY <1>3, <2>1 DEF PlacedTyped
<1>5. DOMAIN stack = 1..n /\ \A i \in 1..(n - 1) : i \in 1..n
  BY <1>1, StackTop DEF StackInv
<1>6. CallsPlace'
  <2>1. Invocation' = Invocation
    BY DEF Invocation, Branch
  <2>2. stack' # <<>> => poolNow' # {} /\ stack'[1].class = NoClass
    <3>1. ASSUME stack' # <<>> PROVE 1 \in 1..(n - 1)
      BY <1>1, <1>2, <3>1, EmptySeq
    <3> QED
      BY <1>2, <3>1 DEF StackInv, CallsPlace
  <2>3. \A i \in 2..(n - 1) : i \in 2..n /\ stack'[i].class = stack[i].class
    BY <1>1, <1>2
  <2>4. \A i \in 2..Len(stack') : \A q \in poolNow' : stack'[i].class \in NodesOf(space', q)
    BY <1>1, <1>2, <2>3 DEF StackInv, CallsPlace
  <2>5. \A i, j \in 2..Len(stack') : stack'[i].class = stack'[j].class => i = j
    BY <1>1, <1>2, <2>3 DEF StackInv, CallsPlace
  <2> QED
    BY <1>2, <2>1, <2>2, <2>4, <2>5 DEF CallsPlace
<1>7. StackIsPlacement'
  <2>1. \A i \in 2..(n - 1) : i \in 1..(n - 1) /\ i \in 2..n
    BY <1>1
  <2>2. \A i \in 3..(n - 1) : i \in 1..(n - 1) /\ i \in 3..n /\ i - 1 \in 1..(n - 1)
    BY <1>1
  <2>3. DOMAIN placed' = {stack'[i].class : i \in 2..(n - 1)}
    BY <1>2, <1>3, <2>1
  <2>4. \A i \in 2..(n - 1) : placed'[stack'[i].class] = stack'[i].at
    <3> TAKE i \in 2..(n - 1)
    <3>1. placed[stack[i].class] = stack[i].at
      BY <1>1, <2>1 DEF StackInv, StackIsPlacement
    <3>2. placed'[stack[i].class] = placed[stack[i].class]
      BY <1>3
    <3> QED
      BY <1>2, <2>1, <3>1, <3>2
  <2>5. \A i \in 3..(n - 1) : \/ stack'[i - 1].at < stack'[i].at
                              \/ /\ stack'[i - 1].at = stack'[i].at
                                 /\ Min(stack'[i - 1].class) < Min(stack'[i].class)
    BY <1>1, <1>2, <2>2 DEF StackInv, StackIsPlacement
  <2> QED
    BY <1>2, <2>3, <2>4, <2>5 DEF StackIsPlacement
<1>8. CarriedAlong'
  <2> SUFFICES ASSUME NEW q \in poolNow, NEW i \in 1..(n - 1)
               PROVE  /\ stack'[i].cost = PoolReuseCost(space, PlacedBy(stack', placed', i))
                      /\ stack'[i].peak = PeakOf(problem, space, q, PlacedBy(stack', placed', i))
    BY <1>2 DEF CarriedAlong
  <2> QED
    BY <1>2, <1>3, <1>5 DEF StackInv, CarriedAlong
<1>9. BranchesStay'
  <2> SUFFICES ASSUME NEW q \in poolNow, NEW i \in 1..(n - 1)
               PROVE  stack'[i].todo \subseteq
                          Branches(problem, space, q, PlacedBy(stack', placed', i), stack'[i])
    BY <1>2 DEF BranchesStay
  <2> QED
    BY <1>2, <1>3, <1>5 DEF StackInv, BranchesStay
<1>10. PartialPlacementFits'
  <2>1. Fits(problem, space, placed)
    BY DEF StackInv, PartialPlacementFits, Fits
  <2>2. DOMAIN placed' \subseteq DOMAIN placed /\ \A c \in DOMAIN placed' : placed'[c] = placed[c]
    BY <1>3
  <2>3. Fits(problem, space, placed')
    BY <2>1, <2>2, FitsFewer
  <2> QED
    BY <2>3 DEF Fits, PartialPlacementFits
<1> QED
  BY <1>4, <1>6, <1>7, <1>8, <1>9, <1>10 DEF StackInv

(***************************************************************************)
(* Redo: the loop of the last call starts, and calls.                      *)
(***************************************************************************)
\* Before the last call's loop goes on, what it starts from.
LEMMA LastCall ==
    ASSUME InputInv, TypeOK, StackInv, stack # <<>>
    PROVE  \E n \in Nat \ {0} :
               /\ n = Len(stack) /\ DOMAIN stack = 1..n /\ n \in 1..n
               /\ \A i \in 1..n : stack[i] \in Invocation
               /\ Top = stack[n] /\ PlacedBy(stack, placed, n) = placed
               /\ DOMAIN placed = {stack[i].class : i \in 2..n}
<1>1. Len(stack) \in Nat \ {0} /\ DOMAIN stack = 1..Len(stack) /\ Top = stack[Len(stack)]
      /\ \A i \in 1..Len(stack) : stack[i] \in Invocation
  BY StackTop DEF StackInv
<1>2. PlacedBy(stack, placed, Len(stack)) = placed
  BY PlacedNow DEF StackInv
<1>3. DOMAIN placed = {stack[i].class : i \in 2..Len(stack)}
  BY DEF StackInv, StackIsPlacement
<1>4. Len(stack) \in 1..Len(stack)
  BY <1>1
<1> QED
  BY <1>1, <1>2, <1>3, <1>4

\* A placement of calls depends on their classes only.
LEMMA SamePlacedBy ==
    ASSUME NEW calls, NEW others, NEW off, NEW later, NEW i \in Nat,
           \A j \in 2..i : /\ others[j].class = calls[j].class
                           /\ later[calls[j].class] = off[calls[j].class]
    PROVE  PlacedBy(others, later, i) = PlacedBy(calls, off, i)
<1>1. {others[j].class : j \in 2..i} = {calls[j].class : j \in 2..i}
  OBVIOUS
<1>2. \A c \in {calls[j].class : j \in 2..i} : later[c] = off[c]
  OBVIOUS
<1> QED
  BY <1>1, <1>2 DEF PlacedBy

\* The calls in progress stay, the last of them with these branches to take.
LoopHas(todo) ==
    /\ stack' \in Seq(Invocation) /\ Len(stack') = Len(stack)
    /\ \A i \in 1..Len(stack) :
           /\ stack'[i].class = stack[i].class /\ stack'[i].at = stack[i].at
           /\ stack'[i].cost = stack[i].cost /\ stack'[i].peak = stack[i].peak
           /\ stack'[i].todo = IF i = Len(stack) THEN todo ELSE stack[i].todo

LEMMA Expanded ==
    ASSUME InputInv, TypeOK, StackInv, stack # <<>>, NEW q \in poolNow,
           LoopHas(Branches(problem, space, q, placed, Top)),
           UNCHANGED <<problem, space, poolNow, placed>>
    PROVE  PlacedTyped' /\ StackInv'
<1>1. PICK n \in Nat \ {0} :
         /\ n = Len(stack) /\ DOMAIN stack = 1..n /\ n \in 1..n
         /\ \A i \in 1..n : stack[i] \in Invocation
         /\ Top = stack[n] /\ PlacedBy(stack, placed, n) = placed
         /\ DOMAIN placed = {stack[i].class : i \in 2..n}
  BY LastCall
<1> DEFINE todo == Branches(problem, space, q, placed, Top)
<1>2. LoopHas(todo)
  OBVIOUS
<1>3. todo = Branches(problem, space, q, placed, stack[n])
  BY <1>1
<1> HIDE DEF todo
<1>7. /\ stack' \in Seq(Invocation) /\ Len(stack') = n
      /\ \A i \in 1..n :
             /\ stack'[i].class = stack[i].class /\ stack'[i].at = stack[i].at
             /\ stack'[i].cost = stack[i].cost /\ stack'[i].peak = stack[i].peak
             /\ stack'[i].todo = IF i = n THEN todo ELSE stack[i].todo
  BY <1>1, <1>2 DEF LoopHas
<1>8. DOMAIN stack' = 1..n /\ \A i \in 2..n : i \in 1..n /\ i - 1 \in 1..n
  BY <1>7
<1>9. ASSUME NEW i \in 1..n PROVE PlacedBy(stack', placed', i) = PlacedBy(stack, placed, i)
  <2>1. i \in Nat /\ \A j \in 2..i : j \in 1..n
    BY <1>1
  <2>2. \A j \in 2..i : /\ stack'[j].class = stack[j].class
                        /\ placed'[stack[j].class] = placed[stack[j].class]
    BY <1>7, <2>1
  <2> QED
    BY <2>1, <2>2, SamePlacedBy
<1>10. PlacedTyped'
  BY DEF PlacedTyped, TypeOK
<1>11. CallsPlace'
  <2>1. Invocation' = Invocation
    BY DEF Invocation, Branch
  <2>2. poolNow' # {} /\ stack'[1].class = NoClass
    <3>1. 1 \in 1..n
      BY <1>1
    <3> QED
      BY <1>7, <3>1 DEF StackInv, CallsPlace
  <2>3. \A i \in 2..Len(stack') : \A r \in poolNow' : stack'[i].class \in NodesOf(space', r)
    BY <1>1, <1>7, <1>8 DEF StackInv, CallsPlace
  <2>4. \A i, j \in 2..Len(stack') : stack'[i].class = stack'[j].class => i = j
    <3>1. \A i, j \in 2..n : stack[i].class = stack[j].class => i = j
      BY <1>1 DEF StackInv, CallsPlace
    <3>2. \A i \in 2..n : stack'[i].class = stack[i].class
      BY <1>7, <1>8
    <3> QED
      BY <1>7, <3>1, <3>2
  <2> QED
    BY <1>7, <2>1, <2>2, <2>3, <2>4 DEF CallsPlace
<1>12. StackIsPlacement'
  <2>1. \A i \in 3..n : i \in 2..n /\ i \in 1..n /\ i - 1 \in 1..n
    BY <1>1
  <2>2. DOMAIN placed' = {stack'[i].class : i \in 2..n}
    <3>1. \A i \in 2..n : stack'[i].class = stack[i].class
      BY <1>7, <1>8
    <3> QED
      BY <1>1, <3>1
  <2>3. \A i \in 2..n : placed'[stack'[i].class] = stack'[i].at
    BY <1>1, <1>7, <1>8 DEF StackInv, StackIsPlacement
  <2>4. \A i \in 3..n : \/ stack'[i - 1].at < stack'[i].at
                        \/ /\ stack'[i - 1].at = stack'[i].at
                           /\ Min(stack'[i - 1].class) < Min(stack'[i].class)
    <3> TAKE i \in 3..n
    <3>1. /\ stack'[i - 1].at = stack[i - 1].at /\ stack'[i].at = stack[i].at
          /\ stack'[i - 1].class = stack[i - 1].class /\ stack'[i].class = stack[i].class
      BY <1>7, <2>1
    <3> QED
      BY <1>1, <3>1 DEF StackInv, StackIsPlacement
  <2> QED
    BY <1>7, <2>2, <2>3, <2>4 DEF StackIsPlacement
<1>13. CarriedAlong'
  <2>1. \A r \in poolNow : \A i \in 1..n :
            /\ stack'[i].cost = PoolReuseCost(space, PlacedBy(stack', placed', i))
            /\ stack'[i].peak = PeakOf(problem, space, r, PlacedBy(stack', placed', i))
    BY <1>1, <1>7, <1>9 DEF StackInv, CarriedAlong
  <2> QED
    BY <1>8, <2>1 DEF CarriedAlong
<1>14. BranchesStay'
  <2>1. ASSUME NEW r \in poolNow, NEW i \in 1..n
        PROVE  stack'[i].todo \subseteq
                   Branches(problem, space, r, PlacedBy(stack', placed', i), stack'[i])
    <3>1. r = q
      BY DEF TypeOK
    <3> DEFINE off == PlacedBy(stack, placed, i)
               call == stack'[i]
               old == stack[i]
    <3>2. PlacedBy(stack', placed', i) = off /\ call.class = old.class /\ call.at = old.at
      BY <1>7, <1>9
    <3>3. old.todo \subseteq Branches(problem, space, q, off, old)
      BY <1>1, <3>1 DEF StackInv, BranchesStay
    <3>4. call.todo = (IF i = n THEN todo ELSE old.todo) /\ (i = n => old = stack[n] /\ off = placed)
      BY <1>1, <1>7
    <3> HIDE DEF off, call, old
    <3>5. Branches(problem, space, q, off, call) = Branches(problem, space, q, off, old)
      BY <3>2, SameBranches
    <3>6. call.todo \subseteq Branches(problem, space, q, off, call)
      BY <1>3, <3>3, <3>4, <3>5
    <3> QED
      BY <3>1, <3>2, <3>6 DEF call
  <2> QED
    BY <1>8, <2>1 DEF BranchesStay
<1>15. PartialPlacementFits'
  BY DEF StackInv, PartialPlacementFits
<1> QED
  BY <1>10, <1>11, <1>12, <1>13, <1>14, <1>15 DEF StackInv

\* The calls in progress stay, and the last of them makes another.
LoopCalls(todo, call) ==
    /\ stack' \in Seq(Invocation) /\ Len(stack') = Len(stack) + 1
    /\ \A i \in 1..Len(stack) :
           /\ stack'[i].class = stack[i].class /\ stack'[i].at = stack[i].at
           /\ stack'[i].cost = stack[i].cost /\ stack'[i].peak = stack[i].peak
           /\ stack'[i].todo = IF i = Len(stack) THEN todo ELSE stack[i].todo
    /\ stack'[Len(stack) + 1] = call

LEMMA Called ==
    ASSUME CallsPlace, stack # <<>>, NEW todo \in SUBSET Branch, NEW call \in Invocation,
           stack' = Append([stack EXCEPT ![Len(stack)].todo = todo], call)
    PROVE  LoopCalls(todo, call)
<1> DEFINE calls == [stack EXCEPT ![Len(stack)].todo = todo]
<1>1. stack' = Append(calls, call)
  OBVIOUS
<1>2. /\ calls \in Seq(Invocation) /\ Len(calls) = Len(stack)
      /\ \A i \in 1..Len(stack) :
             /\ calls[i].class = stack[i].class /\ calls[i].at = stack[i].at
             /\ calls[i].cost = stack[i].cost /\ calls[i].peak = stack[i].peak
             /\ calls[i].todo = IF i = Len(stack) THEN todo ELSE stack[i].todo
  BY LoopGoesOn
<1> HIDE DEF calls
<1>3. /\ Append(calls, call) \in Seq(Invocation) /\ Len(Append(calls, call)) = Len(calls) + 1
      /\ \A i \in 1..Len(calls) : Append(calls, call)[i] = calls[i]
      /\ Append(calls, call)[Len(calls) + 1] = call
  BY <1>2, AppendProperties
<1>4. /\ stack' \in Seq(Invocation) /\ Len(stack') = Len(stack) + 1
      /\ \A i \in 1..Len(stack) : stack'[i] = calls[i]
      /\ stack'[Len(stack) + 1] = call
  BY <1>1, <1>2, <1>3
<1> QED
  BY <1>2, <1>4 DEF LoopCalls

\* A class takes its place behind those that the calls in progress placed.
LEMMA ComesNext ==
    ASSUME StackInv, NEW n \in Nat, n = Len(stack), n > 1, NEW c, NEW at, Comes(stack[n], c, at),
           InputInv
    PROVE  stack[n].at < at \/ (stack[n].at = at /\ Min(stack[n].class) < Min(c))
<1>1. n \in 2..n /\ n \in 1..n
  OBVIOUS
<1>2. \A q \in poolNow : stack[n].class \in NodesOf(space, q)
  BY <1>1 DEF StackInv, CallsPlace
<1>3. stack # <<>>
  BY EmptySeq
<1>4. poolNow # {} /\ stack[n].class \in DOMAIN space.pool
  BY <1>2, <1>3 DEF StackInv, CallsPlace, NodesOf
<1>5. stack[n].class \in Classes(problem)
  BY <1>4, InputTyped DEF SpaceTyped
<1>6. stack[n].class # NoClass
  BY <1>5, InputTyped, NodesTyped DEF NoClass
<1> QED
  BY <1>6 DEF Comes

LEMMA Descended ==
    ASSUME InputInv, TypeOK, StackInv, stack # <<>>, NEW q \in poolNow,
           NEW b, IsBranch(problem, space, q, placed, Top, b), NEW todo \in SUBSET Top.todo,
           placed' = Extend(placed, b.class, b.at),
           NEW peak, peak = Max({Top.peak, b.at + space.size[b.class]}),
           LoopCalls(todo, Call(b.class, b.at, SaturatingAdd(Top.cost, b.cost), peak)),
           UNCHANGED <<problem, space, poolNow>>
    PROVE  PlacedTyped' /\ StackInv'
<1>1. PICK n \in Nat \ {0} :
         /\ n = Len(stack) /\ DOMAIN stack = 1..n /\ n \in 1..n
         /\ \A i \in 1..n : stack[i] \in Invocation
         /\ Top = stack[n] /\ PlacedBy(stack, placed, n) = placed
         /\ DOMAIN placed = {stack[i].class : i \in 2..n}
  BY LastCall
<1> DEFINE c == b.class
           call == Call(c, b.at, SaturatingAdd(Top.cost, b.cost), peak)
<1>2. Fixed(problem) /\ SpaceTyped(problem, space) /\ q \in problem.pools
      /\ \A r \in poolNow : r = q
  BY InputTyped DEF TypeOK
<1>3. Partial(problem, placed) /\ Fits(problem, space, placed)
  BY <1>2 DEF Partial, TypeOK, SpaceTyped, Fits, StackInv, PartialPlacementFits
<1>4. /\ c \in NodesOf(space, q) /\ c \in Classes(problem) \ DOMAIN placed /\ b.at \in 0..MaxUInt
      /\ FitsReuseNodeAt(problem, space, placed, c, b.at) /\ Comes(stack[n], c, b.at)
      /\ b.cost = IncrementalReuseCost(space, placed, c, b.at)
  BY <1>1, <1>2 DEF IsBranch, NodesOf, SpaceTyped
<1>5. /\ Top.cost = PoolReuseCost(space, placed) /\ Top.peak = PeakOf(problem, space, q, placed)
      /\ stack[n].todo \subseteq Branches(problem, space, q, placed, stack[n])
  BY <1>1 DEF StackInv, CarriedAlong, BranchesStay
<1>6. LoopCalls(todo, call) /\ placed' = Extend(placed, c, b.at)
      /\ call.class = c /\ call.at = b.at
      /\ call.cost = SaturatingAdd(Top.cost, b.cost) /\ call.peak = peak /\ call.todo = {}
  BY DEF Call
<1> HIDE DEF c, call
<1>7. /\ stack' \in Seq(Invocation) /\ Len(stack') = n + 1 /\ DOMAIN stack' = 1..(n + 1)
      /\ \A i \in 1..n :
             /\ stack'[i].class = stack[i].class /\ stack'[i].at = stack[i].at
             /\ stack'[i].cost = stack[i].cost /\ stack'[i].peak = stack[i].peak
             /\ stack'[i].todo = IF i = n THEN todo ELSE stack[i].todo
      /\ stack'[n + 1] = call
  BY <1>1, <1>6 DEF LoopCalls
<1>8. /\ DOMAIN placed' = DOMAIN placed \cup {c} /\ placed'[c] = b.at
      /\ \A d \in DOMAIN placed : d # c /\ placed'[d] = placed[d]
  BY <1>4, <1>6 DEF Extend
<1>9. /\ \A i \in 2..(n + 1) : i # n + 1 => i \in 2..n /\ i \in 1..n
      /\ \A i \in 1..(n + 1) : i # n + 1 => i \in 1..n
      /\ \A i \in 2..n : i \in 2..(n + 1) /\ i \in 1..n /\ i # n + 1
      /\ n + 1 \in 2..(n + 1) /\ n + 1 \in 1..(n + 1)
  BY <1>1
<1>10. \A i \in 2..n : stack[i].class \in DOMAIN placed
  BY <1>1
<1>11. ASSUME NEW i \in 1..n PROVE PlacedBy(stack', placed', i) = PlacedBy(stack, placed, i)
  <2>1. i \in Nat /\ \A j \in 2..i : j \in 1..n /\ j \in 2..n
    BY <1>1
  <2>2. \A j \in 2..i : /\ stack'[j].class = stack[j].class
                        /\ placed'[stack[j].class] = placed[stack[j].class]
    BY <1>7, <1>8, <1>10, <2>1
  <2> QED
    BY <2>1, <2>2, SamePlacedBy
<1>12. DOMAIN placed' = {stack'[i].class : i \in 2..(n + 1)}
  <2>1. ASSUME NEW d \in DOMAIN placed'
        PROVE  \E i \in 2..(n + 1) : d = stack'[i].class
    <3>1. CASE d = c
      BY <1>6, <1>7, <1>9, <3>1
    <3>2. CASE d # c
      <4>1. PICK i \in 2..n : d = stack[i].class
        BY <1>1, <1>8, <3>2
      <4> QED
        BY <1>7, <1>9, <4>1
    <3> QED
      BY <3>1, <3>2
  <2>2. \A i \in 2..(n + 1) : stack'[i].class \in DOMAIN placed'
    BY <1>6, <1>7, <1>8, <1>9, <1>10
  <2> QED
    BY <2>1, <2>2
<1>13. PlacedBy(stack', placed', n + 1) = placed'
  <2>1. placed' = [d \in DOMAIN placed' |-> placed'[d]]
    BY <1>6 DEF Extend
  <2> QED
    BY <1>12, <2>1 DEF PlacedBy
<1>14. Partial(problem, placed') /\ Fits(problem, space, placed')
  <2>1. Partial(problem, placed')
    BY <1>3, <1>4, <1>6, Extended
  <2>2. Fits(problem, space, placed')
    BY <1>2, <1>3, <1>4, <1>6, FitsOneMore
  <2> QED
    BY <2>1, <2>2
<1>15. PlacedTyped'
  BY <1>2, <1>14 DEF PlacedTyped, Partial, SpaceTyped
<1>16. CallsPlace'
  <2>1. Invocation' = Invocation
    BY DEF Invocation, Branch
  <2>2. poolNow' # {} /\ stack'[1].class = NoClass
    <3>1. 1 \in 1..n
      BY <1>1
    <3> QED
      BY <1>7, <3>1 DEF StackInv, CallsPlace
  <2>3. \A i \in 2..(n + 1) : \A r \in poolNow' : stack'[i].class \in NodesOf(space', r)
    BY <1>1, <1>2, <1>4, <1>6, <1>7, <1>9 DEF StackInv, CallsPlace
  <2>4. \A i, j \in 2..(n + 1) : stack'[i].class = stack'[j].class => i = j
    <3>1. \A i \in 2..n : stack'[i].class # c
      BY <1>4, <1>7, <1>9, <1>10
    <3>2. \A i, j \in 2..n : stack'[i].class = stack'[j].class => i = j
      BY <1>1, <1>7, <1>9 DEF StackInv, CallsPlace
    <3> QED
      BY <1>6, <1>7, <1>9, <3>1, <3>2
  <2> QED
    BY <1>7, <2>1, <2>2, <2>3, <2>4 DEF CallsPlace
<1>17. StackIsPlacement'
  <2>1. \A i \in 2..(n + 1) : placed'[stack'[i].class] = stack'[i].at
    <3>1. \A i \in 2..n : placed[stack[i].class] = stack[i].at
      BY <1>1 DEF StackInv, StackIsPlacement
    <3>2. \A i \in 2..n : placed'[stack'[i].class] = stack'[i].at
      BY <1>7, <1>8, <1>9, <1>10, <3>1
    <3> QED
      BY <1>6, <1>7, <1>8, <1>9, <3>2
  <2>2. ASSUME NEW i \in 3..(n + 1)
        PROVE  \/ stack'[i - 1].at < stack'[i].at
               \/ /\ stack'[i - 1].at = stack'[i].at
                  /\ Min(stack'[i - 1].class) < Min(stack'[i].class)
    <3>1. CASE i = n + 1
      <4>1. n > 1 /\ i - 1 = n /\ n \in 1..n
        BY <1>1, <3>1
      <4>2. stack[n].at < b.at \/ (stack[n].at = b.at /\ Min(stack[n].class) < Min(c))
        BY <1>1, <1>4, <4>1, ComesNext
      <4>3. stack'[n].at = stack[n].at /\ stack'[n].class = stack[n].class
            /\ stack'[i].at = b.at /\ stack'[i].class = c
        BY <1>6, <1>7, <3>1, <4>1
      <4> QED
        BY <4>1, <4>2, <4>3
    <3>2. CASE i # n + 1
      <4>1. i \in 3..n /\ i \in 1..n /\ i - 1 \in 1..n
        BY <1>1, <3>2
      <4>2. /\ stack'[i - 1].at = stack[i - 1].at /\ stack'[i].at = stack[i].at
            /\ stack'[i - 1].class = stack[i - 1].class /\ stack'[i].class = stack[i].class
        BY <1>7, <4>1
      <4> QED
        BY <1>1, <4>1, <4>2 DEF StackInv, StackIsPlacement
    <3> QED
      BY <3>1, <3>2
  <2> QED
    BY <1>7, <1>12, <2>1, <2>2 DEF StackIsPlacement
<1>18. CarriedAlong'
  <2>1. \A i \in 1..n :
            /\ stack'[i].cost = PoolReuseCost(space, PlacedBy(stack', placed', i))
            /\ stack'[i].peak = PeakOf(problem, space, q, PlacedBy(stack', placed', i))
    BY <1>1, <1>7, <1>11 DEF StackInv, CarriedAlong
  <2>2. /\ call.cost = PoolReuseCost(space, placed')
        /\ call.peak = PeakOf(problem, space, q, placed')
    <3>1. PoolReuseCost(space, placed') = SaturatingAdd(Top.cost, b.cost)
      BY <1>2, <1>3, <1>4, <1>5, <1>6, CostGrows
    <3>2. PeakOf(problem, space, q, placed') = peak
      BY <1>2, <1>3, <1>4, <1>5, <1>6, PeakGrows DEF c
    <3> QED
      BY <1>6, <3>1, <3>2
  <2>3. \A r \in poolNow : \A i \in 1..(n + 1) :
            /\ stack'[i].cost = PoolReuseCost(space, PlacedBy(stack', placed', i))
            /\ stack'[i].peak = PeakOf(problem, space, r, PlacedBy(stack', placed', i))
    BY <1>2, <1>7, <1>9, <1>13, <2>1, <2>2
  <2> QED
    BY <1>7, <2>3 DEF CarriedAlong
<1>19. BranchesStay'
  <2>1. ASSUME NEW r \in poolNow, NEW i \in 1..(n + 1)
        PROVE  stack'[i].todo \subseteq
                   Branches(problem, space, r, PlacedBy(stack', placed', i), stack'[i])
    <3>1. CASE i = n + 1
      BY <1>6, <1>7, <3>1
    <3>2. CASE i # n + 1
      <4> DEFINE off == PlacedBy(stack, placed, i)
                 later == stack'[i]
                 old == stack[i]
      <4>1. i \in 1..n /\ PlacedBy(stack', placed', i) = off
            /\ later.class = old.class /\ later.at = old.at
        BY <1>7, <1>9, <1>11, <3>2
      <4>2. old.todo \subseteq Branches(problem, space, r, off, old)
        BY <1>1, <4>1 DEF StackInv, BranchesStay
      <4>3. later.todo = (IF i = n THEN todo ELSE old.todo) /\ (i = n => old = Top)
        BY <1>1, <1>7, <4>1
      <4> HIDE DEF off, later, old
      <4>4. Branches(problem, space, r, off, later) = Branches(problem, space, r, off, old)
        BY <4>1, SameBranches
      <4>5. later.todo \subseteq Branches(problem, space, r, off, later)
        BY <4>2, <4>3, <4>4
      <4> QED
        BY <4>1, <4>5 DEF later
    <3> QED
      BY <3>1, <3>2
  <2> QED
    BY <1>7, <2>1 DEF BranchesStay
<1>20. PartialPlacementFits'
  BY <1>14 DEF Fits, PartialPlacementFits
<1> QED
  BY <1>15, <1>16, <1>17, <1>18, <1>19, <1>20 DEF StackInv

(***************************************************************************)
(* The steps                                                               *)
(***************************************************************************)
ScoresTyped == \A kept \in best : kept.score \in Scores

\* What a step of Search has to keep besides the calls in progress.
LEMMA SearchSteps ==
    ASSUME IInv, stack # <<>>, PlacedTyped', StackInv', ScoresTyped', IncumbentScored',
           nodes' \in Nat, nodeLimit # 0 => nodes' <= nodeLimit,
           limitHit' \in BOOLEAN, entering' \in BOOLEAN,
           UNCHANGED <<input, poolsLeft, poolNow, result>>
    PROVE  IInv'
<1>1. status' = "none"
  BY DEF IInv, TypeOK, result
<1>2. TypeOK'
  BY <1>1 DEF IInv, TypeOK, PlacedTyped, ScoresTyped, input, result
<1> QED
  BY <1>2 DEF IInv, StackInv

\* A node is counted below the limit only.
LEMMA NodeCounted ==
    ASSUME TypeOK, ~AtLimit
    PROVE  nodes + 1 \in Nat /\ (nodeLimit # 0 => nodes + 1 <= nodeLimit)
  BY DEF TypeOK, AtLimit

LEMMA IncumbentStays ==
    ASSUME IInv, UNCHANGED <<input, poolNow, best>>
    PROVE  ScoresTyped' /\ IncumbentScored'
<1>1. Scores' = Scores
  BY DEF Scores, input
<1>2. ScoresTyped'
  BY <1>1 DEF ScoresTyped, IInv, TypeOK
<1>3. IncumbentScored'
  BY DEF IncumbentScored, IInv, input
<1> QED
  BY <1>2, <1>3

LEMMA ReturnStep ==
    ASSUME InputInv, IInv, HitLimit \/ Prune \/ LoopEnds
    PROVE  IInv'
<1>1. stack # <<>> /\ Return /\ UNCHANGED <<input, poolsLeft, poolNow, best, result>>
  BY DEF HitLimit, Prune, LoopEnds, Searching
<1>2. PlacedTyped' /\ StackInv'
  BY <1>1, Returned DEF IInv, TypeOK, PlacedTyped, StackInv, input
<1>3. ScoresTyped' /\ IncumbentScored'
  BY <1>1, IncumbentStays
<1>4. nodes' \in Nat /\ (nodeLimit # 0 => nodes' <= nodeLimit)
  BY NodeCounted DEF IInv, TypeOK, HitLimit, Prune, LoopEnds
<1>5. limitHit' \in BOOLEAN /\ entering' \in BOOLEAN
  BY DEF IInv, TypeOK, HitLimit, Prune, LoopEnds, Return
<1> QED
  BY <1>1, <1>2, <1>3, <1>4, <1>5, SearchSteps

\* The placement of a leaf is the whole pool's, at the score the last call
\* carries.
LEMMA LeafScored ==
    ASSUME InputInv, IInv, stack # <<>>, NEW q \in poolNow, DOMAIN placed = NodesOf(space, q)
    PROVE  /\ LowerBound = PoolScore(problem, PoolReuseCost(space, placed), PeakOf(problem, space, q, placed))
           /\ LowerBound \in Scores
<1>1. PICK n \in Nat \ {0} : /\ n \in DOMAIN stack /\ Top = stack[n]
                             /\ PlacedBy(stack, placed, n) = placed
  BY LastCall DEF IInv, StackInv
<1>2. Top.cost = PoolReuseCost(space, placed) /\ Top.peak = PeakOf(problem, space, q, placed)
  BY <1>1 DEF IInv, CarriedAlong
<1>3. Fixed(problem) /\ SpaceTyped(problem, space) /\ q \in problem.pools
  BY InputTyped DEF IInv, TypeOK
<1>4. Partial(problem, placed) /\ Fits(problem, space, placed)
  BY <1>3 DEF Partial, IInv, TypeOK, SpaceTyped, Fits, PartialPlacementFits
<1> QED
  BY <1>2, <1>3, <1>4, ScoreTyped DEF LowerBound

LEMMA LeafStep ==
    ASSUME InputInv, IInv, Leaf
    PROVE  IInv'
<1>1. stack # <<>> /\ Return /\ UNCHANGED <<input, poolsLeft, poolNow, limitHit, result>>
      /\ nodes' = nodes + 1 /\ ~AtLimit
  BY DEF Leaf, Searching
<1>2. PICK q \in poolNow : DOMAIN placed = NodesOf(space, q)
  BY DEF Leaf
<1>3. best' = {[offset |-> placed, score |-> LowerBound]}
  BY DEF Leaf
<1>4. /\ LowerBound = PoolScore(problem, PoolReuseCost(space, placed), PeakOf(problem, space, q, placed))
      /\ LowerBound \in Scores
  BY <1>1, <1>2, LeafScored
<1>5. \A r \in poolNow' : r = q
  BY <1>1 DEF IInv, TypeOK
<1>6. \A kept \in best' : kept.offset = placed /\ kept.score = LowerBound
  BY <1>3
<1>7. Scores' = Scores /\ space' = space /\ problem' = problem /\ poolNow' = poolNow
  BY <1>1 DEF Scores, input
<1>8. ScoresTyped'
  BY <1>4, <1>6, <1>7 DEF ScoresTyped
<1>9. IncumbentScored'
  <2>1. \A c \in NodesOf(space, q) : FitsReuseNodeAt(problem, space, placed, c, placed[c])
    BY <1>2 DEF IInv, PartialPlacementFits
  <2>2. ASSUME NEW r \in poolNow', NEW kept \in best'
        PROVE  /\ DOMAIN kept.offset = NodesOf(space', r)
               /\ kept.score = PoolScore(problem', PoolReuseCost(space', kept.offset),
                                         PeakOf(problem', space', r, kept.offset))
               /\ \A c \in NodesOf(space', r) :
                      FitsReuseNodeAt(problem', space', kept.offset, c, kept.offset[c])
    BY <1>2, <1>4, <1>5, <1>6, <1>7, <2>1
  <2> QED
    BY <2>2 DEF IncumbentScored
<1>10. PlacedTyped' /\ StackInv'
  BY <1>1, Returned DEF IInv, TypeOK, PlacedTyped, StackInv, input
<1>11. nodes' \in Nat /\ (nodeLimit # 0 => nodes' <= nodeLimit)
  BY <1>1, NodeCounted DEF IInv
<1>12. limitHit' \in BOOLEAN /\ entering' \in BOOLEAN
  BY <1>1 DEF IInv, TypeOK, Return
<1> QED
  BY <1>1, <1>8, <1>9, <1>10, <1>11, <1>12, SearchSteps

\* The last call's loop goes on with the branches of its placement.
LEMMA ExpandsTo ==
    ASSUME InputInv, IInv, Expand
    PROVE  /\ stack # <<>>
           /\ \E q \in poolNow : /\ DOMAIN placed # NodesOf(space, q)
                               /\ LoopHas(Branches(problem, space, q, placed, Top))
<1>1. stack # <<>>
  BY DEF Expand, Searching
<1>2. PICK q \in poolNow :
         /\ DOMAIN placed # NodesOf(space, q)
         /\ stack' = [stack EXCEPT ![Len(stack)].todo = Branches(problem, space, q, placed, Top)]
  BY DEF Expand
<1> DEFINE todo == Branches(problem, space, q, placed, Top)
<1>3. Fixed(problem) /\ SpaceTyped(problem, space)
  BY InputTyped
<1>4. Partial(problem, placed)
  BY <1>3 DEF Partial, IInv, TypeOK, SpaceTyped
<1>5. todo \in SUBSET Branch
  BY <1>3, <1>4, BranchesTyped
<1>6. stack' = [stack EXCEPT ![Len(stack)].todo = todo]
  BY <1>2
<1> HIDE DEF todo
<1>7. LoopHas(todo)
  BY <1>1, <1>5, <1>6, LoopGoesOn DEF LoopHas, IInv
<1> QED
  BY <1>1, <1>2, <1>7 DEF todo

LEMMA ExpandStep ==
    ASSUME InputInv, IInv, Expand
    PROVE  IInv'
<1>1. stack # <<>> /\ UNCHANGED <<input, poolsLeft, poolNow, placed, best, limitHit, result>>
      /\ nodes' = nodes + 1 /\ ~AtLimit /\ entering' = FALSE
  BY DEF Expand, Searching
<1>2. PICK q \in poolNow : LoopHas(Branches(problem, space, q, placed, Top))
  BY ExpandsTo
<1>3. PlacedTyped' /\ StackInv'
  BY <1>1, <1>2, Expanded DEF IInv, StackInv, input
<1>4. ScoresTyped' /\ IncumbentScored'
  BY <1>1, IncumbentStays
<1>5. nodes' \in Nat /\ (nodeLimit # 0 => nodes' <= nodeLimit)
  BY <1>1, NodeCounted DEF IInv
<1>6. limitHit' \in BOOLEAN /\ entering' \in BOOLEAN
  BY <1>1 DEF IInv, TypeOK
<1> QED
  BY <1>1, <1>3, <1>4, <1>5, <1>6, SearchSteps

\* The last call takes a branch of its own and makes the call for it.
LEMMA DescendsTo ==
    ASSUME InputInv, IInv, Descend
    PROVE  /\ stack # <<>>
           /\ \E q \in poolNow, b \in Top.todo :
                 /\ IsBranch(problem, space, q, placed, Top, b)
                 /\ placed' = Extend(placed, b.class, b.at)
                 /\ LoopCalls(Top.todo \ {b},
                              Call(b.class, b.at, SaturatingAdd(Top.cost, b.cost),
                                   Max({Top.peak, b.at + space.size[b.class]})))
<1>1. stack # <<>>
  BY DEF Descend
<1>2. PICK b \in Top.todo :
         /\ placed' = Extend(placed, b.class, b.at)
         /\ stack' = Append([stack EXCEPT ![Len(stack)].todo = @ \ {b}],
                            Call(b.class, b.at, SaturatingAdd(Top.cost, b.cost),
                                 Max({Top.peak, b.at + space.size[b.class]})))
  BY DEF Descend
<1>3. PICK q \in poolNow : TRUE
  BY <1>1 DEF IInv, CallsPlace
<1>4. /\ Fixed(problem) /\ SpaceTyped(problem, space) /\ q \in problem.pools
      /\ Partial(problem, placed) /\ Fits(problem, space, placed)
  <2>1. Fixed(problem) /\ SpaceTyped(problem, space) /\ q \in problem.pools
    BY InputTyped DEF IInv, TypeOK
  <2> QED
    BY <2>1 DEF Partial, IInv, TypeOK, SpaceTyped, Fits, PartialPlacementFits
<1>5. PICK n \in Nat \ {0} : /\ n = Len(stack) /\ n \in DOMAIN stack /\ Top = stack[n]
                             /\ stack[n] \in Invocation
                             /\ PlacedBy(stack, placed, n) = placed
  BY <1>1, LastCall DEF IInv, StackInv
<1>6. /\ Top.todo \subseteq Branches(problem, space, q, placed, Top)
      /\ Top.peak = PeakOf(problem, space, q, placed) /\ Top \in Invocation
  BY <1>5 DEF IInv, BranchesStay, CarriedAlong
<1>7. IsBranch(problem, space, q, placed, Top, b)
  BY <1>6, BranchKnown
<1>8. b \in Branch /\ b.class \in Classes(problem) \ DOMAIN placed
  <2>1. b \in Branch
    BY <1>4, <1>6, BranchesTyped
  <2> QED
    BY <1>4, <1>7, <2>1 DEF IsBranch, NodesOf, SpaceTyped
<1> DEFINE todo == stack[Len(stack)].todo \ {b}
           peak == Max({Top.peak, b.at + space.size[b.class]})
           call == Call(b.class, b.at, SaturatingAdd(Top.cost, b.cost), peak)
<1>9. peak \in 0..MaxUInt
  <2> DEFINE later == Extend(placed, b.class, b.at)
  <2>1. Partial(problem, later)
    BY <1>4, <1>7, <1>8, Extended DEF IsBranch
  <2>2. Fits(problem, space, later)
    BY <1>4, <1>7, <1>8, FitsOneMore DEF IsBranch
  <2>3. PeakOf(problem, space, q, later) = peak
    BY <1>4, <1>6, <1>7, <1>8, PeakGrows DEF IsBranch
  <2> HIDE DEF later, peak
  <2> QED
    BY <1>4, <2>1, <2>2, <2>3, ScoreTyped
<1>10. call \in Invocation
  <2>1. Top.cost \in 0..MaxUInt /\ b.cost \in 0..MaxUInt /\ b.at \in 0..MaxUInt
        /\ b.class \in DOMAIN space.pool
    BY <1>6, <1>8 DEF Invocation, Branch
  <2>2. SaturatingAdd(Top.cost, b.cost) \in 0..MaxUInt
    BY <2>1, SaturatingAddTyped
  <2> HIDE DEF peak
  <2> QED
    BY <1>9, <2>1, <2>2 DEF Call, Invocation
<1>11. todo \in SUBSET Branch /\ todo = Top.todo \ {b}
  BY <1>5 DEF Invocation
<1>12. stack' = Append([stack EXCEPT ![Len(stack)].todo = todo], call)
  BY <1>2
<1> HIDE DEF todo, call
<1>13. LoopCalls(todo, call)
  BY <1>1, <1>10, <1>11, <1>12, Called DEF IInv
<1>14. LoopCalls(todo, Call(b.class, b.at, SaturatingAdd(Top.cost, b.cost), peak))
  BY <1>13 DEF call
<1> HIDE DEF peak
<1>15. LoopCalls(Top.todo \ {b}, Call(b.class, b.at, SaturatingAdd(Top.cost, b.cost), peak))
  BY <1>11, <1>14
<1> QED
  BY <1>1, <1>2, <1>7, <1>15 DEF peak

LEMMA DescendStep ==
    ASSUME InputInv, IInv, Descend
    PROVE  IInv'
<1>1. stack # <<>> /\ UNCHANGED <<input, poolsLeft, poolNow, best, nodes, limitHit, result>>
      /\ entering' = TRUE
  BY DEF Descend
<1>2. PICK q \in poolNow, b \in Top.todo :
         /\ IsBranch(problem, space, q, placed, Top, b)
         /\ placed' = Extend(placed, b.class, b.at)
         /\ LoopCalls(Top.todo \ {b},
                      Call(b.class, b.at, SaturatingAdd(Top.cost, b.cost),
                           Max({Top.peak, b.at + space.size[b.class]})))
  BY DescendsTo
<1>3. UNCHANGED <<problem, space, poolNow>> /\ TypeOK /\ StackInv
  BY <1>1 DEF input, IInv, StackInv
<1>4. PlacedTyped' /\ StackInv'
  <2> DEFINE peak == Max({Top.peak, b.at + space.size[b.class]})
             todo == Top.todo \ {b}
  <2>1. /\ peak = Max({Top.peak, b.at + space.size[b.class]}) /\ todo \in SUBSET Top.todo
        /\ LoopCalls(todo, Call(b.class, b.at, SaturatingAdd(Top.cost, b.cost), peak))
    BY <1>2
  <2> HIDE DEF peak, todo
  <2> QED
    BY <1>1, <1>2, <1>3, <2>1, Descended
<1>5. ScoresTyped' /\ IncumbentScored'
  BY <1>1, IncumbentStays
<1>6. nodes' \in Nat /\ (nodeLimit # 0 => nodes' <= nodeLimit)
      /\ limitHit' \in BOOLEAN /\ entering' \in BOOLEAN
  BY <1>1 DEF IInv, TypeOK
<1> QED
  BY <1>1, <1>4, <1>5, <1>6, SearchSteps

(***************************************************************************)
(* Between the pools                                                       *)
(***************************************************************************)
\* Nothing is placed while no call is in progress.
Idle == stack = <<>> /\ placed = NoOffsets

LEMMA NothingPlaced ==
    ASSUME IInv, stack = <<>>
    PROVE  Idle
<1>1. Len(stack) = 0 /\ 2..0 = {}
  BY EmptySeq
<1>2. DOMAIN placed = {}
  BY <1>1 DEF IInv, StackIsPlacement
<1>3. placed = [c \in DOMAIN placed |-> placed[c]]
  BY DEF IInv, TypeOK
<1> QED
  BY <1>2, <1>3 DEF Idle, NoOffsets

LEMMA IdleKept ==
    ASSUME Idle'
    PROVE  PlacedTyped' /\ StackInv'
<1>1. /\ stack' = <<>> /\ Len(stack') = 0 /\ DOMAIN stack' = {} /\ stack' \in Seq(Invocation')
      /\ DOMAIN placed' = {} /\ placed' \in [DOMAIN placed' -> 0..MaxUInt]
  BY EmptySeq DEF Idle, NoOffsets
<1>2. 2..0 = {} /\ 3..0 = {}
  OBVIOUS
<1>3. PlacedTyped'
  BY <1>1 DEF PlacedTyped
<1>4. CallsPlace'
  BY <1>1, <1>2 DEF CallsPlace
<1>5. StackIsPlacement'
  BY <1>1, <1>2 DEF StackIsPlacement
<1>6. CarriedAlong' /\ BranchesStay' /\ PartialPlacementFits'
  BY <1>1 DEF CarriedAlong, BranchesStay, PartialPlacementFits
<1> QED
  BY <1>3, <1>4, <1>5, <1>6 DEF StackInv

LEMMA NothingCosts ==
    ASSUME Fixed(problem), SpaceTyped(problem, space), NEW q \in problem.pools
    PROVE  /\ PoolReuseCost(space, NoOffsets) = 0
           /\ PeakOf(problem, space, q, NoOffsets) \in 0..MaxUInt
<1>1. DOMAIN NoOffsets = {} /\ Pays(space, NoOffsets) = {}
  BY DEF NoOffsets, Pays
<1>2. SumOver(space.soft, {}) = 0
  BY FS_EmptySet, SumUnfolds DEF InWordsOver
<1>3. Partial(problem, NoOffsets) /\ Fits(problem, space, NoOffsets)
  BY <1>1 DEF Partial, Fits, NoOffsets
<1> QED
  BY <1>1, <1>2, <1>3, PoolCostSums, ScoreTyped

\* The seed is an incumbent for every pool.
LEMMA SeedScored ==
    ASSUME InputInv, NEW q \in problem.pools, NEW kept \in SeedOf(q)
    PROVE  /\ kept.score \in Scores
           /\ DOMAIN kept.offset = NodesOf(space, q)
           /\ kept.score = PoolScore(problem, PoolReuseCost(space, kept.offset),
                                     PeakOf(problem, space, q, kept.offset))
           /\ \A c \in NodesOf(space, q) :
                  FitsReuseNodeAt(problem, space, kept.offset, c, kept.offset[c])
<1>1. Fixed(problem) /\ SpaceTyped(problem, space)
  BY InputTyped
<1>2. PICK sol \in seed :
         LET off == SeedPlacement(space, q, sol)
         IN  kept = [offset |-> off,
                     score |-> PoolScore(problem, PoolReuseCost(space, off),
                                         PeakOf(problem, space, q, off))]
  BY DEF SeedOf
<1>3. ValidSolution(problem, sol) /\ \A b \in problem.buffers : sol[b].offset \in 0..MaxUInt
  BY <1>2, SeedsAssumption DEF InputInv
<1> DEFINE off == SeedPlacement(space, q, sol)
<1>4. /\ kept.offset = off
      /\ kept.score = PoolScore(problem, PoolReuseCost(space, off), PeakOf(problem, space, q, off))
  BY <1>2
<1>5. Partial(problem, off) /\ Fits(problem, space, off)
  BY <1>1, <1>3, SeedFits
<1>6. DOMAIN off = NodesOf(space, q)
  BY DEF SeedPlacement
<1> HIDE DEF off
<1>7. PoolScore(problem, PoolReuseCost(space, off), PeakOf(problem, space, q, off)) \in Scores
  BY <1>1, <1>5, ScoreTyped
<1> QED
  BY <1>4, <1>5, <1>6, <1>7 DEF Fits

LEMMA StartPoolStep ==
    ASSUME InputInv, IInv, NEW q \in poolsLeft, StartPool(q)
    PROVE  IInv'
<1>1. /\ poolNow = {} /\ status = "none"
      /\ poolsLeft' = poolsLeft \ {q} /\ poolNow' = {q}
      /\ best' = IF stopAfterFirst THEN {} ELSE SeedOf(q)
      /\ entering' = TRUE /\ nodes' = 0 /\ limitHit' = FALSE
      /\ UNCHANGED <<input, placed, result>>
  BY DEF StartPool
<1> DEFINE peak == PeakOf(problem, space, q, NoOffsets)
           call == Call(NoClass, 0, 0, peak)
<1>2. stack' = <<call>>
  BY DEF StartPool
<1>3. placed = NoOffsets
  <2>1. stack = <<>>
    BY <1>1 DEF IInv, CallsPlace
  <2> QED
    BY <2>1, NothingPlaced DEF Idle
<1>4. q \in problem.pools /\ Fixed(problem) /\ SpaceTyped(problem, space)
  BY InputTyped DEF IInv, TypeOK
<1>5. PoolReuseCost(space, NoOffsets) = 0 /\ peak \in 0..MaxUInt
  BY <1>4, NothingCosts
<1>6. /\ call.class = NoClass /\ call.at = 0 /\ call.cost = 0 /\ call.peak = peak
      /\ call.todo = {}
  BY DEF Call
<1>7. call \in Invocation'
  BY <1>5, MaxUIntAssumption DEF Call, Invocation
<1>8. peak = PeakOf(problem, space, q, NoOffsets)
  OBVIOUS
<1> HIDE DEF peak, call
<1>9. /\ stack' \in Seq(Invocation') /\ Len(stack') = 1 /\ DOMAIN stack' = {1}
      /\ stack'[1] = call
  BY <1>2, <1>7
<1>10. 2..1 = {} /\ 3..1 = {} /\ stack' # <<>>
  BY <1>9, EmptySeq
<1>11. /\ placed' = NoOffsets /\ DOMAIN placed' = {}
       /\ PlacedBy(stack', placed', 1) = NoOffsets
  BY <1>1, <1>3, <1>10 DEF PlacedBy, NoOffsets
<1>12. UNCHANGED <<problem, space>> /\ Scores' = Scores
  BY <1>1 DEF input, Scores
<1>13. CallsPlace'
  BY <1>1, <1>6, <1>9, <1>10 DEF CallsPlace
<1>14. StackIsPlacement'
  BY <1>9, <1>10, <1>11 DEF StackIsPlacement
<1>15. CarriedAlong'
  <2>1. /\ call.cost = PoolReuseCost(space', PlacedBy(stack', placed', 1))
        /\ call.peak = PeakOf(problem', space', q, PlacedBy(stack', placed', 1))
    BY <1>5, <1>6, <1>8, <1>11, <1>12
  <2> QED
    BY <1>1, <1>9, <2>1 DEF CarriedAlong
<1>16. BranchesStay'
  BY <1>6, <1>9 DEF BranchesStay
<1>17. PartialPlacementFits'
  BY <1>11 DEF PartialPlacementFits
<1>18. ScoresTyped'
  BY <1>1, <1>4, <1>12, SeedScored DEF ScoresTyped
<1>19. IncumbentScored'
  <2>1. \A kept \in best' : kept \in SeedOf(q)
    BY <1>1
  <2> QED
    BY <1>1, <1>4, <1>12, <2>1, SeedScored DEF IncumbentScored
<1>20. TypeOK'
  <2>1. /\ DOMAIN placed' \subseteq DOMAIN space'.pool
        /\ placed' \in [DOMAIN placed' -> 0..MaxUInt]
    BY <1>11 DEF NoOffsets
  <2>2. poolsLeft' \subseteq problem'.pools /\ poolNow' \in {{}} \cup {{r} : r \in problem'.pools}
    BY <1>1, <1>4, <1>12 DEF IInv, TypeOK
  <2>3. nodes' \in Nat /\ (nodeLimit' # 0 => nodes' <= nodeLimit')
    BY <1>1 DEF IInv, TypeOK, input
  <2> QED
    BY <1>1, <1>18, <2>1, <2>2, <2>3 DEF IInv, TypeOK, ScoresTyped, input, result
<1> QED
  BY <1>13, <1>14, <1>15, <1>16, <1>17, <1>19, <1>20 DEF IInv

LEMMA SkipPoolStep ==
    ASSUME IInv, NEW q \in poolsLeft, SkipPool(q)
    PROVE  IInv'
<1>1. stack = <<>>
  BY DEF IInv, CallsPlace, SkipPool
<1>2. Idle'
  BY <1>1, NothingPlaced DEF Idle, SkipPool, search
<1>3. StackInv'
  BY <1>2, IdleKept
<1>4. ScoresTyped' /\ IncumbentScored'
  BY IncumbentStays DEF SkipPool, search
<1>5. TypeOK'
  BY <1>4 DEF IInv, TypeOK, SkipPool, ScoresTyped, input, search, result
<1> QED
  BY <1>3, <1>4, <1>5 DEF IInv, StackInv

LEMMA PoolDoneStep ==
    ASSUME IInv, PoolDone
    PROVE  IInv'
<1>1. /\ stack = <<>> /\ poolNow' = {} /\ UNCHANGED <<input, poolsLeft, search, solution>>
      /\ status' \in {status, "kTimeout", "kInfeasibleProven"}
      /\ anyTimeout' \in {anyTimeout, anyTimeout \/ limitHit}
  BY DEF PoolDone
<1>2. Idle'
  BY <1>1, NothingPlaced DEF Idle, search
<1>3. StackInv'
  BY <1>2, IdleKept
<1>4. ScoresTyped'
  BY <1>1 DEF IInv, TypeOK, ScoresTyped, Scores, input, search
<1>5. IncumbentScored'
  BY <1>1 DEF IncumbentScored
<1>6. TypeOK'
  <2>1. anyTimeout' \in BOOLEAN
    BY <1>1 DEF IInv, TypeOK
  <2>2. stack' = <<>> /\ placed' = NoOffsets
    BY <1>2 DEF Idle
  <2> QED
    BY <1>1, <1>4, <2>1, <2>2 DEF IInv, TypeOK, ScoresTyped, input, search
<1> QED
  BY <1>3, <1>5, <1>6 DEF IInv, StackInv

LEMMA AllPoolsDoneStep ==
    ASSUME IInv, AllPoolsDone
    PROVE  IInv'
<1>1. /\ poolNow = {} /\ UNCHANGED <<input, poolsLeft, poolNow, search, anyTimeout>>
      /\ status' \in {"kTimeout", "kFeasible"} /\ solution' # {}
  BY DEF AllPoolsDone
<1>2. stack = <<>>
  BY <1>1 DEF IInv, CallsPlace
<1>3. Idle'
  BY <1>1, <1>2, NothingPlaced DEF Idle, search
<1>4. StackInv'
  BY <1>3, IdleKept
<1>5. ScoresTyped' /\ IncumbentScored'
  BY <1>1, IncumbentStays DEF search
<1>6. TypeOK'
  <2>1. stack' = <<>> /\ placed' = NoOffsets
    BY <1>3 DEF Idle
  <2> QED
    BY <1>1, <1>5, <2>1 DEF IInv, TypeOK, ScoresTyped, input, search
<1> QED
  BY <1>4, <1>5, <1>6 DEF IInv, StackInv

LEMMA StutterStep ==
    ASSUME IInv, UNCHANGED vars
    PROVE  IInv'
<1>1. ScoresTyped' /\ IncumbentScored'
  BY IncumbentStays DEF vars, search
<1>2. TypeOK'
  BY <1>1 DEF IInv, TypeOK, ScoresTyped, vars, input, search, result
<1>3. CallsPlace'
  BY DEF IInv, CallsPlace, Invocation, Branch, vars, input, search
<1>4. StackIsPlacement' /\ PartialPlacementFits'
  BY DEF IInv, StackIsPlacement, PartialPlacementFits, vars, input, search
<1>5. CarriedAlong'
  BY DEF IInv, CarriedAlong, vars, input, search
<1>6. BranchesStay'
  BY DEF IInv, BranchesStay, vars, input, search
<1> QED
  BY <1>1, <1>2, <1>3, <1>4, <1>5, <1>6 DEF IInv

(***************************************************************************)
(* The theorems                                                            *)
(***************************************************************************)
LEMMA InitInv ==
    ASSUME Init
    PROVE  InputInv /\ IInv
<1>1. InputInv
  BY DEF Init, InputInv
<1>2. stack = <<>> /\ placed = NoOffsets /\ best = {} /\ poolNow = {}
  BY DEF Init
<1>3. stack \in Seq(Invocation) /\ Len(stack) = 0 /\ DOMAIN stack = {} /\ DOMAIN placed = {}
      /\ 2..0 = {} /\ 3..0 = {}
  BY <1>2, EmptySeq DEF NoOffsets
<1>4. TypeOK
  <2>1. nodeLimit \in Nat /\ stopAfterFirst \in BOOLEAN
    BY LimitsAssumption DEF Init
  <2>2. poolsLeft \subseteq problem.pools /\ poolNow \in {{}} \cup {{q} : q \in problem.pools}
    BY DEF Init
  <2>3. DOMAIN placed \subseteq DOMAIN space.pool /\ placed \in [DOMAIN placed -> 0..MaxUInt]
    BY <1>2 DEF NoOffsets
  <2>4. limitHit \in BOOLEAN /\ entering \in BOOLEAN /\ anyTimeout \in BOOLEAN
        /\ nodes = 0 /\ status = "none"
    BY DEF Init
  <2>5. nodes \in Nat /\ (nodeLimit # 0 => nodes <= nodeLimit)
    BY <2>1, <2>4
  <2> QED
    BY <1>2, <2>1, <2>2, <2>3, <2>4, <2>5 DEF TypeOK
<1>5. CallsPlace
  BY <1>2, <1>3 DEF CallsPlace
<1>6. StackIsPlacement
  BY <1>2, <1>3 DEF StackIsPlacement
<1>7. CarriedAlong /\ BranchesStay /\ PartialPlacementFits /\ IncumbentScored
  BY <1>2, <1>3 DEF CarriedAlong, BranchesStay, PartialPlacementFits, IncumbentScored
<1> QED
  BY <1>1, <1>4, <1>5, <1>6, <1>7 DEF IInv

LEMMA NextInv ==
    ASSUME InputInv, IInv, [Next]_vars
    PROVE  InputInv' /\ IInv'
<1>1. InputInv'
  <2>1. UNCHANGED input
    BY DEF Next, SkipPool, StartPool, HitLimit, Prune, Leaf, Expand, Descend, LoopEnds,
           PoolDone, AllPoolsDone, Terminated, vars
  <2> QED
    BY <2>1 DEF InputInv, input
<1>2. IInv'
  <2>1. ASSUME NEW q \in poolsLeft, SkipPool(q) PROVE IInv'
    BY <2>1, SkipPoolStep
  <2>2. ASSUME NEW q \in poolsLeft, StartPool(q) PROVE IInv'
    BY <2>2, StartPoolStep
  <2>3. CASE HitLimit \/ Prune \/ LoopEnds
    BY <2>3, ReturnStep
  <2>4. CASE Leaf
    BY <2>4, LeafStep
  <2>5. CASE Expand
    BY <2>5, ExpandStep
  <2>6. CASE Descend
    BY <2>6, DescendStep
  <2>7. CASE PoolDone
    BY <2>7, PoolDoneStep
  <2>8. CASE AllPoolsDone
    BY <2>8, AllPoolsDoneStep
  <2>9. CASE Terminated \/ UNCHANGED vars
    BY <2>9, StutterStep DEF Terminated
  <2> QED
    BY <2>1, <2>2, <2>3, <2>4, <2>5, <2>6, <2>7, <2>8, <2>9 DEF Next
<1> QED
  BY <1>1, <1>2

\* Undo and redo keep the books: whatever was placed, pruned and taken back, the
\* placed classes are those of the calls in progress, what every call carries is
\* the cost and the peak of the partial placement it was made with, and the
\* incumbent fits and carries its own score (PoolCanonicalSearch::Search).
THEOREM Safety == Spec => []IInv
<1>1. Init => InputInv /\ IInv
  BY InitInv
<1>2. InputInv /\ IInv /\ [Next]_vars => (InputInv /\ IInv)'
  BY NextInv
<1> QED
  BY <1>1, <1>2, PTL DEF Spec

(***************************************************************************)
(* What the search is compared with: the placements of a pool at whatever  *)
(* offsets, and their scores.                                              *)
(***************************************************************************)
Full(q, off) ==
    /\ off \in [NodesOf(space, q) -> 0..MaxUInt]
    /\ Fits(problem, space, off)
    /\ \A c \in DOMAIN off : Aligned(off[c], space.alignment[c])

ScoreOf(q, off) ==
    PoolScore(problem, PoolReuseCost(space, off), PeakOf(problem, space, q, off))

\* What is known of a node of a pool, and of its place in a placement that fits.
LEMMA NodeKnown ==
    ASSUME InputInv, NEW q, NEW c \in NodesOf(space, q)
    PROVE  /\ c \in Classes(problem) /\ PoolOf(problem, c) = q /\ space.pool[c] = q
           /\ q \in problem.pools
           /\ space.size[c] = ClassSize(problem, c) /\ space.size[c] \in 1..MaxUInt
           /\ space.alignment[c] = ClassAlignment(problem, c)
           /\ space.alignment[c] \in Nat \ {0}
<1>1. Fixed(problem) /\ SpaceTyped(problem, space) /\ space = SearchSpace(problem)
  BY InputTyped DEF InputInv
<1>2. /\ c \in Classes(problem) /\ PoolOf(problem, c) = q /\ space.pool[c] = q
      /\ q \in problem.pools
      /\ space.size[c] = ClassSize(problem, c) /\ space.size[c] \in 0..MaxUInt
  BY <1>1 DEF NodesOf, SpaceTyped
<1>3. space.alignment[c] = ClassAlignment(problem, c) /\ space.alignment[c] \in Nat \ {0}
  BY <1>1, <1>2, SpaceWeighs
<1>4. ClassSize(problem, c) # 0
  <2>1. c # {} /\ c \in SUBSET problem.buffers /\ ProblemTyped(problem)
    BY <1>1, <1>2, NodesTyped DEF Fixed
  <2>2. \A b \in c : problem.size[b] # 0
    BY <1>1, <2>1, FixedKnown DEF ValidProblem, ValidBuffer
  <2> QED
    BY <2>1, <2>2, ClassSizeLargest
<1>5. space.size[c] \in 1..MaxUInt
  BY <1>2, <1>4, MaxUIntAssumption
<1> QED
  BY <1>2, <1>3, <1>5

\* A reserved range is met by the test of the engine when it is by that of the
\* search, and so are two placed classes.
LEMMA RangeMet ==
    ASSUME NEW at \in 0..MaxUInt, NEW size \in 1..MaxUInt, at + size <= MaxUInt,
           NEW low \in 0..MaxUInt, NEW high \in 0..MaxUInt, low < high
    PROVE  AddressRangesOverlap(at, size, low, high - low)
               <=> ~(high <= at \/ at + size <= low)
  BY MaxUIntAssumption DEF AddressRangesOverlap, AddOverflows

\* The offsets at which the placement engine would place a class are those at
\* which it fits.
LEMMA AdmissibleIsFit ==
    ASSUME InputInv, NEW q, NEW off \in [NodesOf(space, q) -> 0..MaxUInt],
           NEW c \in NodesOf(space, q),
           \A d \in NodesOf(space, q) : off[d] + space.size[d] <= MaxUInt
    PROVE  /\ Admissible(problem, [d \in DOMAIN off \ {c} |-> off[d]], c, off[c])
           /\ off[c] + ClassSize(problem, c) <= problem.capacity[q]
           <=>
           FitsReuseNodeAt(problem, space, off, c, off[c]) /\ Aligned(off[c], space.alignment[c])
<1> DEFINE rest == [d \in DOMAIN off \ {c} |-> off[d]]
           at == off[c]
           size == space.size[c]
<1>1. /\ Fixed(problem) /\ SpaceTyped(problem, space) /\ q \in DOMAIN problem.capacity
      /\ c \in Classes(problem) /\ PoolOf(problem, c) = q /\ space.pool[c] = q
      /\ size = ClassSize(problem, c) /\ size \in 1..MaxUInt
      /\ space.alignment[c] = ClassAlignment(problem, c)
  BY NodeKnown, InputTyped, ProblemsAssumption DEF InputInv
<1>2. /\ DOMAIN rest = NodesOf(space, q) \ {c} /\ at \in 0..MaxUInt /\ at + size <= MaxUInt
      /\ \A d \in DOMAIN rest : rest[d] = off[d]
  OBVIOUS
<1> HIDE DEF rest, at, size
<1>3. ~AddOverflows(at, size)
  BY <1>1, <1>2, MaxUIntAssumption DEF AddOverflows
<1>4. (\A r \in problem.reserved[q] : r[2] <= at \/ at + size <= r[1])
          <=> ~OverlapsReserved(problem, q, at, size)
  <2>1. \A r \in problem.reserved[q] : r[1] \in 0..MaxUInt /\ r[2] \in 0..MaxUInt /\ r[1] < r[2]
    <3>1. q \in problem.pools
      BY NodeKnown
    <3> QED
      BY <1>1, <3>1, FixedKnown DEF Fixed, ProblemTyped, ValidProblem, ValidPool
  <2>2. \A r \in problem.reserved[q] :
            AddressRangesOverlap(at, size, r[1], r[2] - r[1])
                <=> ~(r[2] <= at \/ at + size <= r[1])
    BY <1>1, <1>2, <2>1, RangeMet
  <2> QED
    BY <2>2 DEF OverlapsReserved
<1>5. ASSUME NEW d \in NodesOf(space, q) \ {c}
      PROVE  /\ Blocks(problem, c, d) <=> <<c, d>> \in space.hard
             /\ Touches(space, off, c, at, d)
                    <=> ~(off[d] + ClassSize(problem, d) <= at \/ at + size <= off[d])
  <2>1. d \in Classes(problem) /\ space.size[d] = ClassSize(problem, d) /\ space.size[d] \in 1..MaxUInt
    BY NodeKnown
  <2>2. Blocks(problem, c, d) <=> <<c, d>> \in space.hard
    BY <1>1, <2>1 DEF SpaceTyped
  <2> DEFINE low == off[d]
             len == space.size[d]
  <2>3. low \in 0..MaxUInt /\ len \in 1..MaxUInt /\ low + len <= MaxUInt
    BY <2>1
  <2>4. Touches(space, off, c, at, d) <=> AddressRangesOverlap(at, size, low, len)
    BY DEF Touches, size
  <2>5. low + len = off[d] + ClassSize(problem, d) /\ low = off[d]
    BY <2>1
  <2> HIDE DEF low, len
  <2>6. AddressRangesOverlap(at, size, low, len) <=> ~(low + len <= at \/ at + size <= low)
    BY <1>1, <1>2, <2>3, MaxUIntAssumption DEF AddressRangesOverlap, AddOverflows
  <2> QED
    BY <2>2, <2>4, <2>5, <2>6
<1>6. (\A d \in DOMAIN rest : Blocks(problem, c, d)
                                  => rest[d] + ClassSize(problem, d) <= at \/ at + size <= rest[d])
          <=> (\A d \in DOMAIN off : <<c, d>> \in space.hard => ~Touches(space, off, c, at, d))
  <2>1. <<c, c>> \notin space.hard
    BY <1>1 DEF SpaceTyped
  <2> QED
    BY <1>2, <1>5, <2>1
<1>7. Clear(problem, rest, c, at)
          <=> /\ \A r \in problem.reserved[q] : r[2] <= at \/ at + size <= r[1]
              /\ \A d \in DOMAIN rest : Blocks(problem, c, d)
                                  => rest[d] + ClassSize(problem, d) <= at \/ at + size <= rest[d]
  <2> DEFINE R == problem.reserved[q]
             S == {d \in DOMAIN rest : Blocks(problem, c, d)}
             U == {<<rest[d], rest[d] + ClassSize(problem, d)>> : d \in S}
             Apart(r) == r[2] <= at \/ at + size <= r[1]
  <2>1. BlockedRanges(problem, rest, c) = R \cup U
    BY <1>1 DEF BlockedRanges
  <2>2. Clear(problem, rest, c, at) <=> \A r \in R \cup U : Apart(r)
    BY <1>1, <2>1 DEF Clear
  <2>3. (\A r \in U : Apart(r))
            <=> \A d \in S : rest[d] + ClassSize(problem, d) <= at \/ at + size <= rest[d]
    <3>1. ASSUME NEW d \in S
          PROVE  /\ <<rest[d], rest[d] + ClassSize(problem, d)>> \in U
                 /\ Apart(<<rest[d], rest[d] + ClassSize(problem, d)>>)
                        <=> rest[d] + ClassSize(problem, d) <= at \/ at + size <= rest[d]
      OBVIOUS
    <3> HIDE DEF Apart, S
    <3> QED
      BY <3>1
  <2>4. (\A r \in R \cup U : Apart(r)) <=> (\A r \in R : Apart(r)) /\ (\A r \in U : Apart(r))
    <3> HIDE DEF R, U, Apart
    <3> QED
      OBVIOUS
  <2> QED
    BY <2>2, <2>3, <2>4
<1>8. Admissible(problem, rest, c, at)
          <=> Aligned(at, space.alignment[c]) /\ Clear(problem, rest, c, at)
  BY <1>1, <1>2 DEF Admissible
<1> QED
  BY <1>1, <1>3, <1>4, <1>6, <1>7, <1>8 DEF FitsReuseNodeAt, rest, at, size

LEMMA PoolPlacementsAre ==
    ASSUME InputInv, NEW q \in problem.pools, NEW off
    PROVE  off \in PoolPlacements(problem, q) <=> Full(q, off)
<1> DEFINE cap == problem.capacity[q]
           Fit(f) == \A c \in DOMAIN f :
                         /\ Admissible(problem, [d \in DOMAIN f \ {c} |-> f[d]], c, f[c])
                         /\ f[c] + ClassSize(problem, c) <= cap
<1>1. {c \in Classes(problem) : PoolOf(problem, c) = q} = NodesOf(space, q)
  BY InputTyped DEF NodesOf, SpaceTyped
<1>2. cap \in 0..MaxUInt /\ q \in DOMAIN problem.capacity
  BY ProblemsAssumption DEF InputInv, ProblemTyped
<1>3. off \in PoolPlacements(problem, q)
          <=> off \in [NodesOf(space, q) -> 0..cap] /\ Fit(off)
  BY <1>1 DEF PoolPlacements
<1>4. \A c \in NodesOf(space, q) : /\ space.size[c] = ClassSize(problem, c)
                                   /\ space.size[c] \in 1..MaxUInt /\ space.pool[c] = q
  BY NodeKnown
<1>5. ASSUME off \in [NodesOf(space, q) -> 0..cap], Fit(off) PROVE Full(q, off)
  <2>1. off \in [NodesOf(space, q) -> 0..MaxUInt]
    <3> HIDE DEF cap, Fit
    <3>1. 0..cap \subseteq 0..MaxUInt
      BY <1>2, MaxUIntAssumption
    <3> QED
      BY <1>5, <3>1
  <2>2. \A d \in NodesOf(space, q) : off[d] + space.size[d] <= MaxUInt
    <3> TAKE d \in NodesOf(space, q)
    <3>1. off[d] + space.size[d] <= cap
      BY <1>4, <1>5
    <3>2. off[d] \in 0..MaxUInt /\ space.size[d] \in 1..MaxUInt
      BY <1>4, <2>1
    <3> HIDE DEF cap
    <3> QED
      BY <1>2, <3>1, <3>2, MaxUIntAssumption
  <2>3. \A c \in NodesOf(space, q) :
            /\ FitsReuseNodeAt(problem, space, off, c, off[c])
            /\ Aligned(off[c], space.alignment[c])
    BY <1>5, <2>1, <2>2, AdmissibleIsFit
  <2> QED
    BY <2>1, <2>3 DEF Full, Fits
<1>6. ASSUME Full(q, off) PROVE off \in [NodesOf(space, q) -> 0..cap] /\ Fit(off)
  <2>1. off \in [NodesOf(space, q) -> 0..MaxUInt]
    BY <1>6 DEF Full
  <2>2. ASSUME NEW d \in NodesOf(space, q)
        PROVE  /\ FitsReuseNodeAt(problem, space, off, d, off[d])
               /\ Aligned(off[d], space.alignment[d])
               /\ off[d] + space.size[d] <= MaxUInt /\ off[d] + space.size[d] <= cap
    <3>1. /\ FitsReuseNodeAt(problem, space, off, d, off[d])
          /\ Aligned(off[d], space.alignment[d])
      BY <1>6, <2>1 DEF Full, Fits
    <3>2. ~AddOverflows(off[d], space.size[d]) /\ off[d] + space.size[d] <= cap
      BY <1>2, <1>4, <3>1 DEF FitsReuseNodeAt
    <3>3. off[d] \in 0..MaxUInt /\ space.size[d] \in 1..MaxUInt
      BY <1>4, <2>1
    <3> QED
      BY <3>1, <3>2, <3>3, MaxUIntAssumption DEF AddOverflows
  <2>3. off \in [NodesOf(space, q) -> 0..cap]
    <3>1. ASSUME NEW d \in NodesOf(space, q) PROVE off[d] \in 0..cap
      <4>1. off[d] \in 0..MaxUInt /\ space.size[d] \in 1..MaxUInt /\ off[d] + space.size[d] <= cap
        BY <1>4, <2>1, <2>2
      <4> HIDE DEF cap
      <4> QED
        BY <1>2, <4>1, MaxUIntAssumption
    <3> QED
      BY <2>1, <3>1
  <2>4. Fit(off)
    BY <2>1, <2>2, AdmissibleIsFit
  <2> QED
    BY <2>3, <2>4
<1> QED
  BY <1>3, <1>5, <1>6

\* Where SolutionOf has the members of the classes.
LEMMA SolutionPlaces ==
    ASSUME InputInv, NEW q, NEW off \in [NodesOf(space, q) -> 0..MaxUInt]
    PROVE  LET sol == SolutionOf(problem, off)
           IN  /\ DOMAIN sol = UNION NodesOf(space, q)
               /\ \A c \in NodesOf(space, q) : \A b \in c :
                      /\ b \in problem.buffers /\ ClassOf(problem, b) = c
                      /\ sol[b].pool = q /\ sol[b].offset = off[c]
               /\ \A b \in DOMAIN sol : ClassOf(problem, b) \in NodesOf(space, q)
               /\ \A b \in problem.buffers :
                      ClassOf(problem, b) \in NodesOf(space, q) => b \in DOMAIN sol
<1> DEFINE sol == SolutionOf(problem, off)
<1>1. /\ DOMAIN sol = UNION NodesOf(space, q)
      /\ \A b \in DOMAIN sol : /\ sol[b].pool = PoolOf(problem, ClassOf(problem, b))
                               /\ sol[b].offset = off[ClassOf(problem, b)]
  BY DEF SolutionOf
<1> HIDE DEF sol
<1>2. KnownColocations(problem)
  BY InputTyped, FixedKnown DEF Known
<1>3. ASSUME NEW c \in NodesOf(space, q), NEW b \in c
      PROVE  /\ b \in problem.buffers /\ ClassOf(problem, b) = c
             /\ sol[b].pool = q /\ sol[b].offset = off[c]
  <2>1. c \in Classes(problem) /\ PoolOf(problem, c) = q
    BY NodeKnown
  <2>2. b \in problem.buffers /\ ClassOf(problem, b) = c
    BY <1>2, <2>1, ClassIsOfMember
  <2> QED
    BY <1>1, <2>1, <2>2
<1>4. \A b \in DOMAIN sol : ClassOf(problem, b) \in NodesOf(space, q)
  BY <1>1, <1>3
<1>5. \A b \in problem.buffers : ClassOf(problem, b) \in NodesOf(space, q) => b \in DOMAIN sol
  BY <1>1, ClassMembers
<1> QED
  BY <1>1, <1>3, <1>4, <1>5 DEF sol

\* The peak of the search is the one EvaluateObjective finds.
LEMMA SamePeak ==
    ASSUME InputInv, NEW q \in problem.pools, NEW off, Full(q, off)
    PROVE  PeakOfPool(problem, SolutionOf(problem, off), q) = PeakOf(problem, space, q, off)
<1> DEFINE sol == SolutionOf(problem, off)
           R == {0} \cup {r[2] : r \in problem.reserved[q]}
           U == Ends(problem, space, q, off)
           members == {x \in DOMAIN sol : sol[x].pool = q /\ ~AddOverflows(sol[x].offset, problem.size[x])}
           T == R \cup {sol[b].offset + problem.size[b] : b \in members}
<1>1. /\ off \in [NodesOf(space, q) -> 0..MaxUInt] /\ Fits(problem, space, off)
      /\ Fixed(problem) /\ SpaceTyped(problem, space) /\ Partial(problem, off)
  <2>1. Fixed(problem) /\ SpaceTyped(problem, space)
    BY InputTyped
  <2>2. NodesOf(space, q) \subseteq Classes(problem)
    BY NodeKnown
  <2> QED
    BY <2>1, <2>2 DEF Full, Partial
<1>2. U \in SUBSET (0..MaxUInt) /\ U # {}
  BY <1>1, EndsTyped DEF Fixed
<1>3. PeakOfPool(problem, sol, q) = Max(T) /\ PeakOf(problem, space, q, off) = Max(U)
  BY DEF PeakOfPool, PeakOf, Ends
<1>4. /\ DOMAIN sol = UNION NodesOf(space, q)
      /\ \A c \in NodesOf(space, q) : \A b \in c :
             /\ b \in problem.buffers /\ ClassOf(problem, b) = c
             /\ sol[b].pool = q /\ sol[b].offset = off[c]
  BY <1>1, SolutionPlaces
<1> HIDE DEF sol
<1>5. ASSUME NEW c \in NodesOf(space, q)
      PROVE  /\ \A b \in c : /\ problem.size[b] \in 0..MaxUInt /\ problem.size[b] <= space.size[c]
             /\ \E b \in c : problem.size[b] = space.size[c]
             /\ off[c] \in 0..MaxUInt /\ space.size[c] \in 1..MaxUInt
             /\ off[c] + space.size[c] <= MaxUInt
  <2>1. c # {} /\ c \in SUBSET problem.buffers /\ space.size[c] = ClassSize(problem, c)
        /\ space.size[c] \in 1..MaxUInt
    BY <1>1, NodeKnown, NodesTyped
  <2>2. /\ \A b \in c : problem.size[b] \in 0..MaxUInt /\ problem.size[b] <= space.size[c]
        /\ \E b \in c : problem.size[b] = space.size[c]
    BY <1>1, <2>1, ClassSizeLargest DEF Fixed, ProblemTyped
  <2>3. off[c] \in 0..MaxUInt /\ ~AddOverflows(off[c], space.size[c])
    BY <1>1 DEF Fits, FitsReuseNodeAt
  <2> QED
    BY <2>1, <2>2, <2>3, MaxUIntAssumption DEF AddOverflows
<1>6. ASSUME NEW b \in members
      PROVE  /\ sol[b].offset + problem.size[b] \in 0..MaxUInt
             /\ \E m \in U : sol[b].offset + problem.size[b] <= m
  <2>1. PICK c \in NodesOf(space, q) : b \in c
    BY <1>4
  <2>2. sol[b].offset = off[c] /\ off[c] + space.size[c] \in U
    BY <1>1, <1>4, <2>1 DEF Ends
  <2> QED
    BY <1>5, <2>1, <2>2, MaxUIntAssumption
<1>7. U \subseteq T
  <2>1. ASSUME NEW c \in NodesOf(space, q) PROVE off[c] + space.size[c] \in T
    <3>1. PICK b \in c : problem.size[b] = space.size[c]
      BY <1>5
    <3>2. sol[b].pool = q /\ sol[b].offset = off[c] /\ b \in DOMAIN sol
      BY <1>4
    <3>3. ~AddOverflows(sol[b].offset, problem.size[b])
      BY <1>5, <3>1, <3>2, MaxUIntAssumption DEF AddOverflows
    <3>4. b \in members
      BY <3>2, <3>3
    <3> QED
      BY <3>1, <3>2, <3>4
  <2> QED
    BY <1>1, <2>1 DEF Ends
<1>8. R \subseteq U
  BY DEF Ends
<1>9. T \in SUBSET (0..MaxUInt)
  BY <1>2, <1>6, <1>8
<1>10. \A n \in T : \E m \in U : n <= m
  <2> TAKE n \in T
  <2>1. CASE n \in R
    <3>1. n \in U /\ n <= n
      BY <1>2, <1>8, <2>1
    <3> QED
      BY <3>1
  <2>2. CASE n \notin R
    <3>1. PICK b \in members : n = sol[b].offset + problem.size[b]
      BY <2>2
    <3> HIDE DEF members, U
    <3> QED
      BY <1>6, <3>1
  <2> QED
    BY <2>1, <2>2
<1> HIDE DEF T, U, R, members
<1>11. Max(T) = Max(U)
  BY <1>2, <1>7, <1>9, <1>10, MaxSame, MaxUIntAssumption
<1> QED
  BY <1>3, <1>11 DEF sol

\* The penalties that a placement of the pool pays are those of its touching
\* neighbours: classes that block each other do not touch.
Active(sol) == {i \in DOMAIN problem.penalties : PenaltyActive(problem, sol, problem.penalties[i])}

LEMMA ActiveOfPairs ==
    ASSUME InputInv, NEW q \in problem.pools, NEW off, Full(q, off)
    PROVE  Active(SolutionOf(problem, off)) =
               UNION {PenaltiesBetween(problem, edge[1], edge[2]) : edge \in Pays(space, off)}
<1> DEFINE sol == SolutionOf(problem, off)
           N == NodesOf(space, q)
           Touch(c, d) == AddressRangesOverlap(off[c], ClassSize(problem, c), off[d], ClassSize(problem, d))
<1>1. /\ off \in [N -> 0..MaxUInt] /\ Fits(problem, space, off) /\ Fixed(problem)
      /\ SpaceTyped(problem, space) /\ DOMAIN space.soft = SoftEdges(problem)
  BY InputTyped, SpaceWeighs DEF Full, InputInv
<1>2. /\ DOMAIN sol = UNION N
      /\ \A c \in N : \A b \in c : sol[b].pool = q /\ sol[b].offset = off[c]
      /\ \A b \in DOMAIN sol : ClassOf(problem, b) \in N
      /\ \A b \in problem.buffers : ClassOf(problem, b) \in N => b \in DOMAIN sol
      /\ \A b \in DOMAIN sol : b \in problem.buffers /\ b \in ClassOf(problem, b)
  <2>1. /\ DOMAIN sol = UNION N
        /\ \A c \in N : \A b \in c : /\ b \in problem.buffers /\ ClassOf(problem, b) = c
                                     /\ sol[b].pool = q /\ sol[b].offset = off[c]
        /\ \A b \in DOMAIN sol : ClassOf(problem, b) \in N
        /\ \A b \in problem.buffers : ClassOf(problem, b) \in N => b \in DOMAIN sol
    BY <1>1, SolutionPlaces
  <2> HIDE DEF sol, N
  <2> QED
    BY <2>1
<1> HIDE DEF sol
<1>3. \A c \in N : /\ c \in Classes(problem) /\ PoolOf(problem, c) = q
                   /\ space.size[c] = ClassSize(problem, c)
                   /\ Min(c) \in Nat
                   /\ \A d \in N : Min(c) = Min(d) => c = d
  BY <1>1, NodeKnown, NodesTyped, NodesNamed
<1>4. \A c, d \in N : Touches(space, off, c, off[c], d) <=> Touch(c, d)
  BY <1>3 DEF Touches
<1>5. \A c, d \in N : Touch(c, d) => Touch(d, c)
  BY OverlapSymmetric
<1> HIDE DEF N, Touch
<1>6. \A a, b \in DOMAIN sol :
          ExtentsOverlap(problem, sol, a, b) <=> Touch(ClassOf(problem, a), ClassOf(problem, b))
  BY <1>2 DEF ExtentsOverlap, Touch
<1>7. ASSUME NEW c \in N, NEW d \in N, c # d, Touch(c, d) PROVE ~Blocks(problem, c, d)
  <2>1. Touches(space, off, c, off[c], d) /\ c \in DOMAIN off /\ d \in DOMAIN off
    BY <1>1, <1>4, <1>7
  <2>2. <<c, d>> \notin space.hard
    BY <1>1, <2>1 DEF Fits, FitsReuseNodeAt
  <2> QED
    BY <1>1, <1>3, <1>7, <2>2 DEF SpaceTyped
<1>8. ASSUME NEW i \in Active(sol)
      PROVE  \E edge \in Pays(space, off) : i \in PenaltiesBetween(problem, edge[1], edge[2])
  <2> DEFINE a == problem.penalties[i].first
             b == problem.penalties[i].second
             c == ClassOf(problem, a)
             d == ClassOf(problem, b)
  <2>1. /\ i \in DOMAIN problem.penalties /\ a \in DOMAIN sol /\ b \in DOMAIN sol /\ c # d
        /\ ExtentsOverlap(problem, sol, a, b)
    BY DEF Active, PenaltyActive
  <2>2. c \in N /\ d \in N /\ Touch(c, d) /\ Touch(d, c)
    BY <1>2, <1>5, <1>6, <2>1
  <2>3. /\ i \in PenaltiesBetween(problem, c, d) /\ i \in PenaltiesBetween(problem, d, c)
    BY <2>1 DEF PenaltiesBetween
  <2> HIDE DEF a, b, c, d
  <2>4. ~Blocks(problem, c, d) /\ ~Blocks(problem, d, c)
    BY <1>7, <2>1, <2>2
  <2>5. <<c, d>> \in DOMAIN space.soft /\ <<d, c>> \in DOMAIN space.soft
    BY <1>1, <1>3, <2>1, <2>2, <2>3, <2>4 DEF SoftEdges
  <2>6. c \in DOMAIN off /\ d \in DOMAIN off
        /\ Touches(space, off, c, off[c], d) /\ Touches(space, off, d, off[d], c)
    BY <1>1, <1>4, <2>2
  <2>7. CASE Min(c) < Min(d)
    <3>1. <<c, d>> \in Pays(space, off)
      BY <2>5, <2>6, <2>7 DEF Pays
    <3> QED
      BY <2>3, <3>1
  <2>8. CASE Min(d) < Min(c)
    <3>1. <<d, c>> \in Pays(space, off)
      BY <2>5, <2>6, <2>8 DEF Pays
    <3> QED
      BY <2>3, <3>1
  <2> QED
    BY <1>3, <2>1, <2>2, <2>7, <2>8
<1>9. ASSUME NEW edge \in Pays(space, off), NEW i \in PenaltiesBetween(problem, edge[1], edge[2])
      PROVE  i \in Active(sol)
  <2> DEFINE a == problem.penalties[i].first
             b == problem.penalties[i].second
  <2>1. PICK c \in Classes(problem), d \in Classes(problem) : edge = <<c, d>>
    BY <1>1 DEF Pays, SpaceTyped
  <2>2. /\ c \in N /\ d \in N /\ c # d /\ ~Blocks(problem, c, d) /\ Touch(c, d)
        /\ PoolOf(problem, c) = PoolOf(problem, d)
    BY <1>1, <1>4, <2>1 DEF Pays, SoftEdges
  <2>3. /\ i \in DOMAIN problem.penalties
        /\ {ClassOf(problem, a), ClassOf(problem, b)} = {c, d}
    BY <2>1 DEF PenaltiesBetween
  <2>4. a \in problem.buffers /\ b \in problem.buffers
    BY <1>1, <2>3, FixedKnown DEF ValidProblem, KnownPair
  <2>5. ClassOf(problem, a) \in N /\ ClassOf(problem, b) \in N /\ ClassOf(problem, a) # ClassOf(problem, b)
    BY <2>2, <2>3
  <2>6. a \in DOMAIN sol /\ b \in DOMAIN sol
    BY <1>2, <2>4, <2>5
  <2>7. ExtentsOverlap(problem, sol, a, b)
    BY <1>5, <1>6, <2>2, <2>3, <2>5, <2>6
  <2>8. ~HaveTemporalConflict(problem, a, b)
    <3>1. a \in ClassOf(problem, a) /\ b \in ClassOf(problem, b)
      BY <1>2, <2>6
    <3>2. ASSUME HaveTemporalConflict(problem, a, b) PROVE SuperBuffersConflict(problem, c, d)
      <4>1. HaveTemporalConflict(problem, b, a)
        BY <3>2, TemporalConflictSymmetric
      <4>2. (a \in c /\ b \in d) \/ (b \in c /\ a \in d)
        BY <2>3, <2>5, <3>1
      <4> QED
        BY <3>2, <4>1, <4>2 DEF SuperBuffersConflict
    <3> QED
      BY <2>2, <3>2 DEF Blocks
  <2> QED
    BY <2>3, <2>5, <2>6, <2>7, <2>8 DEF Active, PenaltyActive
<1> HIDE DEF Active
<1> QED
  BY <1>8, <1>9 DEF sol

\* EvaluateObjective and the search charge the same.
LEMMA SameCost ==
    ASSUME InputInv, NEW q \in problem.pools, NEW off, Full(q, off)
    PROVE  ReuseCost(problem, SolutionOf(problem, off)) = PoolReuseCost(space, off)
<1> DEFINE J == DOMAIN problem.penalties
           E == Pays(space, off)
           K == [edge \in E |-> PenaltiesBetween(problem, edge[1], edge[2])]
           A == Active(SolutionOf(problem, off))
<1>1. Fixed(problem) /\ SpaceTyped(problem, space)
  BY InputTyped
<1>2. ReuseCost(problem, SolutionOf(problem, off)) = PenaltySum(problem, A)
  BY DEF ReuseCost, PenaltySum, Active
<1>3. PenaltySum(problem, A) = SumOver(Costs(problem), A)
  <2>1. A \in SUBSET J
    BY DEF Active
  <2> HIDE DEF A
  <2> QED
    BY <1>1, <2>1, PenaltySumTyped DEF Fixed
<1>4. A = UNION {PenaltiesBetween(problem, edge[1], edge[2]) : edge \in E}
  BY ActiveOfPairs
<1>5. UNION {PenaltiesBetween(problem, edge[1], edge[2]) : edge \in E} = UNION {K[edge] : edge \in E}
  <2>1. \A edge \in E : K[edge] = PenaltiesBetween(problem, edge[1], edge[2])
    OBVIOUS
  <2> HIDE DEF E, K
  <2> QED
    BY <2>1
<1>6. PoolReuseCost(space, off) = SumOver(space.soft, E)
  BY PoolCostSums
<1>7. IsFiniteSet(J) /\ InWordsOver(Costs(problem), J)
  BY <1>1 DEF Fixed, ObjectiveTyped, InWordsOver, Costs
<1>8. E \subseteq DOMAIN space.soft /\ IsFiniteSet(E)
  <2>1. E \subseteq DOMAIN space.soft
    BY DEF Pays
  <2> QED
    BY <1>1, <2>1, FS_Subset DEF SpaceTyped
<1>9. K \in [E -> SUBSET J]
  BY DEF PenaltiesBetween
<1>10. ASSUME NEW x \in E, NEW y \in E, x # y PROVE K[x] \cap K[y] = {}
  <2>1. PICK a \in Classes(problem), b \in Classes(problem) : x = <<a, b>> /\ Min(a) < Min(b)
    BY <1>1 DEF Pays, SpaceTyped
  <2>2. PICK c \in Classes(problem), d \in Classes(problem) : y = <<c, d>> /\ Min(c) < Min(d)
    BY <1>1 DEF Pays, SpaceTyped
  <2>3. Min(a) \in Nat /\ Min(b) \in Nat /\ Min(c) \in Nat /\ Min(d) \in Nat
    BY <1>1, NodesTyped
  <2>4. {a, b} # {c, d}
    BY <1>10, <2>1, <2>2, <2>3
  <2>5. K[x] = PenaltiesBetween(problem, a, b) /\ K[y] = PenaltiesBetween(problem, c, d)
    BY <2>1, <2>2
  <2> HIDE DEF K
  <2> QED
    BY <2>4, <2>5 DEF PenaltiesBetween
<1>11. \A edge \in E : space.soft[edge] = SumOver(Costs(problem), K[edge])
  <2>1. \A edge \in E : /\ K[edge] = PenaltiesBetween(problem, edge[1], edge[2])
                        /\ edge \in SoftEdges(problem)
    BY <1>1, <1>8, SpaceWeighs DEF InputInv
  <2>2. \A edge \in SoftEdges(problem) :
            space.soft[edge] = SumOver(Costs(problem), PenaltiesBetween(problem, edge[1], edge[2]))
    BY <1>1, SpaceWeighs DEF InputInv
  <2> HIDE DEF K, E
  <2> QED
    BY <2>1, <2>2
<1> HIDE DEF J, E, K, A
<1>12. SumOver(space.soft, E) = SumOver(Costs(problem), UNION {K[edge] : edge \in E})
  BY <1>7, <1>8, <1>9, <1>10, <1>11, SumByGroups
<1> QED
  BY <1>2, <1>3, <1>4, <1>5, <1>6, <1>12

\* PoolScores are the scores the search gives the placements of the pool.
LEMMA PoolScoresAre ==
    ASSUME InputInv, NEW q \in problem.pools
    PROVE  /\ \A off : Full(q, off) => ScoreOf(q, off) \in PoolScores[problem][q]
           /\ \A x \in PoolScores[problem][q] : \E off : Full(q, off) /\ x = ScoreOf(q, off)
<1> DEFINE ScoreIn(p, r, off) ==
               PoolScore(p, ReuseCost(p, SolutionOf(p, off)), PeakOfPool(p, SolutionOf(p, off), r))
<1>1. PoolScores[problem][q] = {ScoreIn(problem, q, off) : off \in PoolPlacements(problem, q)}
  <2> DEFINE inner(p) == [r \in p.pools |-> {ScoreIn(p, r, off) : off \in PoolPlacements(p, r)}]
  <2>1. PoolScores = Tabulated([p \in Problems |-> Tabulated(inner(p))])
    BY DEF PoolScores
  <2>2. PoolScores[problem] = Tabulated(inner(problem))
    <3> HIDE DEF inner
    <3> QED
      BY <2>1, TabulatedIs DEF InputInv
  <2>3. Tabulated(inner(problem)) = inner(problem)
    BY TabulatedIs
  <2> QED
    BY <2>2, <2>3
<1>2. ASSUME NEW off, Full(q, off) PROVE ScoreIn(problem, q, off) = ScoreOf(q, off)
  <2>1. /\ ReuseCost(problem, SolutionOf(problem, off)) = PoolReuseCost(space, off)
        /\ PeakOfPool(problem, SolutionOf(problem, off), q) = PeakOf(problem, space, q, off)
    BY <1>2, SameCost, SamePeak
  <2> QED
    BY <2>1 DEF ScoreOf
<1> HIDE DEF ScoreIn
<1>3. ASSUME NEW off, Full(q, off) PROVE ScoreOf(q, off) \in PoolScores[problem][q]
  BY <1>1, <1>2, <1>3, PoolPlacementsAre
<1>4. ASSUME NEW x \in PoolScores[problem][q] PROVE \E off : Full(q, off) /\ x = ScoreOf(q, off)
  <2>1. PICK off \in PoolPlacements(problem, q) : x = ScoreIn(problem, q, off)
    BY <1>1
  <2>2. Full(q, off)
    BY <2>1, PoolPlacementsAre
  <2> QED
    BY <1>2, <2>1, <2>2
<1> QED
  BY <1>3, <1>4

(***************************************************************************)
(* Canonical offsets suffice: a class that lies on nothing moves down until*)
(* it does, and meets nothing it did not meet before.                      *)
(***************************************************************************)
\* The order in which the search places the classes.
Precedes(off, c, d) == off[c] < off[d] \/ (off[c] = off[d] /\ Min(c) < Min(d))

Before(off, c) == [d \in {e \in DOMAIN off : Precedes(off, e, c)} |-> off[d]]

Canonical(off) ==
    \A c \in DOMAIN off :
        off[c] \in CanonicalOffsetsForNode(problem, space, Before(off, c), c)

LEMMA FullKnown ==
    ASSUME InputInv, NEW q \in problem.pools, NEW off, Full(q, off)
    PROVE  /\ Partial(problem, off) /\ Fits(problem, space, off) /\ DOMAIN off = NodesOf(space, q)
           /\ \A c \in NodesOf(space, q) :
                  /\ off[c] \in 0..MaxUInt /\ space.size[c] \in 1..MaxUInt
                  /\ off[c] + space.size[c] <= MaxUInt
           /\ PoolReuseCost(space, off) \in 0..MaxUInt
           /\ PeakOf(problem, space, q, off) \in 0..MaxUInt
           /\ ScoreOf(q, off) \in Scores
<1>1. Fixed(problem) /\ SpaceTyped(problem, space)
  BY InputTyped
<1>2. /\ off \in [NodesOf(space, q) -> 0..MaxUInt] /\ Fits(problem, space, off)
      /\ NodesOf(space, q) \subseteq Classes(problem)
  BY NodeKnown DEF Full
<1>3. Partial(problem, off)
  BY <1>2 DEF Partial
<1>4. /\ PoolReuseCost(space, off) \in 0..MaxUInt
      /\ PeakOf(problem, space, q, off) \in 0..MaxUInt
      /\ ScoreOf(q, off) \in Scores
  BY <1>1, <1>2, <1>3, ScoreTyped DEF ScoreOf
<1>5. ASSUME NEW c \in NodesOf(space, q)
      PROVE  off[c] \in 0..MaxUInt /\ space.size[c] \in 1..MaxUInt /\ off[c] + space.size[c] <= MaxUInt
  <2>1. off[c] \in 0..MaxUInt /\ space.size[c] \in 1..MaxUInt
    BY <1>2, NodeKnown
  <2>2. ~AddOverflows(off[c], space.size[c])
    BY <1>2 DEF Fits, FitsReuseNodeAt
  <2> QED
    BY <2>1, <2>2, MaxUIntAssumption DEF AddOverflows
<1> QED
  BY <1>2, <1>3, <1>4, <1>5

\* The scores of a pool are vectors of integers, one for each term.
LEMMA ScoreVectors ==
    ASSUME InputInv
    PROVE  \E n \in Nat : DOMAIN problem.terms = 1..n /\ Scores \subseteq [1..n -> Int]
<1>1. Len(problem.terms) \in Nat /\ DOMAIN problem.terms = 1..Len(problem.terms)
  BY InputTyped DEF Fixed, ObjectiveTyped
<1>2. 0..MaxUInt \subseteq Int
  OBVIOUS
<1>3. Scores \subseteq [1..Len(problem.terms) -> Int]
  BY <1>1, <1>2 DEF Scores
<1> QED
  BY <1>1, <1>3

\* A placement that costs no more and ends no higher is not worse.
LEMMA ScoreMonotone ==
    ASSUME InputInv, NEW cost \in 0..MaxUInt, NEW peak \in 0..MaxUInt,
           NEW more \in 0..MaxUInt, NEW higher \in 0..MaxUInt, cost <= more, peak <= higher
    PROVE  ~ScoreBefore(PoolScore(problem, more, higher), PoolScore(problem, cost, peak))
<1> DEFINE x == PoolScore(problem, more, higher)
           y == PoolScore(problem, cost, peak)
<1>1. DOMAIN x = DOMAIN problem.terms
  BY DEF PoolScore
<1>2. \A i \in DOMAIN problem.terms : ~(x[i] < y[i])
  BY DEF PoolScore
<1> HIDE DEF x, y
<1>3. ~ScoreBefore(x, y)
  BY <1>1, <1>2 DEF ScoreBefore
<1> QED
  BY <1>3 DEF x, y

\* A range that a class meets after it moves down without passing the end of the
\* range, it met before.
LEMMA MetBefore ==
    ASSUME NEW at \in 0..MaxUInt, NEW y \in 0..MaxUInt, y <= at,
           NEW size \in 1..MaxUInt, at + size <= MaxUInt,
           NEW low \in 0..MaxUInt, NEW len \in 0..MaxUInt, low + len <= MaxUInt,
           low + len <= at => low + len <= y,
           AddressRangesOverlap(y, size, low, len)
    PROVE  AddressRangesOverlap(at, size, low, len)
  BY MaxUIntAssumption DEF AddressRangesOverlap, AddOverflows

Moved(off, c, y) == [off EXCEPT ![c] = y]

\* The class c moves down to y; no end it could lie on is between.
Lowers(q, off, c, y) ==
    /\ c \in NodesOf(space, q) /\ y \in 0..MaxUInt /\ y <= off[c]
    /\ Aligned(y, space.alignment[c])
    /\ \A x \in Supports(problem, space, Before(off, c), c) :
           AlignUp(x, space.alignment[c]) <= off[c] => AlignUp(x, space.alignment[c]) <= y

\* What could hold the class up ends at or below its new offset or above its
\* old one.
LEMMA EndsApart ==
    ASSUME InputInv, NEW q \in problem.pools, NEW off, Full(q, off), NEW c, NEW y, Lowers(q, off, c, y)
    PROVE  /\ \A r \in problem.reserved[q] : r[2] <= off[c] => r[2] <= y
           /\ \A d \in NodesOf(space, q) :
                  d # c /\ <<c, d>> \in space.hard \cup DOMAIN space.soft =>
                      (off[d] + space.size[d] <= off[c] => off[d] + space.size[d] <= y)
<1> DEFINE a == space.alignment[c]
<1>1. /\ c \in NodesOf(space, q) /\ y \in 0..MaxUInt /\ y <= off[c] /\ a \in Nat \ {0}
      /\ off[c] \in 0..MaxUInt /\ Aligned(off[c], a) /\ space.pool[c] = q
  BY FullKnown, NodeKnown DEF Lowers, Full
<1>2. ASSUME NEW x \in Supports(problem, space, Before(off, c), c), x \in 0..MaxUInt, x <= off[c]
      PROVE  x <= y
  <2>1. x \in Nat /\ off[c] \in Nat
    BY <1>1, <1>2, MaxUIntAssumption
  <2>2. AlignUp(x, a) \in Nat /\ AlignUp(x, a) >= x /\ AlignUp(x, a) <= off[c]
    BY <1>1, <1>2, <2>1, AlignUpLeast
  <2>3. AlignUp(x, a) <= y
    BY <1>2, <2>2 DEF Lowers
  <2> QED
    BY <1>1, <2>1, <2>2, <2>3
<1> HIDE DEF a
<1>3. ASSUME NEW r \in problem.reserved[q], r[2] <= off[c] PROVE r[2] <= y
  <2>1. r[2] \in 0..MaxUInt
    BY InputTyped DEF Fixed, ProblemTyped
  <2>2. r[2] \in Supports(problem, space, Before(off, c), c)
    BY <1>1 DEF Supports
  <2> QED
    BY <1>2, <1>3, <2>1, <2>2
<1>4. ASSUME NEW d \in NodesOf(space, q), d # c, <<c, d>> \in space.hard \cup DOMAIN space.soft,
             off[d] + space.size[d] <= off[c]
      PROVE  off[d] + space.size[d] <= y
  <2>1. /\ off[d] \in 0..MaxUInt /\ space.size[d] \in 1..MaxUInt /\ off[d] + space.size[d] <= MaxUInt
        /\ DOMAIN off = NodesOf(space, q)
    BY FullKnown
  <2>2. off[d] < off[c]
    BY <1>1, <1>4, <2>1
  <2>3. d \in DOMAIN Before(off, c) /\ Before(off, c)[d] = off[d]
    BY <2>1, <2>2 DEF Before, Precedes
  <2>4. off[d] + space.size[d] \in Supports(problem, space, Before(off, c), c)
    BY <1>4, <2>3 DEF Supports
  <2>5. off[d] + space.size[d] \in 0..MaxUInt
    BY <2>1, MaxUIntAssumption
  <2> QED
    BY <1>2, <1>4, <2>4, <2>5
<1> QED
  BY <1>3, <1>4

\* A lowered class meets no more neighbours and no more reserved ranges.
LEMMA LoweredMeets ==
    ASSUME InputInv, NEW q \in problem.pools, NEW off, Full(q, off), NEW c, NEW y,
           Lowers(q, off, c, y), NEW later, later = Moved(off, c, y)
    PROVE  /\ later \in [NodesOf(space, q) -> 0..MaxUInt] /\ later[c] = y /\ later[c] <= off[c]
           /\ \A d \in NodesOf(space, q) : d # c => later[d] = off[d]
           /\ OverlapsReserved(problem, q, y, space.size[c]) => OverlapsReserved(problem, q, off[c], space.size[c])
           /\ \A d, e \in NodesOf(space, q) :
                  d # e /\ <<d, e>> \in space.hard \cup DOMAIN space.soft /\ Touches(space, later, d, later[d], e)
                      => Touches(space, off, d, off[d], e)
<1>1. /\ off \in [NodesOf(space, q) -> 0..MaxUInt] /\ c \in NodesOf(space, q) /\ y \in 0..MaxUInt
      /\ y <= off[c] /\ SpaceTyped(problem, space) /\ Fixed(problem)
  BY InputTyped DEF Full, Lowers
<1>2. /\ later \in [NodesOf(space, q) -> 0..MaxUInt] /\ later[c] = y /\ later[c] <= off[c]
      /\ \A d \in NodesOf(space, q) : d # c => later[d] = off[d]
  BY <1>1 DEF Moved
<1>3. \A d \in NodesOf(space, q) : /\ off[d] \in 0..MaxUInt /\ space.size[d] \in 1..MaxUInt
                                   /\ off[d] + space.size[d] <= MaxUInt
  BY FullKnown
<1>4. ASSUME OverlapsReserved(problem, q, y, space.size[c])
      PROVE  OverlapsReserved(problem, q, off[c], space.size[c])
  <2>1. PICK r \in problem.reserved[q] : AddressRangesOverlap(y, space.size[c], r[1], r[2] - r[1])
    BY <1>4 DEF OverlapsReserved
  <2>2. r[1] \in 0..MaxUInt /\ r[2] \in 0..MaxUInt /\ r[1] < r[2]
    BY <1>1, FixedKnown DEF Fixed, ProblemTyped, ValidProblem, ValidPool
  <2> DEFINE low == r[1]
             len == r[2] - r[1]
  <2>3. low \in 0..MaxUInt /\ len \in 0..MaxUInt /\ low + len = r[2] /\ low + len <= MaxUInt
    BY <2>2, MaxUIntAssumption
  <2>4. low + len <= off[c] => low + len <= y
    BY <2>3, EndsApart
  <2>5. AddressRangesOverlap(y, space.size[c], low, len)
    BY <2>1
  <2> HIDE DEF low, len
  <2>6. AddressRangesOverlap(off[c], space.size[c], low, len)
    BY <1>1, <1>3, <2>3, <2>4, <2>5, MetBefore
  <2> QED
    BY <2>6 DEF OverlapsReserved, low, len
<1>5. ASSUME NEW d \in NodesOf(space, q), d # c, <<c, d>> \in space.hard \cup DOMAIN space.soft,
             AddressRangesOverlap(y, space.size[c], off[d], space.size[d])
      PROVE  AddressRangesOverlap(off[c], space.size[c], off[d], space.size[d])
  <2>1. off[d] + space.size[d] <= off[c] => off[d] + space.size[d] <= y
    BY <1>5, EndsApart
  <2>2. space.size[d] \in 0..MaxUInt
    BY <1>3
  <2> QED
    BY <1>1, <1>3, <1>5, <2>1, <2>2, MetBefore
<1>6. ASSUME NEW d \in NodesOf(space, q), NEW e \in NodesOf(space, q),
             d # e, <<d, e>> \in space.hard \cup DOMAIN space.soft, Touches(space, later, d, later[d], e)
      PROVE  Touches(space, off, d, off[d], e)
  <2>1. AddressRangesOverlap(later[d], space.size[d], later[e], space.size[e])
    BY <1>6 DEF Touches
  <2>2. <<e, d>> \in space.hard \cup DOMAIN space.soft
    BY <1>1, <1>6 DEF SpaceTyped
  <2>3. CASE d = c
    <3>1. AddressRangesOverlap(off[c], space.size[c], off[e], space.size[e])
      BY <1>2, <1>5, <1>6, <2>1, <2>3
    <3> QED
      BY <2>3, <3>1 DEF Touches
  <2>4. CASE e = c
    <3>1. AddressRangesOverlap(later[e], space.size[e], later[d], space.size[d])
      BY <2>1, OverlapSymmetric
    <3>2. AddressRangesOverlap(off[c], space.size[c], off[d], space.size[d])
      BY <1>2, <1>5, <1>6, <2>2, <2>4, <3>1
    <3>3. AddressRangesOverlap(off[d], space.size[d], off[c], space.size[c])
      BY <3>2, OverlapSymmetric
    <3> QED
      BY <2>4, <3>3 DEF Touches
  <2>5. CASE d # c /\ e # c
    BY <1>2, <2>1, <2>5 DEF Touches
  <2> QED
    BY <2>3, <2>4, <2>5
<1> QED
  BY <1>2, <1>4, <1>6

\* Fewer pairs that pay cost no more.
LEMMA CostOfFewer ==
    ASSUME SpaceTyped(problem, space), NEW fewer, NEW off, Pays(space, fewer) \subseteq Pays(space, off)
    PROVE  PoolReuseCost(space, fewer) <= PoolReuseCost(space, off)
<1> DEFINE all == DOMAIN space.soft
<1>1. IsFiniteSet(all) /\ InWordsOver(space.soft, all)
  BY DEF SpaceTyped, InWordsOver
<1>2. Pays(space, off) \in SUBSET all /\ Pays(space, fewer) \in SUBSET Pays(space, off)
  BY DEF Pays
<1> QED
  BY <1>1, <1>2, PoolCostSums, SumOfFewer

\* A placement that ends no higher anywhere has no higher peak.
LEMMA PeakOfLower ==
    ASSUME InputInv, NEW q \in problem.pools, NEW lower, NEW off,
           Partial(problem, lower), Fits(problem, space, lower),
           Partial(problem, off), Fits(problem, space, off),
           \A n \in Ends(problem, space, q, lower) : \E m \in Ends(problem, space, q, off) : n <= m
    PROVE  /\ PeakOf(problem, space, q, lower) \in 0..MaxUInt
           /\ PeakOf(problem, space, q, lower) <= PeakOf(problem, space, q, off)
<1> DEFINE T == Ends(problem, space, q, lower)
           U == Ends(problem, space, q, off)
<1>1. ProblemTyped(problem) /\ SpaceTyped(problem, space) /\ MaxUInt \in Nat
  BY InputTyped, MaxUIntAssumption DEF Fixed
<1>2. T \in SUBSET (0..MaxUInt) /\ T # {} /\ U \in SUBSET (0..MaxUInt) /\ U # {}
  BY <1>1, EndsTyped
<1>3. PeakOf(problem, space, q, lower) = Max(T) /\ PeakOf(problem, space, q, off) = Max(U)
  BY DEF PeakOf, Ends
<1>4. \A n \in T : \E m \in U : n <= m
  OBVIOUS
<1> HIDE DEF T, U
<1>5. Max(T) \in T /\ Max(U) \in U /\ \A n \in U : n <= Max(U)
  BY <1>1, <1>2, MaxNatural
<1> QED
  BY <1>1, <1>2, <1>3, <1>4, <1>5

\* A class lowered to the next end below it leaves a placement that is no worse.
LEMMA Lowered ==
    ASSUME InputInv, NEW q \in problem.pools, NEW off, Full(q, off), NEW c, NEW y,
           Lowers(q, off, c, y), NEW later, later = Moved(off, c, y)
    PROVE  Full(q, later) /\ ~ScoreBefore(ScoreOf(q, off), ScoreOf(q, later))
<1>1. /\ later \in [NodesOf(space, q) -> 0..MaxUInt] /\ later[c] = y /\ later[c] <= off[c]
      /\ \A d \in NodesOf(space, q) : d # c => later[d] = off[d]
      /\ OverlapsReserved(problem, q, y, space.size[c]) => OverlapsReserved(problem, q, off[c], space.size[c])
      /\ \A d, e \in NodesOf(space, q) :
             d # e /\ <<d, e>> \in space.hard \cup DOMAIN space.soft /\ Touches(space, later, d, later[d], e)
                 => Touches(space, off, d, off[d], e)
  BY LoweredMeets
<1>2. /\ c \in NodesOf(space, q) /\ y \in 0..MaxUInt /\ Aligned(y, space.alignment[c])
      /\ off \in [NodesOf(space, q) -> 0..MaxUInt] /\ Fits(problem, space, off)
      /\ \A d \in NodesOf(space, q) : Aligned(off[d], space.alignment[d]) /\ space.pool[d] = q
      /\ SpaceTyped(problem, space)
      /\ q \in DOMAIN problem.capacity /\ problem.capacity[q] \in 0..MaxUInt
  <2>1. problem.capacity[q] \in 0..MaxUInt /\ q \in DOMAIN problem.capacity
    BY ProblemsAssumption DEF InputInv, ProblemTyped
  <2> QED
    BY <2>1, InputTyped, NodeKnown DEF Full, Lowers
<1>3. \A d \in NodesOf(space, q) : /\ off[d] \in 0..MaxUInt /\ space.size[d] \in 1..MaxUInt
                                   /\ later[d] \in 0..MaxUInt /\ later[d] <= off[d]
  BY <1>1, <1>2, FullKnown, MaxUIntAssumption
<1>4. Fits(problem, space, later)
  <2>1. SUFFICES ASSUME NEW d \in NodesOf(space, q) PROVE FitsReuseNodeAt(problem, space, later, d, later[d])
    BY <1>1 DEF Fits
  <2>2. FitsReuseNodeAt(problem, space, off, d, off[d]) /\ space.pool[d] = q
    BY <1>2 DEF Fits
  <2>3. off[d] + space.size[d] <= problem.capacity[q] /\ ~AddOverflows(off[d], space.size[d])
        /\ ~OverlapsReserved(problem, q, off[d], space.size[d])
    BY <1>2, <2>2 DEF FitsReuseNodeAt
  <2>4. later[d] + space.size[d] <= problem.capacity[q] /\ ~AddOverflows(later[d], space.size[d])
    BY <1>2, <1>3, <2>3, MaxUIntAssumption DEF AddOverflows
  <2>5. ~OverlapsReserved(problem, q, later[d], space.size[d])
    BY <1>1, <2>3
  <2>6. \A e \in DOMAIN later : <<d, e>> \in space.hard => ~Touches(space, later, d, later[d], e)
    <3>1. \A e : <<d, e>> \in space.hard => d # e
      BY <1>2 DEF SpaceTyped
    <3>2. \A e \in DOMAIN off : <<d, e>> \in space.hard => ~Touches(space, off, d, off[d], e)
      BY <2>2 DEF FitsReuseNodeAt
    <3> QED
      BY <1>1, <1>2, <3>1, <3>2
  <2> QED
    BY <2>2, <2>4, <2>5, <2>6 DEF FitsReuseNodeAt
<1>5. Full(q, later)
  BY <1>1, <1>2, <1>4 DEF Full
<1>6. PoolReuseCost(space, later) <= PoolReuseCost(space, off)
  <2>1. ASSUME NEW edge \in Pays(space, later) PROVE edge \in Pays(space, off)
    <3>1. /\ edge \in DOMAIN space.soft /\ Min(edge[1]) < Min(edge[2])
          /\ {edge[1], edge[2]} \subseteq NodesOf(space, q)
          /\ Touches(space, later, edge[1], later[edge[1]], edge[2])
      BY <1>1, <2>1 DEF Pays
    <3>2. edge = <<edge[1], edge[2]>>
      BY <1>2, <3>1 DEF SpaceTyped
    <3>3. edge[1] # edge[2]
      BY <1>2, <3>1, <3>2 DEF SpaceTyped
    <3>4. Touches(space, off, edge[1], off[edge[1]], edge[2])
      BY <1>1, <3>1, <3>2, <3>3
    <3> QED
      BY <1>2, <3>1, <3>4 DEF Pays
  <2> QED
    BY <1>2, <2>1, CostOfFewer
<1>7. PeakOf(problem, space, q, later) <= PeakOf(problem, space, q, off)
  <2>1. Partial(problem, later) /\ Partial(problem, off)
    BY <1>5, FullKnown
  <2>2. ASSUME NEW n \in Ends(problem, space, q, later)
        PROVE  \E m \in Ends(problem, space, q, off) : n <= m
    <3>1. CASE \E d \in NodesOf(space, q) : n = later[d] + space.size[d]
      <4>1. PICK d \in NodesOf(space, q) : n = later[d] + space.size[d]
        BY <3>1
      <4>2. off[d] + space.size[d] \in Ends(problem, space, q, off)
        BY <1>2 DEF Ends
      <4>3. n <= off[d] + space.size[d]
        BY <1>3, <4>1, MaxUIntAssumption
      <4> QED
        BY <4>2, <4>3
    <3>2. CASE ~(\E d \in NodesOf(space, q) : n = later[d] + space.size[d])
      <4>1. n \in Ends(problem, space, q, off)
        BY <1>1, <2>2, <3>2 DEF Ends
      <4>2. n \in 0..MaxUInt
        BY <1>2, <2>1, <4>1, EndsTyped, InputTyped DEF Fixed
      <4> QED
        BY <4>1, <4>2
    <3> QED
      BY <3>1, <3>2
  <2> QED
    BY <1>2, <1>4, <2>1, <2>2, PeakOfLower
<1>8. ~ScoreBefore(ScoreOf(q, off), ScoreOf(q, later))
  <2>1. /\ PoolReuseCost(space, off) \in 0..MaxUInt /\ PeakOf(problem, space, q, off) \in 0..MaxUInt
        /\ PoolReuseCost(space, later) \in 0..MaxUInt /\ PeakOf(problem, space, q, later) \in 0..MaxUInt
    BY <1>5, FullKnown
  <2> QED
    BY <1>6, <1>7, <2>1, ScoreMonotone DEF ScoreOf
<1> QED
  BY <1>5, <1>8

\* A class at an offset that is not canonical can be lowered.
LEMMA LowersSome ==
    ASSUME InputInv, NEW q \in problem.pools, NEW off, Full(q, off), NEW c \in NodesOf(space, q),
           off[c] \notin CanonicalOffsetsForNode(problem, space, Before(off, c), c)
    PROVE  \E y : Lowers(q, off, c, y) /\ y < off[c]
<1> DEFINE a == space.alignment[c]
           S == Supports(problem, space, Before(off, c), c)
           at == off[c]
           Y == {AlignUp(x, a) : x \in S} \cap 0..at
<1>1. a \in Nat \ {0} /\ at \in 0..MaxUInt /\ space.pool[c] = q /\ MaxUInt \in Nat
  BY NodeKnown, FullKnown, MaxUIntAssumption
<1>2. ASSUME NEW x \in S PROVE x \in Nat
  <2>1. \A r \in problem.reserved[q] : r[2] \in Nat
    BY InputTyped, MaxUIntAssumption DEF Fixed, ProblemTyped
  <2>2. \A d \in DOMAIN Before(off, c) : Before(off, c)[d] + space.size[d] \in Nat
    <3> TAKE d \in DOMAIN Before(off, c)
    <3>1. d \in NodesOf(space, q) /\ Before(off, c)[d] = off[d]
      BY FullKnown DEF Before
    <3> QED
      BY <3>1, FullKnown, MaxUIntAssumption
  <2>3. \/ x = 0
        \/ \E r \in problem.reserved[q] : x = r[2]
        \/ \E d \in DOMAIN Before(off, c) : x = Before(off, c)[d] + space.size[d]
    <3> DEFINE before == Before(off, c)
    <3> HIDE DEF before
    <3>1. x \in Supports(problem, space, before, c)
      BY DEF before
    <3>2. \/ x = 0
          \/ \E r \in problem.reserved[q] : x = r[2]
          \/ \E d \in DOMAIN before : x = before[d] + space.size[d]
      BY <1>1, <3>1 DEF Supports
    <3> QED
      BY <3>2 DEF before
  <2> QED
    BY <2>1, <2>2, <2>3
<1>3. at \notin {AlignUp(x, a) : x \in S} \cap 0..MaxUInt
  BY DEF CanonicalOffsetsForNode
<1>4. 0 \in S
  BY DEF Supports
<1> HIDE DEF a, S, at
<1>5. AlignUp(0, a) = 0
  BY <1>1, ZeroAligned DEF AlignUp, Aligned
<1>6. 0 \in Y /\ Y \in SUBSET (0..at) /\ at \in Nat
  BY <1>1, <1>4, <1>5
<1> DEFINE y == Max(Y)
<1>7. y \in Y /\ \A n \in Y : n <= y
  BY <1>6, MaxNatural
<1> HIDE DEF y
<1>8. y \in 0..at /\ \E x \in S : y = AlignUp(x, a)
  BY <1>7
<1>9. y # at /\ Aligned(y, a)
  BY <1>1, <1>2, <1>3, <1>8, AlignUpLeast
<1>10. \A x \in S : AlignUp(x, a) <= at => AlignUp(x, a) <= y
  <2> TAKE x \in S
  <2> HAVE AlignUp(x, a) <= at
  <2>1. AlignUp(x, a) \in Nat
    BY <1>1, <1>2, AlignUpLeast
  <2>2. AlignUp(x, a) \in 0..at
    BY <1>6, <2>1
  <2> QED
    BY <1>7, <2>2
<1>11. y \in 0..MaxUInt /\ y <= at /\ y < at
  BY <1>1, <1>8, <1>9
<1> QED
  BY <1>9, <1>10, <1>11 DEF Lowers, a, S, at

\* The offsets the search tries are enough: some canonical placement of the
\* pool is as good as any other placement.
LEMMA CanonicalEnough ==
    ASSUME InputInv, NEW q \in problem.pools, NEW off, Full(q, off)
    PROVE  \E g : Full(q, g) /\ Canonical(g) /\ ~ScoreBefore(ScoreOf(q, off), ScoreOf(q, g))
<1> DEFINE N == NodesOf(space, q)
           W == 0..MaxUInt
           Below(g) == {x \in N \X W : x[2] < g[x[1]]}
           Good(g) == Full(q, g) /\ ~ScoreBefore(ScoreOf(q, off), ScoreOf(q, g))
           T == {Below(g) : g \in {h \in [N -> W] : Good(h)}}
<1>1. IsFiniteSet(N \X W)
  <2>1. N \subseteq Classes(problem) /\ IsFiniteSet(Classes(problem))
    BY NodeKnown, InputTyped, FixedKnown, ClassesFinite
  <2>2. IsFiniteSet(N) /\ IsFiniteSet(W)
    BY <2>1, FS_Subset, FS_Interval, MaxUIntAssumption
  <2> QED
    BY <2>2, FS_Product
<1>2. PICK n \in Nat : DOMAIN problem.terms = 1..n /\ Scores \subseteq [1..n -> Int]
  BY ScoreVectors
<1>3. ASSUME NEW g, Full(q, g) PROVE ScoreOf(q, g) \in [1..n -> Int] /\ g \in [N -> W]
  BY <1>2, <1>3, FullKnown DEF Full
<1>4. Good(off)
  BY <1>3, ScoresOrdered
<1>5. T \in SUBSET SUBSET (N \X W) /\ T # {}
  <2>1. off \in [N -> W]
    BY <1>3
  <2>2. \A g : Below(g) \in SUBSET (N \X W)
    OBVIOUS
  <2> HIDE DEF Good, Below
  <2> QED
    BY <1>4, <2>1, <2>2
<1> HIDE DEF T
<1>6. PICK m \in T : \A k \in T : k \subseteq m => k = m
  BY <1>1, <1>5, LeastSet
<1>7. PICK g \in [N -> W] : Good(g) /\ m = Below(g)
  <2> HIDE DEF Good, Below
  <2> QED
    BY <1>6 DEF T
<1>8. ASSUME ~Canonical(g) PROVE FALSE
  <2>1. PICK c \in N : g[c] \notin CanonicalOffsetsForNode(problem, space, Before(g, c), c)
    BY <1>7, <1>8 DEF Canonical
  <2>2. PICK y : Lowers(q, g, c, y) /\ y < g[c]
    BY <1>7, <2>1, LowersSome
  <2> DEFINE later == Moved(g, c, y)
  <2>3. Full(q, later) /\ ~ScoreBefore(ScoreOf(q, g), ScoreOf(q, later))
    BY <1>7, <2>2, Lowered
  <2>4. Good(later) /\ later \in [N -> W]
    <3>1. ~ScoreBefore(ScoreOf(q, off), ScoreOf(q, g))
      BY <1>7
    <3>2. /\ ScoreOf(q, off) \in [1..n -> Int] /\ ScoreOf(q, g) \in [1..n -> Int]
          /\ ScoreOf(q, later) \in [1..n -> Int] /\ later \in [N -> W]
      BY <1>3, <1>7, <2>3
    <3>3. ~ScoreBefore(ScoreOf(q, off), ScoreOf(q, later))
      BY <2>3, <3>1, <3>2, ScoresChain
    <3> QED
      BY <2>3, <3>2, <3>3
  <2>5. Below(later) \in T
    <3> HIDE DEF Good, Below, later
    <3> QED
      BY <2>4 DEF T
  <2>6. y \in W /\ later[c] = y /\ \A d \in N : d # c => later[d] = g[d]
    BY <1>7, <2>2 DEF Lowers, Moved
  <2> HIDE DEF later
  <2>7. Below(later) \subseteq Below(g)
    <3> SUFFICES ASSUME NEW x \in N \X W, x[2] < later[x[1]] PROVE x[2] < g[x[1]]
      OBVIOUS
    <3>1. x[1] \in N /\ x[2] \in W
      OBVIOUS
    <3>2. g[c] \in Nat /\ y \in Nat /\ x[2] \in Nat
      BY <1>7, <2>6, <3>1, MaxUIntAssumption
    <3> QED
      BY <2>2, <2>6, <3>1, <3>2
  <2>8. <<c, y>> \in Below(g)
    BY <2>2, <2>6
  <2>9. <<c, y>> \notin Below(later)
    BY <2>6, MaxUIntAssumption
  <2> QED
    BY <1>6, <1>7, <2>5, <2>7, <2>8, <2>9
<1> QED
  BY <1>7, <1>8

(***************************************************************************)
(* No canonical placement of the pool is lost: the incumbent is as good,   *)
(* or the search still has it before it.                                   *)
(***************************************************************************)
ClassesOf(calls, i) == {calls[j].class : j \in 2..i}

\* c is the first of f's classes behind those of S.
Follows(f, S, c) == c \in DOMAIN f \ S /\ \A d \in DOMAIN f \ S : d = c \/ Precedes(f, c, d)

\* The first i calls placed the first classes of f as f does.
Along(calls, off, f, i) ==
    /\ \A c \in ClassesOf(calls, i) : c \in DOMAIN f /\ off[c] = f[c]
    /\ \A c \in ClassesOf(calls, i), d \in DOMAIN f \ ClassesOf(calls, i) : Precedes(f, c, d)

\* A branch leads on to f.
LeadsTo(b, f, S) == b.at = f[b.class] /\ Follows(f, S, b.class)

Awaits(f) ==
    \E i \in DOMAIN stack :
        /\ Along(stack, placed, f, i)
        /\ \/ i = Len(stack) /\ entering
           \/ \E b \in stack[i].todo : LeadsTo(b, f, ClassesOf(stack, i))

Kept(q, f) == \E kept \in best : ~ScoreBefore(ScoreOf(q, f), kept.score)

NothingLost ==
    \A q \in poolNow : ~limitHit /\ (stopAfterFirst => best = {}) =>
        \A f : Full(q, f) /\ Canonical(f) => Kept(q, f) \/ Awaits(f)

\* What is placed, and what is kept, is aligned; at most one placement is kept.
PlacedAligned == \A c \in DOMAIN placed : Aligned(placed[c], space.alignment[c])

BestIsFull ==
    /\ \E x : best \subseteq {x}
    /\ \A q \in poolNow : \A kept \in best : Full(q, kept.offset)

LEMMA StillAlong ==
    ASSUME NEW calls, NEW others, NEW off, NEW later, NEW f, NEW i \in Nat,
           \A j \in 2..i : others[j].class = calls[j].class,
           \A c \in ClassesOf(calls, i) : later[c] = off[c]
    PROVE  /\ ClassesOf(others, i) = ClassesOf(calls, i)
           /\ Along(calls, off, f, i) => Along(others, later, f, i)
<1>1. ClassesOf(others, i) = ClassesOf(calls, i)
  BY DEF ClassesOf
<1> QED
  BY <1>1 DEF Along

\* A call that is left in progress, with the branch to f left to it.
LEMMA BranchLeft ==
    ASSUME NEW f, NEW i \in Nat, i \in DOMAIN stack', Along(stack, placed, f, i),
           \A j \in 2..i : stack'[j].class = stack[j].class,
           \A c \in ClassesOf(stack, i) : placed'[c] = placed[c],
           NEW b, b \in stack'[i].todo, LeadsTo(b, f, ClassesOf(stack, i))
    PROVE  Awaits(f)'
<1>1. ClassesOf(stack', i) = ClassesOf(stack, i) /\ Along(stack', placed', f, i)
  BY StillAlong
<1> QED
  BY <1>1 DEF Awaits

\* The bound of a partial placement is no worse than any placement it grows to.
LEMMA BoundHolds ==
    ASSUME InputInv, NEW q \in problem.pools, NEW f, Full(q, f), NEW off,
           Partial(problem, off), DOMAIN off \subseteq DOMAIN f, \A c \in DOMAIN off : off[c] = f[c]
    PROVE  /\ Fits(problem, space, off)
           /\ ScoreOf(q, off) \in Scores
           /\ ~ScoreBefore(ScoreOf(q, f), ScoreOf(q, off))
<1>1. /\ Partial(problem, f) /\ Fits(problem, space, f)
      /\ PoolReuseCost(space, f) \in 0..MaxUInt /\ PeakOf(problem, space, q, f) \in 0..MaxUInt
      /\ Fixed(problem) /\ SpaceTyped(problem, space)
  BY FullKnown, InputTyped
<1>2. Fits(problem, space, off)
  BY <1>1, FitsFewer
<1>3. /\ PoolReuseCost(space, off) \in 0..MaxUInt /\ PeakOf(problem, space, q, off) \in 0..MaxUInt
      /\ ScoreOf(q, off) \in Scores
  BY <1>1, <1>2, ScoreTyped DEF ScoreOf
<1>4. PoolReuseCost(space, off) <= PoolReuseCost(space, f)
  <2>1. Pays(space, off) \subseteq Pays(space, f)
    BY DEF Pays, Touches
  <2> QED
    BY <1>1, <2>1, CostOfFewer
<1>5. PeakOf(problem, space, q, off) <= PeakOf(problem, space, q, f)
  <2>1. Ends(problem, space, q, off) \subseteq Ends(problem, space, q, f)
    BY DEF Ends
  <2>2. \A n \in Ends(problem, space, q, f) : n <= n
    BY <1>1, EndsTyped, MaxUIntAssumption DEF Fixed
  <2> QED
    BY <1>1, <1>2, <2>1, <2>2, PeakOfLower
<1> QED
  BY <1>1, <1>2, <1>3, <1>4, <1>5, ScoreMonotone DEF ScoreOf

\* So it is for the call the search is in.
LEMMA BoundOfCall ==
    ASSUME InputInv, IInv, stack # <<>>, NEW q \in poolNow, NEW f, Full(q, f),
           Along(stack, placed, f, Len(stack))
    PROVE  /\ q \in problem.pools /\ LowerBound \in Scores /\ ScoreOf(q, f) \in Scores
           /\ ~ScoreBefore(ScoreOf(q, f), LowerBound)
<1>1. TypeOK /\ StackInv /\ q \in problem.pools
  BY DEF IInv, StackInv, TypeOK
<1>2. PICK n \in Nat \ {0} :
         /\ n = Len(stack) /\ DOMAIN stack = 1..n /\ n \in 1..n
         /\ Top = stack[n] /\ PlacedBy(stack, placed, n) = placed
         /\ DOMAIN placed = {stack[i].class : i \in 2..n}
  BY <1>1, LastCall
<1>3. Top.cost = PoolReuseCost(space, placed) /\ Top.peak = PeakOf(problem, space, q, placed)
  BY <1>1, <1>2 DEF StackInv, CarriedAlong
<1>4. LowerBound = ScoreOf(q, placed)
  BY <1>3 DEF LowerBound, ScoreOf
<1>5. DOMAIN placed \subseteq DOMAIN f /\ \A c \in DOMAIN placed : placed[c] = f[c]
  BY <1>2 DEF Along, ClassesOf
<1>6. Partial(problem, placed)
  BY <1>1, InputTyped DEF TypeOK, SpaceTyped, Partial
<1> QED
  BY <1>1, <1>4, <1>5, <1>6, BoundHolds, FullKnown

SearchInv == PlacedAligned /\ BestIsFull /\ NothingLost

\* A search compares with the same placements throughout.
LEMMA SameQuestion ==
    ASSUME UNCHANGED <<problem, space>>, NEW q, NEW f
    PROVE  /\ Full(q, f)' <=> Full(q, f)
           /\ Canonical(f)' <=> Canonical(f)
           /\ ScoreOf(q, f)' = ScoreOf(q, f)
  BY DEF Full, Canonical, ScoreOf

\* The search of a pool that stays with the same incumbent.
LEMMA SameIncumbent ==
    ASSUME UNCHANGED <<problem, space, poolNow, best>>, BestIsFull
    PROVE  BestIsFull' /\ \A q, f : Kept(q, f)' <=> Kept(q, f)
<1>1. \A q, f : Full(q, f)' <=> Full(q, f)
  BY DEF Full
<1>2. \A q, f : ScoreOf(q, f)' = ScoreOf(q, f)
  BY DEF ScoreOf
<1> QED
  BY <1>1, <1>2 DEF BestIsFull, Kept

\* What is left to a step: the placements the incumbent does not match.
LEMMA NothingIsLost ==
    ASSUME UNCHANGED <<problem, space, poolNow, stopAfterFirst>>,
           \A q \in poolNow : ~limitHit' /\ (stopAfterFirst => best' = {}) =>
               \A f : Full(q, f) /\ Canonical(f) => Kept(q, f)' \/ Awaits(f)'
    PROVE  NothingLost'
<1>1. \A q, f : (Full(q, f)' <=> Full(q, f)) /\ (Canonical(f)' <=> Canonical(f))
  BY SameQuestion
<1> QED
  BY <1>1 DEF NothingLost

\* What awaits in an earlier call still does when the last one returns.
LEMMA AwaitsReturn ==
    ASSUME InputInv, IInv, stack # <<>>, Return, NEW f, NEW i \in DOMAIN stack, i # Len(stack),
           Along(stack, placed, f, i), NEW b \in stack[i].todo, LeadsTo(b, f, ClassesOf(stack, i))
    PROVE  Awaits(f)'
<1>1. TypeOK /\ StackInv /\ CallsPlace /\ StackIsPlacement
  BY DEF IInv, StackInv
<1>2. PICK n \in Nat \ {0} : n = Len(stack) /\ DOMAIN stack = 1..n
  BY <1>1, LastCall
<1>3. i \in 1..(n - 1) /\ i \in Nat
  BY <1>2
<1>4. /\ stack' \in Seq(Invocation) /\ Len(stack') = n - 1
      /\ \A j \in 1..(n - 1) : stack'[j] = stack[j]
  BY <1>1, <1>2, Popped DEF Return
<1>5. DOMAIN stack' = 1..(n - 1) /\ \A j \in 2..i : j \in 1..(n - 1) /\ j \in 2..(n - 1)
  BY <1>2, <1>3, <1>4
<1>6. \A c \in ClassesOf(stack, i) : placed'[c] = placed[c]
  <2>1. /\ DOMAIN placed' = {stack[j].class : j \in 2..(n - 1)}
        /\ \A c \in DOMAIN placed' : placed'[c] = placed[c]
    BY <1>1, <1>2, PlacementsReturn
  <2> QED
    BY <1>5, <2>1 DEF ClassesOf
<1>7. b \in stack'[i].todo /\ \A j \in 2..i : stack'[j].class = stack[j].class
  BY <1>3, <1>4, <1>5
<1> QED
  BY <1>3, <1>5, <1>6, <1>7, BranchLeft

LEMMA AlignedReturn ==
    ASSUME IInv, PlacedAligned, stack # <<>>, Return, UNCHANGED space
    PROVE  PlacedAligned'
<1>1. \A c \in DOMAIN placed' : c \in DOMAIN placed /\ placed'[c] = placed[c]
  BY PlacementsReturn DEF IInv
<1> QED
  BY <1>1 DEF PlacedAligned

\* A branch that was not a better one is cut off.
LEMMA PruneKeeps ==
    ASSUME InputInv, IInv, SearchInv, Prune
    PROVE  SearchInv'
<1>1. /\ stack # <<>> /\ Return /\ Bounded
      /\ UNCHANGED <<problem, space, poolNow, best, stopAfterFirst>>
  BY DEF Prune, Searching, input
<1>2. PlacedAligned' /\ BestIsFull' /\ \A q, f : Kept(q, f)' <=> Kept(q, f)
  BY <1>1, AlignedReturn, SameIncumbent DEF SearchInv
<1>3. ASSUME NEW q \in poolNow, NEW f, Full(q, f), Kept(q, f) \/ Awaits(f)
      PROVE  Kept(q, f)' \/ Awaits(f)'
  <2>1. CASE Kept(q, f)
    BY <1>2, <2>1
  <2>2. ASSUME NEW i \in DOMAIN stack, Along(stack, placed, f, i), i # Len(stack),
               NEW b \in stack[i].todo, LeadsTo(b, f, ClassesOf(stack, i))
        PROVE  Awaits(f)'
    BY <1>1, <2>2, AwaitsReturn
  <2>3. CASE Along(stack, placed, f, Len(stack))
    <3>1. /\ q \in problem.pools /\ LowerBound \in Scores /\ ScoreOf(q, f) \in Scores
          /\ ~ScoreBefore(ScoreOf(q, f), LowerBound)
      BY <1>1, <1>3, <2>3, BoundOfCall
    <3>2. PICK kept \in best : ~ScoreBefore(LowerBound, kept.score)
      BY <1>1 DEF Bounded
    <3>3. kept.score \in Scores
      BY DEF IInv, TypeOK
    <3>4. PICK n \in Nat : Scores \subseteq [1..n -> Int]
      BY ScoreVectors
    <3>5. /\ ScoreOf(q, f) \in [1..n -> Int] /\ LowerBound \in [1..n -> Int]
          /\ kept.score \in [1..n -> Int]
      BY <3>1, <3>3, <3>4
    <3>6. ~ScoreBefore(ScoreOf(q, f), kept.score)
      BY <3>1, <3>2, <3>5, ScoresChain
    <3> QED
      BY <1>2, <3>6 DEF Kept
  <2> QED
    BY <1>3, <2>1, <2>2, <2>3 DEF Awaits
<1>4. NothingLost'
  <2>1. limitHit' = limitHit
    BY DEF Prune
  <2> QED
    BY <1>1, <1>3, <2>1, NothingIsLost DEF SearchInv, NothingLost
<1> QED
  BY <1>2, <1>4 DEF SearchInv

\* A call with nothing left to take returns.
LEMMA LoopEndsKeeps ==
    ASSUME InputInv, IInv, SearchInv, LoopEnds
    PROVE  SearchInv'
<1>1. /\ stack # <<>> /\ Return /\ (Stopped \/ (~entering /\ Top.todo = {}))
      /\ UNCHANGED <<problem, space, poolNow, best, stopAfterFirst, limitHit>>
  BY DEF LoopEnds, input
<1>2. PlacedAligned' /\ BestIsFull' /\ \A q, f : Kept(q, f)' <=> Kept(q, f)
  BY <1>1, AlignedReturn, SameIncumbent DEF SearchInv
<1>3. ASSUME NEW q \in poolNow, NEW f, ~limitHit, stopAfterFirst => best = {}, Kept(q, f) \/ Awaits(f)
      PROVE  Kept(q, f)' \/ Awaits(f)'
  <2>1. ~entering /\ Top.todo = {} /\ Top = stack[Len(stack)]
    BY <1>1, <1>3, StackTop DEF Stopped, IInv
  <2>2. ASSUME NEW i \in DOMAIN stack, Along(stack, placed, f, i),
               NEW b \in stack[i].todo, LeadsTo(b, f, ClassesOf(stack, i))
        PROVE  Awaits(f)'
    <3>1. i # Len(stack)
      BY <2>1, <2>2
    <3> QED
      BY <1>1, <2>2, <3>1, AwaitsReturn
  <2> QED
    BY <1>2, <1>3, <2>1, <2>2 DEF Awaits
<1>4. NothingLost'
  BY <1>1, <1>3, NothingIsLost DEF SearchInv, NothingLost
<1> QED
  BY <1>2, <1>4 DEF SearchInv

\* A search that has met its limit promises nothing.
LEMMA HitLimitKeeps ==
    ASSUME InputInv, IInv, SearchInv, HitLimit
    PROVE  SearchInv'
<1>1. /\ stack # <<>> /\ Return /\ limitHit'
      /\ UNCHANGED <<problem, space, poolNow, best>>
  BY DEF HitLimit, Searching, input
<1>2. PlacedAligned' /\ BestIsFull'
  BY <1>1, AlignedReturn, SameIncumbent DEF SearchInv
<1> QED
  BY <1>1, <1>2 DEF SearchInv, NothingLost

LEMMA PlacedKnown ==
    ASSUME InputInv, IInv, NEW q \in poolNow
    PROVE  /\ q \in problem.pools /\ poolNow = {q} /\ Partial(problem, placed)
           /\ Fits(problem, space, placed)
           /\ placed \in [DOMAIN placed -> 0..MaxUInt] /\ DOMAIN placed \subseteq NodesOf(space, q)
<1>1. Fixed(problem) /\ SpaceTyped(problem, space)
  BY InputTyped
<1>2. q \in problem.pools /\ poolNow = {q} /\ Partial(problem, placed)
      /\ placed \in [DOMAIN placed -> 0..MaxUInt] /\ Fits(problem, space, placed)
  BY <1>1 DEF Partial, IInv, TypeOK, SpaceTyped, Fits, PartialPlacementFits
<1>3. DOMAIN placed \subseteq NodesOf(space, q)
  BY DEF IInv, StackIsPlacement, CallsPlace
<1> QED
  BY <1>2, <1>3

\* A leaf is a better placement than the incumbent, and stands for every
\* placement it was the bound of.
\* The incumbent of a leaf is no worse than the one before.
LEMMA KeptByLeaf ==
    ASSUME InputInv, IInv, Leaf, NEW q \in poolNow, NEW f, Full(q, f), Kept(q, f)
    PROVE  Kept(q, f)'
<1> DEFINE kept == [offset |-> placed, score |-> LowerBound]
<1>1. ~Bounded /\ best' = {kept} /\ UNCHANGED <<problem, space>>
  BY DEF Leaf, Searching, input
<1>2. PICK n \in Nat : Scores \subseteq [1..n -> Int]
  BY ScoreVectors
<1>3. PICK old \in best : ~ScoreBefore(ScoreOf(q, f), old.score)
  BY DEF Kept
<1>4. ScoreBefore(LowerBound, old.score)
  BY <1>1 DEF Bounded
<1>5. LowerBound \in Scores /\ old.score \in Scores /\ ScoreOf(q, f) \in Scores
  <2>1. q \in problem.pools /\ old.score \in Scores
    BY DEF IInv, TypeOK
  <2>2. \E r \in poolNow : DOMAIN placed = NodesOf(space, r)
    BY DEF Leaf
  <2> QED
    BY <2>1, <2>2, FullKnown, LeafScored DEF Leaf, Searching
<1>6. ~ScoreBefore(ScoreOf(q, f), LowerBound)
  BY <1>2, <1>3, <1>4, <1>5, ScoresOrdered
<1>7. ScoreOf(q, f)' = ScoreOf(q, f)
  BY <1>1, SameQuestion
<1>8. kept.score = LowerBound
  OBVIOUS
<1> HIDE DEF kept
<1> QED
  BY <1>1, <1>6, <1>7, <1>8 DEF Kept

LEMMA LeafKeeps ==
    ASSUME InputInv, IInv, SearchInv, Leaf
    PROVE  SearchInv'
<1>1. /\ stack # <<>> /\ Return /\ ~Bounded
      /\ best' = {[offset |-> placed, score |-> LowerBound]}
      /\ UNCHANGED <<problem, space, poolNow, stopAfterFirst, limitHit>>
  BY DEF Leaf, Searching, input
<1>2. PICK q \in poolNow : DOMAIN placed = NodesOf(space, q)
  BY DEF Leaf
<1>3. Full(q, placed) /\ q \in problem.pools /\ poolNow = {q}
  BY <1>2, PlacedKnown DEF Full, SearchInv, PlacedAligned
<1>4. LowerBound \in Scores
  BY <1>1, <1>2, LeafScored
<1> DEFINE kept == [offset |-> placed, score |-> LowerBound]
<1>5. PlacedAligned'
  BY <1>1, AlignedReturn DEF SearchInv
<1>6. BestIsFull'
  <2>1. \A r, f : Full(r, f)' <=> Full(r, f)
    BY <1>1, SameQuestion
  <2>2. best' \subseteq {kept} /\ \A k \in best' : k.offset = placed
    BY <1>1
  <2> HIDE DEF kept
  <2> QED
    BY <1>1, <1>3, <2>1, <2>2 DEF BestIsFull
<1>7. ASSUME NEW f, Full(q, f), Kept(q, f) \/ Awaits(f)
      PROVE  Kept(q, f)' \/ Awaits(f)'
  <2>1. PICK n \in Nat : Scores \subseteq [1..n -> Int]
    BY ScoreVectors
  <2>2. LowerBound \in [1..n -> Int] /\ ScoreOf(q, f) \in [1..n -> Int]
    BY <1>3, <1>4, <1>7, <2>1, FullKnown
  <2>3. ~ScoreBefore(ScoreOf(q, f), LowerBound) => Kept(q, f)'
    <3>1. ScoreOf(q, f)' = ScoreOf(q, f)
      BY <1>1, SameQuestion
    <3>2. kept \in best' /\ kept.score = LowerBound
      BY <1>1
    <3> HIDE DEF kept
    <3> QED
      BY <3>1, <3>2 DEF Kept
  <2>4. CASE Kept(q, f)
    BY <1>3, <1>7, <2>4, KeptByLeaf
  <2>5. CASE Along(stack, placed, f, Len(stack))
    <3>1. ~ScoreBefore(ScoreOf(q, f), LowerBound)
      BY <1>1, <1>7, <2>5, BoundOfCall
    <3> QED
      BY <2>3, <3>1
  <2>6. ASSUME NEW i \in DOMAIN stack, Along(stack, placed, f, i), i # Len(stack),
               NEW b \in stack[i].todo, LeadsTo(b, f, ClassesOf(stack, i))
        PROVE  Awaits(f)'
    BY <1>1, <2>6, AwaitsReturn
  <2> QED
    BY <1>7, <2>4, <2>5, <2>6 DEF Awaits
<1>8. NothingLost'
  <2>1. best' # {}
    BY <1>1
  <2> QED
    BY <1>1, <1>3, <1>7, <2>1, NothingIsLost DEF SearchInv, NothingLost
<1> QED
  BY <1>5, <1>6, <1>8 DEF SearchInv

\* A placement that goes on has a first class of those it has left.
LEMMA FollowerExists ==
    ASSUME InputInv, NEW q \in problem.pools, NEW f, Full(q, f), NEW S, DOMAIN f \ S # {}
    PROVE  \E c : Follows(f, S, c)
<1> DEFINE R == DOMAIN f \ S
           A == {f[c] : c \in R}
<1>1. \A c \in R : c \in NodesOf(space, q) /\ f[c] \in Nat
  BY FullKnown, MaxUIntAssumption
<1>2. A \in SUBSET Nat /\ A # {}
  BY <1>1
<1>3. PICK at \in A : \A n \in A : at <= n
  <2> HIDE DEF A
  <2> QED
    BY <1>2, LeastNatural
<1> DEFINE Q == {c \in R : f[c] = at}
           M == {Min(c) : c \in Q}
<1>4. \A c \in R : Min(c) \in Nat /\ c \in Classes(problem)
  BY <1>1, NodeKnown, InputTyped, NodesTyped
<1>5. M \in SUBSET Nat /\ M # {}
  BY <1>3, <1>4
<1>6. PICK m \in M : \A n \in M : m <= n
  <2> HIDE DEF M
  <2> QED
    BY <1>5, LeastNatural
<1>7. PICK c \in Q : Min(c) = m
  BY <1>6
<1>8. ASSUME NEW d \in R, d # c PROVE Precedes(f, c, d)
  <2>1. f[c] = at /\ at <= f[d] /\ at \in Nat /\ f[d] \in Nat
    BY <1>1, <1>2, <1>3, <1>7, <1>8
  <2>2. CASE f[d] = at
    <3>1. Min(c) <= Min(d) /\ Min(c) \in Nat /\ Min(d) \in Nat
      BY <1>4, <1>6, <1>7, <1>8, <2>2
    <3>2. Min(c) # Min(d)
      BY <1>4, <1>7, <1>8, NodesNamed, InputTyped
    <3> QED
      BY <2>1, <2>2, <3>1, <3>2 DEF Precedes
  <2>3. CASE f[d] # at
    BY <2>1, <2>3 DEF Precedes
  <2> QED
    BY <2>2, <2>3
<1> QED
  BY <1>7, <1>8 DEF Follows

\* The first class left is a branch of the call that placed the others.
LEMMA FollowerBranches ==
    ASSUME InputInv, IInv, stack # <<>>, NEW q \in poolNow, NEW f, Full(q, f), Canonical(f),
           Along(stack, placed, f, Len(stack)), NEW c, Follows(f, ClassesOf(stack, Len(stack)), c)
    PROVE  [class |-> c, at |-> f[c], cost |-> IncrementalReuseCost(space, placed, c, f[c])]
               \in Branches(problem, space, q, placed, Top)
<1>1. PICK n \in Nat \ {0} :
         /\ n = Len(stack) /\ n \in 1..n /\ Top = stack[n]
         /\ DOMAIN placed = {stack[i].class : i \in 2..n}
  BY LastCall DEF IInv, StackInv
<1>2. /\ DOMAIN placed \subseteq DOMAIN f /\ \A d \in DOMAIN placed : placed[d] = f[d]
      /\ \A d \in DOMAIN placed, e \in DOMAIN f \ DOMAIN placed : Precedes(f, d, e)
      /\ c \in DOMAIN f \ DOMAIN placed
      /\ \A d \in DOMAIN f \ DOMAIN placed : d = c \/ Precedes(f, c, d)
  BY <1>1 DEF Along, ClassesOf, Follows
<1>3. /\ q \in problem.pools /\ placed \in [DOMAIN placed -> 0..MaxUInt]
      /\ DOMAIN f = NodesOf(space, q) /\ Fits(problem, space, f)
      /\ \A d \in DOMAIN f : f[d] \in Nat /\ Min(d) \in Nat /\ d # NoClass
  <2>1. q \in problem.pools /\ placed \in [DOMAIN placed -> 0..MaxUInt]
    BY PlacedKnown
  <2>2. DOMAIN f = NodesOf(space, q) /\ Fits(problem, space, f) /\ \A d \in DOMAIN f : f[d] \in Nat
    BY <2>1, FullKnown, MaxUIntAssumption
  <2>3. \A d \in DOMAIN f : Min(d) \in Nat /\ d # NoClass
    BY <2>2, NodeKnown, InputTyped, NodesTyped DEF NoClass
  <2> QED
    BY <2>1, <2>2, <2>3
<1>4. Before(f, c) = placed
  <2>1. ASSUME NEW d \in DOMAIN f PROVE Precedes(f, d, c) <=> d \in DOMAIN placed
    <3>1. f[d] \in Nat /\ f[c] \in Nat /\ Min(d) \in Nat /\ Min(c) \in Nat
      BY <1>2, <1>3
    <3>2. Precedes(f, c, d) \/ d = c => ~Precedes(f, d, c)
      BY <3>1 DEF Precedes
    <3> QED
      BY <1>2, <3>2
  <2>2. {e \in DOMAIN f : Precedes(f, e, c)} = DOMAIN placed
    BY <1>2, <2>1
  <2> QED
    BY <1>2, <1>3, <2>2 DEF Before
<1>5. f[c] \in CanonicalOffsetsForNode(problem, space, placed, c)
  BY <1>2, <1>4 DEF Canonical
<1>6. Comes(Top, c, f[c])
  <2>1. CASE n = 1
    BY <1>1, <2>1 DEF IInv, CallsPlace, Comes
  <2>2. CASE n # 1
    <3>1. n \in 2..n
      BY <1>1, <2>2
    <3>2. Top.class \in DOMAIN placed /\ placed[Top.class] = Top.at
      BY <1>1, <3>1 DEF IInv, StackIsPlacement
    <3>3. Precedes(f, Top.class, c) /\ f[Top.class] = Top.at
      BY <1>2, <3>2
    <3>4. f[c] \in Nat /\ Top.at \in Nat /\ Min(Top.class) \in Nat /\ Min(c) \in Nat
      BY <1>2, <1>3, <3>2, <3>3
    <3> QED
      BY <3>3, <3>4 DEF Precedes, Comes
  <2> QED
    BY <2>1, <2>2
<1>7. FitsReuseNodeAt(problem, space, placed, c, f[c])
  <2>1. FitsReuseNodeAt(problem, space, f, c, f[c])
    BY <1>2, <1>3 DEF Fits
  <2> QED
    BY <1>2, <2>1 DEF FitsReuseNodeAt, Touches
<1> DEFINE at == f[c]
<1>8. at \in {x \in CanonicalOffsetsForNode(problem, space, placed, c) :
                 Comes(Top, c, x) /\ FitsReuseNodeAt(problem, space, placed, c, x)}
  BY <1>5, <1>6, <1>7
<1> HIDE DEF at
<1>9. [class |-> c, at |-> at, cost |-> IncrementalReuseCost(space, placed, c, at)]
          \in Branches(problem, space, q, placed, Top)
  BY <1>2, <1>3, <1>8 DEF Branches
<1> QED
  BY <1>9 DEF at

\* The branches of a call take the canonical placements of its loop.
LEMMA ExpandKeeps ==
    ASSUME InputInv, IInv, SearchInv, Expand
    PROVE  SearchInv'
<1>1. UNCHANGED <<problem, space, poolNow, placed, best, stopAfterFirst, limitHit>>
  BY DEF Expand, input
<1>2. PICK q \in poolNow : /\ DOMAIN placed # NodesOf(space, q)
                           /\ LoopHas(Branches(problem, space, q, placed, Top))
  BY ExpandsTo
<1>3. PICK n \in Nat \ {0} :
         /\ n = Len(stack) /\ DOMAIN stack = 1..n /\ n \in 1..n
         /\ DOMAIN placed = {stack[i].class : i \in 2..n} /\ stack # <<>>
  BY ExpandsTo, LastCall DEF IInv, StackInv
<1>4. q \in problem.pools /\ poolNow = {q} /\ DOMAIN placed \subseteq NodesOf(space, q)
  BY PlacedKnown
<1>5. /\ DOMAIN stack' = 1..n
      /\ \A i \in 1..n : /\ stack'[i].class = stack[i].class
                         /\ stack'[i].todo = IF i = n THEN Branches(problem, space, q, placed, Top)
                                             ELSE stack[i].todo
  BY <1>2, <1>3 DEF LoopHas
<1>6. \A i \in 1..n : i \in Nat /\ \A j \in 2..i : j \in 1..n
  BY <1>3
<1>7. PlacedAligned' /\ BestIsFull' /\ \A f : Kept(q, f)' <=> Kept(q, f)
  <2>1. PlacedAligned'
    BY <1>1 DEF SearchInv, PlacedAligned
  <2> QED
    BY <1>1, <2>1, SameIncumbent DEF SearchInv
<1>8. ASSUME NEW f, Full(q, f), Canonical(f), Along(stack, placed, f, n)
      PROVE  Awaits(f)'
  <2>1. DOMAIN f \ ClassesOf(stack, n) # {}
    BY <1>2, <1>3, <1>4, <1>8, FullKnown DEF ClassesOf
  <2>2. PICK c : Follows(f, ClassesOf(stack, n), c)
    BY <1>4, <1>8, <2>1, FollowerExists
  <2> DEFINE b == [class |-> c, at |-> f[c], cost |-> IncrementalReuseCost(space, placed, c, f[c])]
  <2>3. b \in Branches(problem, space, q, placed, Top)
    BY <1>3, <1>8, <2>2, FollowerBranches
  <2>4. LeadsTo(b, f, ClassesOf(stack, n))
    BY <2>2 DEF LeadsTo
  <2> HIDE DEF b
  <2>5. b \in stack'[n].todo /\ n \in DOMAIN stack' /\ \A j \in 2..n : stack'[j].class = stack[j].class
    BY <1>3, <1>5, <1>6, <2>3
  <2> QED
    BY <1>1, <1>8, <2>4, <2>5, BranchLeft
<1>9. ASSUME NEW f, Full(q, f), Canonical(f), Kept(q, f) \/ Awaits(f)
      PROVE  Kept(q, f)' \/ Awaits(f)'
  <2>1. ASSUME NEW i \in DOMAIN stack, i # n, Along(stack, placed, f, i),
               NEW b \in stack[i].todo, LeadsTo(b, f, ClassesOf(stack, i))
        PROVE  Awaits(f)'
    <3>1. i \in Nat /\ i \in DOMAIN stack' /\ b \in stack'[i].todo
          /\ \A j \in 2..i : stack'[j].class = stack[j].class
      BY <1>3, <1>5, <1>6, <2>1
    <3> QED
      BY <1>1, <2>1, <3>1, BranchLeft
  <2> QED
    BY <1>3, <1>7, <1>8, <1>9, <2>1 DEF Awaits
<1>10. NothingLost'
  BY <1>1, <1>4, <1>9, NothingIsLost DEF SearchInv, NothingLost
<1> QED
  BY <1>7, <1>10 DEF SearchInv

\* The offsets of the branches are aligned.
LEMMA BranchAligned ==
    ASSUME InputInv, IInv, NEW q \in poolNow, NEW b, IsBranch(problem, space, q, placed, Top, b)
    PROVE  Aligned(b.at, space.alignment[b.class])
<1> DEFINE c == b.class
<1>1. /\ c \in NodesOf(space, q) /\ space.alignment[c] \in Nat \ {0} /\ space.pool[c] = q
      /\ q \in problem.pools
  BY NodeKnown DEF IsBranch
<1>2. PICK x \in Supports(problem, space, placed, c) : b.at = AlignUp(x, space.alignment[c])
  BY DEF IsBranch, CanonicalOffsetsForNode
<1>3. x \in Nat
  <2>1. \A r \in problem.reserved[q] : r[2] \in Nat
    BY <1>1, InputTyped, MaxUIntAssumption DEF Fixed, ProblemTyped
  <2>2. ASSUME NEW d \in DOMAIN placed PROVE placed[d] + space.size[d] \in Nat
    <3>1. placed[d] \in 0..MaxUInt /\ d \in NodesOf(space, q)
      BY PlacedKnown
    <3>2. space.size[d] \in 0..MaxUInt
      BY <3>1, InputTyped DEF SpaceTyped, NodesOf
    <3> QED
      BY <3>1, <3>2, MaxUIntAssumption
  <2> HIDE DEF c
  <2>3. \/ x = 0
        \/ \E r \in problem.reserved[q] : x = r[2]
        \/ \E d \in DOMAIN placed : x = placed[d] + space.size[d]
    BY <1>1, <1>2 DEF Supports
  <2> QED
    BY <2>1, <2>2, <2>3
<1> QED
  BY <1>1, <1>2, <1>3, AlignUpLeast

\* The branch the search takes it follows, and the others are left to it.
LEMMA DescendKeeps ==
    ASSUME InputInv, IInv, SearchInv, Descend
    PROVE  SearchInv'
<1>1. /\ UNCHANGED <<problem, space, poolNow, best, stopAfterFirst, limitHit>>
      /\ ~entering /\ entering'
  BY DEF Descend, input
<1>2. PICK q \in poolNow, b \in Top.todo :
         /\ IsBranch(problem, space, q, placed, Top, b)
         /\ placed' = Extend(placed, b.class, b.at)
         /\ LoopCalls(Top.todo \ {b},
                      Call(b.class, b.at, SaturatingAdd(Top.cost, b.cost),
                           Max({Top.peak, b.at + space.size[b.class]})))
  BY DescendsTo
<1>3. PICK n \in Nat \ {0} :
         /\ n = Len(stack) /\ DOMAIN stack = 1..n /\ n \in 1..n /\ Top = stack[n]
         /\ DOMAIN placed = {stack[i].class : i \in 2..n} /\ stack # <<>>
  BY DescendsTo, LastCall DEF IInv, StackInv
<1>4. q \in problem.pools /\ poolNow = {q}
  BY PlacedKnown
<1>5. /\ Len(stack') = n + 1 /\ DOMAIN stack' = 1..(n + 1) /\ stack'[n + 1].class = b.class
      /\ \A i \in 1..n : /\ stack'[i].class = stack[i].class
                         /\ stack'[i].todo = IF i = n THEN stack[n].todo \ {b} ELSE stack[i].todo
  <2> DEFINE call == Call(b.class, b.at, SaturatingAdd(Top.cost, b.cost),
                          Max({Top.peak, b.at + space.size[b.class]}))
             todo == Top.todo \ {b}
  <2>1. call.class = b.class /\ todo = stack[n].todo \ {b} /\ LoopCalls(todo, call)
    BY <1>2, <1>3 DEF Call
  <2> HIDE DEF call, todo
  <2>2. /\ Len(stack') = n + 1 /\ stack' \in Seq(Invocation) /\ stack'[n + 1] = call
        /\ \A i \in 1..n : /\ stack'[i].class = stack[i].class
                           /\ stack'[i].todo = IF i = n THEN todo ELSE stack[i].todo
    BY <1>3, <2>1 DEF LoopCalls
  <2>3. DOMAIN stack' = 1..(n + 1)
    BY <1>3, <2>2
  <2> QED
    BY <2>1, <2>2, <2>3
<1>6. \A i \in 1..n : i \in Nat /\ i \in 1..(n + 1) /\ \A j \in 2..i : j \in 1..n /\ j \in 2..n
  BY <1>3
<1>7. /\ DOMAIN placed' = DOMAIN placed \cup {b.class} /\ placed'[b.class] = b.at
      /\ b.class \notin DOMAIN placed /\ \A c \in DOMAIN placed : placed'[c] = placed[c]
  <2>1. b.class \notin DOMAIN placed
    BY <1>2 DEF IsBranch
  <2> QED
    BY <1>2, <2>1 DEF Extend
<1>8. PlacedAligned' /\ BestIsFull' /\ \A f : Kept(q, f)' <=> Kept(q, f)
  <2>1. Aligned(b.at, space.alignment[b.class])
    BY <1>2, BranchAligned
  <2>2. PlacedAligned'
    BY <1>1, <1>7, <2>1 DEF SearchInv, PlacedAligned
  <2> QED
    BY <1>1, <2>2, SameIncumbent DEF SearchInv
<1>9. \A i \in 1..n : \A c \in ClassesOf(stack, i) : c \in DOMAIN placed /\ placed'[c] = placed[c]
  BY <1>3, <1>6, <1>7 DEF ClassesOf
<1>10. ASSUME NEW f, NEW i \in 1..n, Along(stack, placed, f, i),
              NEW o \in stack'[i].todo, LeadsTo(o, f, ClassesOf(stack, i))
       PROVE  Awaits(f)'
  <2>1. i \in Nat /\ i \in DOMAIN stack' /\ \A j \in 2..i : stack'[j].class = stack[j].class
    BY <1>5, <1>6
  <2> QED
    BY <1>9, <1>10, <2>1, BranchLeft
<1>11. ASSUME NEW f, Along(stack, placed, f, n), LeadsTo(b, f, ClassesOf(stack, n))
       PROVE  Awaits(f)'
  <2>1. ClassesOf(stack', n + 1) = ClassesOf(stack, n) \cup {b.class}
    <3>1. \A j \in 2..(n + 1) : j = n + 1 \/ j \in 2..n
      BY <1>3
    <3>2. \A j \in 2..n : j \in 2..(n + 1) /\ j \in 1..n
      BY <1>3
    <3>3. n + 1 \in 2..(n + 1)
      BY <1>3
    <3> QED
      BY <1>5, <3>1, <3>2, <3>3 DEF ClassesOf
  <2>2. /\ b.class \in DOMAIN f \ ClassesOf(stack, n) /\ f[b.class] = b.at
        /\ \A d \in DOMAIN f \ ClassesOf(stack, n) : d = b.class \/ Precedes(f, b.class, d)
    BY <1>11 DEF LeadsTo, Follows
  <2>3. /\ \A c \in ClassesOf(stack, n) : c \in DOMAIN f /\ placed'[c] = f[c]
        /\ \A c \in ClassesOf(stack, n), d \in DOMAIN f \ ClassesOf(stack, n) : Precedes(f, c, d)
    BY <1>3, <1>9, <1>11 DEF Along
  <2>4. Along(stack', placed', f, n + 1)
    BY <1>7, <2>1, <2>2, <2>3 DEF Along
  <2>5. n + 1 \in DOMAIN stack' /\ n + 1 = Len(stack')
    BY <1>3, <1>5
  <2> QED
    BY <1>1, <2>4, <2>5 DEF Awaits
<1>12. ASSUME NEW f, Kept(q, f) \/ Awaits(f)
       PROVE  Kept(q, f)' \/ Awaits(f)'
  <2>1. ASSUME NEW i \in 1..n, Along(stack, placed, f, i),
               NEW o \in stack[i].todo, LeadsTo(o, f, ClassesOf(stack, i))
        PROVE  Awaits(f)'
    <3>1. CASE i = n /\ o = b
      BY <1>11, <2>1, <3>1
    <3>2. CASE ~(i = n /\ o = b)
      <4>1. o \in stack'[i].todo
        BY <1>5, <2>1, <3>2
      <4> QED
        BY <1>10, <2>1, <4>1
    <3> QED
      BY <3>1, <3>2
  <2> QED
    BY <1>1, <1>3, <1>8, <1>12, <2>1 DEF Awaits
<1>13. NothingLost'
  BY <1>1, <1>4, <1>12, NothingIsLost DEF SearchInv, NothingLost
<1> QED
  BY <1>8, <1>13 DEF SearchInv

\* A valid solution fits in every pool, aligned.
LEMMA ValidIsFull ==
    ASSUME InputInv, NEW q \in problem.pools, NEW sol, ValidSolution(problem, sol),
           \A b \in problem.buffers : sol[b].offset \in 0..MaxUInt
    PROVE  Full(q, SeedPlacement(space, q, sol))
<1> DEFINE off == SeedPlacement(space, q, sol)
<1>1. Fixed(problem) /\ SpaceTyped(problem, space)
  BY InputTyped
<1>2. Partial(problem, off) /\ Fits(problem, space, off)
  BY <1>1, SeedFits
<1>3. DOMAIN off = NodesOf(space, q) /\ \A c \in NodesOf(space, q) : off[c] = sol[Min(c)].offset
  BY DEF SeedPlacement
<1>4. ASSUME NEW c \in NodesOf(space, q) PROVE Aligned(off[c], space.alignment[c])
  <2>1. c \in Classes(problem)
    BY NodeKnown
  <2>2. off[c] \in Nat
    BY <1>2, <1>3, MaxUIntAssumption DEF Partial
  <2>3. \A m \in c : m \in problem.buffers /\ sol[m].offset = off[c]
    BY <1>1, <1>3, <2>1, SeedOfNode
  <2>4. \A m \in c : off[c] % problem.alignment[m] = 0
    BY <2>3 DEF ValidSolution, WellPlaced, Aligned
  <2> QED
    BY <1>1, <2>1, <2>2, <2>4, SpaceWeighs DEF InputInv
<1> HIDE DEF off
<1>5. off \in [NodesOf(space, q) -> 0..MaxUInt]
  BY <1>2, <1>3 DEF Partial
<1> QED
  BY <1>2, <1>3, <1>4, <1>5 DEF Full, off

\* The seed's placement of a pool.
LEMMA SeedFull ==
    ASSUME InputInv, NEW q \in problem.pools
    PROVE  /\ \E x : SeedOf(q) \subseteq {x}
           /\ \A kept \in SeedOf(q) : Full(q, kept.offset)
<1>1. Fixed(problem) /\ SpaceTyped(problem, space)
  BY InputTyped
<1>2. seed = {} \/ \E sol \in seed : /\ seed = {sol} /\ ValidSolution(problem, sol)
                                     /\ \A b \in problem.buffers : sol[b].offset \in 0..MaxUInt
  BY SeedsAssumption DEF InputInv
<1> DEFINE kept(sol) ==
               [offset |-> SeedPlacement(space, q, sol),
                score |-> PoolScore(problem, PoolReuseCost(space, SeedPlacement(space, q, sol)),
                                    PeakOf(problem, space, q, SeedPlacement(space, q, sol)))]
<1>3. SeedOf(q) = {kept(sol) : sol \in seed}
  BY DEF SeedOf
<1>4. \E x : SeedOf(q) \subseteq {x}
  <2> HIDE DEF kept
  <2>1. CASE seed = {}
    BY <1>3, <2>1
  <2>2. CASE \E sol : seed = {sol}
    <3>1. PICK sol : seed = {sol}
      BY <2>2
    <3>2. SeedOf(q) \subseteq {kept(sol)}
      BY <1>3, <3>1
    <3> QED
      BY <3>2
  <2> QED
    BY <1>2, <2>1, <2>2
<1>5. \A sol \in seed : Full(q, SeedPlacement(space, q, sol))
  BY <1>2, ValidIsFull
<1>6. \A sol \in seed : kept(sol).offset = SeedPlacement(space, q, sol)
  OBVIOUS
<1> HIDE DEF kept
<1> QED
  BY <1>3, <1>4, <1>5, <1>6

\* The first call has every placement of the pool before it.
LEMMA StartPoolKeeps ==
    ASSUME InputInv, IInv, SearchInv, NEW q \in poolsLeft, StartPool(q)
    PROVE  SearchInv'
<1>1. /\ poolNow' = {q} /\ best' = (IF stopAfterFirst THEN {} ELSE SeedOf(q)) /\ entering'
      /\ UNCHANGED <<problem, space, placed, stopAfterFirst>>
  BY DEF StartPool, input
<1>2. q \in problem.pools
  BY DEF IInv, TypeOK
<1> DEFINE call == Call(NoClass, 0, 0, PeakOf(problem, space, q, NoOffsets))
<1>3. stack' = <<call>>
  BY DEF StartPool
<1> HIDE DEF call
<1>4. DOMAIN stack' = {1} /\ Len(stack') = 1
  BY <1>3
<1>5. PlacedAligned'
  BY <1>1 DEF SearchInv, PlacedAligned
<1>6. BestIsFull'
  <2>1. \A r, f : Full(r, f)' <=> Full(r, f)
    BY <1>1, SameQuestion
  <2> QED
    BY <1>1, <1>2, <2>1, SeedFull DEF BestIsFull
<1>7. ASSUME NEW f PROVE Awaits(f)'
  <2>1. ClassesOf(stack', 1) = {}
    BY DEF ClassesOf
  <2>2. Along(stack', placed', f, 1)
    BY <2>1 DEF Along
  <2> QED
    BY <1>1, <1>4, <2>2 DEF Awaits
<1> QED
  BY <1>5, <1>6, <1>7 DEF SearchInv, NothingLost

\* The steps between the searches of two pools.
LEMMA BetweenKeeps ==
    ASSUME SearchInv, UNCHANGED <<problem, space, placed, best>>,
           poolNow' = {}
    PROVE  SearchInv'
  BY DEF SearchInv, PlacedAligned, BestIsFull, NothingLost

LEMMA StutterKeeps ==
    ASSUME SearchInv, UNCHANGED vars
    PROVE  SearchInv'
<1>1. UNCHANGED <<problem, space, placed, best, poolNow, stack, entering, limitHit, stopAfterFirst>>
  BY DEF vars, input, search
<1>2. PlacedAligned' /\ BestIsFull' /\ \A q, f : Kept(q, f)' <=> Kept(q, f)
  <2>1. PlacedAligned'
    BY <1>1 DEF SearchInv, PlacedAligned
  <2> QED
    BY <1>1, <2>1, SameIncumbent DEF SearchInv
<1>3. \A f : Awaits(f)' <=> Awaits(f)
  BY <1>1 DEF Awaits
<1>4. NothingLost'
  BY <1>1, <1>2, <1>3, NothingIsLost DEF SearchInv, NothingLost
<1> QED
  BY <1>2, <1>4 DEF SearchInv

LEMMA NextKeeps ==
    ASSUME InputInv, IInv, SearchInv, [Next]_vars
    PROVE  SearchInv'
<1>1. ASSUME NEW q \in poolsLeft, SkipPool(q) PROVE SearchInv'
  BY <1>1, BetweenKeeps DEF SkipPool, input, search
<1>2. ASSUME NEW q \in poolsLeft, StartPool(q) PROVE SearchInv'
  BY <1>2, StartPoolKeeps
<1>3. CASE HitLimit
  BY <1>3, HitLimitKeeps
<1>4. CASE Prune
  BY <1>4, PruneKeeps
<1>5. CASE Leaf
  BY <1>5, LeafKeeps
<1>6. CASE Expand
  BY <1>6, ExpandKeeps
<1>7. CASE Descend
  BY <1>7, DescendKeeps
<1>8. CASE LoopEnds
  BY <1>8, LoopEndsKeeps
<1>9. CASE PoolDone
  BY <1>9, BetweenKeeps DEF PoolDone, input, search
<1>10. CASE AllPoolsDone
  BY <1>10, BetweenKeeps DEF AllPoolsDone, input, search
<1>11. CASE Terminated \/ UNCHANGED vars
  BY <1>11, StutterKeeps DEF Terminated
<1> QED
  BY <1>1, <1>2, <1>3, <1>4, <1>5, <1>6, <1>7, <1>8, <1>9, <1>10, <1>11 DEF Next

\* When the search of a pool is over, nothing is before it any more.
LEMMA OverKeepsAll ==
    ASSUME InputInv, IInv, SearchInv, NEW q \in poolNow, stack = <<>>, ~limitHit,
           stopAfterFirst => best = {}, NEW off, Full(q, off)
    PROVE  Kept(q, off)
<1>1. q \in problem.pools
  BY DEF IInv, TypeOK
<1>2. PICK n \in Nat : Scores \subseteq [1..n -> Int]
  BY ScoreVectors
<1>3. PICK g : Full(q, g) /\ Canonical(g) /\ ~ScoreBefore(ScoreOf(q, off), ScoreOf(q, g))
  BY <1>1, CanonicalEnough
<1>4. DOMAIN stack = {}
  OBVIOUS
<1>5. PICK kept \in best : ~ScoreBefore(ScoreOf(q, g), kept.score)
  BY <1>3, <1>4 DEF SearchInv, NothingLost, Awaits, Kept
<1>6. /\ ScoreOf(q, off) \in [1..n -> Int] /\ ScoreOf(q, g) \in [1..n -> Int]
      /\ kept.score \in [1..n -> Int]
  <2>1. kept.score \in Scores
    BY DEF IInv, TypeOK
  <2> QED
    BY <1>1, <1>2, <1>3, <2>1, FullKnown
<1>7. ~ScoreBefore(ScoreOf(q, off), kept.score)
  BY <1>3, <1>5, <1>6, ScoresChain
<1> QED
  BY <1>7 DEF Kept

LEMMA OverIsOptimal ==
    ASSUME InputInv, IInv, SearchInv
    PROVE  PoolOptimum
<1> SUFFICES ASSUME NEW q \in poolNow, stack = <<>>, ~limitHit, ~stopAfterFirst
             PROVE  {kept.score : kept \in best} =
                        IF PoolScores[problem][q] = {} THEN {} ELSE {BestScore(PoolScores[problem][q])}
  BY DEF PoolOptimum
<1> DEFINE S == PoolScores[problem][q]
<1>1. q \in problem.pools
  BY DEF IInv, TypeOK
<1>2. PICK n \in Nat : Scores \subseteq [1..n -> Int]
  BY ScoreVectors
<1>3. /\ \A off : Full(q, off) => ScoreOf(q, off) \in S
      /\ \A x \in S : \E off : Full(q, off) /\ x = ScoreOf(q, off)
  BY <1>1, PoolScoresAre
<1> HIDE DEF S
<1>4. \A off : Full(q, off) => ScoreOf(q, off) \in [1..n -> Int]
  BY <1>1, <1>2, FullKnown
<1>5. \A kept \in best : /\ Full(q, kept.offset) /\ kept.score = ScoreOf(q, kept.offset)
                         /\ kept.score \in S /\ kept.score \in [1..n -> Int]
  <2>1. \A kept \in best : Full(q, kept.offset) /\ kept.score = ScoreOf(q, kept.offset)
    BY DEF SearchInv, BestIsFull, IInv, IncumbentScored, ScoreOf
  <2> QED
    BY <1>3, <1>4, <2>1
<1>6. ASSUME NEW x \in S PROVE \E kept \in best : ~ScoreBefore(x, kept.score)
  <2>1. PICK off : Full(q, off) /\ x = ScoreOf(q, off)
    BY <1>3
  <2>2. Kept(q, off)
    BY <2>1, OverKeepsAll
  <2> QED
    BY <2>1, <2>2 DEF Kept
<1>7. CASE S = {}
  <2>1. best = {}
    BY <1>5, <1>7
  <2> QED
    BY <1>7, <2>1 DEF S
<1>8. CASE S # {}
  <2>1. PICK kept \in best : best = {kept}
    BY <1>6, <1>8 DEF SearchInv, BestIsFull
  <2>2. \A x \in S : ~ScoreBefore(x, kept.score)
    BY <1>6, <2>1
  <2>3. S \in SUBSET [1..n -> Int]
    BY <1>3, <1>4
  <2>4. BestScore(S) = kept.score
    BY <1>5, <2>2, <2>3, BestScoreIs
  <2>5. {k.score : k \in best} = {kept.score}
    BY <2>1
  <2> QED
    BY <1>8, <2>4, <2>5 DEF S
<1> QED
  BY <1>7, <1>8

\* The canonical offsets are enough, and neither a bound nor a loop that ends
\* loses what it should not: a search of one pool that met no limit has kept a
\* placement as good as every placement of the pool at whatever offsets, or
\* there is none (PoolCanonicalSearch::Run and CanonicalOffsetsForNode).
THEOREM Optimum == Spec => []PoolOptimum
<1>1. Init => InputInv /\ IInv /\ SearchInv
  <2>1. Init => SearchInv
    BY DEF Init, SearchInv, PlacedAligned, BestIsFull, NothingLost, NoOffsets
  <2> QED
    BY <2>1, InitInv
<1>2. InputInv /\ IInv /\ SearchInv /\ [Next]_vars => (InputInv /\ IInv /\ SearchInv)'
  BY NextInv, NextKeeps
<1>3. InputInv /\ IInv /\ SearchInv => PoolOptimum
  BY OverIsOptimal
<1> QED
  BY <1>1, <1>2, <1>3, PTL DEF Spec

(***************************************************************************)
(* The whole problem: a placement of every class, and its part in a pool.  *)
(***************************************************************************)
Part(off, q) == [c \in NodesOf(space, q) |-> off[c]]

Whole(off) ==
    /\ off \in [Classes(problem) -> 0..MaxUInt]
    /\ \A q \in problem.pools : Full(q, Part(off, q))

\* Every class is a node of one pool, and every pool has a capacity.
LEMMA PoolsKnown ==
    ASSUME InputInv
    PROVE  /\ problem.pools # {} /\ IsFiniteSet(problem.pools)
           /\ ProblemTyped(problem) /\ ObjectiveTyped(problem) /\ ValidProblem(problem)
           /\ DOMAIN problem.capacity = problem.pools
           /\ \A q \in problem.pools : problem.capacity[q] \in 0..MaxUInt
           /\ \A c \in Classes(problem) : /\ PoolOf(problem, c) \in problem.pools
                                          /\ c \in NodesOf(space, PoolOf(problem, c))
<1>1. Fixed(problem) /\ SpaceTyped(problem, space) /\ ValidProblem(problem)
  BY InputTyped, FixedKnown
<1>2. DOMAIN problem.capacity = problem.pools /\ problem.pools # {} /\ IsFiniteSet(problem.pools)
  BY <1>1, ProblemsAssumption DEF InputInv, ValidProblem, Fixed, ObjectiveTyped
<1>3. \A q \in problem.pools : problem.capacity[q] \in 0..MaxUInt
  BY <1>1, <1>2 DEF Fixed, ProblemTyped
<1>4. \A c \in Classes(problem) : /\ PoolOf(problem, c) \in problem.pools
                                  /\ c \in NodesOf(space, PoolOf(problem, c))
  BY <1>1 DEF SpaceTyped, NodesOf
<1> QED
  BY <1>1, <1>2, <1>3, <1>4 DEF Fixed

\* A class in a placement of every class.
LEMMA WholeKnown ==
    ASSUME InputInv, NEW off, Whole(off), NEW c \in Classes(problem)
    PROVE  LET q == PoolOf(problem, c)
           IN  /\ q \in problem.pools /\ c \in NodesOf(space, q) /\ Part(off, q)[c] = off[c]
               /\ off[c] \in 0..MaxUInt /\ off[c] + ClassSize(problem, c) <= problem.capacity[q]
               /\ space.size[c] = ClassSize(problem, c) /\ ClassSize(problem, c) \in 1..MaxUInt
               /\ Aligned(off[c], ClassAlignment(problem, c))
               /\ FitsReuseNodeAt(problem, space, Part(off, q), c, off[c])
<1> DEFINE q == PoolOf(problem, c)
<1>1. q \in problem.pools /\ c \in NodesOf(space, q) /\ DOMAIN problem.capacity = problem.pools
  BY PoolsKnown
<1>2. /\ space.pool[c] = q /\ space.size[c] = ClassSize(problem, c)
      /\ space.size[c] \in 1..MaxUInt /\ space.alignment[c] = ClassAlignment(problem, c)
  BY <1>1, NodeKnown
<1> HIDE DEF q
<1>3. Full(q, Part(off, q)) /\ Part(off, q)[c] = off[c] /\ DOMAIN Part(off, q) = NodesOf(space, q)
  BY <1>1 DEF Whole, Part
<1>4. /\ FitsReuseNodeAt(problem, space, Part(off, q), c, off[c])
      /\ Aligned(off[c], space.alignment[c]) /\ off[c] \in 0..MaxUInt
  BY <1>1, <1>3 DEF Full, Fits, Whole
<1>5. off[c] + space.size[c] <= problem.capacity[q]
  BY <1>1, <1>2, <1>4 DEF FitsReuseNodeAt
<1> QED
  BY <1>1, <1>2, <1>3, <1>4, <1>5 DEF q

\* Where SolutionOf has the buffers.
LEMMA WholePlaces ==
    ASSUME InputInv, NEW off, Whole(off)
    PROVE  LET sol == SolutionOf(problem, off)
           IN  /\ DOMAIN sol = problem.buffers
               /\ \A b \in problem.buffers :
                      /\ ClassOf(problem, b) \in Classes(problem) /\ b \in ClassOf(problem, b)
                      /\ sol[b] = [pool |-> PoolOf(problem, ClassOf(problem, b)),
                                   offset |-> off[ClassOf(problem, b)]]
                      /\ sol[b].pool = PoolOf(problem, ClassOf(problem, b))
                      /\ sol[b].offset = off[ClassOf(problem, b)]
                      /\ sol[b].offset \in 0..MaxUInt
<1>1. Known(problem) /\ KnownColocations(problem)
  BY InputTyped, FixedKnown DEF Known
<1>2. UNION Classes(problem) = problem.buffers
  BY <1>1, ClassIsOfMember, ClassMembers DEF Classes
<1>3. \A b \in problem.buffers : ClassOf(problem, b) \in Classes(problem) /\ b \in ClassOf(problem, b)
  BY ClassMembers DEF Classes
<1>4. DOMAIN off = Classes(problem) /\ \A c \in Classes(problem) : off[c] \in 0..MaxUInt
  BY DEF Whole
<1> QED
  BY <1>2, <1>3, <1>4 DEF SolutionOf

\* Two classes that block each other are apart.
LEMMA WholeApart ==
    ASSUME InputInv, NEW off, Whole(off), NEW c \in Classes(problem), NEW d \in Classes(problem),
           c # d, Blocks(problem, c, d)
    PROVE  ~AddressRangesOverlap(off[c], ClassSize(problem, c), off[d], ClassSize(problem, d))
<1> DEFINE q == PoolOf(problem, c)
<1>1. PoolOf(problem, d) = q /\ SpaceTyped(problem, space)
  BY InputTyped DEF Blocks
<1>2. /\ c \in NodesOf(space, q) /\ Part(off, q)[c] = off[c] /\ space.size[c] = ClassSize(problem, c)
      /\ FitsReuseNodeAt(problem, space, Part(off, q), c, off[c])
  BY WholeKnown
<1>3. d \in NodesOf(space, q) /\ Part(off, q)[d] = off[d] /\ space.size[d] = ClassSize(problem, d)
  BY <1>1, WholeKnown
<1>4. <<c, d>> \in space.hard /\ d \in DOMAIN Part(off, q)
  BY <1>1, <1>3 DEF SpaceTyped, Part
<1>5. ~Touches(space, Part(off, q), c, off[c], d)
  BY <1>2, <1>4 DEF FitsReuseNodeAt
<1> QED
  BY <1>2, <1>3, <1>5 DEF Touches

\* The placement found pool by pool passes the validator.
LEMMA WholeValid ==
    ASSUME InputInv, NEW off, Whole(off)
    PROVE  ValidSolution(problem, SolutionOf(problem, off))
<1> DEFINE p == problem
           sol == SolutionOf(problem, off)
<1>1. /\ Fixed(p) /\ Known(p) /\ KnownColocations(p) /\ PrepareAccepts(p) /\ p.pins = {}
      /\ ValidProblem(p) /\ ProblemTyped(p) /\ DOMAIN p.capacity = p.pools
  BY InputTyped, FixedKnown, PoolsKnown DEF Fixed, Known
<1>2. /\ DOMAIN sol = p.buffers
      /\ \A b \in p.buffers :
             /\ ClassOf(p, b) \in Classes(p) /\ b \in ClassOf(p, b)
             /\ sol[b] = [pool |-> PoolOf(p, ClassOf(p, b)), offset |-> off[ClassOf(p, b)]]
             /\ sol[b].pool = PoolOf(p, ClassOf(p, b)) /\ sol[b].offset = off[ClassOf(p, b)]
  BY WholePlaces
<1> HIDE DEF sol
<1>3. ASSUME NEW b \in p.buffers PROVE WellPlaced(p, sol, b)
  <2> DEFINE c == ClassOf(p, b)
             q == PoolOf(p, c)
  <2>1. c \in Classes(p) /\ b \in c /\ c \in SUBSET p.buffers
    BY <1>1, <1>2, NodesTyped
  <2>2. sol[b].pool = q /\ sol[b].offset = off[c]
    BY <1>2
  <2> HIDE DEF c
  <2>3. /\ q \in p.pools /\ off[c] \in 0..MaxUInt /\ off[c] + ClassSize(p, c) <= p.capacity[q]
        /\ ClassSize(p, c) \in 1..MaxUInt /\ Aligned(off[c], ClassAlignment(p, c))
        /\ FitsReuseNodeAt(p, space, Part(off, q), c, off[c])
        /\ space.size[c] = ClassSize(p, c) /\ space.pool[c] = q /\ q \in ClassPools(p, c)
    BY <1>1, <2>1, WholeKnown, NodeKnown, NodesTyped
  <2> HIDE DEF q
  <2>4. q \in p.allowed[b]
    BY <2>1, <2>3 DEF ClassPools
  <2>5. p.size[b] \in 0..MaxUInt /\ p.size[b] <= ClassSize(p, c) /\ p.size[b] # 0
    BY <1>1, <2>1, ClassSizeLargest DEF ProblemTyped, ValidProblem, ValidBuffer
  <2>6. Aligned(off[c], p.alignment[b])
    <3>1. \A x \in c : p.alignment[x] # 0
      BY <1>1, <2>1 DEF ValidProblem, ValidBuffer
    <3>2. p.alignment[b] \in Nat \ {0}
      BY <1>1, <2>1, <3>1 DEF ProblemTyped
    <3>3. ClassAlignment(p, c) \in Nat \ {0} /\ ClassAlignment(p, c) % p.alignment[b] = 0
      BY <1>1, <2>1, <3>1, ClassAlignmentDivides
    <3>4. off[c] % ClassAlignment(p, c) = 0 /\ off[c] \in Nat
      BY <2>3 DEF Aligned
    <3> QED
      BY <3>2, <3>3, <3>4, Divides DEF Aligned
  <2>7. p.capacity[q] \in 0..MaxUInt
    BY <2>3, PoolsKnown
  <2>8. off[c] + p.size[b] <= p.capacity[q] /\ ~AddOverflows(off[c], p.size[b])
    BY <2>3, <2>5, <2>7, MaxUIntAssumption DEF AddOverflows
  <2>9. ~OverlapsReserved(p, q, off[c], p.size[b])
    <3> SUFFICES ASSUME NEW r \in p.reserved[q]
                 PROVE  ~AddressRangesOverlap(off[c], p.size[b], r[1], r[2] - r[1])
      BY DEF OverlapsReserved
    <3>1. r[1] \in 0..MaxUInt /\ r[2] \in 0..MaxUInt /\ r[1] < r[2]
      BY <1>1, <2>3 DEF ProblemTyped, ValidProblem, ValidPool
    <3>2. ~AddressRangesOverlap(off[c], ClassSize(p, c), r[1], r[2] - r[1])
      BY <2>3 DEF FitsReuseNodeAt, OverlapsReserved
    <3>3. off[c] + ClassSize(p, c) <= MaxUInt
      BY <2>3, <2>7, MaxUIntAssumption
    <3>4. off[c] + p.size[b] <= MaxUInt /\ p.size[b] \in 1..MaxUInt
      BY <2>3, <2>5, <2>8, MaxUIntAssumption DEF AddOverflows
    <3>5. ~(~(r[2] <= off[c] \/ off[c] + ClassSize(p, c) <= r[1]))
      BY <2>3, <3>1, <3>2, <3>3, RangeMet
    <3>6. r[2] <= off[c] \/ off[c] + p.size[b] <= r[1]
      BY <2>3, <2>5, <3>1, <3>5
    <3> QED
      BY <2>3, <3>1, <3>4, <3>6, RangeMet
  <2> QED
    BY <2>2, <2>4, <2>6, <2>8, <2>9 DEF WellPlaced
<1>4. ASSUME NEW pair \in p.colocations PROVE sol[pair[1]] = sol[pair[2]]
  <2>1. pair[1] \in p.buffers /\ pair[2] \in p.buffers
    BY <1>1 DEF KnownColocations, KnownPair
  <2>2. pair[2] \in ClassOf(p, pair[1])
    BY <1>1, <2>1, ClassMembers, ClassClosed DEF ClosedUnderColocation
  <2>3. ClassOf(p, pair[2]) = ClassOf(p, pair[1])
    BY <1>1, <2>1, <2>2, ClassOfMember
  <2> QED
    BY <1>2, <2>1, <2>3
<1>5. ASSUME NEW a \in p.buffers, NEW b \in p.buffers, ClassOf(p, a) # ClassOf(p, b),
             MustNotReuse(p, a, b) \/ Separated(p, ClassOf(p, a), ClassOf(p, b))
      PROVE  ~ExtentsOverlap(p, sol, a, b)
  <2> DEFINE c == ClassOf(p, a)
             d == ClassOf(p, b)
  <2>1. c \in Classes(p) /\ d \in Classes(p) /\ a \in c /\ b \in d
    BY <1>2
  <2>2. SuperBuffersConflict(p, c, d) \/ Separated(p, c, d)
    BY <1>1, <1>5, <2>1 DEF MustNotReuse, ExclusivelyPinned, SuperBuffersConflict
  <2>3. /\ sol[a].pool = PoolOf(p, c) /\ sol[a].offset = off[c]
        /\ sol[b].pool = PoolOf(p, d) /\ sol[b].offset = off[d] /\ c # d
    BY <1>2, <1>5
  <2>4. CASE PoolOf(p, c) # PoolOf(p, d)
    BY <2>3, <2>4 DEF ExtentsOverlap
  <2>5. CASE PoolOf(p, c) = PoolOf(p, d)
    <3> HIDE DEF c, d
    <3>1. Blocks(p, c, d)
      BY <2>2, <2>5 DEF Blocks
    <3>2. ~AddressRangesOverlap(off[c], ClassSize(p, c), off[d], ClassSize(p, d))
      BY <2>1, <2>3, <3>1, WholeApart
    <3> QED
      BY <2>3, <3>2 DEF ExtentsOverlap, c, d
  <2> QED
    BY <2>4, <2>5
<1>6. ASSUME NEW pair \in p.separations PROVE ~ExtentsOverlap(p, sol, pair[1], pair[2])
  <2>1. /\ pair[1] \in p.buffers /\ pair[2] \in p.buffers
        /\ ClassOf(p, pair[1]) # ClassOf(p, pair[2])
    BY <1>1 DEF ValidProblem, KnownPair, PrepareAccepts
  <2>2. Separated(p, ClassOf(p, pair[1]), ClassOf(p, pair[2]))
    BY <2>1, ClassMembers DEF Separated
  <2> QED
    BY <1>5, <2>1, <2>2
<1> QED
  BY <1>1, <1>2, <1>3, <1>4, <1>5, <1>6 DEF ValidSolution, sol

\* It is one of those the answer is compared with.
LEMMA WholeIsPlacement ==
    ASSUME InputInv, NEW off, Whole(off)
    PROVE  SolutionOf(problem, off) \in PlacementsOf(problem)
<1> DEFINE caps == {problem.capacity[q] : q \in problem.pools}
<1>1. caps \in SUBSET (0..MaxUInt) /\ caps # {} /\ LastAddress(problem) = Max(caps)
  BY PoolsKnown DEF LastAddress
<1>2. ASSUME NEW c \in Classes(problem) PROVE off[c] \in 0..LastAddress(problem)
  <2>1. /\ PoolOf(problem, c) \in problem.pools /\ off[c] \in 0..MaxUInt
        /\ off[c] + ClassSize(problem, c) <= problem.capacity[PoolOf(problem, c)]
        /\ ClassSize(problem, c) \in 1..MaxUInt
    BY WholeKnown
  <2> DEFINE cap == problem.capacity[PoolOf(problem, c)]
  <2>2. cap \in caps
    BY <2>1
  <2> HIDE DEF caps
  <2>3. cap \in 0..MaxUInt /\ Max(caps) \in 0..MaxUInt /\ cap <= Max(caps)
    BY <1>1, <2>2, MaxNatural, MaxUIntAssumption
  <2> HIDE DEF cap
  <2>4. off[c] + ClassSize(problem, c) <= cap
    BY <2>1 DEF cap
  <2> QED
    BY <1>1, <2>1, <2>3, <2>4, MaxUIntAssumption
<1>3. off \in [Classes(problem) -> 0..LastAddress(problem)]
  BY <1>2 DEF Whole
<1> QED
  BY <1>3, WholeValid DEF PlacementsOf

\* The offsets that a solution gives the classes.
Taken(sol) == [c \in Classes(problem) |-> sol[Min(c)].offset]

\* Every valid solution is a placement pool by pool, scored alike.
LEMMA ValidIsWhole ==
    ASSUME InputInv, NEW sol, ValidSolution(problem, sol),
           \A b \in problem.buffers : sol[b].offset \in 0..MaxUInt
    PROVE  /\ Whole(Taken(sol))
           /\ \A q \in problem.pools : Part(Taken(sol), q) = SeedPlacement(space, q, sol)
           /\ ObjectiveScore(problem, SolutionOf(problem, Taken(sol))) = ObjectiveScore(problem, sol)
<1> DEFINE off == Taken(sol)
<1>1. Fixed(problem)
  BY InputTyped
<1>2. ASSUME NEW c \in Classes(problem)
      PROVE  /\ off[c] = sol[Min(c)].offset /\ off[c] \in 0..MaxUInt
             /\ \A m \in c : sol[m].pool = PoolOf(problem, c) /\ sol[m].offset = off[c]
  <2>1. Min(c) \in problem.buffers /\ off[c] = sol[Min(c)].offset
    BY <1>1, NodesTyped DEF Taken
  <2> QED
    BY <1>1, <2>1, SeedOfNode
<1>3. off \in [Classes(problem) -> 0..MaxUInt]
  BY <1>2 DEF Taken
<1>4. ASSUME NEW q \in problem.pools
      PROVE  Part(off, q) = SeedPlacement(space, q, sol) /\ Full(q, SeedPlacement(space, q, sol))
  <2>1. \A c \in NodesOf(space, q) : c \in Classes(problem)
    BY NodeKnown
  <2>2. Part(off, q) = SeedPlacement(space, q, sol)
    BY <1>2, <2>1 DEF Part, SeedPlacement
  <2> QED
    BY <2>2, ValidIsFull
<1> HIDE DEF off
<1>5. Whole(off)
  BY <1>3, <1>4 DEF Whole
<1>6. ObjectiveScore(problem, SolutionOf(problem, off)) = ObjectiveScore(problem, sol)
  <2> DEFINE other == SolutionOf(problem, off)
  <2>1. /\ DOMAIN other = problem.buffers
        /\ \A b \in problem.buffers :
               /\ ClassOf(problem, b) \in Classes(problem) /\ b \in ClassOf(problem, b)
               /\ other[b].pool = PoolOf(problem, ClassOf(problem, b))
               /\ other[b].offset = off[ClassOf(problem, b)]
    BY <1>5, WholePlaces
  <2>2. DOMAIN sol = problem.buffers
    BY DEF ValidSolution
  <2> HIDE DEF other
  <2>3. \A b \in DOMAIN sol : other[b].pool = sol[b].pool /\ other[b].offset = sol[b].offset
    BY <1>2, <2>1, <2>2
  <2>4. ObjectiveScore(problem, other) = ObjectiveScore(problem, sol)
    BY <2>1, <2>2, <2>3, SameObjective
  <2> QED
    BY <2>4 DEF other
<1> QED
  BY <1>4, <1>5, <1>6 DEF off

\* The placements the answer is compared with are valid, at words.
LEMMA PlacementsKnown ==
    ASSUME InputInv, NEW sol \in PlacementsOf(problem)
    PROVE  ValidSolution(problem, sol) /\ \A b \in problem.buffers : sol[b].offset \in 0..MaxUInt
<1> DEFINE caps == {problem.capacity[q] : q \in problem.pools}
<1>1. LastAddress(problem) \in 0..MaxUInt
  <2>1. caps \in SUBSET (0..MaxUInt) /\ caps # {} /\ LastAddress(problem) = Max(caps)
    BY PoolsKnown DEF LastAddress
  <2> HIDE DEF caps
  <2> QED
    BY <2>1, MaxNatural, MaxUIntAssumption
<1>2. PICK off \in [Classes(problem) -> 0..LastAddress(problem)] : sol = SolutionOf(problem, off)
  BY DEF PlacementsOf
<1>3. ValidSolution(problem, sol)
  BY DEF PlacementsOf
<1>4. ASSUME NEW b \in problem.buffers PROVE sol[b].offset \in 0..MaxUInt
  <2>1. ClassOf(problem, b) \in Classes(problem) /\ b \in ClassOf(problem, b)
    BY ClassMembers DEF Classes
  <2>2. sol[b].offset = off[ClassOf(problem, b)]
    BY <1>2, <2>1 DEF SolutionOf
  <2>3. off[ClassOf(problem, b)] \in 0..LastAddress(problem)
    BY <2>1
  <2> QED
    BY <1>1, <2>2, <2>3, MaxUIntAssumption
<1> QED
  BY <1>3, <1>4

\* The solution of a part is the solution of the whole in that pool.
LEMMA PartPlaces ==
    ASSUME InputInv, NEW off, Whole(off), NEW q \in problem.pools
    PROVE  LET sol == SolutionOf(problem, off)
               part == SolutionOf(problem, Part(off, q))
           IN  /\ DOMAIN part = {b \in DOMAIN sol : sol[b].pool = q}
               /\ \A b \in DOMAIN part : part[b].pool = sol[b].pool /\ part[b].offset = sol[b].offset
<1> DEFINE sol == SolutionOf(problem, off)
           part == SolutionOf(problem, Part(off, q))
<1>1. /\ DOMAIN sol = problem.buffers
      /\ \A b \in problem.buffers :
             /\ ClassOf(problem, b) \in Classes(problem) /\ b \in ClassOf(problem, b)
             /\ sol[b].pool = PoolOf(problem, ClassOf(problem, b))
             /\ sol[b].offset = off[ClassOf(problem, b)]
  BY WholePlaces
<1>2. PICK f \in [NodesOf(space, q) -> 0..MaxUInt] : f = Part(off, q)
  BY DEF Whole, Full
<1>3. /\ DOMAIN part = UNION NodesOf(space, q)
      /\ \A c \in NodesOf(space, q) : \A b \in c :
             /\ b \in problem.buffers /\ ClassOf(problem, b) = c
             /\ part[b].pool = q /\ part[b].offset = Part(off, q)[c]
      /\ \A b \in problem.buffers : ClassOf(problem, b) \in NodesOf(space, q) => b \in DOMAIN part
  <2>1. LET s == SolutionOf(problem, f)
        IN  /\ DOMAIN s = UNION NodesOf(space, q)
            /\ \A c \in NodesOf(space, q) : \A b \in c :
                   /\ b \in problem.buffers /\ ClassOf(problem, b) = c
                   /\ s[b].pool = q /\ s[b].offset = f[c]
            /\ \A b \in problem.buffers : ClassOf(problem, b) \in NodesOf(space, q) => b \in DOMAIN s
    BY SolutionPlaces
  <2> QED
    BY <1>2, <2>1
<1> HIDE DEF sol, part
<1>4. \A c \in NodesOf(space, q) : PoolOf(problem, c) = q /\ Part(off, q)[c] = off[c]
  BY NodeKnown DEF Part
<1>5. \A c \in Classes(problem) : PoolOf(problem, c) = q => c \in NodesOf(space, q)
  BY PoolsKnown
<1>6. ASSUME NEW b \in DOMAIN part
      PROVE  /\ b \in DOMAIN sol /\ sol[b].pool = q
             /\ part[b].pool = sol[b].pool /\ part[b].offset = sol[b].offset
  BY <1>1, <1>3, <1>4
<1>7. \A b \in DOMAIN sol : sol[b].pool = q => b \in DOMAIN part
  BY <1>1, <1>3, <1>5
<1> QED
  BY <1>6, <1>7 DEF sol, part

\* What each pool costs, and how high it is used.
PoolCosts(off) == [q \in problem.pools |-> PoolReuseCost(space, Part(off, q))]

PoolPeaks(off) == [q \in problem.pools |-> PeakOf(problem, space, q, Part(off, q))]

LEMMA PoolMetricsTyped ==
    ASSUME InputInv, NEW off, Whole(off)
    PROVE  /\ PoolCosts(off) \in [problem.pools -> 0..MaxUInt]
           /\ PoolPeaks(off) \in [problem.pools -> 0..MaxUInt]
           /\ \A q \in problem.pools :
                  /\ ScoreOf(q, Part(off, q)) = PoolScore(problem, PoolCosts(off)[q], PoolPeaks(off)[q])
                  /\ PoolPeaks(off)[q] = PeakOfPool(problem, SolutionOf(problem, off), q)
<1>1. ASSUME NEW q \in problem.pools
      PROVE  /\ PoolReuseCost(space, Part(off, q)) \in 0..MaxUInt
             /\ PeakOf(problem, space, q, Part(off, q)) \in 0..MaxUInt
  BY FullKnown DEF Whole
<1>2. ASSUME NEW q \in problem.pools
      PROVE  PeakOf(problem, space, q, Part(off, q)) = PeakOfPool(problem, SolutionOf(problem, off), q)
  <2> DEFINE sol == SolutionOf(problem, off)
             part == SolutionOf(problem, Part(off, q))
             M(s) == {x \in DOMAIN s : s[x].pool = q /\ ~AddOverflows(s[x].offset, problem.size[x])}
             E(s) == {s[b].offset + problem.size[b] : b \in M(s)}
  <2>1. PeakOfPool(problem, part, q) = PeakOf(problem, space, q, Part(off, q))
    BY SamePeak DEF Whole
  <2>2. /\ DOMAIN part = {b \in DOMAIN sol : sol[b].pool = q}
        /\ \A b \in DOMAIN part : part[b].pool = sol[b].pool /\ part[b].offset = sol[b].offset
    BY PartPlaces
  <2> HIDE DEF sol, part
  <2>3. M(part) = M(sol) /\ M(part) \subseteq DOMAIN part
    BY <2>2
  <2>4. E(part) = E(sol)
    <3> HIDE DEF M
    <3> QED
      BY <2>2, <2>3
  <2>5. PeakOfPool(problem, part, q) = PeakOfPool(problem, sol, q)
    BY <2>4 DEF PeakOfPool
  <2> QED
    BY <2>1, <2>5 DEF sol
<1> QED
  BY <1>1, <1>2 DEF PoolCosts, PoolPeaks, ScoreOf

\* The penalties a whole placement pays are paid in one pool each.
LEMMA ActiveByPool ==
    ASSUME InputInv, NEW off, Whole(off)
    PROVE  LET paid == [q \in problem.pools |-> Active(SolutionOf(problem, Part(off, q)))]
           IN  /\ Active(SolutionOf(problem, off)) = UNION {paid[q] : q \in problem.pools}
               /\ \A q, r \in problem.pools : q # r => paid[q] \cap paid[r] = {}
<1> DEFINE sol == SolutionOf(problem, off)
           part(q) == SolutionOf(problem, Part(off, q))
           paid == [q \in problem.pools |-> Active(part(q))]
<1>1. ASSUME NEW q \in problem.pools
      PROVE  /\ DOMAIN part(q) = {b \in DOMAIN sol : sol[b].pool = q}
             /\ \A b \in DOMAIN part(q) : /\ part(q)[b].pool = sol[b].pool
                                          /\ part(q)[b].offset = sol[b].offset
  BY PartPlaces
<1>2. /\ DOMAIN sol = problem.buffers
      /\ \A b \in problem.buffers : /\ ClassOf(problem, b) \in Classes(problem)
                                    /\ sol[b].pool = PoolOf(problem, ClassOf(problem, b))
  BY WholePlaces
<1> HIDE DEF sol, part
<1>0. \A b \in DOMAIN sol : sol[b].pool \in problem.pools
  BY <1>2, PoolsKnown
<1>3. ASSUME NEW q \in problem.pools, NEW i \in DOMAIN problem.penalties
      PROVE  LET a == problem.penalties[i].first
                 b == problem.penalties[i].second
             IN  i \in Active(part(q)) <=> i \in Active(sol) /\ sol[a].pool = q
  <2> DEFINE a == problem.penalties[i].first
             b == problem.penalties[i].second
  <2>1. a \in DOMAIN sol /\ b \in DOMAIN sol /\ ExtentsOverlap(problem, sol, a, b)
            => sol[a].pool = sol[b].pool
    BY DEF ExtentsOverlap
  <2>2. a \in DOMAIN part(q) /\ b \in DOMAIN part(q) =>
            (ExtentsOverlap(problem, part(q), a, b) <=> ExtentsOverlap(problem, sol, a, b))
    <3> SUFFICES ASSUME a \in DOMAIN part(q), b \in DOMAIN part(q)
                 PROVE  ExtentsOverlap(problem, part(q), a, b) <=> ExtentsOverlap(problem, sol, a, b)
      OBVIOUS
    <3>1. /\ part(q)[a].pool = sol[a].pool /\ part(q)[a].offset = sol[a].offset
          /\ part(q)[b].pool = sol[b].pool /\ part(q)[b].offset = sol[b].offset
      BY <1>1
    <3> QED
      BY <3>1 DEF ExtentsOverlap
  <2>3. /\ a \in DOMAIN part(q) <=> a \in DOMAIN sol /\ sol[a].pool = q
        /\ b \in DOMAIN part(q) <=> b \in DOMAIN sol /\ sol[b].pool = q
    <3>1. \A x : x \in DOMAIN part(q) <=> x \in DOMAIN sol /\ sol[x].pool = q
      BY <1>1, Zenon
    <3> QED
      BY <3>1
  <2>4. i \in Active(part(q)) <=>
            PenaltyActive(problem, part(q), problem.penalties[i])
    BY DEF Active
  <2>5. i \in Active(sol) <=> PenaltyActive(problem, sol, problem.penalties[i])
    BY DEF Active
  <2> QED
    BY <2>1, <2>2, <2>3, <2>4, <2>5 DEF PenaltyActive
<1>4. \A i \in Active(sol) : /\ i \in DOMAIN problem.penalties
                             /\ sol[problem.penalties[i].first].pool \in problem.pools
  BY <1>0 DEF Active, PenaltyActive
<1>5. \A q \in problem.pools : paid[q] = Active(part(q)) /\ paid[q] \subseteq DOMAIN problem.penalties
  BY DEF Active
<1> HIDE DEF paid
<1>6. Active(sol) = UNION {paid[q] : q \in problem.pools}
  <2>1. ASSUME NEW i \in Active(sol) PROVE \E q \in problem.pools : i \in paid[q]
    BY <1>3, <1>4, <1>5
  <2>2. ASSUME NEW q \in problem.pools, NEW i \in paid[q] PROVE i \in Active(sol)
    BY <1>3, <1>5
  <2> QED
    BY <2>1, <2>2
<1>7. ASSUME NEW q \in problem.pools, NEW r \in problem.pools, q # r PROVE paid[q] \cap paid[r] = {}
  BY <1>3, <1>5, <1>7
<1> QED
  BY <1>6, <1>7 DEF paid, part, sol

\* The objective of the whole is made of the scores of the pools.
LEMMA WholeScores ==
    ASSUME InputInv, NEW off, Whole(off)
    PROVE  LET sol == SolutionOf(problem, off)
           IN  /\ ReuseCost(problem, sol) = SumOver(PoolCosts(off), problem.pools)
               /\ TotalPeak(problem, sol) = SumOver(PoolPeaks(off), problem.pools)
               /\ MaxPeak(problem, sol) = Max({PoolPeaks(off)[q] : q \in problem.pools})
               /\ CapacityOverflow(problem, sol) = 0
<1> DEFINE sol == SolutionOf(problem, off)
           J == DOMAIN problem.penalties
           paid == [q \in problem.pools |-> Active(SolutionOf(problem, Part(off, q)))]
<1>1. /\ \A q \in problem.pools : PoolPeaks(off)[q] = PeakOfPool(problem, sol, q)
      /\ PoolPeaks(off) = [q \in problem.pools |-> PeakOfPool(problem, sol, q)]
  <2>1. \A q \in problem.pools : PoolPeaks(off)[q] = PeakOfPool(problem, sol, q)
    BY PoolMetricsTyped
  <2> HIDE DEF sol
  <2> QED
    BY <2>1 DEF PoolPeaks
<1>2. TotalPeak(problem, sol) = SumOver(PoolPeaks(off), problem.pools)
  BY <1>1, TotalPeakSums
<1>3. MaxPeak(problem, sol) = Max({PoolPeaks(off)[q] : q \in problem.pools})
  <2> HIDE DEF sol
  <2>1. {PeakOfPool(problem, sol, q) : q \in problem.pools} = {PoolPeaks(off)[q] : q \in problem.pools}
    BY <1>1
  <2> QED
    BY <2>1 DEF MaxPeak
<1>4. CapacityOverflow(problem, sol) = 0
  <2>1. InWords(problem, sol)
    BY WholePlaces DEF InWords
  <2>2. FitsCapacities(problem, sol)
    BY <2>1, WholeValid, ValidFits, PoolsKnown
  <2> QED
    BY <2>1, <2>2, MetricsTyped, PoolsKnown
<1>5. /\ Active(sol) = UNION {paid[q] : q \in problem.pools}
      /\ \A q, r \in problem.pools : q # r => paid[q] \cap paid[r] = {}
  BY ActiveByPool
<1>6. /\ IsFiniteSet(J) /\ InWordsOver(Costs(problem), J) /\ ObjectiveTyped(problem)
      /\ IsFiniteSet(problem.pools)
  BY PoolsKnown DEF ObjectiveTyped, InWordsOver, Costs
<1>7. ASSUME NEW s PROVE /\ Active(s) \in SUBSET J
                         /\ ReuseCost(problem, s) = SumOver(Costs(problem), Active(s))
  <2>1. ReuseCost(problem, s) = PenaltySum(problem, Active(s)) /\ Active(s) \in SUBSET J
    BY DEF ReuseCost, PenaltySum, Active
  <2> QED
    BY <1>6, <2>1, PenaltySumTyped
<1>8. paid \in [problem.pools -> SUBSET J]
  BY <1>7
<1>9. \A q \in problem.pools : PoolCosts(off)[q] = SumOver(Costs(problem), paid[q])
  <2> TAKE q \in problem.pools
  <2>1. Full(q, Part(off, q)) /\ PoolCosts(off)[q] = PoolReuseCost(space, Part(off, q))
    BY DEF Whole, PoolCosts
  <2>2. ReuseCost(problem, SolutionOf(problem, Part(off, q))) = PoolReuseCost(space, Part(off, q))
    BY <2>1, SameCost
  <2> QED
    BY <1>7, <2>1, <2>2
<1> HIDE DEF paid, sol, J
<1>10. SumOver(PoolCosts(off), problem.pools) = SumOver(Costs(problem), UNION {paid[q] : q \in problem.pools})
  BY <1>5, <1>6, <1>8, <1>9, SumByGroups
<1>11. ReuseCost(problem, sol) = SumOver(PoolCosts(off), problem.pools)
  BY <1>5, <1>7, <1>10
<1> QED
  BY <1>2, <1>3, <1>4, <1>11 DEF sol

\* What a pool whose score is no better tells: first of the costs, and of the
\* peaks when the costs are the same.
LEMMA PoolNotWorse ==
    ASSUME InputInv, NEW cost \in 0..MaxUInt, NEW peak \in 0..MaxUInt,
           NEW more \in 0..MaxUInt, NEW higher \in 0..MaxUInt,
           ~ScoreBefore(PoolScore(problem, more, higher), PoolScore(problem, cost, peak))
    PROVE  LET T == problem.terms
           IN  /\ \A i \in DOMAIN T : T[i] = "reuse" => cost <= more
               /\ \A i \in DOMAIN T :
                      T[i] \in Peaks /\ ((\E j \in DOMAIN T : T[j] = "reuse") => cost = more)
                          => peak <= higher
<1> DEFINE T == problem.terms
           low == PoolScore(problem, more, higher)
           high == PoolScore(problem, cost, peak)
<1>1. PICK n \in Nat : DOMAIN T = 1..n
  BY ScoreVectors
<1>2. /\ DOMAIN low = 1..n /\ DOMAIN high = 1..n
      /\ \A i \in 1..n :
             /\ T[i] = "reuse" => low[i] = more /\ high[i] = cost
             /\ T[i] \in Peaks => low[i] = higher /\ high[i] = peak
             /\ T[i] # "reuse" /\ T[i] \notin Peaks => low[i] = 0 /\ high[i] = 0
  BY <1>1 DEF PoolScore, Peaks
<1>3. ~ScoreBefore(low, high)
  OBVIOUS
<1>4. \A i, j \in 1..n : T[i] = "reuse" /\ T[j] \in Peaks => i < j
  BY <1>1, ProblemsAssumption DEF InputInv, ReuseBeforePeaks
<1> HIDE DEF T, low, high
<1>5. ASSUME NEW S \in SUBSET (1..n), S # {} PROVE \E i \in S : \A j \in 1..(i - 1) : j \in 1..n \ S
  <2>1. PICK i \in S : \A j \in S : i <= j
    BY <1>5, LeastNatural
  <2> QED
    BY <2>1
<1>6. ASSUME NEW k \in 1..n, T[k] = "reuse" PROVE cost <= more
  <2> DEFINE S == {i \in 1..n : T[i] = "reuse"}
  <2>1. PICK i \in S : \A j \in 1..(i - 1) : j \in 1..n \ S
    <3>1. S \in SUBSET (1..n) /\ S # {}
      BY <1>6
    <3> HIDE DEF S
    <3> QED
      BY <1>5, <3>1
  <2>2. \A j \in 1..(i - 1) : low[j] = high[j]
    BY <1>2, <1>4, <2>1
  <2>3. low[i] = more /\ high[i] = cost /\ i \in 1..n
    BY <1>2, <2>1
  <2> QED
    BY <1>2, <1>3, <2>2, <2>3 DEF ScoreBefore
<1>7. ASSUME NEW k \in 1..n, T[k] \in Peaks, (\E j \in 1..n : T[j] = "reuse") => cost = more
      PROVE  peak <= higher
  <2> DEFINE S == {i \in 1..n : T[i] \in Peaks}
  <2>1. PICK i \in S : \A j \in 1..(i - 1) : j \in 1..n \ S
    <3>1. S \in SUBSET (1..n) /\ S # {}
      BY <1>7
    <3> HIDE DEF S
    <3> QED
      BY <1>5, <3>1
  <2>2. \A j \in 1..(i - 1) : low[j] = high[j]
    BY <1>2, <1>7, <2>1
  <2>3. low[i] = higher /\ high[i] = peak /\ i \in 1..n
    BY <1>2, <2>1
  <2> QED
    BY <1>2, <1>3, <2>2, <2>3 DEF ScoreBefore
<1> QED
  BY <1>1, <1>6, <1>7 DEF T

\* A pool without soft neighbours costs nothing.
LEMMA NoNeighboursNoCost ==
    ASSUME InputInv, NEW q \in problem.pools, NEW off, Full(q, off),
           \A edge \in SoftEdges(problem) : PoolOf(problem, edge[1]) # q
    PROVE  PoolReuseCost(space, off) = 0
<1>1. SpaceTyped(problem, space) /\ space = SearchSpace(problem)
  BY InputTyped DEF InputInv
<1>2. DOMAIN space.soft = SoftEdges(problem)
  BY <1>1 DEF SearchSpace
<1>3. \A c \in DOMAIN off : c \in Classes(problem) /\ PoolOf(problem, c) = q
  BY NodeKnown DEF Full
<1>4. Pays(space, off) = {}
  BY <1>2, <1>3 DEF Pays
<1>5. PoolReuseCost(space, off) = SumOver(space.soft, Pays(space, off))
  BY <1>1, PoolCostSums
<1> QED
  BY <1>4, <1>5, SumUnfolds, FS_EmptySet DEF InWordsOver

\* Costs that are no higher in any pool, and the same in sum, are the same.
LEMMA CostsCancel ==
    ASSUME InputInv, CostsAddUp(problem), NEW off, Whole(off), NEW other, Whole(other),
           \A q \in problem.pools : PoolCosts(off)[q] <= PoolCosts(other)[q],
           SumOver(PoolCosts(off), problem.pools) = SumOver(PoolCosts(other), problem.pools)
    PROVE  PoolCosts(off) = PoolCosts(other)
<1> DEFINE F == PoolCosts(off)
           G == PoolCosts(other)
           P == problem.pools
<1>1. F \in [P -> 0..MaxUInt] /\ G \in [P -> 0..MaxUInt] /\ IsFiniteSet(P)
  BY PoolMetricsTyped, PoolsKnown
<1>2. InWordsOver(F, P) /\ InWordsOver(G, P)
  BY <1>1 DEF InWordsOver
<1>3. CASE \E q \in problem.pools : \A edge \in SoftEdges(problem) : PoolOf(problem, edge[1]) = q
  <2>1. PICK q \in P : \A edge \in SoftEdges(problem) : PoolOf(problem, edge[1]) = q
    BY <1>3
  <2>2. \A r \in P \ {q} : F[r] = 0 /\ G[r] = 0
    BY <2>1, NoNeighboursNoCost DEF Whole, PoolCosts
  <2> HIDE DEF F, G, P
  <2>3. SumOver(F, P) = F[q] /\ SumOver(G, P) = G[q]
    BY <1>1, <2>2, SumOfOne
  <2>4. \A r \in P : F[r] = G[r]
    BY <2>2, <2>3 DEF F, G, P
  <2> QED
    BY <1>1, <2>4 DEF F, G
<1>4. CASE SaturatingSum(LAMBDA i : problem.penalties[i].cost, DOMAIN problem.penalties) < MaxUInt
  <2> DEFINE J == DOMAIN problem.penalties
             C == Costs(problem)
             sol == SolutionOf(problem, other)
  <2>1. SumOver(C, J) < MaxUInt /\ SumOver(C, J) \in 0..MaxUInt
    <3>1. ObjectiveTyped(problem)
      BY PoolsKnown
    <3> QED
      BY <1>4, <3>1, PenaltySumTyped DEF PenaltySum
  <2>2. SumOver(G, P) = ReuseCost(problem, sol)
    BY WholeScores
  <2>3. Active(sol) \in SUBSET J /\ ReuseCost(problem, sol) = SumOver(C, Active(sol))
    <3>1. ReuseCost(problem, sol) = PenaltySum(problem, Active(sol)) /\ Active(sol) \in SUBSET J
      BY DEF ReuseCost, PenaltySum, Active
    <3>2. ObjectiveTyped(problem)
      BY PoolsKnown
    <3> QED
      BY <3>1, <3>2, PenaltySumTyped
  <2>4. IsFiniteSet(J) /\ InWordsOver(C, J)
    BY PoolsKnown DEF ObjectiveTyped, InWordsOver, Costs
  <2> HIDE DEF F, G, P, J, C, sol
  <2>5. SumOver(C, Active(sol)) <= SumOver(C, J) /\ SumOver(C, Active(sol)) \in 0..MaxUInt
    BY <2>3, <2>4, SumOfFewer, SumUnfolds
  <2>6. SumOver(G, P) # MaxUInt
    BY <2>1, <2>2, <2>3, <2>5, MaxUIntAssumption
  <2>7. (\A r \in P : F[r] <= G[r]) /\ SumOver(F, P) = SumOver(G, P)
    BY DEF F, G, P
  <2>8. \A r \in P : F[r] = G[r]
    BY <1>1, <1>2, <2>6, <2>7, SumCancels
  <2> QED
    BY <1>1, <2>8 DEF F, G
<1> QED
  BY <1>3, <1>4 DEF CostsAddUp

\* The metrics of an objective, at their terms.
LEMMA ObjectiveTerms ==
    ASSUME InputInv, NEW off, Whole(off)
    PROVE  LET T == problem.terms
               score == ObjectiveScore(problem, SolutionOf(problem, off))
           IN  /\ DOMAIN score = DOMAIN T
               /\ \A i \in DOMAIN T :
                      /\ T[i] \in {"reuse", "capacity_overflow"} \cup Peaks
                      /\ T[i] = "reuse" => score[i] = SumOver(PoolCosts(off), problem.pools)
                      /\ T[i] = "total_peak" => score[i] = SumOver(PoolPeaks(off), problem.pools)
                      /\ T[i] = "max_peak" => score[i] = Max({PoolPeaks(off)[q] : q \in problem.pools})
                      /\ T[i] = "capacity_overflow" => score[i] = 0
<1> DEFINE T == problem.terms
           sol == SolutionOf(problem, off)
           score == ObjectiveScore(problem, sol)
<1>1. ASSUME NEW i \in DOMAIN T PROVE T[i] \in {"reuse", "capacity_overflow"} \cup Peaks
  <2> DEFINE names == {"reuse", "total_peak", "max_peak", "capacity_overflow", "bank_cost"}
  <2>1. T \in Seq(names)
    BY PoolsKnown DEF ObjectiveTyped
  <2> HIDE DEF names, T
  <2>2. T[i] \in names
    BY <1>1, <2>1
  <2>3. T[i] # "bank_cost"
    BY <1>1, ProblemsAssumption DEF InputInv, ReuseBeforePeaks, T
  <2> QED
    BY <2>2, <2>3 DEF names, Peaks
<1>2. /\ ReuseCost(problem, sol) = SumOver(PoolCosts(off), problem.pools)
      /\ TotalPeak(problem, sol) = SumOver(PoolPeaks(off), problem.pools)
      /\ MaxPeak(problem, sol) = Max({PoolPeaks(off)[q] : q \in problem.pools})
      /\ CapacityOverflow(problem, sol) = 0
  BY WholeScores
<1> HIDE DEF sol
<1>3. DOMAIN score = DOMAIN T
  BY DEF ObjectiveScore
<1>4. ASSUME NEW i \in DOMAIN T
      PROVE  /\ T[i] = "reuse" => score[i] = ReuseCost(problem, sol)
             /\ T[i] = "total_peak" => score[i] = TotalPeak(problem, sol)
             /\ T[i] = "max_peak" => score[i] = MaxPeak(problem, sol)
             /\ T[i] = "capacity_overflow" => score[i] = CapacityOverflow(problem, sol)
  BY DEF ObjectiveScore
<1> HIDE DEF score, T
<1>5. /\ DOMAIN score = DOMAIN T
      /\ \A i \in DOMAIN T :
             /\ T[i] \in {"reuse", "capacity_overflow"} \cup Peaks
             /\ T[i] = "reuse" => score[i] = SumOver(PoolCosts(off), problem.pools)
             /\ T[i] = "total_peak" => score[i] = SumOver(PoolPeaks(off), problem.pools)
             /\ T[i] = "max_peak" => score[i] = Max({PoolPeaks(off)[q] : q \in problem.pools})
             /\ T[i] = "capacity_overflow" => score[i] = 0
  BY <1>1, <1>2, <1>3, <1>4
<1> QED
  BY <1>5 DEF score, sol, T

\* What is not worse in any pool is not worse as a whole.
LEMMA WholeNotWorse ==
    ASSUME InputInv, CostsAddUp(problem), NEW off, Whole(off), NEW other, Whole(other),
           \A q \in problem.pools : ~ScoreBefore(ScoreOf(q, Part(other, q)), ScoreOf(q, Part(off, q)))
    PROVE  ~ScoreBefore(ObjectiveScore(problem, SolutionOf(problem, other)),
                        ObjectiveScore(problem, SolutionOf(problem, off)))
<1> DEFINE T == problem.terms
           P == problem.pools
           x == ObjectiveScore(problem, SolutionOf(problem, other))
           y == ObjectiveScore(problem, SolutionOf(problem, off))
           F == PoolCosts(off)
           G == PoolCosts(other)
           H == PoolPeaks(off)
           K == PoolPeaks(other)
<1> SUFFICES ASSUME ScoreBefore(x, y) PROVE FALSE
  OBVIOUS
<1>1. /\ DOMAIN x = DOMAIN T
      /\ \A i \in DOMAIN T :
             /\ T[i] \in {"reuse", "capacity_overflow"} \cup Peaks
             /\ T[i] = "reuse" => x[i] = SumOver(G, P) /\ y[i] = SumOver(F, P)
             /\ T[i] = "total_peak" => x[i] = SumOver(K, P) /\ y[i] = SumOver(H, P)
             /\ T[i] = "max_peak" => x[i] = Max({K[q] : q \in P}) /\ y[i] = Max({H[q] : q \in P})
             /\ T[i] = "capacity_overflow" => x[i] = 0 /\ y[i] = 0
  <2> HIDE DEF T, P, F, G, H, K
  <2> QED
    BY ObjectiveTerms DEF T, P, F, G, H, K
<1>2. PICK n \in Nat : DOMAIN T = 1..n
  BY ScoreVectors
<1>3. PICK i \in 1..n : x[i] < y[i] /\ \A j \in 1..(i - 1) : x[j] = y[j]
  <2> HIDE DEF x, y, T
  <2> QED
    BY <1>1, <1>2 DEF ScoreBefore
<1>4. /\ F \in [P -> 0..MaxUInt] /\ G \in [P -> 0..MaxUInt]
      /\ H \in [P -> 0..MaxUInt] /\ K \in [P -> 0..MaxUInt]
      /\ IsFiniteSet(P) /\ P # {}
      /\ \A q \in P : ~ScoreBefore(PoolScore(problem, G[q], K[q]), PoolScore(problem, F[q], H[q]))
  <2>1. \A q \in P : /\ ScoreOf(q, Part(off, q)) = PoolScore(problem, F[q], H[q])
                     /\ ScoreOf(q, Part(other, q)) = PoolScore(problem, G[q], K[q])
    BY PoolMetricsTyped
  <2> QED
    BY <2>1, PoolMetricsTyped, PoolsKnown
<1>5. /\ InWordsOver(F, P) /\ InWordsOver(G, P) /\ InWordsOver(H, P) /\ InWordsOver(K, P)
  BY <1>4 DEF InWordsOver
<1>6. \A j, k \in 1..n : T[j] = "reuse" /\ T[k] \in Peaks => j < k
  BY <1>2, ProblemsAssumption DEF InputInv, ReuseBeforePeaks
<1>8. ASSUME \A q \in P : F[q] <= G[q], SumOver(F, P) = SumOver(G, P) PROVE F = G
  BY <1>8, CostsCancel
<1>9. ASSUME NEW q \in P
      PROVE  /\ \A j \in 1..n : T[j] = "reuse" => F[q] <= G[q]
             /\ \A j \in 1..n :
                    T[j] \in Peaks /\ ((\E k \in 1..n : T[k] = "reuse") => F[q] = G[q])
                        => H[q] <= K[q]
  <2> HIDE DEF F, G, H, K
  <2>1. F[q] \in 0..MaxUInt /\ G[q] \in 0..MaxUInt /\ H[q] \in 0..MaxUInt /\ K[q] \in 0..MaxUInt
    BY <1>4
  <2> QED
    BY <1>2, <1>4, <2>1, PoolNotWorse
<1> HIDE DEF T, P, x, y, F, G, H, K
<1>7. \A j \in 1..n :
         /\ T[j] = "reuse" => x[j] = SumOver(G, P)
         /\ T[j] = "reuse" => y[j] = SumOver(F, P)
         /\ T[j] = "total_peak" => x[j] = SumOver(K, P)
         /\ T[j] = "total_peak" => y[j] = SumOver(H, P)
         /\ T[j] = "capacity_overflow" => x[j] = 0 /\ y[j] = 0
  BY <1>1, <1>2
<1>10. CASE T[i] = "reuse"
  <2>1. SumOver(F, P) <= SumOver(G, P)
    BY <1>4, <1>5, <1>9, <1>10, SumMonotone
  <2>2. SumOver(F, P) \in 0..MaxUInt /\ SumOver(G, P) \in 0..MaxUInt
    BY <1>4, SumTyped
  <2> QED
    BY <1>3, <1>7, <1>10, <2>1, <2>2, MaxUIntAssumption
<1>11. CASE T[i] = "capacity_overflow"
  <2>1. x[i] = 0 /\ y[i] = 0 /\ x[i] < y[i]
    BY <1>3, <1>7, <1>11
  <2> QED
    BY <2>1
<1>12. CASE T[i] \in Peaks
  <2>1. ASSUME NEW k \in 1..n, T[k] = "reuse" PROVE F = G
    <3>1. k \in 1..(i - 1)
      BY <1>6, <1>12, <2>1
    <3>2. SumOver(F, P) = SumOver(G, P)
      BY <1>3, <1>7, <2>1, <3>1
    <3> QED
      BY <1>8, <1>9, <2>1, <3>2
  <2>2. \A q \in P : H[q] <= K[q]
    BY <1>9, <1>12, <2>1
  <2>3. CASE T[i] = "total_peak"
    <3>1. SumOver(H, P) <= SumOver(K, P)
      BY <1>4, <1>5, <2>2, SumMonotone
    <3>2. SumOver(H, P) \in 0..MaxUInt /\ SumOver(K, P) \in 0..MaxUInt
      BY <1>4, SumTyped
    <3> QED
      BY <1>3, <1>7, <2>3, <3>1, <3>2, MaxUIntAssumption
  <2>4. CASE T[i] = "max_peak"
    <3> DEFINE h == {H[q] : q \in P}
               k == {K[q] : q \in P}
    <3>1. /\ h \in SUBSET (0..MaxUInt) /\ h # {}
          /\ k \in SUBSET (0..MaxUInt) /\ k # {}
      BY <1>4
    <3>2. \A a \in h : \E b \in k : a <= b
      BY <2>2
    <3>3. x[i] = Max(k) /\ y[i] = Max(h)
      BY <1>1, <1>2, <2>4
    <3> HIDE DEF h, k
    <3>4. Max(h) \in h /\ Max(k) \in k /\ \A b \in k : b <= Max(k)
      BY <3>1, MaxNatural, MaxUIntAssumption
    <3>5. PICK b \in k : Max(h) <= b
      BY <3>2, <3>4
    <3>6. Max(h) \in 0..MaxUInt /\ Max(k) \in 0..MaxUInt /\ b \in 0..MaxUInt /\ b <= Max(k)
      BY <3>1, <3>4
    <3> QED
      BY <1>3, <3>3, <3>5, <3>6, MaxUIntAssumption
  <2> QED
    BY <1>12, <2>3, <2>4 DEF Peaks
<1> QED
  BY <1>1, <1>2, <1>10, <1>11, <1>12

(***************************************************************************)
(* The loop over the pools: what it has, and what it has put together.     *)
(***************************************************************************)
Settled == problem.pools \ (poolsLeft \cup poolNow)

\* The pools searched so far have their placements,
SettledFull ==
    /\ offsets = [c \in DOMAIN offsets |-> offsets[c]]
    /\ DOMAIN offsets = UNION {NodesOf(space, q) : q \in Settled}
    /\ \A q \in Settled : Full(q, Part(offsets, q))

\* than which, unless a limit was met, there are none better,
NoneBetter ==
    \A q \in Settled : \A f :
        Full(q, f) => ~ScoreBefore(ScoreOf(q, f), ScoreOf(q, Part(offsets, q)))

\* and than which the seed's is no better.
SeedNoBetter ==
    \A sol \in seed :
        /\ \A q \in poolNow : Kept(q, SeedPlacement(space, q, sol))
        /\ \A q \in Settled :
               ~ScoreBefore(ScoreOf(q, SeedPlacement(space, q, sol)), ScoreOf(q, Part(offsets, q)))

PoolsInv ==
    status = "none" =>
        /\ poolNow \cap poolsLeft = {} /\ (limitHit \/ anyTimeout => nodeLimit # 0)
        /\ solution = {} /\ SettledFull
        /\ ~stopAfterFirst /\ ~anyTimeout => NoneBetter
        /\ ~stopAfterFirst => SeedNoBetter

\* What the loop has stays as it is while a pool is searched.
LEMMA SettledStays ==
    ASSUME InputInv, UNCHANGED <<problem, space, offsets>>, Settled' = Settled
    PROVE  /\ SettledFull' <=> SettledFull
           /\ NoneBetter' <=> NoneBetter
           /\ \A q : Part(offsets, q)' = Part(offsets, q)
<1>1. \A q : Part(offsets, q)' = Part(offsets, q)
  BY DEF Part
<1>2. \A q, f : (Full(q, f)' <=> Full(q, f)) /\ ScoreOf(q, f)' = ScoreOf(q, f)
  BY SameQuestion
<1>3. SettledFull' <=> SettledFull
  <2>1. \A q : Full(q, Part(offsets, q))' <=> Full(q, Part(offsets, q))
    BY <1>1 DEF Full
  <2> QED
    BY <2>1 DEF SettledFull
<1>4. NoneBetter' <=> NoneBetter
  <2>1. \A q : ScoreOf(q, Part(offsets, q))' = ScoreOf(q, Part(offsets, q))
    BY <1>1 DEF ScoreOf
  <2> QED
    BY <1>2, <2>1 DEF NoneBetter
<1> QED
  BY <1>1, <1>3, <1>4

\* A step that goes on with the search of the pool.
LEMMA SearchGoesOn ==
    ASSUME InputInv, PoolsInv, UNCHANGED <<input, poolsLeft, poolNow, result>>,
           limitHit' => limitHit \/ nodeLimit # 0,
           \A q \in poolNow : \A sol \in seed :
               ~stopAfterFirst /\ Kept(q, SeedPlacement(space, q, sol))
                   => Kept(q, SeedPlacement(space, q, sol))'
    PROVE  PoolsInv'
<1> SUFFICES ASSUME status' = "none" PROVE PoolsInv'
  BY DEF PoolsInv
<1>1. /\ UNCHANGED <<problem, nodeLimit, stopAfterFirst, seed, space, poolsLeft, poolNow>>
      /\ UNCHANGED <<offsets, anyTimeout, solution, status>>
  BY DEF input, result
<1>2. Settled' = Settled
  BY <1>1 DEF Settled
<1>3. /\ SettledFull' <=> SettledFull
      /\ NoneBetter' <=> NoneBetter
  BY <1>1, <1>2, SettledStays
<1>4. ASSUME ~stopAfterFirst PROVE SeedNoBetter'
  <2>1. SeedNoBetter
    BY <1>1, <1>4 DEF PoolsInv
  <2>2. ASSUME NEW sol \in seed, NEW q \in poolNow PROVE Kept(q, SeedPlacement(space, q, sol))'
    BY <1>4, <2>1 DEF SeedNoBetter
  <2>3. ASSUME NEW sol \in seed, NEW q \in Settled
        PROVE  ~ScoreBefore(ScoreOf(q, SeedPlacement(space, q, sol)), ScoreOf(q, Part(offsets, q)))'
    <3>1. ~ScoreBefore(ScoreOf(q, SeedPlacement(space, q, sol)), ScoreOf(q, Part(offsets, q)))
      BY <2>1 DEF SeedNoBetter
    <3> QED
      BY <1>1, <3>1 DEF ScoreOf, Part
  <2> QED
    BY <1>1, <1>2, <2>2, <2>3 DEF SeedNoBetter
<1> QED
  BY <1>1, <1>3, <1>4 DEF PoolsInv

\* A pool the search starts with the seed has been kept.
LEMMA StartPoolSettles ==
    ASSUME InputInv, IInv, PoolsInv, NEW q \in poolsLeft, StartPool(q)
    PROVE  PoolsInv'
<1>1. /\ UNCHANGED <<problem, nodeLimit, stopAfterFirst, seed, space>>
      /\ UNCHANGED <<offsets, anyTimeout, solution, status>>
      /\ poolNow = {} /\ poolNow' = {q} /\ poolsLeft' = poolsLeft \ {q} /\ status = "none"
      /\ ~limitHit' /\ best' = (IF stopAfterFirst THEN {} ELSE SeedOf(q))
  BY DEF StartPool, input, result
<1>2. Settled' = Settled /\ q \in problem.pools
  BY <1>1 DEF Settled, IInv, TypeOK
<1>3. /\ SettledFull' <=> SettledFull
      /\ NoneBetter' <=> NoneBetter
  BY <1>1, <1>2, SettledStays
<1>4. ASSUME ~stopAfterFirst PROVE SeedNoBetter'
  <2>1. SeedNoBetter
    BY <1>1, <1>4 DEF PoolsInv
  <2>2. ASSUME NEW sol \in seed PROVE Kept(q, SeedPlacement(space, q, sol))'
    <3> DEFINE off == SeedPlacement(space, q, sol)
               kept == [offset |-> off, score |-> ScoreOf(q, off)]
    <3>1. kept \in SeedOf(q)
      BY DEF SeedOf, ScoreOf
    <3>2. ScoreOf(q, off) \in Scores
      <4>1. ValidSolution(problem, sol) /\ \A b \in problem.buffers : sol[b].offset \in 0..MaxUInt
        BY SeedsAssumption DEF InputInv
      <4> QED
        BY <1>2, <4>1, ValidIsFull, FullKnown
    <3>3. ~ScoreBefore(ScoreOf(q, off), ScoreOf(q, off))
      BY <3>2, ScoreVectors, ScoresOrdered
    <3>4. ScoreOf(q, off)' = ScoreOf(q, off) /\ kept.score = ScoreOf(q, off)
      BY <1>1 DEF ScoreOf
    <3>5. kept \in best'
      BY <1>1, <1>4, <3>1
    <3> HIDE DEF kept
    <3> QED
      BY <3>3, <3>4, <3>5 DEF Kept
  <2>3. ASSUME NEW sol \in seed, NEW r \in Settled
        PROVE  ~ScoreBefore(ScoreOf(r, SeedPlacement(space, r, sol)), ScoreOf(r, Part(offsets, r)))'
    <3>1. ~ScoreBefore(ScoreOf(r, SeedPlacement(space, r, sol)), ScoreOf(r, Part(offsets, r)))
      BY <2>1 DEF SeedNoBetter
    <3> QED
      BY <1>1, <3>1 DEF ScoreOf, Part
  <2> QED
    BY <1>1, <1>2, <2>2, <2>3 DEF SeedNoBetter
<1> QED
  BY <1>1, <1>3, <1>4 DEF PoolsInv

\* A pool joins those that have a placement.
LEMMA Settles ==
    ASSUME InputInv, NEW q \in problem.pools, q \notin Settled, Settled' = Settled \cup {q},
           UNCHANGED <<problem, nodeLimit, stopAfterFirst, seed, space>>,
           poolNow' = {}, solution' = {}, limitHit' \/ anyTimeout' => nodeLimit # 0,
           SettledFull, anyTimeout => anyTimeout',
           offsets' = [c \in DOMAIN offsets' |-> offsets'[c]],
           DOMAIN offsets' = NodesOf(space, q) \cup DOMAIN offsets,
           NEW off, Full(q, off), Part(offsets', q) = off,
           \A r \in Settled : Part(offsets', r) = Part(offsets, r),
           ~stopAfterFirst /\ ~anyTimeout => NoneBetter, ~stopAfterFirst => SeedNoBetter,
           ~stopAfterFirst /\ ~anyTimeout' =>
               \A f : Full(q, f) => ~ScoreBefore(ScoreOf(q, f), ScoreOf(q, off)),
           ~stopAfterFirst => \A sol \in seed :
               ~ScoreBefore(ScoreOf(q, SeedPlacement(space, q, sol)), ScoreOf(q, off))
    PROVE  PoolsInv'
<1>1. \A r \in Settled' : Part(offsets, r)' = Part(offsets', r)
  BY DEF Part
<1>2. \A r, f : (Full(r, f)' <=> Full(r, f)) /\ ScoreOf(r, f)' = ScoreOf(r, f)
  BY SameQuestion
<1>3. Part(offsets, q)' = off /\ \A r \in Settled : Part(offsets, r)' = Part(offsets, r)
  BY <1>1
<1>4. SettledFull'
  <2>1. UNION {NodesOf(space, r) : r \in Settled'} =
            NodesOf(space, q) \cup UNION {NodesOf(space, r) : r \in Settled}
    OBVIOUS
  <2>2. \A r \in Settled' : Full(r, Part(offsets, r))'
    <3>1. \A r \in Settled' : Full(r, Part(offsets, r)')
      BY <1>3 DEF SettledFull
    <3> QED
      BY <3>1 DEF Full
  <2> QED
    BY <2>1, <2>2 DEF SettledFull
<1>5. \A r \in Settled' : ScoreOf(r, Part(offsets, r))' = ScoreOf(r, Part(offsets, r)')
  BY DEF ScoreOf
<1>6. ASSUME ~stopAfterFirst, ~anyTimeout' PROVE NoneBetter'
  <2>1. NoneBetter
    BY <1>6
  <2>2. ASSUME NEW r \in Settled', NEW f, Full(r, f)
        PROVE  ~ScoreBefore(ScoreOf(r, f), ScoreOf(r, Part(offsets, r)'))
    BY <1>3, <1>6, <2>1, <2>2 DEF NoneBetter
  <2> QED
    BY <1>2, <1>5, <2>2 DEF NoneBetter
<1>7. ASSUME ~stopAfterFirst PROVE SeedNoBetter'
  <2>1. ASSUME NEW sol \in seed, NEW r \in Settled'
        PROVE  ~ScoreBefore(ScoreOf(r, SeedPlacement(space, r, sol)), ScoreOf(r, Part(offsets, r)'))
    BY <1>3, <1>7 DEF SeedNoBetter
  <2>2. \A sol \in seed, r \in Settled' :
            ScoreOf(r, SeedPlacement(space, r, sol))' = ScoreOf(r, SeedPlacement(space, r, sol))
    BY DEF ScoreOf
  <2> QED
    BY <1>5, <2>1, <2>2 DEF SeedNoBetter
<1> QED
  BY <1>4, <1>6, <1>7 DEF PoolsInv

\* A pool that no class lives in has one placement.
LEMMA EmptyPool ==
    ASSUME InputInv, NEW q \in problem.pools, NodesOf(space, q) = {}
    PROVE  \E off : /\ Full(q, off) /\ ~ScoreBefore(ScoreOf(q, off), ScoreOf(q, off))
                    /\ \A f : Full(q, f) => f = off
                    /\ \A g : Part(g, q) = off
<1> DEFINE off == [c \in {} |-> 0]
<1>1. \A f \in [{} -> 0..MaxUInt] : f = off
  OBVIOUS
<1>2. DOMAIN off = {} /\ off \in [{} -> 0..MaxUInt]
  OBVIOUS
<1>3. \A g : Part(g, q) = off
  BY DEF Part
<1> HIDE DEF off
<1>4. Full(q, off)
  BY <1>2 DEF Full, Fits
<1>5. ~ScoreBefore(ScoreOf(q, off), ScoreOf(q, off))
  BY <1>4, FullKnown, ScoreVectors, ScoresOrdered
<1>6. \A f : Full(q, f) => f = off
  BY <1>1 DEF Full
<1> QED
  BY <1>3, <1>4, <1>5, <1>6

LEMMA SkipPoolSettles ==
    ASSUME InputInv, IInv, PoolsInv, NEW q \in poolsLeft, SkipPool(q)
    PROVE  PoolsInv'
<1>1. /\ UNCHANGED <<problem, nodeLimit, stopAfterFirst, seed, space, limitHit>>
      /\ UNCHANGED <<offsets, anyTimeout, solution, status>>
      /\ poolNow = {} /\ poolNow' = {} /\ poolsLeft' = poolsLeft \ {q} /\ status = "none"
      /\ NodesOf(space, q) = {}
  BY DEF SkipPool, input, search, result
<1>2. q \in problem.pools /\ q \notin Settled /\ Settled' = Settled \cup {q}
  BY <1>1 DEF Settled, IInv, TypeOK
<1>3. PICK off : /\ Full(q, off) /\ ~ScoreBefore(ScoreOf(q, off), ScoreOf(q, off))
                 /\ \A f : Full(q, f) => f = off
                 /\ \A g : Part(g, q) = off
  BY <1>1, <1>2, EmptyPool
<1>4. /\ solution = {} /\ SettledFull /\ (limitHit \/ anyTimeout => nodeLimit # 0)
      /\ ~stopAfterFirst /\ ~anyTimeout => NoneBetter
      /\ ~stopAfterFirst => SeedNoBetter
  BY <1>1 DEF PoolsInv
<1>5. \A sol \in seed : SeedPlacement(space, q, sol) = off
  <2>1. ASSUME NEW sol \in seed PROVE Full(q, SeedPlacement(space, q, sol))
    <3>1. ValidSolution(problem, sol) /\ \A b \in problem.buffers : sol[b].offset \in 0..MaxUInt
      BY SeedsAssumption DEF InputInv
    <3> QED
      BY <1>2, <3>1, ValidIsFull
  <2> QED
    BY <1>3, <2>1
<1>6. /\ offsets' = [c \in DOMAIN offsets' |-> offsets'[c]]
      /\ DOMAIN offsets' = NodesOf(space, q) \cup DOMAIN offsets
      /\ Part(offsets', q) = off /\ \A r \in Settled : Part(offsets', r) = Part(offsets, r)
  BY <1>1, <1>3, <1>4 DEF SettledFull
<1>7. \A f : Full(q, f) => ~ScoreBefore(ScoreOf(q, f), ScoreOf(q, off))
  BY <1>3
<1>8. \A sol \in seed : ~ScoreBefore(ScoreOf(q, SeedPlacement(space, q, sol)), ScoreOf(q, off))
  BY <1>3, <1>5
<1> QED
  BY <1>1, <1>2, <1>3, <1>4, <1>6, <1>7, <1>8, Settles

\* The incumbent of the pool joins the placements of the others.
LEMMA PoolDoneSettles ==
    ASSUME InputInv, IInv, SearchInv, PoolsInv, PoolDone
    PROVE  PoolsInv'
<1> SUFFICES ASSUME status' = "none" PROVE PoolsInv'
  BY DEF PoolsInv
<1>1. /\ UNCHANGED <<problem, nodeLimit, stopAfterFirst, seed, space, limitHit, poolsLeft>>
      /\ UNCHANGED <<solution, status>>
      /\ stack = <<>> /\ poolNow # {} /\ poolNow' = {} /\ best # {} /\ status = "none"
      /\ anyTimeout' = (anyTimeout \/ limitHit)
      /\ \E kept \in best : offsets' = Joined(kept.offset, offsets)
  BY DEF PoolDone, input, search
<1>2. PICK q : poolNow = {q} /\ q \in problem.pools
  BY <1>1 DEF IInv, TypeOK
<1>3. PICK kept \in best : offsets' = Joined(kept.offset, offsets)
  BY <1>1
<1>4. /\ best = {kept} /\ Full(q, kept.offset) /\ kept.score = ScoreOf(q, kept.offset)
  BY <1>2, <1>3 DEF SearchInv, BestIsFull, IInv, IncumbentScored, ScoreOf
<1> DEFINE off == kept.offset
<1>5. /\ solution = {} /\ SettledFull /\ (limitHit \/ anyTimeout => nodeLimit # 0)
      /\ ~stopAfterFirst /\ ~anyTimeout => NoneBetter
      /\ ~stopAfterFirst => SeedNoBetter
      /\ poolNow \cap poolsLeft = {}
  BY <1>1 DEF PoolsInv
<1>6. q \notin Settled /\ Settled' = Settled \cup {q}
  BY <1>1, <1>2, <1>5 DEF Settled
<1>7. DOMAIN off = NodesOf(space, q) /\ off = [c \in NodesOf(space, q) |-> off[c]]
  BY <1>4 DEF Full
<1> HIDE DEF off
<1>8. /\ offsets' = [c \in DOMAIN offsets' |-> offsets'[c]]
      /\ DOMAIN offsets' = NodesOf(space, q) \cup DOMAIN offsets
      /\ \A c \in NodesOf(space, q) : offsets'[c] = off[c]
      /\ \A c \in DOMAIN offsets \ NodesOf(space, q) : offsets'[c] = offsets[c]
  <2>1. offsets' = Joined(off, offsets)
    BY <1>3 DEF off
  <2> QED
    BY <1>7, <2>1 DEF Joined
<1>9. Part(offsets', q) = off
  BY <1>7, <1>8 DEF Part
<1>10. ASSUME NEW r \in Settled PROVE Part(offsets', r) = Part(offsets, r)
  <2>1. \A c \in NodesOf(space, r) : c \in DOMAIN offsets \ NodesOf(space, q)
    BY <1>5, <1>6 DEF SettledFull, NodesOf
  <2>2. \A c \in NodesOf(space, r) : offsets'[c] = offsets[c]
    BY <1>8, <2>1
  <2> QED
    BY <2>2 DEF Part
<1>11. \A f : Kept(q, f) => ~ScoreBefore(ScoreOf(q, f), ScoreOf(q, off))
  BY <1>4 DEF Kept, off
<1>12. ASSUME ~stopAfterFirst, ~anyTimeout', NEW f, Full(q, f)
       PROVE  ~ScoreBefore(ScoreOf(q, f), ScoreOf(q, off))
  BY <1>1, <1>2, <1>11, <1>12, OverKeepsAll
<1>13. ASSUME ~stopAfterFirst, NEW sol \in seed
       PROVE  ~ScoreBefore(ScoreOf(q, SeedPlacement(space, q, sol)), ScoreOf(q, off))
  BY <1>2, <1>5, <1>11, <1>13 DEF SeedNoBetter
<1>14. Full(q, off) /\ solution' = {} /\ (limitHit' \/ anyTimeout' => nodeLimit # 0)
       /\ (anyTimeout => anyTimeout')
  BY <1>1, <1>4, <1>5 DEF off
<1> QED
  BY <1>1, <1>2, <1>5, <1>6, <1>8, <1>9, <1>10, <1>12, <1>13, <1>14, Settles

LEMMA NextSettles ==
    ASSUME InputInv, IInv, SearchInv, PoolsInv, [Next]_vars
    PROVE  PoolsInv'
<1>1. ASSUME NEW q \in poolsLeft, SkipPool(q) PROVE PoolsInv'
  BY <1>1, SkipPoolSettles
<1>2. ASSUME NEW q \in poolsLeft, StartPool(q) PROVE PoolsInv'
  BY <1>2, StartPoolSettles
<1>3. ASSUME UNCHANGED <<problem, space, best>>
      PROVE  \A q, f : Kept(q, f) => Kept(q, f)'
  BY <1>3, SameQuestion DEF Kept
<1>4. CASE HitLimit
  <2>1. /\ UNCHANGED <<input, poolsLeft, poolNow, result>> /\ UNCHANGED <<problem, space, best>>
        /\ nodeLimit # 0
    BY <1>4 DEF HitLimit, AtLimit, input
  <2> QED
    BY <1>3, <2>1, SearchGoesOn
<1>5. CASE Prune \/ Expand \/ Descend \/ LoopEnds
  <2>1. /\ UNCHANGED <<input, poolsLeft, poolNow, result>> /\ UNCHANGED <<problem, space, best>>
        /\ limitHit' = limitHit
    BY <1>5 DEF Prune, Expand, Descend, LoopEnds, input
  <2> QED
    BY <1>3, <2>1, SearchGoesOn
<1>6. CASE Terminated \/ UNCHANGED vars
  <2>1. /\ UNCHANGED <<input, poolsLeft, poolNow, result>> /\ UNCHANGED <<problem, space, best>>
        /\ limitHit' = limitHit
    BY <1>6 DEF Terminated, vars, input, search
  <2> QED
    BY <1>3, <2>1, SearchGoesOn
<1>7. CASE Leaf
  <2>1. UNCHANGED <<input, poolsLeft, poolNow, result>> /\ limitHit' = limitHit
    BY <1>7 DEF Leaf
  <2>2. ASSUME NEW q \in poolNow, NEW sol \in seed PROVE Full(q, SeedPlacement(space, q, sol))
    <3>1. q \in problem.pools
      BY DEF IInv, TypeOK
    <3>2. ValidSolution(problem, sol) /\ \A b \in problem.buffers : sol[b].offset \in 0..MaxUInt
      BY SeedsAssumption DEF InputInv
    <3> QED
      BY <3>1, <3>2, ValidIsFull
  <2>3. \A q \in poolNow : \A sol \in seed :
            Kept(q, SeedPlacement(space, q, sol)) => Kept(q, SeedPlacement(space, q, sol))'
    <3> SUFFICES ASSUME NEW q \in poolNow, NEW sol \in seed, Kept(q, SeedPlacement(space, q, sol))
                 PROVE  Kept(q, SeedPlacement(space, q, sol))'
      OBVIOUS
    <3>1. PICK f : f = SeedPlacement(space, q, sol)
      OBVIOUS
    <3>2. Full(q, f) /\ Kept(q, f)
      BY <2>2, <3>1
    <3>3. Kept(q, f)'
      BY <1>7, <3>2, KeptByLeaf
    <3>4. SeedPlacement(space, q, sol)' = f
      BY <2>1, <3>1 DEF input, SeedPlacement
    <3> QED
      BY <3>3, <3>4 DEF Kept, ScoreOf
  <2> QED
    BY <2>1, <2>3, SearchGoesOn
<1>8. CASE PoolDone
  BY <1>8, PoolDoneSettles
<1>9. CASE AllPoolsDone
  BY <1>9 DEF AllPoolsDone, PoolsInv
<1> QED
  BY <1>1, <1>2, <1>4, <1>5, <1>6, <1>7, <1>8, <1>9 DEF Next

(***************************************************************************)
(* The answer                                                              *)
(***************************************************************************)
\* When every pool is settled, the placements are one of the whole.
LEMMA SettledIsWhole ==
    ASSUME InputInv, SettledFull, Settled = problem.pools
    PROVE  Whole(offsets)
<1>1. DOMAIN offsets = Classes(problem)
  <2>1. \A q \in problem.pools : NodesOf(space, q) \subseteq Classes(problem)
    BY NodeKnown
  <2> QED
    BY <2>1, PoolsKnown DEF SettledFull
<1>2. ASSUME NEW c \in Classes(problem) PROVE offsets[c] \in 0..MaxUInt
  <2> DEFINE q == PoolOf(problem, c)
  <2>1. q \in problem.pools /\ c \in NodesOf(space, q)
    BY PoolsKnown
  <2> HIDE DEF q
  <2>2. Part(offsets, q) \in [NodesOf(space, q) -> 0..MaxUInt]
    BY <2>1 DEF SettledFull, Full
  <2>3. Part(offsets, q)[c] = offsets[c]
    BY <2>1 DEF Part
  <2> QED
    BY <2>1, <2>2, <2>3
<1>3. offsets = [c \in DOMAIN offsets |-> offsets[c]]
  BY DEF SettledFull
<1> QED
  BY <1>1, <1>2, <1>3 DEF Whole, SettledFull

\* The tables of the specification.
LEMMA PlacementsAre ==
    ASSUME InputInv
    PROVE  /\ ValidPlacements[problem] = PlacementsOf(problem)
           /\ OptimalPlacements[problem] = BestOf(problem, PlacementsOf(problem))
<1>1. ValidPlacements = [p \in Problems |-> PlacementsOf(p)]
  BY TabulatedIs DEF ValidPlacements
<1>2. problem \in Problems
  BY DEF InputInv
<1>3. ValidPlacements[problem] = PlacementsOf(problem)
  BY <1>1, <1>2
<1>4. OptimalPlacements = [p \in Problems |-> BestOf(p, ValidPlacements[p])]
  BY TabulatedIs DEF OptimalPlacements
<1> QED
  BY <1>2, <1>3, <1>4

\* The scores of the valid placements are vectors.
LEMMA PlacementsScored ==
    ASSUME InputInv, NEW sol, \A b \in problem.buffers : sol[b].offset \in 0..MaxUInt,
           DOMAIN sol = problem.buffers
    PROVE  ObjectiveScore(problem, sol) \in Scores
<1>1. "bank_cost" \notin Range(problem.terms)
  BY ProblemsAssumption DEF InputInv, ReuseBeforePeaks, Range
<1>2. InWords(problem, sol)
  BY DEF InWords
<1> QED
  BY <1>1, <1>2, PoolsKnown, ObjectiveScored DEF Scored, Scores

\* A placement of every class is optimal when none of a pool is better than its
\* part there.
LEMMA WholeOptimal ==
    ASSUME InputInv, CostsAddUp(problem), NEW off, Whole(off),
           \A q \in problem.pools : \A f :
               Full(q, f) => ~ScoreBefore(ScoreOf(q, f), ScoreOf(q, Part(off, q)))
    PROVE  SolutionOf(problem, off) \in OptimalPlacements[problem]
<1> DEFINE mine == SolutionOf(problem, off)
           V == PlacementsOf(problem)
           scored == {<<sol, ObjectiveScore(problem, sol)>> : sol \in V}
           S == {x[2] : x \in scored}
<1>1. mine \in V
  BY WholeIsPlacement
<1>2. PICK n \in Nat : Scores \subseteq [1..n -> Int]
  BY ScoreVectors
<1>3. ASSUME NEW sol \in V
      PROVE  /\ ObjectiveScore(problem, sol) \in [1..n -> Int]
             /\ ~ScoreBefore(ObjectiveScore(problem, sol), ObjectiveScore(problem, mine))
  <2>1. ValidSolution(problem, sol) /\ \A b \in problem.buffers : sol[b].offset \in 0..MaxUInt
    BY PlacementsKnown
  <2>2. ObjectiveScore(problem, sol) \in Scores
    BY <2>1, PlacementsScored DEF ValidSolution
  <2>3. /\ Whole(Taken(sol))
        /\ ObjectiveScore(problem, SolutionOf(problem, Taken(sol))) = ObjectiveScore(problem, sol)
    BY <2>1, ValidIsWhole
  <2>4. \A q \in problem.pools :
            ~ScoreBefore(ScoreOf(q, Part(Taken(sol), q)), ScoreOf(q, Part(off, q)))
    BY <2>3 DEF Whole
  <2> QED
    BY <1>2, <2>2, <2>3, <2>4, WholeNotWorse
<1> HIDE DEF mine, V
<1>4. S = {ObjectiveScore(problem, sol) : sol \in V}
  <2> DEFINE R == {ObjectiveScore(problem, sol) : sol \in V}
  <2>1. ASSUME NEW x \in S PROVE x \in R
    <3>1. PICK y \in scored : x = y[2]
      OBVIOUS
    <3>2. PICK sol \in V : y = <<sol, ObjectiveScore(problem, sol)>>
      BY <3>1
    <3> QED
      BY <3>1, <3>2
  <2>2. ASSUME NEW sol \in V PROVE ObjectiveScore(problem, sol) \in S
    <3>1. <<sol, ObjectiveScore(problem, sol)>> \in scored
      OBVIOUS
    <3> HIDE DEF scored
    <3> QED
      BY <3>1
  <2> QED
    BY <2>1, <2>2
<1>5. S \in SUBSET [1..n -> Int] /\ ObjectiveScore(problem, mine) \in S
  BY <1>1, <1>3, <1>4
<1>6. \A o \in S : ~ScoreBefore(o, ObjectiveScore(problem, mine))
  BY <1>3, <1>4
<1>7. BestScore(S) = ObjectiveScore(problem, mine)
  <2> HIDE DEF S
  <2> QED
    BY <1>5, <1>6, BestScoreIs
<1>8. mine \in BestOf(problem, V)
  <2>1. BestOf(problem, V) = {x[1] : x \in {y \in scored : y[2] = BestScore(S)}}
    BY DEF BestOf
  <2>2. <<mine, ObjectiveScore(problem, mine)>> \in {y \in scored : y[2] = BestScore(S)}
    BY <1>1, <1>7
  <2> DEFINE T == {y \in scored : y[2] = BestScore(S)}
             pair == <<mine, ObjectiveScore(problem, mine)>>
  <2>3. pair \in T /\ pair[1] = mine
    BY <2>2
  <2> HIDE DEF T, pair
  <2>4. mine \in {x[1] : x \in T}
    BY <2>3
  <2> QED
    BY <2>1, <2>4 DEF T
<1> QED
  BY <1>8, PlacementsAre DEF mine, V

\* Without a placement in one pool there is none of the whole.
LEMMA NoneWithoutPool ==
    ASSUME InputInv, NEW q \in problem.pools, \A f : ~Full(q, f)
    PROVE  ValidPlacements[problem] = {}
<1> SUFFICES ASSUME NEW sol \in PlacementsOf(problem) PROVE FALSE
  BY PlacementsAre
<1> QED
  BY PlacementsKnown, ValidIsFull

\* Every step that returns is an exact answer.
LEMMA StepAnswers ==
    ASSUME InputInv, IInv, SearchInv, PoolsInv, stopAfterFirst \/ CostsAddUp(problem), [Next]_vars
    PROVE  [Exact!Answer]_<<solution, status>>
<1> SUFFICES ASSUME ~(UNCHANGED <<solution, status>>)
             PROVE  Exact!Answer
  OBVIOUS
<1> DEFINE V == ValidPlacements[problem]
           W == IF stopAfterFirst THEN V ELSE OptimalPlacements[problem]
<1>1. ASSUME status = "none", UNCHANGED <<problem, stopAfterFirst>>,
             \/ status' = "kFeasible" /\ \E x \in W : solution' = {x}
             \/ status' = "kInfeasibleProven" /\ V = {} /\ solution' = {}
             \/ /\ status' = "kTimeout" /\ nodeLimit # 0
                /\ solution' = {} \/ \E x \in V : solution' = {x}
      PROVE  Exact!Answer
  <2>1. V' = V /\ W' = W
    BY <1>1
  <2>2. Exact!Optimal \/ Exact!Infeasible \/ Exact!Timeout
    BY <1>1 DEF Exact!Optimal, Exact!Infeasible, Exact!Timeout
  <2> QED
    BY <1>1, <2>1, <2>2 DEF Exact!Answer
<1>2. CASE PoolDone
  <2>1. /\ stack = <<>> /\ poolNow # {} /\ status = "none" /\ UNCHANGED <<problem, stopAfterFirst>>
        /\ best = {} /\ status' = (IF limitHit THEN "kTimeout" ELSE "kInfeasibleProven")
        /\ solution' = {}
    BY <1>2 DEF PoolDone, PoolsInv, IInv, TypeOK, input
  <2>2. CASE limitHit
    BY <1>1, <2>1, <2>2 DEF PoolsInv
  <2>3. CASE ~limitHit
    <3>1. PICK q \in poolNow : q \in problem.pools
      BY <2>1 DEF IInv, TypeOK
    <3>2. \A f : ~Full(q, f)
      BY <2>1, <2>3, OverKeepsAll DEF Kept
    <3>3. V = {}
      BY <3>1, <3>2, NoneWithoutPool
    <3> QED
      BY <1>1, <2>1, <2>3, <3>3
  <2> QED
    BY <2>2, <2>3
<1>3. CASE AllPoolsDone
  <2>1. /\ poolNow = {} /\ poolsLeft = {} /\ status = "none" /\ UNCHANGED <<problem, stopAfterFirst>>
        /\ status' = (IF anyTimeout THEN "kTimeout" ELSE "kFeasible")
        /\ solution' = {SolutionOf(problem, offsets)}
    BY <1>3 DEF AllPoolsDone, input
  <2>2. Settled = problem.pools
    BY <2>1 DEF Settled
  <2>3. Whole(offsets)
    BY <2>1, <2>2, SettledIsWhole DEF PoolsInv
  <2>4. SolutionOf(problem, offsets) \in V
    BY <2>3, WholeIsPlacement, PlacementsAre
  <2>5. CASE anyTimeout
    BY <1>1, <2>1, <2>4, <2>5 DEF PoolsInv
  <2>6. CASE ~anyTimeout
    <3>1. SolutionOf(problem, offsets) \in W
      <4>1. CASE stopAfterFirst
        BY <2>4, <4>1
      <4>2. CASE ~stopAfterFirst
        <5>1. NoneBetter
          BY <2>1, <2>6, <4>2 DEF PoolsInv
        <5>2. CostsAddUp(problem)
          BY <4>2
        <5>3. SolutionOf(problem, offsets) \in OptimalPlacements[problem]
          BY <2>2, <2>3, <5>1, <5>2, WholeOptimal DEF NoneBetter
        <5> QED
          BY <4>2, <5>3
      <4> QED
        BY <4>1, <4>2
    <3> QED
      BY <1>1, <2>1, <2>6, <3>1
  <2> QED
    BY <2>5, <2>6
<1>4. ASSUME NEW q \in poolsLeft, SkipPool(q) \/ StartPool(q) PROVE FALSE
  BY <1>4 DEF SkipPool, StartPool, result
<1>5. CASE HitLimit \/ Prune \/ Leaf \/ Expand \/ Descend \/ LoopEnds \/ Terminated \/ UNCHANGED vars
  BY <1>5 DEF HitLimit, Prune, Leaf, Expand, Descend, LoopEnds, Terminated, vars, result
<1> QED
  BY <1>2, <1>3, <1>4, <1>5 DEF Next

\* What the loop over the pools knows holds from the start.
LEMMA AllInv ==
    Spec => [](InputInv /\ IInv /\ SearchInv /\ PoolsInv)
<1>1. Init => InputInv /\ IInv /\ SearchInv /\ PoolsInv
  <2> SUFFICES ASSUME Init PROVE InputInv /\ IInv /\ SearchInv /\ PoolsInv
    OBVIOUS
  <2>1. InputInv /\ IInv
    BY InitInv
  <2>2. SearchInv
    BY DEF Init, SearchInv, PlacedAligned, BestIsFull, NothingLost, NoOffsets
  <2>3. Settled = {}
    BY DEF Init, Settled
  <2>4. PoolsInv
    BY <2>3 DEF Init, PoolsInv, SettledFull, NoneBetter, SeedNoBetter, NoOffsets
  <2> QED
    BY <2>1, <2>2, <2>4
<1>2. InputInv /\ IInv /\ SearchInv /\ PoolsInv /\ [Next]_vars
          => (InputInv /\ IInv /\ SearchInv /\ PoolsInv)'
  BY NextInv, NextKeeps, NextSettles
<1> QED
  BY <1>1, <1>2, PTL DEF Spec

\* The input is read and never written.
LEMMA InputStays ==
    ASSUME [Next]_vars
    PROVE  UNCHANGED <<problem, stopAfterFirst>>
  BY DEF Next, SkipPool, StartPool, HitLimit, Prune, Leaf, Expand, Descend, LoopEnds,
         PoolDone, AllPoolsDone, Terminated, vars, input

\* RunCanonicalExactSearch is an exact solver of the whole problem.  kTimeout is
\* excused, kInfeasibleProven is a proof and kFeasible is a valid placement, if
\* any will do (stop_after_first), or a lexicographic optimum of all pools
\* together, wherever the sums over the pools tell costs apart.
THEOREM Exactness ==
    Spec /\ (stopAfterFirst \/ CostsAddUp(problem)) => AnswersExactly
<1> DEFINE asked == stopAfterFirst \/ CostsAddUp(problem)
<1>1. Init => status = "none" /\ solution = {}
  BY DEF Init
<1>2. asked /\ [Next]_vars => asked'
  BY InputStays
<1>3. InputInv /\ IInv /\ SearchInv /\ PoolsInv /\ asked /\ [Next]_vars
          => [Exact!Answer]_<<solution, status>>
  BY StepAnswers
<1> QED
  BY AllInv, <1>1, <1>2, <1>3, PTL DEF Spec, AnswersExactly, Exact!ExactSpec

\* When a limit ended it, the answer is no worse than the seed.
LEMMA StepKeepsSeed ==
    ASSUME InputInv, IInv, SearchInv, PoolsInv, CostsAddUp(problem), TimeoutKeepsSeed, [Next]_vars
    PROVE  TimeoutKeepsSeed'
<1>1. CASE UNCHANGED <<problem, stopAfterFirst, seed, solution, status>>
  BY <1>1 DEF TimeoutKeepsSeed
<1>2. CASE PoolDone /\ status' # status
  <2> SUFFICES ASSUME status' = "kTimeout", ~stopAfterFirst', NEW sol \in seed' PROVE FALSE
    BY DEF TimeoutKeepsSeed
  <2>1. /\ poolNow # {} /\ status = "none" /\ UNCHANGED <<stopAfterFirst, seed>> /\ best = {}
    BY <1>2 DEF PoolDone, IInv, TypeOK, input
  <2>2. SeedNoBetter
    BY <2>1 DEF PoolsInv
  <2> QED
    BY <2>1, <2>2 DEF SeedNoBetter, Kept
<1>3. CASE AllPoolsDone
  <2> SUFFICES ASSUME status' = "kTimeout", ~stopAfterFirst', NEW sol \in seed'
               PROVE  \E kept \in solution' :
                          ~ScoreBefore(ObjectiveScore(problem', sol), ObjectiveScore(problem', kept))
    BY DEF TimeoutKeepsSeed
  <2>1. /\ poolNow = {} /\ poolsLeft = {} /\ status = "none"
        /\ UNCHANGED <<problem, seed, stopAfterFirst>>
        /\ solution' = {SolutionOf(problem, offsets)}
    BY <1>3 DEF AllPoolsDone, input
  <2>2. Settled = problem.pools
    BY <2>1 DEF Settled
  <2>3. Whole(offsets) /\ SeedNoBetter
    BY <2>1, <2>2, SettledIsWhole DEF PoolsInv
  <2>4. ValidSolution(problem, sol) /\ \A b \in problem.buffers : sol[b].offset \in 0..MaxUInt
    BY <2>1, SeedsAssumption DEF InputInv
  <2>5. /\ Whole(Taken(sol))
        /\ \A q \in problem.pools : Part(Taken(sol), q) = SeedPlacement(space, q, sol)
        /\ ObjectiveScore(problem, SolutionOf(problem, Taken(sol))) = ObjectiveScore(problem, sol)
    BY <2>4, ValidIsWhole
  <2>6. \A q \in problem.pools :
            ~ScoreBefore(ScoreOf(q, Part(Taken(sol), q)), ScoreOf(q, Part(offsets, q)))
    BY <2>1, <2>2, <2>3, <2>5 DEF SeedNoBetter
  <2>7. ~ScoreBefore(ObjectiveScore(problem, sol), ObjectiveScore(problem, SolutionOf(problem, offsets)))
    BY <2>3, <2>5, <2>6, WholeNotWorse
  <2> QED
    BY <2>1, <2>7
<1>4. ASSUME NEW q \in poolsLeft, SkipPool(q) \/ StartPool(q)
      PROVE  UNCHANGED <<problem, stopAfterFirst, seed, solution, status>>
  BY <1>4 DEF SkipPool, StartPool, input, result
<1>5. CASE HitLimit \/ Prune \/ Leaf \/ Expand \/ Descend \/ LoopEnds \/ Terminated \/ UNCHANGED vars
  BY <1>1, <1>5 DEF HitLimit, Prune, Leaf, Expand, Descend, LoopEnds, Terminated, vars, input, result
<1>6. CASE PoolDone /\ status' = status
  <2>1. UNCHANGED <<problem, stopAfterFirst, seed, solution, status>>
    BY <1>6 DEF PoolDone, input, IInv, TypeOK
  <2> QED
    BY <1>1, <2>1
<1> QED
  BY <1>1, <1>2, <1>3, <1>4, <1>5, <1>6 DEF Next

\* A search that its limit ends gives back nothing worse than its seed
\* (options.incumbent_offsets), wherever the sums tell costs apart.
THEOREM KeepsSeed ==
    Spec /\ CostsAddUp(problem) => []TimeoutKeepsSeed
<1>1. Init => TimeoutKeepsSeed
  BY DEF Init, TimeoutKeepsSeed
<1>2. CostsAddUp(problem) /\ [Next]_vars => CostsAddUp(problem)'
  BY InputStays
<1>3. InputInv /\ IInv /\ SearchInv /\ PoolsInv /\ CostsAddUp(problem) /\ TimeoutKeepsSeed /\ [Next]_vars
          => TimeoutKeepsSeed'
  BY StepKeepsSeed
<1> QED
  BY AllInv, <1>1, <1>2, <1>3, PTL DEF Spec
=============================================================================
