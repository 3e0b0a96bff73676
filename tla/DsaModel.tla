------------------------------ MODULE DsaModel ------------------------------
(***************************************************************************)
(* The portable problem of src/dsa/model: buffers with half-open       *)
(* lifetimes, pools with reserved address ranges, hard constraints between *)
(* buffers, and the two functions every solver is judged by, the validator *)
(* and the objective.                                                      *)
(*                                                                         *)
(* A problem is a record.  Buffers and pools are sets of integer ids, so   *)
(* the duplicate-id errors of ValidateProblem cannot be written down; every*)
(* other field is a function or a set over those ids:                      *)
(*   size, alignment   [buffers -> Nat]                                    *)
(*   live              [buffers -> sets of <<lower, upper>>]               *)
(*   allowed           [buffers -> sets of pools]                          *)
(*   capacity          a function on the pools that have one               *)
(*   reserved          [pools -> sets of <<begin, end>>]                   *)
(*   colocations, separations, exclusions     sets of pairs of buffers     *)
(*   pins              set of [buffer, pool, offset, exclusive]            *)
(*   penalties         sequence of [first, second, cost]                   *)
(* A solution maps the placed buffers to records [pool, offset].           *)
(* Unsigned 64-bit arithmetic is arithmetic up to MaxUInt.                 *)
(***************************************************************************)
EXTENDS Integers, Sequences, FiniteSets, FiniteSetsExt, Folds

CONSTANT MaxUInt        \* std::numeric_limits<std::uint64_t>::max()

ASSUME MaxUIntAssumption == MaxUInt \in Nat \ {0}

\* f, with all its values computed once: a comparison enumerates a function.
Tabulated(f) == CHOOSE table \in {f} : table = f

AddOverflows(first, second) == first + second > MaxUInt

SaturatingAdd(first, second) ==
    IF AddOverflows(first, second) THEN MaxUInt ELSE first + second

SaturatingSum(f(_), S) ==
    MapThenFoldSet(SaturatingAdd, 0, f, LAMBDA T : CHOOSE x \in T : TRUE, S)

Aligned(offset, alignment) == offset % alignment = 0

\* Mutant of AlignUp: aligned values are moved too.
AlignUpPast(value, alignment) == value + (alignment - (value % alignment))

\* AlignUp before its overflow test: the least aligned offset at or above value.
AlignUp(value, alignment) ==
    IF value % alignment = 0 THEN value
    ELSE value + (alignment - (value % alignment))

IntervalsOverlap(first, second) == first[1] < second[2] /\ second[1] < first[2]

-----------------------------------------------------------------------------
(***************************************************************************)
(* Conflicts between buffers                                               *)
(***************************************************************************)
LifetimesOverlap(p, first, second) ==
    \E x \in p.live[first], y \in p.live[second] : IntervalsOverlap(x, y)

TemporallyExcluded(p, first, second) ==
    <<first, second>> \in p.exclusions \/ <<second, first>> \in p.exclusions

HaveTemporalConflict(p, first, second) ==
    ~TemporallyExcluded(p, first, second) /\ LifetimesOverlap(p, first, second)

\* A range that runs past the end of the address space overlaps everything.
AddressRangesOverlap(firstOffset, firstSize, secondOffset, secondSize) ==
    /\ firstSize # 0 /\ secondSize # 0
    /\ \/ AddOverflows(firstOffset, firstSize)
       \/ AddOverflows(secondOffset, secondSize)
       \/ /\ firstOffset < secondOffset + secondSize
          /\ secondOffset < firstOffset + firstSize

OverlapsReserved(p, pool, offset, size) ==
    \E r \in p.reserved[pool] :
        AddressRangesOverlap(offset, size, r[1], r[2] - r[1])

-----------------------------------------------------------------------------
(***************************************************************************)
(* Colocation classes.  The union-find forests of the code are the closure *)
(* of the colocation pairs; a class is the set of its members.             *)
(***************************************************************************)
ClosedUnderColocation(p, S) ==
    \A pair \in p.colocations : pair[1] \in S <=> pair[2] \in S

ClassOf(p, b) ==
    {c \in p.buffers : \A S \in SUBSET p.buffers :
                           b \in S /\ ClosedUnderColocation(p, S) => c \in S}

Classes(p) == {ClassOf(p, b) : b \in p.buffers}

ClassSize(p, class) == Max({p.size[b] : b \in class})

-----------------------------------------------------------------------------
(***************************************************************************)
(* ValidateProblem and ValidateSolution accept when they return no error.  *)
(***************************************************************************)
ValidPool(p, q) ==
    \A r \in p.reserved[q] :
        r[1] < r[2] /\ (q \in DOMAIN p.capacity => r[2] <= p.capacity[q])

ValidBuffer(p, b) ==
    /\ p.size[b] # 0 /\ p.alignment[b] # 0
    /\ p.live[b] # {} /\ \A x \in p.live[b] : x[1] < x[2]
    /\ p.allowed[b] # {} /\ p.allowed[b] \subseteq p.pools

ValidPin(p, pin) ==
    /\ pin.buffer \in p.buffers
    /\ \A other \in p.pins : other.buffer = pin.buffer => other = pin
    /\ pin.pool \in p.pools \cap p.allowed[pin.buffer]
    /\ Aligned(pin.offset, p.alignment[pin.buffer])
    /\ ~AddOverflows(pin.offset, p.size[pin.buffer])
    /\ pin.pool \in DOMAIN p.capacity =>
           pin.offset + p.size[pin.buffer] <= p.capacity[pin.pool]
    /\ ~OverlapsReserved(p, pin.pool, pin.offset, p.size[pin.buffer])

KnownPair(p, pair) == {pair[1], pair[2]} \subseteq p.buffers

ValidObjective(p) ==
    /\ p.terms # <<>>
    /\ \A i, j \in DOMAIN p.terms : p.terms[i] = p.terms[j] => i = j

ValidProblem(p) ==
    /\ p.pools # {}
    /\ \A q \in p.pools : ValidPool(p, q)
    /\ \A b \in p.buffers : ValidBuffer(p, b)
    /\ \A pair \in p.colocations \cup p.separations \cup p.exclusions :
           KnownPair(p, pair)
    /\ \A pair \in p.separations :
           /\ pair[1] # pair[2]
           /\ pair \notin p.colocations /\ <<pair[2], pair[1]>> \notin p.colocations
    /\ \A pair \in p.exclusions : pair[1] # pair[2]
    /\ \A pin \in p.pins : ValidPin(p, pin)
    /\ \A i \in DOMAIN p.penalties :
           KnownPair(p, <<p.penalties[i].first, p.penalties[i].second>>)
    /\ ValidObjective(p)

WellPlaced(p, sol, b) ==
    /\ sol[b].pool \in p.allowed[b]
    /\ Aligned(sol[b].offset, p.alignment[b])
    /\ ~AddOverflows(sol[b].offset, p.size[b])
    /\ sol[b].pool \in DOMAIN p.capacity =>
           sol[b].offset + p.size[b] <= p.capacity[sol[b].pool]
    /\ ~OverlapsReserved(p, sol[b].pool, sol[b].offset, p.size[b])

\* Two buffers of different classes share addresses when the extents of their
\* classes, the sizes of the largest members, do.
ExtentsOverlap(p, sol, a, b) ==
    /\ sol[a].pool = sol[b].pool
    /\ AddressRangesOverlap(sol[a].offset, ClassSize(p, ClassOf(p, a)),
                            sol[b].offset, ClassSize(p, ClassOf(p, b)))

ExclusivelyPinned(p, b) == \E pin \in p.pins : pin.buffer = b /\ pin.exclusive

MustNotReuse(p, a, b) ==
    \/ HaveTemporalConflict(p, a, b)
    \/ ExclusivelyPinned(p, a) \/ ExclusivelyPinned(p, b)

ValidSolution(p, sol) ==
    /\ ValidProblem(p)
    /\ DOMAIN sol = p.buffers
    /\ \A b \in p.buffers : WellPlaced(p, sol, b)
    /\ \A pair \in p.colocations : sol[pair[1]] = sol[pair[2]]
    /\ \A a, b \in p.buffers :
           ClassOf(p, a) # ClassOf(p, b) /\ MustNotReuse(p, a, b)
               => ~ExtentsOverlap(p, sol, a, b)
    /\ \A pair \in p.separations : ~ExtentsOverlap(p, sol, pair[1], pair[2])
    /\ \A pin \in p.pins : sol[pin.buffer] = [pool |-> pin.pool, offset |-> pin.offset]

\* The types of the fields: addresses, sizes and alignments are unsigned words.
ProblemTyped(p) ==
    /\ {"buffers", "pools", "size", "alignment", "live", "allowed", "capacity", "reserved",
        "colocations", "separations", "exclusions", "pins", "penalties", "terms"} \subseteq DOMAIN p
    /\ \A b \in p.buffers : {p.size[b], p.alignment[b]} \subseteq 0..MaxUInt
    /\ \A q \in p.pools : p.reserved[q] \subseteq (0..MaxUInt) \X (0..MaxUInt)
    /\ \A q \in DOMAIN p.capacity : p.capacity[q] \in 0..MaxUInt
    /\ \A pin \in p.pins : pin.offset \in 0..MaxUInt

WithoutCapacities(p) == [p EXCEPT !.capacity = <<>>]

-----------------------------------------------------------------------------
(***************************************************************************)
(* EvaluateObjective.  A pool without placements or reserved ranges has no *)
(* entry in peak_by_pool and adds nothing to the totals.                   *)
(***************************************************************************)
PeakOfPool(p, sol, q) ==
    Max({0} \cup {r[2] : r \in p.reserved[q]}
            \cup {sol[b].offset + p.size[b] :
                     b \in {x \in DOMAIN sol : /\ sol[x].pool = q
                                               /\ ~AddOverflows(sol[x].offset, p.size[x])}})

TotalPeak(p, sol) ==
    SaturatingSum(LAMBDA q : PeakOfPool(p, sol, q), p.pools)

MaxPeak(p, sol) == Max({PeakOfPool(p, sol, q) : q \in p.pools})

PenaltyActive(p, sol, penalty) ==
    /\ {penalty.first, penalty.second} \subseteq DOMAIN sol
    /\ ClassOf(p, penalty.first) # ClassOf(p, penalty.second)
    /\ ~HaveTemporalConflict(p, penalty.first, penalty.second)
    /\ ExtentsOverlap(p, sol, penalty.first, penalty.second)

ReuseCost(p, sol) ==
    SaturatingSum(LAMBDA i : p.penalties[i].cost,
                  {i \in DOMAIN p.penalties : PenaltyActive(p, sol, p.penalties[i])})

CapacityOverflow(p, sol) ==
    SaturatingSum(LAMBDA q : PeakOfPool(p, sol, q) - p.capacity[q],
                  {q \in DOMAIN p.capacity : PeakOfPool(p, sol, q) > p.capacity[q]})

\* What an evaluation reads: the pools of a problem are a vector, a capacity is
\* one of a pool, and the objective is a vector of metrics.
ObjectiveTyped(p) ==
    /\ "terms" \in DOMAIN p
    /\ IsFiniteSet(p.buffers) /\ p.buffers \subseteq Nat
    /\ IsFiniteSet(p.pools) /\ DOMAIN p.capacity \subseteq p.pools
    /\ IsFiniteSet(DOMAIN p.penalties)
    /\ \A i \in DOMAIN p.penalties : p.penalties[i].cost \in 0..MaxUInt
    /\ p.terms \in Seq({"reuse", "total_peak", "max_peak", "capacity_overflow", "bank_cost"})

\* EvaluateObjectiveMetric, for the terms of an objective in their order.  Nothing
\* sets the bank cost of an evaluation, which is 0.
ObjectiveScore(p, sol) ==
    [i \in DOMAIN p.terms |->
        CASE p.terms[i] = "reuse" -> ReuseCost(p, sol)
          [] p.terms[i] = "total_peak" -> TotalPeak(p, sol)
          [] p.terms[i] = "max_peak" -> MaxPeak(p, sol)
          [] p.terms[i] = "capacity_overflow" -> CapacityOverflow(p, sol)
          [] p.terms[i] = "bank_cost" -> 0]

\* Scores are vectors, compared lexicographically.
ScoreBefore(first, second) ==
    \E i \in DOMAIN first : first[i] < second[i] /\ \A j \in 1..(i - 1) : first[j] = second[j]

\* Mutant of FitsCapacities: a peak one byte over its capacity passes.
FitsCapacitiesLax(p, sol) ==
    \A q \in DOMAIN p.capacity : PeakOfPool(p, sol, q) <= p.capacity[q] + 1

FitsCapacities(p, sol) ==
    \A q \in DOMAIN p.capacity : PeakOfPool(p, sol, q) <= p.capacity[q]
=============================================================================
