-------------------------- MODULE PreparedProblem --------------------------
(***************************************************************************)
(* PreparedProblem of src/dsa/algorithms/placement_engine.cpp: the     *)
(* colocation classes of a problem as the units of placement, and the      *)
(* address ranges a partial placement leaves to a class.                   *)
(*                                                                         *)
(* A class is the set of its member buffers; a partial placement is a      *)
(* function from some classes to offsets.                                  *)
(***************************************************************************)
EXTENDS DsaModel

(***************************************************************************)
(* Prepare: the attributes of a class and the errors of the contraction.   *)
(***************************************************************************)
LeastCommonMultiple(first, second) ==
    Min({m \in 1..(first * second) : m % first = 0 /\ m % second = 0})

ClassAlignment(p, class) ==
    FoldSet(LeastCommonMultiple, 1, {p.alignment[b] : b \in class})

ClassPools(p, class) == {q \in p.pools : \A b \in class : q \in p.allowed[b]}

ClassPins(p, class) == {pin \in p.pins : pin.buffer \in class}

Pinned(p, class) == ClassPins(p, class) # {}

PinOf(p, class) == CHOOSE pin \in ClassPins(p, class) : TRUE

PinnedExclusive(p, class) == \E pin \in ClassPins(p, class) : pin.exclusive

PrepareAccepts(p) ==
    /\ ValidProblem(p)
    /\ \A class \in Classes(p) :
           /\ ClassAlignment(p, class) <= MaxUInt
           /\ ClassPools(p, class) # {}
           /\ \A x, y \in ClassPins(p, class) : x.pool = y.pool /\ x.offset = y.offset
    /\ \A pair \in p.separations : ClassOf(p, pair[1]) # ClassOf(p, pair[2])

FlexiblePools(p) ==
    \E class \in Classes(p) : Cardinality(ClassPools(p, class)) > 1

PoolOf(p, class) ==
    IF Pinned(p, class) THEN PinOf(p, class).pool
    ELSE CHOOSE q \in ClassPools(p, class) : TRUE

SuperBuffersConflict(p, first, second) ==
    \E a \in first, b \in second : HaveTemporalConflict(p, a, b)

Separated(p, first, second) ==
    \E pair \in p.separations :
        \/ pair[1] \in first /\ pair[2] \in second
        \/ pair[1] \in second /\ pair[2] \in first

\* Two classes of one pool that may not share an address.
Blocks(p, first, second) ==
    /\ PoolOf(p, first) = PoolOf(p, second)
    /\ \/ SuperBuffersConflict(p, first, second)
       \/ Separated(p, first, second)
       \/ PinnedExclusive(p, first) \/ PinnedExclusive(p, second)

-----------------------------------------------------------------------------
(***************************************************************************)
(* Partial placements                                                      *)
(***************************************************************************)
Extend(f, class, value) ==
    [c \in DOMAIN f \cup {class} |-> IF c = class THEN value ELSE f[c]]

\* The solution map: every member of a placed class is at the class's offset.
SolutionOf(p, off) ==
    [b \in UNION DOMAIN off |->
        [pool |-> PoolOf(p, ClassOf(p, b)), offset |-> off[ClassOf(p, b)]]]

\* Mutant of BlockedRanges: a placed class blocks the bytes of its
\* representative only.
BlockedRangesOfRepresentatives(p, off, class) ==
    p.reserved[PoolOf(p, class)]
        \cup {<<off[d], off[d] + p.size[Min(d)]>> :
                 d \in {c \in DOMAIN off : Blocks(p, class, c)}}

\* The ranges a class must avoid: the reserved ranges of its pool and the
\* placed classes of that pool that block it.
BlockedRanges(p, off, class) ==
    p.reserved[PoolOf(p, class)]
        \cup {<<off[d], off[d] + ClassSize(p, d)>> :
                 d \in {c \in DOMAIN off : Blocks(p, class, c)}}

\* Offsets at which a class may go next to a partial placement.
Clear(p, off, class, at) ==
    \A r \in BlockedRanges(p, off, class) :
        r[2] <= at \/ at + ClassSize(p, class) <= r[1]

Admissible(p, off, class, at) ==
    /\ at + ClassSize(p, class) <= MaxUInt
    /\ Aligned(at, ClassAlignment(p, class))
    /\ Clear(p, off, class, at)

\* The verdict on a complete placement: the validator without capacities, then
\* the capacities.
Verdict(p, off) ==
    LET sol == SolutionOf(p, off)
    IN  IF ~ValidSolution(WithoutCapacities(p), sol) THEN "kInfeasibleProven"
        ELSE IF FitsCapacities(p, sol) THEN "kFeasible"
        ELSE "kBestEffortNoFit"
=============================================================================
