------------------------- MODULE CypressRelaxation -------------------------
(***************************************************************************)
(* src/dsa/algorithms/cypress_relaxation_solver.cpp: the capacity baseline *)
(* that starts from the complete interference graph of every pool, packs   *)
(* it bottom up, and deletes auxiliary edges one by one until the packing  *)
(* fits the capacity of the pool.                                          *)
(*                                                                         *)
(* Each packing is a sweep: the lowest class that is not fixed is fixed,   *)
(* and its neighbours that still overlap it are shifted above it, past the *)
(* reserved ranges.  The sweep is modelled shift by shift, the way past    *)
(* the reserved ranges jump by jump, because both can go wrong at the top  *)
(* of the address space.                                                   *)
(***************************************************************************)
EXTENDS PreparedProblem, TLC

CONSTANT Problems       \* the problems the solver may be called with

VARIABLES
    problem,
    status,     \* "running" or the SolveStatus of the result
    phase,      \* where Solve and PackPool stand
    space,      \* search_space: the attributes of the classes, mandatory edges
    pool,       \* the pool being packed, {} or {pool}
    auxiliary,  \* its auxiliary edges in the order of their deletion
    relaxed,    \* how many of them are deleted
    offset,     \* PoolPackResult::offsets, of the classes of this pool
    finalized,  \* the classes that are fixed
    lowest,     \* the class fixed last, {} before the first
    todo,       \* classes the running loop over pool_nodes has still to visit
    at,         \* where AvoidReservedRanges has moved the first of them
    fits,       \* within_capacity of the last packing
    allFit,     \* all_fit
    placed,     \* the offsets of the classes of the finished pools
    metrics     \* solver_metrics

sweep == <<offset, finalized, lowest, todo, at>>
answer == <<status, allFit, placed, metrics>>
graph == <<space, pool, auxiliary, relaxed>>
vars == <<problem, phase, graph, fits, sweep, answer>>

-----------------------------------------------------------------------------
(***************************************************************************)
(* The graph of a pool                                                     *)
(***************************************************************************)
SearchSpace(p) ==
    [pool |-> [c \in Classes(p) |-> PoolOf(p, c)],
     size |-> [c \in Classes(p) |-> ClassSize(p, c)],
     alignment |-> [c \in Classes(p) |-> ClassAlignment(p, c)],
     mandatory |-> {{c, d} : <<c, d>> \in {e \in Classes(p) \X Classes(p) :
                                             e[1] # e[2] /\ Blocks(p, e[1], e[2])}}]

Nodes(s, q) == {c \in DOMAIN s.pool : s.pool[c] = q}

EdgeBefore(e, f) ==
    \/ Min(e[1]) < Min(f[1])
    \/ e[1] = f[1] /\ Min(e[2]) < Min(f[2])

ClassPairs(s, q) == {e \in Nodes(s, q) \X Nodes(s, q) : Min(e[1]) < Min(e[2])}

AuxiliaryEdges(s, q) == {e \in ClassPairs(s, q) : {e[1], e[2]} \notin s.mandatory}

Auxiliary(s, q) ==
    LET E == AuxiliaryEdges(s, q)
    IN  [i \in 1..Cardinality(E) |->
            CHOOSE e \in E : Cardinality({f \in E : EdgeBefore(f, e)}) = i - 1]

poolId == CHOOSE q \in pool : TRUE
poolNodes == Nodes(space, poolId)
Size(c) == space.size[c]
Alignment(c) == space.alignment[c]

\* active: the mandatory edges and the auxiliary ones not deleted yet.
Interferes(c, d) ==
    c # d /\ \A i \in 1..relaxed : {auxiliary[i][1], auxiliary[i][2]} # {c, d}

Degree(c) == Cardinality({d \in poolNodes : Interferes(c, d)})

Overlap(c, d) == AddressRangesOverlap(offset[c], Size(c), offset[d], Size(d))

-----------------------------------------------------------------------------
(***************************************************************************)
(* Solve, up to the first packing                                          *)
(***************************************************************************)
\* CheckSolverCompatibility, with the capabilities of this solver.
MissingFeature(p) ==
    \/ \E b \in p.buffers : Cardinality(p.live[b]) > 1 \/ Cardinality(p.allowed[b]) > 1
    \/ p.exclusions # {} \/ p.pins # {}

Unsupported(p) == MissingFeature(p) \/ DOMAIN p.capacity # p.pools

InitialMetrics == [auxiliary |-> 0, relaxed |-> 0, aliases |-> 0, attempts |-> 0]

Init ==
    /\ problem \in Problems
    /\ status = "running" /\ phase = "check"
    /\ space = <<>> /\ pool = {} /\ auxiliary = <<>> /\ relaxed = 0
    /\ offset = <<>> /\ finalized = {} /\ lowest = {} /\ todo = {} /\ at = 0
    /\ fits = FALSE /\ allFit = TRUE
    /\ placed = <<>> /\ metrics = InitialMetrics

Reject ==
    /\ phase = "check"
    /\ phase' = "done"
    /\ \/ /\ ~ValidProblem(problem)
          /\ status' = "kInvalidProblem"
       \/ /\ ValidProblem(problem) /\ Unsupported(problem)
          /\ status' = "kUnsupported"
       \/ /\ ValidProblem(problem) /\ ~Unsupported(problem) /\ ~PrepareAccepts(problem)
          /\ status' = "kInvalidProblem"
    /\ UNCHANGED <<problem, graph, fits, sweep, allFit, placed, metrics>>

\* PackPool from its first line, on a pool with some edges deleted.
BeginPacking(s, q, edges) ==
    /\ space' = s /\ pool' = {q} /\ auxiliary' = Auxiliary(s, q) /\ relaxed' = edges
    /\ offset' = [c \in Nodes(s, q) |-> 0]
    /\ todo' = Nodes(s, q)
    /\ finalized' = {} /\ lowest' = {} /\ at' = 0
    /\ phase' = "loop"

Begin ==
    /\ phase = "check"
    /\ ValidProblem(problem) /\ ~Unsupported(problem) /\ PrepareAccepts(problem)
    /\ BeginPacking(SearchSpace(problem), Min(problem.pools), 0)
    /\ metrics' = [metrics EXCEPT !.auxiliary = Len(auxiliary'), !.attempts = 1]
    /\ UNCHANGED <<problem, status, fits, allFit, placed>>

-----------------------------------------------------------------------------
(***************************************************************************)
(* PackPool.  Both its loops over pool_nodes, the one that gives a class   *)
(* its first offset and the one that shifts the neighbours of the lowest   *)
(* class, visit the classes in todo by increasing representative.          *)
(***************************************************************************)
First == CHOOSE c \in todo : \A d \in todo : Min(c) <= Min(d)

Visit == phase = "loop" /\ todo # {}

\* The first offset of a class is looked for from address zero.
StartAtZero ==
    /\ Visit /\ lowest = {}
    /\ at' = 0 /\ phase' = "avoid"
    /\ UNCHANGED <<problem, graph, fits, offset, finalized, lowest, todo, answer>>

MustShift(c) == \E l \in lowest : c \notin finalized /\ Interferes(l, c) /\ Overlap(l, c)

LeaveInPlace ==
    /\ Visit /\ lowest # {} /\ ~MustShift(First)
    /\ todo' = todo \ {First}
    /\ UNCHANGED <<problem, phase, graph, fits, offset, finalized, lowest, at, answer>>

Above == CHOOSE x \in {offset[l] + Size(l) : l \in lowest} : TRUE

\* Mutant of AboveLowest: the class is put above its own old end.
AboveItself(c) == AlignUp(offset[c] + Size(c), Alignment(c))

AboveLowest(c) == AlignUp(Above, Alignment(c))

ShiftAbove ==
    /\ Visit /\ MustShift(First)
    /\ AboveLowest(First) <= MaxUInt
    /\ at' = AboveLowest(First) /\ phase' = "avoid"
    /\ UNCHANGED <<problem, graph, fits, offset, finalized, lowest, todo, answer>>

\* The largest address stands for "no offset".
Settle(value) ==
    /\ offset' = [offset EXCEPT ![First] = value]
    /\ todo' = todo \ {First}
    /\ phase' = "loop"
    /\ UNCHANGED <<problem, graph, fits, finalized, lowest, at, answer>>

LoseAbove ==
    /\ Visit /\ MustShift(First)
    /\ AboveLowest(First) > MaxUInt
    /\ Settle(MaxUInt)

\* Reserved ranges AvoidReservedRanges meets at its offset.  It takes the first
\* of them in the order of the pool's list, which the model does not keep.
Hit == {r \in problem.reserved[poolId] :
           AddressRangesOverlap(at, Size(First), r[1], r[2] - r[1])}

\* Mutant of Past: the class is moved to the begin of the range it hit.
PastBegin(r) == AlignUp(r[1], Alignment(First))

Past(r) == AlignUp(r[2], Alignment(First))

AvoidReserved ==
    /\ phase = "avoid"
    /\ \E r \in Hit : Past(r) <= MaxUInt /\ at' = Past(r)
    /\ UNCHANGED <<problem, phase, graph, fits, offset, finalized, lowest, todo, answer>>

LoseReserved ==
    /\ phase = "avoid"
    /\ \E r \in Hit : Past(r) > MaxUInt
    /\ Settle(MaxUInt)

Legal ==
    /\ phase = "avoid" /\ Hit = {}
    /\ Settle(at)

\* The comparator of std::min_element, on the classes that are not fixed.
PackedBefore(c, d) ==
    \/ offset[c] < offset[d]
    \/ /\ offset[c] = offset[d]
       /\ \/ Degree(c) > Degree(d)
          \/ Degree(c) = Degree(d) /\ Size(c) > Size(d)
          \/ Degree(c) = Degree(d) /\ Size(c) = Size(d) /\ Min(c) < Min(d)

Unfixed == poolNodes \ finalized

Selected == CHOOSE c \in Unfixed : \A d \in Unfixed \ {c} : PackedBefore(c, d)

Fix ==
    /\ phase = "loop" /\ todo = {} /\ Unfixed # {}
    /\ ~AddOverflows(offset[Selected], Size(Selected))
    /\ lowest' = {Selected}
    /\ finalized' = finalized \cup {Selected}
    /\ todo' = poolNodes
    /\ UNCHANGED <<problem, phase, graph, fits, offset, at, answer>>

\* The early return of PackPool: the lowest class runs past the address space.
GiveUp ==
    /\ phase = "loop" /\ todo = {} /\ Unfixed # {}
    /\ AddOverflows(offset[Selected], Size(Selected))
    /\ finalized' = finalized \cup {Selected}
    /\ fits' = FALSE /\ phase' = "packed"
    /\ UNCHANGED <<problem, graph, offset, lowest, todo, at, answer>>

PackedPeak == Max({0} \cup {offset[c] + Size(c) : c \in poolNodes})

Packed ==
    /\ phase = "loop" /\ todo = {} /\ Unfixed = {}
    /\ fits' = (PackedPeak <= problem.capacity[poolId])
    /\ phase' = "packed"
    /\ UNCHANGED <<problem, graph, sweep, answer>>

-----------------------------------------------------------------------------
(***************************************************************************)
(* The relaxation loop of Solve and its answer                             *)
(***************************************************************************)
Relax ==
    /\ phase = "packed" /\ ~fits /\ relaxed < Len(auxiliary)
    /\ BeginPacking(space, poolId, relaxed + 1)
    /\ metrics' = [metrics EXCEPT !.attempts = @ + 1]
    /\ UNCHANGED <<problem, fits, status, allFit, placed>>

\* Mutant of Aliases: every deleted edge counts.
AliasesDeleted == relaxed

\* The deleted edges whose ends share addresses in the packing that is kept.
Aliases ==
    Cardinality({i \in 1..relaxed : Overlap(auxiliary[i][1], auxiliary[i][2])})

\* Mutant of AllFitSoFar: the last pool decides.
LastFits == fits

AllFitSoFar == allFit /\ fits

PoolDone == fits \/ relaxed = Len(auxiliary)

KeepPacking ==
    /\ phase = "packed" /\ PoolDone
    /\ placed' = placed @@ offset
    /\ allFit' = AllFitSoFar
    /\ UNCHANGED <<problem, fits, status>>

Later == {q \in problem.pools : q > poolId}

NextPool ==
    /\ KeepPacking
    /\ Later # {} /\ BeginPacking(space, Min(Later), 0)
    /\ metrics' = [auxiliary |-> metrics.auxiliary + Len(auxiliary'),
                   relaxed |-> metrics.relaxed + relaxed,
                   aliases |-> metrics.aliases + Aliases,
                   attempts |-> metrics.attempts + 1]

LastPool ==
    /\ KeepPacking
    /\ Later = {} /\ phase' = "validate"
    /\ metrics' = [metrics EXCEPT !.relaxed = @ + relaxed, !.aliases = @ + Aliases]
    /\ UNCHANGED <<graph, sweep>>

Solution == SolutionOf(problem, placed)

Answer ==
    /\ phase = "validate"
    /\ phase' = "done"
    /\ status' = IF ~ValidSolution(WithoutCapacities(problem), Solution) THEN "kInvalidProblem"
                 ELSE IF allFit THEN "kFeasible" ELSE "kBestEffortNoFit"
    /\ UNCHANGED <<problem, graph, fits, sweep, allFit, placed, metrics>>

Done == phase = "done" /\ UNCHANGED vars

Next ==
    \/ Reject \/ Begin
    \/ StartAtZero \/ LeaveInPlace \/ ShiftAbove \/ LoseAbove
    \/ AvoidReserved \/ LoseReserved \/ Legal
    \/ Fix \/ GiveUp \/ Packed
    \/ Relax \/ NextPool \/ LastPool \/ Answer
    \/ Done

\* Solve runs on one thread and never waits.
Spec == Init /\ [][Next]_vars /\ WF_vars(Next)

-----------------------------------------------------------------------------
(***************************************************************************)
(* Invariants of the sweep                                                 *)
(***************************************************************************)
Statuses == {"kFeasible", "kBestEffortNoFit", "kUnsupported", "kInvalidProblem"}

\* The variables have the types of the code; a packing is of one pool.
TypeOK ==
    /\ problem \in Problems
    /\ phase \in {"check", "loop", "avoid", "packed", "validate", "done"}
    /\ status \in {"running"} \cup Statuses
    /\ status = "running" <=> phase # "done"
    /\ pool \subseteq problem.pools /\ Cardinality(pool) <= 1
    /\ relaxed \in Nat /\ at \in 0..MaxUInt
    /\ \A c \in DOMAIN offset : offset[c] \in 0..MaxUInt
    /\ \A c \in DOMAIN placed : placed[c] \in 0..MaxUInt
    /\ finalized \subseteq DOMAIN offset
    /\ lowest \subseteq finalized /\ Cardinality(lowest) <= 1
    /\ todo \subseteq DOMAIN offset
    /\ phase = "avoid" => todo # {}
    /\ fits \in BOOLEAN /\ allFit \in BOOLEAN
    /\ DOMAIN metrics = DOMAIN InitialMetrics
    /\ \A m \in DOMAIN metrics : metrics[m] \in Nat

Sweeping == phase \in {"loop", "avoid", "packed"}

\* Classes whose loop of the moment is done with them.
Visited == IF Sweeping /\ lowest = {} THEN DOMAIN offset \ todo ELSE DOMAIN offset

\* Classes that were not moved past the end of the address space.
InRange == {c \in DOMAIN offset : ~AddOverflows(offset[c], Size(c))}

\* The sweep only goes up: a class that is not fixed lies no lower than any
\* fixed one, so nothing below the lowest class ever changes again.
SweepGoesUp ==
    Sweeping => \A f \in finalized, c \in DOMAIN offset \ finalized : offset[f] <= offset[c]

\* A fixed class is clear of all its neighbours, the unfixed ones included,
\* except for those the running loop has still to shift above it.
FixedAreClear ==
    Sweeping =>
        \A f \in finalized \cap InRange : \A c \in InRange \ {f} :
            Interferes(f, c) /\ Overlap(f, c) => f \in lowest /\ c \in todo \ finalized

\* Every offset a class is left at is aligned and avoids the reserved ranges.
OffsetsAreLegal ==
    Sweeping =>
        \A c \in Visited \cap InRange :
            /\ Aligned(offset[c], Alignment(c))
            /\ \A r \in problem.reserved[poolId] :
                  ~AddressRangesOverlap(offset[c], Size(c), r[1], r[2] - r[1])

\* A class is no higher than it has to be: it starts at the first legal offset
\* of the pool or right above a fixed neighbour, up to alignment and reserved
\* ranges.
OffsetsAreSupported ==
    Sweeping =>
        \A c \in Visited \cap InRange :
            \E base \in {0} \cup {offset[f] + Size(f) : f \in {g \in finalized : Interferes(g, c)}} :
                /\ base <= offset[c]
                /\ \A x \in base..(offset[c] - 1) :
                      Aligned(x, Alignment(c)) =>
                          \E r \in problem.reserved[poolId] :
                              AddressRangesOverlap(x, Size(c), r[1], r[2] - r[1])

\* The packing in progress: what is fixed stays clear, legal and tight.
IInv ==
    /\ TypeOK
    /\ SweepGoesUp
    /\ FixedAreClear
    /\ OffsetsAreLegal
    /\ OffsetsAreSupported

-----------------------------------------------------------------------------
(***************************************************************************)
(* What the solver promises                                                *)
(***************************************************************************)
Placeable == ValidProblem(problem) /\ ~Unsupported(problem) /\ PrepareAccepts(problem)

AliasedPairs ==
    UNION {{e \in ClassPairs(space, q) : AddressRangesOverlap(placed[e[1]], Size(e[1]),
                                                       placed[e[2]], Size(e[2]))} :
              q \in problem.pools}

\* kFeasible is said only of solutions the validator accepts with their
\* capacities, kBestEffortNoFit only of solutions that exceed one; a problem
\* the solver takes on is never called invalid or unsupported.
AnswersExactly ==
    phase = "done" /\ Placeable =>
        /\ status \in {"kFeasible", "kBestEffortNoFit"}
        /\ status = "kFeasible" <=> ValidSolution(problem, Solution)

\* Pools without reserved ranges and alignments, which hold their classes side
\* by side.
RoomForAll(q) ==
    /\ problem.reserved[q] = {}
    /\ \A c \in Nodes(space, q) : Alignment(c) = 1
    /\ MapThenSumSet(Size, Nodes(space, q)) <= problem.capacity[q]

\* The metric actual_alias_pairs is the number of pairs of classes that share
\* addresses in the solution, though it looks at deleted edges only; and a pool
\* with room for all its classes side by side has none: reuse is bought only
\* where the capacity asks for it.
AliasesAreCounted ==
    phase = "done" /\ Placeable =>
        /\ metrics.aliases = Cardinality(AliasedPairs)
        /\ metrics.aliases <= metrics.relaxed /\ metrics.relaxed <= metrics.auxiliary
        /\ \A q \in problem.pools : RoomForAll(q) => AliasedPairs \cap ClassPairs(space, q) = {}

\* The packer repeats its steps until all allocations are fixed: a problem the
\* solver takes on ends with a placement, whether or not it fits.
EndsWithPlacement ==
    Placeable ~> status \in {"kFeasible", "kBestEffortNoFit"}
=============================================================================
