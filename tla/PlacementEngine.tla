-------------------------- MODULE PlacementEngine --------------------------
(***************************************************************************)
(* The shared placement engine of src/dsa/algorithms/placement_engine  *)
(* .cpp: Prepare contracts the colocation classes of a problem, and        *)
(* PlaceWithOrder places them one at a time, the pinned ones first, by a   *)
(* scan over the address ranges that are already blocked.  Every heuristic *)
(* solver of the framework is a choice of the priority list given to this  *)
(* engine.                                                                 *)
(*                                                                         *)
(* A class is the set of its member buffers.  The two scans, FindFirstFit  *)
(* and FindBestFit, are modelled range by range in the order of their sort.*)
(* The variables of GreedyPlacement are kept and refined by more.          *)
(***************************************************************************)
EXTENDS GreedyPlacement

CONSTANTS Problems,     \* the problems the engine may be called with
          Priorities    \* the priority lists it may be given

ASSUME ProblemsAssumption == \A p \in Problems : ProblemTyped(p)

VARIABLES
    priority,   \* the priority list of PlaceWithOrder
    phase,      \* where PlaceWithOrder stands
    current,    \* the class being placed
    todo,       \* blocked ranges its scan has still to visit
    candidate,  \* first fit: candidate;  best fit: free_begin
    hole        \* best fit: {} or {[offset, size]}, the best finite chunk

scan == <<current, todo, candidate, hole>>
input == <<problem, priority, strategy>>
vars == <<input, phase, offset, scan, status>>

-----------------------------------------------------------------------------
(***************************************************************************)
(* SortedSuperOrder: ranked classes by rank, then larger sizes, then the   *)
(* tie-breaks of the strategy; pinned classes are moved to the front.      *)
(***************************************************************************)
Ranks(class) == {i \in DOMAIN priority : priority[i] \in class}

FirstBirth(class) == Min(UNION {{x[1] : x \in problem.live[b]} : b \in class})

LastDeath(class) == Max(UNION {{x[2] : x \in problem.live[b]} : b \in class})

LifetimeDuration(class) == LastDeath(class) - FirstBirth(class)

RanksBefore(first, second) ==
    \E i \in Ranks(first) : \A j \in Ranks(second) : i < j

LargerFirst(first, second) ==
    LET size(c) == ClassSize(problem, c)
        key(c) == IF strategy = "kFirstFit" THEN FirstBirth(c) ELSE -LifetimeDuration(c)
    IN  \/ size(first) > size(second)
        \/ size(first) = size(second) /\ key(first) < key(second)
        \/ size(first) = size(second) /\ key(first) = key(second) /\ Min(first) < Min(second)

Before(first, second) ==
    \/ RanksBefore(first, second)
    \/ Ranks(first) = {} /\ Ranks(second) = {} /\ LargerFirst(first, second)

\* Mutant of Precedes: the pinned classes are not moved to the front.
PrecedesUnpartitioned(first, second) == Before(first, second)

Precedes(first, second) ==
    IF Pinned(problem, first) # Pinned(problem, second)
    THEN Pinned(problem, first)
    ELSE Before(first, second)

IsNext(class) == class \in Unplaced /\ \A d \in Unplaced \ {class} : Precedes(class, d)

-----------------------------------------------------------------------------
Size == ClassSize(problem, current)
Alignment == ClassAlignment(problem, current)

\* r is the next range of the sort by (begin, end).
IsNextRange(r) ==
    r \in todo /\ \A q \in todo : r[1] < q[1] \/ (r[1] = q[1] /\ r[2] <= q[2])

NoClass == {}

Init ==
    /\ problem \in Problems /\ priority \in Priorities /\ strategy \in Strategies
    /\ phase = "prepare"
    /\ offset = [c \in {} |-> 0]
    /\ current = NoClass /\ todo = {} /\ candidate = 0 /\ hole = {}
    /\ status = "none"

Finish(s) == phase' = "done" /\ status' = s

\* The early returns after Prepare.
Prepare ==
    /\ phase = "prepare"
    /\ IF ~PrepareAccepts(problem) THEN Finish("kInvalidProblem")
       ELSE IF FlexiblePools(problem) THEN Finish("kUnsupported")
       ELSE phase' = "place" /\ UNCHANGED status
    /\ UNCHANGED <<input, offset, scan>>

PlacePinned(class) ==
    /\ phase = "place" /\ IsNext(class) /\ Pinned(problem, class)
    /\ LET at == PinOf(problem, class).offset
       IN  IF AddOverflows(at, ClassSize(problem, class))
           THEN Finish("kInvalidProblem") /\ UNCHANGED offset
           ELSE offset' = Extend(offset, class, at) /\ UNCHANGED <<phase, status>>
    /\ UNCHANGED <<input, scan>>

StartScan(class) ==
    /\ phase = "place" /\ IsNext(class) /\ ~Pinned(problem, class)
    /\ current' = class /\ todo' = BlockedRanges(problem, offset, class)
    /\ candidate' = 0 /\ hole' = {}
    /\ phase' = "scan"
    /\ UNCHANGED <<input, offset, status>>

PlaceCurrent(at) ==
    /\ offset' = Extend(offset, current, at)
    /\ phase' = "place"
    /\ current' = NoClass /\ todo' = {} /\ candidate' = 0 /\ hole' = {}
    /\ UNCHANGED <<input, status>>

\* nullopt from the scan: address arithmetic overflow while placing a class.
GiveUp ==
    /\ Finish("kBestEffortNoFit")
    /\ UNCHANGED <<input, offset, scan>>

-----------------------------------------------------------------------------
(***************************************************************************)
(* FindFirstFit                                                            *)
(***************************************************************************)
FirstFitScanning == phase = "scan" /\ strategy = "kFirstFit"

\* Mutant of FirstFitAdvance: the loop does not go on to the next range.
FirstFitAdvanceStuck(r) ==
    /\ FirstFitScanning /\ IsNextRange(r)
    /\ ~AddOverflows(candidate, Size)
    /\ r[1] < candidate + Size
    /\ LET next == IF r[2] > candidate THEN AlignUp(r[2], Alignment) ELSE candidate
       IN  IF next > MaxUInt THEN GiveUp
           ELSE /\ candidate' = next
                /\ UNCHANGED <<input, phase, offset, current, todo, hole, status>>

FirstFitAdvance(r) ==
    /\ FirstFitScanning /\ IsNextRange(r)
    /\ ~AddOverflows(candidate, Size)
    /\ r[1] < candidate + Size
    /\ LET next == IF r[2] > candidate THEN AlignUp(r[2], Alignment) ELSE candidate
       IN  IF next > MaxUInt THEN GiveUp
           ELSE /\ candidate' = next /\ todo' = todo \ {r}
                /\ UNCHANGED <<input, phase, offset, current, hole, status>>

FirstFitAccept ==
    /\ FirstFitScanning
    /\ ~AddOverflows(candidate, Size)
    /\ todo = {} \/ \E r \in todo : IsNextRange(r) /\ r[1] >= candidate + Size
    /\ PlaceCurrent(candidate)

FirstFitOverflow ==
    /\ FirstFitScanning /\ AddOverflows(candidate, Size) /\ GiveUp

-----------------------------------------------------------------------------
(***************************************************************************)
(* FindBestFit: the tightest finite chunk, the lowest of equals; the       *)
(* unbounded tail only when no finite chunk fits.                          *)
(***************************************************************************)
BestFitScanning == phase = "scan" /\ strategy = "kXlaSpatialBestFit"

\* Mutant of Tighter: the loosest chunk wins.
Looser(chunk) == \A best \in hole : chunk.size > best.size

Tighter(chunk) ==
    \A best \in hole :
        \/ chunk.size < best.size
        \/ chunk.size = best.size /\ chunk.offset < best.offset

\* Mutant of BestFitAdvance: free_begin is the end of the last range, not the
\* largest end.
BestFitAdvanceBack(r) ==
    /\ BestFitScanning /\ IsNextRange(r)
    /\ LET at == AlignUp(candidate, Alignment)
           chunk == [offset |-> at, size |-> r[1] - at]
           gap == r[1] > candidate
           fits == gap /\ at <= r[1] /\ Size <= r[1] - at
       IN  IF gap /\ at > MaxUInt THEN GiveUp
           ELSE /\ hole' = IF fits /\ Tighter(chunk) THEN {chunk} ELSE hole
                /\ candidate' = r[2]
                /\ todo' = todo \ {r}
                /\ UNCHANGED <<input, phase, offset, current, status>>

BestFitAdvance(r) ==
    /\ BestFitScanning /\ IsNextRange(r)
    /\ LET at == AlignUp(candidate, Alignment)
           chunk == [offset |-> at, size |-> r[1] - at]
           gap == r[2] > candidate /\ r[1] > candidate
           fits == gap /\ at <= r[1] /\ Size <= r[1] - at
       IN  IF gap /\ at > MaxUInt THEN GiveUp
           ELSE /\ hole' = IF fits /\ Tighter(chunk) THEN {chunk} ELSE hole
                /\ candidate' = IF r[2] > candidate THEN r[2] ELSE candidate
                /\ todo' = todo \ {r}
                /\ UNCHANGED <<input, phase, offset, current, status>>

BestFitAccept ==
    /\ BestFitScanning /\ todo = {}
    /\ IF hole # {} THEN \E best \in hole : PlaceCurrent(best.offset)
       ELSE LET at == AlignUp(candidate, Alignment)
            IN  IF AddOverflows(at, Size) THEN GiveUp ELSE PlaceCurrent(at)

-----------------------------------------------------------------------------
Judge ==
    /\ phase = "place" /\ Unplaced = {}
    /\ Finish(Verdict(problem, offset))
    /\ UNCHANGED <<input, offset, scan>>

Terminated == phase = "done" /\ UNCHANGED vars

Next ==
    \/ Prepare
    \/ \E class \in Unplaced : PlacePinned(class) \/ StartScan(class)
    \/ \E r \in todo : FirstFitAdvance(r) \/ BestFitAdvance(r)
    \/ FirstFitAccept
    \/ FirstFitOverflow
    \/ BestFitAccept
    \/ Judge
    \/ Terminated

Spec == Init /\ [][Next]_vars /\ WF_vars(Next)

-----------------------------------------------------------------------------
(***************************************************************************)
(* Properties                                                              *)
(***************************************************************************)
Statuses == Outcomes \cup {"none"}

\* Every variable has its type, and the variables of the scan are those of a
\* class that waits for a place.
TypeOK ==
    /\ strategy \in Strategies
    /\ phase \in {"prepare", "place", "scan", "done"}
    /\ DOMAIN offset \subseteq Classes(problem)
    /\ offset \in [DOMAIN offset -> 0..MaxUInt]
    /\ phase = "scan" => current \in Unplaced
    /\ todo \subseteq (0..MaxUInt) \X (0..MaxUInt)
    /\ candidate \in 0..MaxUInt
    /\ \A best \in hole : best.offset \in Nat /\ best.size \in Nat
    /\ status \in Statuses
    /\ status = "none" <=> phase # "done"

\* Classes that may not share addresses never do, at any moment of the
\* placement, unless both are pinned: the scans see every class placed before,
\* reserved ranges and exclusive pins included (PlaceWithOrder).
BlockersDisjoint ==
    \A c, d \in DOMAIN offset :
        c # d /\ Blocks(problem, c, d) /\ ~(Pinned(problem, c) /\ Pinned(problem, d))
            => \/ offset[c] + ClassSize(problem, c) <= offset[d]
               \/ offset[d] + ClassSize(problem, d) <= offset[c]

\* kInfeasibleProven is a proof: no assignment of pools and offsets to the
\* buffers satisfies the problem, even without its capacities.  The engine
\* reports it after one greedy placement, so only the pins can be at fault.
InfeasibleProvenSound ==
    status = "kInfeasibleProven" =>
        ~ \E sol \in [problem.buffers -> [pool : problem.pools, offset : 0..MaxUInt]] :
              ValidSolution(WithoutCapacities(problem), sol)

\* kFeasible is accepted by the validator with the capacities, buffer by buffer.
FeasibleIsValid ==
    status = "kFeasible" => ValidSolution(problem, SolutionOf(problem, offset))

\* Pinned classes are placed before all others (stable_partition in PlaceWithOrder), so
\* no scan overlooks a pin.
PinnedFirst ==
    (\E c \in DOMAIN offset : ~Pinned(problem, c))
        => \A d \in Unplaced : ~Pinned(problem, d)

\* A placed class fits in the address space; a pinned one is at its pin, and
\* any other is aligned for all its members and clear of the reserved ranges of
\* its pool.
PlacedAdmissible ==
    \A c \in DOMAIN offset :
        /\ offset[c] + ClassSize(problem, c) <= MaxUInt
        /\ Pinned(problem, c) => offset[c] = PinOf(problem, c).offset
        /\ ~Pinned(problem, c) =>
               /\ Aligned(offset[c], ClassAlignment(problem, c))
               /\ \A r \in problem.reserved[PoolOf(problem, c)] :
                      r[2] <= offset[c] \/ offset[c] + ClassSize(problem, c) <= r[1]

Blocked == BlockedRanges(problem, offset, current)

\* What a scan knows: it is past every range it has visited, and
\*   first fit: no offset below the candidate is admissible;
\*   best fit: the best chunk so far is admissible.
ScanInv ==
    phase = "scan" =>
        /\ todo \subseteq Blocked
        /\ ~Pinned(problem, current) /\ \A d \in Unplaced : ~Pinned(problem, d)
        /\ \A r \in Blocked \ todo : r[2] <= candidate
        /\ strategy = "kFirstFit" =>
               /\ Aligned(candidate, Alignment)
               /\ \A lower \in 0..(candidate - 1) :
                      ~Admissible(problem, offset, current, lower)
        /\ strategy = "kXlaSpatialBestFit" =>
               \A best \in hole : Admissible(problem, offset, current, best.offset)

\* The inductive invariant.
Accepted == phase \in {"place", "scan"} => PrepareAccepts(problem)

IInv ==
    /\ TypeOK /\ Accepted
    /\ BlockersDisjoint /\ PinnedFirst /\ PlacedAdmissible /\ ScanInv

\* The finite chunks of FindBestFit: the least aligned offset of a maximal free
\* interval that ends at a blocked range, and the bytes from there to that range.
FiniteChunks ==
    LET blocked == BlockedRanges(problem, offset, current)
        free(v) == \A r \in blocked : v < r[1] \/ r[2] <= v
        starts == {v \in 0..MaxUInt : free(v) /\ (v = 0 \/ ~free(v - 1))}
        next(v) == {r[1] : r \in {q \in blocked : q[1] >= v}}
    IN  {[offset |-> AlignUp(v, Alignment), size |-> Min(next(v)) - AlignUp(v, Alignment)] :
            v \in {w \in starts : next(w) # {} /\ AlignUp(w, Alignment) + Size <= Min(next(w))}}

\* A best-fit placement takes the tightest finite chunk, the lowest of equals,
\* and the unbounded tail only when no finite chunk fits (FindBestFit).
TightestChunk ==
    [][BestFitScanning /\ phase' = "place" =>
          LET at == offset'[current]
          IN  IF FiniteChunks = {}
              THEN \A r \in BlockedRanges(problem, offset, current) : r[2] <= at
              ELSE \E c \in FiniteChunks :
                       /\ c.offset = at
                       /\ \A o \in FiniteChunks :
                              c.size < o.size \/ (c.size = o.size /\ c.offset <= o.offset)]_vars

\* "The final free chunk is unbounded, so every finite fitting chunk wins over
\* it" (FindBestFit): a class with a fitting finite chunk is placed.
FiniteChunkWins ==
    status = "kBestEffortNoFit" /\ strategy = "kXlaSpatialBestFit" /\ Unplaced # {}
        => FiniteChunks = {}

\* The engine implements greedy placement: whatever its scans do, each class
\* lands on an admissible offset, the lowest under first fit, and first fit
\* gives up only on a class that fits nowhere.
ImplementsGreedy == GreedySpec

\* Every call returns.
Terminates == <>(phase = "done")
=============================================================================
