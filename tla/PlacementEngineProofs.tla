----------------------- MODULE PlacementEngineProofs -----------------------
(***************************************************************************)
(* Safety of the placement engine for every set of problems, every width   *)
(* of the address space and every priority list.  IInv is inductive; the   *)
(* steps of the engine are steps of greedy placement.                      *)
(***************************************************************************)
EXTENDS PlacementEngine, DsaModelProofs

\* The problem is one of Problems: the arguments of a call never change.
Inv == problem \in Problems /\ IInv

\* What the validator requires of the fields, for an accepted problem.
LEMMA AcceptedFields ==
    ASSUME problem \in Problems, PrepareAccepts(problem)
    PROVE  /\ ProblemTyped(problem) /\ KnownColocations(problem)
           /\ \A b \in problem.buffers :
                  /\ problem.size[b] # 0 /\ problem.alignment[b] # 0
                  /\ problem.allowed[b] \subseteq problem.pools
           /\ \A pin \in problem.pins :
                  /\ pin.buffer \in problem.buffers
                  /\ pin.pool \in problem.pools \cap problem.allowed[pin.buffer]
<1>1. ProblemTyped(problem) /\ ValidProblem(problem)
  BY ProblemsAssumption DEF PrepareAccepts
<1> QED
  BY <1>1 DEF ValidProblem, ValidBuffer, ValidPin, KnownColocations

\* A pinned class has a pin, and the pool of a class is one of the problem's.
LEMMA PoolAndPin ==
    ASSUME problem \in Problems, PrepareAccepts(problem), NEW c \in Classes(problem)
    PROVE  /\ Pinned(problem, c) =>
                  /\ PinOf(problem, c) \in problem.pins /\ PinOf(problem, c).buffer \in c
                  /\ PoolOf(problem, c) = PinOf(problem, c).pool
           /\ ~Pinned(problem, c) => PoolOf(problem, c) \in ClassPools(problem, c)
           /\ PoolOf(problem, c) \in problem.pools
<1>1. ASSUME Pinned(problem, c)
      PROVE  /\ PinOf(problem, c) \in problem.pins /\ PinOf(problem, c).buffer \in c
             /\ PoolOf(problem, c) = PinOf(problem, c).pool
  <2>1. PinOf(problem, c) \in ClassPins(problem, c)
    BY <1>1 DEF Pinned, PinOf
  <2> QED
    BY <1>1, <2>1 DEF ClassPins, PoolOf
<1>2. ~Pinned(problem, c) => PoolOf(problem, c) \in ClassPools(problem, c)
  BY DEF PrepareAccepts, PoolOf
<1> QED
  BY <1>1, <1>2, AcceptedFields DEF ClassPools

\* The attributes of the classes of an accepted problem.
LEMMA Attributes ==
    ASSUME problem \in Problems, PrepareAccepts(problem),
           NEW c \in Classes(problem)
    PROVE  /\ ClassSize(problem, c) \in Nat \ {0}
           /\ ClassAlignment(problem, c) \in Nat \ {0}
           /\ problem.reserved[PoolOf(problem, c)] \subseteq (0..MaxUInt) \X (0..MaxUInt)
           /\ Pinned(problem, c) => PinOf(problem, c).offset \in 0..MaxUInt
<1>1. c # {} /\ c \in SUBSET problem.buffers /\ ProblemTyped(problem)
  BY AcceptedFields, ClassIsOfMember
<1>2. \A b \in c : problem.size[b] # 0 /\ problem.alignment[b] # 0
  BY <1>1, AcceptedFields
<1>3. ClassSize(problem, c) \in Nat \ {0}
  BY <1>1, <1>2, ClassSizeLargest, MaxUIntAssumption
<1>4. ClassAlignment(problem, c) \in Nat \ {0}
  BY <1>1, <1>2, ClassAlignmentDivides
<1> QED
  BY <1>1, <1>3, <1>4, PoolAndPin DEF ProblemTyped

\* Blocked ranges are pairs of words.
LEMMA BlockedTyped ==
    ASSUME Inv, PrepareAccepts(problem), NEW c \in Classes(problem)
    PROVE  BlockedRanges(problem, offset, c) \subseteq (0..MaxUInt) \X (0..MaxUInt)
<1> SUFFICES ASSUME NEW r \in BlockedRanges(problem, offset, c)
             PROVE  r \in (0..MaxUInt) \X (0..MaxUInt)
  OBVIOUS
<1>1. CASE r \in problem.reserved[PoolOf(problem, c)]
  BY <1>1, Attributes DEF Inv
<1>2. CASE r \notin problem.reserved[PoolOf(problem, c)]
  <2>1. PICK d \in DOMAIN offset : r = <<offset[d], offset[d] + ClassSize(problem, d)>>
    BY <1>2 DEF BlockedRanges
  <2>2. offset[d] \in 0..MaxUInt /\ d \in Classes(problem)
    BY <2>1 DEF Inv, IInv, TypeOK
  <2>3. offset[d] + ClassSize(problem, d) \in 0..MaxUInt
    BY <2>1, <2>2, Attributes, MaxUIntAssumption DEF Inv, IInv, PlacedAdmissible
  <2> QED
    BY <2>1, <2>2, <2>3
<1> QED
  BY <1>1, <1>2

\* The invariant holds when PlaceWithOrder is called.
THEOREM InitInv == Init => Inv
<1> SUFFICES ASSUME Init PROVE Inv
  OBVIOUS
<1>1. DOMAIN offset = {}
  BY DEF Init
<1>2. TypeOK
  BY <1>1, MaxUIntAssumption DEF Init, TypeOK, Statuses, Outcomes, NoClass
<1> QED
  BY <1>1, <1>2 DEF Init, Inv, IInv, Accepted, BlockersDisjoint, PinnedFirst,
                    PlacedAdmissible, ScanInv

-----------------------------------------------------------------------------
(***************************************************************************)
(* Placing a class                                                         *)
(***************************************************************************)
\* What is known of an offset when PlaceWithOrder stores it.
GoodPlace(class, at) ==
    /\ at \in 0..MaxUInt
    /\ IF Pinned(problem, class)
       THEN /\ at = PinOf(problem, class).offset /\ at + ClassSize(problem, class) <= MaxUInt
            /\ \A d \in DOMAIN offset : Pinned(problem, d)
       ELSE /\ Admissible(problem, offset, class, at)
            /\ \A d \in Unplaced : ~Pinned(problem, d)

\* The class just placed is clear of every placed class that blocks it.
LEMMA NewClassDisjoint ==
    ASSUME Inv, PrepareAccepts(problem), NEW class \in Unplaced, NEW at,
           GoodPlace(class, at), NEW d \in DOMAIN offset,
           Blocks(problem, class, d),
           ~(Pinned(problem, class) /\ Pinned(problem, d))
    PROVE  \/ at + ClassSize(problem, class) <= offset[d]
           \/ offset[d] + ClassSize(problem, d) <= at
<1>1. ~Pinned(problem, class) /\ Admissible(problem, offset, class, at)
  BY DEF GoodPlace
<1>2. <<offset[d], offset[d] + ClassSize(problem, d)>> \in BlockedRanges(problem, offset, class)
  BY DEF BlockedRanges
<1> QED
  BY <1>1, <1>2 DEF Admissible, Clear

\* Storing a good offset keeps the placement disjoint, admissible and pinned
\* first.
LEMMA PlacingSafe ==
    ASSUME Inv, PrepareAccepts(problem), problem' = problem,
           NEW class \in Unplaced, NEW at, GoodPlace(class, at),
           offset' = Extend(offset, class, at)
    PROVE  /\ DOMAIN offset' \subseteq Classes(problem)
           /\ offset' \in [DOMAIN offset' -> 0..MaxUInt]
           /\ BlockersDisjoint' /\ PinnedFirst' /\ PlacedAdmissible'
<1> DEFINE placed == DOMAIN offset
<1>1. DOMAIN offset' = placed \cup {class}
  BY DEF Extend
<1>2. offset'[class] = at /\ \A d \in placed : offset'[d] = offset[d]
  BY DEF Extend, Unplaced
<1>3. class \in Classes(problem) /\ class \notin placed
  BY DEF Unplaced
<1>4. at \in 0..MaxUInt
  BY DEF GoodPlace
<1>5. placed \subseteq Classes(problem) /\ offset \in [placed -> 0..MaxUInt]
  BY DEF Inv, IInv, TypeOK
<1>6. offset' \in [DOMAIN offset' -> 0..MaxUInt]
  BY <1>2, <1>3, <1>4, <1>5 DEF Extend
<1>7. BlockersDisjoint'
  <2> SUFFICES ASSUME NEW c \in placed \cup {class}, NEW d \in placed \cup {class},
                      c # d, Blocks(problem, c, d),
                      ~(Pinned(problem, c) /\ Pinned(problem, d))
               PROVE  \/ offset'[c] + ClassSize(problem, c) <= offset'[d]
                      \/ offset'[d] + ClassSize(problem, d) <= offset'[c]
    BY <1>1 DEF BlockersDisjoint
  <2>1. CASE c \in placed /\ d \in placed
    BY <1>2, <2>1 DEF Inv, IInv, BlockersDisjoint
  <2>2. CASE c = class
    BY <1>2, <1>3, <2>2, NewClassDisjoint
  <2>3. CASE d = class
    BY <1>2, <1>3, <2>3, NewClassDisjoint, BlocksSymmetric
  <2> QED
    BY <2>1, <2>2, <2>3
<1>8. PinnedFirst'
  <2>1. Unplaced' = Unplaced \ {class}
    BY <1>1 DEF Unplaced
  <2>2. CASE Pinned(problem, class)
    BY <1>1, <2>2 DEF PinnedFirst, GoodPlace
  <2>3. CASE ~Pinned(problem, class)
    BY <2>1, <2>3 DEF PinnedFirst, GoodPlace
  <2> QED
    BY <2>2, <2>3
<1>9. PlacedAdmissible'
  <2> SUFFICES ASSUME NEW c \in placed \cup {class}
               PROVE  /\ offset'[c] + ClassSize(problem, c) <= MaxUInt
                      /\ Pinned(problem, c) => offset'[c] = PinOf(problem, c).offset
                      /\ ~Pinned(problem, c) =>
                            /\ Aligned(offset'[c], ClassAlignment(problem, c))
                            /\ \A r \in problem.reserved[PoolOf(problem, c)] :
                                  \/ r[2] <= offset'[c]
                                  \/ offset'[c] + ClassSize(problem, c) <= r[1]
    BY <1>1 DEF PlacedAdmissible
  <2>1. CASE c \in placed
    BY <1>2, <2>1 DEF Inv, IInv, PlacedAdmissible
  <2>2. CASE c = class
    BY <1>2, <2>2 DEF GoodPlace, Admissible, Clear, BlockedRanges
  <2> QED
    BY <2>1, <2>2
<1> QED
  BY <1>1, <1>3, <1>5, <1>6, <1>7, <1>8, <1>9

-----------------------------------------------------------------------------
(***************************************************************************)
(* The scans                                                               *)
(***************************************************************************)
\* The class of a running scan, and what it may rely on.
LEMMA Scanning ==
    ASSUME Inv, phase = "scan"
    PROVE  /\ PrepareAccepts(problem) /\ current \in Unplaced /\ current \in Classes(problem)
           /\ Size \in Nat \ {0} /\ Alignment \in Nat \ {0} /\ candidate \in 0..MaxUInt
           /\ Blocked \subseteq (0..MaxUInt) \X (0..MaxUInt) /\ todo \subseteq Blocked
           /\ ~Pinned(problem, current) /\ \A d \in Unplaced : ~Pinned(problem, d)
           /\ \A r \in Blocked \ todo : r[2] <= candidate
           /\ status = "none"
<1>1. PrepareAccepts(problem) /\ current \in Unplaced /\ candidate \in 0..MaxUInt
      /\ status = "none"
  BY DEF Inv, IInv, Accepted, TypeOK
<1>2. current \in Classes(problem)
  BY <1>1 DEF Unplaced
<1>3. Size \in Nat \ {0} /\ Alignment \in Nat \ {0}
  BY <1>1, <1>2, Attributes DEF Inv, Size, Alignment
<1>4. Blocked \subseteq (0..MaxUInt) \X (0..MaxUInt)
  BY <1>1, <1>2, BlockedTyped DEF Blocked
<1> QED
  BY <1>1, <1>2, <1>3, <1>4 DEF Inv, IInv, ScanInv

\* Visiting a range moves the first-fit candidate past inadmissible offsets only.
LEMMA SkippedInadmissible ==
    ASSUME Inv, phase = "scan", strategy = "kFirstFit", NEW r \in todo,
           r[1] < candidate + Size, r[2] > candidate,
           NEW lower \in Nat, lower < AlignUp(r[2], Alignment)
    PROVE  ~Admissible(problem, offset, current, lower)
<1>1. r \in Blocked /\ r[1] \in 0..MaxUInt /\ r[2] \in 0..MaxUInt
  BY Scanning
<1>2. CASE lower < candidate
  BY <1>2, Scanning DEF Inv, IInv, ScanInv
<1>3. CASE lower >= candidate
  <2> SUFFICES ASSUME Admissible(problem, offset, current, lower) PROVE FALSE
    OBVIOUS
  <2>1. Aligned(lower, Alignment)
    BY DEF Admissible, Alignment
  <2>2. lower < r[2]
    <3>1. Alignment \in Nat \ {0} /\ r[2] \in Nat
      BY <1>1, Scanning
    <3>2. /\ AlignUp(r[2], Alignment) \in Nat
          /\ \A w \in Nat : w >= r[2] /\ Aligned(w, Alignment) => w >= AlignUp(r[2], Alignment)
      BY <3>1, AlignUpLeast
    <3> QED
      BY <2>1, <3>1, <3>2
  <2>3. r[2] <= lower \/ lower + Size <= r[1]
    BY <1>1 DEF Admissible, Clear, Blocked, Size
  <2> QED
    BY <1>1, <1>3, <2>2, <2>3, Scanning
<1> QED
  BY <1>2, <1>3, Scanning

\* Every range still to visit begins at or after the next range of the sort.
LEMMA RestBeginsLater ==
    ASSUME Inv, phase = "scan", NEW r, IsNextRange(r), NEW q \in todo
    PROVE  r[1] <= q[1]
  BY Scanning DEF IsNextRange

\* The offset FindFirstFit returns is admissible, and it is the lowest.
LEMMA FirstFitGood ==
    ASSUME Inv, FirstFitScanning, ~AddOverflows(candidate, Size),
           todo = {} \/ \E r \in todo : IsNextRange(r) /\ r[1] >= candidate + Size
    PROVE  /\ GoodPlace(current, candidate)
           /\ \A lower \in 0..(candidate - 1) : ~Admissible(problem, offset, current, lower)
<1>1. phase = "scan" /\ strategy = "kFirstFit"
  BY DEF FirstFitScanning
<1>2. \A q \in todo : candidate + Size <= q[1]
  BY <1>1, RestBeginsLater, Scanning
<1>3. \A q \in Blocked : q[2] <= candidate \/ candidate + Size <= q[1]
  BY <1>1, <1>2, Scanning
<1>4. Aligned(candidate, Alignment)
  BY <1>1 DEF Inv, IInv, ScanInv
<1>5. candidate + Size <= MaxUInt
  BY <1>1, Scanning, MaxUIntAssumption DEF AddOverflows
<1>6. Admissible(problem, offset, current, candidate)
  BY <1>3, <1>4, <1>5 DEF Admissible, Clear, Blocked, Size, Alignment
<1> QED
  BY <1>1, <1>6, Scanning DEF GoodPlace, Inv, IInv, ScanInv

\* Chunks that FindBestFit records are admissible.
LEMMA ChunkGood ==
    ASSUME Inv, BestFitScanning, NEW r, IsNextRange(r),
           NEW at, at = AlignUp(candidate, Alignment),
           at <= r[1], Size <= r[1] - at
    PROVE  Admissible(problem, offset, current, at)
<1>1. phase = "scan" /\ r \in todo /\ r[1] \in 0..MaxUInt
  BY Scanning DEF BestFitScanning, IsNextRange
<1>2. at \in Nat /\ at >= candidate /\ Aligned(at, Alignment)
  <2>1. candidate \in Nat /\ Alignment \in Nat \ {0}
    BY <1>1, Scanning
  <2> QED
    BY <2>1, AlignUpLeast
<1>3. at + Size <= r[1]
  BY <1>1, <1>2, Scanning
<1>4. \A q \in Blocked : q[2] <= at \/ at + Size <= q[1]
  <2> SUFFICES ASSUME NEW q \in Blocked PROVE q[2] <= at \/ at + Size <= q[1]
    OBVIOUS
  <2>1. q[1] \in 0..MaxUInt /\ q[2] \in 0..MaxUInt
    BY <1>1, Scanning
  <2>2. CASE q \in todo
    BY <1>1, <1>2, <1>3, <2>1, <2>2, RestBeginsLater, Scanning
  <2>3. CASE q \notin todo
    BY <1>1, <1>2, <2>1, <2>3, Scanning
  <2> QED
    BY <2>2, <2>3
<1> QED
  BY <1>1, <1>2, <1>3, <1>4, Scanning, MaxUIntAssumption
     DEF Admissible, Clear, Blocked, Size, Alignment

\* The offset FindBestFit returns is admissible.
LEMMA BestFitGood ==
    ASSUME Inv, BestFitScanning, todo = {}, NEW at,
           \/ \E best \in hole : at = best.offset
           \/ at = AlignUp(candidate, Alignment) /\ ~AddOverflows(at, Size)
    PROVE  GoodPlace(current, at)
<1>1. phase = "scan" /\ strategy = "kXlaSpatialBestFit"
  BY DEF BestFitScanning
<1>2. CASE \E best \in hole : at = best.offset
  <2>1. at \in Nat /\ Admissible(problem, offset, current, at)
    BY <1>1, <1>2 DEF Inv, IInv, TypeOK, ScanInv
  <2>2. at + Size <= MaxUInt
    BY <2>1 DEF Admissible, Size
  <2> QED
    BY <1>1, <2>1, <2>2, Scanning, MaxUIntAssumption DEF GoodPlace
<1>3. CASE at = AlignUp(candidate, Alignment) /\ ~AddOverflows(at, Size)
  <2>1. at \in Nat /\ at >= candidate /\ Aligned(at, Alignment)
    <3>1. candidate \in Nat /\ Alignment \in Nat \ {0}
      BY <1>1, Scanning
    <3> QED
      BY <1>3, <3>1, AlignUpLeast
  <2>2. at + Size <= MaxUInt
    BY <1>1, <1>3, <2>1, Scanning, MaxUIntAssumption DEF AddOverflows
  <2>3. \A q \in Blocked : q[2] <= at
    BY <1>1, <2>1, Scanning
  <2>4. Admissible(problem, offset, current, at)
    BY <2>1, <2>2, <2>3 DEF Admissible, Clear, Blocked, Size, Alignment
  <2> QED
    BY <1>1, <2>1, <2>2, <2>4, Scanning, MaxUIntAssumption DEF GoodPlace
<1> QED
  BY <1>2, <1>3

-----------------------------------------------------------------------------
(***************************************************************************)
(* IInv is inductive                                                       *)
(***************************************************************************)
\* The next class of the order is pinned as long as a pinned class waits.
LEMMA PinnedNext ==
    ASSUME Inv, NEW class, IsNext(class)
    PROVE  /\ class \in Unplaced /\ class \in Classes(problem)
           /\ Pinned(problem, class) => \A d \in DOMAIN offset : Pinned(problem, d)
           /\ ~Pinned(problem, class) => \A d \in Unplaced : ~Pinned(problem, d)
<1>1. class \in Unplaced /\ class \in Classes(problem)
  BY DEF IsNext, Unplaced
<1>2. ASSUME ~Pinned(problem, class), NEW d \in Unplaced PROVE ~Pinned(problem, d)
  <2>1. CASE d = class
    BY <1>2, <2>1
  <2>2. CASE d # class
    BY <1>2, <2>2 DEF IsNext, Precedes
  <2> QED
    BY <2>1, <2>2
<1>3. ASSUME Pinned(problem, class), NEW d \in DOMAIN offset PROVE Pinned(problem, d)
  BY <1>1, <1>3 DEF Inv, IInv, PinnedFirst
<1> QED
  BY <1>1, <1>2, <1>3

\* Ending the call keeps the invariant.
LEMMA FinishInv ==
    ASSUME Inv, phase # "done", NEW s \in Statuses \ {"none"}, Finish(s),
           UNCHANGED <<input, offset, scan>>
    PROVE  Inv'
<1>1. TypeOK'
  BY DEF Inv, IInv, TypeOK, Finish, input, scan, Statuses, Outcomes, Unplaced
<1>2. Accepted' /\ ScanInv'
  BY DEF Finish, Accepted, ScanInv
<1>3. BlockersDisjoint' /\ PinnedFirst' /\ PlacedAdmissible'
  BY DEF Inv, IInv, BlockersDisjoint, PinnedFirst, PlacedAdmissible, input, Unplaced
<1> QED
  BY <1>1, <1>2, <1>3 DEF Inv, IInv, input

LEMMA PlaceCurrentInv ==
    ASSUME Inv, phase = "scan", NEW at, GoodPlace(current, at), PlaceCurrent(at)
    PROVE  Inv'
<1>1. problem' = problem /\ strategy' = strategy /\ status' = status
  BY DEF PlaceCurrent, input
<1>2. /\ DOMAIN offset' \subseteq Classes(problem) /\ offset' \in [DOMAIN offset' -> 0..MaxUInt]
      /\ BlockersDisjoint' /\ PinnedFirst' /\ PlacedAdmissible'
  BY <1>1, Scanning, PlacingSafe DEF PlaceCurrent
<1>3. TypeOK'
  BY <1>1, <1>2, MaxUIntAssumption DEF Inv, IInv, TypeOK, PlaceCurrent, NoClass
<1>4. Accepted' /\ ScanInv'
  BY <1>1, Scanning DEF PlaceCurrent, Accepted, ScanInv
<1> QED
  BY <1>1, <1>2, <1>3, <1>4 DEF Inv, IInv

\* No step of the engine leaves the invariant.
THEOREM NextInv == Inv /\ [Next]_vars => Inv'
<1> SUFFICES ASSUME Inv, [Next]_vars PROVE Inv'
  OBVIOUS
<1>1. CASE Prepare
  <2>1. CASE ~PrepareAccepts(problem)
    BY <1>1, <2>1, FinishInv DEF Prepare, Statuses, Outcomes
  <2>2. CASE PrepareAccepts(problem) /\ FlexiblePools(problem)
    BY <1>1, <2>2, FinishInv DEF Prepare, Statuses, Outcomes
  <2>3. CASE PrepareAccepts(problem) /\ ~FlexiblePools(problem)
    <3>1. phase' = "place" /\ UNCHANGED <<input, offset, scan, status>>
      BY <1>1, <2>3 DEF Prepare
    <3>2. TypeOK'
      BY <1>1, <3>1 DEF Inv, IInv, TypeOK, Prepare, input, scan, Unplaced
    <3>3. Accepted' /\ ScanInv'
      BY <2>3, <3>1 DEF Accepted, ScanInv, input
    <3> QED
      BY <3>1, <3>2, <3>3 DEF Inv, IInv, BlockersDisjoint, PinnedFirst, PlacedAdmissible,
                              input, Unplaced
  <2> QED
    BY <2>1, <2>2, <2>3
<1>2. ASSUME NEW class \in Unplaced, PlacePinned(class) PROVE Inv'
  <2> DEFINE at == PinOf(problem, class).offset
  <2>1. /\ phase = "place" /\ IsNext(class) /\ Pinned(problem, class)
        /\ UNCHANGED <<input, scan>>
    BY <1>2 DEF PlacePinned
  <2>2. PrepareAccepts(problem) /\ class \in Classes(problem)
    BY <2>1, PinnedNext DEF Inv, IInv, Accepted
  <2>3. CASE AddOverflows(at, ClassSize(problem, class))
    BY <1>2, <2>1, <2>3, FinishInv DEF PlacePinned, Statuses, Outcomes
  <2>4. CASE ~AddOverflows(at, ClassSize(problem, class))
    <3>1. offset' = Extend(offset, class, at) /\ UNCHANGED <<phase, status>>
      BY <1>2, <2>4 DEF PlacePinned
    <3>2. GoodPlace(class, at)
      BY <2>1, <2>2, <2>4, PinnedNext, Attributes, MaxUIntAssumption
         DEF GoodPlace, AddOverflows, Inv
    <3>3. /\ DOMAIN offset' \subseteq Classes(problem) /\ offset' \in [DOMAIN offset' -> 0..MaxUInt]
          /\ BlockersDisjoint' /\ PinnedFirst' /\ PlacedAdmissible'
      BY <2>1, <2>2, <3>1, <3>2, PlacingSafe DEF input
    <3>4. TypeOK'
      BY <2>1, <3>1, <3>3 DEF Inv, IInv, TypeOK, input, scan
    <3>5. Accepted' /\ ScanInv'
      BY <2>1, <2>2, <3>1 DEF Accepted, ScanInv, input
    <3> QED
      BY <2>1, <3>3, <3>4, <3>5 DEF Inv, IInv, input
  <2> QED
    BY <2>3, <2>4
<1>3. ASSUME NEW class \in Unplaced, StartScan(class) PROVE Inv'
  <2>1. /\ phase = "place" /\ phase' = "scan" /\ ~Pinned(problem, class) /\ IsNext(class)
        /\ current' = class /\ todo' = BlockedRanges(problem, offset, class)
        /\ candidate' = 0 /\ hole' = {}
        /\ UNCHANGED <<input, offset, status>>
    BY <1>3 DEF StartScan
  <2>2. PrepareAccepts(problem) /\ class \in Classes(problem)
    BY <2>1, PinnedNext DEF Inv, IInv, Accepted
  <2>3. todo' \subseteq (0..MaxUInt) \X (0..MaxUInt)
    BY <2>1, <2>2, BlockedTyped
  <2>4. TypeOK'
    BY <1>3, <2>1, <2>3, MaxUIntAssumption DEF Inv, IInv, TypeOK, input, Unplaced
  <2>5. Blocked' = todo'
    BY <2>1 DEF Blocked, input
  <2>6. Aligned(candidate', Alignment')
    <3>1. Alignment' \in Nat \ {0}
      BY <2>1, <2>2, Attributes DEF Alignment, input, Inv
    <3> QED
      BY <2>1, <3>1, ZeroAligned
  <2>7. \A d \in Unplaced' : ~Pinned(problem', d)
    BY <2>1, PinnedNext DEF Unplaced, input
  <2>8. ScanInv'
    BY <2>1, <2>5, <2>6, <2>7 DEF ScanInv, input
  <2>9. Accepted'
    BY <2>1, <2>2 DEF Accepted, input
  <2> QED
    BY <2>1, <2>4, <2>8, <2>9 DEF Inv, IInv, BlockersDisjoint, PinnedFirst,
                                  PlacedAdmissible, input, Unplaced
<1>4. ASSUME NEW r \in todo, FirstFitAdvance(r) PROVE Inv'
  <2> DEFINE next == IF r[2] > candidate THEN AlignUp(r[2], Alignment) ELSE candidate
  <2>1. /\ phase = "scan" /\ strategy = "kFirstFit" /\ IsNextRange(r)
        /\ r[1] < candidate + Size /\ r \in Blocked
        /\ r[2] \in 0..MaxUInt /\ Alignment \in Nat \ {0} /\ candidate \in 0..MaxUInt
    BY <1>4, Scanning DEF FirstFitAdvance, FirstFitScanning
  <2>2. CASE next > MaxUInt
    BY <1>4, <2>1, <2>2, FinishInv DEF FirstFitAdvance, GiveUp, Statuses, Outcomes
  <2>3. CASE ~(next > MaxUInt)
    <3>1. /\ candidate' = next /\ todo' = todo \ {r}
          /\ UNCHANGED <<input, phase, offset, current, hole, status>>
      BY <1>4, <2>3 DEF FirstFitAdvance
    <3>2. next \in Nat /\ next >= candidate /\ next >= r[2] /\ Aligned(next, Alignment)
      <4>1. CASE r[2] > candidate
        <5>1. r[2] \in Nat
          BY <2>1
        <5>2. /\ AlignUp(r[2], Alignment) \in Nat /\ AlignUp(r[2], Alignment) >= r[2]
              /\ Aligned(AlignUp(r[2], Alignment), Alignment)
          BY <2>1, <5>1, AlignUpLeast
        <5> QED
          BY <2>1, <4>1, <5>2
      <4>2. CASE ~(r[2] > candidate)
        BY <2>1, <4>2 DEF Inv, IInv, ScanInv
      <4> QED
        BY <4>1, <4>2
    <3> HIDE DEF next
    <3>3. TypeOK'
      BY <2>1, <2>3, <3>1, <3>2, MaxUIntAssumption
         DEF Inv, IInv, TypeOK, input, Unplaced
    <3>4. \A q \in Blocked' \ todo' : q[2] <= candidate'
      <4> SUFFICES ASSUME NEW q \in Blocked, q \notin todo \/ q = r PROVE q[2] <= next
        BY <3>1 DEF Blocked, input
      <4>1. CASE q = r
        BY <3>2, <4>1
      <4>2. CASE q \notin todo
        <5>1. q[2] <= candidate /\ q[2] \in Nat
          BY <2>1, <4>2, Scanning
        <5> QED
          BY <2>1, <3>2, <5>1
      <4> QED
        BY <4>1, <4>2
    <3>5. \A lower \in 0..(next - 1) : ~Admissible(problem, offset, current, lower)
      <4> SUFFICES ASSUME NEW lower \in 0..(next - 1)
                   PROVE  ~Admissible(problem, offset, current, lower)
        OBVIOUS
      <4>1. CASE r[2] > candidate
        <5>1. lower \in Nat /\ lower < AlignUp(r[2], Alignment)
          BY <3>2, <4>1 DEF next
        <5> QED
          BY <2>1, <4>1, <5>1, SkippedInadmissible
      <4>2. CASE ~(r[2] > candidate)
        BY <2>1, <4>2 DEF next, Inv, IInv, ScanInv
      <4> QED
        BY <4>1, <4>2
    <3>6. Alignment' = Alignment /\ Blocked' = Blocked /\ Unplaced' = Unplaced
      BY <3>1 DEF Alignment, Blocked, Unplaced, input
    <3>7. ScanInv'
      BY <2>1, <3>1, <3>2, <3>4, <3>5, <3>6, Scanning DEF ScanInv, input
    <3>8. Accepted'
      BY <2>1, <3>1, Scanning DEF Accepted, input
    <3> QED
      BY <3>1, <3>3, <3>7, <3>8 DEF Inv, IInv, BlockersDisjoint, PinnedFirst,
                                    PlacedAdmissible, input, Unplaced
  <2> QED
    BY <2>2, <2>3
<1>5. CASE FirstFitAccept
  BY <1>5, FirstFitGood, PlaceCurrentInv DEF FirstFitAccept, FirstFitScanning
<1>6. CASE FirstFitOverflow
  BY <1>6, FinishInv DEF FirstFitOverflow, FirstFitScanning, GiveUp, Statuses, Outcomes
<1>7. ASSUME NEW r \in todo, BestFitAdvance(r) PROVE Inv'
  <2> DEFINE at == AlignUp(candidate, Alignment)
             chunk == [offset |-> at, size |-> r[1] - at]
             gap == r[2] > candidate /\ r[1] > candidate
             fits == gap /\ at <= r[1] /\ Size <= r[1] - at
  <2>1. /\ phase = "scan" /\ strategy = "kXlaSpatialBestFit" /\ BestFitScanning
        /\ IsNextRange(r) /\ r \in Blocked
        /\ r[1] \in 0..MaxUInt /\ r[2] \in 0..MaxUInt
        /\ Alignment \in Nat \ {0} /\ candidate \in 0..MaxUInt
    BY <1>7, Scanning DEF BestFitAdvance, BestFitScanning
  <2>2. CASE gap /\ at > MaxUInt
    BY <1>7, <2>1, <2>2, FinishInv DEF BestFitAdvance, GiveUp, Statuses, Outcomes
  <2>3. CASE ~(gap /\ at > MaxUInt)
    <3>1. /\ hole' = IF fits /\ Tighter(chunk) THEN {chunk} ELSE hole
          /\ candidate' = IF r[2] > candidate THEN r[2] ELSE candidate
          /\ todo' = todo \ {r}
          /\ UNCHANGED <<input, phase, offset, current, status>>
      BY <1>7, <2>3 DEF BestFitAdvance
    <3>2. at \in Nat
      <4>1. candidate \in Nat /\ Alignment \in Nat \ {0}
        BY <2>1
      <4> QED
        BY <4>1, AlignUpLeast
    <3>3. ASSUME fits PROVE Admissible(problem, offset, current, at)
      BY <2>1, <3>3, ChunkGood
    <3>4. \A best \in hole' : /\ best.offset \in Nat /\ best.size \in Nat
                             /\ Admissible(problem, offset, current, best.offset)
      <4>1. CASE fits /\ Tighter(chunk)
        <5>1. hole' = {chunk} /\ r[1] - at \in Nat
          BY <2>1, <3>1, <3>2, <4>1
        <5> QED
          BY <3>2, <3>3, <4>1, <5>1
      <4>2. CASE ~(fits /\ Tighter(chunk))
        BY <2>1, <3>1, <4>2 DEF Inv, IInv, TypeOK, ScanInv
      <4> QED
        BY <4>1, <4>2
    <3>5. candidate' \in 0..MaxUInt /\ candidate' >= candidate /\ candidate' >= r[2]
      BY <2>1, <3>1
    <3>6. TypeOK'
      BY <2>1, <3>1, <3>4, <3>5 DEF Inv, IInv, TypeOK, input, Unplaced
    <3>7. Blocked' = Blocked /\ Unplaced' = Unplaced
      BY <3>1 DEF Blocked, Unplaced, input
    <3>8. \A q \in Blocked \ todo' : q[2] <= candidate'
      <4> SUFFICES ASSUME NEW q \in Blocked, q \notin todo \/ q = r PROVE q[2] <= candidate'
        BY <3>1
      <4>1. CASE q = r
        BY <3>5, <4>1
      <4>2. CASE q \notin todo
        <5>1. q[2] <= candidate /\ q[2] \in Nat
          BY <2>1, <4>2, Scanning
        <5> QED
          BY <2>1, <3>5, <5>1
      <4> QED
        BY <4>1, <4>2
    <3>9. ScanInv'
      BY <2>1, <3>1, <3>4, <3>7, <3>8, Scanning DEF ScanInv, input
    <3>10. Accepted'
      BY <2>1, <3>1, Scanning DEF Accepted, input
    <3> QED
      BY <3>1, <3>6, <3>9, <3>10 DEF Inv, IInv, BlockersDisjoint, PinnedFirst,
                                     PlacedAdmissible, input, Unplaced
  <2> QED
    BY <2>2, <2>3
<1>8. CASE BestFitAccept
  <2>1. phase = "scan" /\ todo = {} /\ BestFitScanning
    BY <1>8 DEF BestFitAccept, BestFitScanning
  <2>2. CASE hole # {}
    <3>1. PICK best \in hole : PlaceCurrent(best.offset)
      BY <1>8, <2>2 DEF BestFitAccept
    <3> QED
      BY <2>1, <3>1, BestFitGood, PlaceCurrentInv
  <2>3. CASE hole = {} /\ AddOverflows(AlignUp(candidate, Alignment), Size)
    BY <1>8, <2>1, <2>3, FinishInv DEF BestFitAccept, GiveUp, Statuses, Outcomes
  <2>4. CASE hole = {} /\ ~AddOverflows(AlignUp(candidate, Alignment), Size)
    BY <1>8, <2>1, <2>4, BestFitGood, PlaceCurrentInv DEF BestFitAccept
  <2> QED
    BY <2>2, <2>3, <2>4
<1>9. CASE Judge
  <2>1. Verdict(problem, offset) \in Statuses \ {"none"}
    BY DEF Verdict, Statuses, Outcomes
  <2> QED
    BY <1>9, <2>1, FinishInv DEF Judge
<1>10. CASE UNCHANGED vars
  BY <1>10 DEF Inv, IInv, TypeOK, Accepted, BlockersDisjoint, PinnedFirst, PlacedAdmissible,
               ScanInv, vars, input, scan, Unplaced, Blocked, Alignment
<1> QED
  BY <1>1, <1>2, <1>3, <1>4, <1>5, <1>6, <1>7, <1>8, <1>9, <1>10 DEF Next, Terminated

\* Types are kept, blocking classes are disjoint at every moment, and each scan
\* knows what its comments say, for every problem, width and priority list.
THEOREM Safety == Spec => []IInv
<1>1. Spec => []Inv
  BY InitInv, NextInv, PTL DEF Spec
<1>2. Inv => IInv
  BY DEF Inv
<1> QED
  BY <1>1, <1>2, PTL

\* Types are kept (PlaceWithOrder).
THEOREM TypeCorrect == Spec => []TypeOK
<1>1. IInv => TypeOK
  BY DEF IInv
<1> QED
  BY <1>1, Safety, PTL

\* Classes that may not share addresses never do (PlaceWithOrder).
THEOREM Disjoint == Spec => []BlockersDisjoint
<1>1. IInv => BlockersDisjoint
  BY DEF IInv
<1> QED
  BY <1>1, Safety, PTL

-----------------------------------------------------------------------------
(***************************************************************************)
(* The verdict                                                             *)
(***************************************************************************)
Solution == SolutionOf(problem, offset)

Complete == Inv /\ PrepareAccepts(problem) /\ Unplaced = {}

\* A complete placement has every buffer, at the offset of its class.
LEMMA SolutionShape ==
    ASSUME Complete
    PROVE  /\ DOMAIN Solution = problem.buffers
           /\ \A b \in problem.buffers :
                  /\ ClassOf(problem, b) \in Classes(problem) /\ ClassOf(problem, b) \in DOMAIN offset
                  /\ b \in ClassOf(problem, b)
                  /\ Solution[b] = [pool |-> PoolOf(problem, ClassOf(problem, b)),
                                    offset |-> offset[ClassOf(problem, b)]]
                  /\ Solution[b].offset \in 0..MaxUInt
<1>1. DOMAIN offset = Classes(problem) /\ offset \in [DOMAIN offset -> 0..MaxUInt]
  BY DEF Complete, Unplaced, Inv, IInv, TypeOK
<1>2. \A b \in problem.buffers : ClassOf(problem, b) \in Classes(problem) /\ b \in ClassOf(problem, b)
  BY ClassMembers DEF Classes
<1>3. UNION Classes(problem) = problem.buffers
  BY <1>2, ClassMembers DEF Classes
<1> QED
  BY <1>1, <1>2, <1>3 DEF Solution, SolutionOf

\* Of two different classes that block each other, one at least not pinned, the
\* extents share no address.
LEMMA ExtentsApart ==
    ASSUME Complete, NEW a \in problem.buffers, NEW b \in problem.buffers,
           ClassOf(problem, a) # ClassOf(problem, b),
           \/ SuperBuffersConflict(problem, ClassOf(problem, a), ClassOf(problem, b))
           \/ Separated(problem, ClassOf(problem, a), ClassOf(problem, b))
           \/ PinnedExclusive(problem, ClassOf(problem, a))
           \/ PinnedExclusive(problem, ClassOf(problem, b)),
           ~(Pinned(problem, ClassOf(problem, a)) /\ Pinned(problem, ClassOf(problem, b)))
    PROVE  ~ExtentsOverlap(problem, Solution, a, b)
<1> DEFINE c == ClassOf(problem, a)
           d == ClassOf(problem, b)
<1>1. /\ c \in DOMAIN offset /\ d \in DOMAIN offset
      /\ c \in Classes(problem) /\ d \in Classes(problem)
      /\ Solution[a] = [pool |-> PoolOf(problem, c), offset |-> offset[c]]
      /\ Solution[b] = [pool |-> PoolOf(problem, d), offset |-> offset[d]]
  BY SolutionShape
<1> SUFFICES ASSUME PoolOf(problem, c) = PoolOf(problem, d)
             PROVE  ~AddressRangesOverlap(offset[c], ClassSize(problem, c),
                                          offset[d], ClassSize(problem, d))
  BY <1>1 DEF ExtentsOverlap
<1>2. Blocks(problem, c, d)
  BY DEF Blocks
<1> HIDE DEF c, d
<1>3. \/ offset[c] + ClassSize(problem, c) <= offset[d]
      \/ offset[d] + ClassSize(problem, d) <= offset[c]
  BY <1>1, <1>2 DEF Complete, Inv, IInv, BlockersDisjoint, c, d
<1>4. offset[c] + ClassSize(problem, c) <= MaxUInt /\ offset[d] + ClassSize(problem, d) <= MaxUInt
  BY <1>1 DEF Complete, Inv, IInv, PlacedAdmissible
<1>5. /\ ClassSize(problem, c) \in Nat /\ ClassSize(problem, d) \in Nat
      /\ offset[c] \in Nat /\ offset[d] \in Nat
  BY <1>1, Attributes DEF Complete, Inv, IInv, TypeOK
<1> QED
  BY <1>3, <1>4, <1>5, MaxUIntAssumption DEF AddressRangesOverlap, AddOverflows

\* An unpinned class satisfies the validator at every one of its members.
LEMMA UnpinnedLegal ==
    ASSUME Complete, NEW b \in problem.buffers, ~Pinned(problem, ClassOf(problem, b))
    PROVE  LegalPlace(problem, Solution, b)
<1> DEFINE c == ClassOf(problem, b)
           q == PoolOf(problem, c)
<1>1. /\ c \in DOMAIN offset /\ c \in Classes(problem) /\ b \in c
      /\ Solution[b] = [pool |-> q, offset |-> offset[c]]
  BY SolutionShape
<1>2. problem \in Problems /\ PrepareAccepts(problem)
  BY DEF Complete, Inv
<1>3. /\ ProblemTyped(problem) /\ c # {} /\ c \in SUBSET problem.buffers
      /\ \A x \in c : problem.size[x] # 0 /\ problem.alignment[x] # 0
  BY <1>1, <1>2, AcceptedFields, ClassIsOfMember
<1>4. problem.size[b] \in 0..MaxUInt /\ problem.size[b] <= ClassSize(problem, c)
  BY <1>1, <1>3, ClassSizeLargest DEF ProblemTyped
<1>5. /\ offset[c] \in 0..MaxUInt /\ ClassSize(problem, c) \in Nat
      /\ offset[c] + ClassSize(problem, c) <= MaxUInt
      /\ Aligned(offset[c], ClassAlignment(problem, c))
      /\ \A r \in problem.reserved[q] :
             r[2] <= offset[c] \/ offset[c] + ClassSize(problem, c) <= r[1]
  BY <1>1, <1>2, Attributes DEF Complete, Inv, IInv, TypeOK, PlacedAdmissible
<1>6. q \in problem.allowed[b]
  BY <1>1, <1>2, PoolAndPin DEF ClassPools
<1>7. Aligned(offset[c], problem.alignment[b])
  <2>1. /\ ClassAlignment(problem, c) \in Nat \ {0}
        /\ ClassAlignment(problem, c) % problem.alignment[b] = 0
    BY <1>1, <1>3, ClassAlignmentDivides
  <2>2. problem.alignment[b] \in Nat \ {0}
    BY <1>1, <1>3 DEF ProblemTyped
  <2> QED
    BY <1>5, <2>1, <2>2, Divides DEF Aligned
<1>8. ~AddOverflows(offset[c], problem.size[b])
  BY <1>4, <1>5, MaxUIntAssumption DEF AddOverflows
<1>9. ~OverlapsReserved(problem, q, offset[c], problem.size[b])
  <2> SUFFICES ASSUME NEW r \in problem.reserved[q]
               PROVE  ~AddressRangesOverlap(offset[c], problem.size[b], r[1], r[2] - r[1])
    BY DEF OverlapsReserved
  <2>1. r[1] \in 0..MaxUInt /\ r[2] \in 0..MaxUInt
    BY <1>1, <1>2, Attributes
  <2>2. r[2] <= offset[c] \/ offset[c] + ClassSize(problem, c) <= r[1]
    BY <1>5
  <2> HIDE DEF q, c
  <2> QED
    BY <1>4, <1>5, <1>8, <2>1, <2>2, MaxUIntAssumption DEF AddressRangesOverlap, AddOverflows
<1> QED
  BY <1>1, <1>6, <1>7, <1>8, <1>9 DEF LegalPlace

\* Every legal solution has a pinned class where the engine puts it.
LEMMA PinnedAgree ==
    ASSUME Complete, NEW sol, LegalSolution(problem, sol), NEW b \in problem.buffers,
           Pinned(problem, ClassOf(problem, b))
    PROVE  sol[b] = Solution[b]
<1> DEFINE c == ClassOf(problem, b)
           pin == PinOf(problem, c)
<1>1. /\ c \in DOMAIN offset /\ c \in Classes(problem)
      /\ Solution[b] = [pool |-> PoolOf(problem, c), offset |-> offset[c]]
  BY SolutionShape
<1>2. problem \in Problems /\ PrepareAccepts(problem)
  BY DEF Complete, Inv
<1>3. pin \in problem.pins /\ pin.buffer \in c /\ PoolOf(problem, c) = pin.pool
  BY <1>1, <1>2, PoolAndPin
<1>4. offset[c] = pin.offset
  BY <1>1 DEF Complete, Inv, IInv, PlacedAdmissible
<1>5. sol[pin.buffer] = [pool |-> pin.pool, offset |-> pin.offset]
  BY <1>3 DEF LegalSolution
<1>6. sol[pin.buffer] = sol[b]
  BY <1>2, <1>3, AcceptedFields, ColocatedTogether DEF LegalSolution
<1> QED
  BY <1>1, <1>3, <1>4, <1>5, <1>6

\* When any solution is legal, the one of the engine is: only pins can be at
\* fault, and every solution has them.
LEMMA EngineLegal ==
    ASSUME Complete, NEW sol, LegalSolution(problem, sol)
    PROVE  LegalSolution(problem, Solution)
<1>1. problem \in Problems /\ PrepareAccepts(problem)
  BY DEF Complete, Inv
<1>2. ProblemTyped(problem) /\ KnownColocations(problem) /\ ValidProblem(problem)
  BY <1>1, AcceptedFields DEF PrepareAccepts
<1>3. DOMAIN Solution = problem.buffers
  BY SolutionShape
<1>4. ASSUME NEW b \in problem.buffers PROVE LegalPlace(problem, Solution, b)
  <2>1. CASE Pinned(problem, ClassOf(problem, b))
    BY <2>1, PinnedAgree DEF LegalSolution, LegalPlace
  <2>2. CASE ~Pinned(problem, ClassOf(problem, b))
    BY <2>2, UnpinnedLegal
  <2> QED
    BY <2>1, <2>2
<1>5. ASSUME NEW pair \in problem.colocations PROVE Solution[pair[1]] = Solution[pair[2]]
  <2>1. pair[1] \in problem.buffers /\ pair[2] \in problem.buffers
    BY <1>2 DEF KnownColocations, KnownPair
  <2>2. pair[2] \in ClassOf(problem, pair[1])
    BY <1>2, <2>1, ClassClosed, ClassMembers DEF ClosedUnderColocation
  <2>3. ClassOf(problem, pair[2]) = ClassOf(problem, pair[1])
    BY <1>2, <2>1, <2>2, ClassOfMember
  <2> QED
    BY <2>1, <2>3, SolutionShape
<1>6. ASSUME NEW a \in problem.buffers, NEW b \in problem.buffers,
             Pinned(problem, ClassOf(problem, a)), Pinned(problem, ClassOf(problem, b)),
             ~ExtentsOverlap(problem, sol, a, b)
      PROVE  ~ExtentsOverlap(problem, Solution, a, b)
  <2>1. sol[a] = Solution[a] /\ sol[b] = Solution[b]
    BY <1>6, PinnedAgree
  <2> QED
    BY <1>6, <2>1 DEF ExtentsOverlap
<1>7. ASSUME NEW a \in problem.buffers, NEW b \in problem.buffers,
             ClassOf(problem, a) # ClassOf(problem, b), MustNotReuse(problem, a, b)
      PROVE  ~ExtentsOverlap(problem, Solution, a, b)
  <2>1. a \in ClassOf(problem, a) /\ b \in ClassOf(problem, b)
    BY ClassMembers
  <2>2. \/ SuperBuffersConflict(problem, ClassOf(problem, a), ClassOf(problem, b))
        \/ PinnedExclusive(problem, ClassOf(problem, a))
        \/ PinnedExclusive(problem, ClassOf(problem, b))
    BY <1>7, <2>1 DEF MustNotReuse, SuperBuffersConflict, ExclusivelyPinned, PinnedExclusive,
                      ClassPins
  <2>3. ~ExtentsOverlap(problem, sol, a, b)
    BY <1>7 DEF LegalSolution
  <2> QED
    BY <1>6, <1>7, <2>2, <2>3, ExtentsApart
<1>8. ASSUME NEW pair \in problem.separations
      PROVE  ~ExtentsOverlap(problem, Solution, pair[1], pair[2])
  <2>1. pair[1] \in problem.buffers /\ pair[2] \in problem.buffers
    BY <1>2 DEF ValidProblem, KnownPair
  <2>2. ClassOf(problem, pair[1]) # ClassOf(problem, pair[2])
    BY <1>1 DEF PrepareAccepts
  <2>3. Separated(problem, ClassOf(problem, pair[1]), ClassOf(problem, pair[2]))
    BY <2>1, ClassMembers DEF Separated
  <2>4. ~ExtentsOverlap(problem, sol, pair[1], pair[2])
    BY DEF LegalSolution
  <2> QED
    BY <1>6, <2>1, <2>2, <2>3, <2>4, ExtentsApart
<1>9. ASSUME NEW pin \in problem.pins
      PROVE  Solution[pin.buffer] = [pool |-> pin.pool, offset |-> pin.offset]
  <2>1. pin.buffer \in problem.buffers
    BY <1>1, AcceptedFields
  <2>2. Pinned(problem, ClassOf(problem, pin.buffer))
    BY <2>1, ClassMembers DEF Pinned, ClassPins
  <2>3. sol[pin.buffer] = Solution[pin.buffer]
    BY <2>1, <2>2, PinnedAgree
  <2> QED
    BY <2>3 DEF LegalSolution
<1> QED
  BY <1>3, <1>4, <1>5, <1>7, <1>8, <1>9 DEF LegalSolution

\* The verdict on a complete placement says what it claims.
LEMMA VerdictRight ==
    ASSUME Complete
    PROVE  /\ Verdict(problem, offset) = "kFeasible" => ValidSolution(problem, Solution)
           /\ Verdict(problem, offset) = "kInfeasibleProven" =>
                  \A sol : ~ValidSolution(WithoutCapacities(problem), sol)
<1>1. ProblemTyped(problem) /\ ValidProblem(problem)
  BY AcceptedFields DEF Complete, Inv, PrepareAccepts
<1>2. ASSUME Verdict(problem, offset) = "kFeasible" PROVE ValidSolution(problem, Solution)
  <2>1. ValidSolution(WithoutCapacities(problem), Solution) /\ FitsCapacities(problem, Solution)
    BY <1>2 DEF Verdict, Solution
  <2>2. LegalSolution(problem, Solution)
    BY <1>1, <2>1, LegalWithoutCapacities
  <2> QED
    BY <1>1, <2>1, <2>2, LegalAndFits, SolutionShape
<1>3. ASSUME Verdict(problem, offset) = "kInfeasibleProven", NEW sol,
             ValidSolution(WithoutCapacities(problem), sol)
      PROVE  FALSE
  <2>1. ~ValidSolution(WithoutCapacities(problem), Solution)
    BY <1>3 DEF Verdict, Solution
  <2>2. ValidProblem(WithoutCapacities(problem)) /\ LegalSolution(problem, sol)
    BY <1>1, <1>3, LegalWithoutCapacities
  <2>3. LegalSolution(problem, Solution)
    BY <2>2, EngineLegal
  <2> QED
    BY <1>1, <2>1, <2>2, <2>3, LegalWithoutCapacities
<1> QED
  BY <1>2, <1>3

VerdictInv == FeasibleIsValid /\ InfeasibleProvenSound

\* Only Judge returns a verdict; after it nothing changes.
LEMMA NextVerdict == Inv /\ VerdictInv /\ [Next]_vars => VerdictInv'
<1> SUFFICES ASSUME Inv, VerdictInv, [Next]_vars PROVE VerdictInv'
  OBVIOUS
<1>1. CASE Judge
  <2>1. Complete
    BY <1>1 DEF Judge, Complete, Inv, IInv, Accepted
  <2>2. status' = Verdict(problem, offset) /\ UNCHANGED <<problem, offset>>
    BY <1>1 DEF Judge, Finish, input
  <2> QED
    BY <2>1, <2>2, VerdictRight DEF VerdictInv, FeasibleIsValid, InfeasibleProvenSound, Solution
<1>2. CASE status' \in Statuses \ {"kFeasible", "kInfeasibleProven"}
  BY <1>2 DEF VerdictInv, FeasibleIsValid, InfeasibleProvenSound
<1>3. CASE UNCHANGED vars
  BY <1>3 DEF VerdictInv, FeasibleIsValid, InfeasibleProvenSound, vars, input
<1>4. CASE Next /\ ~Judge /\ ~Terminated
  <2>1. phase # "done"
    BY <1>4 DEF Next, Prepare, PlacePinned, StartScan, FirstFitAdvance, FirstFitAccept,
                FirstFitOverflow, BestFitAdvance, BestFitAccept, FirstFitScanning, BestFitScanning
  <2>2. status = "none"
    BY <2>1 DEF Inv, IInv, TypeOK
  <2>3. status' \in {status, "kInvalidProblem", "kUnsupported", "kBestEffortNoFit"}
    BY <1>4 DEF Next, Prepare, PlacePinned, StartScan, FirstFitAdvance, FirstFitAccept,
                FirstFitOverflow, BestFitAdvance, BestFitAccept, Finish, GiveUp, PlaceCurrent
  <2> QED
    BY <1>2, <2>2, <2>3 DEF Statuses, Outcomes
<1> QED
  BY <1>1, <1>3, <1>4 DEF Next, Terminated

\* Both verdicts of PlaceWithOrder hold in every state.
THEOREM VerdictsHold == Spec => []VerdictInv
<1>1. Init => VerdictInv
  BY DEF Init, VerdictInv, FeasibleIsValid, InfeasibleProvenSound
<1>2. Spec => []Inv
  BY InitInv, NextInv, PTL DEF Spec
<1> QED
  BY <1>1, <1>2, NextVerdict, PTL DEF Spec

\* A placement reported as feasible is accepted by the validator, with the
\* capacities and for every member of every class (PlaceWithOrder).
THEOREM Feasible == Spec => []FeasibleIsValid
<1>1. VerdictInv => FeasibleIsValid
  BY DEF VerdictInv
<1> QED
  BY <1>1, VerdictsHold, PTL

\* After one greedy placement kInfeasibleProven is a proof: what is not pinned
\* is placed as the validator wants it, and what is pinned is where any solution
\* would have it (PlaceWithOrder).
THEOREM InfeasibleProof == Spec => []InfeasibleProvenSound
<1>1. VerdictInv => InfeasibleProvenSound
  BY DEF VerdictInv
<1> QED
  BY <1>1, VerdictsHold, PTL

-----------------------------------------------------------------------------
(***************************************************************************)
(* The engine implements greedy placement                                  *)
(***************************************************************************)
\* First fit gives up on a class that fits nowhere.
LEMMA FirstFitExhausted ==
    ASSUME Inv, FirstFitScanning,
           \/ AddOverflows(candidate, Size)
           \/ \E r \in todo : /\ r[1] < candidate + Size /\ r[2] > candidate
                              /\ AlignUp(r[2], Alignment) > MaxUInt
    PROVE  \A at \in 0..MaxUInt : ~Admissible(problem, offset, current, at)
<1> SUFFICES ASSUME NEW at \in 0..MaxUInt PROVE ~Admissible(problem, offset, current, at)
  OBVIOUS
<1>1. phase = "scan" /\ strategy = "kFirstFit"
  BY DEF FirstFitScanning
<1>2. CASE AddOverflows(candidate, Size)
  <2>1. candidate + Size > MaxUInt
    BY <1>2 DEF AddOverflows
  <2>2. CASE at < candidate
    BY <1>1, <2>2, Scanning DEF Inv, IInv, ScanInv
  <2>3. CASE at >= candidate
    <3>1. ~(at + Size <= MaxUInt)
      BY <1>1, <2>1, <2>3, Scanning, MaxUIntAssumption
    <3> QED
      BY <3>1 DEF Admissible, Size
  <2> QED
    BY <1>1, <2>2, <2>3, Scanning
<1>3. CASE ~AddOverflows(candidate, Size)
  <2>1. PICK r \in todo : /\ r[1] < candidate + Size /\ r[2] > candidate
                          /\ AlignUp(r[2], Alignment) > MaxUInt
    BY <1>3
  <2>2. Alignment \in Nat \ {0} /\ r[2] \in Nat
    BY <1>1, Scanning
  <2>3. AlignUp(r[2], Alignment) \in Nat
    BY <2>2, AlignUpLeast
  <2>4. at \in Nat /\ at < AlignUp(r[2], Alignment)
    BY <2>1, <2>3, MaxUIntAssumption
  <2> QED
    BY <1>1, <2>1, <2>4, SkippedInadmissible
<1> QED
  BY <1>2, <1>3

\* An end the abstract specification allows is an abstract step.
LEMMA FinishRefines ==
    ASSUME Inv, phase # "done", NEW s \in Outcomes, Finish(s), MayEnd(s),
           UNCHANGED <<input, offset, scan>>
    PROVE  GreedyNext
<1>1. status = "none"
  BY DEF Inv, IInv, TypeOK
<1> QED
  BY <1>1 DEF GreedyNext, End, Finish, input

\* Storing a class is an abstract step when its offset is lowest under first fit.
LEMMA PlaceCurrentRefines ==
    ASSUME Inv, phase = "scan", NEW at, GoodPlace(current, at), PlaceCurrent(at),
           strategy = "kFirstFit" =>
               \A lower \in 0..(at - 1) : ~Admissible(problem, offset, current, lower)
    PROVE  GreedyNext
<1>1. current \in Unplaced /\ ~Pinned(problem, current) /\ status = "none"
  BY Scanning
<1>2. at \in 0..MaxUInt /\ Admissible(problem, offset, current, at) /\ PinsPlaced
  BY <1>1 DEF GoodPlace, PinsPlaced
<1>3. PlaceAt(current, at)
  BY <1>1, <1>2 DEF PlaceAt, PlaceCurrent, input
<1> QED
  BY <1>1, <1>2, <1>3 DEF GreedyNext

THEOREM StepRefines == Inv /\ [Next]_vars => [GreedyNext]_gvars
<1> SUFFICES ASSUME Inv, [Next]_vars PROVE GreedyNext \/ UNCHANGED gvars
  OBVIOUS
<1>1. CASE Prepare
  <2>1. CASE ~PrepareAccepts(problem)
    BY <1>1, <2>1, FinishRefines DEF Prepare, Outcomes, MayEnd
  <2>2. CASE PrepareAccepts(problem) /\ FlexiblePools(problem)
    BY <1>1, <2>2, FinishRefines DEF Prepare, Outcomes, MayEnd
  <2>3. CASE PrepareAccepts(problem) /\ ~FlexiblePools(problem)
    BY <1>1, <2>3 DEF Prepare, gvars, input
  <2> QED
    BY <2>1, <2>2, <2>3
<1>2. ASSUME NEW class \in Unplaced, PlacePinned(class) PROVE GreedyNext
  <2> DEFINE at == PinOf(problem, class).offset
  <2>1. phase = "place" /\ IsNext(class) /\ Pinned(problem, class) /\ UNCHANGED <<input, scan>>
    BY <1>2 DEF PlacePinned
  <2>2. CASE AddOverflows(at, ClassSize(problem, class))
    <3>1. MayEnd("kInvalidProblem")
      BY <2>1, <2>2 DEF MayEnd
    <3> QED
      BY <1>2, <2>1, <2>2, <3>1, FinishRefines DEF PlacePinned, Outcomes
  <2>3. CASE ~AddOverflows(at, ClassSize(problem, class))
    <3>1. offset' = Extend(offset, class, at) /\ UNCHANGED <<phase, status>>
      BY <1>2, <2>3 DEF PlacePinned
    <3>2. at \in 0..MaxUInt
      BY <2>1, PinnedNext, Attributes DEF Inv, IInv, Accepted
    <3>3. status = "none"
      BY <2>1 DEF Inv, IInv, TypeOK
    <3>4. PlaceAt(class, at)
      BY <2>1, <3>1, <3>3 DEF PlaceAt, input
    <3> QED
      BY <3>2, <3>4 DEF GreedyNext
  <2> QED
    BY <2>2, <2>3
<1>3. ASSUME NEW class \in Unplaced, StartScan(class) PROVE UNCHANGED gvars
  BY <1>3 DEF StartScan, gvars, input
<1>4. ASSUME NEW r \in todo, FirstFitAdvance(r) PROVE GreedyNext \/ UNCHANGED gvars
  <2> DEFINE next == IF r[2] > candidate THEN AlignUp(r[2], Alignment) ELSE candidate
  <2>1. /\ phase = "scan" /\ FirstFitScanning /\ r[1] < candidate + Size
        /\ candidate \in 0..MaxUInt /\ current \in Unplaced /\ ~Pinned(problem, current)
    BY <1>4, Scanning DEF FirstFitAdvance, FirstFitScanning
  <2>2. CASE next > MaxUInt
    <3>1. r[2] > candidate /\ AlignUp(r[2], Alignment) > MaxUInt
      BY <2>1, <2>2, MaxUIntAssumption
    <3>2. MayEnd("kBestEffortNoFit")
      BY <2>1, <3>1, FirstFitExhausted DEF MayEnd
    <3> QED
      BY <1>4, <2>1, <2>2, <3>2, FinishRefines DEF FirstFitAdvance, GiveUp, Outcomes
  <2>3. CASE ~(next > MaxUInt)
    BY <1>4, <2>3 DEF FirstFitAdvance, gvars, input
  <2> QED
    BY <2>2, <2>3
<1>5. CASE FirstFitAccept
  BY <1>5, FirstFitGood, PlaceCurrentRefines DEF FirstFitAccept, FirstFitScanning
<1>6. CASE FirstFitOverflow
  <2>1. phase = "scan" /\ FirstFitScanning /\ AddOverflows(candidate, Size)
    BY <1>6 DEF FirstFitOverflow, FirstFitScanning
  <2>2. MayEnd("kBestEffortNoFit")
    BY <2>1, FirstFitExhausted, Scanning DEF MayEnd
  <2> QED
    BY <1>6, <2>1, <2>2, FinishRefines DEF FirstFitOverflow, GiveUp, Outcomes
<1>7. ASSUME NEW r \in todo, BestFitAdvance(r) PROVE GreedyNext \/ UNCHANGED gvars
  <2>1. phase = "scan" /\ strategy = "kXlaSpatialBestFit"
    BY <1>7 DEF BestFitAdvance, BestFitScanning
  <2>2. MayEnd("kBestEffortNoFit")
    BY <2>1 DEF MayEnd
  <2>3. CASE GiveUp
    BY <2>1, <2>2, <2>3, FinishRefines DEF GiveUp, Outcomes
  <2>4. CASE UNCHANGED <<input, phase, offset, current, status>>
    BY <2>4 DEF gvars, input
  <2> QED
    BY <1>7, <2>3, <2>4 DEF BestFitAdvance
<1>8. CASE BestFitAccept
  <2>1. /\ phase = "scan" /\ todo = {} /\ BestFitScanning
        /\ strategy = "kXlaSpatialBestFit"
    BY <1>8 DEF BestFitAccept, BestFitScanning
  <2>2. CASE hole # {}
    <3>1. PICK best \in hole : PlaceCurrent(best.offset)
      BY <1>8, <2>2 DEF BestFitAccept
    <3> QED
      BY <2>1, <3>1, BestFitGood, PlaceCurrentRefines
  <2>3. CASE hole = {} /\ AddOverflows(AlignUp(candidate, Alignment), Size)
    <3>1. MayEnd("kBestEffortNoFit")
      BY <2>1 DEF MayEnd
    <3> QED
      BY <1>8, <2>1, <2>3, <3>1, FinishRefines DEF BestFitAccept, GiveUp, Outcomes
  <2>4. CASE hole = {} /\ ~AddOverflows(AlignUp(candidate, Alignment), Size)
    BY <1>8, <2>1, <2>4, BestFitGood, PlaceCurrentRefines DEF BestFitAccept
  <2> QED
    BY <2>2, <2>3, <2>4
<1>9. CASE Judge
  <2>1. Verdict(problem, offset) \in Outcomes
    BY DEF Verdict, Outcomes
  <2> QED
    BY <1>9, <2>1, FinishRefines DEF Judge, MayEnd
<1>10. CASE UNCHANGED vars
  BY <1>10 DEF vars, gvars, input
<1> QED
  BY <1>1, <1>2, <1>3, <1>4, <1>5, <1>6, <1>7, <1>8, <1>9, <1>10 DEF Next, Terminated

\* The scans of FindFirstFit and FindBestFit put each class at an admissible
\* offset, first fit at the lowest, and first fit reports an overflow only for a
\* class that fits nowhere.
THEOREM Refinement == Spec => ImplementsGreedy
<1>1. Init => GreedyInit
  BY DEF Init, GreedyInit
<1>2. Spec => []Inv
  BY InitInv, NextInv, PTL DEF Spec
<1> QED
  BY <1>1, <1>2, StepRefines, PTL DEF Spec, ImplementsGreedy, GreedySpec

-----------------------------------------------------------------------------
(***************************************************************************)
(* The chunk FindBestFit takes.  A finite chunk is named by the first      *)
(* address of its free interval.  The scan has seen the chunks that start  *)
(* below free_begin, and its hole is the tightest of them.                 *)
(***************************************************************************)
Free(v) == \A r \in Blocked : v < r[1] \/ r[2] <= v

Ends(v) == {r[1] : r \in {q \in Blocked : q[1] >= v}}

ChunkAt(v) ==
    [offset |-> AlignUp(v, Alignment), size |-> Min(Ends(v)) - AlignUp(v, Alignment)]

ChunkStarts ==
    {v \in 0..MaxUInt : /\ Free(v) /\ (v = 0 \/ ~Free(v - 1))
                        /\ Ends(v) # {} /\ AlignUp(v, Alignment) + Size <= Min(Ends(v))}

NoLooser(chunk, other) ==
    chunk.size < other.size \/ (chunk.size = other.size /\ chunk.offset <= other.offset)

BestFitInv ==
    BestFitScanning =>
        /\ candidate = 0 \/ \E s \in Blocked : candidate = s[2]
        /\ \A best, other \in hole : best = other
        /\ \A best \in hole : \E v \in ChunkStarts : best = ChunkAt(v)
        /\ \A v \in ChunkStarts :
               v < candidate => \E best \in hole : NoLooser(best, ChunkAt(v))

LEMMA ChunksAreNamed == FiniteChunks = {ChunkAt(v) : v \in ChunkStarts}
  BY DEF FiniteChunks, ChunkStarts, ChunkAt, Ends, Free, Blocked

\* No blocked range is empty: reserved ranges are valid, and no class is empty.
LEMMA BlockedNonempty ==
    ASSUME Inv, phase = "scan", NEW r \in Blocked
    PROVE  r[1] \in 0..MaxUInt /\ r[2] \in 0..MaxUInt /\ r[1] < r[2]
<1>1. r[1] \in 0..MaxUInt /\ r[2] \in 0..MaxUInt
  BY Scanning
<1>2. CASE r \in problem.reserved[PoolOf(problem, current)]
  <2>1. PoolOf(problem, current) \in problem.pools /\ ValidProblem(problem)
    BY Scanning, PoolAndPin DEF Inv, PrepareAccepts
  <2> QED
    BY <1>1, <1>2, <2>1 DEF ValidProblem, ValidPool
<1>3. CASE r \notin problem.reserved[PoolOf(problem, current)]
  <2>1. PICK d \in DOMAIN offset : r = <<offset[d], offset[d] + ClassSize(problem, d)>>
    BY <1>3 DEF Blocked, BlockedRanges
  <2>2. offset[d] \in Nat /\ ClassSize(problem, d) \in Nat \ {0}
    BY <2>1, Scanning, Attributes, MaxUIntAssumption DEF Inv, IInv, TypeOK
  <2> QED
    BY <1>1, <2>1, <2>2
<1> QED
  BY <1>1, <1>2, <1>3

\* The chunk before the next range starts at free_begin, when that lies before
\* the range, and no chunk starts elsewhere up to the end of the range.
LEMMA ChunksOfStep ==
    ASSUME Inv, BestFitScanning, NEW r, IsNextRange(r),
           candidate = 0 \/ \E s \in Blocked : candidate = s[2]
    PROVE  /\ \A v \in ChunkStarts : candidate <= v /\ v < r[2] => v = candidate /\ candidate < r[1]
           /\ candidate < r[1] =>
                 /\ Min(Ends(candidate)) = r[1]
                 /\ AlignUp(candidate, Alignment) + Size <= r[1] => candidate \in ChunkStarts
<1>1. phase = "scan" /\ r \in todo /\ r \in Blocked /\ candidate \in 0..MaxUInt
  BY Scanning DEF BestFitScanning, IsNextRange
<1>2. \A q \in Blocked : q[1] \in Nat /\ q[2] \in Nat /\ q[1] < q[2]
  BY <1>1, BlockedNonempty
<1>3. \A q \in Blocked : q[2] <= candidate \/ r[1] <= q[1]
  BY <1>1, RestBeginsLater, Scanning
<1>4. ASSUME NEW v \in ChunkStarts, candidate <= v, v < r[2]
      PROVE  v = candidate /\ candidate < r[1]
  <2>1. v \in Nat /\ Free(v) /\ (v = 0 \/ ~Free(v - 1)) /\ v < r[1]
    BY <1>1, <1>2, <1>4 DEF ChunkStarts, Free
  <2>2. CASE v # candidate
    <3>1. v - 1 \in Nat /\ candidate <= v - 1 /\ ~Free(v - 1)
      BY <1>1, <1>4, <2>1, <2>2
    <3>2. PICK q \in Blocked : ~(v - 1 < q[1]) /\ ~(q[2] <= v - 1)
      BY <3>1 DEF Free
    <3> QED
      BY <1>1, <1>2, <1>3, <2>1, <3>1, <3>2
  <2> QED
    BY <2>1, <2>2
<1>5. ASSUME candidate < r[1] PROVE Min(Ends(candidate)) = r[1]
  <2>1. r[1] \in Ends(candidate)
    BY <1>1, <1>2, <1>5 DEF Ends
  <2>2. Ends(candidate) \in SUBSET Nat
    BY <1>2 DEF Ends
  <2>3. \A n \in Ends(candidate) : r[1] <= n
    <3> SUFFICES ASSUME NEW q \in Blocked, q[1] >= candidate PROVE r[1] <= q[1]
      BY DEF Ends
    <3> QED
      BY <1>1, <1>2, <1>3
  <2>4. /\ Min(Ends(candidate)) \in Ends(candidate)
        /\ \A n \in Ends(candidate) : Min(Ends(candidate)) <= n
    BY <2>1, <2>2, MinNatural
  <2> QED
    BY <2>1, <2>2, <2>3, <2>4
<1>6. ASSUME candidate < r[1], AlignUp(candidate, Alignment) + Size <= r[1]
      PROVE  candidate \in ChunkStarts
  <2>1. Free(candidate)
    BY <1>1, <1>2, <1>3, <1>6 DEF Free
  <2>2. candidate = 0 \/ ~Free(candidate - 1)
    <3> SUFFICES ASSUME candidate # 0 PROVE ~Free(candidate - 1)
      OBVIOUS
    <3>1. PICK s \in Blocked : candidate = s[2]
      OBVIOUS
    <3> QED
      BY <1>2, <3>1 DEF Free
  <2>3. Ends(candidate) # {}
    BY <1>1, <1>2, <1>6 DEF Ends
  <2> QED
    BY <1>1, <1>5, <1>6, <2>1, <2>2, <2>3 DEF ChunkStarts
<1> QED
  BY <1>4, <1>5, <1>6

\* Visiting a range keeps the hole the tightest chunk seen.
LEMMA BestFitStep ==
    ASSUME Inv, BestFitInv, NEW r \in todo, BestFitAdvance(r), ~GiveUp
    PROVE  BestFitInv'
<1> DEFINE at == AlignUp(candidate, Alignment)
           chunk == [offset |-> at, size |-> r[1] - at]
           gap == r[2] > candidate /\ r[1] > candidate
           fits == gap /\ at <= r[1] /\ Size <= r[1] - at
<1>1. BestFitScanning /\ IsNextRange(r) /\ r \in Blocked /\ phase = "scan"
  BY Scanning DEF BestFitAdvance, BestFitScanning
<1>2. /\ hole' = IF fits /\ Tighter(chunk) THEN {chunk} ELSE hole
      /\ candidate' = IF r[2] > candidate THEN r[2] ELSE candidate
      /\ UNCHANGED <<input, phase, offset, current>>
  BY DEF BestFitAdvance
<1>3. /\ candidate = 0 \/ \E s \in Blocked : candidate = s[2]
      /\ \A best, other \in hole : best = other
      /\ \A best \in hole : \E v \in ChunkStarts : best = ChunkAt(v)
      /\ \A v \in ChunkStarts :
             v < candidate => \E best \in hole : NoLooser(best, ChunkAt(v))
  BY <1>1 DEF BestFitInv
<1>4. /\ candidate \in Nat /\ r[1] \in Nat /\ r[2] \in Nat /\ r[1] < r[2]
      /\ Alignment \in Nat \ {0} /\ Size \in Nat
  BY <1>1, Scanning, BlockedNonempty
<1>5. at \in Nat
  BY <1>4, AlignUpLeast
<1>6. /\ Blocked' = Blocked /\ Alignment' = Alignment /\ ChunkStarts' = ChunkStarts
      /\ \A v : ChunkAt(v)' = ChunkAt(v)
  BY <1>2 DEF input, Blocked, Alignment, Size, ChunkStarts, ChunkAt, Ends, Free
<1>7. /\ \A v \in ChunkStarts : candidate <= v /\ v < r[2] => v = candidate /\ candidate < r[1]
      /\ candidate < r[1] =>
            /\ Min(Ends(candidate)) = r[1]
            /\ at + Size <= r[1] => candidate \in ChunkStarts
  BY <1>1, <1>3, ChunksOfStep
<1>8. candidate < r[1] => chunk = ChunkAt(candidate) /\ (fits <=> candidate \in ChunkStarts)
  <2> SUFFICES ASSUME candidate < r[1]
               PROVE  chunk = ChunkAt(candidate) /\ (fits <=> candidate \in ChunkStarts)
    OBVIOUS
  <2>1. gap /\ Min(Ends(candidate)) = r[1]
    BY <1>4, <1>7
  <2>2. fits <=> at + Size <= r[1]
    BY <1>4, <1>5, <2>1
  <2> QED
    BY <1>7, <2>1, <2>2 DEF ChunkAt, ChunkStarts
<1>9. \A v \in ChunkStarts : ChunkAt(v).size \in Int /\ ChunkAt(v).offset \in Int
  <2> SUFFICES ASSUME NEW v \in ChunkStarts
               PROVE  ChunkAt(v).size \in Int /\ ChunkAt(v).offset \in Int
    OBVIOUS
  <2>1. v \in Nat /\ Ends(v) # {}
    BY MaxUIntAssumption DEF ChunkStarts
  <2>2. Ends(v) \in SUBSET Nat
    BY <1>1, BlockedNonempty DEF Ends
  <2>3. Min(Ends(v)) \in Nat
    BY <2>1, <2>2, MinNatural
  <2>4. AlignUp(v, Alignment) \in Nat
    BY <1>4, <2>1, AlignUpLeast
  <2> QED
    BY <2>3, <2>4 DEF ChunkAt
<1> HIDE DEF chunk, fits, at
<1>10. CASE fits /\ Tighter(chunk)
  <2>1. hole' = {chunk} /\ candidate < r[1] /\ candidate \in ChunkStarts
        /\ chunk = ChunkAt(candidate) /\ candidate' = r[2]
    BY <1>2, <1>4, <1>8, <1>10 DEF fits
  <2>2. ASSUME NEW v \in ChunkStarts, v < r[2] PROVE NoLooser(chunk, ChunkAt(v))
    <3>1. CASE v < candidate
      <4>1. PICK best \in hole : NoLooser(best, ChunkAt(v))
        BY <1>3, <3>1
      <4>2. PICK w \in ChunkStarts : best = ChunkAt(w)
        BY <1>3, <4>1
      <4>3. \/ chunk.size < best.size
            \/ chunk.size = best.size /\ chunk.offset < best.offset
        BY <1>10, <4>1 DEF Tighter
      <4> QED
        BY <1>9, <2>1, <4>1, <4>2, <4>3 DEF NoLooser
    <3>2. CASE v = candidate
      BY <1>9, <2>1, <3>2 DEF NoLooser
    <3>3. v \in Nat
      BY MaxUIntAssumption DEF ChunkStarts
    <3> QED
      BY <1>4, <1>7, <2>2, <3>1, <3>2, <3>3
  <2> QED
    BY <1>1, <1>6, <2>1, <2>2 DEF BestFitInv
<1>11. CASE ~(fits /\ Tighter(chunk))
  <2>1. hole' = hole
    BY <1>2, <1>11
  <2>2. ASSUME NEW v \in ChunkStarts, v < candidate'
        PROVE  \E best \in hole : NoLooser(best, ChunkAt(v))
    <3>1. CASE v < candidate
      BY <1>3, <3>1
    <3>2. CASE ~(v < candidate)
      <4>1. v \in Nat
        BY MaxUIntAssumption DEF ChunkStarts
      <4>2. v = candidate /\ candidate < r[1]
        BY <1>2, <1>4, <1>7, <2>2, <3>2, <4>1
      <4>3. ~Tighter(chunk) /\ chunk = ChunkAt(v)
        BY <1>8, <1>11, <2>2, <4>2
      <4>4. PICK best \in hole : ~ \/ chunk.size < best.size
                                   \/ chunk.size = best.size /\ chunk.offset < best.offset
        BY <4>3 DEF Tighter
      <4>5. PICK w \in ChunkStarts : best = ChunkAt(w)
        BY <1>3, <4>4
      <4>6. NoLooser(best, ChunkAt(v))
        BY <1>9, <2>2, <4>3, <4>4, <4>5 DEF NoLooser
      <4> QED
        BY <4>6
    <3> QED
      BY <3>1, <3>2
  <2>3. candidate' = 0 \/ \E s \in Blocked : candidate' = s[2]
    BY <1>1, <1>2, <1>3
  <2> QED
    BY <1>3, <1>6, <2>1, <2>2, <2>3 DEF BestFitInv
<1> QED
  BY <1>10, <1>11

LEMMA BestFitNext == Inv /\ BestFitInv /\ [Next]_vars => BestFitInv'
<1> SUFFICES ASSUME Inv, BestFitInv, [Next]_vars PROVE BestFitInv'
  OBVIOUS
<1>1. CASE phase' # "scan"
  BY <1>1 DEF BestFitInv, BestFitScanning
<1>2. ASSUME NEW class \in Unplaced, StartScan(class) PROVE BestFitInv'
  <2>1. candidate' = 0 /\ hole' = {}
    BY <1>2 DEF StartScan
  <2>2. ChunkStarts' \subseteq 0..MaxUInt
    BY DEF ChunkStarts
  <2>3. \A v \in ChunkStarts' : ~(v < 0)
    BY <2>2, MaxUIntAssumption
  <2> QED
    BY <2>1, <2>3 DEF BestFitInv
<1>3. ASSUME NEW r \in todo, BestFitAdvance(r), phase' = "scan" PROVE BestFitInv'
  <2>1. ~GiveUp
    BY <1>3 DEF GiveUp, Finish
  <2> QED
    BY <1>3, <2>1, BestFitStep
<1>4. ASSUME NEW r \in todo, FirstFitAdvance(r) PROVE BestFitInv'
  <2>1. strategy = "kFirstFit"
    BY <1>4 DEF FirstFitAdvance, FirstFitScanning
  <2>2. strategy' = strategy
    BY <1>4 DEF FirstFitAdvance, GiveUp, input
  <2> QED
    BY <2>1, <2>2 DEF BestFitInv, BestFitScanning
<1>5. CASE UNCHANGED vars
  BY <1>5 DEF BestFitInv, BestFitScanning, vars, input, scan, Blocked, ChunkStarts, ChunkAt,
              Alignment, Size, Ends, Free
<1>6. ASSUME phase' = "scan", Next
      PROVE  \/ \E class \in Unplaced : StartScan(class)
             \/ \E r \in todo : FirstFitAdvance(r) \/ BestFitAdvance(r)
             \/ UNCHANGED vars
  <2>1. Prepare => phase' # "scan"
    BY DEF Prepare, Finish
  <2>2. \A class \in Unplaced : PlacePinned(class) => phase' # "scan"
    BY DEF PlacePinned, Finish
  <2>3. \A at : PlaceCurrent(at) => phase' # "scan"
    BY DEF PlaceCurrent
  <2>4. GiveUp => phase' # "scan"
    BY DEF GiveUp, Finish
  <2>5. FirstFitAccept \/ FirstFitOverflow \/ BestFitAccept => phase' # "scan"
    BY <2>3, <2>4 DEF FirstFitAccept, FirstFitOverflow, BestFitAccept
  <2>6. Judge => phase' # "scan"
    BY DEF Judge, Finish
  <2> QED
    BY <1>6, <2>1, <2>2, <2>5, <2>6 DEF Next, Terminated
<1> QED
  BY <1>1, <1>2, <1>3, <1>4, <1>5, <1>6

\* When every range is visited, every chunk has been seen.
LEMMA AcceptsTightest ==
    ASSUME Inv, BestFitInv, BestFitScanning, Next, phase' = "place"
    PROVE  LET at == offset'[current]
           IN  IF FiniteChunks = {}
               THEN \A r \in BlockedRanges(problem, offset, current) : r[2] <= at
               ELSE \E c \in FiniteChunks :
                        /\ c.offset = at
                        /\ \A o \in FiniteChunks :
                               c.size < o.size \/ (c.size = o.size /\ c.offset <= o.offset)
<1>1. phase = "scan" /\ strategy = "kXlaSpatialBestFit"
  BY DEF BestFitScanning
<1>2. BestFitAccept
  <2>1. ~GiveUp
    BY DEF GiveUp, Finish
  <2>2. \A r \in todo : ~BestFitAdvance(r)
    BY <1>1, <2>1 DEF BestFitAdvance
  <2> QED
    BY <1>1, <2>1, <2>2 DEF Next, Prepare, PlacePinned, StartScan, FirstFitAdvance, FirstFitAccept,
                            FirstFitOverflow, FirstFitScanning, Judge, Terminated
<1>3. todo = {} /\ candidate \in Nat /\ Alignment \in Nat \ {0}
  BY <1>1, <1>2, Scanning DEF BestFitAccept
<1>4. \A r \in Blocked : r[1] \in Nat /\ r[2] \in Nat /\ r[1] < r[2] /\ r[2] <= candidate
  BY <1>1, <1>3, Scanning, BlockedNonempty
<1>5. ASSUME NEW v \in ChunkStarts
      PROVE  \E best \in hole : NoLooser(best, ChunkAt(v))
  <2>1. v \in Nat /\ Ends(v) # {}
    BY MaxUIntAssumption DEF ChunkStarts
  <2>2. PICK r \in Blocked : r[1] >= v
    BY <2>1 DEF Ends
  <2>3. v < candidate
    BY <1>3, <1>4, <2>1, <2>2
  <2> QED
    BY <2>3 DEF BestFitInv
<1>6. \A at : PlaceCurrent(at) => offset'[current] = at
  BY DEF PlaceCurrent, Extend
<1>7. CASE hole # {}
  <2>1. PICK best \in hole : PlaceCurrent(best.offset)
    BY <1>2, <1>7 DEF BestFitAccept
  <2>2. best \in FiniteChunks
    BY ChunksAreNamed DEF BestFitInv
  <2>3. \A o \in FiniteChunks : NoLooser(best, o)
    BY <1>5, ChunksAreNamed DEF BestFitInv
  <2> QED
    BY <1>6, <2>1, <2>2, <2>3 DEF NoLooser
<1>8. CASE hole = {}
  <2>1. FiniteChunks = {}
    BY <1>5, <1>8, ChunksAreNamed
  <2>2. PlaceCurrent(AlignUp(candidate, Alignment))
    BY <1>2, <1>8 DEF BestFitAccept, GiveUp, Finish
  <2>3. AlignUp(candidate, Alignment) \in Nat /\ AlignUp(candidate, Alignment) >= candidate
    BY <1>3, AlignUpLeast
  <2>4. \A r \in Blocked : r[2] <= offset'[current]
    BY <1>3, <1>4, <1>6, <2>2, <2>3
  <2> QED
    BY <2>1, <2>4 DEF Blocked
<1> QED
  BY <1>7, <1>8

\* A best-fit placement takes the tightest of the finite chunks the class fits
\* in, the lowest of equals, and the unbounded tail only when there is none
\* (FindBestFit).
THEOREM Tightest == Spec => TightestChunk
<1>1. Init => BestFitInv
  BY DEF Init, BestFitInv, BestFitScanning
<1>2. Spec => []Inv
  BY InitInv, NextInv, PTL DEF Spec
<1>3. Spec => []BestFitInv
  BY <1>1, <1>2, BestFitNext, PTL DEF Spec
<1> DEFINE Takes == LET at == offset'[current]
                    IN  IF FiniteChunks = {}
                        THEN \A r \in BlockedRanges(problem, offset, current) : r[2] <= at
                        ELSE \E c \in FiniteChunks :
                                 /\ c.offset = at
                                 /\ \A o \in FiniteChunks :
                                        c.size < o.size \/ (c.size = o.size /\ c.offset <= o.offset)
<1>4. Inv /\ BestFitInv /\ [Next]_vars => [BestFitScanning /\ phase' = "place" => Takes]_vars
  BY AcceptsTightest
<1> QED
  BY <1>2, <1>3, <1>4, PTL DEF Spec, TightestChunk
=============================================================================
