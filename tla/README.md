# A verification of dsa-solver in TLA+

dsa-solver (`src/src/dsa`) solves dynamic storage allocation: buffers with half-open lifetimes
are given addresses in memory pools, under colocations, separations, pins, reserved ranges and
capacities, and optionally with costs ("reuse penalties") for pairs of buffers that share
addresses. It is a sequential C++ library: no threads, no messages, nothing persistent. What is
hard in it is the long legal runs: recursions that undo their choices by hand, caches consulted
through set inclusion, scans with a cursor, limits that stop a search anywhere, arithmetic at the
end of the address space, and results that claim to be *proofs*.

Every solver answers with a status. `kFeasible` comes with a valid placement and, from an exact
solver, an optimal one; `kInfeasibleProven` says that there is none; `kTimeout` says that a limit
was met, possibly with the best placement so far. These promises are what is verified.

## Inventory

| Component (under `src/src/dsa`) | State | Operations | What makes it correct |
| --- | --- | --- | --- |
| `model/model.*`, `model/validator.cpp` | none; the problem and the solution | `ValidateProblem`, `ValidateSolution`, `EvaluateObjective` | the reference everything else is judged by |
| `algorithms/placement_engine.cpp` | classes placed so far; scan cursor; best gap | contraction, order, first fit, spatial best fit, verdict | disjoint placements; lowest or tightest offset; sound verdicts |
| `algorithms/reuse_penalty_search.cpp` | none | search space, fitting test, incremental cost, canonical offsets | agrees with the validator |
| `algorithms/canonical_exact_search.cpp` | recursion stack, partial placement, incumbent, limit | search one pool; loop over the pools | canonical offsets suffice; bookkeeping survives backtracking |
| `algorithms/reuse_penalty_exact_solvers.cpp`: master | recursion stack, selected set, best set | branch and bound over unhit cores | a minimum-cost hitting set |
| same file: oracle and loop | caches, cores, incumbent, phase | propose, ask, shrink, record, time out | exact answers; a new core per iteration |
| same file: `canonical_branch_and_bound` | seed | three heuristics, then the canonical search | lexicographic optimum |
| `first_fit_solver`, `xla_heap_solver` | none | checks, then the placement engine | as the engine |
| `local_search_solver`, `tvm_hill_climb_solver`, `pypto_structured_search_solver` | current and best order, budget, stagnation | move, place, accept, restart | budget respected; best never lost |
| `reuse_penalty_local_search_solver` | promoted edges, order, constructive incumbent | toggle, decode, accept | never worse than its seeds |
| `cypress_relaxation_solver` | offsets, finalized flags, relaxed edges | pack a pool, relax an edge | a packed placement is valid |
| `reuse_penalty_baseline_solvers` | promoted edges, decode order, best of the orders | greedy, promote and repair, colouring, low rank | the repair loop ends; exact special cases |
| `reuse_penalty_treewidth_solver` | factors, traces | eliminate, reconstruct | cost of the table = cost of the placement |
| `reuse_penalty_portfolio_solvers` | best timeout incumbent | span one, capacity two, dispatcher | promise of the whole = promise of the parts |
| `reuse_penalty_scale_solver` | windows, tables | grid DP, small band | no hard neighbour leaves its window early |
| `analysis/penalty_edge_derivation` | vector clocks | index, order, derive | an edge for every reuse that needs a sync, no other |
| `analysis/reuse_geometry` | offsets | passes of improvement | score never rises |
| `model/structured_*`, `model/architecture.*`, `io/*` | documents | parse, check, bind, write | conversion |
| `src/tools/*` | files, reports | drivers | I/O |

Components interact only by calls. The canonical search is both the engine of
`canonical_branch_and_bound` (best placement, seeded) and the oracle of `implicit_hitting_set`
(first placement, with the promoted edges turned into separations). The placement engine is the
decoder of every heuristic, and the heuristics seed the exact solvers. The local search calls the
baselines for its seeds. The dispatcher calls span one, capacity two, the treewidth DP and the
canonical branch and bound in turn. The validator is called on every answer.

`PROJECT.json` lists the same parts with their status, and the hazards at their lines.

## Modules

| Module | Models |
| --- | --- |
| `DsaModel` | the problem as a record, the validator and the objective as operators; unsigned arithmetic up to `MaxUInt` |
| `PreparedProblem` | colocation classes, what blocks what, partial placements, the verdict |
| `GreedyPlacement` | **abstract**: classes are placed one by one on admissible offsets |
| `PlacementEngine` | `PlaceWithOrder`: the order, `FindFirstFit` and `FindBestFit` range by range, every failure |
| `ExactSolver` | **abstract**: the one answer of an exact solver |
| `HittingSets` | soft edges, their cost, hitting sets and the cheapest of them |
| `ImplicitHittingSet` | `ImplicitHittingSetSolver::Solve` and `PromotedDsaOracle` |
| `HittingSetMaster` | `ExactHittingSetMaster` as a stack machine |
| `ReusePenaltySpace` | `BuildReusePenaltySearchSpace`: hard and soft neighbours, the fitting test, canonical offsets; the reference of all valid placements |
| `CanonicalSearch` | `RunCanonicalExactSearch` as a stack machine |
| `ReuseMethod` | what the specialised exact methods share: the call of a method, its loop over the pools, its answer |
| `SpanOne` | `span_one_exact`: phases, the matching by successive shortest paths, every Bellman-Ford pass, the greedy completion |
| `CapacityTwo` | `capacity_two_exact`: components, and the search over their flips as a stack machine |
| `TreewidthDp` | `treewidth_partition_dp`: the elimination order, the buckets over canonical partitions, the reconstruction |
| `Portfolio` | the dispatcher, **composed** of the three modules above and any answer `ExactSolver` allows the general method |
| `ReuseBaselines` | canonical greedy, promote and repair, promote all, unit random colouring, unit low rank |
| `PromotedSearch` | `reuse_penalty_local_search`, **composed** with the baselines it calls for its seeds |
| `ScaleSeparatedGrid` | `scale_separated_grid_dp`: every refusal, the sweep rank by rank, the small band, the final check |
| `CypressRelaxation` | `CypressRelaxationSolver::Solve` and `PackPool`: the sweep shift by shift, the relaxation pool by pool, the metrics and the final validation |
| `FirstFitDecoder` | `PlaceWithOrder` as a function from an order to a scored result, as the searches use it |
| `OrderSearch` | `local_search`, `pypto_structured_search` and `tvm_hill_climb` over that decoder |
| `DsaModelProofs` | lemmas about the operators: arithmetic, induction, saturating sums, classes, conflicts, the search space, arrangements, scores, the first-fit decoder |
| `PlacementEngineProofs`, `ImplicitHittingSetProofs`, `HittingSetMasterProofs`, `CanonicalSearchProofs`, `OrderSearchProofs`, `PromotedSearchProofs`, `ScaleSeparatedGridProofs` | theorems about the module each is named after |
| `MC*` | instances for TLC |

How state corresponds to code:

* A **class** (`SuperBuffer`, `PlacementSearchNode`) is the set of its buffers. A partial
  placement is a function from some classes to offsets; `placed_[i]` is membership in its domain.
* A **recursion** is a sequence with one frame per call in progress. `entering` says that the
  last call has begun and not yet tested its limits and bound; otherwise it is in its loop. A
  frame keeps the arguments of the call and the loop's remaining branches. `Return` is the end of
  a call *with the undo its caller performs*; in the code nothing happens between the two.
* `best`, `incumbent`, `seed`, `solution` are `{}` or a singleton, as the `optional`s and `found_`
  flags of the code.
* A loop over a sorted vector takes the next element by an `IsNext...` operator that states the
  sort; a loop over an unordered or caller-given vector takes any element.
* In `ImplicitHittingSet` a placement is represented by the set of soft edges it activates: the
  solver distinguishes nothing else. A promoted problem is feasible iff some achievable set is
  disjoint from the promoted edges. `Cost` is any monotone function of edge sets, which
  the saturating sum of the weights is.
* The three heuristics that seed the exact solvers are one nondeterministic offer of a valid
  placement or none. The constructor of a pool's search tests a seed node by node; a seed the
  validator has passed always passes (`SeedFits` in `CanonicalSearchProofs` proves it), so
  `SeedOf` takes it as it is.
* In `OrderSearch` an evaluation is an order with the decoder's result for it, kept apart in
  `current` and `best` as in the code, so that a best result next to the wrong order is a state of
  the model. The random generator is a free choice: of the move, its positions, the block, the
  endpoint, the high-water class, and of accepting a worse peak when the scale allows it at all. A
  perturbation of several moves is the set of orders that many moves reach.
* In `ReuseMethod` and the modules over it a call of a method is in `method`, `poolsLeft`, `poolNow`
  and `answer`; each method adds the variables of its own loop, and `Portfolio` leaves the others
  unchanged while one runs. `General` is not a stub of the canonical search but its contract: any
  answer of `ExactSolver`, with or without an incumbent at its limit.
* In `SpanOne` one step is one pass over the residual arcs. Distances and predecessors are those of
  the code, in its arc order; that the predecessors lead back to the source is a property.
* In `ReuseBaselines` and `PromotedSearch` a candidate is an order with a set of promoted edges, and
  what the decoder makes of it is looked up in `table`, the decoder's results for the problem at
  hand. The table is a variable that `Init` sets and nothing changes: it holds no state of
  the program, it keeps the decoding of one candidate from being computed in every formula that
  mentions it.
* In `ScaleSeparatedGrid` an entry of a layer is the code's `DpEntry`: the colours of the window, the
  cost, the entry before and the colour taken. A layer has its entries at places, numbers
  in the order of the code's vector but with gaps: an entry reached from place `n` by colour `x`, of
  `c` colours, is at `n * c + x`. So the first of the cheapest is the one at the least place, as
  with the vector's indices. The double loop over entries and colours of a rank
  is one step; nothing reads its state in between, and its two limits are tested on the counts that
  it ends with. Which of the two strikes first makes no difference: both give `kTimeout`.
* In `CypressRelaxation` the range of a class is `[offset, offset + size)` unless the sum
  overflows; then `RangesOverlap` holds of it and anything, which the model keeps.

`HittingSetMaster` and `CanonicalSearch` discharge what `ImplicitHittingSet` assumes of its two
subroutines: `MinimumFound` is the assumption on the master, and `CanonicalSearch`'s
`AnswersExactly` with `stopAfterFirst` the assumption on the oracle. Both are proved.

## Runs

| Run | Question | Bounds |
| --- | --- | --- |
| `placement` | do placements stay disjoint, are verdicts proofs, do the scans find the lowest / tightest offset, does the engine implement `GreedyPlacement`? | 3 buffers, 2 pools, `MaxUInt` = 7; sizes up to 4, alignments up to 4, multi-interval lifetimes, every combination with colocations, separations, exclusions, pins (also exclusive and contradictory), reserved ranges, a capacity, two strategies, two priority lists |
| `best_fit_gap` | *violation*: does a finite chunk that fits always win? | the same instance |
| `hitting_set` | are the answers exact, is every core new and irreducible, does a timeout keep the best? | 3 soft edges: all 256 families of achievable sets, costs that saturate, shrinking on and off, limits free to strike at every master and oracle call, 3 iterations |
| `hitting_set_master` | is the hitting set a minimum, does no irredundant minimum come before it, is what is superfluous in it free? | 4 edges of weight 0, 2, 2, 3 saturating at 5, all families of up to 3 cores, no limit and 4 nodes |
| `canonical_search` | do canonical offsets suffice, do the books agree after backtracking, is the promise kept with limits and seeds? | 3 buffers, 2 pools, `MaxUInt` = 7, 216 problems with hard and soft neighbours, colocation, alignment, a reserved range, capacities tight and too small, three objectives; no limit, 2 and 5 nodes; with and without the worst valid seed; for the first and for the best placement |
| `canonical_saturation` | *violation*: is the answer the lexicographic optimum of the whole problem? | one problem, 4 buffers in 2 pools |
| `cypress` | does the sweep keep what it has fixed clear, supported and legal, is the verdict that of the validator on the final placement, are aliases counted on it, does every problem it takes on end with a placement? | 4 buffers, 2 pools, `MaxUInt` = 63, 297 problems with auxiliary edges, reserved ranges, alignments, capacities, colocations, and the rejected features |
| `cypress_top` | *violation*: does a problem the solver takes on end with a placement when classes reach the top of the address space? | 3 buffers in one pool, `MaxUInt` = 15, four problems that reach `MaxUInt` |
| `portfolio` | does each method solve its pool (matching, flips, elimination), and does the whole keep the promise of `ExactSolver` and the best placement of the methods that timed out? | 4 unit buffers in 1 or 2 pools of 0 to 3 units, `MaxUInt` = 63: two and three phases, chains and cycles of conflicts, cliques that do not fit, costs at the bound of the flow network and beyond, units of two addresses, and the shapes each method refuses; six sets of limits, so that every method is the first to answer, to refuse and to time out |
| `promoted_search` | is the answer the best of all candidates and seeds, do the baselines answer what they claim, does everything end? | 3 and 4 buffers, `MaxUInt` = 15: chains, phases and a triangle of soft edges at capacities between the best peak and too small, a reserved range, a pool without a capacity, the rejected features; each baseline on its own and the search with 0, 3 and 7 evaluations, 0 to 2 restarts, stagnation limits 1 and 2, with and without worse candidates accepted |
| `scale_grid` | do the windows keep what later ranks ask for, has every layer the cheapest cost of every window, is the answer no dearer than any placement within the capacity? | 46 problems of 3 and 4 buffers in pools of 2 to 11 addresses, lifetimes that touch, overlap or have holes, sizes on and off the grid, `MaxUInt` = 11, which one pool has for its capacity; quanta of one and more, spans 0 to 4, each limit absent and striking |
| `order_search` | does a result stay with its order, is the best never lost and the budget spent exactly? | 12 problems of 3 buffers, or 5 in 4 classes, with pins, penalties, aliases, pipeline blocks, a capacity only some orders meet; `MaxUInt` = 15; up to 6 evaluations over 0, 2, 3 and 9 restarts, stagnation limits 0, 1 and 2; 3 attempts of the climb with and without acceptance of worse peaks and with a target |

Why the bounds are enough. Three classes are the least with which a class can be blocked from two
sides, a scan can pass a range that ends before the previous one, a search can backtrack over two
levels, and a support can itself be supported. The address space of eight bytes is small enough
that every overflow branch of the scans is taken and large enough for an aligned gap that fits.
Three soft edges are the least with which a core of two edges can be shrunk and two cores can
intersect; the master gets four so that the cheapest choice, an equal choice and a zero cost
compete. Every limit is tried absent and at a value that strikes in the middle of a search.
Unbounded counters appear nowhere: `nodes` is bounded by the size of the search. Four classes
make a shift of the sweep collide with two fixed ones. Three classes have six orders, whose first
fits differ in peak, penalty and fit, and six evaluations are enough for a restart from a best
order that is neither the seed nor the current one, with a kick in each restart; more restarts
than evaluations make the rounded share one.

The grid needs a window with a gap in it: the first and the third of three ranks related, the second
not, which three buffers give. Four ranks make layers of up to a few hundred entries. `MaxUInt` =
11 lies between most capacities and their augmented bands, so the sums overflow for some problems and
not for others. It is also the capacity of a pool without soft edges in three problems: with buffers
of 10 aligned to 2, in conflict (the product of `HarmonicUpper` wraps to tracks of no width, and the final
check fails) or not, and with buffers of 1 (the halving wraps, the tracks are the whole space
and the band overflows). A span-one matching needs two phases with two colours; an augmenting path that
takes back an assignment needs three pairs. The treewidth DP needs a bucket with two factors and a
node whose partition is renumbered, which three nodes give.

Three statements of the repository that the code does not keep are shown by the violation runs, each
with the place it is quoted from in `PROJECT.json`:

* `FindBestFit` returns "no offset" when the aligned start of a later gap overflows although an
  earlier gap fits, against its own comment.
* `canonical_branch_and_bound` minimises pool by pool; with two pools whose reuse costs saturate
  together the result is not the lexicographic optimum that it is documented to prove. The passing
  run `canonical_search` therefore has penalties that saturate within a pool and never across.
* `cypress_relaxation` is documented to repeat until all allocations are fixed. `RangesOverlap`
  takes a class that reaches past the end of the address space to overlap everything, and
  `AvoidReservedRanges` then jumps to the end of the same reserved range for ever. Without a
  reserved range the same answer can move an overflowed class down onto a fixed one, and a valid
  problem is called invalid. In the passing run `cypress` four classes fill the address space
  exactly, so that a class may run past the end and end the packing (`GiveUp`), but neither happens.

Two more are seen in the passing runs and not given a run of their own:

* `promote_all` reports "proved that no zero-penalty placement fits" although it separates pairs of
  penalty zero too; its status is right for the problem it promoted, which is what `AnswersHold`
  asks of it.
* `scale_separated_grid_dp` stacks a pool without soft edges with its capacity as the threshold of the
  harmonic classes. A buffer larger than the capacity then gets a track smaller than itself and
  overlaps one in conflict with it: the final check fails and the valid problem is answered
  `kInvalidProblem`, although the placement is documented to stay structurally valid when the capacity is taken
  away. There is a second way to that answer, for buffers within the capacity: when the capacity,
  rounded up to the common alignment, is no word, `HarmonicUpper` wraps. Both happen in `scale_grid`
  (`WidePool`, `LastWord`). `BoundsHold` says that there is no third: with every class of the soft-free pools within
  the capacity, and the aligned capacity a word (`SoftFreePoolsFit`), the final check never fails,
  which `Bounds` proves for every problem.

The `hitting_set` run also shows, by `QuestionsAreFresh` and `EveryIterationLearns`, that
`infeasible_cores_` never answers a question and that the duplicate test before `cores.push_back`
never fails: both are redundant, not wrong.

## Fairness

The specifications with a liveness property are `Init /\ [][Next]_vars /\ WF_vars(Next)`. The code is one sequential call
that never waits: as long as it has not returned, its next statement is executed. Weak fairness of
the whole next-state relation says only that; no single action is assumed to be fair, and in
particular a limit may strike or not. `HittingSetMaster`, `Portfolio` and `ScaleSeparatedGrid` state
no fairness: their loops run over a finite tree, list or table, and safety is what can go wrong in
them.

## Proofs

TLAPS checks, for every value of the constants under their stated assumptions:

* `DsaModelProofs`: what the operators compute. Alignment (`AlignUpLeast`; the alignment of a class
  is a multiple of its members'), the symmetry of conflicts and of overlap, classes as the closure
  of the colocations (`ClassIsOfMember`, `ColocatedTogether`). And saturating sums: the sum over
  a set is a word whatever element is taken first (`SumTakes`), and may be split (`SumJoins`) or
  renamed (`SumRenamed`). Such sums, closures and maxima are defined by recursion; the induction
  over them uses sets of numbers and the least member of one (`LeastNatural`, `NaturalInduction`,
  `RecursionExists`, `SetInduction`, `FoldExists`), where the library's theorems would need an
  operator as a parameter. For the searches it has arrangements of a set and the moves on them, the
  order of scores, the types of the decoder's results (`MetricsTyped`), and what makes a placement
  legal (`LegalAndFits`).
* `PlacementEngineProofs`: `Safety` (the inductive invariant `IInv`), `TypeCorrect`, `Disjoint`,
  `Feasible`, `InfeasibleProof`, `Refinement` and `Tightest` (`TightestChunk`). `BlockersDisjoint` is not inductive: that a scan
  returned a clear offset depends on what the scan has passed (`ScanInv`: every visited range ends
  at or below the cursor, and under first fit no lower offset is admissible), and that no later
  pin collides depends on `PinnedFirst`. The refinement needs `AlignUpLeast`: a first-fit step
  skips only inadmissible offsets. The two verdicts rest on a case split over the pins. What is
  not pinned lies where the validator wants it, member by member, because the class is as large and
  as aligned as each member needs. What is pinned lies where *every* solution has it, pins
  being what the validator compares offsets with. So a placement the validator rejects is the fault of
  pins alone and there is no other, and a pin that any solution tolerates is tolerated here.
  `Tightest` adds `BestFitInv`: while the blocked ranges are passed, `free_begin` is zero or the end
  of one of them, and the hole is a finite chunk no looser than any that starts below
  `free_begin`. A chunk is met at exactly one step, the one that finds the gap after its start
  (`ChunksOfStep`); that blocked ranges are not empty, because sizes are positive, keeps two
  chunks from starting alike.
  Assumptions: `MaxUIntAssumption`, and `ProblemsAssumption`: the fields of a problem have the
  types of the C++ structures. That sizes and alignments are positive and ranges ordered is
  what `ValidateProblem` checks, not an assumption.
* `ImplicitHittingSetProofs`: `Safety`, `TypeCorrect`, `Progress` (`EveryIterationLearns`) and
  `Refinement` (`AnswersExactly`: the solver implements `ExactSolver`). The invariant has what the
  caches and cores mean (`Learned`), that the master's proposal bounds every placement from below
  (`LowerBound`), and that a core in the making contains none of the known ones. Assumptions:
  finitely many edges, monotone costs. Three more follow with an invariant each
  beside `IInv`: `Fresh` (`QuestionsAreFresh`) from `KernelsKnown`, that every set known to be
  infeasible contains a core, recorded or being shrunk; `Minimal` (`CoresAreMinimal`) from
  `TriedAreNeeded`, that an edge needed in the larger core is needed in each part of it; and
  `KeepsBest` (`TimeoutKeepsBest`) from what `consider_incumbent` does with one answer.
* `HittingSetMasterProofs`: `Safety`, `Minimum` and `First`. `MinimumFound` follows from
  `NothingLost`: a hitting set better than the best found contains the path to some choice that is
  still to be made. That needs the books (`PathInv`: the selected set is that of the stack, each
  frame costs what its path costs). The first half of `FirstOfEquals` follows likewise from
  `FirstNotLost`, a second conjunct of `IInv`: a minimum set without a superfluous edge that comes before
  the best found is still to be met (`EndIsFirst`). The order of the edge sets is that of their
  least difference, which has to be transitive for it; and the leaf below such a set is the set
  itself. The second half is `SuperfluousIsFree`: without a superfluous edge that costs something a
  set of unsaturated cost would be cheaper. Where no edge is free and no cost saturates, the two say
  that the result is the first of those sets; else it may have a superfluous edge, and which one
  depends on the order of the cores. Assumptions: the costs
  are the saturating sums of the weights, and no core is empty (proved of the caller: `{} \notin
  cores` in `EveryIterationLearns`).
* `CanonicalSearchProofs`: `Safety`, the invariant `IInv` of the search, `Optimum`
  (`PoolOptimum`: the pool's answer is as good as any valid placement), `Exactness`
  (`AnswersExactly`: the search implements `ExactSolver` for the whole problem) and `KeepsSeed`
  (`TimeoutKeepsSeed`). The argument of `Safety` has two
  halves. *Undo*: when a call returns, the placements of the calls left are what they were
  (`PlacementsReturn`), so all that was said of them stays true, the branches they have still to
  take included (`BranchesStay`: computed before the subtree, used after it). *Redo*: a
  branch adds one class to the placement, and what the call carries along must be what the
  whole placement has: the saturating cost grows by the sum over the neighbours that pay
  (`CostGrows`, from the three facts about sums above), the peak by one end (`PeakGrows`), and no
  placed class that fitted ceases to fit (`FitsOneMore`, because the hard neighbours are symmetric).
  `CallsPlace` was added to the invariant for it: the calls are for distinct classes of the
  pool, so that taking the last one back takes exactly one class back. `Optimum` adds `SearchInv`:
  while no limit has struck, every full placement of the pool with each class at a canonical
  offset of those below it is no better than the one kept, or extends a branch still to be taken
  (`NothingLost`). That such placements suffice is an exchange argument: a class
  that is not at a canonical offset can be lowered to the next aligned end below it (`LowersSome`),
  the placement stays valid and gets no dearer (`Lowered`), and with a finite set below every offset
  that shrinks each time a lowest placement exists (`CanonicalEnough`). The scores the search compares
  are those of the validator's objective (`SamePeak`, `SameCost`). `Exactness` and `KeepsSeed` add
  `PoolsInv`: of the pools that are done, the offsets kept are a valid placement, in no pool
  worse than the seed and, while no limit has struck, in none worse than any other placement. From
  pools to the whole is `WholeNotWorse`: a placement of the problem restricts to one of each
  pool, its peaks are sums (or maxima) over the pools, its reuse cost is the sum of theirs. What is
  best in every pool has the least cost in each. Another placement with the same sum must then
  have the same cost in each pool (`CostsCancel`), so that the peaks decide in each pool, hence in all;
  this uses that reuse comes before the peaks in the objective, which the solver checks
  (`ReuseBeforePeaks`). A saturated sum can be the same for different summands. So the two
  theorems are about the problems with `CostsAddUp`: only one pool has penalties to pay, or all
  penalties together are less than the largest word. Without it they are false, as
  `canonical_saturation` shows; TLC checks it of the instance (`MCCostsAddUp`), in which costs do
  saturate within a pool. The search for the first placement (`stopAfterFirst`), the oracle of the
  implicit hitting set, compares no costs, and `Exactness` holds of it without the condition. Assumptions: what the
  callers check before they search (no pins, one pool for each class, capacities, no bank costs), the
  field types, and that a seed is a placement the validator has passed.
* `OrderSearchProofs`: `Safety` (`IInv`) and `KeepsBest` (`BestIsKept`) of
  the three order searches. The decoder's scores are shown to be words whatever the order, so
  that comparisons are of numbers; every move (swap, relocation, block, endpoint, high water)
  yields an arrangement of the same classes. The budget needs `PhaseInv`: no share is given
  out before the first restart, the last one ends at the budget, and each phase is met only
  with the options that lead to it. Assumptions: field types, blocks without
  repetition, natural limits.
* `PromotedSearchProofs`: `Safety` (`IInv`), `BestAnswered` (`OutputIsBest`) and `Answers`
  (`AnswersHold`). Two invariants are
  added to `IInv`. `HeldInv`: the stack of calls is one of a few shapes, and what the baselines hold on
  to and hand over are results with an objective of words whose fits the validator accepts.
  It needs the tables to be typed: each fixed order is an arrangement because its keys differ
  (`RanksFilled`: the elements of a finite set with distinct keys take every rank), a decoding with
  promoted edges is legal without them (`PromotedLegal`), a greedy placement is one after every class.
  `ScoresInv`: the least score met is among those kept and none kept is before it. A step adds a score and
  drops others, and what is dropped is never before what replaces it (`BestTakes`, `NextTakes`,
  `IncumbentTakes`); this uses that comparing candidates, by score, promoted edges and order, is a
  strict order with incomparability transitive (`BetterChain`). `CandidatesInv` says which of the best, the current
  and the next candidate may be better than which, by stage: an escape is never better than the
  candidate it leaves, so it cannot overtake the best one. `Answers` adds `AnswersInv`: what
  canonical_greedy keeps is one fit that nothing it tried comes before (`GreedyCovers`), and it stops
  early only over a fit that pays nothing, which is best because a baseline's terms are the
  capacity overflow, zero for a fit, and the reuse cost (`FreeIsBest`). Whatever the colours drawn, a unit
  colouring is valid (`ColoringValid`), so its validation never fails. A placement of the promoted problem pays
  nothing: classes that share addresses and do not conflict are a pair with a penalty, and every
  such pair is separated (`ApartIsFree`). Only the solver the user called returns to no one
  (`LastReturns`), so nothing is claimed of a fallback's answer before its caller has judged it. Assumptions: field types, lifetimes
  as finite sets of pairs of integers, natural limits.
* `ScaleSeparatedGridProofs`: `Safety`, the invariant `IInv` of the sweep, and `Bounds`, the
  bicriteria bound `BoundsHold`. The layers are handled
  through `Cheapest`: every grid placement of the ranks swept is seen by an entry that costs no
  more, and every entry costs what some grid placement costs that it sees (`CheapestLayer`: the same as
  `LayerIsCheapest`). One rank keeps it (`SweepKeepsCheapest`): the placements of one rank more
  are those of the ranks before with a colour that meets no hard neighbour (`MoreAssigned`), and
  their costs are saturating sums over pairs that split at the new rank (`MoreCosts`, by `SumJoins`
  and `SumRenamed`). Whether the colour fits, and what it costs, is asked of the window
  instead of the placement; both answer alike because `WindowsSuffice` holds before the step.
  The cheapest transition for a key is an entry by `MergedKeepsCheapest`. `WindowsSuffice` itself
  follows from `LastPartner` being a maximum and the window of a rank being what is kept after it.
  `LayersLeadBack` was added for the way back: colours are read off through `from`, and their
  multiples of the quantum must be words below the band's limit. `Bounds` adds two invariants to
  `IInv`. `LayersLinked`: every entry is what its colour leads to from the entry it names. So the
  way back through the layers is a grid placement that costs what the best entry costs, and none
  costs less (`WayBackIsCheapest`). From placements to the grid: add to an offset its share of
  epsilon and round to the quantum. Two large nodes that do not meet before do not meet on the grid
  either, the added share making up for the size rounded up (`RoundedEnds`), and the result ends in
  the augmented band; so any placement within the capacity has a grid placement that costs no more
  (`RoundedAssigned`), and an empty layer proves that there is no such placement (`EmptyLayer`).
  From the grid to placements: offsets at multiples of the quantum stay in the augmented
  band and share addresses only where the colours meet (`GridPlaces`); the small nodes go
  above, each in a track as wide as its harmonic class, those in conflict in different tracks
  (`SmallBandStands`); a track is no narrower than its nodes, the wraps of `HarmonicUpper` included, as long as
  the threshold in whole quanta is a word (`HarmonicTyped`), which the size of a large node always is. `PoolsDone`: every pool that is done stands, within its band and as cheap
  as any placement leaves it, and `rounded_cost` is the sum over them. At the end that sum is the
  reuse cost the validator computes (`CostOfPools`) and the placement is one that it passes
  (`SoundIsLegal`), unless in a pool without soft edges a node is larger than the capacity or the
  capacity, in whole quanta, is no word.
  Saturated sums do no harm here: a sum of costs none of which is larger is not larger. Assumptions:
  the field types, lifetimes as finite sets of pairs of integers, natural limits.

Only model-checked:

* termination everywhere: liveness and ENABLED are out of the prover's reach;
* `CypressRelaxation.IInv` and its verdicts. The invariant does not hold of every problem: a class
  whose range overflows may be moved down onto a fixed one, which is what `cypress_top` shows in
  its other form. The proof would need the instance's bound on the address space;
* `Portfolio` with its methods.

## Not modelled

Diagnostics, metrics other than the alias counts, names and bank geometry (the metric `bank_cost`
is always 0 in the code, and in the model); PyPTO
annotations beyond the blocks and aliases that `pypto_structured_search` moves; flexible pools,
which most solvers reject; in `canonical_branch_and_bound`, the combinations of features it rejects
before it starts. The rounding of `unit_low_rank` uses floating-point vectors: the model lets it
return any colouring its shape allows. Wall-clock limits do not exist in the code; its limits are
counts.

`analysis/penalty_edge_derivation` (vector clocks of streams) and `analysis/reuse_geometry`
(statistics and a sparse reference placement) are analyses beside the solvers and not modelled yet.
`model/structured_problem`, `model/structured_json`, `model/architecture`, `io/*` and the tools are
conversions and drivers without state: parsing, checking, fingerprinting, writing.

## Plan

1. *(done)* `DsaModel`, `PreparedProblem`, `GreedyPlacement`, `PlacementEngine`, with proofs.
2. *(done)* `ExactSolver`, `HittingSets`, `ImplicitHittingSet`, `HittingSetMaster`, with proofs.
3. *(done)* `ReusePenaltySpace`, `CanonicalSearch`.
4. *(done)* `CypressRelaxation`; `FirstFitDecoder` and `OrderSearch`.
5. *(done)* `SpanOne`, `CapacityTwo`, `TreewidthDp`, composed in `Portfolio`.
6. *(done)* `ReuseBaselines`, composed in `PromotedSearch`.
7. *(done)* `ScaleSeparatedGrid`.
8. `PenaltyEdges`: vector clocks against the happens-before closure; an edge iff a reuse needs a
   sync.
9. Proofs. *(done)* the verdicts of the engine, `FirstOfEquals`, the invariants of
   `CanonicalSearch`, `OrderSearch`, `PromotedSearch` and `ScaleSeparatedGrid`, the optimum of a
   pool and of the whole problem, the best answer of the local search, the promises of the baselines,
   the bicriteria bound of the grid. *(left)* that the dispatcher keeps the
   promise and the best of its methods (`Portfolio`: the three methods need invariants on the types of their
   colours and offsets first).
