-------------------------- MODULE CanonicalSearch --------------------------
(***************************************************************************)
(* RunCanonicalExactSearch of src/dsa/algorithms/canonical_exact_search    *)
(* .cpp, over the search space and the helpers of reuse_penalty_search.cpp:*)
(* pool by pool, a depth-first branch and bound that places the classes in *)
(* the order of their offsets, each at zero, behind a reserved range or on *)
(* top of a placed neighbour.  It is the oracle of the implicit hitting    *)
(* set solver and the engine of canonical_branch_and_bound.                *)
(*                                                                         *)
(* A node is a colocation class.  The recursion is a stack with one frame  *)
(* for each call of Search: the class and offset it was called for, the    *)
(* cost and peak so far, and the branches its loop has still to take.      *)
(* A placement of a pool is scored by its reuse cost and its peak; the     *)
(* other terms of the objective are zero for it.                           *)
(***************************************************************************)
EXTENDS ReusePenaltySpace, SequencesExt

CONSTANTS Problems,     \* problems with fixed capacities, no pins, and their terms
          NodeLimits,   \* options.node_limit, zero for none
          SeedsOf(_)    \* options.incumbent_offsets, {} or {a valid placement}

Peaks == {"total_peak", "max_peak"}

\* The solvers that call the search take no bank costs, and the reuse cost only
\* before the peaks.
ReuseBeforePeaks(p) ==
    /\ \A i \in DOMAIN p.terms : p.terms[i] # "bank_cost"
    /\ \A i, j \in DOMAIN p.terms : p.terms[i] = "reuse" /\ p.terms[j] \in Peaks => i < j

\* The exact solvers reject every other problem.
ASSUME ProblemsAssumption ==
    \A p \in Problems : /\ PrepareAccepts(p) /\ ~FlexiblePools(p)
                        /\ DOMAIN p.capacity = p.pools /\ p.pins = {}
                        /\ ProblemTyped(p) /\ ObjectiveTyped(p) /\ ReuseBeforePeaks(p)

ASSUME LimitsAssumption == NodeLimits \subseteq Nat

\* A seed is a placement the validator has passed; its offsets are words.
ASSUME SeedsAssumption ==
    \A p \in Problems : \A s \in SeedsOf(p) :
        s = {} \/ \E sol \in s : /\ s = {sol} /\ ValidSolution(p, sol)
                               /\ \A b \in p.buffers : sol[b].offset \in 0..MaxUInt

VARIABLES
    problem, nodeLimit, stopAfterFirst, seed,
    space,          \* ReusePenaltySearchSpace
    poolsLeft,      \* the pools the loop has still to search
    poolNow,        \* {} or {the pool being searched}
    stack, entering,
    placed,         \* placed_ and offsets_: a partial placement of the pool
    best,           \* {} or {[offset, score]}: best_offsets_ and best_score_, if found_
    nodes,          \* search_nodes_
    limitHit,
    offsets,        \* the placement of the pools searched so far
    anyTimeout, solution, status

input == <<problem, nodeLimit, stopAfterFirst, seed, space>>
search == <<stack, entering, placed, best, nodes, limitHit>>
result == <<offsets, anyTimeout, solution, status>>
vars == <<input, poolsLeft, poolNow, search, result>>

-----------------------------------------------------------------------------
(***************************************************************************)
(* The score of a placement of one pool, compared by ScoreBefore.          *)
(***************************************************************************)
PoolScore(p, cost, peak) ==
    [i \in DOMAIN p.terms |->
        IF p.terms[i] = "reuse" THEN cost ELSE IF p.terms[i] \in Peaks THEN peak ELSE 0]

PeakOf(p, s, q, off) ==
    Max({0} \cup {r[2] : r \in p.reserved[q]} \cup {off[c] + s.size[c] : c \in DOMAIN off})

PoolReuseCost(s, off) ==
    SaturatingSum(LAMBDA edge : s.soft[edge],
                  {edge \in DOMAIN s.soft :
                      /\ Min(edge[1]) < Min(edge[2]) /\ {edge[1], edge[2]} \subseteq DOMAIN off
                      /\ Touches(s, off, edge[1], off[edge[1]], edge[2])})

-----------------------------------------------------------------------------
NoOffsets == [c \in {} |-> 0]

Init ==
    /\ problem \in Problems /\ nodeLimit \in NodeLimits /\ stopAfterFirst \in BOOLEAN
    /\ seed \in SeedsOf(problem)
    /\ space = SearchSpace(problem)
    /\ poolsLeft = problem.pools /\ poolNow = {}
    /\ stack = <<>> /\ entering = FALSE /\ placed = NoOffsets
    /\ best = {} /\ nodes = 0 /\ limitHit = FALSE
    /\ offsets = NoOffsets /\ anyTimeout = FALSE
    /\ solution = {} /\ status = "none"

\* One invocation of Search for class at an offset; the first has no class.
Call(class, at, cost, peak) ==
    [class |-> class, at |-> at, cost |-> cost, peak |-> peak, todo |-> {}]

NoClass == {}

SkipPool(q) ==
    /\ poolNow = {} /\ status = "none" /\ NodesOf(space, q) = {}
    /\ poolsLeft' = poolsLeft \ {q}
    /\ UNCHANGED <<input, poolNow, search, result>>

\* The placement of a seed in one pool, with its score.  (Every seed is a
\* validated placement, so it passes FitsReuseNodeAt node by node.)
SeedPlacement(s, q, sol) == [c \in NodesOf(s, q) |-> sol[Min(c)].offset]

SeedOf(q) ==
    {[offset |-> off,
      score |-> PoolScore(problem, PoolReuseCost(space, off), PeakOf(problem, space, q, off))] :
         off \in {SeedPlacement(space, q, sol) : sol \in seed}}

\* Mutant of StartPool: the seed is not taken as the first incumbent.
StartPoolUnseeded(q) ==
    /\ poolNow = {} /\ status = "none" /\ NodesOf(space, q) # {}
    /\ poolsLeft' = poolsLeft \ {q} /\ poolNow' = {q}
    /\ best' = {}
    /\ stack' = <<Call(NoClass, 0, 0, PeakOf(problem, space, q, NoOffsets))>> /\ entering' = TRUE
    /\ nodes' = 0 /\ limitHit' = FALSE
    /\ UNCHANGED <<input, placed, result>>

\* PoolCanonicalSearch is constructed and run.
StartPool(q) ==
    /\ poolNow = {} /\ status = "none" /\ NodesOf(space, q) # {}
    /\ poolsLeft' = poolsLeft \ {q} /\ poolNow' = {q}
    /\ best' = IF stopAfterFirst THEN {} ELSE SeedOf(q)
    /\ stack' = <<Call(NoClass, 0, 0, PeakOf(problem, space, q, NoOffsets))>> /\ entering' = TRUE
    /\ nodes' = 0 /\ limitHit' = FALSE
    /\ UNCHANGED <<input, placed, result>>

-----------------------------------------------------------------------------
(***************************************************************************)
(* PoolCanonicalSearch::Search                                             *)
(***************************************************************************)
Top == Last(stack)

Stopped == limitHit \/ (stopAfterFirst /\ best # {})

AtLimit == nodeLimit # 0 /\ nodes >= nodeLimit

Searching == stack # <<>> /\ entering /\ ~Stopped

\* Search returns, and its caller takes the class back.
Return ==
    /\ stack' = Front(stack) /\ entering' = FALSE
    /\ placed' = [c \in DOMAIN placed \ {Top.class} |-> placed[c]]

LowerBound == PoolScore(problem, Top.cost, Top.peak)

Bounded == \E kept \in best : ~ScoreBefore(LowerBound, kept.score)

\* Mutant of HitLimit: the limit is met and not acted upon.
HitLimitStays == Searching /\ AtLimit /\ UNCHANGED vars

HitLimit ==
    /\ Searching /\ AtLimit
    /\ limitHit' = TRUE
    /\ Return
    /\ UNCHANGED <<input, poolsLeft, poolNow, best, nodes, result>>

Prune ==
    /\ Searching /\ ~AtLimit /\ Bounded
    /\ nodes' = nodes + 1
    /\ Return
    /\ UNCHANGED <<input, poolsLeft, poolNow, best, limitHit, result>>

Leaf ==
    /\ Searching /\ ~AtLimit /\ ~Bounded
    /\ \E q \in poolNow : DOMAIN placed = NodesOf(space, q)
    /\ nodes' = nodes + 1
    /\ best' = {[offset |-> placed, score |-> LowerBound]}
    /\ Return
    /\ UNCHANGED <<input, poolsLeft, poolNow, limitHit, result>>

\* c at this offset comes after the class the call was made for.
Comes(call, c, at) ==
    \/ call.class = NoClass
    \/ at > call.at
    \/ at = call.at /\ Min(c) > Min(call.class)

\* The branches of a call made with the partial placement off.
Branches(p, s, q, off, call) ==
    UNION {{[class |-> c, at |-> at, cost |-> IncrementalReuseCost(s, off, c, at)] :
               at \in {x \in CanonicalOffsetsForNode(p, s, off, c) :
                          Comes(call, c, x) /\ FitsReuseNodeAt(p, s, off, c, x)}} :
           c \in NodesOf(s, q) \ DOMAIN off}

Expand ==
    /\ Searching /\ ~AtLimit /\ ~Bounded
    /\ \E q \in poolNow : /\ DOMAIN placed # NodesOf(space, q)
                       /\ stack' = [stack EXCEPT ![Len(stack)].todo =
                                        Branches(problem, space, q, placed, Top)]
    /\ nodes' = nodes + 1
    /\ entering' = FALSE
    /\ UNCHANGED <<input, poolsLeft, poolNow, placed, best, limitHit, result>>

\* The next branch in the sort by (cost, offset, representative).
IsNextBranch(b) ==
    \A o \in Top.todo :
        \/ b.cost < o.cost
        \/ b.cost = o.cost /\ b.at < o.at
        \/ b.cost = o.cost /\ b.at = o.at /\ Min(b.class) <= Min(o.class)

\* Mutant of Descend: the peak of the child is that of its own class.
DescendForgetful ==
    /\ stack # <<>> /\ ~entering /\ ~Stopped
    /\ \E b \in Top.todo :
          /\ IsNextBranch(b)
          /\ placed' = Extend(placed, b.class, b.at)
          /\ stack' = Append([stack EXCEPT ![Len(stack)].todo = @ \ {b}],
                             Call(b.class, b.at, SaturatingAdd(Top.cost, b.cost),
                                  b.at + space.size[b.class]))
    /\ entering' = TRUE
    /\ UNCHANGED <<input, poolsLeft, poolNow, best, nodes, limitHit, result>>

Descend ==
    /\ stack # <<>> /\ ~entering /\ ~Stopped
    /\ \E b \in Top.todo :
          /\ IsNextBranch(b)
          /\ placed' = Extend(placed, b.class, b.at)
          /\ stack' = Append([stack EXCEPT ![Len(stack)].todo = @ \ {b}],
                             Call(b.class, b.at, SaturatingAdd(Top.cost, b.cost),
                                  Max({Top.peak, b.at + space.size[b.class]})))
    /\ entering' = TRUE
    /\ UNCHANGED <<input, poolsLeft, poolNow, best, nodes, limitHit, result>>

LoopEnds ==
    /\ stack # <<>>
    /\ Stopped \/ (~entering /\ Top.todo = {})
    /\ Return
    /\ UNCHANGED <<input, poolsLeft, poolNow, best, nodes, limitHit, result>>

-----------------------------------------------------------------------------
(***************************************************************************)
(* The loop over the pools goes on with a placement, or returns without.   *)
(***************************************************************************)
\* The placements of the pools before, and of one pool more.
Joined(off, before) ==
    [c \in DOMAIN off \cup DOMAIN before |-> IF c \in DOMAIN off THEN off[c] ELSE before[c]]

\* Mutant of PoolDone: the timeout of an earlier pool is forgotten.
PoolDoneForgets ==
    /\ poolNow # {} /\ stack = <<>>
    /\ poolNow' = {}
    /\ IF best # {}
       THEN /\ \E kept \in best : offsets' = Joined(kept.offset, offsets)
            /\ anyTimeout' = limitHit
            /\ UNCHANGED <<solution, status>>
       ELSE /\ status' = IF limitHit THEN "kTimeout" ELSE "kInfeasibleProven"
            /\ UNCHANGED <<offsets, anyTimeout, solution>>
    /\ UNCHANGED <<input, poolsLeft, search>>

PoolDone ==
    /\ poolNow # {} /\ stack = <<>>
    /\ poolNow' = {}
    /\ IF best # {}
       THEN /\ \E kept \in best : offsets' = Joined(kept.offset, offsets)
            /\ anyTimeout' = (anyTimeout \/ limitHit)
            /\ UNCHANGED <<solution, status>>
       ELSE /\ status' = IF limitHit THEN "kTimeout" ELSE "kInfeasibleProven"
            /\ UNCHANGED <<offsets, anyTimeout, solution>>
    /\ UNCHANGED <<input, poolsLeft, search>>

AllPoolsDone ==
    /\ poolNow = {} /\ poolsLeft = {} /\ status = "none"
    /\ status' = IF anyTimeout THEN "kTimeout" ELSE "kFeasible"
    /\ solution' = {SolutionOf(problem, offsets)}
    /\ UNCHANGED <<input, poolsLeft, poolNow, search, offsets, anyTimeout>>

Terminated == status # "none" /\ UNCHANGED vars

Next ==
    \/ \E q \in poolsLeft : SkipPool(q) \/ StartPool(q)
    \/ HitLimit \/ Prune \/ Leaf \/ Expand
    \/ Descend \/ LoopEnds
    \/ PoolDone \/ AllPoolsDone
    \/ Terminated

Spec == Init /\ [][Next]_vars /\ WF_vars(Next)

-----------------------------------------------------------------------------
(***************************************************************************)
(* Properties                                                              *)
(***************************************************************************)
Scores == [DOMAIN problem.terms -> 0..MaxUInt]

\* The partial placement, the incumbent and the answer have the shapes the
\* code gives them, and a status is set only when the last pool is done.
TypeOK ==
    /\ nodeLimit \in Nat /\ stopAfterFirst \in BOOLEAN
    /\ poolsLeft \subseteq problem.pools /\ poolNow \in {{}} \cup {{q} : q \in problem.pools}
    /\ DOMAIN placed \subseteq DOMAIN space.pool
    /\ placed \in [DOMAIN placed -> 0..MaxUInt]
    /\ \A kept \in best : kept.score \in Scores
    /\ limitHit \in BOOLEAN /\ entering \in BOOLEAN /\ anyTimeout \in BOOLEAN
    /\ nodes \in Nat /\ (nodeLimit # 0 => nodes <= nodeLimit)
    /\ status \in {"none", "kFeasible", "kTimeout", "kInfeasibleProven"}
    /\ (status # "none") => (poolNow = {} /\ stack = <<>> /\ placed = NoOffsets)
    /\ (status = "kFeasible") => (solution # {})

\* The classes placed by the first calls of a stack.
PlacedBy(calls, off, k) == [c \in {calls[i].class : i \in 2..k} |-> off[c]]

Branch == [class : DOMAIN space.pool, at : 0..MaxUInt, cost : 0..MaxUInt]

Invocation ==
    [class : {NoClass} \cup DOMAIN space.pool, at : 0..MaxUInt,
     cost : 0..MaxUInt, peak : 0..MaxUInt, todo : SUBSET Branch]

\* The calls in progress are those of one pool's search: the first places
\* nothing, the others different classes of the pool.
CallsPlace ==
    /\ stack \in Seq(Invocation)
    /\ stack # <<>> => poolNow # {} /\ stack[1].class = NoClass
    /\ \A i \in 2..Len(stack) : \A q \in poolNow : stack[i].class \in NodesOf(space, q)
    /\ \A i, j \in 2..Len(stack) : stack[i].class = stack[j].class => i = j

\* The placed classes are those of the calls in progress, in increasing order
\* of offset and representative.
StackIsPlacement ==
    /\ DOMAIN placed = {stack[i].class : i \in 2..Len(stack)}
    /\ \A i \in 2..Len(stack) : placed[stack[i].class] = stack[i].at
    /\ \A i \in 3..Len(stack) :
          \/ stack[i - 1].at < stack[i].at
          \/ /\ stack[i - 1].at = stack[i].at
             /\ Min(stack[i - 1].class) < Min(stack[i].class)

\* The cost and the peak that every call carries along are those of the
\* partial placement it was made with.
CarriedAlong ==
    \A q \in poolNow : \A i \in DOMAIN stack :
        /\ stack[i].cost = PoolReuseCost(space, PlacedBy(stack, placed, i))
        /\ stack[i].peak = PeakOf(problem, space, q, PlacedBy(stack, placed, i))

\* What a call has still to take, whatever was placed and taken back since, are
\* branches of the partial placement it was made with.
BranchesStay ==
    \A q \in poolNow : \A i \in DOMAIN stack :
        stack[i].todo \subseteq Branches(problem, space, q, PlacedBy(stack, placed, i), stack[i])

\* No two placed classes that block each other meet.
PartialPlacementFits ==
    \A c \in DOMAIN placed : FitsReuseNodeAt(problem, space, placed, c, placed[c])

\* The incumbent covers its pool and carries its own score.
IncumbentScored ==
    \A q \in poolNow : \A kept \in best :
        /\ DOMAIN kept.offset = NodesOf(space, q)
        /\ kept.score = PoolScore(problem, PoolReuseCost(space, kept.offset),
                                  PeakOf(problem, space, q, kept.offset))
        /\ \A c \in NodesOf(space, q) : FitsReuseNodeAt(problem, space, kept.offset, c, kept.offset[c])

\* Undo and redo keep the books: after any sequence of calls, returns and
\* early exits the partial placement, its cost and its peak agree.
IInv ==
    /\ TypeOK /\ CallsPlace /\ StackIsPlacement /\ CarriedAlong /\ BranchesStay
    /\ PartialPlacementFits /\ IncumbentScored

-----------------------------------------------------------------------------
ValidPlacements == Tabulated([p \in Problems |-> PlacementsOf(p)])

OptimalPlacements == Tabulated([p \in Problems |-> BestOf(p, ValidPlacements[p])])

\* The placements of one pool, and the scores the search gives them.
PoolPlacements(p, q) ==
    {off \in [{c \in Classes(p) : PoolOf(p, c) = q} -> 0..p.capacity[q]] :
        \A c \in DOMAIN off :
            /\ Admissible(p, [d \in DOMAIN off \ {c} |-> off[d]], c, off[c])
            /\ off[c] + ClassSize(p, c) <= p.capacity[q]}

PoolScores ==
    Tabulated([p \in Problems |-> Tabulated([q \in p.pools |->
        {PoolScore(p, ReuseCost(p, SolutionOf(p, off)), PeakOfPool(p, SolutionOf(p, off), q)) :
            off \in PoolPlacements(p, q)}])])

\* The canonical offsets are enough: a search of one pool that met no limit has
\* kept a placement as good as any placement of the pool at whatever offsets,
\* or there is none.
PoolOptimum ==
    \A q \in poolNow :
        stack = <<>> /\ ~limitHit /\ ~stopAfterFirst =>
            {kept.score : kept \in best} =
                IF PoolScores[problem][q] = {} THEN {} ELSE {BestScore(PoolScores[problem][q])}

\* A search that stops at its limit gives back nothing worse than the
\* placement it was seeded with.
TimeoutKeepsSeed ==
    status = "kTimeout" /\ ~stopAfterFirst =>
        \A sol \in seed :
            \E kept \in solution :
                ~ScoreBefore(ObjectiveScore(problem, sol), ObjectiveScore(problem, kept))

\* What callers rely on: a placement called feasible is a lexicographic
\* optimum of the whole problem (any valid placement when the first will do),
\* infeasibility is a proof, and a limit excuses only a timeout.
Exact == INSTANCE ExactSolver
            WITH placements <- ValidPlacements[problem],
                 optimal <- IF stopAfterFirst THEN ValidPlacements[problem]
                            ELSE OptimalPlacements[problem],
                 limited <- nodeLimit # 0

AnswersExactly == Exact!ExactSpec

\* The sum over the pools tells their reuse costs apart: only one pool has
\* penalties to pay, or all of the penalties together are representable.
CostsAddUp(p) ==
    \/ \E q \in p.pools : \A edge \in SoftEdges(p) : PoolOf(p, edge[1]) = q
    \/ SaturatingSum(LAMBDA i : p.penalties[i].cost, DOMAIN p.penalties) < MaxUInt

\* The claim of the documentation for the whole problem: an answer that met no
\* limit is the lexicographic optimum.
LexicographicOptimum ==
    status = "kFeasible" /\ ~stopAfterFirst => solution \subseteq OptimalPlacements[problem]

\* The recursion ends with a status.
Terminates == <>(status # "none")
=============================================================================
