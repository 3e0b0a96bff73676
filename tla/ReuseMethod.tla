---------------------------- MODULE ReuseMethod ----------------------------
(***************************************************************************)
(* The frame that span_one_min_cost_flow, capacity_two_exact and           *)
(* treewidth_partition_dp share: each rejects what it was not made for,    *)
(* colours the unit buffers of one pool after the other, and has the       *)
(* complete placement validated (BuildValidatedReuseResult).  The method   *)
(* that runs owns the working variables of its module.                     *)
(***************************************************************************)
EXTENDS ReusePenaltySpace, SequencesExt

CONSTANTS Problems,     \* problems with fixed capacities and no pins, and their terms
          Options       \* the limits of the methods, one record for each run

\* canonical_branch_and_bound and the methods reject every other problem.
ASSUME ProblemsAssumption ==
    \A p \in Problems : /\ PrepareAccepts(p) /\ ~FlexiblePools(p)
                        /\ DOMAIN p.capacity = p.pools /\ p.pins = {}

VARIABLES
    problem, options, space,
    method,                 \* the solver that runs, or "none"
    poolsLeft, poolNow,     \* the loop over the pools; poolNow is {} or {a pool}
    offsets, anyTimeout,
    answer                  \* [status, solution] of the method

input == <<problem, options, space>>
frame == <<method, poolsLeft, poolNow, offsets, anyTimeout, answer>>

NoOffsets == [c \in {} |-> 0]

NoAnswer == [status |-> "none", solution |-> {}]

-----------------------------------------------------------------------------
\* CheckSolverCompatibility for the capabilities of the three methods.
CompatibleWithMethods ==
    /\ \A q \in problem.pools : problem.reserved[q] = {}
    /\ Range(problem.terms) \subseteq {"capacity_overflow", "reuse"}

RequiresReuse == "reuse" \in Range(problem.terms)

\* Uniform unit sizes and compatible alignment.
UniformUnits(q) ==
    \A c, d \in NodesOf(space, q) :
        space.size[c] = space.size[d] /\ space.size[c] % space.alignment[c] = 0

UnitOf(q) == space.size[CHOOSE c \in NodesOf(space, q) : TRUE]

ColorsOf(q) == problem.capacity[q] \div UnitOf(q)

Lowest(S) == Min({Min(c) : c \in S})

\* The nodes of S in the order of their representatives.
Ranked(S) ==
    [i \in 1..Cardinality(S) |->
        CHOOSE c \in S : Cardinality({d \in S : Min(d) < Min(c)}) = i - 1]

HardNeighbors(c) == {d \in DOMAIN space.pool : <<c, d>> \in space.hard}

\* What a breadth-first walk over hard neighbours reaches from c.
HardComponent(c) ==
    LET reached[i \in Nat] ==
            IF i = 0 THEN {c}
            ELSE LET nearer == reached[i - 1]
                 IN  nearer \cup UNION {HardNeighbors(d) : d \in nearer}
    IN  reached[Cardinality(DOMAIN space.pool)]

HardComponents(q) == {HardComponent(c) : c \in NodesOf(space, q)}

-----------------------------------------------------------------------------
Running(name) == method = name /\ answer = NoAnswer

AnswerWith(status) ==
    /\ answer' = [status |-> status, solution |-> {}]
    /\ UNCHANGED <<method, poolsLeft, poolNow, offsets, anyTimeout>>

\* The loop turns to pool q.
TakesPool(q) ==
    /\ poolNow = {} /\ q \in poolsLeft
    /\ poolNow' = {q} /\ poolsLeft' = poolsLeft \ {q}
    /\ UNCHANGED <<method, offsets, anyTimeout, answer>>

\* A pool without nodes.
PassesPool(q) ==
    /\ poolNow = {} /\ q \in poolsLeft /\ NodesOf(space, q) = {}
    /\ poolsLeft' = poolsLeft \ {q}
    /\ UNCHANGED <<method, poolNow, offsets, anyTimeout, answer>>

\* The nodes of the pool are placed at multiples of its unit.
ColorsPool(color, late) ==
    /\ offsets' = [c \in DOMAIN color |-> color[c] * space.size[c]] @@ offsets
    /\ anyTimeout' = (anyTimeout \/ late)
    /\ poolNow' = {}
    /\ UNCHANGED <<method, poolsLeft, answer>>

AllPoolsColored == poolNow = {} /\ poolsLeft = {}

\* BuildValidatedReuseResult
Validated(status) ==
    LET sol == SolutionOf(problem, offsets)
    IN  IF ValidSolution(problem, sol) THEN [status |-> status, solution |-> {sol}]
        ELSE [status |-> "kInvalidProblem", solution |-> {}]

Answers(result) ==
    /\ answer' = result
    /\ UNCHANGED <<method, poolsLeft, poolNow, offsets, anyTimeout>>

\* Solve of a method is called.
Calls(name) ==
    /\ method' = name
    /\ poolsLeft' = problem.pools /\ poolNow' = {}
    /\ offsets' = NoOffsets /\ anyTimeout' = FALSE
    /\ answer' = NoAnswer
=============================================================================
