---------------------------- MODULE CapacityTwo ----------------------------
(***************************************************************************)
(* CapacityTwoExactSolver of src/dsa/algorithms/                           *)
(* reuse_penalty_portfolio_solvers.cpp: with two addresses in each pool,   *)
(* every hard component has two colourings, one the flip of the other, and *)
(* a depth-first branch and bound chooses the flips (PoolTwoSearch).       *)
(* The recursion is a stack with one frame for each call of Search.        *)
(***************************************************************************)
EXTENDS ReuseMethod

VARIABLES
    parity,         \* parity_ of the nodes of the pool
    flips,          \* flips_ of the components that are decided
    calls,          \* frames [cost, next]: the cost passed and the next flip to try
    calling,        \* the last frame was just pushed
    twoBest,        \* {} or {[color, score]}
    twoNodes, twoLimitHit

twoVars == <<parity, flips, calls, calling, twoBest, twoNodes, twoLimitHit>>

-----------------------------------------------------------------------------
\* ValidateCapacityTwoShape; the terms have no peaks here.
TwoShape ==
    \A q \in problem.pools :
        NodesOf(space, q) # {} => UniformUnits(q) /\ ColorsOf(q) = 2

\* BuildComponents: the colouring in which the first node of each component is
\* even, or none.
Parities(q) ==
    {f \in [NodesOf(space, q) -> {0, 1}] :
        /\ \A c, d \in NodesOf(space, q) : <<c, d>> \in space.hard => f[c] # f[d]
        /\ \A C \in HardComponents(q) : f[Ranked(C)[1]] = 0}

\* BuildSoftObjective
Within(edge) == HardComponent(edge[1]) = HardComponent(edge[2])

EqualParity(edge) == parity[edge[1]] = parity[edge[2]]

FixedCost(q) ==
    SaturatingSum(LAMBDA edge : space.soft[edge],
                  {edge \in SoftPairs(space, q) : Within(edge) /\ EqualParity(edge)})

ComponentEdges(q, C) ==
    {edge \in SoftPairs(space, q) : ~Within(edge) /\ {edge[1], edge[2]} \cap C # {}}

\* Components by falling degree.
ComponentBefore(q, C, D) ==
    LET degree(S) == Cardinality(ComponentEdges(q, S))
    IN  degree(C) > degree(D) \/ (degree(C) = degree(D) /\ Lowest(C) < Lowest(D))

ComponentAt(q, depth) ==
    CHOOSE C \in HardComponents(q) :
        Cardinality({D \in HardComponents(q) : ComponentBefore(q, D, C)}) = depth

\* Mutant of Activates: the parities of the two ends are forgotten.
ActivatesOnEqualFlips(edge, first, second) == first = second

\* Two flips give the ends of an edge the same address.
Activates(edge, first, second) == (first = second) = EqualParity(edge)

\* IncrementalCost
FlipCost(q, C, flip) ==
    SaturatingSum(LAMBDA edge : space.soft[edge],
        {edge \in ComponentEdges(q, C) :
            \E D \in DOMAIN flips : /\ {edge[1], edge[2]} \cap D # {}
                                    /\ Activates(edge, flip, flips[D])})

\* PoolScore
TwoScore(cost) ==
    [i \in DOMAIN problem.terms |-> IF problem.terms[i] = "reuse" THEN cost ELSE 0]

-----------------------------------------------------------------------------
TwoInit ==
    /\ parity = NoOffsets /\ flips = NoOffsets /\ calls = <<>> /\ calling = FALSE
    /\ twoBest = {} /\ twoNodes = 0 /\ twoLimitHit = FALSE

TwoRejects ==
    /\ Running("capacity_two") /\ poolsLeft = problem.pools /\ poolNow = {}
    /\ ~CompatibleWithMethods \/ ~TwoShape
    /\ AnswerWith("kUnsupported")
    /\ UNCHANGED twoVars

TwoMayRun == Running("capacity_two") /\ CompatibleWithMethods /\ TwoShape

TwoPassesPool ==
    /\ TwoMayRun /\ \E q \in poolsLeft : PassesPool(q)
    /\ UNCHANGED twoVars

\* A hard component that is not bipartite.
TwoInfeasible ==
    /\ TwoMayRun /\ poolNow = {}
    /\ \E q \in poolsLeft : NodesOf(space, q) # {} /\ Parities(q) = {}
    /\ AnswerWith("kInfeasibleProven")
    /\ UNCHANGED twoVars

TwoStartsPool ==
    /\ TwoMayRun
    /\ \E q \in poolsLeft :
           /\ NodesOf(space, q) # {} /\ parity' \in Parities(q)
           /\ TakesPool(q)
    /\ calls' = <<>> /\ calling' = TRUE
    /\ flips' = NoOffsets /\ twoBest' = {} /\ twoNodes' = 0 /\ twoLimitHit' = FALSE

-----------------------------------------------------------------------------
(***************************************************************************)
(* PoolTwoSearch::Search.  The first call has an empty stack.              *)
(***************************************************************************)
CallCost(q) ==
    IF calls = <<>> THEN FixedCost(q)
    ELSE SaturatingAdd(Last(calls).cost,
                       FlipCost(q, ComponentAt(q, Len(calls) - 1), Last(calls).next))

\* flips_ with the flip the last frame is trying.
Deciding(q) ==
    IF calls = <<>> THEN flips
    ELSE Extend(flips, ComponentAt(q, Len(calls) - 1), Last(calls).next)

Colors(q) ==
    LET flip(c) == Deciding(q)[HardComponent(c)]
    IN  [c \in NodesOf(space, q) |-> IF flip(c) = 0 THEN parity[c] ELSE 1 - parity[c]]

TwoSearching(q) == Running("capacity_two") /\ q \in poolNow /\ calling

TwoAtLimit == options.twoLimit # 0 /\ twoNodes >= options.twoLimit

TwoBounded(q) == \E kept \in twoBest : ~ScoreBefore(TwoScore(CallCost(q)), kept.score)

\* Every caller returns at once.
TwoHitsLimit ==
    /\ \E q \in poolNow : TwoSearching(q) /\ TwoAtLimit
    /\ twoLimitHit' = TRUE /\ calling' = FALSE /\ calls' = <<>> /\ flips' = NoOffsets
    /\ UNCHANGED <<frame, parity, twoBest, twoNodes>>

\* A call returns to its caller, which goes on with the next flip.
NextFlip(stack) ==
    IF stack = <<>> THEN stack ELSE [stack EXCEPT ![Len(stack)].next = @ + 1]

TwoPrune ==
    /\ \E q \in poolNow : TwoSearching(q) /\ ~TwoAtLimit /\ TwoBounded(q)
    /\ twoNodes' = twoNodes + 1
    /\ calls' = NextFlip(calls) /\ calling' = FALSE
    /\ UNCHANGED <<frame, parity, flips, twoBest, twoLimitHit>>

TwoLeaf ==
    /\ \E q \in poolNow :
           /\ TwoSearching(q) /\ ~TwoAtLimit /\ ~TwoBounded(q)
           /\ Len(calls) = Cardinality(HardComponents(q))
           /\ twoBest' = {[color |-> Colors(q), score |-> TwoScore(CallCost(q))]}
    /\ twoNodes' = twoNodes + 1
    /\ calls' = NextFlip(calls) /\ calling' = FALSE
    /\ UNCHANGED <<frame, parity, flips, twoLimitHit>>

TwoBranch ==
    /\ \E q \in poolNow :
           /\ TwoSearching(q) /\ ~TwoAtLimit /\ ~TwoBounded(q)
           /\ Len(calls) < Cardinality(HardComponents(q))
           /\ calls' = Append(calls, [cost |-> CallCost(q), next |-> 0])
           /\ flips' = Deciding(q)
    /\ twoNodes' = twoNodes + 1
    /\ UNCHANGED <<frame, parity, calling, twoBest, twoLimitHit>>

\* The first component keeps its colouring.
LastFlip == IF Len(calls) = 1 THEN 0 ELSE 1

Returning == Running("capacity_two") /\ poolNow # {} /\ ~calling /\ calls # <<>>

TwoTryNext ==
    /\ Returning /\ Last(calls).next <= LastFlip
    /\ calling' = TRUE
    /\ UNCHANGED <<frame, parity, flips, calls, twoBest, twoNodes, twoLimitHit>>

\* The loop ends; flips_ of the caller's component is undone.
TwoReturn ==
    /\ Returning /\ Last(calls).next > LastFlip
    /\ \E q \in poolNow :
           flips' = [C \in DOMAIN flips \ (IF Len(calls) = 1 THEN {}
                                           ELSE {ComponentAt(q, Len(calls) - 2)}) |-> flips[C]]
    /\ calls' = NextFlip(Front(calls))
    /\ UNCHANGED <<frame, parity, calling, twoBest, twoNodes, twoLimitHit>>

-----------------------------------------------------------------------------
TwoSearchDone == Running("capacity_two") /\ poolNow # {} /\ calls = <<>> /\ ~calling

TwoPoolSolved ==
    /\ TwoSearchDone
    /\ \E kept \in twoBest : ColorsPool(kept.color, twoLimitHit)
    /\ UNCHANGED twoVars

\* No complete colouring before the limit.
TwoGivesUp ==
    /\ TwoSearchDone /\ twoBest = {}
    /\ AnswerWith(IF twoLimitHit THEN "kTimeout" ELSE "kInfeasibleProven")
    /\ UNCHANGED twoVars

TwoAnswers ==
    /\ TwoMayRun /\ AllPoolsColored
    /\ Answers(Validated(IF anyTimeout THEN "kTimeout" ELSE "kFeasible"))
    /\ UNCHANGED twoVars

TwoNext ==
    \/ TwoRejects \/ TwoPassesPool \/ TwoInfeasible \/ TwoStartsPool
    \/ TwoHitsLimit \/ TwoPrune \/ TwoLeaf \/ TwoBranch \/ TwoTryNext \/ TwoReturn
    \/ TwoPoolSolved \/ TwoGivesUp \/ TwoAnswers

-----------------------------------------------------------------------------
(***************************************************************************)
(* Properties                                                              *)
(***************************************************************************)
ColoringCost(q, f) ==
    SaturatingSum(LAMBDA edge : space.soft[edge],
        {edge \in SoftPairs(space, q) : {edge[1], edge[2]} \subseteq DOMAIN f
                                        /\ f[edge[1]] = f[edge[2]]})

ProperColorings(q, colors) ==
    {f \in [NodesOf(space, q) -> colors] :
        \A c, d \in NodesOf(space, q) : <<c, d>> \in space.hard => f[c] # f[d]}

\* The cost a call carries is that of the components decided so far; a search
\* that met no limit has kept a cheapest of all colourings with two addresses,
\* though it never flips the first component.
TwoAddressOptimum ==
    \A q \in poolNow :
        TwoSearchDone /\ ~twoLimitHit /\ RequiresReuse =>
            {ColoringCost(q, kept.color) : kept \in twoBest} =
                {Min({ColoringCost(q, f) : f \in ProperColorings(q, {0, 1})})}
=============================================================================
