--------------------------- MODULE ReuseBaselines ---------------------------
(***************************************************************************)
(* src/dsa/algorithms/reuse_penalty_baseline_solvers.cpp: the heuristics   *)
(* canonical_greedy and promote_repair, the oracle promote_all and the two *)
(* unit colourings unit_random_coloring and unit_low_rank_rounding, with   *)
(* the solver first_fit they start from.                                   *)
(*                                                                         *)
(* Solvers call solvers: promote_repair falls back to canonical_greedy,    *)
(* and reuse_penalty_local_search and canonical_branch_and_bound call      *)
(* both.  "running" is the stack of calls, "answer" what the last one      *)
(* returned.  Promoted soft edges are pairs of nodes in the order of their *)
(* representatives.                                                        *)
(***************************************************************************)
EXTENDS ReusePenaltySpace, FirstFitDecoder, SequencesExt

CONSTANT Cases      \* <<problem, options>>: a problem with its terms, and
                    \* [solver, ...], the solver called and its options

Baselines ==
    {"canonical_greedy", "promote_repair", "promote_all",
     "unit_random_coloring", "unit_low_rank_rounding"}

\* Pools have integer ids, lifetimes are finite sets of ranges of integers, and
\* the options are counts.
ASSUME CasesAssumption ==
    \A x \in Cases :
        /\ ProblemTyped(x[1]) /\ ObjectiveTyped(x[1]) /\ x[1].pools \subseteq Nat
        /\ \A b \in x[1].buffers : IsFiniteSet(x[1].live[b]) /\ x[1].live[b] \subseteq Int \X Int
        /\ x[2].solver \in Baselines \cup {"reuse_penalty_local_search"}
        /\ {x[2].randomRestarts, x[2].samples, x[2].rank, x[2].maxNodes, x[2].maxEvaluations,
             x[2].restarts, x[2].stagnationLimit, x[2].softMoves, x[2].orderMoves} \subseteq Nat

VARIABLES
    problem, options,
    table,              \* what the steps look up for the problem (TableOf)
    running,            \* the calls of Solve that have not returned, the last innermost
    answer,             \* the result of the call that returned last
    greedy,             \* canonical_greedy: [index, best, fromFirstFit]
    repair,             \* promote_repair: [index, active, last]
    sampling            \* unit colourings: [left, best]
\* best is {} or {a result}.

input == <<problem, options, table>>
baselineVars == <<greedy, repair, sampling>>

NoObjective == [reuse |-> 0, total_peak |-> 0, max_peak |-> 0, capacity_overflow |-> 0]

\* A DsaResult without a placement, and one with it.
Without(status) == [status |-> status, solution |-> {}, objective |-> NoObjective]

With(p, status, sol) ==
    [status |-> status, solution |-> {sol},
     objective |-> [reuse |-> ReuseCost(p, sol), total_peak |-> TotalPeak(p, sol),
                    max_peak |-> MaxPeak(p, sol), capacity_overflow |-> CapacityOverflow(p, sol)]]

NoAnswer == Without("none")

NoGreedy == [index |-> 0, best |-> {}, fromFirstFit |-> FALSE]
NoRepair == [index |-> 0, active |-> {}, last |-> NoAnswer]
NoSampling == [left |-> 0, best |-> {}]

-----------------------------------------------------------------------------
(***************************************************************************)
(* Calls                                                                   *)
(***************************************************************************)
Active(solver) == running # <<>> /\ Last(running) = solver

Call(solver) == running' = Append(running, solver) /\ answer' = NoAnswer

Return(result) == running' = Front(running) /\ answer' = result

\* The callers replace the objective: FitThenMinimizeReuseCostObjective.
Terms ==
    IF options.solver \in {"reuse_penalty_local_search", "canonical_branch_and_bound"}
    THEN <<"capacity_overflow", "reuse">> ELSE problem.terms

ScoreOf(result) == [i \in DOMAIN Terms |-> result.objective[Terms[i]]]

-----------------------------------------------------------------------------
(***************************************************************************)
(* Refusals                                                                *)
(***************************************************************************)
\* CheckSolverCompatibility with the capabilities of the baselines.
Compatible(p, solver) ==
    /\ p.pins = {} /\ \A b \in p.buffers : Cardinality(p.allowed[b]) <= 1
    /\ Range(Terms) \cap {"total_peak", "max_peak", "bank_cost"} = {}
    /\ solver \in {"unit_random_coloring", "unit_low_rank_rounding"} =>
           \A q \in p.pools : p.reserved[q] = {}

FixedCapacities(p) == DOMAIN p.capacity = p.pools

\* What both unit colourings ask for: no hard edges and, in each pool, nodes of
\* one size that fit at its multiples.
UnitShape(p) ==
    LET s == table.space
    IN  /\ FixedCapacities(p) /\ s.hard = {}
        /\ \A c \in DOMAIN s.pool :
               /\ s.size[c] % s.alignment[c] = 0
               /\ p.capacity[s.pool[c]] >= s.size[c]
               /\ \A d \in NodesOf(s, s.pool[c]) : s.size[d] = s.size[c]

\* A status when the solver refuses the problem, or "none".
Refusal(p, solver) ==
    IF ~Compatible(p, solver)
    THEN IF ValidProblem(p) THEN "kUnsupported" ELSE "kInvalidProblem"
    ELSE IF solver \in {"canonical_greedy", "promote_repair"} /\ ~FixedCapacities(p)
    THEN "kUnsupported"
    ELSE IF solver = "unit_random_coloring" /\ options.samples = 0 THEN "kUnsupported"
    ELSE IF solver = "unit_low_rank_rounding" /\ options.samples * options.rank = 0
    THEN "kInvalidProblem"
    ELSE IF ~PrepareAccepts(p) THEN "kInvalidProblem"
    ELSE IF solver = "unit_low_rank_rounding" /\ Cardinality(Classes(p)) > options.maxNodes
    THEN "kUnsupported"
    ELSE IF solver \in {"unit_random_coloring", "unit_low_rank_rounding"} /\ ~UnitShape(p)
    THEN "kUnsupported"
    ELSE "none"

Refuse(solver) ==
    /\ Active(solver) /\ answer = NoAnswer /\ Refusal(problem, solver) # "none"
    /\ Return(Without(Refusal(problem, solver)))
    /\ UNCHANGED <<input, baselineVars>>

-----------------------------------------------------------------------------
(***************************************************************************)
(* Orders and decodings, computed once for every problem                   *)
(***************************************************************************)
Searchable(p) ==
    PrepareAccepts(p) /\ FixedCapacities(p) /\ \A b \in p.buffers : Cardinality(p.allowed[b]) = 1

Nodes == DOMAIN table.space.pool

AllSoft == table.soft

\* The nodes in increasing order of a key that no two of them share.
OrderBy(key) ==
    [i \in 1..Cardinality(DOMAIN key) |->
        Min(CHOOSE c \in DOMAIN key :
                Cardinality({d \in DOMAIN key : ScoreBefore(key[d], key[c])}) = i - 1)]

IncidentWeight(s, c) ==
    SaturatingSum(LAMBDA e : s.soft[e], {e \in DOMAIN s.soft : e[1] = c})

\* The first occurrence of every element.
Distinct(s) ==
    LET first == {i \in DOMAIN s : \A j \in 1..(i - 1) : s[j] # s[i]}
    IN  [k \in 1..Cardinality(first) |->
            s[CHOOSE i \in first : Cardinality({j \in first : j < i}) = k - 1]]

\* CanonicalGreedyOrders before its restarts: by size, birth and soft weight.
FixedOrders(p, s) ==
    LET size(c) == MaxUInt - s.size[c]
        weight(c) == MaxUInt - IncidentWeight(s, c)
    IN  Distinct(<< OrderBy([c \in Classes(p) |-> <<size(c), FirstBirthOf(p, c), Min(c)>>]),
                    OrderBy([c \in Classes(p) |-> <<FirstBirthOf(p, c), Min(c)>>]),
                    OrderBy([c \in Classes(p) |-> <<weight(c), size(c), Min(c)>>]) >>)

WithPromotedReuseEdges(p, pairs) ==
    [p EXCEPT !.separations = @ \cup {<<Min(e[1]), Min(e[2])>> : e \in pairs}]

\* PlaceWithOrder on the problem with some of its soft edges promoted.
Decoding(p, order, promoted) ==
    LET result == Decode(WithPromotedReuseEdges(p, promoted), order)
    IN  IF result.solution = {} THEN Without(result.status)
        ELSE With(p, result.status, CHOOSE sol \in result.solution : TRUE)

\* FirstFitSolver: one order, or the best of three when there are penalties.
FirstFit ==
    LET results == [i \in DOMAIN table.orders |->
                       table.decoded[<<table.orders[i], {}>>]]
        score(r) == <<IF r.status = "kFeasible" THEN 0 ELSE 1>> \o ScoreOf(r)
        least == CHOOSE i \in DOMAIN results :
                    \A j \in DOMAIN results :
                        /\ ~ScoreBefore(score(results[j]), score(results[i]))
                        /\ j < i => ScoreBefore(score(results[i]), score(results[j]))
    IN  IF problem.penalties = <<>> THEN results[1] ELSE results[least]

\* The fitting canonical offset of least incremental cost, the lowest of equals.
LeastCost(p, s, off, c) ==
    LET at == {x \in CanonicalOffsetsForNode(p, s, off, c) : FitsReuseNodeAt(p, s, off, c, x)}
        key(x) == <<IncrementalReuseCost(s, off, c, x), x>>
    IN  {x \in at : \A y \in at : ~ScoreBefore(key(y), key(x))}

\* One order of canonical_greedy: {} when it does not complete or the validator
\* rejects what it places (BuildValidatedReuseResult), or {the result}.
GreedilyPlaced(p, s, o) ==
    LET class(i) == ClassOf(p, o[i])
        after[i \in 0..Len(o)] ==
            IF i = 0 THEN {<<>>}
            ELSE UNION {{Extend(off, class(i), at) : at \in LeastCost(p, s, off, class(i))} :
                           off \in after[i - 1]}
        placed == {SolutionOf(p, off) : off \in after[Len(o)]}
    IN  {With(p, "kFeasible", sol) : sol \in {x \in placed : ValidSolution(p, x)}}

NoTable == [space |-> <<>>, soft |-> {}, orders |-> <<>>, decoded |-> <<>>, placed |-> <<>>]

\* The search space has no edges when the preparation fails or a pool is left open.
SoftPairsOf(p) ==
    IF PrepareAccepts(p) /\ ~FlexiblePools(p)
    THEN UNION {SoftPairs(SearchSpace(p), q) : q \in p.pools} ELSE {}

\* All that these functions return for a problem, looked up by the steps.
TableOf(p) ==
    LET s == SearchSpace(p)
        soft == SoftPairsOf(p)
    IN  IF ~Searchable(p) THEN [NoTable EXCEPT !.soft = soft]
        ELSE [space |-> s, soft |-> soft, orders |-> FixedOrders(p, s),
              decoded |-> Tabulated([x \in Orders(p) \X SUBSET soft |-> Decoding(p, x[1], x[2])]),
              placed |-> Tabulated([o \in Orders(p) |-> GreedilyPlaced(p, s, o)])]

-----------------------------------------------------------------------------
(***************************************************************************)
(* canonical_greedy                                                        *)
(***************************************************************************)
GreedyMayRun == Active("canonical_greedy") /\ answer = NoAnswer

GreedyBegins ==
    /\ GreedyMayRun /\ greedy.index = 0 /\ Refusal(problem, "canonical_greedy") = "none"
    /\ LET seed == FirstFit
           kept == IF seed.status = "kFeasible" THEN {seed} ELSE {}
       IN  greedy' = [index |-> 1, best |-> kept, fromFirstFit |-> kept # {}]
    /\ UNCHANGED <<input, running, answer, repair, sampling>>

\* Size, birth and weight order, then shuffled ones.  A shuffled order met before
\* changes nothing, so that it need not be removed.
GreedyOrders ==
    IF greedy.index \in DOMAIN table.orders THEN {table.orders[greedy.index]}
    ELSE Orders(problem)

OrdersToTry == Len(table.orders) + options.randomRestarts

\* Mutant of Retains: the last placement is kept.
RetainsLast(found) == TRUE

\* A placement replaces the kept one when it is better, or as good as first fit's.
Retains(found) ==
    \A old \in greedy.best :
        \/ ScoreBefore(ScoreOf(found), ScoreOf(old))
        \/ greedy.fromFirstFit /\ ScoreOf(found) = ScoreOf(old)

GreedyAnswers(best) ==
    /\ Return(IF best = {} THEN Without("kBestEffortNoFit") ELSE CHOOSE kept \in best : TRUE)
    /\ greedy' = NoGreedy

Skip == greedy' = [greedy EXCEPT !.index = @ + 1] /\ UNCHANGED <<running, answer>>

Consider(found) ==
    LET better == Retains(found)
        kept == IF better THEN {found} ELSE greedy.best
    IN  IF \A x \in kept : x.objective.reuse = 0 THEN GreedyAnswers(kept)
        ELSE /\ greedy' = [index |-> greedy.index + 1, best |-> kept,
                           fromFirstFit |-> greedy.fromFirstFit /\ ~better]
             /\ UNCHANGED <<running, answer>>

GreedyTriesOrder ==
    /\ GreedyMayRun /\ greedy.index > 0 /\ greedy.index <= OrdersToTry
    /\ \E o \in GreedyOrders :
           \/ table.placed[o] = {} /\ Skip
           \/ \E found \in table.placed[o] : Consider(found)
    /\ UNCHANGED <<input, repair, sampling>>

GreedyEnds ==
    /\ GreedyMayRun /\ greedy.index > 0 /\ greedy.index > OrdersToTry
    /\ GreedyAnswers(greedy.best)
    /\ UNCHANGED <<input, repair, sampling>>

-----------------------------------------------------------------------------
(***************************************************************************)
(* promote_repair: all soft edges are promoted, and while the decoding     *)
(* exceeds a capacity the cheapest edge under the overflow is demoted.     *)
(***************************************************************************)
Top(sol, c) == sol[Min(c)].offset + table.space.size[c]

\* The classes above their capacity, of largest overflow, then highest top, then
\* least representative: none or one.
Overflowing(sol) ==
    LET over == {c \in Nodes : Top(sol, c) > problem.capacity[sol[Min(c)].pool]}
        key(c) == <<MaxUInt - (Top(sol, c) - problem.capacity[sol[Min(c)].pool]),
                    MaxUInt - Top(sol, c), Min(c)>>
    IN  {c \in over : \A d \in over : ~ScoreBefore(key(d), key(c))}

\* The conflicting class c rests on, none when it rests on nothing.
SupportUnder(promoted, sol, c) ==
    LET below == {d \in Nodes \ {c} :
                     /\ AlignUp(Top(sol, d), table.space.alignment[c]) = sol[Min(c)].offset
                     /\ Blocks(promoted, c, d)}
        key(d) == <<MaxUInt - Top(sol, d), Min(d)>>
    IN  IF sol[Min(c)].offset = 0 THEN {}
        ELSE {d \in below : \A e \in below : ~ScoreBefore(key(e), key(d))}

\* The active edges on the chain of supports that starts at the overflow.
SoftOnChain(promoted, sol, active) ==
    LET reached[i \in 0..Cardinality(Nodes)] ==
            IF i = 0 THEN Overflowing(sol)
            ELSE UNION {SupportUnder(promoted, sol, c) : c \in reached[i - 1]}
        rests == {e \in active \cup {<<f[2], f[1]>> : f \in active} :
                     /\ e[1] \in UNION Range(reached)
                     /\ e[2] \in SupportUnder(promoted, sol, e[1])}
    IN  {e \in active : e \in rests \/ <<e[2], e[1]>> \in rests}

\* CheapestSoftEdgeOnOverflowChain
CheapestOnChain(promoted, sol, active) ==
    LET chain == SoftOnChain(promoted, sol, active)
        key(e) == <<table.space.soft[e], Min(e[1]), Min(e[2])>>
    IN  {e \in chain : \A f \in chain : ~ScoreBefore(key(f), key(e))}

NoOrderLeft == Len(table.orders) + 1

RepairMayRun == Active("promote_repair") /\ answer = NoAnswer

RepairBegins ==
    /\ RepairMayRun /\ repair.index = 0 /\ Refusal(problem, "promote_repair") = "none"
    /\ repair' = [index |-> 1, active |-> AllSoft, last |-> NoAnswer]
    /\ UNCHANGED <<input, running, answer, greedy, sampling>>

\* Mutant of Demotes: the edge stays active.
DemotesNone(edges) == repair.active

Demotes(edges) == repair.active \ edges

FallsBack(last) ==
    /\ Call("canonical_greedy")
    /\ repair' = [repair EXCEPT !.index = NoOrderLeft, !.last = last]

RepairDecodes ==
    /\ RepairMayRun /\ repair.index > 0 /\ repair.index < NoOrderLeft
    /\ LET last == table.decoded[<<table.orders[repair.index], repair.active>>]
           promoted == WithPromotedReuseEdges(problem, repair.active)
           demote == UNION {CheapestOnChain(promoted, sol, repair.active) : sol \in last.solution}
       IN  \/ /\ last.status = "kFeasible"
              /\ Return(last) /\ repair' = [repair EXCEPT !.index = 0]
           \/ /\ last.status # "kFeasible"
              /\ \/ last.solution = {} \/ repair.active = {}
                 \/ demote = {} /\ repair.index = Len(table.orders)
              /\ FallsBack(last)
           \/ /\ last.status # "kFeasible" /\ last.solution # {} /\ repair.active # {}
              /\ \/ demote # {} /\ repair' = [repair EXCEPT !.active = Demotes(demote), !.last = last]
                 \/ /\ demote = {} /\ repair.index < Len(table.orders)
                    /\ repair' = [repair EXCEPT !.index = @ + 1, !.last = last]
              /\ UNCHANGED <<running, answer>>
    /\ UNCHANGED <<input, greedy, sampling>>

RepairReturns ==
    /\ Active("promote_repair") /\ answer # NoAnswer /\ repair.index = NoOrderLeft
    /\ Return(IF answer.status = "kFeasible" THEN answer ELSE repair.last)
    /\ repair' = NoRepair
    /\ UNCHANGED <<input, greedy, sampling>>

-----------------------------------------------------------------------------
(***************************************************************************)
(* promote_all: some placement of the problem with all soft edges promoted,*)
(* by an exact search that stops after the first one.  In every pool the   *)
(* search finds a placement, proves that there is none, or runs into its   *)
(* limit (CanonicalSearch).                                                *)
(***************************************************************************)
PlacementsApart == PlacementsOf(WithPromotedReuseEdges(problem, AllSoft))

PromoteAll ==
    /\ Active("promote_all") /\ Refusal(problem, "promote_all") = "none"
    /\ \/ \E sol \in PlacementsApart : Return(With(problem, "kFeasible", sol))
       \/ PlacementsApart = {} /\ Return(Without("kInfeasibleProven"))
       \/ /\ options.searchLimited
          /\ \/ Return(Without("kTimeout"))
             \/ \E sol \in PlacementsApart : Return(With(problem, "kTimeout", sol))
    /\ UNCHANGED <<input, baselineVars>>

-----------------------------------------------------------------------------
(***************************************************************************)
(* unit_random_coloring and unit_low_rank_rounding: the best of some       *)
(* colourings.  The vectors and directions whose projections choose the    *)
(* colours of the second are numerical: any colours may come out of them.  *)
(***************************************************************************)
ColorsOf(q, unit) == problem.capacity[q] \div unit

\* The rounding has no more directions than the pool has nodes.
ColorsFor(c) ==
    LET s == table.space
        colors == ColorsOf(s.pool[c], s.size[c])
    IN  IF Active("unit_low_rank_rounding") THEN Min({colors, Cardinality(NodesOf(s, s.pool[c]))})
        ELSE colors

Colorings ==
    {color \in [Nodes -> 0..Max({ColorsFor(c) : c \in Nodes})] :
        \A c \in DOMAIN color : color[c] < ColorsFor(c)}

SamplingMayRun ==
    \E solver \in {"unit_random_coloring", "unit_low_rank_rounding"} :
        Active(solver) /\ Refusal(problem, solver) = "none"

SamplingBegins ==
    /\ SamplingMayRun /\ sampling.left = 0 /\ sampling.best = {}
    /\ sampling' = [sampling EXCEPT !.left = options.samples]
    /\ UNCHANGED <<input, running, answer, greedy, repair>>

BetterSample(found) ==
    IF \A old \in sampling.best : ScoreBefore(ScoreOf(found), ScoreOf(old))
    THEN {found} ELSE sampling.best

Sample ==
    /\ SamplingMayRun /\ sampling.left > 0
    /\ \E color \in Colorings :
           LET sol == SolutionOf(problem, [c \in DOMAIN color |-> color[c] * table.space.size[c]])
           IN  IF ~ValidSolution(problem, sol)
               THEN Return(Without("kInvalidProblem")) /\ sampling' = NoSampling
               ELSE /\ sampling' = [left |-> sampling.left - 1,
                                    best |-> BetterSample(With(problem, "kFeasible", sol))]
                    /\ UNCHANGED <<running, answer>>
    /\ UNCHANGED <<input, greedy, repair>>

SamplingEnds ==
    /\ SamplingMayRun /\ sampling.left = 0 /\ sampling.best # {}
    /\ \E kept \in sampling.best : Return(kept)
    /\ sampling' = NoSampling
    /\ UNCHANGED <<input, greedy, repair>>

-----------------------------------------------------------------------------
BaselinesInit == greedy = NoGreedy /\ repair = NoRepair /\ sampling = NoSampling

BaselinesNext ==
    \/ \E solver \in Baselines : Refuse(solver)
    \/ GreedyBegins \/ GreedyTriesOrder \/ GreedyEnds
    \/ RepairBegins \/ RepairDecodes \/ RepairReturns
    \/ PromoteAll
    \/ SamplingBegins \/ Sample \/ SamplingEnds
=============================================================================
