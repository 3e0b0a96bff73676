---------------------------- MODULE TreewidthDp ----------------------------
(***************************************************************************)
(* TreewidthPartitionDpSolver of src/dsa/algorithms/                       *)
(* reuse_penalty_treewidth_solver.cpp: the nodes of a pool are eliminated  *)
(* in a min-fill order.  The factors that mention a node are replaced by   *)
(* one over their other nodes, with a value for each partition of these    *)
(* into addresses; the colours are found again in the reverse order.       *)
(*                                                                         *)
(* A partition is a labelling of a set of nodes by 0, 1, ... that is       *)
(* canonical: read by increasing node, new labels come in order.  A value  *)
(* is {cost}, or {} when the partition is infeasible.                      *)
(***************************************************************************)
EXTENDS ReuseMethod

VARIABLES
    dpStep,         \* "order", "eliminate" or "reconstruct"
    elimination,    \* EliminationOrder.variables
    adjacency,      \* edges, with the fill, as sets of two nodes
    width,
    factors,        \* sequence of [scope, values]
    traces,         \* sequence of [variable, scope, best]
    eliminated,     \* how many of the order are eliminated
    nodeColor,      \* colors_by_node of the nodes reconstructed
    expected        \* expected_reuse_cost, with that of the pool being solved

tables == <<factors, traces, eliminated>>
dpVars == <<dpStep, elimination, adjacency, width, tables, nodeColor, expected>>

-----------------------------------------------------------------------------
(***************************************************************************)
(* Partitions                                                              *)
(***************************************************************************)
Labels(n) == 0..(n - 1)

\* Mutant of CanonicalPartition: labels are left as they come.
RawPartition(labels) == labels

CanonicalPartition(labels) ==
    LET first(c) == Min({Min(d) : d \in {e \in DOMAIN labels : labels[e] = labels[c]}})
    IN  [c \in DOMAIN labels |->
            Cardinality({first(d) : d \in DOMAIN labels} \cap 0..(first(c) - 1))]

EnumeratePartitions(scope, colors) ==
    {f \in [scope -> Labels(colors)] : f = CanonicalPartition(f)}

RestrictedPartition(scope, labels) == CanonicalPartition([c \in scope |-> labels[c]])

\* Values of factors: sums are infeasible when a summand is.
PlusValue(v, w) == {SaturatingAdd(x, y) : x \in v, y \in w}

\* A partition that has no entry is infeasible.
SumBucket(bucket, labels) ==
    LET value(factor) ==
            LET key == RestrictedPartition(factor.scope, labels)
            IN  IF key \in DOMAIN factor.values THEN factor.values[key] ELSE {}
    IN  FoldLeft(LAMBDA sum, factor : PlusValue(sum, value(factor)), {0}, bucket)

-----------------------------------------------------------------------------
(***************************************************************************)
(* SolvePool before the elimination                                        *)
(***************************************************************************)
DpColors(q) == Min({ColorsOf(q), Cardinality(NodesOf(space, q))})

DpVerdict(q) ==
    IF ~UniformUnits(q) \/ problem.capacity[q] % UnitOf(q) # 0 THEN "kUnsupported"
    ELSE IF DpColors(q) = 0 THEN "kInfeasibleProven"
    ELSE "kFeasible"

\* BuildPotentials: the pairs, of two nodes, that are hard or soft.
Potentials(q) ==
    {pair \in SUBSET NodesOf(space, q) :
        \E c, d \in pair : <<c, d>> \in space.hard \cup DOMAIN space.soft /\ pair = {c, d}}

PairFactor(pair) ==
    LET c == Ranked(pair)[1]
        d == Ranked(pair)[2]
    IN  [scope |-> pair,
         values |-> (c :> 0 @@ d :> 0) :> (IF <<c, d>> \in space.hard THEN {}
                                          ELSE {SoftWeight(space, c, d)})
                    @@ (c :> 0 @@ d :> 1) :> {0}]

\* Pairs in the order of the map.
PairFactors(q) ==
    LET pairs == Potentials(q)
        earlier(a, b) ==
            \/ Lowest(a) < Lowest(b)
            \/ Lowest(a) = Lowest(b) /\ Min(Ranked(a)[2]) < Min(Ranked(b)[2])
    IN  [i \in 1..Cardinality(pairs) |->
            PairFactor(CHOOSE a \in pairs : Cardinality({b \in pairs : earlier(b, a)}) = i - 1)]

TableTooLarge(n) == options.maxTable # 0 /\ n > options.maxTable

-----------------------------------------------------------------------------
DpInit ==
    /\ dpStep = "order" /\ elimination = <<>> /\ adjacency = {} /\ width = 0
    /\ factors = <<>> /\ traces = <<>> /\ eliminated = 0
    /\ nodeColor = NoOffsets /\ expected = 0

DpRejects ==
    /\ Running("treewidth") /\ poolsLeft = problem.pools /\ poolNow = {}
    /\ ~CompatibleWithMethods \/ ~RequiresReuse
    /\ AnswerWith("kUnsupported")
    /\ UNCHANGED dpVars

DpMayRun == Running("treewidth") /\ CompatibleWithMethods /\ RequiresReuse

DpPassesPool ==
    /\ DpMayRun /\ \E q \in poolsLeft : PassesPool(q)
    /\ UNCHANGED dpVars

DpRefusesPool ==
    /\ DpMayRun /\ poolNow = {}
    /\ \E q \in poolsLeft :
           NodesOf(space, q) # {} /\ DpVerdict(q) # "kFeasible" /\ AnswerWith(DpVerdict(q))
    /\ UNCHANGED dpVars

DpStartsPool ==
    /\ DpMayRun
    /\ \E q \in poolsLeft :
           /\ NodesOf(space, q) # {} /\ DpVerdict(q) = "kFeasible"
           /\ TakesPool(q)
           /\ adjacency' = Potentials(q)
    /\ dpStep' = "order" /\ elimination' = <<>> /\ width' = 0
    /\ factors' = <<>> /\ traces' = <<>> /\ eliminated' = 0 /\ nodeColor' = NoOffsets
    /\ UNCHANGED expected

-----------------------------------------------------------------------------
(***************************************************************************)
(* MinFillOrder                                                            *)
(***************************************************************************)
At(q, s) == Running("treewidth") /\ q \in poolNow /\ dpStep = s

Active(q) == NodesOf(space, q) \ Range(elimination)

Neighbors(q, c) == {d \in Active(q) \ {c} : {c, d} \in adjacency}

Fill(q, c) ==
    {pair \in SUBSET Neighbors(q, c) : Cardinality(pair) = 2 /\ pair \notin adjacency}

\* Least fill, then fewest neighbours, then the lowest representative.
FillsLess(q, c, d) ==
    LET fill(x) == Cardinality(Fill(q, x))
        degree(x) == Cardinality(Neighbors(q, x))
    IN  \/ fill(c) < fill(d)
        \/ fill(c) = fill(d) /\ degree(c) < degree(d)
        \/ fill(c) = fill(d) /\ degree(c) = degree(d) /\ Min(c) <= Min(d)

OrderNode ==
    /\ \E q \in poolNow :
           /\ At(q, "order")
           /\ \E c \in Active(q) :
                  /\ \A d \in Active(q) : FillsLess(q, c, d)
                  /\ elimination' = Append(elimination, c)
                  /\ width' = Max({width, Cardinality(Neighbors(q, c))})
                  /\ adjacency' = adjacency \cup Fill(q, c)
    /\ UNCHANGED <<frame, dpStep, tables, nodeColor, expected>>

Ordered(q) == At(q, "order") /\ Active(q) = {}

TooWide(q) == width > options.maxTreewidth \/ (Potentials(q) # {} /\ TableTooLarge(2))

DpTooWide ==
    /\ \E q \in poolNow : Ordered(q) /\ TooWide(q)
    /\ AnswerWith("kUnsupported")
    /\ UNCHANGED dpVars

BuildFactors ==
    /\ \E q \in poolNow : Ordered(q) /\ ~TooWide(q) /\ factors' = PairFactors(q)
    /\ dpStep' = "eliminate"
    /\ UNCHANGED <<frame, elimination, adjacency, width, traces, eliminated, nodeColor, expected>>

-----------------------------------------------------------------------------
(***************************************************************************)
(* Elimination of one node                                                 *)
(***************************************************************************)
Mentions(factor, c) == c \in factor.scope

Bucket(c) == SelectSeq(factors, LAMBDA factor : Mentions(factor, c))

Others(c) == SelectSeq(factors, LAMBDA factor : ~Mentions(factor, c))

RemainingScope(c) == UNION {factor.scope : factor \in Range(Bucket(c))} \ {c}

\* The addresses of the others, or a new one while there is one.
LabelChoices(q, partition) ==
    Labels(Min({Cardinality(Range(partition)) + 1, DpColors(q)}))

\* The values of the choices, and the first of the cheapest.
Candidate(q, c, partition, k) == SumBucket(Bucket(c), Extend(partition, c, k))

BestValue(q, c, partition) ==
    LET values == UNION {Candidate(q, c, partition, k) : k \in LabelChoices(q, partition)}
    IN  IF values = {} THEN {} ELSE {Min(values)}

BestClass(q, c, partition) ==
    IF BestValue(q, c, partition) = {} THEN 0
    ELSE Min({k \in LabelChoices(q, partition) :
                 Candidate(q, c, partition, k) = BestValue(q, c, partition)})

Eliminating(q) == At(q, "eliminate") /\ eliminated < Len(elimination)

PartitionsOf(q, c) == EnumeratePartitions(RemainingScope(c), DpColors(q))

Eliminate ==
    /\ \E q \in poolNow :
           LET c == elimination[eliminated + 1]
               partitions == PartitionsOf(q, c)
               scope == RemainingScope(c)
           IN  /\ Eliminating(q) /\ ~TableTooLarge(Cardinality(partitions))
               /\ factors' = Append(Others(c),
                                    [scope |-> scope,
                                     values |-> [f \in partitions |-> BestValue(q, c, f)]])
               /\ traces' = Append(traces,
                                   [variable |-> c, scope |-> scope,
                                    best |-> [f \in partitions |-> BestClass(q, c, f)]])
    /\ eliminated' = eliminated + 1
    /\ UNCHANGED <<frame, dpStep, elimination, adjacency, width, nodeColor, expected>>

TableOverflows ==
    /\ \E q \in poolNow :
           /\ Eliminating(q)
           /\ TableTooLarge(Cardinality(PartitionsOf(q, elimination[eliminated + 1])))
    /\ AnswerWith("kUnsupported")
    /\ UNCHANGED dpVars

-----------------------------------------------------------------------------
(***************************************************************************)
(* The terminal factors, and the reconstruction                            *)
(***************************************************************************)
Eliminated(q) == At(q, "eliminate") /\ eliminated = Len(elimination)

\* The sum of the factors, which all have an empty scope.
Optimum == SumBucket(factors, NoOffsets)

StartReconstruction ==
    /\ \E q \in poolNow : Eliminated(q) /\ Optimum # {}
    /\ dpStep' = "reconstruct"
    /\ UNCHANGED <<frame, elimination, adjacency, width, tables, nodeColor, expected>>

TraceNow == traces[eliminated - Cardinality(DOMAIN nodeColor)]

\* An address no other node of the scope has.
FreshColor(scope) ==
    Min({k \in 0..Cardinality(scope) : \A d \in scope : nodeColor[d] # k})

\* The colour of the nodes with that label, or a fresh one.
ReconstructedColor(partition) ==
    LET label == TraceNow.best[partition]
        same == {d \in TraceNow.scope : partition[d] = label}
    IN  IF same # {} THEN nodeColor[CHOOSE d \in same : TRUE]
        ELSE FreshColor(TraceNow.scope)

ScopePartition == CanonicalPartition([d \in TraceNow.scope |-> nodeColor[d]])

Reconstructing(q) ==
    At(q, "reconstruct") /\ Cardinality(DOMAIN nodeColor) < eliminated

\* The partition has no entry in the trace, or there is no colour left.
ReconstructionFails(q) ==
    \/ ScopePartition \notin DOMAIN TraceNow.best
    \/ ReconstructedColor(ScopePartition) >= DpColors(q)

Reconstruct ==
    /\ \E q \in poolNow :
           /\ Reconstructing(q) /\ ~ReconstructionFails(q)
           /\ nodeColor' = Extend(nodeColor, TraceNow.variable,
                                  ReconstructedColor(ScopePartition))
    /\ UNCHANGED <<frame, dpStep, elimination, adjacency, width, tables, expected>>

Failure(q) ==
    IF Eliminated(q) /\ Optimum = {} THEN "kInfeasibleProven"
    ELSE IF Reconstructing(q) /\ ReconstructionFails(q) THEN "kUnsupported"
    ELSE "none"

DpFails ==
    /\ \E q \in poolNow : Failure(q) # "none" /\ AnswerWith(Failure(q))
    /\ UNCHANGED dpVars

DpPoolSolved ==
    /\ \E q \in poolNow : At(q, "reconstruct") /\ Cardinality(DOMAIN nodeColor) = eliminated
    /\ ColorsPool(nodeColor, FALSE)
    /\ \E cost \in Optimum : expected' = SaturatingAdd(expected, cost)
    /\ UNCHANGED <<dpStep, elimination, adjacency, width, tables, nodeColor>>

\* The placement has to cost what the tables say.
DpAnswers ==
    /\ DpMayRun /\ AllPoolsColored
    /\ Answers(LET result == Validated("kFeasible")
               IN  IF \E sol \in result.solution : ReuseCost(problem, sol) # expected
                   THEN [status |-> "kInvalidProblem", solution |-> {}] ELSE result)
    /\ UNCHANGED dpVars

DpNext ==
    \/ DpRejects \/ DpPassesPool \/ DpRefusesPool \/ DpStartsPool
    \/ OrderNode \/ DpTooWide \/ BuildFactors \/ Eliminate \/ TableOverflows
    \/ StartReconstruction \/ Reconstruct \/ DpFails \/ DpPoolSolved \/ DpAnswers

-----------------------------------------------------------------------------
(***************************************************************************)
(* Properties                                                              *)
(***************************************************************************)
Decided == {elimination[i] : i \in 1..eliminated}

DpColoringCost(q, f) ==
    SaturatingSum(LAMBDA edge : space.soft[edge],
                  {edge \in SoftPairs(space, q) : f[edge[1]] = f[edge[2]]})

ProperOn(q, f) ==
    \A c, d \in NodesOf(space, q) : <<c, d>> \in space.hard => f[c] # f[d]

\* Elimination keeps the optimum: for all colours of the nodes that are left,
\* the factors sum to the cheapest way to colour the eliminated ones, or to
\* none when there is no way.
EliminationKeepsOptimum ==
    \A q \in poolNow :
        At(q, "eliminate") =>
            \A f \in [NodesOf(space, q) \ Decided -> Labels(DpColors(q))] :
                LET full == {f @@ g : g \in [Decided -> Labels(DpColors(q))]}
                    costs == {DpColoringCost(q, h) : h \in {x \in full : ProperOn(q, x)}}
                IN  SumBucket(factors, f) = IF costs = {} THEN {} ELSE {Min(costs)}

\* The reconstruction finds every partition in its trace and never runs out of
\* colours; two nodes that block each other are given different ones.
ReconstructionSucceeds ==
    \A q \in poolNow :
        /\ Reconstructing(q) => ~ReconstructionFails(q)
        /\ At(q, "reconstruct") =>
               \A c, d \in DOMAIN nodeColor :
                   <<c, d>> \in space.hard => nodeColor[c] # nodeColor[d]
=============================================================================
