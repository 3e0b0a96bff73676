------------------------- MODULE ScaleSeparatedGrid -------------------------
(***************************************************************************)
(* ScaleSeparatedGridDpSolver of src/dsa/algorithms/                       *)
(* reuse_penalty_scale_solver.cpp.  The nodes of a pool that are at least  *)
(* as large as every end of a soft edge are rounded to a grid and swept in *)
(* the order of their births; a layer has, for the offsets of the nodes    *)
(* that later ones may still meet, the cheapest way to get there.  The     *)
(* small nodes are stacked above in tracks.  The placement may be higher   *)
(* than the capacity, but it pays no more than the best one below it.      *)
(*                                                                         *)
(* Pools are listed by id.  A rank is a place in the order of births.      *)
(***************************************************************************)
EXTENDS ReusePenaltySpace, SequencesExt

CONSTANTS Problems, Options     \* [maxLarge, epsilon, maxSpan, maxStates,
                                \*  maxTransitions, maxOffsets]

\* The types of the C++ structures; lifetimes may begin before time zero.
ASSUME ProblemsAssumption ==
    \A p \in Problems :
        /\ ProblemTyped(p) /\ ObjectiveTyped(p)
        /\ p.pools \subseteq Nat
        /\ \A b \in p.buffers : IsFiniteSet(p.live[b]) /\ p.live[b] \subseteq Int \X Int

\* maxOffsets is the lesser of the option and the largest of the 32-bit colours.
ASSUME OptionsAssumption ==
    \A o \in Options :
        {o.maxLarge, o.epsilon, o.maxSpan, o.maxStates, o.maxTransitions, o.maxOffsets} \subseteq Nat

VARIABLES
    problem, options, space,
    poolsLeft,              \* the loop over the pools
    grid,                   \* {} or {the grid of the pool being swept}
    layers,                 \* sequence of layers, their entries by place
    dpStates, transitions,  \* the counters of the pool
    offsets, roundedCost,
    answer                  \* [status, solution]

input == <<problem, options, space>>
sweep == <<grid, layers, dpStates, transitions>>
vars == <<input, poolsLeft, sweep, offsets, roundedCost, answer>>

NoAnswer == [status |-> "none", solution |-> {}]

-----------------------------------------------------------------------------
(***************************************************************************)
(* Refusals                                                                *)
(***************************************************************************)
Compatible ==
    /\ problem.pins = {} /\ \A q \in problem.pools : problem.reserved[q] = {}
    /\ \A b \in problem.buffers : Cardinality(problem.allowed[b]) <= 1
    /\ Range(problem.terms) \subseteq {"capacity_overflow", "reuse"}

\* ObjectiveLimitation: peaks are refused before their place is looked at.
RequiresReuse == "reuse" \in Range(problem.terms)

Refusal ==
    IF ~ValidProblem(problem) \/ 0 \in {options.maxLarge, options.epsilon, options.maxOffsets}
    THEN "kInvalidProblem"
    ELSE IF ~Compatible \/ ~RequiresReuse THEN "kUnsupported"
    ELSE IF ~PrepareAccepts(problem) THEN "kInvalidProblem"
    ELSE IF DOMAIN space.soft = {} THEN "kUnsupported"
    ELSE "none"

CeilDivide(numerator, denominator) == (numerator + denominator - 1) \div denominator

PoolAlignment(q) ==
    FoldSet(LeastCommonMultiple, 1, {space.alignment[c] : c \in NodesOf(space, q)})

\* MinimumSoftEndpointSize
MinimumLargeSize(q) ==
    Min({space.size[c] : c \in UNION {{e[1], e[2]} : e \in SoftPairs(space, q)}})

LargeNodes(q) == {c \in NodesOf(space, q) : space.size[c] >= MinimumLargeSize(q)}

SmallNodes(q) == NodesOf(space, q) \ LargeNodes(q)

\* IsIntervalSmallBand: single buffers of one interval, whose only conflicts are
\* those of their lifetimes.
IsIntervalSmallBand(nodes) ==
    LET buffers == UNION nodes
    IN  /\ \A c \in nodes : Cardinality(c) = 1
        /\ \A b \in buffers : Cardinality(problem.live[b]) = 1
        /\ \A e \in space.hard \cap (nodes \X nodes) :
               HaveTemporalConflict(problem, Min(e[1]), Min(e[2]))
        /\ problem.exclusions \cap (buffers \X buffers) = {}

Quantum(q) ==
    LET alignment == PoolAlignment(q)
    IN  ((MinimumLargeSize(q) \div options.epsilon) \div alignment) * alignment

Augmentation(q) == CeilDivide(problem.capacity[q], options.epsilon)

\* SolvePool before the sweep: a status when the pool is refused, or "none".
PoolRefusal(q) ==
    IF q \notin DOMAIN problem.capacity THEN "kUnsupported"
    ELSE IF NodesOf(space, q) = {} THEN "none"
    ELSE IF \/ PoolAlignment(q) > MaxUInt
            \/ \E c \in NodesOf(space, q) : space.size[c] % PoolAlignment(q) # 0
    THEN "kUnsupported"
    ELSE IF SoftPairs(space, q) = {}
    THEN IF IsIntervalSmallBand(NodesOf(space, q)) THEN "none" ELSE "kUnsupported"
    ELSE IF \/ MinimumLargeSize(q) < CeilDivide(problem.capacity[q], options.maxLarge)
            \/ ~IsIntervalSmallBand(SmallNodes(q)) \/ Quantum(q) = 0
    THEN "kUnsupported"
    ELSE IF \/ AddOverflows(problem.capacity[q], Augmentation(q))
            \/ \E c \in LargeNodes(q) : AlignUp(space.size[c], Quantum(q)) > MaxUInt
    THEN "kInvalidProblem"
    ELSE "none"

-----------------------------------------------------------------------------
(***************************************************************************)
(* The small band                                                          *)
(***************************************************************************)
\* The value of an unsigned word that a sum or product wraps to.
Word(value) == value % (MaxUInt + 1)

\* A turn of the loop of HarmonicUpper.
Halved(upper, units) ==
    LET next == Word(upper + 1) \div 2
    IN  IF upper <= 1 \/ next < units THEN upper ELSE next

\* HarmonicUpper: the threshold halved as long as the size fits, in quanta; the sum
\* before a halving and the product at the end may wrap.
HarmonicUpper(size, threshold, alignment) ==
    LET whole == CeilDivide(threshold, alignment)
        upper[n \in 0..whole] ==
            IF n = 0 THEN whole ELSE Halved(upper[n - 1], size \div alignment)
    IN  Word(upper[whole] * alignment)

\* LifetimeHull
Birth(c) == Min(UNION {{x[1] : x \in problem.live[b]} : b \in c})
Death(c) == Max(UNION {{x[2] : x \in problem.live[b]} : b \in c})

\* A set of nodes in increasing order of a key that no two of them share.
SortedBy(key) ==
    [i \in 1..Cardinality(DOMAIN key) |->
        CHOOSE c \in DOMAIN key :
            Cardinality({d \in DOMAIN key : ScoreBefore(key[d], key[c])}) = i - 1]

\* The first colour that no neighbour has.
FreeColor(color, c) ==
    Min((0..Cardinality(DOMAIN color)) \ {color[d] : d \in {e \in DOMAIN color : <<c, e>> \in space.hard}})

\* The nodes of a class take it by birth.
TrackColors(nodes) ==
    LET order == SortedBy([c \in nodes |-> <<Birth(c), Min(c)>>])
        color[i \in 0..Len(order)] ==
            IF i = 0 THEN <<>>
            ELSE Extend(color[i - 1], order[i], FreeColor(color[i - 1], order[i]))
    IN  color[Len(order)]

\* The first function, and the second where it says nothing.
Over(first, second) ==
    [c \in DOMAIN first \cup DOMAIN second |-> IF c \in DOMAIN first THEN first[c] ELSE second[c]]

\* The tracks of one class of widths on top of a band: {} when an address overflows.
Stacked(band, nodes, upper, alignment) ==
    LET color == TrackColors(nodes)
        width == AlignUp(upper, alignment)
        base == AlignUp(band.top, alignment)
        top == base + (Max(Range(color)) + 1) * width
    IN  IF base > MaxUInt \/ top > MaxUInt THEN {}
        ELSE {[top |-> top, at |-> Over([c \in DOMAIN color |-> base + color[c] * width], band.at)]}

\* PlaceSmallBand: {} when an address overflows, or {the offsets of the nodes}.
\* The classes of wide tracks come first.
SmallBand(nodes, threshold, alignment, start) ==
    LET upper(c) == HarmonicUpper(space.size[c], threshold, alignment)
        widths == SortedBy([width \in {upper(c) : c \in nodes} |-> <<-width>>])
        bands[i \in 0..Len(widths)] ==
            IF i = 0 THEN {[top |-> start, at |-> <<>>]}
            ELSE UNION {Stacked(band, {c \in nodes : upper(c) = widths[i]}, widths[i], alignment) :
                            band \in bands[i - 1]}
    IN  {band.at : band \in bands[Len(widths)]}

-----------------------------------------------------------------------------
(***************************************************************************)
(* The grid                                                                *)
(***************************************************************************)
Related(c, d) == <<c, d>> \in space.hard \cup DOMAIN space.soft

\* The last rank that asks for the offset of a rank.
LastPartner(nodes, k) == Max({k} \cup {j \in (k + 1)..Len(nodes) : Related(nodes[k], nodes[j])})

\* Mutant of KeptAfter: a node is forgotten when its lifetime is over.
KeptWhileAlive(nodes, i, k) == Death(nodes[k]) > Birth(nodes[i + 1])

\* BuildWindows: the rank is alive, or will be asked for, after rank i.
KeptAfter(nodes, i, k) ==
    Death(nodes[k]) > Birth(nodes[i + 1]) \/ LastPartner(nodes, k) >= i + 1

GridOf(q) ==
    LET nodes == SortedBy([c \in LargeNodes(q) |-> <<Birth(c), Death(c), Min(c)>>])
    IN  [pool |-> q, quantum |-> Quantum(q), limit |-> problem.capacity[q] + Augmentation(q),
         nodes |-> nodes,
         rounded |-> [i \in DOMAIN nodes |-> AlignUp(space.size[nodes[i]], Quantum(q))],
         window |-> [i \in DOMAIN nodes |->
                        {k \in 1..i : i < Len(nodes) /\ KeptAfter(nodes, i, k)}]]

\* SoftSpan: the births between the lifetimes of two ranks.
SoftSpan(nodes, i, j) ==
    IF Death(nodes[i]) > Birth(nodes[j]) THEN 0
    ELSE Cardinality({k \in DOMAIN nodes : /\ Death(nodes[i]) < Birth(nodes[k])
                                           /\ Birth(nodes[k]) <= Birth(nodes[j])})

SpanTooLong(nodes) ==
    \E i, j \in DOMAIN nodes :
        /\ i < j /\ <<nodes[i], nodes[j]>> \in DOMAIN space.soft
        /\ SoftSpan(nodes, i, j) > options.maxSpan

-----------------------------------------------------------------------------
(***************************************************************************)
(* Transitions.  An entry is [key, cost, from, color]: the colours of the  *)
(* window, the least cost, and the entry before with the colour taken.  A  *)
(* layer has its entries at places, numbers that say which one came first. *)
(***************************************************************************)
ColorCount(g, i) == (g.limit - g.rounded[i]) \div g.quantum + 1

\* Two ranks share addresses when they have these colours.
Meet(g, i, x, k, y) ==
    AddressRangesOverlap(x * g.quantum, g.rounded[i], y * g.quantum, g.rounded[k])

Before(g, i, pairs) == {k \in 1..(i - 1) : <<g.nodes[i], g.nodes[k]>> \in pairs}

TransitionFits(g, entry, i, x) ==
    \A k \in Before(g, i, space.hard) : k \in DOMAIN entry.key /\ ~Meet(g, i, x, k, entry.key[k])

TransitionCost(g, entry, i, x) ==
    SaturatingSum(LAMBDA k : space.soft[<<g.nodes[i], g.nodes[k]>>],
                  {k \in Before(g, i, DOMAIN space.soft) : Meet(g, i, x, k, entry.key[k])})

\* A soft neighbour, or a node to keep, is no longer in the window.
Lost(g, entry, i) ==
    ~ (Before(g, i, DOMAIN space.soft) \cup (g.window[i] \ {i}) \subseteq DOMAIN entry.key)

First == [key |-> <<>>, cost |-> 0, from |-> 0, color |-> 0]

Previous == IF layers = <<>> THEN <<First>> ELSE Last(layers)

\* The entry that a colour leads to from one of the last layer.
Reached(g, i, n, x) ==
    LET entry == Previous[n]
    IN  [key |-> [k \in g.window[i] |-> IF k = i THEN x ELSE entry.key[k]],
         cost |-> SaturatingAdd(entry.cost, TransitionCost(g, entry, i, x)),
         from |-> n, color |-> x]

\* What the loops over the entries and the colours come to: their order is that of
\* the places.
Transitions(g, i) ==
    LET colors == ColorCount(g, i)
        places == {n * colors + x : n \in DOMAIN Previous, x \in 0..(colors - 1)}
        fitting == {t \in places : TransitionFits(g, Previous[t \div colors], i, t % colors)}
    IN  [t \in fitting |-> Reached(g, i, t \div colors, t % colors)]

\* Mutant of CheapestOf: the last entry stays.
LastOf(entries, numbers) == Max(numbers)

\* The first of the cheapest of some entries.
CheapestOf(entries, numbers) ==
    LET least == Min({entries[n].cost : n \in numbers})
    IN  Min({n \in numbers : entries[n].cost = least})

\* Of the entries of one key the cheapest stays, at the place of the first.
Merged(entries) ==
    LET group == Tabulated([key \in {entries[n].key : n \in DOMAIN entries} |->
                                {n \in DOMAIN entries : entries[n].key = key}])
    IN  [n \in {Min(group[key]) : key \in DOMAIN group} |->
            entries[CheapestOf(entries, group[entries[n].key])]]

-----------------------------------------------------------------------------
(***************************************************************************)
(* Solve                                                                   *)
(***************************************************************************)
Init ==
    /\ problem \in Problems /\ options \in Options
    /\ space = IF PrepareAccepts(problem) THEN SearchSpace(problem) ELSE [soft |-> <<>>]
    /\ poolsLeft = problem.pools
    /\ grid = {} /\ layers = <<>> /\ dpStates = 0 /\ transitions = 0
    /\ offsets = <<>> /\ roundedCost = 0
    /\ answer = NoAnswer

AnswerWith(status) ==
    /\ answer' = [status |-> status, solution |-> {}]
    /\ UNCHANGED <<input, poolsLeft, sweep, offsets, roundedCost>>

Runs == answer = NoAnswer /\ Refusal = "none"

Refuse == answer = NoAnswer /\ Refusal # "none" /\ AnswerWith(Refusal)

PoolNow == Min(poolsLeft)

\* A pool without soft edges is all small band, a pool without nodes is nothing.
PlaceSoftFreePool(q) ==
    LET bands == SmallBand(NodesOf(space, q), problem.capacity[q], PoolAlignment(q), 0)
    IN  \/ bands = {} /\ AnswerWith("kInvalidProblem")
        \/ /\ \E band \in bands : offsets' = Over(band, offsets)
           /\ poolsLeft' = poolsLeft \ {q}
           /\ UNCHANGED <<input, sweep, roundedCost, answer>>

BeginSweep(q) ==
    /\ grid' = {GridOf(q)} /\ layers' = <<>> /\ dpStates' = 0 /\ transitions' = 0
    /\ UNCHANGED <<input, poolsLeft, offsets, roundedCost, answer>>

TakePool ==
    /\ Runs /\ grid = {} /\ poolsLeft # {}
    /\ \E q \in {PoolNow} :
           \/ PoolRefusal(q) # "none" /\ AnswerWith(PoolRefusal(q))
           \/ PoolRefusal(q) = "none" /\ SoftPairs(space, q) = {} /\ PlaceSoftFreePool(q)
           \/ PoolRefusal(q) = "none" /\ SoftPairs(space, q) # {} /\ BeginSweep(q)

Exceeds(count, limit) == limit # 0 /\ count > limit

TransitionsAfter(g, i) == transitions + Cardinality(DOMAIN Previous) * ColorCount(g, i)

\* A status when the sweep ends before or after a layer is computed, or "none".
RankRefusal(g, i) ==
    IF \/ layers = <<>> /\ SpanTooLong(g.nodes)
       \/ g.rounded[i] > g.limit \/ ColorCount(g, i) > options.maxOffsets
    THEN "kUnsupported"
    ELSE IF Exceeds(TransitionsAfter(g, i), options.maxTransitions) THEN "kTimeout"
    ELSE IF \E n \in DOMAIN Previous : Lost(g, Previous[n], i) THEN "kInvalidProblem"
    ELSE "none"

LayerRefusal(layer) ==
    IF Exceeds(dpStates + Cardinality(DOMAIN layer), options.maxStates) THEN "kTimeout"
    ELSE IF layer = <<>> THEN "kInfeasibleProven" ELSE "none"

\* One rank of RunGridDp.
SweepRank ==
    /\ Runs
    /\ \E g \in grid :
           LET i == Len(layers) + 1
           IN  /\ i <= Len(g.nodes)
               /\ \/ RankRefusal(g, i) # "none" /\ AnswerWith(RankRefusal(g, i))
                  \/ /\ RankRefusal(g, i) = "none"
                     /\ \E layer \in {Merged(Transitions(g, i))} :
                            \/ LayerRefusal(layer) # "none" /\ AnswerWith(LayerRefusal(layer))
                            \/ /\ LayerRefusal(layer) = "none"
                               /\ layers' = Append(layers, layer)
                               /\ dpStates' = dpStates + Cardinality(DOMAIN layer)
                               /\ transitions' = TransitionsAfter(g, i)
                               /\ UNCHANGED <<input, poolsLeft, grid, offsets, roundedCost, answer>>

\* The first of the cheapest entries of the last layer.
Best == CheapestOf(Last(layers), DOMAIN Last(layers))

\* The colours on the way to it.
ColorsBack(g) ==
    LET entry[i \in DOMAIN layers] ==
            IF i = Len(layers) THEN layers[i][Best]
            ELSE layers[i][entry[i + 1].from]
    IN  [i \in DOMAIN layers |-> entry[i].color]

LargeOffsets(g) ==
    LET color == ColorsBack(g)
    IN  [c \in Range(g.nodes) |-> color[CHOOSE i \in DOMAIN color : g.nodes[i] = c] * g.quantum]

PeakOf(at) == Max({at[c] + space.size[c] : c \in DOMAIN at})

\* The colours become offsets and the small band goes on top.
EndSweep ==
    /\ Runs
    /\ \E g \in grid :
           /\ Len(layers) = Len(g.nodes)
           /\ \E at \in {LargeOffsets(g)} :
                  LET bands == SmallBand(SmallNodes(g.pool), MinimumLargeSize(g.pool),
                                         PoolAlignment(g.pool), PeakOf(at))
                  IN  \/ bands = {} /\ AnswerWith("kInvalidProblem")
                      \/ /\ \E band \in bands : offsets' = Over(band, Over(at, offsets))
                         /\ roundedCost' = SaturatingAdd(roundedCost, Last(layers)[Best].cost)
                         /\ poolsLeft' = poolsLeft \ {g.pool} /\ grid' = {} /\ layers' = <<>>
                         /\ UNCHANGED <<input, dpStates, transitions, answer>>

\* BuildBicriteriaResult
Bicriteria(sol) ==
    IF \/ ~ValidSolution(WithoutCapacities(problem), sol)
       \/ ReuseCost(problem, sol) > roundedCost
    THEN [status |-> "kInvalidProblem", solution |-> {}]
    ELSE [status |-> IF CapacityOverflow(problem, sol) = 0 THEN "kFeasible" ELSE "kBestEffortNoFit",
          solution |-> {sol}]

EndPools ==
    /\ Runs /\ poolsLeft = {}
    /\ answer' = Bicriteria(SolutionOf(problem, offsets))
    /\ UNCHANGED <<input, poolsLeft, sweep, offsets, roundedCost>>

Terminated == answer # NoAnswer /\ UNCHANGED vars

Next == Refuse \/ TakePool \/ SweepRank \/ EndSweep \/ EndPools \/ Terminated

Spec == Init /\ [][Next]_vars

-----------------------------------------------------------------------------
(***************************************************************************)
(* Properties                                                              *)
(***************************************************************************)
TypeOK ==
    /\ poolsLeft \subseteq problem.pools
    /\ layers \in Seq(Range(layers))
    /\ \A g \in grid : grid = {g} /\ g.pool \in poolsLeft /\ Len(layers) <= Len(g.nodes)
    /\ \A c \in DOMAIN offsets : offsets[c] \in 0..MaxUInt /\ space.pool[c] \notin poolsLeft
    /\ roundedCost \in 0..MaxUInt

\* What the loops work on: the search space of the problem, the grid of the first
\* pool left.
InputKept ==
    /\ problem \in Problems /\ options \in Options
    /\ PrepareAccepts(problem) => space = SearchSpace(problem)
    /\ \A g \in grid :
           /\ Refusal = "none" /\ PoolRefusal(PoolNow) = "none" /\ SoftPairs(space, PoolNow) # {}
           /\ g = GridOf(PoolNow)

\* Every entry was reached by a colour that fits the band, from an entry of the
\* layer before: the colours can be read off on the way back.
LayersLeadBack ==
    \A g \in grid : \A i \in DOMAIN layers :
        /\ DOMAIN layers[i] # {} /\ g.rounded[i] <= g.limit
        /\ \A n \in DOMAIN layers[i] :
               /\ n \in Nat /\ layers[i][n].color \in 0..(ColorCount(g, i) - 1)
               /\ i > 1 => layers[i][n].from \in DOMAIN layers[i - 1]

\* BuildWindows drops no node too early: what a later rank asks for has been kept
\* in every entry, whatever holes the lifetimes have.
WindowsSuffice ==
    \A g \in grid : \A k \in DOMAIN layers, j \in (Len(layers) + 1)..Len(g.nodes) :
        Related(g.nodes[k], g.nodes[j]) =>
            \A n \in DOMAIN Previous : k \in DOMAIN Previous[n].key

\* The grid placements of the first ranks.
Assignments(g, m) ==
    {f \in [1..m -> 0..Max({0} \cup {ColorCount(g, i) : i \in 1..m})] :
        \A i \in 1..m : /\ f[i] < ColorCount(g, i)
                        /\ \A k \in Before(g, i, space.hard) : ~Meet(g, i, f[i], k, f[k])}

AssignmentCost(g, f) ==
    SaturatingSum(LAMBDA e : space.soft[<<g.nodes[e[1]], g.nodes[e[2]]>>],
                  {e \in (DOMAIN f) \X (DOMAIN f) :
                      /\ e[2] \in Before(g, e[1], DOMAIN space.soft)
                      /\ Meet(g, e[1], f[e[1]], e[2], f[e[2]])})

CostsOf(g, m) == Tabulated([f \in Assignments(g, m) |-> AssignmentCost(g, f)])

\* A layer forgets nothing that matters: it has an entry for the window of every
\* grid placement of the ranks swept, and its cost is that of the cheapest.
LayerIsCheapest(g, m, layer) ==
    LET seen(f) == [k \in g.window[m] |-> f[k]]
        cost == CostsOf(g, m)
    IN  /\ {layer[n].key : n \in DOMAIN layer} = {seen(f) : f \in DOMAIN cost}
        /\ \A n \in DOMAIN layer :
               layer[n].cost = Min({cost[f] : f \in {h \in DOMAIN cost : seen(h) = layer[n].key}})

LayersAreCheapest ==
    \A g \in grid : layers # <<>> => LayerIsCheapest(g, Len(layers), Last(layers))

IInv == TypeOK /\ InputKept /\ LayersLeadBack /\ WindowsSuffice /\ LayersAreCheapest

ValidPlacements == Tabulated([p \in {x \in Problems : PrepareAccepts(x)} |-> PlacementsOf(p)])

\* HarmonicUpper is right for nodes up to the threshold when the threshold, in whole
\* quanta, is a word.  For a pool without soft edges the threshold is its capacity.
SoftFreePoolsFit ==
    \A q \in problem.pools : SoftPairs(space, q) = {} =>
        /\ AlignUp(problem.capacity[q], PoolAlignment(q)) <= MaxUInt
        /\ \A c \in NodesOf(space, q) : space.size[c] <= problem.capacity[q]

\* The bicriteria bound: the rounded cost is the true one and no more than that of
\* any placement that fits the capacity, and the large nodes stay in the augmented
\* band; kInfeasibleProven is a proof for the capacity, though sizes were rounded
\* up; and what the bands come to is structurally valid, unless the capacity of a pool
\* without soft edges is no threshold for its tracks.
BoundsHold ==
    /\ \A sol \in answer.solution :
           /\ ReuseCost(problem, sol) = roundedCost
           /\ \A other \in ValidPlacements[problem] : roundedCost <= ReuseCost(problem, other)
           /\ \A q \in problem.pools : SoftPairs(space, q) # {} =>
                  \A c \in LargeNodes(q) :
                      sol[Min(c)].offset + space.size[c] <= problem.capacity[q] + Augmentation(q)
    /\ answer.status = "kInfeasibleProven" => ValidPlacements[problem] = {}
    /\ answer.status = "kInvalidProblem" /\ Refusal = "none" /\ poolsLeft = {} => ~SoftFreePoolsFit
=============================================================================
