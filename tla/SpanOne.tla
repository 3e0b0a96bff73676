------------------------------ MODULE SpanOne ------------------------------
(***************************************************************************)
(* SpanOneMinCostFlowSolver of src/dsa/algorithms/                         *)
(* reuse_penalty_portfolio_solvers.cpp.  The hard components of a pool are *)
(* cliques, its phases; penalties lie between consecutive phases only.     *)
(* Two phases together exceed the colours by so many buffers that have to  *)
(* share: a matching of that cardinality and least cost, found by          *)
(* successive shortest paths in a flow network, whose distances come from  *)
(* the sweeps of Bellman and Ford.                                         *)
(*                                                                         *)
(* All arcs have capacity one, so the network is its set of residual arcs. *)
(***************************************************************************)
EXTENDS ReuseMethod

VARIABLES
    step,           \* "pool", "match", "sweep", "back"
    phases,         \* the phases of the pool, sequences of nodes
    boundary,       \* the phase to the left of the boundary
    color,          \* colors of the phases up to the boundary
    residual,       \* the arcs <<from, to>> of capacity one
    pushed,         \* units of flow so far
    distance, previous, iteration, from, changed,
    vertex          \* where the walk back from the sink is

sweeps == <<distance, previous, iteration, from, changed, vertex>>
spanVars == <<step, phases, boundary, color, residual, pushed, sweeps>>

-----------------------------------------------------------------------------
(***************************************************************************)
(* BuildSpanPool                                                           *)
(***************************************************************************)
NodeBirth(c) == Min(UNION {{x[1] : x \in problem.live[b]} : b \in c})

ComponentVerdict(q, C) ==
    IF \E c, d \in C : c # d /\ <<c, d>> \notin space.hard THEN "kUnsupported"
    ELSE IF Cardinality(C) > ColorsOf(q) THEN "kInfeasibleProven"
    ELSE IF Cardinality(C) > options.maxPhase THEN "kUnsupported"
    ELSE "kFeasible"

\* Phases by the birth of their first buffers.
PhaseBefore(C, D) ==
    LET born(S) == NodeBirth(Ranked(S)[1])
    IN  born(C) < born(D) \/ (born(C) = born(D) /\ Lowest(C) < Lowest(D))

PhasesOf(q) ==
    LET C == HardComponents(q)
    IN  [i \in 1..Cardinality(C) |->
            Ranked(CHOOSE S \in C : Cardinality({T \in C : PhaseBefore(T, S)}) = i - 1)]

PhaseOf(seq, c) == CHOOSE i \in DOMAIN seq : c \in Range(seq[i])

SoftEdgesAdjacent(q) ==
    \A edge \in SoftPairs(space, q) :
        PhaseOf(PhasesOf(q), edge[1]) - PhaseOf(PhasesOf(q), edge[2]) \in {-1, 1}

\* The first component that is no phase decides.
SpanVerdict(q) ==
    LET refused == {C \in HardComponents(q) : ComponentVerdict(q, C) # "kFeasible"}
    IN  IF NodesOf(space, q) = {} THEN "kFeasible"
        ELSE IF ~UniformUnits(q) THEN "kUnsupported"
        ELSE IF refused # {}
        THEN ComponentVerdict(q, CHOOSE C \in refused : \A D \in refused : Lowest(C) <= Lowest(D))
        ELSE IF ~SoftEdgesAdjacent(q) THEN "kUnsupported"
        ELSE "kFeasible"

-----------------------------------------------------------------------------
(***************************************************************************)
(* The flow network of a boundary: 0 is the source, then the left and the  *)
(* right nodes, and the sink is last.                                      *)
(***************************************************************************)
Left == phases[boundary]
Right == phases[boundary + 1]
Lefts == 1..Len(Left)
Rights == (Len(Left) + 1)..(Len(Left) + Len(Right))
Sink == Len(Left) + Len(Right) + 1

NodeAt(v) == IF v \in Lefts THEN Left[v] ELSE Right[v - Len(Left)]

\* Mutant of ArcCost: an arc of the matching is taken back for nothing.
ArcCostOneWay(u, v) ==
    IF u \in Lefts /\ v \in Rights THEN SoftWeight(space, NodeAt(u), NodeAt(v)) ELSE 0

ArcCost(u, v) ==
    IF u \in Lefts /\ v \in Rights THEN SoftWeight(space, NodeAt(u), NodeAt(v))
    ELSE IF u \in Rights /\ v \in Lefts THEN -SoftWeight(space, NodeAt(u), NodeAt(v))
    ELSE 0

Network == ({0} \X Lefts) \cup (Lefts \X Rights) \cup (Rights \X {Sink})

Matching == {<<u, v>> \in Lefts \X Rights : <<u, v>> \notin residual}

\* Costs are signed: no distance may come near this bound.
Infinity == (MaxUInt \div 2) \div 4

Required(q) == Max({0, Len(Left) + Len(Right) - ColorsOf(q)})

Unmatchable(q) ==
    /\ Required(q) # 0
    /\ \/ Required(q) > Min({Len(Left), Len(Right)})
       \/ SaturatingSum(LAMBDA arc : ArcCost(arc[1], arc[2]), Lefts \X Rights) > Infinity

-----------------------------------------------------------------------------
SpanInit ==
    /\ step = "pool" /\ phases = <<>> /\ boundary = 0 /\ color = NoOffsets
    /\ residual = {} /\ pushed = 0
    /\ distance = <<>> /\ previous = <<>> /\ iteration = 0 /\ from = 0 /\ changed = FALSE
    /\ vertex = 0

SpanRejects ==
    /\ Running("span") /\ poolsLeft = problem.pools /\ poolNow = {}
    /\ ~CompatibleWithMethods \/ ~RequiresReuse
    /\ AnswerWith("kUnsupported")
    /\ UNCHANGED spanVars

SpanMayRun == Running("span") /\ CompatibleWithMethods /\ RequiresReuse

SpanRefusesPool ==
    /\ SpanMayRun /\ poolNow = {}
    /\ \E q \in poolsLeft : SpanVerdict(q) # "kFeasible" /\ AnswerWith(SpanVerdict(q))
    /\ UNCHANGED spanVars

SpanStartsPool ==
    /\ SpanMayRun
    /\ \E q \in poolsLeft :
           /\ SpanVerdict(q) = "kFeasible" /\ NodesOf(space, q) # {}
           /\ TakesPool(q)
           /\ phases' = PhasesOf(q)
           /\ color' = [c \in Range(phases'[1]) |-> IndexFirstSubSeq(<<c>>, phases'[1]) - 1]
    /\ boundary' = 1 /\ step' = "pool"
    /\ UNCHANGED <<residual, pushed, sweeps>>

SpanPassesPool ==
    /\ SpanMayRun /\ \E q \in poolsLeft : PassesPool(q)
    /\ UNCHANGED spanVars

\* MinimumCardinalityMatching is called, and gives up at once or builds the network.
SpanCannotMatch ==
    /\ Running("span") /\ step = "pool" /\ boundary < Len(phases)
    /\ \E q \in poolNow : Unmatchable(q)
    /\ AnswerWith("kUnsupported")
    /\ UNCHANGED spanVars

StartBoundary ==
    /\ Running("span") /\ step = "pool" /\ boundary < Len(phases)
    /\ \E q \in poolNow : ~Unmatchable(q)
    /\ step' = "match" /\ residual' = Network /\ pushed' = 0
    /\ UNCHANGED <<frame, phases, boundary, color, sweeps>>

-----------------------------------------------------------------------------
(***************************************************************************)
(* One unit of flow                                                        *)
(***************************************************************************)
Flowing(s) == Running("span") /\ step = s

StartSweeps ==
    /\ Flowing("match") /\ \E q \in poolNow : pushed < Required(q)
    /\ step' = "sweep"
    /\ distance' = [v \in 0..Sink |-> IF v = 0 THEN 0 ELSE Infinity]
    /\ previous' = [v \in 0..Sink |-> -1]
    /\ iteration' = 1 /\ from' = 0 /\ changed' = FALSE /\ vertex' = Sink
    /\ UNCHANGED <<frame, phases, boundary, color, residual, pushed>>

Reaches(v) ==
    distance[from] # Infinity /\ <<from, v>> \in residual

\* Mutant of Shortens: a predecessor is rewritten at equal distance.
ShortensOrEquals(v) == Reaches(v) /\ distance[from] + ArcCost(from, v) <= distance[v]

Shortens(v) == Reaches(v) /\ distance[from] + ArcCost(from, v) < distance[v]

\* The arcs of a vertex lead to different vertices, so their order is no matter.
Relax ==
    /\ Flowing("sweep") /\ from <= Sink
    /\ distance' = [v \in 0..Sink |->
                       IF Shortens(v) THEN distance[from] + ArcCost(from, v) ELSE distance[v]]
    /\ previous' = [v \in 0..Sink |-> IF Shortens(v) THEN from ELSE previous[v]]
    /\ changed' = (changed \/ \E v \in 0..Sink : Shortens(v))
    /\ from' = from + 1
    /\ UNCHANGED <<frame, step, phases, boundary, color, residual, pushed, iteration, vertex>>

\* There are Sink + 1 vertices and at most Sink sweeps.
EndSweep ==
    /\ Flowing("sweep") /\ from > Sink
    /\ IF changed /\ iteration < Sink
       THEN iteration' = iteration + 1 /\ from' = 0 /\ changed' = FALSE /\ step' = step
       ELSE step' = "back" /\ UNCHANGED <<iteration, from, changed>>
    /\ UNCHANGED <<frame, phases, boundary, color, residual, pushed, distance, previous, vertex>>

\* The sink was not reached, or the walk back from it meets no predecessor.
Lost == distance[Sink] = Infinity \/ (vertex # 0 /\ previous[vertex] = -1)

NoPath ==
    /\ Flowing("back") /\ Lost
    /\ AnswerWith("kUnsupported")
    /\ UNCHANGED spanVars

StepBack ==
    /\ Flowing("back") /\ ~Lost /\ vertex # 0
    /\ residual' = (residual \ {<<previous[vertex], vertex>>}) \cup {<<vertex, previous[vertex]>>}
    /\ vertex' = previous[vertex]
    /\ UNCHANGED <<frame, step, phases, boundary, color, pushed,
                   distance, previous, iteration, from, changed>>

Augmented ==
    /\ Flowing("back") /\ ~Lost /\ vertex = 0
    /\ pushed' = pushed + 1 /\ step' = "match"
    /\ UNCHANGED <<frame, phases, boundary, color, residual, sweeps>>

-----------------------------------------------------------------------------
(***************************************************************************)
(* The matched buffers of the right phase share the colours of their       *)
(* partners; the others take the lowest colours the left phase has not.    *)
(***************************************************************************)
UsedLeft == {color[c] : c \in Range(Left)}

FreeColor(k) ==
    CHOOSE x \in 0..(Len(Left) + k) : x \notin UsedLeft /\ Cardinality((0..x) \ UsedLeft) = k

Assigned == {arc[2] : arc \in Matching}

RightColor(v) ==
    IF v \in Assigned THEN color[NodeAt((CHOOSE arc \in Matching : arc[2] = v)[1])]
    ELSE FreeColor(Cardinality({u \in Rights \ Assigned : u <= v}))

Matched(q) == Flowing("match") /\ pushed = Required(q)

CompleteBoundary ==
    /\ \E q \in poolNow : Matched(q) /\ \A v \in Rights : RightColor(v) < ColorsOf(q)
    /\ color' = [c \in Range(Right) |->
                    RightColor(CHOOSE v \in Rights : NodeAt(v) = c)] @@ color
    /\ boundary' = boundary + 1 /\ step' = "pool"
    /\ UNCHANGED <<frame, phases, residual, pushed, sweeps>>

SpanPoolSolved ==
    /\ Running("span") /\ poolNow # {} /\ step = "pool" /\ boundary = Len(phases)
    /\ ColorsPool(color, FALSE)
    /\ UNCHANGED spanVars

SpanAnswers ==
    /\ SpanMayRun /\ AllPoolsColored
    /\ Answers(Validated("kFeasible"))
    /\ UNCHANGED spanVars

SpanNext ==
    \/ SpanRejects \/ SpanRefusesPool \/ SpanStartsPool \/ SpanPassesPool
    \/ SpanCannotMatch \/ StartBoundary \/ StartSweeps \/ Relax \/ EndSweep
    \/ NoPath \/ StepBack \/ Augmented \/ CompleteBoundary
    \/ SpanPoolSolved \/ SpanAnswers

-----------------------------------------------------------------------------
(***************************************************************************)
(* Properties                                                              *)
(***************************************************************************)
MatchingCost(M) == SaturatingSum(LAMBDA arc : ArcCost(arc[1], arc[2]), M)

MatchingsOf(n) ==
    {M \in SUBSET (Lefts \X Rights) :
        /\ Cardinality(M) = n
        /\ \A a, b \in M : a # b => a[1] # b[1] /\ a[2] # b[2]}

\* Every unit of flow leaves a matching that is cheapest for its cardinality,
\* though arcs of earlier matchings are taken back on the way.
MatchingIsCheapest ==
    step = "match" /\ Running("span") =>
        /\ Matching \in MatchingsOf(pushed)
        /\ \A M \in MatchingsOf(pushed) : MatchingCost(Matching) <= MatchingCost(M)

\* The walk back from the sink meets a predecessor at every vertex and comes to
\* the source: zero-cost arcs never close a cycle of predecessors.
PredecessorsLeadBack ==
    step \in {"sweep", "back"} /\ Running("span") =>
        LET before[n \in Nat] ==
                IF n = 0 THEN {v \in 0..Sink : v # 0 /\ distance[v] # Infinity}
                ELSE {previous[v] : v \in before[n - 1] \ {0}}
        IN  /\ 0 \notin {v \in 0..Sink : previous[v] # -1}
            /\ before[Sink + 1] \subseteq {0}

\* The greedy completion of a matching of the required cardinality always finds
\* a colour, and a phase never has a colour twice.
CompletionFits ==
    Running("span") /\ poolNow # {} =>
        /\ \A q \in poolNow : Matched(q) => \A v \in Rights : RightColor(v) < ColorsOf(q)
        /\ \A c, d \in DOMAIN color : <<c, d>> \in space.hard => color[c] # color[d]
=============================================================================
