--------------------------- MODULE PromotedSearch ---------------------------
(***************************************************************************)
(* src/dsa/algorithms/reuse_penalty_local_search_solver.cpp: a local       *)
(* search over pairs of a first-fit order and a set of soft edges promoted *)
(* to separations.  It starts from two plain decodings and from what       *)
(* canonical_greedy and promote_repair return, tries single toggles and    *)
(* order moves around the current candidate, may accept one that is not    *)
(* better, kicks when it stagnates, and restarts from the best candidate.  *)
(*                                                                         *)
(* A candidate is <<order, promoted>>; its result is in the table.  Random *)
(* choices are free.                                                       *)
(***************************************************************************)
EXTENDS ReuseBaselines

VARIABLES
    stage,
    evaluations, restart, stagnation,
    move,               \* the moves tried in this iteration
    best, current, next,
    escape,             \* accepted_escape: {} or {candidate}
    constructive,       \* constructive_incumbent: {} or {a result}
    least               \* for the properties: the least score met so far

budget == <<evaluations, restart, stagnation, move>>
candidates == <<best, current, next, escape, constructive, least>>
searchVars == <<stage, budget, candidates>>
vars == <<input, running, answer, baselineVars, searchVars>>

-----------------------------------------------------------------------------
(***************************************************************************)
(* Scores                                                                  *)
(***************************************************************************)
WorstSearchScore == [i \in 1..(Len(problem.terms) + 2) |-> MaxUInt]

\* ResultScore: a fit comes before every placement that does not fit.
SearchScore(p, result) ==
    IF result.solution = {} \/ result.status \notin {"kFeasible", "kBestEffortNoFit"}
    THEN [i \in 1..(Len(p.terms) + 2) |-> MaxUInt]
    ELSE <<IF result.status = "kFeasible" THEN 0 ELSE 1, result.objective.capacity_overflow>>
             \o [i \in DOMAIN p.terms |-> result.objective[p.terms[i]]]

ScoreOfCandidate(x) == SearchScore(problem, table.decoded[x])

\* Of equal scores, more promoted edges and then the lesser order.
Better(x, y) ==
    \/ ScoreBefore(ScoreOfCandidate(x), ScoreOfCandidate(y))
    \/ /\ ScoreOfCandidate(x) = ScoreOfCandidate(y)
       /\ \/ Cardinality(x[2]) > Cardinality(y[2])
          \/ Cardinality(x[2]) = Cardinality(y[2]) /\ ScoreBefore(x[1], y[1])

BetterOf(x, y) == IF Better(x, y) THEN x ELSE y

-----------------------------------------------------------------------------
(***************************************************************************)
(* Moves                                                                   *)
(***************************************************************************)
ActivatedPairs(p, sol) ==
    {e \in AllSoft : ExtentsOverlap(p, sol, Min(e[1]), Min(e[2]))}

ActivatedBy(x) == UNION {ActivatedPairs(problem, sol) : sol \in table.decoded[x].solution}

Toggle(promoted, e) == IF e \in promoted THEN promoted \ {e} ELSE promoted \cup {e}

\* OrderedSoftMoves: activated pairs that are not promoted, the costliest first;
\* promoted ones, the cheapest first; the others, the costliest first.
SoftMoveKey(x, e) ==
    LET weight == table.space.soft[e]
        dear == MaxUInt - weight
    IN  (IF e \in x[2] THEN <<1, weight>>
         ELSE IF e \in ActivatedBy(x) THEN <<0, dear>> ELSE <<2, dear>>)
            \o <<Min(e[1]), Min(e[2])>>

SoftMoveAt(x, i) ==
    CHOOSE e \in AllSoft :
        Cardinality({f \in AllSoft :
            ScoreBefore(SoftMoveKey(x, f), SoftMoveKey(x, e))}) = i - 1

PositionOf(order, c) == CHOOSE i \in DOMAIN order : order[i] = Min(c)

\* The two positions are swapped, or the first is put right before the second.
MovesBetween(order, i, j) ==
    {[order EXCEPT ![i] = order[j], ![j] = order[i]],
     InsertAt(RemoveAt(order, i), IF i < j THEN j - 1 ELSE j, order[i])}

\* ApplyOrderMove
OrderMoves(order) ==
    IF Len(order) < 2 THEN {order}
    ELSE UNION {MovesBetween(order, x[1], x[2]) :
                   x \in {y \in (DOMAIN order) \X (DOMAIN order) : y[1] # y[2]}}

\* The overflowing class of largest overflow, then highest top, then greatest
\* representative.
Highest(sol) ==
    LET over == {c \in Nodes : Top(sol, c) > problem.capacity[sol[Min(c)].pool]}
        key(c) == <<Top(sol, c) - problem.capacity[sol[Min(c)].pool], Top(sol, c), Min(c)>>
    IN  {c \in over : \A d \in over : ~ScoreBefore(key(c), key(d))}

\* Pairs are drawn by weight; what is drawn when all weights are zero is undefined.
MayBeDrawn(pairs) ==
    LET weighty == {e \in pairs : table.space.soft[e] > 0}
    IN  IF weighty = {} THEN pairs ELSE weighty

TargetNodes(x) ==
    LET highest == UNION {Highest(sol) : sol \in table.decoded[x].solution}
    IN  IF highest # {} THEN highest
        ELSE IF ActivatedBy(x) # {} THEN UNION {{e[1], e[2]} : e \in MayBeDrawn(ActivatedBy(x))}
        ELSE Nodes

CombinedNeighbors(c) ==
    {d \in Nodes :
        <<c, d>> \in table.space.hard \cup DOMAIN table.space.soft}

\* ApplyTargetedOrderMove, or ApplyOrderMove when it moves nothing.
TargetedOrderMoves(x) ==
    LET near(t) == (CombinedNeighbors(t) \cup UNION {CombinedNeighbors(d) : d \in CombinedNeighbors(t)})
                       \ {t}
    IN  UNION {IF near(t) = {} THEN OrderMoves(x[1])
               ELSE UNION {MovesBetween(x[1], PositionOf(x[1], t), PositionOf(x[1], d)) : d \in near(t)} :
                  t \in TargetNodes(x)}

-----------------------------------------------------------------------------
(***************************************************************************)
(* Seeds                                                                   *)
(***************************************************************************)
NoCandidate == <<<<>>, {}>>

Init ==
    /\ \E p \in {x[1] : x \in Cases} :
           /\ problem = p /\ table = TableOf(p)
           /\ \E x \in {y \in Cases : y[1] = p} : options = x[2]
    /\ running = <<options.solver>> /\ answer = NoAnswer
    /\ BaselinesInit
    /\ stage = "plain"
    /\ evaluations = 0 /\ restart = 0 /\ stagnation = 0 /\ move = 0
    /\ best = NoCandidate /\ current = NoCandidate /\ next = NoCandidate
    /\ escape = {} /\ constructive = {} /\ least = WorstSearchScore

SearchMayRun == Active("reuse_penalty_local_search")

\* What the local search refuses: it places pins and minimises peaks.
SearchRefusal(p) ==
    IF ~ValidProblem(p) THEN "kInvalidProblem"
    ELSE IF \/ \E b \in p.buffers : Cardinality(p.allowed[b]) > 1
            \/ "bank_cost" \in Range(p.terms) \/ ~FixedCapacities(p)
    THEN "kUnsupported"
    ELSE IF ~PrepareAccepts(p) THEN "kInvalidProblem"
    ELSE "none"

RefuseSearch ==
    /\ SearchMayRun /\ stage = "plain" /\ SearchRefusal(problem) # "none"
    /\ Return(Without(SearchRefusal(problem)))
    /\ UNCHANGED <<input, baselineVars, searchVars>>

BudgetLeft == evaluations < options.maxEvaluations

Lesser(s, t) == IF ScoreBefore(s, t) THEN s ELSE t

Evaluates(x) ==
    /\ evaluations' = evaluations + 1
    /\ least' = Lesser(ScoreOfCandidate(x), least)

PlainSeed ==
    /\ SearchMayRun /\ stage = "plain" /\ SearchRefusal(problem) = "none"
    /\ best' = <<table.orders[1], {}>>
    /\ Evaluates(best')
    /\ stage' = "strict"
    /\ UNCHANGED <<input, running, answer, baselineVars, restart, stagnation, move,
                   current, next, escape, constructive>>

StrictSeed ==
    /\ SearchMayRun /\ stage = "strict"
    /\ LET strict == <<table.orders[1], AllSoft>>
       IN  \/ BudgetLeft /\ Evaluates(strict) /\ best' = BetterOf(strict, best)
           \/ ~BudgetLeft /\ UNCHANGED <<evaluations, least, best>>
    /\ stage' = "canonical_greedy"
    /\ UNCHANGED <<input, running, answer, baselineVars, restart, stagnation, move,
                   current, next, escape, constructive>>

StageAfter(solver) == IF solver = "canonical_greedy" THEN "promote_repair" ELSE "ready"

CallSeed(solver) ==
    /\ SearchMayRun /\ stage = solver /\ answer = NoAnswer
    /\ \/ BudgetLeft /\ Call(solver) /\ UNCHANGED stage
       \/ ~BudgetLeft /\ stage' = StageAfter(solver) /\ UNCHANGED <<running, answer>>
    /\ UNCHANGED <<input, baselineVars, budget, candidates>>

\* ConstructiveSeed: the classes by pool and offset, and after promote_repair the
\* pairs it keeps apart.
ConstructiveSeed(solver, sol) ==
    << OrderBy([c \in Nodes |-> <<sol[Min(c)].pool, sol[Min(c)].offset, Min(c)>>]),
       IF solver = "promote_repair" THEN AllSoft \ ActivatedPairs(problem, sol) ELSE {} >>

\* retain_constructive_incumbent
RetainIncumbent ==
    constructive' = IF \A old \in constructive :
                           ScoreBefore(SearchScore(problem, answer), SearchScore(problem, old))
                    THEN {answer} ELSE constructive

SeedReturns(solver) ==
    /\ SearchMayRun /\ stage = solver /\ answer # NoAnswer
    /\ \/ /\ answer.status = "kFeasible"
          /\ RetainIncumbent
          /\ \E seed \in {ConstructiveSeed(solver, sol) : sol \in answer.solution} :
                 /\ best' = BetterOf(seed, best)
                 /\ least' = Lesser(SearchScore(problem, answer), Lesser(ScoreOfCandidate(seed), least))
          /\ evaluations' = evaluations + 1
       \/ answer.status # "kFeasible" /\ UNCHANGED <<constructive, best, least, evaluations>>
    /\ answer' = NoAnswer /\ stage' = StageAfter(solver)
    /\ UNCHANGED <<input, running, baselineVars, restart, stagnation, move, current, next, escape>>

-----------------------------------------------------------------------------
(***************************************************************************)
(* Search                                                                  *)
(***************************************************************************)
\* Mutant of Output: the constructive placement is forgotten.
OutputOfSearch == table.decoded[best]

\* The constructive result is returned when it is better than the best decoding.
Output ==
    IF \E found \in constructive :
           ScoreBefore(SearchScore(problem, found), ScoreOfCandidate(best))
    THEN CHOOSE found \in constructive : TRUE
    ELSE table.decoded[best]

Finish == Return(Output) /\ UNCHANGED <<input, baselineVars, searchVars>>

NothingToSearch ==
    ~BudgetLeft \/ options.restarts = 0 \/ (Cardinality(Nodes) < 2 /\ AllSoft = {})

SeedsSuffice == SearchMayRun /\ stage = "ready" /\ NothingToSearch /\ Finish

MayRestart == BudgetLeft /\ restart < options.restarts

FirstRestart ==
    /\ SearchMayRun /\ stage = "ready" /\ ~NothingToSearch
    /\ current' = best /\ stagnation' = 0 /\ stage' = "iterate"
    /\ UNCHANGED <<input, running, answer, baselineVars, evaluations, restart, move,
                   best, next, escape, constructive, least>>

Restart ==
    /\ SearchMayRun /\ stage = "restart" /\ MayRestart
    /\ \E order \in Orders(problem), promoted \in SUBSET AllSoft :
           current' = <<order, promoted>>
    /\ Evaluates(current') /\ best' = BetterOf(current', best)
    /\ stagnation' = 0 /\ stage' = "iterate"
    /\ UNCHANGED <<input, running, answer, baselineVars, restart, move,
                   next, escape, constructive>>

RestartsEnd == SearchMayRun /\ stage = "restart" /\ ~MayRestart /\ Finish

BeginIteration ==
    /\ SearchMayRun /\ stage = "iterate"
    /\ \/ /\ BudgetLeft /\ stagnation < options.stagnationLimit
          /\ next' = current /\ escape' = {} /\ move' = 0 /\ stage' = "moves"
          /\ UNCHANGED restart
       \/ /\ ~BudgetLeft \/ stagnation >= options.stagnationLimit
          /\ restart' = restart + 1 /\ stage' = "restart"
          /\ UNCHANGED <<next, escape, move>>
    /\ UNCHANGED <<input, running, answer, baselineVars, evaluations, stagnation,
                   best, current, constructive, least>>

\* AcceptNonImproving: the probability decays to zero at the end of the budget.
MayAccept == options.acceptsWorse /\ evaluations' < options.maxEvaluations

\* Mutant of Improves: the last improvement of the current candidate is taken.
ImprovesCurrent(x) == Better(x, current)

Improves(x) == Better(x, next)

Tries(x) ==
    /\ Evaluates(x)
    /\ \/ Improves(x) /\ next' = x /\ UNCHANGED escape
       \/ /\ ~Improves(x) /\ ~Better(x, current) /\ MayAccept
          /\ \A e \in escape : Better(x, e)
          /\ escape' = {x} /\ UNCHANGED next
       \/ ~Improves(x) /\ UNCHANGED <<next, escape>>
    /\ move' = move + 1
    /\ UNCHANGED <<input, running, answer, baselineVars, stage, restart, stagnation,
                   best, current, constructive>>

SoftLimit == Min({options.softMoves, Cardinality(AllSoft)})

SoftMove ==
    /\ SearchMayRun /\ stage = "moves" /\ BudgetLeft /\ move < SoftLimit
    /\ \E e \in {SoftMoveAt(current, move + 1)} : Tries(<<current[1], Toggle(current[2], e)>>)

OrderMove ==
    /\ SearchMayRun /\ stage = "moves" /\ BudgetLeft
    /\ SoftLimit <= move /\ move < SoftLimit + options.orderMoves
    /\ \E order \in TargetedOrderMoves(current) : Tries(<<order, current[2]>>)

MovesEnd ==
    SearchMayRun /\ stage = "moves" /\ (~BudgetLeft \/ move = SoftLimit + options.orderMoves)

TakeNext ==
    /\ MovesEnd /\ next # current
    /\ current' = next /\ stagnation' = 0 /\ best' = BetterOf(next, best)
    /\ stage' = "iterate"
    /\ UNCHANGED <<input, running, answer, baselineVars, evaluations, restart, move,
                   next, escape, constructive, least>>

Stagnate ==
    /\ MovesEnd /\ next = current
    /\ stagnation' = stagnation + 1
    /\ \/ /\ \E e \in escape : current' = e
          /\ stage' = "iterate"
       \/ /\ escape = {} /\ UNCHANGED current
          /\ stage' = IF stagnation' = options.stagnationLimit \div 2 /\ BudgetLeft
                      THEN "kick" ELSE "iterate"
    /\ UNCHANGED <<input, running, answer, baselineVars, evaluations, restart, move,
                   best, next, escape, constructive, least>>

Kick ==
    /\ SearchMayRun /\ stage = "kick"
    /\ \E order \in OrderMoves(current[1]),
          promoted \in IF AllSoft = {} THEN {current[2]}
                       ELSE {Toggle(current[2], e) : e \in AllSoft} :
              current' = <<order, promoted>>
    /\ Evaluates(current') /\ best' = BetterOf(current', best)
    /\ stage' = "iterate"
    /\ UNCHANGED <<input, running, answer, baselineVars, restart, stagnation, move,
                   next, escape, constructive>>

-----------------------------------------------------------------------------
Terminated == running = <<>> /\ UNCHANGED vars

SearchNext ==
    \/ RefuseSearch \/ PlainSeed \/ StrictSeed
    \/ \E solver \in {"canonical_greedy", "promote_repair"} : CallSeed(solver) \/ SeedReturns(solver)
    \/ SeedsSuffice \/ FirstRestart \/ Restart \/ RestartsEnd
    \/ BeginIteration \/ SoftMove \/ OrderMove \/ TakeNext \/ Stagnate \/ Kick

Next ==
    \/ BaselinesNext /\ UNCHANGED searchVars
    \/ SearchNext
    \/ Terminated

\* One thread that never waits.
Spec == Init /\ [][Next]_vars /\ WF_vars(Next)

-----------------------------------------------------------------------------
(***************************************************************************)
(* Properties                                                              *)
(***************************************************************************)
Solvers == Baselines \cup {"reuse_penalty_local_search"}

Searching == evaluations > 0

TypeOK ==
    /\ \A i \in DOMAIN running : running[i] \in Solvers
    /\ evaluations \in Nat /\ restart \in 0..options.restarts /\ stagnation \in Nat
    /\ Searching => best \in DOMAIN table.decoded

\* Nothing is lost between the moves: the least score met so far is that of the
\* best candidate, of the constructive placement, or of the candidate the
\* running iteration is about to take.
LeastIsKept ==
    Searching =>
        least = BestScore({ScoreOfCandidate(best)}
                              \cup {SearchScore(problem, found) : found \in constructive}
                              \cup {ScoreOfCandidate(x) : x \in {next} \ {NoCandidate}})

\* An escape or a kick never leads to a candidate better than the best one.
BestLeads == Searching /\ current # NoCandidate => ~Better(current, best)

BudgetIsKept == evaluations <= Max({1, options.maxEvaluations})

\* What the search keeps between its steps.
IInv == TypeOK /\ LeastIsKept /\ BestLeads /\ BudgetIsKept

\* The answer of the search is as good as everything it evaluated and as the
\* placements the constructive solvers handed over; a fit once met is returned,
\* whatever the objective leaves out.
OutputIsBest ==
    running = <<>> /\ Searching => SearchScore(problem, answer) = least

\* What the baselines answer: canonical_greedy keeps the fit of first fit and pays
\* no more than it or any order it tries for certain; a placement that
\* promote_repair repaired pays only for edges it demoted; promote_all pays for
\* none; and a problem that the unit colourings accept is coloured by every sample.
AnswersHold ==
    running = <<>> =>
        /\ options.solver = "canonical_greedy" /\ Searchable(problem)
           /\ Refusal(problem, "canonical_greedy") = "none" =>
               \A found \in {r \in {FirstFit} : r.status = "kFeasible"}
                               \cup UNION {table.placed[o] : o \in Range(table.orders)} :
                   /\ answer.status = "kFeasible"
                   /\ ~ScoreBefore(ScoreOf(found), ScoreOf(answer))
        /\ answer.status = "kFeasible" =>
               \A sol \in answer.solution :
                   /\ ValidSolution(problem, sol)
                   /\ options.solver = "promote_repair" =>
                          ActivatedPairs(problem, sol) \cap repair.active = {}
                   /\ options.solver = "promote_all" => ReuseCost(problem, sol) = 0
        /\ \A solver \in {"unit_random_coloring", "unit_low_rank_rounding"} :
               options.solver = solver /\ Refusal(problem, solver) = "none"
                   => answer.status = "kFeasible"

\* Every search ends: promote_repair demotes an edge or takes the next order, and
\* every iteration of the local search spends budget or patience.
Terminates == <>(running = <<>>)
=============================================================================
