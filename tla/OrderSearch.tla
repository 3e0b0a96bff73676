---------------------------- MODULE OrderSearch ----------------------------
(***************************************************************************)
(* The three solvers that search the orders of the first-fit decoder:      *)
(*   local_search              (local_search_solver.cpp)                   *)
(*   pypto_structured_search   (pypto_structured_search_solver.cpp)        *)
(*   tvm_hill_climb            (tvm_hill_climb_solver.cpp)                 *)
(* The first two are one iterated local search with different moves: a     *)
(* budget of evaluations split over restarts, kicks from the best order    *)
(* after a stagnation, strict improvement in between.  The third swaps     *)
(* earlier conflict neighbours of a class at the high-water mark and may   *)
(* accept a worse peak.  Their random generator is a free choice.          *)
(***************************************************************************)
EXTENDS FirstFitDecoder, SequencesExt

CONSTANTS Problems,     \* problems with terms and, if they are PyPTO's, structure
          Options       \* [solver, maxIterations, restarts, stagnationLimit,
                        \*  scale, target], target {} or {a total peak}

\* The blocks of a structure list a buffer once.
ASSUME ProblemsAssumption ==
    \A p \in Problems :
        /\ ProblemTyped(p) /\ ObjectiveTyped(p)
        /\ \A block \in p.blocks :
               /\ block \in Seq(p.buffers)
               /\ \A i, j \in DOMAIN block : block[i] = block[j] => i = j

ASSUME OptionsAssumption ==
    \A o \in Options :
        /\ o.solver \in {"local_search", "pypto_structured_search", "tvm_hill_climb"}
        /\ {o.maxIterations, o.restarts, o.stagnationLimit} \subseteq Nat

VARIABLES
    problem, options, phase,
    current,        \* current_order and current: [order, result]
    best,           \* best_order and best
    candidate,      \* the last order evaluated
    evaluated,      \* placement orders evaluated so far
    restart, restartEnd, stagnation,
    attempt         \* attempts of the hill climb

input == <<problem, options>>
budget == <<restart, restartEnd, stagnation>>
vars == <<input, phase, current, best, candidate, evaluated, budget, attempt>>

-----------------------------------------------------------------------------
(***************************************************************************)
(* Moves on an order: the set of orders they may leave behind              *)
(***************************************************************************)
Positions(o) == {pair \in (DOMAIN o) \X (DOMAIN o) : pair[1] < pair[2]}

Swap(o, i, j) == [o EXCEPT ![i] = o[j], ![j] = o[i]]

ReverseSegment(o, i, j) == [k \in DOMAIN o |-> IF k \in i..j THEN o[i + j - k] ELSE o[k]]

\* Two positions are swapped, the later one is inserted before the earlier one,
\* or the segment between them is reversed.
GenericMoves(o) ==
    IF Len(o) < 2 THEN {o}
    ELSE UNION {{Swap(o, x[1], x[2]),
                 InsertAt(RemoveAt(o, x[2]), x[1], o[x[2]]),
                 ReverseSegment(o, x[1], x[2])} : x \in Positions(o)}

PlaceOf(o, b) == CHOOSE i \in DOMAIN o : o[i] = b

\* MoveTo with destinations counted from zero: where the buffer ends up.
MovedIndex(o, b, destination) ==
    LET source == PlaceOf(o, b) - 1
    IN  Min({IF source < destination THEN destination - 1 ELSE destination, Len(o) - 1})

\* A buffer that is no representative, or is there already, gives way to a
\* generic move.
MoveTo(o, b, destination) ==
    IF b \notin Range(o) THEN GenericMoves(o)
    ELSE IF o[MovedIndex(o, b, destination) + 1] = b THEN GenericMoves(o)
    ELSE {InsertAt(RemoveAt(o, PlaceOf(o, b)), MovedIndex(o, b, destination) + 1, b)}

PipelineMoves(p, o) ==
    LET members(block) == Filter(block, Range(o))
        rest(block) == Filter(o, Range(o) \ Range(block))
        inserted(block) ==
            {SubSeq(rest(block), 1, i) \o members(block)
                 \o SubSeq(rest(block), i + 1, Len(rest(block))) : i \in 0..Len(rest(block))}
    IN  IF p.blocks = {} THEN GenericMoves(o)
        ELSE UNION {IF Len(members(block)) < 2 THEN GenericMoves(o) ELSE inserted(block) :
                       block \in p.blocks}

PenaltyMoves(p, o) ==
    IF p.penalties = <<>> THEN GenericMoves(o)
    ELSE UNION {MoveTo(o, b, destination) :
                   b \in UNION {{x.first, x.second} : x \in Range(p.penalties)},
                   destination \in {0, Len(o)}}

AliasMoves(p, o) ==
    IF p.aliases = {} THEN GenericMoves(o)
    ELSE UNION {MoveTo(o, b, destination) : b \in p.aliases, destination \in 0..Len(o)}

StructuredMoves(p, o) ==
    GenericMoves(o) \cup PipelineMoves(p, o) \cup PenaltyMoves(p, o) \cup AliasMoves(p, o)

Moves(p, solver, o) ==
    IF solver = "local_search" THEN GenericMoves(o) ELSE StructuredMoves(p, o)

-----------------------------------------------------------------------------
(***************************************************************************)
(* Tables, computed once                                                   *)
(***************************************************************************)
\* The solvers have every feature but flexible pools and bank costs.
Incompatible(p) ==
    "bank_cost" \in Range(p.terms) \/ \E b \in p.buffers : Cardinality(p.allowed[b]) > 1

Searchable == {p \in Problems : PrepareAccepts(p) /\ ~Incompatible(p)}

Decoded ==
    Tabulated([p \in Searchable |-> Tabulated([o \in Orders(p) |-> Decode(p, o)])])

MovesFrom ==
    Tabulated([p \in Searchable |->
        Tabulated([x \in {"local_search", "pypto_structured_search"} \X Orders(p) |->
                      Moves(p, x[1], x[2])])])

\* A perturbation is a sequence of moves.
Perturbed(o, moves) ==
    LET after[i \in 0..moves] ==
            IF i = 0 THEN {o}
            ELSE UNION {MovesFrom[problem][<<options.solver, x>>] : x \in after[i - 1]}
    IN  after[moves]

Evaluation(o) == [order |-> o, result |-> Decoded[problem][o]]

Improves(e, f) == ScoreBefore(e.result.score, f.result.score)

-----------------------------------------------------------------------------
(***************************************************************************)
(* The seed                                                                *)
(***************************************************************************)
Conflicts(p, c) == {d \in Classes(p) \ {c} : Blocks(p, c, d)}

\* InitialOrder of the hill climb, up to the names that break ties.
ClimbBefore(p, c, d) ==
    LET degree(x) == Cardinality(Conflicts(p, x))
    IN  IF Pinned(p, c) # Pinned(p, d) THEN Pinned(p, c)
        ELSE \/ ClassSize(p, c) > ClassSize(p, d)
             \/ ClassSize(p, c) = ClassSize(p, d) /\ degree(c) >= degree(d)

SeedOrders(p, solver) ==
    {o \in Orders(p) :
        \A i, j \in DOMAIN o : i < j =>
            LET c == ClassOf(p, o[i])
                d == ClassOf(p, o[j])
            IN  IF solver = "tvm_hill_climb" THEN ClimbBefore(p, c, d) ELSE DefaultBefore(p, c, d)}

SeedsFor ==
    Tabulated([p \in Searchable |->
        Tabulated([s \in {o.solver : o \in Options} |-> SeedOrders(p, s)])])

NoResult == [order |-> <<>>, result |-> [status |-> "none", solution |-> {}, score |-> <<>>]]

Init ==
    /\ problem \in Problems /\ options \in Options
    /\ phase = "start"
    /\ current = NoResult /\ best = NoResult /\ candidate = NoResult
    /\ evaluated = 0
    /\ restart = 0 /\ restartEnd = 0 /\ stagnation = 0 /\ attempt = 0

Rejected(status) ==
    /\ phase = "start"
    /\ phase' = "done"
    /\ best' = [NoResult EXCEPT !.result.status = status]
    /\ UNCHANGED <<input, current, candidate, evaluated, budget, attempt>>

Unsupported ==
    \/ Incompatible(problem)
    \/ options.solver = "pypto_structured_search" /\ ~problem.structured

Reject ==
    \/ ~ValidProblem(problem) /\ Rejected("kInvalidProblem")
    \/ ValidProblem(problem) /\ Unsupported /\ Rejected("kUnsupported")
    \/ ValidProblem(problem) /\ ~Unsupported /\ ~PrepareAccepts(problem)
           /\ Rejected("kInvalidProblem")

\* The returns right after the seed was decoded.
SeedSuffices(seed) ==
    IF options.solver = "tvm_hill_climb"
    THEN \/ seed.result.solution = {} \/ Len(seed.order) < 2 \/ options.maxIterations = 0
    ELSE \/ seed.result.status \in {"kInvalidProblem", "kUnsupported", "kInfeasibleProven"}
         \/ Len(seed.order) < 2 \/ options.maxIterations <= 1 \/ options.restarts = 0

Seed ==
    /\ phase = "start"
    /\ problem \in Searchable /\ ~Unsupported
    /\ \E o \in SeedsFor[problem][options.solver] :
           /\ current' = Evaluation(o) /\ best' = current' /\ candidate' = current'
           /\ phase' = IF SeedSuffices(current') THEN "done"
                       ELSE IF options.solver = "tvm_hill_climb" THEN "climb" ELSE "restart"
    /\ evaluated' = 1
    /\ UNCHANGED <<input, budget, attempt>>

-----------------------------------------------------------------------------
(***************************************************************************)
(* Iterated local search                                                   *)
(***************************************************************************)
\* Mutant of UpdateBest: the order of the best result is forgotten.
UpdateBestResult(e) ==
    best' = IF Improves(e, best) THEN [best EXCEPT !.result = e.result] ELSE best

UpdateBest(e) == best' = IF Improves(e, best) THEN e ELSE best

\* What is left, divided by the restarts left and rounded up.
RestartBudget ==
    LET left == options.maxIterations - evaluated
        restarts == options.restarts - restart
    IN  left \div restarts + (IF left % restarts = 0 THEN 0 ELSE 1)

MayRestart ==
    phase = "restart" /\ restart < options.restarts /\ evaluated < options.maxIterations

EvaluatePerturbed(o, divisor) ==
    /\ \E x \in Perturbed(o, Max({2, Len(o) \div divisor})) :
           candidate' = Evaluation(x)
    /\ current' = candidate'
    /\ UpdateBest(candidate')
    /\ evaluated' = evaluated + 1

FirstRestart ==
    /\ MayRestart /\ restart = 0
    /\ restartEnd' = evaluated + RestartBudget
    /\ stagnation' = 0 /\ phase' = "search"
    /\ UNCHANGED <<input, current, best, candidate, evaluated, restart, attempt>>

Restart ==
    /\ MayRestart /\ restart # 0
    /\ restartEnd' = evaluated + RestartBudget
    /\ EvaluatePerturbed(best.order, 8)
    /\ stagnation' = 0 /\ phase' = "search"
    /\ UNCHANGED <<input, restart, attempt>>

KickIsDue ==
    /\ options.stagnationLimit # 0 /\ stagnation' >= options.stagnationLimit
    /\ evaluated' < restartEnd

Step ==
    /\ phase = "search" /\ evaluated < restartEnd
    /\ \E x \in MovesFrom[problem][<<options.solver, current.order>>] : candidate' = Evaluation(x)
    /\ evaluated' = evaluated + 1
    /\ \/ /\ Improves(candidate', current)
          /\ current' = candidate' /\ stagnation' = 0
          /\ UpdateBest(candidate')
       \/ /\ ~Improves(candidate', current)
          /\ stagnation' = stagnation + 1
          /\ UNCHANGED <<current, best>>
    /\ phase' = IF KickIsDue THEN "kick" ELSE "search"
    /\ UNCHANGED <<input, restart, restartEnd, attempt>>

Kick ==
    /\ phase = "kick"
    /\ EvaluatePerturbed(best.order, 10)
    /\ stagnation' = 0 /\ phase' = "search"
    /\ UNCHANGED <<input, restart, restartEnd, attempt>>

EndRestart ==
    /\ phase = "search" /\ evaluated >= restartEnd
    /\ restart' = restart + 1 /\ phase' = "restart"
    /\ UNCHANGED <<input, current, best, candidate, evaluated, restartEnd, stagnation, attempt>>

Finish ==
    /\ phase' = "done"
    /\ UNCHANGED <<input, current, best, candidate, evaluated, budget, attempt>>

NoMoreRestarts == phase = "restart" /\ ~MayRestart /\ Finish

-----------------------------------------------------------------------------
(***************************************************************************)
(* Hill climb                                                              *)
(***************************************************************************)
TotalPeakOf(e) == LET sol == CHOOSE x \in e.result.solution : TRUE IN TotalPeak(problem, sol)

PositionOf(o, c) == CHOOSE i \in DOMAIN o : o[i] \in c

\* Unpinned classes that end at the peak of their pool.
HighWater(p, e) ==
    {c \in Classes(p) :
        /\ ~Pinned(p, c)
        /\ \E sol \in e.result.solution :
               LET at == sol[Min(c)]
               IN  at.offset + ClassSize(p, c) = PeakOfPool(p, sol, at.pool)}

EarlierMovable(p, o, c) ==
    {d \in Conflicts(p, c) : ~Pinned(p, d) /\ PositionOf(o, d) < PositionOf(o, c)}

\* The classes the swap may take for its second end.
Levels(p, o, boundary) ==
    EarlierMovable(p, o, boundary)
        \cup UNION {EarlierMovable(p, o, d) : d \in EarlierMovable(p, o, boundary)}

Proposals(p, e) ==
    UNION {UNION {{Swap(e.order, PositionOf(e.order, c), PositionOf(e.order, d)) :
                      d \in Levels(p, e.order, boundary) \ {c}} :
                     c \in EarlierMovable(p, e.order, boundary)} :
              boundary \in HighWater(p, e)}

\* Some choice of the boundary and the first end leaves no swap.
MayStall(p, e) ==
    \/ HighWater(p, e) = {}
    \/ \E boundary \in HighWater(p, e) :
           \/ EarlierMovable(p, e.order, boundary) = {}
           \/ \E c \in EarlierMovable(p, e.order, boundary) : Levels(p, e.order, boundary) = {c}

TargetReached ==
    /\ best.result.status = "kFeasible"
    /\ \E t \in options.target : TotalPeakOf(best) <= t

Climbing == phase = "climb" /\ attempt < options.maxIterations /\ ~TargetReached

\* Mutant of Attempted: a stalled attempt is not counted.
AttemptedUncounted == attempt' = IF evaluated' = evaluated THEN attempt ELSE attempt + 1

Attempted == attempt' = attempt + 1

Stall ==
    /\ Climbing /\ MayStall(problem, current)
    /\ UNCHANGED <<input, phase, current, best, candidate, evaluated, budget>>
    /\ Attempted

\* With a scale, a candidate of higher peak is accepted with some probability.
MayAcceptWorse ==
    /\ options.scale # 0 /\ candidate'.result.solution # {}
    /\ TotalPeakOf(candidate') > TotalPeakOf(current)

\* Mutant of KeepBest: the accepted candidate replaces the best one.
KeepLast == best' = candidate'

KeepBest == UpdateBest(candidate')

Accept == current' = candidate' /\ KeepBest

Decline == UNCHANGED <<current, best>>

Climb ==
    /\ Climbing
    /\ \E o \in Proposals(problem, current) : candidate' = Evaluation(o)
    /\ evaluated' = evaluated + 1
    /\ \/ Improves(candidate', current) /\ Accept
       \/ ~Improves(candidate', current) /\ MayAcceptWorse /\ Accept
       \/ ~Improves(candidate', current) /\ Decline
    /\ Attempted
    /\ UNCHANGED <<input, phase, budget>>

ClimbEnds ==
    phase = "climb" /\ ~Climbing /\ Finish

Done == phase = "done" /\ UNCHANGED vars

Next ==
    \/ Reject \/ Seed
    \/ FirstRestart \/ Restart \/ Step \/ Kick \/ EndRestart \/ NoMoreRestarts
    \/ Stall \/ Climb \/ ClimbEnds
    \/ Done

\* One thread that never waits.
Spec == Init /\ [][Next]_vars /\ WF_vars(Next)

-----------------------------------------------------------------------------
(***************************************************************************)
(* Properties                                                              *)
(***************************************************************************)
Searching == evaluated > 0

LocalSearch == options.solver # "tvm_hill_climb"

TypeOK ==
    /\ problem \in Problems /\ options \in Options
    /\ phase \in {"start", "restart", "search", "kick", "climb", "done"}
    /\ evaluated \in Nat /\ attempt \in Nat /\ stagnation \in Nat
    /\ restart \in 0..options.restarts /\ restartEnd \in Nat
    /\ Searching => {current.order, best.order, candidate.order} \subseteq Orders(problem)

\* No move loses or repeats a class, and what is called the result of an order
\* is what the decoder makes of it: the best order is kept with its result, and
\* a kick starts from the order the best result came from.
ResultsBelongToOrders ==
    Searching => \A e \in {current, best, candidate} : e.result = Decoded[problem][e.order]

\* Nothing that was evaluated is better than the best result.
BestIsLeast == Searching => ~Improves(candidate, best) /\ ~Improves(current, best)

\* The swaps of the hill climb leave the pinned classes in front.
PinsStayInFront ==
    Searching /\ ~LocalSearch =>
        \A i, j \in DOMAIN current.order :
            Pinned(problem, ClassOf(problem, current.order[j])) /\ i < j
                => Pinned(problem, ClassOf(problem, current.order[i]))

\* Restarts and kicks consume the one budget of evaluations, and all of it: a
\* search that goes beyond its seed ends after exactly maxIterations
\* evaluations, however the budget is split over the restarts.
BudgetIsSpent ==
    phase = "done" /\ Searching =>
        /\ LocalSearch /\ restart > 0 => evaluated = options.maxIterations
        /\ ~LocalSearch => evaluated <= options.maxIterations + 1

\* Every restart ends within the global budget.
BudgetIsSplit ==
    Searching /\ LocalSearch /\ options.maxIterations > 0 =>
        /\ evaluated <= options.maxIterations
        /\ restartEnd <= options.maxIterations
        /\ phase \in {"search", "kick"} => evaluated <= restartEnd
        /\ phase = "kick" => evaluated < restartEnd

\* The phases of each solver, and what the counters of its loops are in them:
\* the last restart is given all that is left.
PhaseInv ==
    /\ Searching => problem \in Searchable
    /\ phase = "start" => evaluated = 0 /\ restart = 0 /\ restartEnd = 0 /\ attempt = 0
    /\ phase \in {"restart", "search", "kick"} =>
           Searching /\ LocalSearch /\ options.maxIterations > 0
    /\ phase \in {"search", "kick"} =>
           /\ restart < options.restarts
           /\ restart + 1 = options.restarts => restartEnd = options.maxIterations
    /\ phase = "restart" /\ restart = options.restarts /\ restart > 0 =>
           evaluated = options.maxIterations
    /\ phase = "climb" => Searching /\ ~LocalSearch
    /\ ~LocalSearch => attempt <= options.maxIterations /\ evaluated <= attempt + 1

\* The search's own invariants, which together say that a result always belongs
\* to the order and the promotions it was decoded from.
IInv ==
    /\ TypeOK /\ ResultsBelongToOrders /\ BestIsLeast /\ PinsStayInFront
    /\ BudgetIsSplit /\ BudgetIsSpent /\ PhaseInv

\* The objective puts the capacities first.
CapacityFirst == 1 \in DOMAIN problem.terms /\ problem.terms[1] = "capacity_overflow"

\* Restarts, kicks and accepted worse moves never cost the best result; when
\* the objective puts the capacity first, a fit once found is never given up.
BestIsKept ==
    [][Searching =>
           /\ ~Improves(best, best')
           /\ CapacityFirst /\ best.result.status = "kFeasible"
                  => best'.result.status = "kFeasible"]_vars

\* Every search ends.
Terminates == <>(phase = "done")
=============================================================================
