------------------------ MODULE ImplicitHittingSet ------------------------
(***************************************************************************)
(* ImplicitHittingSetSolver: the minimum reuse cost by logic-based         *)
(* decomposition (src/dsa/algorithms/reuse_penalty_exact_solvers.cpp).     *)
(* The master proposes the cheapest set of soft edges that pays for every  *)
(* core found so far; the oracle is asked for a placement that keeps all   *)
(* other edges apart; when there is none, that set is shrunk to a core.    *)
(*                                                                         *)
(* A placement is represented by the set of soft edges whose two nodes     *)
(* share addresses in it: achievable holds those of the valid placements.  *)
(* A promoted problem then has a placement iff some member of achievable   *)
(* is disjoint from the promoted edges.  The master is any that returns a  *)
(* minimum-cost hitting set (HittingSetMaster is the one of the code), and *)
(* the canonical search of the oracle is one that finds a placement iff    *)
(* there is one.  Both may instead stop at their node limit.               *)
(***************************************************************************)
EXTENDS HittingSets, FiniteSetsExt

CONSTANTS Problems,         \* the sets of achievable edge sets to solve
          MaxIterations     \* options.max_iterations

ASSUME ProblemsAssumption == Problems \subseteq SUBSET SUBSET Edges

ASSUME MaxIterationsAssumption == MaxIterations \in Nat

VARIABLES
    achievable,     \* what the valid placements pay for
    options,        \* [shrink, limits]: shrink_cores, and which searches are limited
    phase,          \* where Solve stands
    iteration,
    incumbent,      \* {} or {placement}
    cores,
    feasible,       \* feasible_cache_ of the oracle
    infeasible,     \* infeasible_cores_ of the oracle
    core,           \* promoted while the oracle is asked, then the core
    candidates,     \* the edges the shrink loop has still to try
    solution,       \* {} or {placement}, result.solution
    status          \* result.status

input == <<achievable, options>>
oracle == <<feasible, infeasible>>
vars == <<input, phase, iteration, incumbent, cores, oracle, core, candidates, solution, status>>

Options == [shrink : BOOLEAN, limits : SUBSET {"master", "oracle"}]

-----------------------------------------------------------------------------
(***************************************************************************)
(* PromotedDsaOracle                                                       *)
(***************************************************************************)
Separates(placement, promoted) == placement \cap promoted = {}

CachedFeasible(promoted) == {entry \in feasible : promoted \subseteq entry.promoted}

\* Mutant of CachedInfeasible: any part of a core is taken for infeasible.
CachedInfeasiblePart(promoted) == \E known \in infeasible : promoted \subseteq known

CachedInfeasible(promoted) == \E known \in infeasible : known \subseteq promoted

\* The three answers of Solve.  Only a placement that was searched for is new
\* in the cache.
AnswersFeasible(promoted, placement) ==
    IF CachedFeasible(promoted) # {}
    THEN /\ \E entry \in CachedFeasible(promoted) : placement = entry.placement
         /\ UNCHANGED feasible
    ELSE /\ ~CachedInfeasible(promoted)
         /\ placement \in achievable /\ Separates(placement, promoted)
         /\ feasible' = feasible \cup {[promoted |-> promoted, placement |-> placement]}

AnswersInfeasible(promoted) ==
    /\ CachedFeasible(promoted) = {}
    /\ CachedInfeasible(promoted) \/ \A a \in achievable : ~Separates(a, promoted)

AnswersTimeout(promoted) ==
    /\ "oracle" \in options.limits
    /\ CachedFeasible(promoted) = {} /\ ~CachedInfeasible(promoted)

-----------------------------------------------------------------------------
\* Mutant of Better: the latest placement wins.
Latest(placement, held) == {placement}

\* consider_incumbent: the objective has no other term that tells validated
\* placements apart.
Better(placement, held) ==
    IF \E kept \in held : Cost[kept] <= Cost[placement] THEN held ELSE {placement}

Init ==
    /\ achievable \in Problems /\ options \in Options
    /\ phase = "seed" /\ iteration = 0
    /\ incumbent = {} /\ cores = {} /\ feasible = {} /\ infeasible = {}
    /\ core = {} /\ candidates = {}
    /\ solution = {} /\ status = "none"

Finish(s, result) == phase' = "done" /\ status' = s /\ solution' = result

TimeOut == Finish("kTimeout", incumbent)

\* First fit, canonical greedy and promote-repair each offer a placement or none.
Seed ==
    /\ phase = "seed"
    /\ \E found \in {{}} \cup {{a} : a \in achievable} : incumbent' = found
    /\ phase' = "master"
    /\ UNCHANGED <<input, iteration, cores, oracle, core, candidates, solution, status>>

\* Mutant of Propose: any hitting set will do.
ProposeAny ==
    /\ phase = "master" /\ iteration < MaxIterations
    /\ \E selected \in HittingSetsOf(cores) : core' = Edges \ selected
    /\ phase' = "oracle"
    /\ UNCHANGED <<input, iteration, incumbent, cores, oracle, candidates, solution, status>>

Propose ==
    /\ phase = "master" /\ iteration < MaxIterations
    /\ \E selected \in MinimumHittingSets(cores) : core' = Edges \ selected
    /\ phase' = "oracle"
    /\ UNCHANGED <<input, iteration, incumbent, cores, oracle, candidates, solution, status>>

\* The master stops at its node limit, or the loop ends.  (A master without a
\* hitting set is an error in the code; no core is empty, so there is always one.)
MasterLimit ==
    /\ phase = "master"
    /\ iteration = MaxIterations \/ "master" \in options.limits
    /\ TimeOut
    /\ UNCHANGED <<input, iteration, incumbent, cores, oracle, core, candidates>>

-----------------------------------------------------------------------------
Separated ==
    /\ phase = "oracle"
    /\ \E placement \in achievable :
          /\ AnswersFeasible(core, placement)
          /\ incumbent' = Better(placement, incumbent)
          /\ Finish("kFeasible", {placement})
    /\ UNCHANGED <<input, iteration, cores, infeasible, core, candidates>>

\* Mutant of StartShrink: the last edge is not tried.
StartShrinkShort ==
    /\ phase = "oracle" /\ AnswersInfeasible(core)
    /\ infeasible' = infeasible \cup {core}
    /\ candidates' = IF options.shrink THEN {e \in core : \E f \in core : e < f} ELSE {}
    /\ phase' = "shrink"
    /\ UNCHANGED <<input, iteration, incumbent, cores, feasible, core, solution, status>>

StartShrink ==
    /\ phase = "oracle" /\ AnswersInfeasible(core)
    /\ infeasible' = infeasible \cup {core}
    /\ candidates' = IF options.shrink THEN core ELSE {}
    /\ phase' = "shrink"
    /\ UNCHANGED <<input, iteration, incumbent, cores, feasible, core, solution, status>>

OracleLimit ==
    /\ \/ phase = "oracle" /\ AnswersTimeout(core)
       \/ phase = "shrink" /\ candidates # {} /\ AnswersTimeout(core \ {Min(candidates)})
    /\ TimeOut
    /\ UNCHANGED <<input, iteration, incumbent, cores, oracle, core, candidates>>

\* Mutant of Keep: the loop tries the same edge again.
KeepTrying ==
    /\ phase = "shrink" /\ candidates # {}
    /\ \E placement \in achievable :
          /\ AnswersFeasible(core \ {Min(candidates)}, placement)
          /\ incumbent' = Better(placement, incumbent)
    /\ UNCHANGED <<input, phase, iteration, cores, infeasible, core, candidates, solution, status>>

\* Without the smallest candidate there is a placement: it stays in the core.
Keep ==
    /\ phase = "shrink" /\ candidates # {}
    /\ \E placement \in achievable :
          /\ AnswersFeasible(core \ {Min(candidates)}, placement)
          /\ incumbent' = Better(placement, incumbent)
    /\ candidates' = candidates \ {Min(candidates)}
    /\ UNCHANGED <<input, phase, iteration, cores, infeasible, core, solution, status>>

\* Without it there is none: the core shrinks.
Drop ==
    /\ phase = "shrink" /\ candidates # {}
    /\ AnswersInfeasible(core \ {Min(candidates)})
    /\ core' = core \ {Min(candidates)}
    /\ candidates' = candidates \ {Min(candidates)}
    /\ UNCHANGED <<input, phase, iteration, incumbent, cores, oracle, solution, status>>

\* Mutant of Record: the core is told to the oracle and not to the master.
RecordForOracle ==
    /\ phase = "shrink" /\ candidates = {}
    /\ IF core = {}
       THEN /\ Finish("kInfeasibleProven", {})
            /\ UNCHANGED <<iteration, cores, infeasible>>
       ELSE /\ infeasible' = infeasible \cup {core}
            /\ iteration' = iteration + 1
            /\ phase' = "master"
            /\ UNCHANGED <<cores, solution, status>>
    /\ UNCHANGED <<input, incumbent, feasible, core, candidates>>

Record ==
    /\ phase = "shrink" /\ candidates = {}
    /\ IF core = {}
       THEN /\ Finish("kInfeasibleProven", {})
            /\ UNCHANGED <<iteration, cores, infeasible>>
       ELSE /\ infeasible' = infeasible \cup {core}
            /\ cores' = cores \cup {core}
            /\ iteration' = iteration + 1
            /\ phase' = "master"
            /\ UNCHANGED <<solution, status>>
    /\ UNCHANGED <<input, incumbent, feasible, core, candidates>>

Terminated == phase = "done" /\ UNCHANGED vars

Next ==
    \/ Seed
    \/ Propose \/ MasterLimit
    \/ Separated \/ StartShrink \/ OracleLimit
    \/ Keep \/ Drop \/ Record
    \/ Terminated

Spec == Init /\ [][Next]_vars /\ WF_vars(Next)

-----------------------------------------------------------------------------
(***************************************************************************)
(* Properties                                                              *)
(***************************************************************************)
Statuses == {"none", "kFeasible", "kInfeasibleProven", "kTimeout"}

\* Every variable has its type; there is a status when Solve has returned, and
\* no solution before.
TypeOK ==
    /\ achievable \in SUBSET SUBSET Edges /\ options \in Options
    /\ phase \in {"seed", "master", "oracle", "shrink", "done"}
    /\ iteration \in 0..MaxIterations
    /\ cores \in SUBSET SUBSET Edges /\ infeasible \in SUBSET SUBSET Edges
    /\ feasible \subseteq [promoted : SUBSET Edges, placement : SUBSET Edges]
    /\ core \in SUBSET Edges /\ candidates \in SUBSET Edges
    /\ status \in Statuses
    /\ status = "none" <=> phase # "done"
    /\ phase # "done" => solution = {}

NoPlacementSeparates(promoted) == \A a \in achievable : ~Separates(a, promoted)

\* What the solver has learned is true of the problem: cached placements keep
\* their promoted edges apart, and no placement separates a core.
Learned ==
    /\ \A entry \in feasible :
          entry.placement \in achievable /\ Separates(entry.placement, entry.promoted)
    /\ \A known \in infeasible \cup cores : NoPlacementSeparates(known)
    /\ phase = "shrink" => NoPlacementSeparates(core)
    /\ \A kept \in incumbent : incumbent = {kept} /\ kept \in achievable

\* The edges that are not promoted cost no more than any placement pays.
LowerBound ==
    phase = "oracle" => \A a \in achievable : Cost[Edges \ core] <= Cost[a]

\* Every iteration finds a core the master has not seen: the loop never spins
\* on the same core, and the test before cores.push_back never fails.
EveryIterationLearns ==
    /\ IsFiniteSet(cores) /\ iteration = Cardinality(cores)
    /\ {} \notin cores
    /\ phase \in {"oracle", "shrink"} =>
           iteration < MaxIterations /\ \A known \in cores : ~(known \subseteq core)

\* No question put to the oracle contains a core it knows: infeasible_cores_ of
\* PromotedDsaOracle never answers one.
QuestionsAreFresh ==
    /\ \A known \in infeasible : \E kernel \in cores \cup {core} : kernel \subseteq known
    /\ phase = "oracle" => ~CachedInfeasible(core)
    /\ phase = "shrink" => \A e \in candidates : ~CachedInfeasible(core \ {e})

\* A shrunk core is irreducible: without any one of its edges there is a
\* placement, though the trials were made while the core was still larger.
CoresAreMinimal ==
    options.shrink => \A known \in cores : \A e \in known : ~NoPlacementSeparates(known \ {e})

\* The incumbent is never worse than a placement the solver has seen, so a
\* timeout returns the best of them.
TimeoutKeepsBest ==
    /\ \A entry \in feasible : \E kept \in incumbent : Cost[kept] <= Cost[entry.placement]
    /\ status = "kTimeout" => solution = incumbent

\* The inductive invariant.
IInv == TypeOK /\ Learned /\ LowerBound /\ EveryIterationLearns

Cheapest == {a \in achievable : \A b \in achievable : Cost[a] <= Cost[b]}

Exact == INSTANCE ExactSolver WITH
    placements <- achievable,
    optimal <- Cheapest,
    limited <- options.limits # {} \/ Cardinality(cores) = MaxIterations

\* The answer is exact: kFeasible has the least reuse cost of all placements,
\* kInfeasibleProven means there is none, and kTimeout is excused by a node
\* limit or by as many different cores as there are iterations.
AnswersExactly == Exact!ExactSpec

\* Every call returns.
Terminates == <>(phase = "done")
=============================================================================
