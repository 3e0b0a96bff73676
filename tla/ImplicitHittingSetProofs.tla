-------------------- MODULE ImplicitHittingSetProofs --------------------
(***************************************************************************)
(* Exactness of the implicit hitting set solver for every set of soft      *)
(* edges, every monotone cost and every family of placements.  The         *)
(* inductive invariant is IInv: what has been learned is true, the master  *)
(* proposes a lower bound, and every recorded core is new.                 *)
(***************************************************************************)
EXTENDS ImplicitHittingSet, FiniteSetTheorems, TLAPS

\* A placement pays for every core, so a minimum hitting set costs no more.
LEMMA PlacementsHitCores ==
    ASSUME TypeOK, Learned, NEW h \in MinimumHittingSets(cores), NEW a \in achievable
    PROVE  Cost[h] <= Cost[a]
<1>1. a \in SUBSET Edges
  BY DEF TypeOK
<1>2. \A known \in cores : Hits(a, known)
  BY DEF Learned, NoPlacementSeparates, Separates, Hits
<1>3. a \in HittingSetsOf(cores)
  BY <1>1, <1>2 DEF HittingSetsOf
<1> QED
  BY <1>3 DEF MinimumHittingSets

\* Selected edges and promoted edges are complements.
LEMMA Complement ==
    ASSUME NEW selected \in SUBSET Edges
    PROVE  Edges \ (Edges \ selected) = selected
  OBVIOUS

\* The oracle's placement keeps the promoted edges apart, cached or not, and the
\* cache stays true.
LEMMA OracleFeasible ==
    ASSUME TypeOK, Learned, NEW promoted \in SUBSET Edges, NEW placement \in achievable,
           AnswersFeasible(promoted, placement)
    PROVE  /\ Separates(placement, promoted)
           /\ feasible' \subseteq [promoted : SUBSET Edges, placement : SUBSET Edges]
           /\ \A entry \in feasible' :
                  entry.placement \in achievable /\ Separates(entry.placement, entry.promoted)
<1>1. CASE CachedFeasible(promoted) # {}
  <2>1. PICK entry \in feasible : promoted \subseteq entry.promoted /\ placement = entry.placement
    BY <1>1 DEF AnswersFeasible, CachedFeasible
  <2>2. Separates(placement, entry.promoted)
    BY <2>1 DEF Learned
  <2>3. Separates(placement, promoted)
    BY <2>1, <2>2 DEF Separates
  <2>4. feasible' = feasible
    BY <1>1 DEF AnswersFeasible
  <2> QED
    BY <2>3, <2>4 DEF TypeOK, Learned
<1>2. CASE CachedFeasible(promoted) = {}
  <2>1. /\ Separates(placement, promoted)
        /\ feasible' = feasible \cup {[promoted |-> promoted, placement |-> placement]}
    BY <1>2 DEF AnswersFeasible
  <2>2. placement \in SUBSET Edges
    BY DEF TypeOK
  <2> QED
    BY <2>1, <2>2 DEF TypeOK, Learned
<1> QED
  BY <1>1, <1>2

\* An infeasible answer is a proof, cached or not.
LEMMA OracleInfeasible ==
    ASSUME Learned, NEW promoted, AnswersInfeasible(promoted)
    PROVE  NoPlacementSeparates(promoted)
<1>1. CASE CachedInfeasible(promoted)
  <2>1. PICK known \in infeasible : known \subseteq promoted
    BY <1>1 DEF CachedInfeasible
  <2>2. \A a \in achievable : a \cap known # {}
    BY DEF Learned, NoPlacementSeparates, Separates
  <2> QED
    BY <2>1, <2>2 DEF NoPlacementSeparates, Separates
<1>2. CASE ~CachedInfeasible(promoted)
  BY <1>2 DEF AnswersInfeasible, NoPlacementSeparates
<1> QED
  BY <1>1, <1>2

\* The new incumbent is the old one or the placement offered.
LEMMA IncumbentStays ==
    ASSUME Learned, NEW placement \in achievable, incumbent' = Better(placement, incumbent)
    PROVE  \A kept \in incumbent' : incumbent' = {kept} /\ kept \in achievable
  BY DEF Learned, Better

\* Nothing is known when Solve is called.
LEMMA InitInv == Init => IInv
<1> SUFFICES ASSUME Init PROVE IInv
  OBVIOUS
<1>1. TypeOK
  BY ProblemsAssumption, MaxIterationsAssumption DEF Init, TypeOK, Statuses
<1>2. Learned /\ LowerBound
  BY DEF Init, Learned, LowerBound
<1>3. IsFiniteSet(cores) /\ Cardinality(cores) = 0
  BY FS_EmptySet DEF Init
<1>4. EveryIterationLearns
  BY <1>3 DEF Init, EveryIterationLearns
<1> QED
  BY <1>1, <1>2, <1>4 DEF IInv

\* Every step keeps the type of every variable.
LEMMA NextTypeOK == IInv /\ [Next]_vars => TypeOK'
<1> SUFFICES ASSUME IInv, [Next]_vars PROVE TypeOK'
  OBVIOUS
<1> USE DEF IInv
<1>1. CASE UNCHANGED vars
  BY <1>1 DEF TypeOK, vars, input, oracle
<1>2. CASE Seed
  BY <1>2 DEF TypeOK, Seed, input, oracle
<1>3. CASE Propose
  BY <1>3 DEF TypeOK, Propose, input, oracle
<1>4. CASE MasterLimit
  BY <1>4 DEF TypeOK, MasterLimit, TimeOut, Finish, Statuses, input, oracle
<1>5. CASE Separated
  <2>1. PICK placement \in achievable :
            AnswersFeasible(core, placement) /\ Finish("kFeasible", {placement})
    BY <1>5 DEF Separated
  <2>2. feasible' \subseteq [promoted : SUBSET Edges, placement : SUBSET Edges]
    BY <2>1, OracleFeasible DEF TypeOK
  <2> QED
    BY <1>5, <2>1, <2>2 DEF TypeOK, Separated, Finish, Statuses, input
<1>6. CASE StartShrink
  BY <1>6 DEF TypeOK, StartShrink, input
<1>7. CASE OracleLimit
  BY <1>7 DEF TypeOK, OracleLimit, TimeOut, Finish, Statuses, input, oracle
<1>8. CASE Keep
  <2>1. PICK placement \in achievable : AnswersFeasible(core \ {Min(candidates)}, placement)
    BY <1>8 DEF Keep
  <2>2. core \ {Min(candidates)} \in SUBSET Edges
    BY DEF TypeOK
  <2>3. feasible' \subseteq [promoted : SUBSET Edges, placement : SUBSET Edges]
    BY <2>1, <2>2, OracleFeasible
  <2> QED
    BY <1>8, <2>3 DEF TypeOK, Keep, input
<1>9. CASE Drop
  BY <1>9 DEF TypeOK, Drop, input, oracle
<1>10. CASE Record
  <2>1. CASE core = {}
    BY <1>10, <2>1 DEF TypeOK, Record, Finish, Statuses, input
  <2>2. CASE core # {}
    <3>1. iteration < MaxIterations
      BY <1>10 DEF Record, EveryIterationLearns
    <3>2. iteration + 1 \in 0..MaxIterations
      BY <3>1, MaxIterationsAssumption DEF TypeOK
    <3> QED
      BY <1>10, <2>2, <3>2 DEF TypeOK, Record, input
  <2> QED
    BY <2>1, <2>2
<1>11. CASE Terminated
  BY <1>11 DEF TypeOK, Terminated, vars, input, oracle
<1> QED
  BY <1>1, <1>2, <1>3, <1>4, <1>5, <1>6, <1>7, <1>8, <1>9, <1>10, <1>11 DEF Next

\* Nothing false is ever learned.
LEMMA NextLearned == IInv /\ [Next]_vars => Learned'
<1> SUFFICES ASSUME IInv, [Next]_vars PROVE Learned'
  OBVIOUS
<1> USE DEF IInv, NoPlacementSeparates, Separates
<1>1. CASE UNCHANGED vars
  BY <1>1 DEF Learned, vars, input, oracle
<1>2. CASE Seed
  BY <1>2 DEF Learned, Seed, input, oracle
<1>3. CASE Propose
  BY <1>3 DEF Learned, Propose, input, oracle
<1>4. CASE MasterLimit
  BY <1>4 DEF Learned, MasterLimit, TimeOut, Finish, input, oracle
<1>5. CASE Separated
  <2>1. PICK placement \in achievable :
            /\ AnswersFeasible(core, placement)
            /\ incumbent' = Better(placement, incumbent)
            /\ Finish("kFeasible", {placement})
    BY <1>5 DEF Separated
  <2>2. \A kept \in incumbent' : incumbent' = {kept} /\ kept \in achievable
    BY <2>1, IncumbentStays
  <2>3. \A entry \in feasible' :
            entry.placement \in achievable /\ Separates(entry.placement, entry.promoted)
    BY <2>1, OracleFeasible DEF TypeOK
  <2> QED
    BY <1>5, <2>1, <2>2, <2>3 DEF Learned, Separated, Finish, input
<1>6. CASE StartShrink
  <2>1. NoPlacementSeparates(core)
    BY <1>6, OracleInfeasible DEF StartShrink
  <2> QED
    BY <1>6, <2>1 DEF Learned, StartShrink, input
<1>7. CASE OracleLimit
  BY <1>7 DEF Learned, OracleLimit, TimeOut, Finish, input, oracle
<1>8. CASE Keep
  <2>1. PICK placement \in achievable :
            /\ AnswersFeasible(core \ {Min(candidates)}, placement)
            /\ incumbent' = Better(placement, incumbent)
    BY <1>8 DEF Keep
  <2>2. \A kept \in incumbent' : incumbent' = {kept} /\ kept \in achievable
    BY <2>1, IncumbentStays
  <2>3. core \ {Min(candidates)} \in SUBSET Edges
    BY DEF TypeOK
  <2>4. \A entry \in feasible' :
            entry.placement \in achievable /\ Separates(entry.placement, entry.promoted)
    BY <2>1, <2>3, OracleFeasible
  <2> QED
    BY <1>8, <2>2, <2>4 DEF Learned, Keep, input
<1>9. CASE Drop
  <2>1. NoPlacementSeparates(core')
    BY <1>9, OracleInfeasible DEF Drop
  <2> QED
    BY <1>9, <2>1 DEF Learned, Drop, input, oracle
<1>10. CASE Record
  <2>1. infeasible' \cup cores' \subseteq infeasible \cup cores \cup {core}
    BY <1>10 DEF Record
  <2>2. NoPlacementSeparates(core)
    BY <1>10 DEF Record, Learned
  <2> QED
    BY <1>10, <2>1, <2>2 DEF Learned, Record, Finish, input
<1>11. CASE Terminated
  BY <1>11 DEF Learned, Terminated, vars, input, oracle
<1> QED
  BY <1>1, <1>2, <1>3, <1>4, <1>5, <1>6, <1>7, <1>8, <1>9, <1>10, <1>11 DEF Next

\* Only the master moves the loop to the oracle, with the complement of a
\* minimum hitting set.
LEMMA NextLowerBound == IInv /\ [Next]_vars => LowerBound'
<1> SUFFICES ASSUME IInv, [Next]_vars, (phase = "oracle")'
             PROVE  (\A a \in achievable : Cost[Edges \ core] <= Cost[a])'
  BY DEF LowerBound
<1>1. CASE UNCHANGED vars
  BY <1>1 DEF IInv, LowerBound, vars, input
<1>2. CASE Propose
  <2>1. PICK selected \in MinimumHittingSets(cores) : core' = Edges \ selected
    BY <1>2 DEF Propose
  <2>2. selected \in SUBSET Edges
    BY DEF MinimumHittingSets, HittingSetsOf
  <2>3. Edges \ core' = selected
    BY <2>1, <2>2
  <2>4. \A a \in achievable : Cost[selected] <= Cost[a]
    BY PlacementsHitCores DEF IInv
  <2> QED
    BY <1>2, <2>3, <2>4 DEF Propose, input
<1>3. CASE Terminated
  BY <1>3 DEF IInv, LowerBound, Terminated, vars, input
<1>4. CASE ~Propose /\ ~Terminated /\ Next
  BY <1>4 DEF Next, Seed, MasterLimit, TimeOut, Finish, Separated, StartShrink, OracleLimit,
              Keep, Drop, Record, IInv, TypeOK
<1> QED
  BY <1>1, <1>2, <1>3, <1>4

\* The core of the coming iteration contains none of those recorded, and each
\* iteration records one.
LEMMA NextLearns == IInv /\ [Next]_vars => EveryIterationLearns'
<1> SUFFICES ASSUME IInv, [Next]_vars PROVE EveryIterationLearns'
  OBVIOUS
<1> USE DEF EveryIterationLearns
<1>1. CASE UNCHANGED vars
  BY <1>1 DEF IInv, vars
<1>2. CASE Seed \/ MasterLimit \/ OracleLimit
  BY <1>2 DEF IInv, Seed, MasterLimit, OracleLimit, TimeOut, Finish
<1>3. CASE Propose
  <2>1. PICK selected \in MinimumHittingSets(cores) : core' = Edges \ selected
    BY <1>3 DEF Propose
  <2>2. \A known \in cores : known \cap selected # {}
    BY DEF MinimumHittingSets, HittingSetsOf, Hits
  <2>3. \A known \in cores : ~(known \subseteq core')
    BY <2>1, <2>2
  <2> QED
    BY <1>3, <2>3 DEF IInv, Propose
<1>4. CASE Separated \/ StartShrink \/ Keep
  BY <1>4 DEF IInv, Separated, StartShrink, Keep, Finish
<1>5. CASE Drop
  <2>1. core' \subseteq core
    BY <1>5 DEF Drop
  <2> QED
    BY <1>5, <2>1 DEF IInv, Drop
<1>6. CASE Record
  <2>1. CASE core = {}
    BY <1>6, <2>1 DEF IInv, Record, Finish
  <2>2. CASE core # {}
    <3>1. core \notin cores
      BY <1>6 DEF IInv, Record
    <3>2. /\ IsFiniteSet(cores \cup {core})
          /\ Cardinality(cores \cup {core}) = Cardinality(cores) + 1
      BY <3>1, FS_AddElement DEF IInv
    <3>3. cores' = cores \cup {core} /\ iteration' = iteration + 1 /\ phase' = "master"
      BY <1>6, <2>2 DEF Record
    <3>4. IsFiniteSet(cores') /\ iteration' = Cardinality(cores')
      BY <3>2, <3>3 DEF IInv
    <3>5. {} \notin cores'
      BY <2>2, <3>3 DEF IInv
    <3> QED
      BY <3>3, <3>4, <3>5
  <2> QED
    BY <2>1, <2>2
<1>7. CASE Terminated
  BY <1>7 DEF IInv, Terminated, vars
<1> QED
  BY <1>1, <1>2, <1>3, <1>4, <1>5, <1>6, <1>7 DEF Next

\* The inductive invariant holds of every behaviour: types, truth of what was
\* learned, the master's lower bound, and a new core in every iteration.
THEOREM Safety == Spec => []IInv
<1>1. IInv /\ [Next]_vars => IInv'
  BY NextTypeOK, NextLearned, NextLowerBound, NextLearns DEF IInv
<1> QED
  BY InitInv, <1>1, PTL DEF Spec

\* Every variable of ImplicitHittingSetSolver::Solve keeps its type.
THEOREM TypeCorrect == Spec => []TypeOK
<1>1. IInv => TypeOK
  BY DEF IInv
<1> QED
  BY Safety, <1>1, PTL

\* The loop never spins on a core it has recorded.
THEOREM Progress == Spec => []EveryIterationLearns
<1>1. IInv => EveryIterationLearns
  BY DEF IInv
<1> QED
  BY Safety, <1>1, PTL

\* Every step that returns is an exact answer, and every other step is a stutter.
LEMMA StepAnswers == IInv /\ [Next]_vars => [Exact!Answer]_<<solution, status>>
<1> SUFFICES ASSUME IInv, [Next]_vars, ~(UNCHANGED <<solution, status>>)
             PROVE  Exact!Answer
  OBVIOUS
<1>1. CASE MasterLimit \/ OracleLimit
  <2>1. Finish("kTimeout", incumbent) /\ status = "none" /\ UNCHANGED <<input, cores>>
    BY <1>1 DEF IInv, TypeOK, MasterLimit, OracleLimit, TimeOut
  <2>2. options.limits # {} \/ Cardinality(cores) = MaxIterations
    BY <1>1 DEF MasterLimit, OracleLimit, AnswersTimeout, IInv, EveryIterationLearns
  <2>3. incumbent = {} \/ \E valid \in achievable : incumbent = {valid}
    BY DEF IInv, Learned
  <2>4. Exact!Timeout
    BY <2>1, <2>2, <2>3 DEF Exact!Timeout, Finish
  <2> QED
    BY <2>1, <2>4 DEF Exact!Answer, input, Cheapest
<1>2. CASE Separated
  <2>1. PICK placement \in achievable :
            AnswersFeasible(core, placement) /\ Finish("kFeasible", {placement})
    BY <1>2 DEF Separated
  <2>2. Separates(placement, core)
    BY <2>1, OracleFeasible DEF IInv, TypeOK
  <2>3. placement \in SUBSET Edges /\ Edges \ core \in SUBSET Edges
    BY DEF IInv, TypeOK
  <2>4. placement \subseteq Edges \ core
    BY <2>2, <2>3 DEF Separates
  <2>5. Cost[placement] <= Cost[Edges \ core]
    BY <2>3, <2>4, CostAssumption
  <2>6. \A a \in achievable : Cost[Edges \ core] <= Cost[a]
    BY <1>2 DEF Separated, IInv, LowerBound
  <2>7. \A a \in achievable : Cost[placement] <= Cost[a]
    <3> TAKE a \in achievable
    <3>1. Cost[a] \in Nat /\ Cost[placement] \in Nat /\ Cost[Edges \ core] \in Nat
      BY <2>3, CostAssumption DEF IInv, TypeOK
    <3>2. Cost[Edges \ core] <= Cost[a]
      BY <2>6
    <3> QED
      BY <2>5, <3>1, <3>2
  <2>8. placement \in Cheapest
    BY <2>7 DEF Cheapest
  <2>9. status = "none" /\ UNCHANGED input
    BY <1>2 DEF Separated, IInv, TypeOK
  <2> QED
    BY <2>1, <2>8, <2>9 DEF Exact!Answer, Exact!Optimal, Finish, input, Cheapest
<1>3. CASE Record
  <2>1. core = {} /\ Finish("kInfeasibleProven", {}) /\ UNCHANGED input /\ status = "none"
    BY <1>3 DEF Record, IInv, TypeOK
  <2>2. achievable = {}
    BY <1>3, <2>1 DEF Record, IInv, Learned, NoPlacementSeparates, Separates
  <2> QED
    BY <2>1, <2>2 DEF Exact!Answer, Exact!Infeasible, Finish, input, Cheapest
<1>4. CASE Seed \/ Propose \/ StartShrink \/ Keep \/ Drop \/ Terminated \/ UNCHANGED vars
  BY <1>4 DEF Seed, Propose, StartShrink, Keep, Drop, Terminated, vars
<1> QED
  BY <1>1, <1>2, <1>3, <1>4 DEF Next

\* ImplicitHittingSetSolver is an exact solver: kFeasible has the least reuse
\* cost, kInfeasibleProven is a proof, kTimeout is excused and valid.
THEOREM Refinement == Spec => AnswersExactly
<1>1. Init => status = "none" /\ solution = {}
  BY DEF Init
<1> QED
  BY Safety, StepAnswers, <1>1, PTL DEF Spec, AnswersExactly, Exact!ExactSpec

-----------------------------------------------------------------------------
(***************************************************************************)
(* What the caches, the cores and the incumbent are worth                  *)
(***************************************************************************)
\* Every set the oracle knows to be infeasible contains a core that has been
\* recorded or is being shrunk; the candidates are edges of the latter.
KernelsKnown ==
    /\ \A known \in infeasible : \E kernel \in cores \cup {core} : kernel \subseteq known
    /\ phase \in {"seed", "master", "oracle"} =>
           \A known \in infeasible : \E kernel \in cores : kernel \subseteq known
    /\ phase = "shrink" => candidates \subseteq core

\* Shrinking a core keeps it the kernel of what it began with.
LEMMA KernelsInv == Spec => []KernelsKnown
<1>1. Init => KernelsKnown
  BY DEF Init, KernelsKnown
<1>2. IInv /\ KernelsKnown /\ [Next]_vars => KernelsKnown'
  <2> SUFFICES ASSUME IInv, KernelsKnown, [Next]_vars PROVE KernelsKnown'
    OBVIOUS
  <2>1. CASE UNCHANGED vars \/ Terminated
    BY <2>1 DEF KernelsKnown, Terminated, vars, oracle
  <2>2. CASE Seed \/ Propose
    BY <2>2 DEF KernelsKnown, Seed, Propose, oracle
  <2>3. CASE MasterLimit \/ Separated \/ OracleLimit
    BY <2>3 DEF KernelsKnown, MasterLimit, Separated, OracleLimit, TimeOut, Finish, oracle
  <2>4. CASE StartShrink
    BY <2>4 DEF KernelsKnown, StartShrink
  <2>5. CASE Keep
    BY <2>5 DEF KernelsKnown, Keep
  <2>6. CASE Drop
    <3>1. core' \subseteq core /\ candidates' \subseteq core'
      BY <2>6 DEF KernelsKnown, Drop
    <3>2. UNCHANGED <<infeasible, cores, phase>> /\ phase = "shrink"
      BY <2>6 DEF Drop, oracle
    <3>3. \A known \in infeasible : \E kernel \in cores \cup {core'} : kernel \subseteq known
      BY <3>1 DEF KernelsKnown
    <3> QED
      BY <3>1, <3>2, <3>3 DEF KernelsKnown
  <2>7. CASE Record
    BY <2>7 DEF KernelsKnown, Record, Finish
  <2> QED
    BY <2>1, <2>2, <2>3, <2>4, <2>5, <2>6, <2>7 DEF Next
<1> QED
  BY Safety, <1>1, <1>2, PTL DEF Spec

\* infeasible_cores_ never answers a question of ImplicitHittingSetSolver: what
\* the oracle is asked about contains no core, so no set that contains one.
THEOREM Fresh == Spec => []QuestionsAreFresh
<1>1. IInv /\ KernelsKnown => QuestionsAreFresh
  <2> SUFFICES ASSUME IInv, KernelsKnown PROVE QuestionsAreFresh
    OBVIOUS
  <2>1. \A known \in infeasible : \E kernel \in cores \cup {core} : kernel \subseteq known
    BY DEF KernelsKnown
  <2>2. phase = "oracle" => ~CachedInfeasible(core)
    BY DEF IInv, EveryIterationLearns, KernelsKnown, CachedInfeasible
  <2>3. ASSUME phase = "shrink", NEW e \in candidates, NEW known \in infeasible,
               known \subseteq core \ {e}
        PROVE  FALSE
    <3>1. PICK kernel \in cores \cup {core} : kernel \subseteq known
      BY <2>1
    <3>2. e \in core
      BY <2>3 DEF KernelsKnown
    <3>3. kernel \in cores
      BY <2>3, <3>1, <3>2
    <3> QED
      BY <2>3, <3>1, <3>3 DEF IInv, EveryIterationLearns
  <2> QED
    BY <2>1, <2>2, <2>3 DEF QuestionsAreFresh, CachedInfeasible
<1> QED
  BY Safety, KernelsInv, <1>1, PTL

\* No edge that has been tried can be spared in the core being shrunk.
TriedAreNeeded ==
    options.shrink /\ phase = "shrink" =>
        \A e \in core \ candidates : ~NoPlacementSeparates(core \ {e})

\* An edge needed in a core is needed in every part of it.
LEMMA NeededInParts ==
    ASSUME NEW large, NEW small, small \subseteq large, NEW e,
           ~NoPlacementSeparates(large \ {e})
    PROVE  ~NoPlacementSeparates(small \ {e})
  BY DEF NoPlacementSeparates, Separates

\* The trials of the shrink loop stay valid while the core shrinks.
LEMMA MinimalInv == Spec => [](CoresAreMinimal /\ TriedAreNeeded)
<1>1. Init => CoresAreMinimal /\ TriedAreNeeded
  BY DEF Init, CoresAreMinimal, TriedAreNeeded
<1>2. IInv /\ (CoresAreMinimal /\ TriedAreNeeded) /\ [Next]_vars
          => (CoresAreMinimal /\ TriedAreNeeded)'
  <2> SUFFICES ASSUME IInv, CoresAreMinimal, TriedAreNeeded, [Next]_vars
               PROVE  (CoresAreMinimal /\ TriedAreNeeded)'
    OBVIOUS
  <2>1. UNCHANGED <<achievable, options>>
    BY DEF Next, vars, input, Seed, Propose, MasterLimit, Separated, StartShrink, OracleLimit,
           Keep, Drop, Record, Terminated
  <2>3. CASE ~(Record \/ StartShrink \/ Keep \/ Drop)
    <3>1. UNCHANGED cores
      BY <2>3 DEF Next, vars, Seed, Propose, MasterLimit, Separated, OracleLimit, Terminated
    <3>2. phase' = "shrink" => phase = "shrink" /\ UNCHANGED <<core, candidates>>
      BY <2>3 DEF Next, vars, Seed, Propose, MasterLimit, Separated, OracleLimit, Terminated,
                  TimeOut, Finish
    <3> QED
      BY <2>1, <3>1, <3>2 DEF CoresAreMinimal, TriedAreNeeded, NoPlacementSeparates, Separates
  <2>4. CASE StartShrink
    BY <2>1, <2>4 DEF StartShrink, CoresAreMinimal, TriedAreNeeded, NoPlacementSeparates, Separates
  <2>5. CASE Keep
    <3>1. PICK placement \in achievable : AnswersFeasible(core \ {Min(candidates)}, placement)
      BY <2>5 DEF Keep
    <3>2. core \ {Min(candidates)} \in SUBSET Edges
      BY DEF IInv, TypeOK
    <3>3. Separates(placement, core \ {Min(candidates)})
      BY <3>1, <3>2, OracleFeasible DEF IInv
    <3>4. ~NoPlacementSeparates(core \ {Min(candidates)})
      BY <3>3 DEF NoPlacementSeparates
    <3>5. UNCHANGED <<cores, core, phase>> /\ phase = "shrink"
          /\ candidates' = candidates \ {Min(candidates)}
      BY <2>5 DEF Keep
    <3>6. options.shrink => \A e \in core \ candidates' : ~NoPlacementSeparates(core \ {e})
      BY <3>4, <3>5 DEF TriedAreNeeded
    <3> QED
      BY <2>1, <3>5, <3>6 DEF CoresAreMinimal, TriedAreNeeded, NoPlacementSeparates, Separates
  <2>6. CASE Drop
    <3>1. /\ core' = core \ {Min(candidates)} /\ candidates' = candidates \ {Min(candidates)}
          /\ UNCHANGED <<cores, phase>> /\ phase = "shrink"
      BY <2>6 DEF Drop
    <3>2. options.shrink => \A e \in core' \ candidates' : ~NoPlacementSeparates(core \ {e})
      BY <3>1 DEF TriedAreNeeded
    <3>3. options.shrink => \A e \in core' \ candidates' : ~NoPlacementSeparates(core' \ {e})
      BY <3>1, <3>2, NeededInParts
    <3> QED
      BY <2>1, <3>1, <3>3 DEF CoresAreMinimal, TriedAreNeeded, NoPlacementSeparates, Separates
  <2>7. CASE Record
    <3>1. phase = "shrink" /\ candidates = {} /\ phase' # "shrink"
          /\ cores' \subseteq cores \cup {core}
      BY <2>7 DEF Record, Finish
    <3>2. options.shrink => \A known \in cores' : \A e \in known : ~NoPlacementSeparates(known \ {e})
      BY <3>1 DEF CoresAreMinimal, TriedAreNeeded
    <3> QED
      BY <2>1, <3>1, <3>2 DEF CoresAreMinimal, TriedAreNeeded, NoPlacementSeparates, Separates
  <2> QED
    BY <2>3, <2>4, <2>5, <2>6, <2>7
<1> QED
  BY Safety, <1>1, <1>2, PTL DEF Spec

\* A shrunk core of ImplicitHittingSetSolver is irreducible.
THEOREM Minimal == Spec => []CoresAreMinimal
  BY MinimalInv, PTL

\* consider_incumbent never gives up a better placement.
LEMMA IncumbentImproves ==
    ASSUME TypeOK, Learned, NEW placement \in achievable, incumbent' = Better(placement, incumbent)
    PROVE  /\ \E kept \in incumbent' : Cost[kept] <= Cost[placement]
           /\ \A held \in incumbent : \E kept \in incumbent' : Cost[kept] <= Cost[held]
<1>1. \A a \in achievable : Cost[a] \in Nat
  BY CostAssumption DEF TypeOK
<1>2. \A kept \in incumbent : incumbent = {kept} /\ kept \in achievable
  BY DEF Learned
<1>3. CASE \E kept \in incumbent : Cost[kept] <= Cost[placement]
  BY <1>1, <1>2, <1>3 DEF Better
<1>4. CASE ~\E kept \in incumbent : Cost[kept] <= Cost[placement]
  BY <1>1, <1>2, <1>4 DEF Better
<1> QED
  BY <1>3, <1>4

\* Nothing is cached before the seed is taken.
NothingSeen == phase = "seed" => feasible = {}

\* An answer of the oracle leaves the incumbent at least as good as all it cached.
LEMMA SeenIsKept ==
    ASSUME TypeOK, Learned, TimeoutKeepsBest, NEW promoted, NEW placement \in achievable,
           AnswersFeasible(promoted, placement), incumbent' = Better(placement, incumbent)
    PROVE  \A entry \in feasible' : \E kept \in incumbent' : Cost[kept] <= Cost[entry.placement]
<1>1. /\ \E kept \in incumbent' : Cost[kept] <= Cost[placement]
      /\ \A held \in incumbent : \E kept \in incumbent' : Cost[kept] <= Cost[held]
  BY IncumbentImproves
<1>2. \A kept \in incumbent' : kept \in achievable
  BY IncumbentStays
<1>3. \A a \in achievable : Cost[a] \in Nat
  BY CostAssumption DEF TypeOK
<1>4. ASSUME NEW entry \in feasible
      PROVE  \E kept \in incumbent' : Cost[kept] <= Cost[entry.placement]
  <2>1. PICK held \in incumbent : Cost[held] <= Cost[entry.placement]
    BY DEF TimeoutKeepsBest
  <2>2. PICK kept \in incumbent' : Cost[kept] <= Cost[held]
    BY <1>1
  <2>3. Cost[kept] \in Nat /\ Cost[held] \in Nat /\ Cost[entry.placement] \in Nat
    BY <1>2, <1>3 DEF Learned
  <2> QED
    BY <2>1, <2>2, <2>3
<1>5. \A entry \in feasible' : entry \in feasible \/ entry.placement = placement
  BY DEF AnswersFeasible
<1> QED
  BY <1>1, <1>4, <1>5

\* A timeout of ImplicitHittingSetSolver returns a placement as good as any that
\* was seen on the way to it, the seeds and the trials of the shrink loop included.
THEOREM KeepsBest == Spec => []TimeoutKeepsBest
<1>1. Init => TimeoutKeepsBest /\ NothingSeen
  BY DEF Init, TimeoutKeepsBest, NothingSeen
<1>2. IInv /\ (TimeoutKeepsBest /\ NothingSeen) /\ [Next]_vars
          => (TimeoutKeepsBest /\ NothingSeen)'
  <2> SUFFICES ASSUME IInv, TimeoutKeepsBest, NothingSeen, [Next]_vars
               PROVE  (TimeoutKeepsBest /\ NothingSeen)'
    OBVIOUS
  <2> USE DEF TimeoutKeepsBest, NothingSeen
  <2>1. CASE UNCHANGED vars \/ Terminated
    BY <2>1 DEF Terminated, vars, oracle
  <2>2. CASE Seed
    BY <2>2 DEF Seed, oracle, IInv, TypeOK
  <2>3. CASE Propose
    BY <2>3 DEF Propose, oracle
  <2>4. CASE MasterLimit
    BY <2>4 DEF MasterLimit, TimeOut, Finish, oracle
  <2>5. CASE OracleLimit
    BY <2>5 DEF OracleLimit, TimeOut, Finish, oracle
  <2>6. CASE StartShrink
    BY <2>6 DEF StartShrink, IInv, TypeOK
  <2>7. CASE Separated
    <3>1. PICK placement \in achievable :
              /\ AnswersFeasible(core, placement)
              /\ incumbent' = Better(placement, incumbent)
              /\ Finish("kFeasible", {placement})
      BY <2>7 DEF Separated
    <3>2. \A entry \in feasible' : \E kept \in incumbent' : Cost[kept] <= Cost[entry.placement]
      BY <3>1, SeenIsKept DEF IInv
    <3> QED
      BY <3>1, <3>2 DEF Finish
  <2>8. CASE Keep
    <3>1. PICK placement \in achievable :
              /\ AnswersFeasible(core \ {Min(candidates)}, placement)
              /\ incumbent' = Better(placement, incumbent)
      BY <2>8 DEF Keep
    <3>2. \A entry \in feasible' : \E kept \in incumbent' : Cost[kept] <= Cost[entry.placement]
      BY <3>1, SeenIsKept DEF IInv
    <3> QED
      BY <2>8, <3>2 DEF Keep, IInv, TypeOK
  <2>9. CASE Drop
    BY <2>9 DEF Drop, oracle
  <2>10. CASE Record
    BY <2>10 DEF Record, Finish, IInv, TypeOK
  <2> QED
    BY <2>1, <2>2, <2>3, <2>4, <2>5, <2>6, <2>7, <2>8, <2>9, <2>10 DEF Next
<1> QED
  BY Safety, <1>1, <1>2, PTL DEF Spec
=============================================================================
