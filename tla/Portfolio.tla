----------------------------- MODULE Portfolio -----------------------------
(***************************************************************************)
(* ReusePenaltyPortfolioSolver of src/dsa/algorithms/                      *)
(* reuse_penalty_portfolio_solvers.cpp: the exact methods are tried in     *)
(* turn, span_one, capacity_two, treewidth and canonical_branch_and_bound; *)
(* the first that neither refuses the problem nor runs into its limit      *)
(* answers, and the best placement of those that ran into it is kept.      *)
(*                                                                         *)
(* The three specialised methods run as their modules say.  The general    *)
(* one may give any answer that ExactSolver allows it, the promise that    *)
(* CanonicalSearch is checked to keep.                                     *)
(***************************************************************************)
EXTENDS SpanOne, CapacityTwo, TreewidthDp

VARIABLES
    tried,          \* how many methods have been tried
    answers,        \* what they answered, for the properties
    incumbent,      \* timeout_incumbent and timeout_score: {} or {[solution, score]}
    last,           \* the last answer that was passed over
    output          \* [status, solution], the result of the portfolio

dispatch == <<tried, answers, incumbent, last, output>>
vars == <<input, frame, spanVars, twoVars, dpVars, dispatch>>

Methods == <<"span", "capacity_two", "treewidth", "general">>

ValidPlacements == Tabulated([p \in Problems |-> PlacementsOf(p)])

OptimalPlacements == Tabulated([p \in Problems |-> BestOf(p, ValidPlacements[p])])

ScoreOf(sol) == ObjectiveScore(problem, sol)

-----------------------------------------------------------------------------
Init ==
    /\ problem \in Problems /\ options \in Options /\ space = SearchSpace(problem)
    /\ method = "none" /\ poolsLeft = {} /\ poolNow = {} /\ offsets = NoOffsets
    /\ anyTimeout = FALSE /\ answer = NoAnswer
    /\ SpanInit /\ TwoInit /\ DpInit
    /\ tried = 0 /\ answers = <<>> /\ incumbent = {} /\ last = NoAnswer /\ output = NoAnswer

TryNextMethod ==
    /\ method = "none" /\ tried < Len(Methods) /\ output = NoAnswer
    /\ Calls(Methods[tried + 1])
    /\ tried' = tried + 1
    /\ UNCHANGED <<input, spanVars, twoVars, dpVars, answers, incumbent, last, output>>

SpanRuns == SpanNext /\ UNCHANGED <<input, twoVars, dpVars, dispatch>>

TwoRuns == TwoNext /\ UNCHANGED <<input, spanVars, dpVars, dispatch>>

DpRuns == DpNext /\ UNCHANGED <<input, spanVars, twoVars, dispatch>>

\* canonical_branch_and_bound, as ExactSolver has it.
General ==
    INSTANCE ExactSolver
        WITH placements <- ValidPlacements[problem], optimal <- OptimalPlacements[problem],
             limited <- options.generalLimited, solution <- answer.solution,
             status <- answer.status

GeneralAnswers ==
    /\ Running("general") /\ UNCHANGED input
    /\ \/ \E best \in OptimalPlacements[problem] :
              answer' = [status |-> "kFeasible", solution |-> {best}]
       \/ answer' = [status |-> "kInfeasibleProven", solution |-> {}]
       \/ \E sols \in {{}} \cup {{sol} : sol \in ValidPlacements[problem]} :
              answer' = [status |-> "kTimeout", solution |-> sols]
    /\ General!Answer
    /\ UNCHANGED <<method, poolsLeft, poolNow, offsets, anyTimeout,
                   spanVars, twoVars, dpVars, dispatch>>

-----------------------------------------------------------------------------
Returned == method # "none" /\ answer # NoAnswer

PassesOver == answer.status \in {"kUnsupported", "kTimeout"}

\* Mutant of BetterIncumbent: the last placement of a method is kept.
LaterIncumbent ==
    incumbent' = IF answer.status = "kTimeout" /\ answer.solution # {}
                 THEN {[solution |-> sol, score |-> ScoreOf(sol)] : sol \in answer.solution}
                 ELSE incumbent

\* A placement found before a limit is kept when it is valid and better.
BetterIncumbent ==
    LET kept == {sol \in answer.solution :
                    /\ answer.status = "kTimeout" /\ sol \in ValidPlacements[problem]
                    /\ \A old \in incumbent : ScoreBefore(ScoreOf(sol), old.score)}
    IN  incumbent' = IF kept = {} THEN incumbent
                     ELSE {[solution |-> sol, score |-> ScoreOf(sol)] : sol \in kept}

PassOver ==
    /\ Returned /\ PassesOver
    /\ BetterIncumbent
    /\ last' = answer /\ answers' = Append(answers, answer)
    /\ method' = "none" /\ answer' = NoAnswer
    /\ UNCHANGED <<input, poolsLeft, poolNow, offsets, anyTimeout, spanVars, twoVars, dpVars,
                   tried, output>>

Select ==
    /\ Returned /\ ~PassesOver
    /\ output' = answer /\ answers' = Append(answers, answer)
    /\ method' = "none" /\ answer' = NoAnswer
    /\ UNCHANGED <<input, poolsLeft, poolNow, offsets, anyTimeout, spanVars, twoVars, dpVars,
                   tried, incumbent, last>>

Exhausted ==
    /\ method = "none" /\ tried = Len(Methods) /\ output = NoAnswer
    /\ output' = IF incumbent = {} THEN last
                 ELSE [status |-> "kTimeout",
                       solution |-> {kept.solution : kept \in incumbent}]
    /\ UNCHANGED <<input, frame, spanVars, twoVars, dpVars, tried, answers, incumbent, last>>

Terminated == output # NoAnswer /\ UNCHANGED vars

Next ==
    \/ TryNextMethod
    \/ SpanRuns \/ TwoRuns \/ DpRuns \/ GeneralAnswers
    \/ PassOver \/ Select \/ Exhausted
    \/ Terminated

Spec == Init /\ [][Next]_vars

-----------------------------------------------------------------------------
(***************************************************************************)
(* Properties                                                              *)
(***************************************************************************)
TypeOK ==
    /\ method \in {"none"} \cup Range(Methods) /\ tried \in 0..Len(Methods)
    /\ poolNow \subseteq problem.pools /\ poolsLeft \subseteq problem.pools
    /\ DOMAIN offsets \subseteq DOMAIN space.pool
    /\ answer.status \in {"none", "kFeasible", "kInfeasibleProven", "kTimeout", "kUnsupported"}
    /\ Len(answers) <= tried

\* What each of the methods has to keep on its way.
IInv ==
    /\ TypeOK
    /\ PredecessorsLeadBack /\ CompletionFits
    /\ TwoAddressOptimum
    /\ ReconstructionSucceeds

\* No placement found before a limit is lost: a timeout of the portfolio
\* carries one at least as good as that of every method that timed out, and the
\* portfolio times out only when no method finished.
TimeoutKeepsBest ==
    output # NoAnswer =>
        /\ output.status \in {"kTimeout", "kUnsupported"}
               <=> \A i \in DOMAIN answers : answers[i].status \in {"kTimeout", "kUnsupported"}
        /\ output.status = "kTimeout" =>
               \A i \in DOMAIN answers :
                   \A sol \in answers[i].solution :
                       \E kept \in output.solution : ~ScoreBefore(ScoreOf(sol), ScoreOf(kept))

\* Whichever method answers, the portfolio is an exact solver: colours of unit
\* addresses are as good as any offsets, an infeasible pool is a proof for the
\* whole problem, and only a limit is an excuse for less than the optimum.
Exact ==
    INSTANCE ExactSolver
        WITH placements <- ValidPlacements[problem], optimal <- OptimalPlacements[problem],
             limited <- options.twoLimit # 0 \/ options.generalLimited,
             solution <- output.solution, status <- output.status

AnswersExactly == Exact!ExactSpec
=============================================================================
