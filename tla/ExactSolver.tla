---------------------------- MODULE ExactSolver ----------------------------
(***************************************************************************)
(* What an exact solver of the framework promises of its one answer:       *)
(* kFeasible is an optimum, kInfeasibleProven is a proof, and kTimeout is  *)
(* excused by a limit and carries at most a valid placement.  (SolveStatus *)
(* and DsaResult of src/dsa/model/model.h, as the exact solvers use them.) *)
(***************************************************************************)
VARIABLES
    placements,     \* the valid placements of the problem
    optimal,        \* those no placement is better than
    limited,        \* whether some limit may stop the solver
    solution,       \* {} or {placement}
    status

Optimal == status' = "kFeasible" /\ \E best \in optimal : solution' = {best}

Infeasible == status' = "kInfeasibleProven" /\ placements = {} /\ solution' = {}

Timeout ==
    /\ status' = "kTimeout" /\ limited
    /\ solution' = {} \/ \E valid \in placements : solution' = {valid}

Answer ==
    /\ status = "none"
    /\ Optimal \/ Infeasible \/ Timeout
    /\ UNCHANGED <<placements, optimal>>

ExactSpec == status = "none" /\ solution = {} /\ [][Answer]_<<solution, status>>
=============================================================================
