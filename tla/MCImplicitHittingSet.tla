----------------------- MODULE MCImplicitHittingSet -----------------------
(***************************************************************************)
(* Every problem with three soft edges: each set of achievable edge sets,  *)
(* with one cheap edge, two of equal cost and a total that saturates.      *)
(***************************************************************************)
EXTENDS ImplicitHittingSet

MCEdges == 0..2
MCProblems == SUBSET SUBSET MCEdges

\* Weights 1, 2 and 2, saturating at 4.
Weight(e) == IF e = 0 THEN 1 ELSE 2
MCCost == [s \in SUBSET MCEdges |->
             LET sum == MapThenSumSet(Weight, s) IN IF sum > 4 THEN 4 ELSE sum]
=============================================================================
