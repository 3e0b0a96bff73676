---------------------------- MODULE HittingSets ----------------------------
(***************************************************************************)
(* The vocabulary shared by ImplicitHittingSetSolver and its master        *)
(* (src/dsa/algorithms/reuse_penalty_exact_solvers.cpp).  A soft edge is a *)
(* pair of placement nodes that may share addresses at a price; the solver *)
(* knows it by its index.  Sets of edges are selected (their price may be  *)
(* paid), promoted (they become separations) or cores (no placement keeps  *)
(* all of them apart).                                                     *)
(***************************************************************************)
EXTENDS Naturals, FiniteSets

CONSTANTS Edges,    \* the indices of the soft edges
          Cost      \* what a set of edges costs, a saturating sum of weights

ASSUME EdgesAssumption == Edges \subseteq Nat /\ IsFiniteSet(Edges)

ASSUME CostAssumption ==
    /\ Cost \in [SUBSET Edges -> Nat]
    /\ \A s, t \in SUBSET Edges : s \subseteq t => Cost[s] <= Cost[t]

\* Mutant of Hits: whatever is selected is taken to hit.
HitsAnyway(selected, core) == core # {}

Hits(selected, core) == core \cap selected # {}

HittingSetsOf(cores) == {h \in SUBSET Edges : \A core \in cores : Hits(h, core)}

MinimumHittingSets(cores) ==
    {h \in HittingSetsOf(cores) : \A g \in HittingSetsOf(cores) : Cost[h] <= Cost[g]}
=============================================================================
