------------------------ MODULE MCHittingSetMaster ------------------------
(***************************************************************************)
(* Up to three cores over four edges of weights 0, 2, 2 and 3, with a      *)
(* total that saturates at 5, without a limit and with one of four nodes.  *)
(***************************************************************************)
EXTENDS HittingSetMaster

MCEdges == 0..3
MCWeight == [e \in MCEdges |-> <<0, 2, 2, 3>>[e + 1]]
MCCost == [s \in SUBSET MCEdges |->
             LET sum == MapThenSumSet(LAMBDA e : MCWeight[e], s)
             IN  IF sum > MaxUInt THEN MaxUInt ELSE sum]

MCCoreFamilies == UNION {kSubset(n, (SUBSET MCEdges) \ {{}}) : n \in 0..3}
=============================================================================
