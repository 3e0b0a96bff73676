---------------------- MODULE MCCanonicalSaturation ----------------------
(***************************************************************************)
(* Two pools whose reuse costs saturate together: the only placement of    *)
(* the second pool costs the largest representable penalty, as in the      *)
(* repository's own test, and the first pool may avoid a penalty at the    *)
(* price of a higher peak.                                                 *)
(***************************************************************************)
EXTENDS CanonicalSearch

B == 1..4
MCProblem ==
    [buffers |-> B, pools |-> {0, 1}, size |-> [b \in B |-> 1], alignment |-> [b \in B |-> 1],
     live |-> [b \in B |-> {<<b, b + 1>>}],
     allowed |-> [b \in B |-> IF b < 3 THEN {0} ELSE {1}],
     capacity |-> (0 :> 2 @@ 1 :> 1), reserved |-> (0 :> {} @@ 1 :> {}),
     colocations |-> {}, separations |-> {}, exclusions |-> {}, pins |-> {},
     penalties |-> <<[first |-> 1, second |-> 2, cost |-> 4],
                     [first |-> 3, second |-> 4, cost |-> 7]>>,
     terms |-> <<"reuse", "total_peak">>]

MCProblems == {MCProblem}
MCSeedsOf(p) == {{}}
=============================================================================
