---------------------------- MODULE MCPortfolio ----------------------------
(***************************************************************************)
(* Four unit buffers in at most two pools of zero to three addresses: two  *)
(* or three phases, chains and cycles of conflicts, cliques that do not    *)
(* fit, penalties along and across the phases, and costs up to the bound   *)
(* of the flow network and to saturation; with every method first in turn  *)
(* to answer, to refuse and to run into its limit.                         *)
(***************************************************************************)
EXTENDS Portfolio

B == 1..4
Fn(w, x, y, z) == (1 :> w @@ 2 :> x @@ 3 :> y @@ 4 :> z)

Penalty(a, b, cost) == [first |-> a, second |-> b, cost |-> cost]

\* [lifetimes, penalties, capacity]
MCTwoPhases ==
    {[live |-> Fn({<<0, 1>>}, {<<0, 1>>}, {<<1, 2>>}, {<<1, 2>>}), penalties |-> pen, capacity |-> k] :
        pen \in {<<Penalty(1, 3, 2), Penalty(1, 4, 1), Penalty(2, 3, 1)>>,
                 <<Penalty(1, 3, 1), Penalty(1, 4, 1), Penalty(2, 3, 2), Penalty(2, 4, 3)>>,
                 <<Penalty(1, 3, 7), Penalty(1, 4, 0)>>, <<Penalty(2, 3, 6), Penalty(2, 4, 5)>>},
        k \in {2, 3}}

MCThreePhases ==
    {[live |-> Fn({<<0, 1>>}, {<<1, 2>>}, {<<1, 2>>}, {<<2, 3>>}), penalties |-> pen, capacity |-> k] :
        pen \in {<<Penalty(1, 2, 2), Penalty(3, 4, 1), Penalty(2, 4, 2)>>,
                 <<Penalty(1, 2, 1), Penalty(1, 4, 3)>>},
        k \in {1, 2, 3}}

MCChains ==
    {[live |-> l, penalties |-> pen, capacity |-> k] :
        l \in {Fn({<<0, 2>>}, {<<1, 3>>}, {<<2, 4>>}, {<<3, 5>>}),
               Fn({<<0, 2>>}, {<<1, 3>>}, {<<2, 4>>}, {<<0, 1>>, <<3, 4>>}),
               Fn({<<0, 1>>}, {<<1, 2>>}, {<<2, 3>>}, {<<3, 4>>})},
        pen \in {<<Penalty(1, 3, 2), Penalty(1, 4, 3), Penalty(2, 4, 1)>>,
                 <<Penalty(1, 2, 40), Penalty(2, 3, 30), Penalty(3, 4, 20), Penalty(1, 4, 3)>>},
        k \in {1, 2, 3}}

\* A conflict of three and a buffer behind it, and a cost at the bound of the network.
MCOdd ==
    {[live |-> Fn({<<0, 3>>}, {<<1, 3>>}, {<<2, 4>>}, {<<3, 5>>}),
      penalties |-> <<Penalty(1, 4, 2), Penalty(2, 4, 1)>>, capacity |-> k] : k \in {2, 3}}
    \cup {[live |-> Fn({<<0, 1>>}, {<<1, 2>>}, {<<2, 3>>}, {<<3, 4>>}),
           penalties |-> <<Penalty(1, 2, 7)>>, capacity |-> 1]}

MCTerms == {<<"capacity_overflow", "reuse">>}

MCProblem(shape, t) ==
    [buffers |-> B, pools |-> {0}, size |-> Fn(1, 1, 1, 1), alignment |-> Fn(1, 1, 1, 1),
     live |-> shape.live, allowed |-> Fn({0}, {0}, {0}, {0}), capacity |-> (0 :> shape.capacity),
     reserved |-> (0 :> {}), colocations |-> {}, separations |-> {}, exclusions |-> {},
     pins |-> {}, penalties |-> shape.penalties, terms |-> t]

\* Units of two addresses, two pools of which one may be empty, and what the
\* specialised methods refuse.
MCVariants(p) ==
    {[p EXCEPT !.size = Fn(2, 2, 2, 2), !.alignment = Fn(1, 2, 2, 1), !.capacity = (0 :> 5)],
     [p EXCEPT !.pools = {0, 1}, !.capacity = (0 :> 2 @@ 1 :> 2), !.reserved = (0 :> {} @@ 1 :> {}),
               !.allowed = Fn({0}, {0}, {0}, {1})],
     [p EXCEPT !.pools = {0, 1}, !.capacity = (0 :> 3 @@ 1 :> 2), !.reserved = (0 :> {} @@ 1 :> {})],
     [p EXCEPT !.pools = {0, 1}, !.capacity = (0 :> 2 @@ 1 :> 2), !.reserved = (0 :> {} @@ 1 :> {})],
     [p EXCEPT !.size = Fn(1, 1, 1, 2)],
     [p EXCEPT !.reserved = (0 :> {<<0, 1>>})],
     [p EXCEPT !.terms = <<"capacity_overflow">>],
     [p EXCEPT !.terms = <<"reuse", "total_peak">>]}

MCShapes == MCTwoPhases \cup MCThreePhases \cup MCChains \cup MCOdd

MCBase == {MCProblem(shape, t) : shape \in MCShapes, t \in MCTerms}

MCProblems ==
    MCBase \cup UNION {MCVariants(p) : p \in {x \in MCBase : /\ x.capacity[0] = 2
                                                            /\ x.penalties[1].cost = 2}}

Limits(phase, two, tw, table, general) ==
    [maxPhase |-> phase, twoLimit |-> two, maxTreewidth |-> tw, maxTable |-> table,
     generalLimited |-> general]

MCOptions ==
    {Limits(4, 0, 3, 0, FALSE), Limits(0, 0, 3, 0, FALSE), Limits(0, 4, 3, 2, TRUE),
     Limits(1, 1, 1, 0, TRUE), Limits(0, 6, 0, 0, TRUE), Limits(0, 4, 3, 1, TRUE)}
=============================================================================
