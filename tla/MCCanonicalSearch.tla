------------------------- MODULE MCCanonicalSearch -------------------------
(***************************************************************************)
(* Problems with three buffers and two pools in an address space of eight  *)
(* bytes: classes that block each other, that pay for sharing or that are  *)
(* colocated, with alignments, reserved ranges, capacities that are tight  *)
(* or too small, and costs that saturate within a pool but not across.     *)
(***************************************************************************)
EXTENDS CanonicalSearch

B == 1..3
Fn(x, y, z) == (1 :> x @@ 2 :> y @@ 3 :> z)

\* Sizes and alignments.
MCShapes == {<<Fn(1, 2, 1), Fn(1, 1, 1)>>, <<Fn(2, 1, 2), Fn(1, 2, 1)>>}

\* Nobody lives together; the first two do; the last lives with both.
MCLives == {Fn({<<0, 1>>}, {<<1, 2>>}, {<<2, 3>>}),
            Fn({<<0, 2>>}, {<<1, 2>>}, {<<2, 3>>}),
            Fn({<<0, 1>>}, {<<1, 2>>}, {<<0, 2>>})}

Penalty(a, b, cost) == [first |-> a, second |-> b, cost |-> cost]
MCPenalties == {<<Penalty(1, 2, 2), Penalty(2, 3, 1), Penalty(3, 1, 1)>>,
                <<Penalty(1, 3, 5), Penalty(3, 1, 4), Penalty(1, 2, 7)>>}

\* Capacities and reserved ranges.
MCMemories == {<<(0 :> 3 @@ 1 :> 2), (0 :> {} @@ 1 :> {})>>,
               <<(0 :> 5 @@ 1 :> 3), (0 :> {<<1, 2>>} @@ 1 :> {})>>}

\* Pools and colocations.
MCStructures == {<<Fn({0}, {0}, {0}), {}>>, <<Fn({0}, {0}, {1}), {}>>,
                 <<Fn({0}, {0}, {0}), {<<1, 3>>}>>}

MCTerms == {<<"reuse">>, <<"capacity_overflow", "reuse", "total_peak">>,
            <<"reuse", "max_peak", "total_peak">>}

MCProblem(shape, l, pen, m, st, t) ==
    [buffers |-> B, pools |-> {0, 1}, size |-> shape[1], alignment |-> shape[2], live |-> l,
     allowed |-> st[1], capacity |-> m[1], reserved |-> m[2], colocations |-> st[2],
     separations |-> {}, exclusions |-> {}, pins |-> {}, penalties |-> pen, terms |-> t]

MCProblems ==
    {MCProblem(shape, l, pen, m, st, t) : shape \in MCShapes, l \in MCLives, pen \in MCPenalties,
                                          m \in MCMemories, st \in MCStructures, t \in MCTerms}

\* What the theorems about the whole problem assume.
ASSUME MCCostsAddUp == \A p \in MCProblems : CostsAddUp(p)

\* No seed, or a placement that none is worse than.
WorstPlacement(p) ==
    LET scored == {<<sol, ObjectiveScore(p, sol)>> : sol \in ValidPlacements[p]}
    IN  (CHOOSE x \in scored : \A y \in scored : ~ScoreBefore(x[2], y[2]))[1]

MCSeeds ==
    Tabulated([p \in MCProblems |->
        IF ValidPlacements[p] = {} THEN {{}} ELSE {{}, {WorstPlacement(p)}}])
MCSeedsOf(p) == MCSeeds[p]
=============================================================================
