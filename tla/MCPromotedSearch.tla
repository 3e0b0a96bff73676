-------------------------- MODULE MCPromotedSearch --------------------------
(***************************************************************************)
(* Small problems for PromotedSearch: three and four classes with hard and *)
(* soft neighbours, at capacities between the peak of the best placement   *)
(* and one that nothing fits.                                              *)
(***************************************************************************)
EXTENDS PromotedSearch

Penalty(b, c, cost) == [first |-> b, second |-> c, cost |-> cost]

\* A chain of four conflicts and soft edges along it.
Chain ==
    [buffers |-> 1..4, pools |-> {0}, size |-> <<2, 1, 2, 1>>, alignment |-> <<1, 1, 1, 1>>,
     live |-> <<{<<0, 2>>}, {<<1, 3>>}, {<<2, 4>>}, {<<3, 5>>}>>,
     allowed |-> <<{0}, {0}, {0}, {0}>>, capacity |-> (0 :> 4), reserved |-> (0 :> {}),
     colocations |-> {}, separations |-> {}, exclusions |-> {}, pins |-> {},
     penalties |-> <<Penalty(1, 3, 2), Penalty(1, 4, 3), Penalty(2, 4, 1)>>,
     terms |-> <<"capacity_overflow", "reuse">>]

\* Three phases, in which every pair across the phases is soft.
Phases ==
    [Chain EXCEPT !.buffers = 1..3, !.size = <<3, 2, 2>>, !.alignment = <<1, 2, 1>>,
                  !.live = <<{<<0, 1>>}, {<<1, 2>>}, {<<1, 3>>}>>, !.allowed = <<{0}, {0}, {0}>>,
                  !.penalties = <<Penalty(1, 2, 2), Penalty(1, 3, 1)>>,
                  !.capacity = (0 :> 5)]

Units ==
    [Chain EXCEPT !.buffers = 1..3, !.size = <<2, 2, 2>>, !.alignment = <<1, 2, 1>>,
                  !.live = <<{<<0, 1>>}, {<<1, 2>>}, {<<2, 3>>}>>, !.allowed = <<{0}, {0}, {0}>>,
                  !.penalties = <<Penalty(1, 2, 2), Penalty(1, 3, 1)>>, !.capacity = (0 :> 5)]

\* Three penalties and room for two: greedy placements depend on the order.
Triangle ==
    [Units EXCEPT !.penalties = <<Penalty(1, 2, 1), Penalty(1, 3, 2), Penalty(2, 3, 3)>>]

\* A pool that has the whole address space, for the solver that takes one.
Unbounded ==
    [Phases EXCEPT !.buffers = 1..2, !.penalties = <<Penalty(1, 2, 2)>>, !.capacity = <<>>]

Pin(b, at) == [buffer |-> b, pool |-> 0, offset |-> at, exclusive |-> FALSE]

MCProblems ==
    {[Chain EXCEPT !.capacity = (0 :> k)] : k \in {2, 3, 4, 6}}
    \cup {[Phases EXCEPT !.capacity = (0 :> k)] : k \in {3, 5, 6, 7}}
    \cup {Triangle, [Chain EXCEPT !.terms = <<"reuse">>], [Chain EXCEPT !.reserved = (0 :> {<<1, 2>>})],
          [Phases EXCEPT !.penalties = <<>>], [Phases EXCEPT !.separations = {<<1, 2>>}],
          [Phases EXCEPT !.terms = <<"reuse", "total_peak">>],
          [Phases EXCEPT !.pins = {Pin(1, 1)}],
          [Phases EXCEPT !.capacity = <<>>], [Phases EXCEPT !.size = <<3, 0, 2>>],
          [Phases EXCEPT !.pools = {0, 1}, !.allowed = <<{0}, {0, 1}, {0}>>,
                         !.capacity = (0 :> 5 @@ 1 :> 4), !.reserved = (0 :> {} @@ 1 :> {})],
          [Phases EXCEPT !.pools = {0, 1}, !.allowed = <<{0}, {1}, {0}>>, !.colocations = {<<1, 2>>},
                         !.capacity = (0 :> 5 @@ 1 :> 4), !.reserved = (0 :> {} @@ 1 :> {})]}

MCUnits ==
    {[Units EXCEPT !.capacity = (0 :> k)] : k \in {1, 2, 5, 7}}
    \cup {[Units EXCEPT !.size = <<2, 2, 1>>], [Units EXCEPT !.separations = {<<1, 2>>}],
          [Units EXCEPT !.reserved = (0 :> {<<0, 2>>})], [Units EXCEPT !.colocations = {<<1, 3>>}]}

MCOption(solver) ==
    [solver |-> solver, randomRestarts |-> 1, samples |-> 2, rank |-> 1, maxNodes |-> 3,
     searchLimited |-> TRUE, maxEvaluations |-> 0, restarts |-> 0, stagnationLimit |-> 0,
     softMoves |-> 0, orderMoves |-> 0, acceptsWorse |-> FALSE]

MCSearchOptions ==
    {[MCOption("reuse_penalty_local_search") EXCEPT
         !.maxEvaluations = x[1], !.restarts = x[2], !.stagnationLimit = x[3],
         !.softMoves = x[4], !.orderMoves = x[5], !.acceptsWorse = x[6]] :
        x \in {<<0, 1, 1, 1, 1, FALSE>>, <<3, 1, 1, 1, 1, FALSE>>, <<7, 1, 2, 2, 1, TRUE>>,
               <<7, 2, 1, 1, 1, FALSE>>, <<7, 0, 1, 1, 1, FALSE>>}}

MCCases ==
    MCProblems \X ({MCOption(solver) : solver \in {"canonical_greedy", "promote_repair"}}
                       \cup MCSearchOptions)
    \cup ({Unbounded} \cup {p \in MCProblems : p.buffers = 1..3 /\ FixedCapacities(p)})
            \X {MCOption("promote_all")}
    \cup MCUnits \X ({MCOption(solver) : solver \in {"unit_random_coloring", "unit_low_rank_rounding"}}
                        \cup {[MCOption("unit_random_coloring") EXCEPT !.samples = 0],
                              [MCOption("unit_low_rank_rounding") EXCEPT !.rank = 0],
                              [MCOption("unit_low_rank_rounding") EXCEPT !.maxNodes = 2]})
=============================================================================
