------------------------ MODULE MCScaleSeparatedGrid ------------------------
(***************************************************************************)
(* Three or four buffers in a pool of four to seven addresses, of which    *)
(* two or three are large: with lifetimes that touch, overlap or have      *)
(* holes, soft edges to the next rank and to a later one, sizes on and off *)
(* the grid, small buffers with and without conflicts, and a second pool,  *)
(* also one that reaches the end of the address space.                     *)
(***************************************************************************)
EXTENDS ScaleSeparatedGrid

Penalty(a, b, cost) == [first |-> a, second |-> b, cost |-> cost]

\* Three large buffers and a small one.
Base ==
    [buffers |-> 1..4, pools |-> {0}, size |-> <<2, 3, 2, 1>>, alignment |-> <<1, 1, 1, 1>>,
     live |-> <<{<<0, 2>>}, {<<1, 3>>}, {<<2, 4>>}, {<<1, 4>>}>>,
     allowed |-> <<{0}, {0}, {0}, {0}>>, capacity |-> (0 :> 6), reserved |-> (0 :> {}),
     colocations |-> {}, separations |-> {}, exclusions |-> {}, pins |-> {},
     penalties |-> <<Penalty(1, 3, 2)>>, terms |-> <<"capacity_overflow", "reuse">>]

\* Phases one after the other: every pair across them is soft.
Phases ==
    [Base EXCEPT !.live = <<{<<0, 1>>}, {<<1, 2>>}, {<<2, 3>>}, {<<2, 4>>}>>,
                 !.size = <<2, 2, 3, 2>>,
                 !.penalties = <<Penalty(1, 2, 1), Penalty(1, 3, 2),
                                 Penalty(2, 3, 3), Penalty(2, 4, 2)>>]

\* A lifetime with a hole in which another one fits.
Holes ==
    [Base EXCEPT !.live = <<{<<0, 1>>, <<4, 5>>}, {<<1, 2>>}, {<<2, 3>>}, {<<2, 5>>}>>,
                 !.size = <<2, 3, 2, 2>>,
                 !.penalties = <<Penalty(1, 2, 1), Penalty(1, 3, 3), Penalty(2, 4, 2)>>]

\* The first and the last of three related ones, a lifetime apart.
Apart ==
    [Base EXCEPT !.buffers = 1..3, !.size = <<2, 3, 2>>, !.alignment = <<1, 1, 1>>,
                 !.live = <<{<<0, 1>>}, {<<1, 2>>}, {<<2, 3>>}>>, !.allowed = <<{0}, {0}, {0}>>,
                 !.penalties = <<Penalty(1, 2, 2), Penalty(1, 3, 5)>>]

Small == [Base EXCEPT !.size = <<4, 4, 1, 2>>, !.penalties = <<Penalty(1, 2, 2)>>,
                      !.live = <<{<<0, 2>>}, {<<2, 3>>}, {<<0, 3>>}, {<<1, 4>>}>>]

TwoPools ==
    [Base EXCEPT !.pools = {0, 1}, !.reserved = (0 :> {} @@ 1 :> {}),
                 !.capacity = (0 :> 4 @@ 1 :> 3), !.allowed = <<{0}, {1}, {0}, {1}>>]

\* A buffer larger than its pool, which has no soft edge, and one in conflict with it.
WidePool == [TwoPools EXCEPT !.capacity = (0 :> 4 @@ 1 :> 2)]

\* The pool without soft edges reaches the end of the address space: its capacity in
\* quanta of two is no word.
LastWord == [TwoPools EXCEPT !.capacity = (0 :> 4 @@ 1 :> 11), !.size = <<2, 10, 2, 10>>,
                             !.alignment = <<1, 2, 1, 2>>]

MCCapacities(p) == {[p EXCEPT !.capacity = (0 :> k)] : k \in 3..6}

MCProblems ==
    UNION {MCCapacities(p) : p \in {Base, Phases, Holes, Apart, Small}}
    \cup {TwoPools, WidePool,
          LastWord, [LastWord EXCEPT !.live[4] = {<<3, 4>>}],
          [LastWord EXCEPT !.size = <<2, 1, 2, 1>>, !.alignment = <<1, 1, 1, 1>>],
          [TwoPools EXCEPT !.capacity = (0 :> 4)],
          [TwoPools EXCEPT !.capacity = (0 :> 3), !.size = <<3, 3, 3, 3>>, !.live[3] = {<<1, 3>>},
                           !.live[4] = {<<3, 4>>}, !.allowed[4] = {0},
                           !.penalties = <<Penalty(1, 4, 2)>>],
          [TwoPools EXCEPT !.capacity = (0 :> 4 @@ 1 :> 5)],
          [TwoPools EXCEPT !.capacity = (0 :> 4 @@ 1 :> 9), !.size = <<2, 6, 3, 6>>],
          [Base EXCEPT !.size = <<4, 4, 4, 1>>, !.capacity = (0 :> 4)],
          [Base EXCEPT !.size = <<5, 5, 5, 2>>, !.capacity = (0 :> 5)],
          [TwoPools EXCEPT !.live[4] = {<<0, 1>>, <<2, 3>>}],
          [TwoPools EXCEPT !.allowed = <<{1}, {0}, {1}, {0}>>],
          [Base EXCEPT !.alignment = <<2, 1, 1, 1>>],
          [Phases EXCEPT !.size = <<4, 2, 4, 2>>, !.alignment = <<2, 1, 2, 1>>],
          [Base EXCEPT !.separations = {<<3, 4>>}],
          [Small EXCEPT !.separations = {<<3, 4>>}, !.live[3] = {<<0, 1>>}],
          [Small EXCEPT !.exclusions = {<<3, 4>>}], [Small EXCEPT !.colocations = {<<3, 4>>}],
          [Base EXCEPT !.colocations = {<<1, 3>>}],
          [Base EXCEPT !.penalties = <<>>], [Base EXCEPT !.terms = <<"capacity_overflow">>],
          [Base EXCEPT !.terms = <<"reuse", "total_peak">>],
          [Base EXCEPT !.size = <<2, 0, 2, 1>>], [Phases EXCEPT !.capacity = (0 :> 7)],
          [Base EXCEPT !.colocations = {<<1, 2>>, <<2, 3>>}, !.separations = {<<1, 3>>}]}

Limits(large, epsilon, span, states, moves, offsetCount) ==
    [maxLarge |-> large, epsilon |-> epsilon, maxSpan |-> span, maxStates |-> states,
     maxTransitions |-> moves, maxOffsets |-> offsetCount]

MCOptions ==
    {Limits(4, 1, 4, 0, 0, 7), Limits(4, 2, 4, 0, 0, 7), Limits(2, 2, 4, 0, 0, 7),
     Limits(4, 1, 1, 12, 0, 7), Limits(4, 1, 0, 0, 40, 7), Limits(4, 2, 4, 0, 0, 4),
     Limits(4, 0, 4, 0, 0, 7), Limits(4, 1, 2, 0, 40, 7)}
=============================================================================
