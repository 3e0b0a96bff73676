------------------------ MODULE MCPlacementEngine ------------------------
(***************************************************************************)
(* Small problems for PlacementEngine: three buffers and two pools in an   *)
(* address space of eight bytes, with every combination of a few sizes,    *)
(* alignments, lifetimes, colocations, separations, exclusions, pins,      *)
(* reserved ranges and capacities.  Some are invalid, some have flexible   *)
(* pools, some have pins that contradict each other through a class.       *)
(***************************************************************************)
EXTENDS PlacementEngine, TLC

B == 1..3
Fn(x, y, z) == (1 :> x @@ 2 :> y @@ 3 :> z)

MCSizes == {Fn(2, 1, 3), Fn(3, 4, 1)}
MCAlignments == {Fn(1, 1, 1), Fn(2, 1, 4)}
MCLives == {Fn({<<0, 4>>}, {<<1, 3>>}, {<<2, 5>>}),
            Fn({<<0, 1>>, <<3, 4>>}, {<<1, 3>>}, {<<0, 2>>})}
MCAllowed == {Fn({0}, {0}, {0}), Fn({0}, {0, 1}, {0})}
Pin(b, q, at, ex) == [buffer |-> b, pool |-> q, offset |-> at, exclusive |-> ex]
MCPins == {{}, {Pin(3, 0, 0, FALSE)}, {Pin(2, 1, 2, TRUE)}, {Pin(1, 0, 2, TRUE)},
           {Pin(2, 0, 3, FALSE), Pin(3, 0, 4, FALSE)}, {Pin(1, 0, 4, FALSE)}}
MCReserved == {(0 :> {} @@ 1 :> {}),
               (0 :> {<<0, 1>>, <<4, 5>>} @@ 1 :> {<<6, 7>>}),
               (0 :> {<<2, 5>>, <<6, 7>>} @@ 1 :> {})}
\* colocations, separations and exclusions
MCConstraints == {<<{}, {}, {}>>, <<{<<1, 2>>}, {}, {}>>, <<{}, {<<1, 3>>}, {<<3, 2>>}>>,
                  <<{<<1, 2>>, <<2, 3>>}, {<<1, 3>>}, {}>>}

MCCandidates ==
    {[buffers |-> B, pools |-> {0, 1}, size |-> s, alignment |-> a, live |-> l,
      allowed |-> w, capacity |-> c, reserved |-> r, colocations |-> k[1],
      separations |-> k[2], exclusions |-> k[3], pins |-> pi, penalties |-> <<>>,
      terms |-> <<"capacity_overflow">>] :
        s \in MCSizes, a \in MCAlignments, l \in MCLives, w \in MCAllowed,
        c \in {<<>>, (0 :> 6)}, r \in MCReserved, k \in MCConstraints, pi \in MCPins}

\* The valid problems, and the invalid ones of one shape.
MCProblems ==
    {p \in MCCandidates :
        \/ ValidProblem(p)
        \/ p.capacity # <<>> /\ p.pins = {Pin(3, 0, 0, FALSE)}}

MCPriorities == {<<>>, <<3, 2>>}
=============================================================================
