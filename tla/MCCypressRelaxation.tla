----------------------- MODULE MCCypressRelaxation -----------------------
(***************************************************************************)
(* Small problems for CypressRelaxation: four buffers whose mandatory      *)
(* graph is a path, a triangle or empty, in one or two pools, with         *)
(* capacities from none-fits to all-fit, alignments, reserved ranges,      *)
(* colocations and separations.                                            *)
(***************************************************************************)
EXTENDS CypressRelaxation

B == 1..4
Fn(a, b, c, d) == (1 :> a @@ 2 :> b @@ 3 :> c @@ 4 :> d)

MCSizes == {Fn(3, 2, 1, 2), Fn(2, 2, 3, 1)}
MCAlignments == {Fn(1, 1, 1, 1), Fn(2, 1, 4, 2)}
MCLives == {Fn({<<0, 2>>}, {<<1, 4>>}, {<<3, 5>>}, {<<4, 6>>}),
            Fn({<<0, 3>>}, {<<1, 3>>}, {<<2, 5>>}, {<<5, 6>>}),
            Fn({<<0, 1>>}, {<<1, 2>>}, {<<2, 3>>}, {<<3, 4>>})}
MCAllowed == {Fn({0}, {0}, {0}, {0}), Fn({0}, {1}, {0}, {1})}
MCReserved == {(0 :> {} @@ 1 :> {}), (0 :> {<<1, 2>>, <<4, 5>>} @@ 1 :> {<<0, 1>>})}
\* colocations and separations
MCConstraints == {<<{}, {}>>, <<{<<1, 3>>}, {}>>, <<{}, {<<1, 4>>}>>}

MCOrdinary ==
    {[buffers |-> B, pools |-> {0, 1}, size |-> s, alignment |-> a, live |-> l,
      allowed |-> w, capacity |-> (0 :> c @@ 1 :> 3), reserved |-> r, colocations |-> k[1],
      separations |-> k[2], exclusions |-> {}, pins |-> {}, penalties |-> <<>>,
      terms |-> <<"capacity_overflow">>] :
        s \in MCSizes, a \in MCAlignments, l \in MCLives, w \in MCAllowed,
        c \in {5, 8}, r \in MCReserved, k \in MCConstraints}

Plain == CHOOSE p \in MCOrdinary :
    p.allowed[2] = {0} /\ p.reserved[1] = {} /\ p.separations = {} /\ p.colocations = {}

\* Four classes that fill the address space: side by side, the last of them
\* runs past its end, by its size, by its alignment or by a reserved range.
MCLarge ==
    {[Plain EXCEPT !.size = Fn(16, 16, 16, 16), !.live = l, !.capacity[0] = 63,
                   !.alignment = Fn(1, 1, 1, x[1]), !.reserved[0] = x[2]] :
        l \in MCLives, x \in {<<1, {}>>, <<32, {}>>, <<16, {<<60, 62>>}>>}}

\* An invalid problem, unsupported ones, and a class without a pool.
MCRejected ==
    {[Plain EXCEPT !.size[1] = 0], [Plain EXCEPT !.capacity = (0 :> 5)],
     [Plain EXCEPT !.exclusions = {<<1, 2>>}],
     [Plain EXCEPT !.allowed[1] = {1}, !.colocations = {<<1, 4>>}]}

MCProblems == MCOrdinary \cup MCLarge \cup MCRejected

(***************************************************************************)
(* The top of the address space: a class that does not fit above the       *)
(* reserved range, and three classes in a row whose first two fill it.     *)
(***************************************************************************)
TopProblem(s, l, r) ==
    [buffers |-> 1..3, pools |-> {0}, size |-> s, alignment |-> (1 :> 1 @@ 2 :> 1 @@ 3 :> 1),
     live |-> l, allowed |-> (1 :> {0} @@ 2 :> {0} @@ 3 :> {0}), capacity |-> (0 :> MaxUInt),
     reserved |-> (0 :> r), colocations |-> {}, separations |-> {}, exclusions |-> {},
     pins |-> {}, penalties |-> <<>>, terms |-> <<"capacity_overflow">>]

MCTopProblems ==
    {TopProblem((1 :> 4 @@ 2 :> 1 @@ 3 :> 1),
                (1 :> {<<0, 2>>} @@ 2 :> {<<1, 3>>} @@ 3 :> {<<2, 4>>}), r) :
        r \in {{}, {<<0, 1>>}, {<<0, MaxUInt - 2>>}}}
        \cup {TopProblem((1 :> MaxUInt - 1 @@ 2 :> 1 @@ 3 :> 4),
                         (1 :> {<<0, 2>>} @@ 2 :> {<<2, 4>>} @@ 3 :> {<<1, 3>>}), {})}
=============================================================================
