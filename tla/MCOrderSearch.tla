-------------------------- MODULE MCOrderSearch --------------------------
(***************************************************************************)
(* Small problems for OrderSearch: three and four classes whose seed order *)
(* is not the best one, with a pin, a colocation, reuse penalties, a       *)
(* capacity only some orders meet, and the structure of a PyPTO document.  *)
(***************************************************************************)
EXTENDS OrderSearch

Plain ==
    [buffers |-> 1..3, pools |-> {0, 1}, size |-> <<3, 2, 2>>, alignment |-> <<1, 1, 1>>,
     live |-> <<{<<2, 4>>}, {<<0, 3>>}, {<<3, 6>>}>>, allowed |-> <<{0}, {0}, {0}>>,
     capacity |-> (0 :> 6), reserved |-> (0 :> {} @@ 1 :> {}), colocations |-> {},
     separations |-> {}, exclusions |-> {}, pins |-> {}, penalties |-> <<>>,
     terms |-> <<"capacity_overflow", "total_peak">>, structured |-> TRUE,
     blocks |-> {}, aliases |-> {}]

Penalty(b, c) == [first |-> b, second |-> c, cost |-> 2]
Pin(b, at) == [buffer |-> b, pool |-> 0, offset |-> at, exclusive |-> FALSE]

\* Five buffers in four classes; two pools.
Wide ==
    [Plain EXCEPT !.buffers = 1..5, !.size = <<3, 2, 2, 3, 1>>, !.alignment = <<1, 2, 1, 1, 1>>,
                  !.live = <<{<<5, 7>>}, {<<0, 7>>}, {<<4, 9>>}, {<<2, 5>>}, {<<7, 8>>}>>,
                  !.allowed = <<{0}, {0}, {0}, {0}, {0}>>, !.colocations = {<<1, 5>>},
                  !.capacity = (0 :> 7)]

MCProblems ==
    {Plain,
     [Plain EXCEPT !.terms = <<"total_peak", "max_peak">>, !.penalties = <<Penalty(1, 2)>>],
     [Plain EXCEPT !.terms = <<"reuse", "max_peak">>,
                   !.penalties = <<Penalty(2, 3)>>, !.blocks = {<<1, 2>>}],
     [Plain EXCEPT !.blocks = {<<3, 1, 2>>}, !.aliases = {2}, !.structured = FALSE],
     [Plain EXCEPT !.pins = {Pin(2, 3)}, !.capacity = (0 :> 5)],
     [Plain EXCEPT !.pins = {Pin(2, 3), Pin(3, 0)}, !.blocks = {<<3, 1>>}],
     [Plain EXCEPT !.pins = {Pin(1, 0), Pin(2, 1)}],
     [Plain EXCEPT !.size = <<3, 0, 2>>],
     [Plain EXCEPT !.terms = <<"bank_cost">>],
     [Plain EXCEPT !.allowed = <<{0}, {1}, {0}>>, !.colocations = {<<1, 2>>}],
     [Plain EXCEPT !.buffers = {1}, !.size = <<3>>, !.alignment = <<1>>, !.live = <<{<<0, 1>>}>>,
                   !.allowed = <<{0}>>],
     [Wide EXCEPT !.blocks = {<<4, 5, 2>>}, !.aliases = {5, 3},
                  !.penalties = <<Penalty(5, 4)>>]}

Option(solver, max, restarts, limit, scale, target) ==
    [solver |-> solver, maxIterations |-> max, restarts |-> restarts,
     stagnationLimit |-> limit, scale |-> scale, target |-> target]

MCOptions ==
    {Option(s, x[1], x[2], x[3], 0, {}) :
        s \in {"local_search", "pypto_structured_search"},
        x \in {<<1, 2, 1>>, <<5, 2, 1>>, <<6, 2, 2>>, <<4, 0, 1>>, <<4, 3, 0>>, <<4, 9, 1>>}}
        \cup {Option("tvm_hill_climb", x[1], 0, 0, x[2], x[3]) :
                 x \in {<<0, 50, {}>>, <<3, 50, {}>>, <<3, 0, {}>>, <<3, 50, {5}>>}}
=============================================================================
