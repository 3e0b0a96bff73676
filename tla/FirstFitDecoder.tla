-------------------------- MODULE FirstFitDecoder --------------------------
(***************************************************************************)
(* PlaceWithOrder of src/dsa/algorithms/placement_engine.cpp as the        *)
(* function the search solvers use it for: from an order of all classes to *)
(* a result.  PlacementEngine models how it is computed and is checked to  *)
(* implement GreedyPlacement; here every class takes the offset            *)
(* GreedyPlacement leaves to a first-fit engine, the lowest admissible one.*)
(*                                                                         *)
(* An order is a sequence of the representatives of the classes.  A result *)
(* is [status, solution, score]; solution is {} or {the solution}.         *)
(***************************************************************************)
EXTENDS PreparedProblem, Sequences

Representatives(p) == {Min(c) : c \in Classes(p)}

Orders(p) ==
    {o \in [1..Cardinality(Classes(p)) -> Representatives(p)] :
        \A i, j \in DOMAIN o : o[i] = o[j] => i = j}

FirstBirthOf(p, class) == Min(UNION {{x[1] : x \in p.live[b]} : b \in class})

\* DefaultPlacementOrder
DefaultBefore(p, c, d) ==
    \/ ClassSize(p, c) > ClassSize(p, d)
    \/ ClassSize(p, c) = ClassSize(p, d) /\ FirstBirthOf(p, c) < FirstBirthOf(p, d)
    \/ /\ ClassSize(p, c) = ClassSize(p, d) /\ FirstBirthOf(p, c) = FirstBirthOf(p, d)
       /\ Min(c) < Min(d)

\* The elements of S in a sequence, in its order.
Filter(s, S) ==
    LET kept[i \in 0..Len(s)] ==
            IF i = 0 THEN <<>>
            ELSE IF s[i] \in S THEN Append(kept[i - 1], s[i])
            ELSE kept[i - 1]
    IN  kept[Len(s)]

\* The stable partition of SortedSuperOrder's order: pins are placed first.
PlacementOrder(p, order) ==
    LET pinned == {b \in Representatives(p) : Pinned(p, ClassOf(p, b))}
    IN  Filter(order, pinned) \o Filter(order, Representatives(p) \ pinned)

\* No offset, or the one the class is placed at.
OffsetsFor(p, off, class) ==
    IF Pinned(p, class) THEN {PinOf(p, class).offset}
    ELSE {at \in 0..MaxUInt :
             /\ Admissible(p, off, class, at)
             /\ \A lower \in 0..(at - 1) : ~Admissible(p, off, class, lower)}

\* {} when a class has no offset, or {the placement}.
Placements(p, order) ==
    LET class(i) == ClassOf(p, PlacementOrder(p, order)[i])
        after[i \in 0..Len(order)] ==
            IF i = 0 THEN {<<>>}
            ELSE UNION {{Extend(off, class(i), at) : at \in OffsetsFor(p, off, class(i))} :
                           off \in after[i - 1]}
    IN  after[Len(order)]

PinOverflows(p) ==
    \E c \in Classes(p) : Pinned(p, c) /\ AddOverflows(PinOf(p, c).offset, ClassSize(p, c))

WorstScore(p) == [i \in DOMAIN p.terms |-> MaxUInt]

\* ResultScore, which every search solver defines for itself.
ResultScore(p, status, solution) ==
    IF solution # {} /\ status \in {"kFeasible", "kBestEffortNoFit"}
    THEN ObjectiveScore(p, CHOOSE sol \in solution : TRUE)
    ELSE WorstScore(p)

ResultOf(p, status, solution) ==
    [status |-> status, solution |-> solution, score |-> ResultScore(p, status, solution)]

Decode(p, order) ==
    IF ~PrepareAccepts(p) \/ PinOverflows(p) THEN ResultOf(p, "kInvalidProblem", {})
    ELSE IF FlexiblePools(p) THEN ResultOf(p, "kUnsupported", {})
    ELSE IF Placements(p, order) = {} THEN ResultOf(p, "kBestEffortNoFit", {})
    ELSE LET off == CHOOSE off \in Placements(p, order) : TRUE
         IN  ResultOf(p, Verdict(p, off), {SolutionOf(p, off)})
=============================================================================
