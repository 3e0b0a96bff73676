-------------------------- MODULE GreedyPlacement --------------------------
(***************************************************************************)
(* What the placement engine promises, without its scans, its order or its *)
(* priority list.  Classes are placed one at a time and stay where they    *)
(* are.  A pinned class goes to its pin; every other class waits for the   *)
(* pinned ones and goes to an admissible offset, aligned and clear of      *)
(* everything that blocks it, and under first fit to the lowest.  A first- *)
(* fit placement is abandoned only when some class has no admissible       *)
(* offset at all.                                                          *)
(***************************************************************************)
EXTENDS PreparedProblem

VARIABLES problem,      \* the problem to place
          strategy,     \* which admissible offset is taken
          offset,       \* offset of each placed class
          status        \* status of the DsaResult, "none" until the end

Strategies == {"kFirstFit", "kXlaSpatialBestFit"}

Outcomes == {"kFeasible", "kInfeasibleProven", "kBestEffortNoFit",
             "kUnsupported", "kInvalidProblem"}

gvars == <<problem, strategy, offset, status>>

Unplaced == Classes(problem) \ DOMAIN offset

PinsPlaced == \A d \in Unplaced : ~Pinned(problem, d)

GreedyInit ==
    /\ strategy \in Strategies
    /\ offset = [c \in {} |-> 0]
    /\ status = "none"

PlaceAt(class, at) ==
    /\ status = "none"
    /\ IF Pinned(problem, class) THEN at = PinOf(problem, class).offset
       ELSE /\ PinsPlaced
            /\ Admissible(problem, offset, class, at)
            /\ strategy = "kFirstFit" =>
                   \A lower \in 0..(at - 1) : ~Admissible(problem, offset, class, lower)
    /\ offset' = Extend(offset, class, at)
    /\ UNCHANGED <<problem, strategy, status>>

MayEnd(s) ==
    \/ s = "kInvalidProblem" /\ ~PrepareAccepts(problem)
    \/ /\ s = "kInvalidProblem"
       /\ \E class \in Unplaced :
              /\ Pinned(problem, class)
              /\ AddOverflows(PinOf(problem, class).offset, ClassSize(problem, class))
    \/ s = "kUnsupported" /\ FlexiblePools(problem)
    \/ s = "kBestEffortNoFit" /\ strategy = "kXlaSpatialBestFit"
    \/ /\ s = "kBestEffortNoFit"
       /\ \E class \in Unplaced :
              ~Pinned(problem, class)
              /\ \A at \in 0..MaxUInt : ~Admissible(problem, offset, class, at)
    \/ Unplaced = {} /\ s = Verdict(problem, offset)

End(s) ==
    /\ status = "none" /\ MayEnd(s)
    /\ status' = s
    /\ UNCHANGED <<problem, strategy, offset>>

GreedyNext ==
    \/ \E class \in Unplaced : \E at \in 0..MaxUInt : PlaceAt(class, at)
    \/ \E s \in Outcomes : End(s)

GreedySpec == GreedyInit /\ [][GreedyNext]_gvars
=============================================================================
