------------------------- MODULE ReusePenaltySpace -------------------------
(***************************************************************************)
(* src/dsa/algorithms/reuse_penalty_search.cpp: the search space every     *)
(* reuse-penalty solver works on.  Its nodes are the colocation classes;   *)
(* two nodes of a pool may be hard neighbours, which never share an        *)
(* address, or soft ones, which pay when they do.                          *)
(*                                                                         *)
(* Nodes are ordered by representative, the order of the buffers of a      *)
(* problem that lists them by id.                                          *)
(***************************************************************************)
EXTENDS PreparedProblem, TLC

(***************************************************************************)
(* BuildReusePenaltySearchSpace                                            *)
(***************************************************************************)
PenaltiesBetween(p, c, d) ==
    {i \in DOMAIN p.penalties :
        {ClassOf(p, p.penalties[i].first), ClassOf(p, p.penalties[i].second)} = {c, d}}

SoftEdges(p) ==
    {edge \in Classes(p) \X Classes(p) :
        /\ edge[1] # edge[2] /\ PoolOf(p, edge[1]) = PoolOf(p, edge[2])
        /\ ~Blocks(p, edge[1], edge[2]) /\ PenaltiesBetween(p, edge[1], edge[2]) # {}}

SearchSpace(p) ==
    [pool |-> [c \in Classes(p) |-> PoolOf(p, c)],
     size |-> [c \in Classes(p) |-> ClassSize(p, c)],
     alignment |-> [c \in Classes(p) |-> ClassAlignment(p, c)],
     hard |-> {edge \in Classes(p) \X Classes(p) :
                 edge[1] # edge[2] /\ Blocks(p, edge[1], edge[2])},
     soft |-> [edge \in SoftEdges(p) |->
                  SaturatingSum(LAMBDA i : p.penalties[i].cost,
                                PenaltiesBetween(p, edge[1], edge[2]))]]

NodesOf(s, q) == {c \in DOMAIN s.pool : s.pool[c] = q}

\* The penalty of sharing an address, zero for nodes that are no neighbours.
SoftWeight(s, c, d) == IF <<c, d>> \in DOMAIN s.soft THEN s.soft[<<c, d>>] ELSE 0

SoftPairs(s, q) ==
    {edge \in DOMAIN s.soft : s.pool[edge[1]] = q /\ Min(edge[1]) < Min(edge[2])}

-----------------------------------------------------------------------------
(***************************************************************************)
(* A node next to a partial placement of its pool                          *)
(***************************************************************************)
\* Two nodes, of which the second is placed by off, share addresses.
Touches(s, off, c, at, d) == AddressRangesOverlap(at, s.size[c], off[d], s.size[d])

FitsReuseNodeAt(p, s, off, c, at) ==
    /\ ~AddOverflows(at, s.size[c])
    /\ s.pool[c] \in DOMAIN p.capacity => at + s.size[c] <= p.capacity[s.pool[c]]
    /\ ~OverlapsReserved(p, s.pool[c], at, s.size[c])
    /\ \A d \in DOMAIN off : <<c, d>> \in s.hard => ~Touches(s, off, c, at, d)

IncrementalReuseCost(s, off, c, at) ==
    SaturatingSum(LAMBDA d : s.soft[<<c, d>>],
                  {d \in DOMAIN off : <<c, d>> \in DOMAIN s.soft /\ Touches(s, off, c, at, d)})

\* Mutant of Supports: nothing is placed on top of a soft neighbour.
HardSupports(p, s, off, c) ==
    {0} \cup {r[2] : r \in p.reserved[s.pool[c]]}
        \cup {off[d] + s.size[d] : d \in {e \in DOMAIN off : <<c, e>> \in s.hard}}

Supports(p, s, off, c) ==
    {0} \cup {r[2] : r \in p.reserved[s.pool[c]]}
        \cup {off[d] + s.size[d] :
                 d \in {e \in DOMAIN off : <<c, e>> \in s.hard \cup DOMAIN s.soft}}

CanonicalOffsetsForNode(p, s, off, c) ==
    {AlignUp(x, s.alignment[c]) : x \in Supports(p, s, off, c)} \cap 0..MaxUInt

-----------------------------------------------------------------------------
(***************************************************************************)
(* The reference the answers are compared with: every placement, at        *)
(* canonical offsets or not, that the validator passes.                    *)
(***************************************************************************)
\* No address is above it: a pool without a capacity has the whole address space.
LastAddress(p) ==
    IF p.pools \subseteq DOMAIN p.capacity THEN Max({p.capacity[q] : q \in p.pools}) ELSE MaxUInt

PlacementsOf(p) ==
    {sol \in {SolutionOf(p, off) : off \in [Classes(p) -> 0..LastAddress(p)]} :
        ValidSolution(p, sol)}

\* The least of a nonempty set of scores.
BestScore(scores) == CHOOSE x \in scores : \A o \in scores : ~ScoreBefore(o, x)

BestOf(p, placements) ==
    LET scored == {<<sol, ObjectiveScore(p, sol)>> : sol \in placements}
        least == BestScore({x[2] : x \in scored})
    IN  {x[1] : x \in {y \in scored : y[2] = least}}
=============================================================================
