------------------------- MODULE HittingSetMaster -------------------------
(***************************************************************************)
(* ExactHittingSetMaster of src/dsa/algorithms/reuse_penalty_exact_solvers *)
(* .cpp: the cheapest set of soft edges that hits every core, by           *)
(* depth-first branch and bound over the edges of a smallest core that is  *)
(* not hit yet.  The recursion is a stack with one frame for each call of  *)
(* Search: the edge the caller selected for it, the cost it was called     *)
(* with and the choices its loop has still to make.  The cores are a set:  *)
(* which of several smallest ones comes first in the vector is left open.  *)
(***************************************************************************)
EXTENDS HittingSets, DsaModel, SequencesExt

CONSTANTS Weight,           \* the weights of the soft edges
          CoreFamilies,     \* the sets of cores the master is called with
          NodeLimits        \* node_limit, zero for none

ASSUME WeightAssumption ==
    /\ Weight \in [Edges -> 0..MaxUInt]
    /\ Cost[{}] = 0
    /\ \A s \in SUBSET Edges : \A e \in Edges \ s :
          Cost[s \cup {e}] = SaturatingAdd(Cost[s], Weight[e])

ASSUME MasterAssumption ==
    /\ CoreFamilies \subseteq SUBSET ((SUBSET Edges) \ {{}})
    /\ NodeLimits \subseteq Nat

VARIABLES
    cores, nodeLimit,
    stack,          \* the calls of Search in progress
    entering,       \* the last of them has only begun
    selected,       \* selected_
    best,           \* {} or {[edges, cost]}: best_selected_ and best_cost_, if found_
    nodes,          \* search_nodes_
    limitHit

vars == <<cores, nodeLimit, stack, entering, selected, best, nodes, limitHit>>

Frame == [via : SUBSET Edges, cost : 0..MaxUInt, choices : SUBSET Edges]

Top == Last(stack)

\* The stack whose last loop has these choices left.
WithChoices(choices) == [stack EXCEPT ![Len(stack)].choices = choices]

Call(via, cost) == [via |-> via, cost |-> cost, choices |-> {}]

Init ==
    /\ cores \in CoreFamilies /\ nodeLimit \in NodeLimits
    /\ stack = <<Call({}, 0)>> /\ entering = TRUE
    /\ selected = {} /\ best = {} /\ nodes = 0 /\ limitHit = FALSE

\* Mutant of Return: selected_[edge] is not reset.
ReturnDirty ==
    /\ stack' = Front(stack) /\ entering' = FALSE
    /\ UNCHANGED selected

\* Search returns, and its caller takes the edge back.
Return ==
    /\ stack' = Front(stack) /\ entering' = FALSE
    /\ selected' = selected \ Top.via

-----------------------------------------------------------------------------
Unhit == {c \in cores : ~Hits(selected, c)}

SmallestUnhit == {c \in Unhit : \A d \in Unhit : Cardinality(c) <= Cardinality(d)}

\* The order of std::set<std::size_t>.
LexicographicallyBefore(s, t) ==
    /\ s # t
    /\ LET first == Min((s \ t) \cup (t \ s))
           longer(u) == \E e \in u : e > first
       IN  IF first \in s THEN longer(t) ELSE ~longer(s)

Improves(edges, cost) ==
    \A kept \in best :
        \/ cost < kept.cost
        \/ cost = kept.cost /\ LexicographicallyBefore(edges, kept.edges)

AtLimit == nodeLimit # 0 /\ nodes >= nodeLimit

\* Mutant of Bounded: a call of equal cost is cut off too.
BoundedTight == \E kept \in best : Top.cost >= kept.cost

Bounded == \E kept \in best : Top.cost > kept.cost

HitLimit ==
    /\ stack # <<>> /\ entering /\ AtLimit
    /\ limitHit' = TRUE
    /\ Return
    /\ UNCHANGED <<cores, nodeLimit, best, nodes>>

Prune ==
    /\ stack # <<>> /\ entering /\ ~AtLimit /\ Bounded
    /\ nodes' = nodes + 1
    /\ Return
    /\ UNCHANGED <<cores, nodeLimit, best, limitHit>>

Leaf ==
    /\ stack # <<>> /\ entering /\ ~AtLimit /\ ~Bounded /\ Unhit = {}
    /\ nodes' = nodes + 1
    /\ best' = IF Improves(selected, Top.cost)
               THEN {[edges |-> selected, cost |-> Top.cost]} ELSE best
    /\ Return
    /\ UNCHANGED <<cores, nodeLimit, limitHit>>

\* Mutant of Branch: the cheapest edge of the core is the only choice.
BranchGreedy ==
    /\ stack # <<>> /\ entering /\ ~AtLimit /\ ~Bounded
    /\ nodes' = nodes + 1
    /\ \E unhit \in SmallestUnhit :
          stack' = WithChoices({e \in unhit : \A f \in unhit : Weight[e] <= Weight[f]})
    /\ entering' = FALSE
    /\ UNCHANGED <<cores, nodeLimit, selected, best, limitHit>>

Branch ==
    /\ stack # <<>> /\ entering /\ ~AtLimit /\ ~Bounded
    /\ nodes' = nodes + 1
    /\ \E unhit \in SmallestUnhit : stack' = WithChoices(unhit)
    /\ entering' = FALSE
    /\ UNCHANGED <<cores, nodeLimit, selected, best, limitHit>>

\* e comes next in the sort by (weight, index).
IsCheapest(e, choices) ==
    \A f \in choices : Weight[e] < Weight[f] \/ (Weight[e] = Weight[f] /\ e <= f)

Descend ==
    /\ stack # <<>> /\ ~entering
    /\ \E e \in Top.choices :
          /\ IsCheapest(e, Top.choices)
          /\ selected' = selected \cup {e}
          /\ stack' = Append(WithChoices(Top.choices \ {e}),
                             Call({e}, SaturatingAdd(Top.cost, Weight[e])))
    /\ entering' = TRUE
    /\ UNCHANGED <<cores, nodeLimit, best, nodes, limitHit>>

Exhausted ==
    /\ stack # <<>> /\ ~entering /\ Top.choices = {}
    /\ Return
    /\ UNCHANGED <<cores, nodeLimit, best, nodes, limitHit>>

Terminated == stack = <<>> /\ UNCHANGED vars

Next ==
    \/ HitLimit \/ Prune \/ Leaf \/ Branch
    \/ Descend \/ Exhausted
    \/ Terminated

Spec == Init /\ [][Next]_vars

-----------------------------------------------------------------------------
(***************************************************************************)
(* Properties                                                              *)
(***************************************************************************)
\* The edges selected for the first n calls of a stack.
Path(calls, n) == UNION {calls[i].via : i \in 1..n}

PathTo(n) == Path(stack, n)

\* Every variable has its type.
TypeOK ==
    /\ cores \in SUBSET ((SUBSET Edges) \ {{}}) /\ nodeLimit \in Nat
    /\ stack \in Seq(Frame) /\ entering \in BOOLEAN
    /\ selected \in SUBSET Edges
    /\ \A kept \in best : best = {kept} /\ kept \in [edges : SUBSET Edges, cost : 0..MaxUInt]
    /\ nodes \in Nat /\ limitHit \in BOOLEAN
    /\ entering => stack # <<>>

\* selected_ is exactly the edges of the calls in progress, each selected by
\* one of them, and each call knows the cost of its own: the search undoes what
\* it did, and when it returns nothing is selected.
PathInv ==
    /\ selected = PathTo(Len(stack))
    /\ \A i, j \in 1..Len(stack) : i # j => stack[i].via \cap stack[j].via = {}
    /\ \A i \in 1..Len(stack) : stack[i].cost = Cost[PathTo(i)]
    /\ \A i \in 1..Len(stack) : stack[i].choices \cap PathTo(i) = {}
    /\ entering => Top.choices = {}

\* What was found hits every core and costs what it says, also at the limit.
BestHits ==
    \A kept \in best : kept.edges \in HittingSetsOf(cores) /\ kept.cost = Cost[kept.edges]

\* h contains the path to a choice that has still to be made.
ToReach(h) ==
    \/ stack # <<>> /\ entering /\ selected \subseteq h
    \/ \E i \in 1..Len(stack) : PathTo(i) \subseteq h /\ stack[i].choices \cap h # {}

\* No cheaper hitting set is lost: one that beats the best found so far
\* has still to be reached.
NothingLost ==
    ~limitHit =>
        \A h \in HittingSetsOf(cores) :
            (\E kept \in best : kept.cost <= Cost[h]) \/ ToReach(h)

\* h has no superfluous edge.
Irredundant(h) == \A e \in h : h \ {e} \notin HittingSetsOf(cores)

\* The best found is cheaper than h, or as cheap and not after it.
Settled(h) ==
    \E kept \in best :
        \/ kept.cost < Cost[h]
        \/ kept.cost = Cost[h] /\ ~LexicographicallyBefore(h, kept.edges)

\* Nor is one of equal cost that comes first.
FirstNotLost ==
    ~limitHit => \A h \in HittingSetsOf(cores) : Irredundant(h) => Settled(h) \/ ToReach(h)

IInv == TypeOK /\ PathInv /\ BestHits /\ NothingLost /\ FirstNotLost

\* The master that returns below its limit has a minimum-cost hitting set.
MinimumFound ==
    stack = <<>> /\ ~limitHit => \E kept \in best : kept.edges \in MinimumHittingSets(cores)

\* No minimum hitting set without a superfluous edge comes before the one it has, and
\* that one has a superfluous edge only if the edge is free or the cost saturated.  When
\* edges cost something and the sums do not saturate it is therefore the first of those
\* sets, whichever smallest core was branched on.  A free edge may stay selected, and
\* then that choice shows: over cores {0, 1} and {1, 2} with edge 0 free and the others of
\* equal weight, it has {0, 1} when the first of them is branched on first, else {0, 2}.
FirstOfEquals ==
    stack = <<>> /\ ~limitHit =>
        \A kept \in best :
            /\ \A h \in MinimumHittingSets(cores) :
                   Irredundant(h) => ~LexicographicallyBefore(h, kept.edges)
            /\ kept.cost < MaxUInt =>
                   \A e \in kept.edges :
                       Weight[e] > 0 => kept.edges \ {e} \notin HittingSetsOf(cores)
=============================================================================
