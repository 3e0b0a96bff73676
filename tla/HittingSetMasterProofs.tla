---------------------- MODULE HittingSetMasterProofs ----------------------
(***************************************************************************)
(* The branch and bound of the master returns a minimum-cost hitting set   *)
(* below its limit, for every set of weighted edges and every set of       *)
(* cores; no such set without a superfluous edge comes before it.  IInv is *)
(* inductive; its parts NothingLost and FirstNotLost say which hitting     *)
(* sets the search has still to reach, and the stack is empty at the end.  *)
(***************************************************************************)
EXTENDS HittingSetMaster, DsaModelProofs, SequenceTheorems

\* The last frame of a stack and the stack below it.
LEMMA StackTop ==
    ASSUME TypeOK, stack # <<>>
    PROVE  /\ Len(stack) \in Nat \ {0}
           /\ \A i \in 1..Len(stack) : stack[i] \in Frame
           /\ Top = stack[Len(stack)] /\ Top \in Frame
<1>1. stack \in Seq(Frame)
  BY DEF TypeOK
<1>2. Len(stack) \in Nat \ {0} /\ \A i \in 1..Len(stack) : stack[i] \in Frame
  BY <1>1
<1>3. Len(stack) \in 1..Len(stack)
  BY <1>2
<1> QED
  BY <1>2, <1>3 DEF Top, Last

\* What Return leaves on the stack.
LEMMA Popped ==
    ASSUME TypeOK, stack # <<>>, stack' = Front(stack)
    PROVE  /\ stack' \in Seq(Frame) /\ Len(stack') = Len(stack) - 1
           /\ \A i \in 1..Len(stack') : stack'[i] = stack[i]
<1> DEFINE n == Len(stack) - 1
<1>1. n \in Nat /\ \A i \in 1..n : stack[i] \in Frame
  BY StackTop
<1>2. stack' = SubSeq(stack, 1, n)
  BY DEF Front
<1>3. /\ SubSeq(stack, 1, n) \in Seq(Frame)
      /\ Len(SubSeq(stack, 1, n)) = n
      /\ \A i \in 1..n : SubSeq(stack, 1, n)[i] = stack[i]
  <2> HIDE DEF n
  <2>1. \A i \in 1..n : stack[1 + i - 1] = stack[i]
    BY <1>1
  <2>2. Len(SubSeq(stack, 1, n)) = IF 1 <= n THEN n - 1 + 1 ELSE 0
    BY <1>1, SubSeqProperties
  <2>3. SubSeq(stack, 1, n) \in Seq(Frame)
    BY <1>1, SubSeqProperties
  <2>4. \A i \in 1..(n - 1 + 1) : SubSeq(stack, 1, n)[i] = stack[1 + i - 1]
    BY <1>1, SubSeqProperties
  <2> QED
    BY <1>1, <2>1, <2>2, <2>3, <2>4
<1> QED
  BY <1>2, <1>3

\* What Branch leaves on the stack.
LEMMA Branched ==
    ASSUME TypeOK, stack # <<>>, NEW choices \in SUBSET Edges
    PROVE  LET calls == WithChoices(choices)
           IN  /\ calls \in Seq(Frame) /\ Len(calls) = Len(stack)
               /\ \A i \in 1..Len(stack) :
                      /\ calls[i].via = stack[i].via /\ calls[i].cost = stack[i].cost
                      /\ calls[i].choices = IF i = Len(stack) THEN choices ELSE stack[i].choices
<1> DEFINE n == Len(stack)
<1>1. stack \in Seq(Frame) /\ n \in 1..Len(stack) /\ stack[n] \in Frame
  BY StackTop DEF TypeOK
<1>2. [stack[n] EXCEPT !.choices = choices] \in Frame
  BY <1>1 DEF Frame
<1> DEFINE calls == WithChoices(choices)
<1>3. calls = [stack EXCEPT ![n] = [stack[n] EXCEPT !.choices = choices]]
  BY <1>1 DEF WithChoices
<1>4. /\ calls \in Seq(Frame) /\ Len(calls) = Len(stack)
      /\ calls[n] = [stack[n] EXCEPT !.choices = choices]
      /\ \A i \in 1..Len(stack) : i # n => calls[i] = stack[i]
  <2> HIDE DEF calls
  <2> QED
    BY <1>1, <1>2, <1>3, ExceptSeq
<1> HIDE DEF calls
<1>5. /\ calls \in Seq(Frame) /\ Len(calls) = Len(stack)
      /\ \A i \in 1..Len(stack) :
             /\ calls[i].via = stack[i].via /\ calls[i].cost = stack[i].cost
             /\ calls[i].choices = IF i = Len(stack) THEN choices ELSE stack[i].choices
  BY <1>1, <1>4 DEF Frame
<1> QED
  BY <1>5 DEF calls

\* What a call leaves on the stack, after its caller's loop has gone on.
LEMMA Pushed ==
    ASSUME TypeOK, stack # <<>>, NEW choices \in SUBSET Edges, NEW f \in Frame,
           stack' = Append(WithChoices(choices), f)
    PROVE  /\ stack' \in Seq(Frame) /\ Len(stack') = Len(stack) + 1
           /\ stack'[Len(stack')] = f
           /\ \A i \in 1..Len(stack) :
                  /\ stack'[i].via = stack[i].via /\ stack'[i].cost = stack[i].cost
                  /\ stack'[i].choices = IF i = Len(stack) THEN choices ELSE stack[i].choices
<1> DEFINE below == WithChoices(choices)
<1>1. /\ below \in Seq(Frame) /\ Len(below) = Len(stack)
      /\ \A i \in 1..Len(stack) :
             /\ below[i].via = stack[i].via /\ below[i].cost = stack[i].cost
             /\ below[i].choices = IF i = Len(stack) THEN choices ELSE stack[i].choices
  BY Branched
<1> HIDE DEF below
<1>2. /\ Append(below, f) \in Seq(Frame)
      /\ Len(Append(below, f)) = Len(below) + 1
      /\ \A i \in 1..Len(below) : Append(below, f)[i] = below[i]
      /\ Append(below, f)[Len(below) + 1] = f
  BY <1>1, AppendProperties
<1>3. stack' = Append(below, f)
  BY DEF below
<1> QED
  BY <1>1, <1>2, <1>3

\* A path depends on the edges of its frames only.
LEMMA SamePath ==
    ASSUME NEW s, NEW t, NEW n \in Nat, \A i \in 1..n : s[i].via = t[i].via
    PROVE  \A i \in 0..n : Path(s, i) = Path(t, i)
  BY DEF Path

\* A path is the path to the frame before and the edge of the last frame.
LEMMA LongerPath ==
    ASSUME NEW s, NEW n \in Nat
    PROVE  Path(s, n + 1) = Path(s, n) \cup s[n + 1].via
<1>1. 1..(n + 1) = (1..n) \cup {n + 1}
  OBVIOUS
<1> QED
  BY <1>1 DEF Path

\* The frame Descend pushes.
LEMMA CallTyped ==
    ASSUME TypeOK, stack # <<>>, NEW e \in Top.choices
    PROVE  /\ e \in Edges /\ Top.choices \ {e} \in SUBSET Edges
           /\ Call({e}, SaturatingAdd(Top.cost, Weight[e])) \in Frame
<1>1. Top.choices \in SUBSET Edges /\ Top.cost \in 0..MaxUInt
  BY StackTop DEF Frame
<1>2. e \in Edges /\ Weight[e] \in 0..MaxUInt
  BY <1>1, WeightAssumption
<1>3. SaturatingAdd(Top.cost, Weight[e]) \in 0..MaxUInt
  BY <1>1, <1>2, SaturatingAddTyped
<1> QED
  BY <1>1, <1>2, <1>3 DEF Call, Frame

\* The core Branch chooses from is one that is not hit.
LEMMA UnhitTyped ==
    ASSUME TypeOK, NEW unhit \in SmallestUnhit
    PROVE  unhit \in cores /\ unhit \in SUBSET Edges /\ unhit \cap selected = {}
  BY DEF TypeOK, SmallestUnhit, Unhit, Hits

Returning == HitLimit \/ Prune \/ Leaf \/ Exhausted

\* Every step keeps the type of every variable.
LEMMA NextTypeOK == TypeOK /\ [Next]_vars => TypeOK'
<1> SUFFICES ASSUME TypeOK, [Next]_vars PROVE TypeOK'
  OBVIOUS
<1>1. CASE UNCHANGED vars
  BY <1>1 DEF TypeOK, vars
<1>2. CASE Returning
  <2>1. stack # <<>> /\ stack' = Front(stack) /\ selected' \subseteq selected /\ entering' = FALSE
    BY <1>2 DEF Returning, HitLimit, Prune, Leaf, Exhausted, Return
  <2>2. stack' \in Seq(Frame)
    BY <2>1, Popped
  <2>3. nodes' \in Nat
    BY <1>2 DEF TypeOK, Returning, HitLimit, Prune, Leaf, Exhausted
  <2>7. limitHit' \in BOOLEAN /\ UNCHANGED <<cores, nodeLimit>>
    BY <1>2, Zenon DEF TypeOK, Returning, HitLimit, Prune, Leaf, Exhausted
  <2>4. best' = best \/ best' = {[edges |-> selected, cost |-> Top.cost]}
    BY <1>2 DEF Returning, HitLimit, Prune, Leaf, Exhausted
  <2>5. Top.cost \in 0..MaxUInt
    BY <2>1, StackTop DEF Frame
  <2>6. \A kept \in best' :
            best' = {kept} /\ kept \in [edges : SUBSET Edges, cost : 0..MaxUInt]
    BY <2>4, <2>5 DEF TypeOK
  <2> QED
    BY <2>1, <2>2, <2>3, <2>6, <2>7 DEF TypeOK
<1>3. CASE Branch
  <2>1. PICK unhit \in SmallestUnhit : stack' = WithChoices(unhit)
    BY <1>3 DEF Branch
  <2>2. stack' \in Seq(Frame)
    BY <1>3, <2>1, UnhitTyped, Branched DEF Branch
  <2>3. nodes' \in Nat
    BY <1>3 DEF TypeOK, Branch
  <2>4. entering' = FALSE /\ UNCHANGED <<cores, nodeLimit, selected, best, limitHit>>
    BY <1>3, Zenon DEF Branch
  <2> QED
    BY <2>2, <2>3, <2>4 DEF TypeOK
<1>4. CASE Descend
  <2>1. PICK e \in Top.choices :
            /\ selected' = selected \cup {e}
            /\ stack' = Append(WithChoices(Top.choices \ {e}),
                               Call({e}, SaturatingAdd(Top.cost, Weight[e])))
    BY <1>4 DEF Descend
  <2>2. /\ e \in Edges
        /\ stack' \in Seq(Frame) /\ Len(stack') = Len(stack) + 1
    BY <1>4, <2>1, CallTyped, Pushed DEF Descend
  <2>3. stack' # <<>>
    BY <1>4, <2>2, StackTop DEF Descend
  <2> QED
    BY <1>4, <2>1, <2>2, <2>3 DEF TypeOK, Descend
<1>5. CASE Terminated
  BY <1>5 DEF TypeOK, Terminated, vars
<1> QED
  BY <1>1, <1>2, <1>3, <1>4, <1>5 DEF Next, Returning

\* The path below the last frame, and the whole path.
LEMMA PathParts ==
    ASSUME TypeOK, PathInv, stack # <<>>
    PROVE  /\ selected = PathTo(Len(stack) - 1) \cup Top.via
           /\ PathTo(Len(stack) - 1) \cap Top.via = {}
           /\ Top.cost = Cost[selected]
           /\ Top.choices \cap selected = {}
<1> DEFINE n == Len(stack) - 1
<1>1. n \in Nat /\ n + 1 = Len(stack) /\ n + 1 \in 1..Len(stack) /\ Top = stack[n + 1]
  BY StackTop
<1> HIDE DEF n
<1>2. PathTo(n + 1) = PathTo(n) \cup stack[n + 1].via
  BY <1>1, LongerPath DEF PathTo
<1>3. \A i \in 1..n : stack[i].via \cap stack[n + 1].via = {}
  BY <1>1 DEF PathInv
<1>4. PathTo(n) \cap stack[n + 1].via = {}
  BY <1>3 DEF PathTo, Path
<1>5. Top.cost = Cost[selected] /\ Top.choices \cap selected = {}
  BY <1>1 DEF PathInv
<1> QED
  BY <1>1, <1>2, <1>4, <1>5 DEF PathInv, n

\* Paths below a call that returns stay what they are.
LEMMA PathsAfterReturn ==
    ASSUME TypeOK, PathInv, stack # <<>>, Return
    PROVE  /\ selected' = PathTo(Len(stack) - 1)
           /\ Len(stack') = Len(stack) - 1
           /\ \A i \in 1..Len(stack') : stack'[i] = stack[i] /\ i \in 1..Len(stack)
           /\ \A i \in 0..Len(stack') : PathTo(i)' = PathTo(i)
<1>1. Len(stack') = Len(stack) - 1 /\ \A i \in 1..Len(stack') : stack'[i] = stack[i]
  BY Popped DEF Return
<1>2. Len(stack') \in Nat /\ \A i \in 1..Len(stack') : i \in 1..Len(stack)
  BY <1>1, StackTop
<1>3. \A i \in 0..Len(stack') : Path(stack', i) = Path(stack, i)
  BY <1>1, <1>2, SamePath
<1>4. selected' = PathTo(Len(stack) - 1)
  BY PathParts DEF Return
<1> QED
  BY <1>1, <1>2, <1>3, <1>4 DEF PathTo

\* Paths above which nothing changed but the choices stay what they are.
LEMMA PathsAfterCall ==
    ASSUME TypeOK, stack # <<>>, \A i \in 1..Len(stack) : stack'[i].via = stack[i].via
    PROVE  \A i \in 0..Len(stack) : PathTo(i)' = PathTo(i)
<1>1. Len(stack) \in Nat
  BY StackTop
<1> QED
  BY <1>1, SamePath DEF PathTo

\* The search undoes what it did.
LEMMA NextPathInv == TypeOK /\ PathInv /\ [Next]_vars => PathInv'
<1> SUFFICES ASSUME TypeOK, PathInv, [Next]_vars PROVE PathInv'
  OBVIOUS
<1>1. CASE UNCHANGED vars \/ Terminated
  BY <1>1 DEF PathInv, PathTo, vars, Terminated, Top
<1>2. CASE Returning
  <2>1. stack # <<>> /\ Return
    BY <1>2 DEF Returning, HitLimit, Prune, Leaf, Exhausted
  <2>2. /\ selected' = PathTo(Len(stack) - 1) /\ Len(stack') = Len(stack) - 1
        /\ \A i \in 1..Len(stack') : stack'[i] = stack[i] /\ i \in 1..Len(stack)
        /\ \A i \in 0..Len(stack') : PathTo(i)' = PathTo(i)
    BY <2>1, PathsAfterReturn
  <2>3. Len(stack') \in 0..Len(stack')
    BY <2>1, <2>2, StackTop
  <2>4. selected' = PathTo(Len(stack))'
    BY <2>2, <2>3
  <2>5. ~entering'
    BY <2>1, Zenon DEF Return
  <2>6. \A i \in 1..Len(stack') : PathTo(i)' = PathTo(i)
    BY <2>2
  <2> QED
    BY <2>2, <2>4, <2>5, <2>6 DEF PathInv
<1>3. CASE Branch
  <2>1. stack # <<>> /\ selected' = selected
    BY <1>3 DEF Branch
  <2>2. ~entering'
    BY <1>3, Zenon DEF Branch
  <2>3. PICK unhit \in SmallestUnhit : stack' = WithChoices(unhit)
    BY <1>3 DEF Branch
  <2>4. unhit \in SUBSET Edges /\ unhit \cap selected = {}
    BY <2>3, UnhitTyped
  <2>5. /\ Len(stack') = Len(stack)
        /\ \A i \in 1..Len(stack) :
               /\ stack'[i].via = stack[i].via /\ stack'[i].cost = stack[i].cost
               /\ stack'[i].choices = IF i = Len(stack) THEN unhit ELSE stack[i].choices
    BY <2>1, <2>3, <2>4, Branched
  <2>6. \A i \in 0..Len(stack) : PathTo(i)' = PathTo(i)
    BY <2>1, <2>5, PathsAfterCall
  <2>7. \A i \in 1..Len(stack) : i \in 0..Len(stack) /\ Len(stack) \in 0..Len(stack)
    BY <2>1, StackTop
  <2>8. selected' = PathTo(Len(stack))'
    BY <2>1, <2>5, <2>6, StackTop DEF PathInv
  <2>9. \A i \in 1..Len(stack) : PathTo(i)' = PathTo(i)
    BY <2>6, <2>7
  <2>10. \A i \in 1..Len(stack) : stack'[i].choices \cap PathTo(i) = {}
    BY <2>4, <2>5 DEF PathInv
  <2> QED
    BY <2>2, <2>5, <2>8, <2>9, <2>10 DEF PathInv
<1>4. CASE Descend
  <2>1. stack # <<>>
    BY <1>4 DEF Descend
  <2>0. PICK n \in Nat : n = Len(stack)
    BY <2>1, StackTop
  <2>2. PICK e \in Top.choices :
            /\ selected' = selected \cup {e}
            /\ stack' = Append(WithChoices(Top.choices \ {e}),
                               Call({e}, SaturatingAdd(Top.cost, Weight[e])))
    BY <1>4 DEF Descend
  <2> DEFINE f == Call({e}, SaturatingAdd(Top.cost, Weight[e]))
  <2>3. e \in Edges /\ f \in Frame /\ Top.choices \ {e} \in SUBSET Edges
    BY <2>1, CallTyped
  <2>4. f.via = {e} /\ f.cost = SaturatingAdd(Top.cost, Weight[e]) /\ f.choices = {}
    BY DEF Call
  <2> HIDE DEF f
  <2>5. n \in Nat \ {0} /\ Top = stack[n]
    BY <2>0, <2>1, StackTop
  <2>6. /\ Len(stack') = n + 1 /\ stack'[n + 1] = f
        /\ \A i \in 1..n :
               /\ stack'[i].via = stack[i].via /\ stack'[i].cost = stack[i].cost
               /\ stack'[i].choices = IF i = n THEN Top.choices \ {e} ELSE stack[i].choices
    BY <2>0, <2>1, <2>2, <2>3, Pushed DEF f
  <2>7. \A i \in 0..n : PathTo(i)' = PathTo(i)
    BY <2>0, <2>1, <2>6, PathsAfterCall
  <2>8. PathTo(n + 1)' = PathTo(n)' \cup stack'[n + 1].via
    BY <2>5, LongerPath DEF PathTo
  <2>9. PathTo(n) = selected /\ PathTo(n)' = PathTo(n)
    BY <2>0, <2>5, <2>7 DEF PathInv
  <2>10. PathTo(n + 1)' = selected'
    BY <2>2, <2>4, <2>6, <2>8, <2>9
  <2>11. e \notin selected
    BY <2>1, PathParts
  <2>12. f.cost = Cost[selected']
    <3>1. selected \in SUBSET Edges /\ e \in Edges \ selected
      BY <2>3, <2>11 DEF TypeOK
    <3>2. Cost[selected \cup {e}] = SaturatingAdd(Cost[selected], Weight[e])
      BY <3>1, WeightAssumption
    <3>3. Top.cost = Cost[selected]
      BY <2>1, PathParts
    <3> QED
      BY <2>2, <2>4, <3>2, <3>3
  <2>13. \A i \in 1..n : stack[i].via \subseteq selected
    BY <2>9 DEF PathTo, Path
  <2>14. \A i \in 1..n : stack[i].via \cap f.via = {}
    BY <2>4, <2>11, <2>13
  <2>15. \A i \in 1..(n + 1) : i \in 1..n \/ i = n + 1
    BY <2>5
  <2>16. \A i \in 1..n : stack'[i].choices \cap PathTo(i)' = {}
    <3> TAKE i \in 1..n
    <3>1. PathTo(i)' = PathTo(i)
      BY <2>5, <2>7
    <3>2. stack'[i].choices \subseteq stack[i].choices
      BY <2>5, <2>6
    <3> QED
      BY <2>0, <3>1, <3>2 DEF PathInv
  <2>17. \A i \in 1..n : stack'[i].cost = Cost[PathTo(i)']
    <3> TAKE i \in 1..n
    <3>1. PathTo(i)' = PathTo(i)
      BY <2>5, <2>7
    <3> QED
      BY <2>0, <2>6, <3>1 DEF PathInv
  <2>18. \A i, j \in 1..(n + 1) : i # j => stack'[i].via \cap stack'[j].via = {}
    <3> TAKE i, j \in 1..(n + 1)
    <3>1. CASE i \in 1..n /\ j \in 1..n
      BY <2>0, <2>6, <3>1 DEF PathInv
    <3>2. CASE i = n + 1 \/ j = n + 1
      BY <2>6, <2>14, <2>15, <3>2
    <3> QED
      BY <2>15, <3>1, <3>2
  <2>19. selected' = PathTo(Len(stack))' /\ Top'.choices = {}
    BY <2>4, <2>6, <2>10 DEF Top, Last, PathTo
  <2>20. \A i \in 1..(n + 1) : /\ stack'[i].cost = Cost[PathTo(i)']
                               /\ stack'[i].choices \cap PathTo(i)' = {}
    BY <2>4, <2>6, <2>10, <2>12, <2>15, <2>16, <2>17
  <2> QED
    BY <2>6, <2>18, <2>19, <2>20 DEF PathInv
<1> QED
  BY <1>1, <1>2, <1>3, <1>4 DEF Next, Returning

\* Only complete hitting sets are kept.
LEMMA NextBestHits == TypeOK /\ PathInv /\ BestHits /\ [Next]_vars => BestHits'
<1> SUFFICES ASSUME TypeOK, PathInv, BestHits, [Next]_vars PROVE BestHits'
  OBVIOUS
<1>1. CASE Leaf
  <2>1. stack # <<>> /\ Unhit = {} /\ cores' = cores
    BY <1>1 DEF Leaf
  <2>2. best' = best \/ best' = {[edges |-> selected, cost |-> Top.cost]}
    BY <1>1 DEF Leaf
  <2>3. selected \in HittingSetsOf(cores)
    BY <2>1 DEF TypeOK, HittingSetsOf, Unhit
  <2>4. Top.cost = Cost[selected]
    BY <2>1, PathParts
  <2> QED
    BY <2>1, <2>2, <2>3, <2>4 DEF BestHits
<1>2. CASE UNCHANGED <<best, cores>>
  BY <1>2 DEF BestHits
<1> QED
  BY <1>1, <1>2 DEF Next, HitLimit, Prune, Branch, Descend, Exhausted, Terminated, vars

\* The best found never gets worse, and a leaf is no better than it.
LEMMA BestImproves ==
    ASSUME TypeOK, PathInv, BestHits, [Next]_vars, NEW h \in SUBSET Edges,
           \E kept \in best : kept.cost <= Cost[h]
    PROVE  \E kept \in best' : kept.cost <= Cost[h]
<1>1. PICK kept \in best : kept.cost <= Cost[h]
  OBVIOUS
<1>2. kept.cost \in Nat /\ Cost[h] \in Nat
  BY CostAssumption, MaxUIntAssumption DEF TypeOK
<1>3. CASE Leaf /\ Improves(selected, Top.cost)
  <2>1. best' = {[edges |-> selected, cost |-> Top.cost]} /\ Top.cost \in Nat
    BY <1>3, StackTop, MaxUIntAssumption DEF Leaf, Frame
  <2>2. Top.cost <= kept.cost
    BY <1>2, <1>3, <2>1 DEF Improves
  <2>3. Top.cost <= Cost[h]
    BY <1>1, <1>2, <2>1, <2>2
  <2> QED
    BY <2>1, <2>3
<1>4. CASE UNCHANGED best
  BY <1>4
<1> QED
  BY <1>3, <1>4 DEF Next, HitLimit, Prune, Leaf, Branch, Descend, Exhausted, Terminated, vars

\* What the search has still to reach stays so, but for a call that returns
\* because it was pruned or is a leaf: one that returns at the end of its loop
\* has no choice left, the core Branch chooses from is hit by every hitting set,
\* and Descend takes the path one edge further.
LEMMA ReachKept ==
    ASSUME TypeOK, PathInv, [Next]_vars, ~limitHit',
           NEW h \in HittingSetsOf(cores), ToReach(h)
    PROVE  ToReach(h)' \/ ((Prune \/ Leaf) /\ entering /\ selected \subseteq h)
<1>1. CASE UNCHANGED vars \/ Terminated
  BY <1>1 DEF ToReach, PathTo, vars, Terminated
<1>2. CASE Returning
  <2>1. stack # <<>> /\ Return /\ Top.choices = {}
    BY <1>2 DEF Returning, HitLimit, Prune, Leaf, Exhausted, PathInv
  <2>2. CASE entering /\ selected \subseteq h
    BY <1>2, <2>2 DEF Returning, HitLimit, Exhausted
  <2>3. CASE \E i \in 1..Len(stack) : PathTo(i) \subseteq h /\ stack[i].choices \cap h # {}
    <3>1. PICK i \in 1..Len(stack) : PathTo(i) \subseteq h /\ stack[i].choices \cap h # {}
      BY <2>3
    <3>2. i # Len(stack)
      BY <2>1, <3>1, StackTop
    <3>3. /\ Len(stack') = Len(stack) - 1
          /\ \A j \in 1..Len(stack') : stack'[j] = stack[j]
          /\ \A j \in 0..Len(stack') : PathTo(j)' = PathTo(j)
      BY <2>1, PathsAfterReturn
    <3>4. i \in 1..Len(stack')
      BY <2>1, <3>2, <3>3, StackTop
    <3>5. PathTo(i)' = PathTo(i) /\ stack'[i] = stack[i]
      BY <3>3, <3>4
    <3> QED
      BY <3>1, <3>4, <3>5 DEF ToReach
  <2> QED
    BY <2>2, <2>3 DEF ToReach
<1>3. CASE Branch
  <2>1. stack # <<>> /\ selected' = selected
    BY <1>3 DEF Branch
  <2>2. PICK unhit \in SmallestUnhit : stack' = WithChoices(unhit)
    BY <1>3 DEF Branch
  <2>3. unhit \in SUBSET Edges /\ unhit \cap h # {}
    BY <2>2, UnhitTyped DEF HittingSetsOf, Hits
  <2>4. /\ Len(stack') = Len(stack)
        /\ \A i \in 1..Len(stack) :
               /\ stack'[i].via = stack[i].via
               /\ stack'[i].choices = IF i = Len(stack) THEN unhit ELSE stack[i].choices
    BY <2>1, <2>2, <2>3, Branched
  <2>5. \A i \in 0..Len(stack) : PathTo(i)' = PathTo(i)
    BY <2>1, <2>4, PathsAfterCall
  <2>6. PICK n \in Nat \ {0} : n = Len(stack) /\ Top = stack[n]
    BY <2>1, StackTop
  <2>7. Top.choices = {} /\ PathTo(n) = selected
    BY <1>3, <2>6 DEF Branch, PathInv
  <2>8. CASE selected \subseteq h
    <3>1. n \in 1..Len(stack') /\ PathTo(n)' = PathTo(n) /\ stack'[n].choices = unhit
      BY <2>4, <2>5, <2>6
    <3> QED
      BY <2>3, <2>7, <2>8, <3>1 DEF ToReach
  <2>9. CASE \E i \in 1..Len(stack) : PathTo(i) \subseteq h /\ stack[i].choices \cap h # {}
    <3>1. PICK i \in 1..n : PathTo(i) \subseteq h /\ stack[i].choices \cap h # {}
      BY <2>6, <2>9
    <3>2. i # n
      BY <2>6, <2>7, <3>1
    <3>3. PathTo(i)' = PathTo(i) /\ stack'[i].choices = stack[i].choices
      BY <2>4, <2>5, <2>6, <3>2
    <3> QED
      BY <2>4, <2>6, <3>1, <3>3 DEF ToReach
  <2> QED
    BY <2>8, <2>9 DEF ToReach
<1>4. CASE Descend
  <2>1. stack # <<>>
    BY <1>4 DEF Descend
  <2>2. ~entering /\ entering'
    BY <1>4, Zenon DEF Descend
  <2>3. PICK e \in Top.choices :
            /\ selected' = selected \cup {e}
            /\ stack' = Append(WithChoices(Top.choices \ {e}),
                               Call({e}, SaturatingAdd(Top.cost, Weight[e])))
    BY <1>4 DEF Descend
  <2>4. PICK f \in Frame : f = Call({e}, SaturatingAdd(Top.cost, Weight[e]))
    BY <2>1, CallTyped
  <2>5. Top.choices \ {e} \in SUBSET Edges
    <3>1. Top.choices \in SUBSET Edges
      BY <2>1, CallTyped
    <3> QED
      BY <3>1
  <2>6. PICK n \in Nat \ {0} : n = Len(stack) /\ Top = stack[n]
    <3>1. Len(stack) \in Nat \ {0} /\ Top = stack[Len(stack)]
      BY <2>1, StackTop
    <3> QED
      BY <3>1
  <2>7. /\ Len(stack') = n + 1
        /\ \A i \in 1..n :
               /\ stack'[i].via = stack[i].via
               /\ stack'[i].choices = IF i = n THEN Top.choices \ {e} ELSE stack[i].choices
    <3> DEFINE choices == Top.choices \ {e}
    <3>1. choices \in SUBSET Edges /\ stack' = Append(WithChoices(choices), f)
      BY <2>3, <2>4, <2>5
    <3> HIDE DEF choices
    <3>2. /\ Len(stack') = Len(stack) + 1
          /\ \A i \in 1..Len(stack) :
                 /\ stack'[i].via = stack[i].via
                 /\ stack'[i].choices = IF i = Len(stack) THEN choices ELSE stack[i].choices
      BY <2>1, <3>1, Pushed
    <3> QED
      BY <2>6, <3>2 DEF choices
  <2>8. \A i \in 0..n : PathTo(i)' = PathTo(i)
    BY <2>1, <2>6, <2>7, PathsAfterCall
  <2>9. PICK i \in 1..n : PathTo(i) \subseteq h /\ stack[i].choices \cap h # {}
    BY <2>2, <2>6 DEF ToReach
  <2>10. i \in 1..Len(stack') /\ PathTo(i)' = PathTo(i)
    BY <2>6, <2>7, <2>8
  <2>11. CASE stack'[i].choices \cap h # {}
    BY <2>9, <2>10, <2>11 DEF ToReach
  <2>12. CASE stack'[i].choices \cap h = {}
    <3>1. i = n /\ e \in h
      BY <2>6, <2>7, <2>9, <2>12
    <3>2. PathTo(n) = selected
      BY <2>6 DEF PathInv
    <3>3. selected' \subseteq h
      BY <2>3, <2>9, <3>1, <3>2
    <3>4. stack' # <<>>
      BY <2>6, <2>7
    <3> QED
      BY <2>2, <3>3, <3>4 DEF ToReach
  <2> QED
    BY <2>11, <2>12
<1> QED
  BY <1>1, <1>2, <1>3, <1>4 DEF Next, Returning

\* A call that is pruned costs more than the best found; the path of a call
\* costs no more than a hitting set that contains it.
LEMMA CallBelow ==
    ASSUME TypeOK, PathInv, stack # <<>>, NEW h \in SUBSET Edges, selected \subseteq h
    PROVE  /\ Top.cost = Cost[selected] /\ Top.cost <= Cost[h]
           /\ Top.cost \in Nat /\ Cost[h] \in Nat
           /\ \A kept \in best : kept.cost \in Nat
  BY PathParts, CostAssumption, MaxUIntAssumption DEF TypeOK

\* No cheaper hitting set is lost.
LEMMA NextNothingLost == IInv /\ [Next]_vars => NothingLost'
<1> SUFFICES ASSUME IInv, [Next]_vars, ~limitHit', NEW h \in HittingSetsOf(cores')
             PROVE  (\E kept \in best' : kept.cost <= Cost[h]) \/ ToReach(h)'
  BY DEF NothingLost
<1>1. h \in HittingSetsOf(cores) /\ h \in SUBSET Edges /\ ~limitHit
  BY DEF Next, HitLimit, Prune, Leaf, Branch, Descend, Exhausted, Terminated, vars, HittingSetsOf
<1>2. CASE \E kept \in best : kept.cost <= Cost[h]
  BY <1>1, <1>2, BestImproves DEF IInv
<1>3. CASE ToReach(h) /\ ~((Prune \/ Leaf) /\ entering /\ selected \subseteq h)
  BY <1>1, <1>3, ReachKept DEF IInv
<1>4. CASE Prune /\ selected \subseteq h
  <2>1. stack # <<>> /\ best' = best /\ \E kept \in best : Top.cost > kept.cost
    BY <1>4 DEF Prune, Bounded
  <2>2. \E kept \in best : kept.cost <= Cost[h]
    BY <1>1, <1>4, <2>1, CallBelow DEF IInv
  <2> QED
    BY <2>1, <2>2
<1>5. CASE Leaf /\ selected \subseteq h
  <2>1. /\ stack # <<>>
        /\ best' = IF Improves(selected, Top.cost)
                   THEN {[edges |-> selected, cost |-> Top.cost]} ELSE best
    BY <1>5 DEF Leaf
  <2>2. /\ Top.cost <= Cost[h] /\ Top.cost \in Nat /\ Cost[h] \in Nat
        /\ \A kept \in best : kept.cost \in Nat
    BY <1>1, <1>5, <2>1, CallBelow DEF IInv
  <2>3. CASE Improves(selected, Top.cost)
    BY <2>1, <2>2, <2>3
  <2>4. CASE ~Improves(selected, Top.cost)
    <3>1. PICK kept \in best : ~(Top.cost < kept.cost)
      BY <2>4 DEF Improves
    <3>2. kept.cost <= Cost[h]
      BY <2>2, <3>1
    <3> QED
      BY <2>1, <2>4, <3>2
  <2> QED
    BY <2>3, <2>4
<1> QED
  BY <1>1, <1>2, <1>3, <1>4, <1>5 DEF IInv, NothingLost

\* The comparison of LexicographicallyBefore is decided at the least edge one
\* of two different sets does not have.
LEMMA FirstDifference ==
    ASSUME NEW s \in SUBSET Nat, NEW t \in SUBSET Nat, s # t
    PROVE  \E a \in (s \ t) \cup (t \ s) :
               /\ \A n \in Nat : n < a => (n \in s <=> n \in t)
               /\ a \in s => (LexicographicallyBefore(s, t) <=> \E e \in t : e > a)
               /\ a \in t => (LexicographicallyBefore(s, t) <=> ~\E e \in s : e > a)
<1> DEFINE D == (s \ t) \cup (t \ s)
<1>1. D \in SUBSET Nat /\ D # {}
  OBVIOUS
<1>2. Min(D) \in D /\ \A n \in D : Min(D) <= n
  <2> HIDE DEF D
  <2> QED
    BY <1>1, MinNatural
<1>3. PICK a \in D : a = Min(D)
  BY <1>2
<1>4. \A n \in Nat : n < a => (n \in s <=> n \in t)
  <2> SUFFICES ASSUME NEW n \in Nat, n < a, n \in D PROVE FALSE
    OBVIOUS
  <2>1. a <= n
    BY <1>2, <1>3
  <2> QED
    BY <1>1, <2>1
<1>5. a \in s => (LexicographicallyBefore(s, t) <=> \E e \in t : e > a)
  BY <1>3 DEF LexicographicallyBefore
<1>6. a \in t => (LexicographicallyBefore(s, t) <=> ~\E e \in s : e > a)
  BY <1>3 DEF LexicographicallyBefore
<1> QED
  BY <1>4, <1>5, <1>6

\* The order of std::set<std::size_t> is transitive.
LEMMA LexicographicTransitive ==
    ASSUME NEW s \in SUBSET Nat, NEW t \in SUBSET Nat, NEW u \in SUBSET Nat,
           LexicographicallyBefore(s, t), LexicographicallyBefore(t, u)
    PROVE  LexicographicallyBefore(s, u)
<1>1. s # t /\ t # u
  BY DEF LexicographicallyBefore
<1>2. PICK a \in (s \ t) \cup (t \ s) :
          /\ \A n \in Nat : n < a => (n \in s <=> n \in t)
          /\ a \in s => \E e \in t : e > a
          /\ a \in t => ~\E e \in s : e > a
  BY <1>1, FirstDifference
<1>3. PICK b \in (t \ u) \cup (u \ t) :
          /\ \A n \in Nat : n < b => (n \in t <=> n \in u)
          /\ b \in t => \E e \in u : e > b
          /\ b \in u => ~\E e \in t : e > b
  BY <1>1, FirstDifference
<1>4. a \in Nat /\ b \in Nat
  OBVIOUS
<1>5. s # u
  <2> SUFFICES ASSUME s = u PROVE FALSE
    OBVIOUS
  <2>1. ~(a < b) /\ ~(b < a)
    BY <1>2, <1>3, <1>4
  <2>2. a = b
    BY <1>4, <2>1
  <2> QED
    BY <1>2, <1>3, <2>2
<1>6. PICK c \in (s \ u) \cup (u \ s) :
          /\ \A n \in Nat : n < c => (n \in s <=> n \in u)
          /\ c \in s => (LexicographicallyBefore(s, u) <=> \E e \in u : e > c)
          /\ c \in u => (LexicographicallyBefore(s, u) <=> ~\E e \in s : e > c)
  BY <1>5, FirstDifference
<1>7. c \in Nat
  OBVIOUS
<1>8. CASE a < b
  <2>1. c = a
    <3>1. ~(c < a)
      BY <1>2, <1>3, <1>4, <1>7, <1>8
    <3>2. ~(a < c)
      BY <1>2, <1>3, <1>4, <1>6, <1>8
    <3> QED
      BY <1>4, <1>7, <3>1, <3>2
  <2>2. CASE a \in s
    <3>1. PICK e \in t : e > a
      BY <1>2, <2>2
    <3>2. \E d \in u : d > a
      <4>1. CASE e \in u
        BY <3>1, <4>1
      <4>2. CASE e \notin u
        <5>1. ~(e < b)
          BY <1>3, <3>1, <4>2
        <5>2. CASE b \in u
          BY <1>8, <5>2
        <5>3. CASE b \in t
          <6>1. PICK d \in u : d > b
            BY <1>3, <5>3
          <6> QED
            BY <1>4, <1>8, <6>1
        <5> QED
          BY <5>2, <5>3
      <4> QED
        BY <4>1, <4>2
    <3> QED
      BY <1>6, <2>1, <2>2, <3>2
  <2>3. CASE a \in t
    BY <1>2, <1>3, <1>4, <1>6, <1>8, <2>1, <2>3
  <2> QED
    BY <2>2, <2>3
<1>9. CASE b < a
  <2>1. c = b
    <3>1. ~(c < b)
      BY <1>2, <1>3, <1>4, <1>7, <1>9
    <3>2. ~(b < c)
      BY <1>2, <1>3, <1>4, <1>6, <1>9
    <3> QED
      BY <1>4, <1>7, <3>1, <3>2
  <2>2. CASE b \in t
    <3>1. b \in s /\ \E e \in u : e > b
      BY <1>2, <1>3, <1>4, <1>9, <2>2
    <3> QED
      BY <1>6, <2>1, <3>1
  <2>3. CASE b \in u
    <3>1. ~\E e \in t : e > b
      BY <1>3, <2>3
    <3>2. a \in s
      BY <1>9, <3>1
    <3>3. PICK e \in t : e > a
      BY <1>2, <3>2
    <3>4. e > b
      BY <1>4, <1>9, <3>3
    <3> QED
      BY <3>1, <3>4
  <2> QED
    BY <2>2, <2>3
<1>10. CASE a = b
  <2>1. a \in t /\ a \notin s /\ a \notin u
    BY <1>2, <1>3, <1>10
  <2>2. (~\E e \in s : e > a) /\ \E e \in u : e > a
    BY <1>2, <1>3, <1>10, <2>1
  <2>3. c > a
    <3>1. ~(c < a)
      BY <1>2, <1>3, <1>10, <1>7
    <3> QED
      BY <1>4, <1>7, <2>1, <3>1
  <2>4. c \in u
    BY <2>2, <2>3
  <2>5. ~\E e \in s : e > c
    <3> SUFFICES ASSUME NEW e \in s, e > c PROVE FALSE
      OBVIOUS
    <3>1. e > a
      BY <1>4, <1>7, <2>3
    <3> QED
      BY <2>2, <3>1
  <2> QED
    BY <1>6, <2>4, <2>5
<1> QED
  BY <1>4, <1>8, <1>9, <1>10

\* Whatever the best found is not after, no later one is after.
LEMMA SettledKept ==
    ASSUME TypeOK, PathInv, BestHits, [Next]_vars, NEW h \in SUBSET Edges, Settled(h)
    PROVE  Settled(h)'
<1>1. PICK kept \in best : \/ kept.cost < Cost[h]
                           \/ kept.cost = Cost[h] /\ ~LexicographicallyBefore(h, kept.edges)
  BY DEF Settled
<1>2. kept.cost \in Nat /\ Cost[h] \in Nat /\ kept.edges \in SUBSET Nat /\ h \in SUBSET Nat
  <2>1. kept.cost \in 0..MaxUInt /\ kept.edges \in SUBSET Edges
    BY DEF TypeOK
  <2>2. Cost[h] \in Nat
    BY CostAssumption
  <2>3. kept.cost \in Nat
    BY <2>1, MaxUIntAssumption
  <2> QED
    BY <2>1, <2>2, <2>3, EdgesAssumption
<1>3. CASE Leaf /\ Improves(selected, Top.cost)
  <2>1. /\ best' = {[edges |-> selected, cost |-> Top.cost]} /\ Top.cost \in Nat
        /\ selected \in SUBSET Nat
    <3>1. best' = {[edges |-> selected, cost |-> Top.cost]} /\ stack # <<>>
      BY <1>3 DEF Leaf
    <3>2. Top.cost \in Nat
      <4>1. Top \in Frame
        BY <3>1, StackTop
      <4> QED
        BY <4>1, MaxUIntAssumption DEF Frame
    <3>3. selected \in SUBSET Nat
      BY EdgesAssumption DEF TypeOK
    <3> QED
      BY <3>1, <3>2, <3>3
  <2>2. \/ Top.cost < kept.cost
        \/ Top.cost = kept.cost /\ LexicographicallyBefore(selected, kept.edges)
    BY <1>3 DEF Improves
  <2>3. CASE Top.cost < Cost[h]
    BY <2>1, <2>3 DEF Settled
  <2>4. CASE ~(Top.cost < Cost[h])
    <3>1. /\ Top.cost = Cost[h] /\ ~LexicographicallyBefore(h, kept.edges)
          /\ LexicographicallyBefore(selected, kept.edges)
      BY <1>1, <1>2, <2>1, <2>2, <2>4
    <3>2. ~LexicographicallyBefore(h, selected)
      BY <1>2, <2>1, <3>1, LexicographicTransitive
    <3> QED
      BY <2>1, <3>1, <3>2 DEF Settled
  <2> QED
    BY <2>3, <2>4
<1>4. CASE UNCHANGED best
  BY <1>1, <1>4 DEF Settled
<1> QED
  BY <1>3, <1>4 DEF Next, HitLimit, Prune, Leaf, Branch, Descend, Exhausted, Terminated, vars

\* A leaf on the path to a hitting set without a superfluous edge is that set.
LEMMA LeafIsWhole ==
    ASSUME TypeOK, Unhit = {}, NEW h \in SUBSET Edges, Irredundant(h), selected \subseteq h
    PROVE  selected = h
<1> SUFFICES ASSUME NEW e \in h, e \notin selected PROVE FALSE
  OBVIOUS
<1>1. \A core \in cores : Hits(selected, core)
  BY DEF Unhit
<1>2. \A core \in cores : Hits(h \ {e}, core)
  BY <1>1 DEF Hits
<1> QED
  BY <1>2 DEF Irredundant, HittingSetsOf

\* No hitting set of equal cost that comes first is lost.
LEMMA NextFirstNotLost == IInv /\ [Next]_vars => FirstNotLost'
<1> SUFFICES ASSUME IInv, [Next]_vars, ~limitHit', NEW h \in HittingSetsOf(cores'),
                    Irredundant(h)'
             PROVE  Settled(h)' \/ ToReach(h)'
  BY DEF FirstNotLost
<1>0. cores' = cores
  BY DEF Next, HitLimit, Prune, Leaf, Branch, Descend, Exhausted, Terminated, vars
<1>1. h \in HittingSetsOf(cores) /\ h \in SUBSET Edges /\ Irredundant(h)
  BY <1>0 DEF HittingSetsOf, Irredundant
<1>6. ~limitHit
  BY DEF Next, HitLimit, Prune, Leaf, Branch, Descend, Exhausted, Terminated, vars
<1>2. CASE Settled(h)
  BY <1>1, <1>2, SettledKept DEF IInv
<1>3. CASE ToReach(h) /\ ~((Prune \/ Leaf) /\ entering /\ selected \subseteq h)
  BY <1>1, <1>3, ReachKept DEF IInv
<1>4. CASE Prune /\ selected \subseteq h
  <2>1. stack # <<>> /\ best' = best /\ \E kept \in best : Top.cost > kept.cost
    BY <1>4 DEF Prune, Bounded
  <2>2. \E kept \in best : kept.cost < Cost[h]
    BY <1>1, <1>4, <2>1, CallBelow DEF IInv
  <2> QED
    BY <2>1, <2>2 DEF Settled
<1>5. CASE Leaf /\ selected \subseteq h
  <2>1. /\ stack # <<>> /\ Unhit = {}
        /\ best' = IF Improves(selected, Top.cost)
                   THEN {[edges |-> selected, cost |-> Top.cost]} ELSE best
    BY <1>5 DEF Leaf
  <2>2. selected = h
    BY <1>1, <1>5, <2>1, LeafIsWhole DEF IInv
  <2>3. /\ Top.cost = Cost[h] /\ Cost[h] \in Nat
        /\ \A kept \in best : kept.cost \in Nat
    BY <1>1, <2>1, <2>2, CallBelow DEF IInv
  <2>4. CASE Improves(h, Top.cost)
    <3>1. ~LexicographicallyBefore(h, h)
      BY DEF LexicographicallyBefore
    <3> QED
      BY <2>1, <2>2, <2>3, <2>4, <3>1 DEF Settled
  <2>5. CASE ~Improves(h, Top.cost)
    <3>1. PICK kept \in best : /\ ~(Top.cost < kept.cost)
                               /\ ~(Top.cost = kept.cost /\ LexicographicallyBefore(h, kept.edges))
      BY <2>5 DEF Improves
    <3>2. \/ kept.cost < Cost[h]
          \/ kept.cost = Cost[h] /\ ~LexicographicallyBefore(h, kept.edges)
      BY <2>3, <3>1
    <3> QED
      BY <2>1, <2>2, <2>5, <3>2 DEF Settled
  <2> QED
    BY <2>4, <2>5
<1> QED
  BY <1>1, <1>6, <1>2, <1>3, <1>4, <1>5 DEF IInv, FirstNotLost

\* Search is called with nothing selected.
LEMMA InitInv == Init => IInv
<1> SUFFICES ASSUME Init PROVE IInv
  OBVIOUS
<1>1. Call({}, 0) \in Frame
  BY MaxUIntAssumption DEF Call, Frame
<1>2. stack \in Seq(Frame) /\ Len(stack) = 1 /\ stack[1] = Call({}, 0) /\ stack # <<>>
  BY <1>1 DEF Init
<1>3. TypeOK
  BY <1>2, MasterAssumption DEF Init, TypeOK
<1>4. PathTo(1) = {}
  <2>1. 1..1 = {1}
    OBVIOUS
  <2> QED
    BY <1>2, <2>1 DEF PathTo, Path, Call
<1>5. PathInv
  <2>1. \A i \in 1..Len(stack) : i = 1
    BY <1>2
  <2>2. stack[1].cost = 0 /\ stack[1].choices = {} /\ Top = stack[1]
    BY <1>2 DEF Call, Top, Last
  <2>3. selected = PathTo(Len(stack)) /\ Cost[PathTo(1)] = 0
    BY <1>2, <1>4, WeightAssumption DEF Init
  <2> QED
    BY <2>1, <2>2, <2>3 DEF PathInv
<1>6. BestHits /\ NothingLost /\ FirstNotLost
  BY <1>2 DEF Init, BestHits, NothingLost, FirstNotLost, ToReach
<1> QED
  BY <1>3, <1>5, <1>6 DEF IInv

\* The inductive invariant holds of every call of ExactHittingSetMaster::Solve.
THEOREM Safety == Spec => []IInv
<1>1. IInv /\ [Next]_vars => IInv'
  BY NextTypeOK, NextPathInv, NextBestHits, NextNothingLost, NextFirstNotLost DEF IInv
<1> QED
  BY InitInv, <1>1, PTL DEF Spec

\* When the stack is empty there is no choice left a cheaper hitting set could contain.
LEMMA EndIsMinimum ==
    ASSUME IInv, stack = <<>>, ~limitHit
    PROVE  \E kept \in best : /\ best = {kept} /\ kept.edges \in MinimumHittingSets(cores)
                              /\ kept.cost = Cost[kept.edges]
<1>1. Len(stack) = 0
  OBVIOUS
<1>2. \A h \in HittingSetsOf(cores) : \E kept \in best : kept.cost <= Cost[h]
  BY <1>1 DEF IInv, NothingLost, ToReach
<1>3. Edges \in HittingSetsOf(cores)
  BY DEF IInv, TypeOK, HittingSetsOf, Hits
<1>4. PICK kept \in best : kept.cost <= Cost[Edges]
  BY <1>2, <1>3
<1>5. best = {kept}
  BY DEF IInv, TypeOK
<1>6. kept.edges \in HittingSetsOf(cores) /\ kept.cost = Cost[kept.edges]
  BY DEF IInv, BestHits
<1>7. \A h \in HittingSetsOf(cores) : Cost[kept.edges] <= Cost[h]
  BY <1>2, <1>5, <1>6
<1> QED
  BY <1>5, <1>6, <1>7 DEF MinimumHittingSets

\* Below its node limit the master returns a minimum-cost hitting set.
THEOREM Minimum == Spec => []MinimumFound
<1>1. IInv => MinimumFound
  BY EndIsMinimum DEF MinimumFound
<1> QED
  BY Safety, <1>1, PTL

\* No minimum hitting set without a superfluous edge comes before the one it returns: the
\* comparison of two leaves is transitive, and a leaf below such a set is that set.
LEMMA EndIsFirst ==
    ASSUME IInv, stack = <<>>, ~limitHit,
           NEW h \in MinimumHittingSets(cores), Irredundant(h), NEW kept \in best
    PROVE  ~LexicographicallyBefore(h, kept.edges)
<1>1. Len(stack) = 0
  OBVIOUS
<1>2. Settled(h)
  BY <1>1 DEF IInv, FirstNotLost, ToReach, MinimumHittingSets
<1>3. \/ kept.cost < Cost[h]
      \/ kept.cost = Cost[h] /\ ~LexicographicallyBefore(h, kept.edges)
  BY <1>2 DEF Settled, IInv, TypeOK
<1>4. Cost[h] <= Cost[kept.edges] /\ kept.cost = Cost[kept.edges]
  BY DEF IInv, BestHits, MinimumHittingSets
<1>5. Cost[h] \in Nat /\ kept.cost \in Nat
  BY CostAssumption, MaxUIntAssumption DEF IInv, TypeOK, MinimumHittingSets, HittingSetsOf
<1> QED
  BY <1>3, <1>4, <1>5

\* A minimum hitting set of a cost that is not saturated has no superfluous edge that
\* costs something: without it the set would be cheaper.
LEMMA SuperfluousIsFree ==
    ASSUME NEW s \in MinimumHittingSets(cores), Cost[s] < MaxUInt,
           NEW e \in s, Weight[e] > 0
    PROVE  s \ {e} \notin HittingSetsOf(cores)
<1> SUFFICES ASSUME s \ {e} \in HittingSetsOf(cores) PROVE FALSE
  OBVIOUS
<1> DEFINE t == s \ {e}
<1>1. t \in SUBSET Edges /\ e \in Edges \ t /\ t \cup {e} = s
  BY DEF MinimumHittingSets, HittingSetsOf
<1>2. Cost[s] <= Cost[t]
  BY DEF MinimumHittingSets
<1> HIDE DEF t
<1>3. Cost[s] = SaturatingAdd(Cost[t], Weight[e])
  BY <1>1, WeightAssumption
<1>4. Cost[t] \in Nat /\ Weight[e] \in Nat /\ MaxUInt \in Nat
  BY <1>1, CostAssumption, WeightAssumption, MaxUIntAssumption
<1>5. Cost[s] = Cost[t] + Weight[e]
  BY <1>3, <1>4 DEF SaturatingAdd
<1> QED
  BY <1>2, <1>4, <1>5

\* The first of the minimum hitting sets without a superfluous edge does not come before
\* what the master returns, and what is superfluous there is free.
THEOREM First == Spec => []FirstOfEquals
<1>1. IInv => FirstOfEquals
  <2> SUFFICES ASSUME IInv, stack = <<>>, ~limitHit, NEW kept \in best
               PROVE  /\ \A h \in MinimumHittingSets(cores) :
                             Irredundant(h) => ~LexicographicallyBefore(h, kept.edges)
                      /\ kept.cost < MaxUInt =>
                             \A e \in kept.edges :
                                 Weight[e] > 0 => kept.edges \ {e} \notin HittingSetsOf(cores)
    BY DEF FirstOfEquals
  <2>1. kept.edges \in MinimumHittingSets(cores) /\ kept.cost = Cost[kept.edges]
    BY EndIsMinimum
  <2>2. \A h \in MinimumHittingSets(cores) :
            Irredundant(h) => ~LexicographicallyBefore(h, kept.edges)
    BY EndIsFirst
  <2> QED
    BY <2>1, <2>2, SuperfluousIsFree
<1> QED
  BY Safety, <1>1, PTL
=============================================================================
