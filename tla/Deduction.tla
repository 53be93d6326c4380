------------------------------ MODULE Deduction ------------------------------
(***************************************************************************)
(* generateDeductionSteps() (include/backend/leveldbgraph_deduction.inc):  *)
(* the order in which the query iterator binds the elements of a pattern   *)
(*     (0)-[1]-(2)-[3]-(4) ...                                             *)
(* and, for every element, which of its neighbours are bound before it.    *)
(* Elements with a property id="..." are acquired directly and come first; *)
(* the gaps between them are filled from both ends to the middle.          *)
(***************************************************************************)
EXTENDS Integers, Sequences

CONSTANT MaxNodes  \* bound of the model: the nodes of a pattern

ASSUME PatternAssumption == MaxNodes \in Nat \ {0}

VARIABLES
  nodesCnt,   \* the pattern: its number of nodes,
  acquired,   \* and the elements acquiredDirectly() accepts
  steps,      \* the result
  pc,         \* the loop that runs
  i,          \* its counter
  directSize  \* directAcquiredSize

vars == <<nodesCnt, acquired, steps, pc, i, directSize>>

Elements(n) == 0..2 * n - 2
MaxId == 2 * nodesCnt - 2

\* A constraint is the set of the sides on which the neighbour is bound
\* already: none, leftConstrained, rightConstrained or bothConstrained.
Trait(id, constraint, direct) == [id |-> id, constraint |-> constraint, direct |-> direct]

Init ==
  /\ nodesCnt \in 1..MaxNodes
  /\ acquired \in SUBSET Elements(nodesCnt)
  /\ steps = <<>>
  /\ pc = "direct"
  /\ i = 0
  /\ directSize = 0

(***************************************************************************)
(* The first loop: one iteration per element                               *)
(***************************************************************************)
DirectTrait(id) ==
  Trait(id, IF steps # <<>> /\ steps[Len(steps)].id = id - 1 THEN {"left"} ELSE {}, TRUE)

AcquireDirectly ==
  /\ pc = "direct"
  /\ i <= MaxId
  /\ steps' = IF i \in acquired THEN Append(steps, DirectTrait(i)) ELSE steps
  /\ i' = i + 1
  /\ UNCHANGED <<nodesCnt, acquired, pc, directSize>>

AllAcquired ==
  /\ pc = "direct"
  /\ i > MaxId
  /\ directSize' = Len(steps)
  /\ pc' = "between"
  /\ i' = 0
  /\ UNCHANGED <<nodesCnt, acquired, steps>>

(***************************************************************************)
(* addToDeductionSteps(): the elements strictly between left and right,    *)
(* alternately from the left and from the right                            *)
(***************************************************************************)
\* a mutation of Visited: the walk from the right starts at the bound itself
VisitedFromBound(left, right, j) ==
  IF j % 2 = 0 THEN left + j \div 2 + 1 ELSE right - j \div 2

\* the j-th element visited, from 0
Visited(left, right, j) ==
  IF j % 2 = 0 THEN left + j \div 2 + 1 ELSE right - j \div 2 - 1

\* the sides it is approached from; the last one closes the gap
Known(count, j) ==
  IF j = count - 1 THEN {"left", "right"}
  ELSE IF j % 2 = 0 THEN {"left"} ELSE {"right"}

\* a mutation of Missing: no special case for a gap of one element
MissingInLongGaps(left, right, count, j) ==
  (IF left = -1 /\ j = 0 THEN {"left"} ELSE {})
    \cup (IF right > MaxId /\ j = 1 THEN {"right"} ELSE {})

\* a mutation of Missing: the left end is taken for every element
MissingThroughout(left, right, count, j) ==
  (IF left = -1 THEN {"left"} ELSE {})
    \cup (IF right > MaxId /\ (j = 1 \/ count = 1) THEN {"right"} ELSE {})

\* the sides on which the pattern ends, so that there is no neighbour
Missing(left, right, count, j) ==
  (IF left = -1 /\ j = 0 THEN {"left"} ELSE {})
    \cup (IF right > MaxId /\ (j = 1 \/ count = 1) THEN {"right"} ELSE {})

Between(left, right) ==
  LET count == right - left - 1
  IN  [k \in 1..count |->
         Trait(Visited(left, right, k - 1),
               Known(count, k - 1) \ Missing(left, right, count, k - 1), FALSE)]

\* the bound on the left of the gap before the (k+1)-th direct element
BoundBefore(k) == IF k > 0 THEN steps[k].id ELSE -1

FillGap ==
  /\ pc = "between"
  /\ i < directSize
  /\ steps' = steps \o Between(BoundBefore(i), steps[i + 1].id)
  /\ i' = i + 1
  /\ UNCHANGED <<nodesCnt, acquired, pc, directSize>>

FillLastGap ==
  /\ pc = "between"
  /\ i = directSize
  /\ steps' = steps \o Between(BoundBefore(directSize), 2 * nodesCnt - 1)
  /\ pc' = "done"
  /\ UNCHANGED <<nodesCnt, acquired, i, directSize>>

(***************************************************************************)
(* The specification                                                       *)
(***************************************************************************)
Next == AcquireDirectly \/ AllAcquired \/ FillGap \/ FillLastGap

Spec == Init /\ [][Next]_vars

(***************************************************************************)
(* Properties                                                              *)
(***************************************************************************)
Sides == {"left", "right"}

\* The type invariant of the planner.
TypeOK ==
  /\ nodesCnt \in 1..MaxNodes
  /\ acquired \subseteq Elements(nodesCnt)
  /\ steps \in Seq([id : Elements(nodesCnt), constraint : SUBSET Sides, direct : BOOLEAN])
  /\ pc \in {"direct", "between", "done"}
  /\ i \in 0..MaxId + 1
  /\ directSize \in 0..MaxId + 1

PlacedBefore(p, id) == \E q \in 1..p - 1 : steps[q].id = id

\* A step is constrained on exactly the sides whose neighbour is bound by
\* an earlier step: every link of the pattern is checked once, by the later
\* of its two elements, and no step relies on an element not yet bound.
ConstraintsExact ==
  \A p \in DOMAIN steps :
    /\ ("left" \in steps[p].constraint) <=> PlacedBefore(p, steps[p].id - 1)
    /\ ("right" \in steps[p].constraint) <=> PlacedBefore(p, steps[p].id + 1)

\* The finished plan binds every element of the pattern exactly once, and
\* by its id exactly where the pattern gives one.
BindsEachOnce ==
  /\ \A p, q \in DOMAIN steps : steps[p].id = steps[q].id => p = q
  /\ \A p \in DOMAIN steps : steps[p].direct <=> steps[p].id \in acquired
  /\ pc = "done" => {steps[p].id : p \in DOMAIN steps} = Elements(nodesCnt)

\* Only the first and the last node of a pattern are ever searched for
\* without a neighbour or an id to start from: the iterator never has to
\* scan the edges.
ScansOnlyEndNodes ==
  \A p \in DOMAIN steps :
    (steps[p].constraint = {} /\ ~ steps[p].direct) => steps[p].id \in {0, MaxId}
=============================================================================
