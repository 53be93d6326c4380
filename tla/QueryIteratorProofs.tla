------------------------- MODULE QueryIteratorProofs -------------------------
(***************************************************************************)
(* What the iterator returns, for every graph and every pattern: matches   *)
(* only, none twice, and none missing. The planner runs inside the         *)
(* iterator as it is (InitOfPlan, StepOfPlan), so its theorems hold here.  *)
(* SearchInv says of every position of the plan that is bound (Settled)    *)
(* what the step there has checked (Held); it relates the element only to  *)
(* elements bound before it, so that binding another one leaves it true    *)
(* (HeldKept). PastInv and AheadInv compare results and matches with what  *)
(* is bound, in the order of the plan, in which the search goes forward.   *)
(***************************************************************************)
EXTENDS QueryIterator, DeductionProofs, WellFoundedInduction

(***************************************************************************)
(* The planner inside the iterator                                         *)
(***************************************************************************)
\* The iterator starts with the planner.
LEMMA InitOfPlan == QueryInit => Init
BY DEF QueryInit

\* A step of the iterator is a step of the planner or leaves the plan alone.
LEMMA StepOfPlan ==
  ASSUME [QueryNext]_queryVars
  PROVE  [Next]_vars
<1>1. CASE Planning
  BY <1>1 DEF Planning
<1>2. CASE Search
  BY <1>2 DEF Search, BindGiven, GivenDoesNotFit, GivenAborts, GivenThrows, GivenRetried,
    Choose, NoChoice, SeekAborts, Follow, DoesNotFit, FollowAborts, FollowThrows,
    FollowedRetried, GoOn, GoBack, Leave
<1>3. CASE FallingOff
  BY <1>3 DEF FallingOff, FallsOffFalse, FallsOffEndless, Leave, GoBack
<1>4. CASE Increment
  BY <1>4 DEF Increment
<1>5. CASE (\E e \in outs \cup ins : RemoveEdge(e)) \/ (\E n \in stored : RemoveNode(n))
  BY <1>5 DEF RemoveEdge, RemoveNode
<1>6. CASE UNCHANGED queryVars
  BY <1>6 DEF queryVars
<1> QED
  BY <1>1, <1>2, <1>3, <1>4, <1>5, <1>6 DEF QueryNext, Running

\* What is acquired by id is at most checked against its left neighbour.
DirectFromLeft ==
  \A p \in 1..Len(steps) : steps[p].direct => "right" \notin steps[p].constraint

\* Filling a gap keeps the steps there are; none of the others is acquired by id.
LEMMA GapSteps ==
  ASSUME NEW s \in Seq(Traits(nodesCnt)), nodesCnt \in Nat,
         NEW left \in Int, NEW right \in Int, left < right,
         NEW t, t = s \o Between(left, right)
  PROVE  \A p \in 1..Len(t) : IF p <= Len(s) THEN t[p] = s[p] ELSE ~ t[p].direct
<1> DEFINE gap == Between(left, right)
           count == right - left - 1
           n == Len(s)
           Any == [id : Int, constraint : SUBSET Sides, direct : BOOLEAN]
<1>1. count \in Nat /\ n \in Nat
  OBVIOUS
<1>2. \A k \in 1..count : gap[k] \in Any /\ gap[k].direct = FALSE
  <2> SUFFICES ASSUME NEW k \in 1..count
               PROVE  gap[k] \in Any /\ gap[k].direct = FALSE
    OBVIOUS
  <2>1. gap[k] = [id |-> Visited(left, right, k - 1),
                  constraint |-> Known(count, k - 1) \ Missing(left, right, count, k - 1),
                  direct |-> FALSE]
    BY DEF Between, Trait
  <2>2. Visited(left, right, k - 1) \in Int
    BY <1>1, VisitedInGap
  <2>3. Known(count, k - 1) \in SUBSET Sides
    BY DEF Known, Sides
  <2> QED
    BY <2>1, <2>2, <2>3
<1>3. gap = [k \in 1..count |-> gap[k]]
  BY DEF Between
<1> HIDE DEF gap, count
<1>4. gap \in Seq(Any) /\ Len(gap) = count
  <2>1. gap \in [1..count -> Any]
    BY <1>2, <1>3
  <2> HIDE DEF Any
  <2> QED
    BY <2>1, <1>1
<1>5. s \in Seq(Any)
  <2>1. Traits(nodesCnt) \subseteq Any
    BY DEF Traits, Elements
  <2> HIDE DEF Any
  <2> QED
    BY <2>1
<1> HIDE DEF Any, n
<1>6. /\ Len(t) = n + count
      /\ \A p \in 1..n + count : t[p] = IF p <= n THEN s[p] ELSE gap[p - n]
  BY <1>4, <1>5, ConcatProperties DEF gap, n
<1>7. ASSUME NEW p \in 1..Len(t)
      PROVE  IF p <= Len(s) THEN t[p] = s[p] ELSE ~ t[p].direct
  <2>1. CASE p <= n
    BY <2>1, <1>1, <1>6 DEF n
  <2>2. CASE ~ p <= n
    <3>1. p - n \in 1..count /\ t[p] = gap[p - n]
      BY <2>2, <1>1, <1>6
    <3> QED
      BY <2>2, <3>1, <1>2 DEF n
  <2> QED
    BY <2>1, <2>2
<1> QED
  BY <1>7

\* So every step of the planner keeps that.
LEMMA PlansDirectFromLeft ==
  ASSUME PlanInv, DirectFromLeft, Next
  PROVE  DirectFromLeft'
<1>1. /\ steps \in Seq(Traits(nodesCnt)) /\ Len(steps) \in Nat
      /\ nodesCnt \in Nat /\ MaxId \in Nat /\ MaxId = 2 * nodesCnt - 2
      /\ \A p \in 1..Len(steps) : steps[p].id \in Int /\ 0 <= steps[p].id /\ steps[p].id <= MaxId
      /\ i \in Nat /\ directSize \in Nat
  BY TypeFacts DEF PlanInv
<1>2. CASE AcquireDirectly
  <2>1. CASE i \in acquired
    <3>1. steps' = Append(steps, DirectTrait(i))
      BY <2>1, <1>2 DEF AcquireDirectly
    <3>2. DirectTrait(i).constraint \subseteq {"left"}
      BY DEF DirectTrait, Trait
    <3> HIDE DEF DirectTrait
    <3>3. /\ Len(steps') = Len(steps) + 1
          /\ steps'[Len(steps) + 1] = DirectTrait(i)
          /\ \A p \in 1..Len(steps) : steps'[p] = steps[p]
      BY <1>1, <3>1
    <3>4. \A p \in 1..Len(steps') : p \in 1..Len(steps) \/ p = Len(steps) + 1
      BY <1>1, <3>3
    <3> QED
      BY <3>2, <3>3, <3>4 DEF DirectFromLeft
  <2>2. CASE i \notin acquired
    BY <2>2, <1>2 DEF AcquireDirectly, DirectFromLeft
  <2> QED
    BY <2>1, <2>2
<1>3. CASE AllAcquired
  BY <1>3 DEF AllAcquired, DirectFromLeft
<1>4. ASSUME pc = "between", NEW right \in 0..MaxId + 1,
             i < directSize => right = steps[i + 1].id,
             i = directSize => right = MaxId + 1,
             steps' = steps \o Between(BoundBefore(i), right)
      PROVE  DirectFromLeft'
  <2>1. BoundBefore(i) \in -1..MaxId /\ BoundBefore(i) < right
    BY <1>1, <1>4, GapBounds
  <2>2. BoundBefore(i) \in Int /\ right \in Int
    BY <1>1, <2>1
  <2>3. PICK s, left : s = steps /\ left = BoundBefore(i)
    OBVIOUS
  <2>4. \A p \in 1..Len(s) : s[p].direct => "right" \notin s[p].constraint
    BY <2>3 DEF DirectFromLeft
  <2>5. PICK t : t = s \o Between(left, right)
    OBVIOUS
  <2>6. \A p \in 1..Len(t) : t[p].direct => "right" \notin t[p].constraint
    <3>1. s \in Seq(Traits(nodesCnt)) /\ nodesCnt \in Nat /\ left \in Int /\ right \in Int /\ left < right
      BY <1>1, <2>1, <2>2, <2>3
    <3>2. \A p \in 1..Len(t) : IF p <= Len(s) THEN t[p] = s[p] ELSE ~ t[p].direct
      BY <3>1, <2>5, GapSteps
    <3>3. Len(s) \in Nat /\ \A p \in 1..Len(t) : p <= Len(s) => p \in 1..Len(s)
      BY <3>1
    <3> QED
      BY <2>4, <3>2, <3>3
  <2> QED
    BY <1>4, <2>3, <2>5, <2>6 DEF DirectFromLeft
<1>5. CASE FillGap
  <2>1. /\ pc = "between" /\ i < directSize
        /\ steps' = steps \o Between(BoundBefore(i), steps[i + 1].id)
    BY <1>5 DEF FillGap
  <2>2. i + 1 \in 1..Len(steps)
    BY <1>1, <2>1 DEF PlanInv, BetweenInv
  <2>3. steps[i + 1].id \in 0..MaxId + 1 /\ ~ i = directSize
    BY <1>1, <2>1, <2>2
  <2> QED
    BY <1>4, <2>1, <2>3
<1>6. CASE FillLastGap
  <2>1. /\ pc = "between" /\ i = directSize
        /\ steps' = steps \o Between(BoundBefore(i), MaxId + 1)
    <3>1. 2 * nodesCnt - 1 = MaxId + 1
      BY <1>1
    <3> QED
      BY <1>6, <3>1 DEF FillLastGap
  <2>2. MaxId + 1 \in 0..MaxId + 1 /\ ~ i < directSize
    BY <1>1, <2>1
  <2> QED
    BY <1>4, <2>1, <2>2
<1> QED
  BY <1>2, <1>3, <1>5, <1>6 DEF Next

(***************************************************************************)
(* The invariant of the search                                             *)
(***************************************************************************)
\* The end of an edge on the left of its position, and on the right.
LeftEnd(e, dir) == IF dir = "prev" THEN graph.ends[e].to ELSE graph.ends[e].from
RightEnd(e, dir) == IF dir = "next" THEN graph.ends[e].to ELSE graph.ends[e].from

\* x had a record in the graph that was asked, and it fits.
FitsAsked(id, x) ==
  /\ IF IsNode(id) THEN x \in graph.nodes ELSE x \in DOMAIN graph.ends
  /\ x \in query.accepts[id]

\* What step s has checked of the elements b.
Held(s, b) ==
  /\ FitsAsked(s.id, b[s.id])
  /\ s.direct => b[s.id] = query.given[s.id]
  /\ ~ IsNode(s.id) /\ "left" \in s.constraint =>
       b[s.id] \in graph.linked /\ LeftEnd(b[s.id], query.direction[s.id]) = b[s.id - 1]
  /\ ~ IsNode(s.id) /\ "right" \in s.constraint /\ ~ s.direct =>
       RightEnd(b[s.id], query.direction[s.id]) = b[s.id + 1]
  /\ IsNode(s.id) /\ "left" \in s.constraint =>
       b[s.id] = RightEnd(b[s.id - 1], query.direction[s.id - 1])

Settled(p) == p < at \/ (p = at /\ mode \in {"retry", "ready"})

\* The question is one of those the model asks.
Asked ==
  /\ \E c \in Cases : graph = c.graph /\ query = c.query
  /\ nodesCnt = query.nodesCnt
  /\ acquired = DOMAIN query.given

\* The inductive invariant.
SearchInv ==
  /\ PlanInv
  /\ DirectFromLeft
  /\ Asked
  /\ QueryTypeOK
  /\ pc # "done" => at = 1 /\ mode = "enter"
  /\ mode = "ready" => at = Len(steps)
  /\ \A p \in 1..Len(steps) : Settled(p) => Held(steps[p], bound)

\* What is held depends on the element and on the neighbours it was bound to.
LEMMA HeldKept ==
  ASSUME NEW s, NEW b, NEW c, Held(s, b),
         c[s.id] = b[s.id],
         "left" \in s.constraint => c[s.id - 1] = b[s.id - 1],
         "right" \in s.constraint => c[s.id + 1] = b[s.id + 1]
  PROVE  Held(s, c)
BY DEF Held

\* The types of the question.
LEMMA AskedFacts ==
  ASSUME Asked
  PROVE  /\ graph.nodes \subseteq Id
         /\ DOMAIN graph.ends \subseteq Id
         /\ graph.ends \in [DOMAIN graph.ends -> [from : Id, to : Id]]
         /\ graph.linked \subseteq DOMAIN graph.ends
         /\ nodesCnt \in 1..MaxNodes
         /\ query.given \in [acquired -> Id]
         /\ acquired \subseteq Elements(nodesCnt)
         /\ query.direction \in
              [{id \in Elements(nodesCnt) : ~ IsNode(id)} -> {"next", "prev", "both"}]
<1>1. PICK c \in Cases : graph = c.graph /\ query = c.query
  BY DEF Asked
<1>2. graph \in {d.graph : d \in Cases} /\ query \in {d.query : d \in Cases}
  BY <1>1
<1>3. PICK g \in {d.graph : d \in Cases}, q \in {d.query : d \in Cases} : g = graph /\ q = query
  BY <1>2
<1>4. /\ g.nodes \subseteq Id
      /\ DOMAIN g.ends \subseteq Id
      /\ g.ends \in [DOMAIN g.ends -> [from : Id, to : Id]]
      /\ g.linked \subseteq DOMAIN g.ends
  BY IteratorAssumption
<1>5. /\ q.nodesCnt \in 1..MaxNodes
      /\ q.given \in [DOMAIN q.given -> Id]
      /\ DOMAIN q.given \subseteq Elements(q.nodesCnt)
      /\ q.direction \in [{id \in Elements(q.nodesCnt) : ~ IsNode(id)} -> {"next", "prev", "both"}]
  BY IteratorAssumption
<1> QED
  BY <1>3, <1>4, <1>5 DEF Asked

\* The step that is done, and the elements bound before it.
LEMMA StepFacts ==
  ASSUME SearchInv, pc = "done"
  PROVE  /\ at \in 1..Len(steps) /\ at \in Nat /\ Len(steps) \in Nat
         /\ step = steps[at]
         /\ step.id \in Elements(nodesCnt) /\ step.id \in Int
         /\ step.constraint \in SUBSET Sides
         /\ step.direct <=> step.id \in acquired
         /\ step.direct => "right" \notin step.constraint
         /\ \A p \in 1..at - 1 : p \in 1..Len(steps) /\ Held(steps[p], bound) /\ steps[p].id # step.id
         /\ "left" \in step.constraint => \E p \in 1..at - 1 : steps[p].id = step.id - 1
         /\ "right" \in step.constraint => \E p \in 1..at - 1 : steps[p].id = step.id + 1
<1>1. DOMAIN steps = 1..Len(steps) /\ Len(steps) \in Nat /\ nodesCnt \in Nat \ {0}
  BY StepsDomain, TypeFacts DEF SearchInv, PlanInv
<1>2. at \in 1..Len(steps) /\ at \in Nat
  BY <1>1 DEF SearchInv, QueryTypeOK
<1>3. steps[at] \in Traits(nodesCnt)
  <2>1. steps \in Seq(Traits(nodesCnt))
    BY TypeFacts DEF SearchInv, PlanInv
  <2> QED
    BY <1>2, <2>1, ElementOfSeq
<1>4. /\ step = steps[at]
      /\ step.id \in Elements(nodesCnt) /\ step.id \in Int
      /\ step.constraint \in SUBSET Sides
  BY <1>1, <1>3 DEF step, Traits, Elements
<1>5. /\ step.direct <=> step.id \in acquired
      /\ step.direct => "right" \notin step.constraint
  BY <1>2, <1>4 DEF SearchInv, PlanInv, Tagged, DirectFromLeft
<1>6. ASSUME NEW p \in 1..at - 1
      PROVE  p \in 1..Len(steps) /\ Held(steps[p], bound) /\ steps[p].id # step.id
  <2>1. p \in 1..Len(steps) /\ p < at /\ p # at
    BY <1>1, <1>2
  <2>2. Held(steps[p], bound)
    BY <2>1 DEF SearchInv, Settled
  <2>3. steps[p].id # step.id
    BY <1>2, <1>4, <2>1 DEF SearchInv, PlanInv, Once
  <2> QED
    BY <2>1, <2>2, <2>3
<1>7. /\ "left" \in step.constraint => \E p \in 1..at - 1 : steps[p].id = step.id - 1
      /\ "right" \in step.constraint => \E p \in 1..at - 1 : steps[p].id = step.id + 1
  BY <1>2, <1>4 DEF SearchInv, PlanInv, Exact
<1> QED
  BY <1>1, <1>2, <1>4, <1>5, <1>6, <1>7

\* Binding the element of a step disturbs no step before it.
LEMMA PrefixHeld ==
  ASSUME SearchInv, pc = "done", NEW b, \A y \in Elements(nodesCnt) : y # step.id => b[y] = bound[y]
  PROVE  \A p \in 1..at - 1 : Held(steps[p], b)
<1>1. /\ \A p \in 1..at - 1 : p \in 1..Len(steps) /\ Held(steps[p], bound) /\ steps[p].id # step.id
      /\ at \in Nat /\ at \in 1..Len(steps)
  BY StepFacts
<1>2. \A p \in 1..at - 1 : steps[p].id \in Elements(nodesCnt)
  <2>1. steps \in Seq(Traits(nodesCnt))
    BY TypeFacts DEF SearchInv, PlanInv
  <2>2. \A p \in 1..at - 1 : steps[p] \in Traits(nodesCnt)
    BY <1>1, <2>1, ElementOfSeq
  <2> QED
    BY <2>2 DEF Traits
<1>3. \A y : (\E q \in 1..at - 1 : steps[q].id = y) => b[y] = bound[y]
  BY <1>1, <1>2
<1>4. ASSUME NEW p \in 1..at - 1
      PROVE  Held(steps[p], b)
  <2>1. /\ p \in 1..Len(steps)
        /\ \A q \in 1..p - 1 : q \in 1..at - 1
    BY <1>1
  <2>2. /\ "left" \in steps[p].constraint => \E q \in 1..p - 1 : steps[q].id = steps[p].id - 1
        /\ "right" \in steps[p].constraint => \E q \in 1..p - 1 : steps[q].id = steps[p].id + 1
    BY <2>1 DEF SearchInv, PlanInv, Exact
  <2>3. PICK s : s = steps[p]
    OBVIOUS
  <2>4. /\ Held(s, bound)
        /\ b[s.id] = bound[s.id]
        /\ "left" \in s.constraint => b[s.id - 1] = bound[s.id - 1]
        /\ "right" \in s.constraint => b[s.id + 1] = bound[s.id + 1]
    BY <1>1, <1>3, <2>1, <2>2, <2>3
  <2>5. PICK c : c = bound
    OBVIOUS
  <2>6. Held(s, b)
    BY <2>4, <2>5, HeldKept
  <2> QED
    BY <2>3, <2>6
<1> QED
  BY <1>4

(***************************************************************************)
(* Moving through the plan                                                 *)
(***************************************************************************)
Modes == {"enter", "retry", "ready", "end", "thrown", "aborted"}

\* Records and sets only lose what the graph had.
LoseOnly == stored' \subseteq stored /\ outs' \subseteq outs /\ ins' \subseteq ins

\* What fits now fitted when the query was made.
LEMMA FittedThen ==
  ASSUME SearchInv, NEW id, NEW x, Fits(id, x)
  PROVE  FitsAsked(id, x)
BY DEF SearchInv, QueryTypeOK, Fits, HasRecord, FitsAsked

\* A step of the search keeps the invariant when what is settled after it was
\* settled before, or is the element it bound.
LEMMA Moved ==
  ASSUME SearchInv, Searching,
         UNCHANGED <<vars, askedVars>>,
         LoseOnly,
         bound' \in [Elements(nodesCnt) -> Id \cup {NoId}],
         \A y \in Elements(nodesCnt) : y # step.id => bound'[y] = bound[y],
         at' \in 1..Len(steps), mode' \in Modes,
         building' \in BOOLEAN, disturbed' \in BOOLEAN,
         returned' \subseteq [Elements(nodesCnt) -> Id \cup {NoId}],
         mode' = "ready" => at' = Len(steps),
         \A p \in 1..Len(steps) :
           Settled(p)' => p < at \/ (p = at /\ Held(step, bound'))
  PROVE  SearchInv'
<1>1. pc = "done" /\ pc' = pc /\ steps' = steps /\ nodesCnt' = nodesCnt /\ acquired' = acquired
      /\ i' = i /\ directSize' = directSize /\ graph' = graph /\ query' = query
  BY DEF Searching, vars, askedVars
<1>2. PlanInv' /\ DirectFromLeft' /\ Asked'
  <2>1. PlanInv /\ [Next]_vars
    BY DEF SearchInv
  <2>2. PlanInv'
    BY <2>1, PlanStep
  <2> QED
    BY <2>2, <1>1 DEF SearchInv, DirectFromLeft, Asked
<1>3. QueryTypeOK'
  <2>1. TypeOK'
    BY <1>2 DEF PlanInv
  <2>2. DOMAIN steps = 1..Len(steps) /\ Len(steps) \in Nat
    BY StepsDomain, TypeFacts DEF SearchInv, PlanInv
  <2>3. stored' \subseteq graph'.nodes /\ outs' \cup ins' \subseteq graph'.linked
    BY <1>1 DEF SearchInv, QueryTypeOK, LoseOnly
  <2>4. at' \in Nat \ {0} /\ (pc' = "done" => at' \in DOMAIN steps')
    BY <1>1, <2>2
  <2> QED
    BY <1>1, <2>1, <2>3, <2>4 DEF QueryTypeOK, Modes
<1>4. \A p \in 1..at - 1 : Held(steps[p], bound')
  BY <1>1, PrefixHeld
<1>5. at \in Nat /\ step = steps[at]
  BY <1>1, StepFacts
<1>6. ASSUME NEW p \in 1..Len(steps), Settled(p)'
      PROVE  Held(steps[p], bound')
  <2>1. CASE p < at
    BY <2>1, <1>4, <1>5
  <2>2. CASE p = at /\ Held(step, bound')
    BY <2>2, <1>5
  <2> QED
    BY <1>6, <2>1, <2>2
<1>7. ASSUME NEW p \in 1..Len(steps), Settled(p)'
      PROVE  Held(steps[p], bound)'
  <2>1. PICK s, b : s = steps[p] /\ b = bound'
    OBVIOUS
  <2>2. Held(s, b)
    BY <1>6, <1>7, <2>1
  <2>3. Held(s, b)'
    BY <1>1, <2>2 DEF Held, FitsAsked, LeftEnd, RightEnd
  <2> QED
    BY <1>1, <2>1, <2>3
<1>8. mode' = "ready" => at' = Len(steps')
  BY <1>1
<1> QED
  BY <1>1, <1>2, <1>3, <1>7, <1>8 DEF SearchInv

\* The element of the step is bound, with what the step checks, or left.
LEMMA GoneOn ==
  ASSUME SearchInv, Searching, GoOn, UNCHANGED disturbed, NEW x \in Id,
         bound' = [bound EXCEPT ![step.id] = x],
         Held(step, bound')
  PROVE  SearchInv'
<1>1. /\ at \in 1..Len(steps) /\ at \in Nat /\ Len(steps) \in Nat
      /\ step.id \in Elements(nodesCnt)
  BY StepFacts DEF Searching
<1>2. /\ bound \in [Elements(nodesCnt) -> Id \cup {NoId}]
      /\ building \in BOOLEAN /\ disturbed \in BOOLEAN
      /\ returned \subseteq [Elements(nodesCnt) -> Id \cup {NoId}]
  BY DEF SearchInv, QueryTypeOK
<1>3. /\ bound' \in [Elements(nodesCnt) -> Id \cup {NoId}]
      /\ \A y \in Elements(nodesCnt) : y # step.id => bound'[y] = bound[y]
  BY <1>1, <1>2
<1>4. /\ UNCHANGED <<vars, askedVars, storeVars, building>>
      /\ \/ at = Len(steps) /\ mode' = "ready" /\ at' = at /\ returned' = returned \cup {bound'}
         \/ at # Len(steps) /\ mode' = "enter" /\ at' = at + 1 /\ returned' = returned
  BY DEF GoOn
<1>5. /\ at' \in 1..Len(steps) /\ mode' \in Modes
      /\ mode' = "ready" => at' = Len(steps)
      /\ returned' \subseteq [Elements(nodesCnt) -> Id \cup {NoId}]
      /\ building' \in BOOLEAN /\ disturbed' \in BOOLEAN
      /\ LoseOnly
  BY <1>1, <1>2, <1>3, <1>4 DEF Modes, LoseOnly, storeVars
<1>6. \A p \in 1..Len(steps) : Settled(p)' => p < at \/ (p = at /\ Held(step, bound'))
  BY <1>1, <1>4 DEF Settled
<1> QED
  BY <1>3, <1>4, <1>5, <1>6, Moved

\* The step is left without an element, or the search is.
LEMMA GivenUp ==
  ASSUME SearchInv, Searching, GoBack \/ (\E how \in Modes \ {"ready", "retry"} : Leave(how)),
         bound' = bound \/ (\E x \in Id : bound' = [bound EXCEPT ![step.id] = x]),
         disturbed' \in BOOLEAN
  PROVE  SearchInv'
<1>1. /\ at \in 1..Len(steps) /\ at \in Nat /\ Len(steps) \in Nat
      /\ step.id \in Elements(nodesCnt)
  BY StepFacts DEF Searching
<1>2. /\ bound \in [Elements(nodesCnt) -> Id \cup {NoId}]
      /\ building \in BOOLEAN
      /\ returned \subseteq [Elements(nodesCnt) -> Id \cup {NoId}]
  BY DEF SearchInv, QueryTypeOK
<1>3. /\ bound' \in [Elements(nodesCnt) -> Id \cup {NoId}]
      /\ \A y \in Elements(nodesCnt) : y # step.id => bound'[y] = bound[y]
  BY <1>1, <1>2
<1>4. /\ UNCHANGED <<vars, askedVars, storeVars, building, returned>>
      /\ \/ mode' \in Modes \ {"ready", "retry"} /\ at' = at
         \/ at # 1 /\ mode' = "retry" /\ at' = at - 1
  BY DEF GoBack, Leave, Modes
<1>5. /\ at' \in 1..Len(steps) /\ mode' \in Modes
      /\ mode' = "ready" => at' = Len(steps)
      /\ returned' \subseteq [Elements(nodesCnt) -> Id \cup {NoId}]
      /\ building' \in BOOLEAN
      /\ LoseOnly
  BY <1>1, <1>2, <1>4 DEF Modes, LoseOnly, storeVars
<1>6. \A p \in 1..Len(steps) : Settled(p)' => p < at \/ (p = at /\ Held(step, bound'))
  BY <1>1, <1>4 DEF Settled
<1> QED
  BY <1>3, <1>4, <1>5, <1>6, Moved

(***************************************************************************)
(* The steps                                                               *)
(***************************************************************************)
\* Nodes and edges alternate.
LEMMA Alternate ==
  ASSUME NEW id \in Int
  PROVE  /\ IsNode(id) <=> ~ IsNode(id - 1)
         /\ IsNode(id) <=> ~ IsNode(id + 1)
BY DEF IsNode

\* A constraint names a neighbour that is bound and stays so.
LEMMA Neighbours ==
  ASSUME SearchInv, Searching, NEW x, NEW b, b = [bound EXCEPT ![step.id] = x]
  PROVE  /\ b[step.id] = x
         /\ "left" \in step.constraint =>
              b[step.id - 1] = bound[step.id - 1] /\ FitsAsked(step.id - 1, bound[step.id - 1])
         /\ "right" \in step.constraint =>
              b[step.id + 1] = bound[step.id + 1] /\ FitsAsked(step.id + 1, bound[step.id + 1])
<1>1. /\ step.id \in Elements(nodesCnt) /\ step.id \in Int
      /\ \A p \in 1..at - 1 : p \in 1..Len(steps) /\ Held(steps[p], bound)
      /\ "left" \in step.constraint => \E p \in 1..at - 1 : steps[p].id = step.id - 1
      /\ "right" \in step.constraint => \E p \in 1..at - 1 : steps[p].id = step.id + 1
  BY StepFacts DEF Searching
<1>2. bound \in [Elements(nodesCnt) -> Id \cup {NoId}]
  BY DEF SearchInv, QueryTypeOK
<1>3. \A p \in 1..at - 1 : steps[p].id \in Elements(nodesCnt)
  <2>1. steps \in Seq(Traits(nodesCnt))
    BY TypeFacts DEF SearchInv, PlanInv
  <2>2. \A p \in 1..at - 1 : steps[p] \in Traits(nodesCnt)
    BY <1>1, <2>1, ElementOfSeq
  <2> QED
    BY <2>2 DEF Traits
<1>4. ASSUME NEW y \in Int, y # step.id, \E p \in 1..at - 1 : steps[p].id = y
      PROVE  b[y] = bound[y] /\ FitsAsked(y, bound[y])
  <2>1. PICK p \in 1..at - 1 : steps[p].id = y
    BY <1>4
  <2>2. y \in Elements(nodesCnt) /\ Held(steps[p], bound)
    BY <1>1, <1>3, <2>1
  <2> QED
    BY <1>2, <1>4, <2>1, <2>2 DEF Held
<1>5. step.id - 1 \in Int /\ step.id - 1 # step.id /\ step.id + 1 \in Int /\ step.id + 1 # step.id
  BY <1>1
<1> QED
  BY <1>1, <1>2, <1>4, <1>5

\* An id that was given is bound when it fits; an edge that has its left
\* neighbour is among the edges of it.
LEMMA BoundGiven ==
  ASSUME SearchInv, BindGiven, UNCHANGED disturbed
  PROVE  SearchInv'
<1> DEFINE x == query.given[step.id]
<1>1. /\ Searching /\ step.direct /\ bound' = [bound EXCEPT ![step.id] = x]
      /\ FitsAsked(step.id, x)
      /\ "left" \in step.constraint =>
           /\ ~ IsNode(step.id)
           /\ x \in EdgesOf("left", step.id)
      /\ GoOn
  BY FittedThen DEF BindGiven, EnterGiven, GivenFits, Checked, CanCheck, GivenLinked
<1>2. x \in Id
  BY <1>1, StepFacts, AskedFacts DEF SearchInv, Searching
<1>3. outs \cup ins \subseteq graph.linked
  BY DEF SearchInv, QueryTypeOK
<1> HIDE DEF x
<1>4. /\ bound'[step.id] = x
      /\ "left" \in step.constraint => bound'[step.id - 1] = bound[step.id - 1]
  BY <1>1, Neighbours
<1>5. "left" \in step.constraint =>
        x \in graph.linked /\ LeftEnd(x, query.direction[step.id]) = bound[step.id - 1]
  BY <1>1, <1>3 DEF EdgesOf, InEdges, OutEdges, LeftEnd
<1>6. Held(step, bound')
  BY <1>1, <1>4, <1>5 DEF Held, x
<1> QED
  BY <1>1, <1>2, <1>6, GoneOn

\* A set of ids that is not empty has a first one.
LEMMA FirstId ==
  ASSUME NEW T \in SUBSET Id, T # {}
  PROVE  Min(T) \in T /\ \A y \in T : Min(T) =< y
<1> DEFINE Less == {ss \in Nat \X Nat : ss[1] < ss[2]}
<1>1. IsWellFoundedOn(Less, Nat)
  BY NatLessThanWellFounded, Zenon DEF OpToRel
<1>2. T \subseteq Nat
  BY IteratorAssumption
<1> HIDE DEF Less
<1>3. PICK x \in T : \A y \in T : ~ (<<y, x>> \in Less)
  BY <1>1, <1>2, WFMin, Zenon
<1>4. ASSUME NEW y \in T
      PROVE  x =< y
  <2>1. x \in Nat /\ y \in Nat
    BY <1>2
  <2>2. ~ (y < x)
    BY <1>3, <2>1 DEF Less
  <2> QED
    BY <2>1, <2>2
<1> QED
  BY <1>4 DEF Min

\* What is chosen is one of what is offered: an edge in the sets of all
\* neighbours it has.
LEMMA Chosen ==
  ASSUME SearchInv, Choose, UNCHANGED disturbed
  PROVE  SearchInv'
<1> DEFINE x == Min(Fitting)
<1>1. /\ Searching /\ ~ step.direct /\ Fitting # {}
      /\ IsNode(step.id) => step.constraint = {}
      /\ bound' = [bound EXCEPT ![step.id] = x]
      /\ GoOn
  BY DEF Choose, Choosing
<1>2. stored \subseteq Id /\ graph.linked \subseteq Id
  BY AskedFacts DEF SearchInv, QueryTypeOK
<1>3. \A c \in Fitting : c \in Offered /\ FitsAsked(step.id, c) /\ c \in Id
  BY <1>2, FittedThen DEF Fitting, Remaining, Offered, NodesBehind
<1>4. PICK T : T = Fitting
  OBVIOUS
<1>5. Min(T) \in T
  BY <1>1, <1>3, <1>4, FirstId
<1>6. x \in Offered /\ FitsAsked(step.id, x) /\ x \in Id
  BY <1>3, <1>4, <1>5
<1> HIDE DEF x
<1>7. /\ bound'[step.id] = x
      /\ "left" \in step.constraint => bound'[step.id - 1] = bound[step.id - 1]
      /\ "right" \in step.constraint => bound'[step.id + 1] = bound[step.id + 1]
  BY <1>1, Neighbours
<1>8. ASSUME ~ IsNode(step.id)
      PROVE  /\ x \in graph.linked
             /\ "left" \in step.constraint =>
                  LeftEnd(x, query.direction[step.id]) = bound[step.id - 1]
             /\ "right" \in step.constraint =>
                  RightEnd(x, query.direction[step.id]) = bound[step.id + 1]
  BY <1>2, <1>6, <1>8 DEF Offered, EdgesOf, InEdges, OutEdges, LeftEnd, RightEnd
<1>9. Held(step, bound')
  BY <1>1, <1>6, <1>7, <1>8 DEF Held
<1> QED
  BY <1>1, <1>6, <1>9, GoneOn

\* The end of a bound edge is an id.
LEMMA ReachedId ==
  ASSUME SearchInv, Searching, IsNode(step.id), step.constraint # {}
  PROVE  Reached \in Id
<1>1. /\ step.constraint \in SUBSET Sides /\ step.id \in Int
      /\ ~ IsNode(step.id - 1) /\ ~ IsNode(step.id + 1)
  BY StepFacts, Alternate DEF Searching
<1>2. graph.ends \in [DOMAIN graph.ends -> [from : Id, to : Id]]
  BY AskedFacts DEF SearchInv
<1>3. \A e \in DOMAIN graph.ends : graph.ends[e].from \in Id /\ graph.ends[e].to \in Id
  BY <1>2
<1>4. PICK b : b = [bound EXCEPT ![step.id] = NoId]
  OBVIOUS
<1>5. /\ "left" \in step.constraint => bound[step.id - 1] \in DOMAIN graph.ends
      /\ "right" \in step.constraint => bound[step.id + 1] \in DOMAIN graph.ends
  BY <1>1, <1>4, Neighbours DEF FitsAsked
<1>6. "left" \in step.constraint \/ "right" \in step.constraint
  BY <1>1 DEF Sides
<1> QED
  BY <1>3, <1>5, <1>6 DEF Reached, FromLeft, FromRight, EndOf

\* A node reached from its left edge is the right end of that edge.
LEMMA Followed ==
  ASSUME SearchInv, Follow, UNCHANGED disturbed
  PROVE  SearchInv'
<1> DEFINE x == Reached
<1>1. /\ Searching /\ ~ step.direct /\ IsNode(step.id) /\ step.constraint # {}
      /\ bound' = [bound EXCEPT ![step.id] = x]
      /\ FitsAsked(step.id, x)
      /\ GoOn
  BY FittedThen DEF Follow, Reach, Following, ReachedFits
<1>2. x \in Id
  BY <1>1, ReachedId
<1>3. "left" \in step.constraint =>
        x = RightEnd(bound[step.id - 1], query.direction[step.id - 1])
  BY DEF Reached, FromLeft, EndOf, RightEnd
<1> HIDE DEF x
<1>4. /\ bound'[step.id] = x
      /\ "left" \in step.constraint => bound'[step.id - 1] = bound[step.id - 1]
  BY <1>1, Neighbours
<1>5. Held(step, bound')
  BY <1>1, <1>3, <1>4 DEF Held
<1> QED
  BY <1>1, <1>2, <1>5, GoneOn

\* The steps that end the search, or go back.
LEMMA Left ==
  ASSUME SearchInv,
         \/ GivenDoesNotFit \/ GivenAborts \/ GivenThrows \/ GivenRetried \/ NoChoice \/ SeekAborts
         \/ DoesNotFit \/ FollowAborts \/ FollowThrows \/ FollowedRetried
         \/ FallsOffFalse \/ FallsOffEndless,
         disturbed' \in BOOLEAN
  PROVE  SearchInv'
<1>1. Searching
  BY DEF GivenDoesNotFit, GivenAborts, GivenThrows, GivenRetried, NoChoice, SeekAborts, Choosing,
    DoesNotFit, FollowAborts, FollowThrows, FollowedRetried, FallsOffFalse, FallsOffEndless,
    EnterGiven, Reach, Following
<1>2. GoBack \/ (\E how \in Modes \ {"ready", "retry"} : Leave(how))
  <2>1. {"end", "thrown", "aborted"} \subseteq Modes \ {"ready", "retry"}
    BY DEF Modes
  <2>2. GoBack \/ Leave("end") \/ Leave("thrown") \/ Leave("aborted")
    BY DEF GivenDoesNotFit, GivenAborts, GivenThrows, GivenRetried, NoChoice, SeekAborts,
      DoesNotFit, FollowAborts, FollowThrows, FollowedRetried, FallsOffFalse, FallsOffEndless
  <2> QED
    BY <2>1, <2>2
<1>3. CASE EnterGiven
  <2>1. query.given[step.id] \in Id
    BY <1>3, StepFacts, AskedFacts DEF SearchInv, EnterGiven, Searching
  <2>2. \E x \in Id : bound' = [bound EXCEPT ![step.id] = x]
    BY <1>3, <2>1 DEF EnterGiven
  <2> QED
    BY <1>1, <1>2, <2>2, GivenUp
<1>4. CASE Reach
  <2>1. Reached \in Id
    BY <1>4, ReachedId DEF Reach, Following
  <2>2. \E x \in Id : bound' = [bound EXCEPT ![step.id] = x]
    BY <1>4, <2>1 DEF Reach
  <2> QED
    BY <1>1, <1>2, <2>2, GivenUp
<1>5. CASE bound' = bound
  BY <1>1, <1>2, <1>5, GivenUp
<1> QED
  BY <1>3, <1>4, <1>5
    DEF GivenDoesNotFit, GivenAborts, GivenThrows, GivenRetried, NoChoice, SeekAborts,
        DoesNotFit, FollowAborts, FollowThrows, FollowedRetried, FallsOffFalse, FallsOffEndless

\* The planner binds nothing.
LEMMA Planned ==
  ASSUME SearchInv, Planning
  PROVE  SearchInv'
<1>1. Next /\ UNCHANGED <<searchVars, askedVars, storeVars, disturbed>>
  BY DEF Planning
<1>2. pc # "done"
  BY <1>1 DEF Next, AcquireDirectly, AllAcquired, FillGap, FillLastGap
<1>3. nodesCnt' = nodesCnt /\ acquired' = acquired
  BY <1>1 DEF Next, AcquireDirectly, AllAcquired, FillGap, FillLastGap
<1>4. /\ bound' = bound /\ at' = at /\ mode' = mode /\ building' = building
      /\ returned' = returned /\ graph' = graph /\ query' = query
      /\ stored' = stored /\ outs' = outs /\ ins' = ins /\ disturbed' = disturbed
  BY <1>1 DEF searchVars, askedVars, storeVars
<1>5. at = 1 /\ mode = "enter"
  BY <1>2 DEF SearchInv
<1>6. PlanInv' /\ DirectFromLeft' /\ Asked'
  <2>1. PlanInv'
    BY <1>1, PlanStep DEF SearchInv
  <2>2. DirectFromLeft'
    BY <1>1, PlansDirectFromLeft DEF SearchInv
  <2>3. Asked'
    BY <1>3, <1>4 DEF SearchInv, Asked
  <2> QED
    BY <2>1, <2>2, <2>3
<1>7. pc' = "done" => 1 \in DOMAIN steps'
  <2>1. /\ nodesCnt' \in Nat \ {0} /\ Len(steps') \in Nat
        /\ DOMAIN steps' = 1..Len(steps')
    <3>1. TypeOK' /\ PlanInv'
      BY <1>6 DEF PlanInv
    <3>2. nodesCnt' \in Nat \ {0} /\ steps' \in Seq(Traits(nodesCnt'))
      BY <3>1, PatternAssumption DEF TypeOK, Traits
    <3> QED
      BY <3>2, LenProperties
  <2>2. pc' = "done" => \A x \in Elements(nodesCnt') : \E p \in 1..Len(steps') : steps'[p].id = x
    BY <1>6 DEF PlanInv, Placed
  <2>3. 0 \in Elements(nodesCnt')
    <3>1. PICK n \in Nat \ {0} : n = nodesCnt'
      BY <2>1
    <3>2. 0 \in Elements(n)
      BY DEF Elements
    <3> QED
      BY <3>1, <3>2
  <2> QED
    BY <2>1, <2>2, <2>3
<1>8. QueryTypeOK'
  <2>1. TypeOK'
    BY <1>6 DEF PlanInv
  <2> QED
    BY <1>3, <1>4, <1>5, <1>7, <2>1 DEF SearchInv, QueryTypeOK
<1>9. \A p \in 1..Len(steps') : ~ Settled(p)'
  BY <1>4, <1>5 DEF Settled
<1> QED
  BY <1>4, <1>5, <1>6, <1>8, <1>9 DEF SearchInv, Settled

\* Nothing is settled at first.
LEMMA SearchInit == QueryInit => SearchInv
<1> SUFFICES ASSUME QueryInit
             PROVE  SearchInv
  OBVIOUS
<1>1. PlanInv
  BY InitOfPlan, InitPlan
<1>2. steps = <<>> /\ Len(steps) = 0 /\ pc = "direct" /\ TypeOK
  BY <1>1, InitOfPlan DEF Init, PlanInv
<1>3. DirectFromLeft
  BY <1>2 DEF DirectFromLeft
<1>4. Asked
  BY DEF QueryInit, Asked
<1>5. QueryTypeOK
  <2>1. bound \in [Elements(nodesCnt) -> Id \cup {NoId}]
    BY DEF QueryInit
  <2>2. /\ stored \subseteq graph.nodes /\ outs \cup ins \subseteq graph.linked
        /\ at = 1 /\ pc # "done" /\ mode = "enter"
        /\ building \in BOOLEAN /\ disturbed \in BOOLEAN /\ returned = {}
    BY <1>2 DEF QueryInit
  <2> QED
    BY <1>2, <2>1, <2>2 DEF QueryTypeOK
<1>6. at = 1 /\ mode = "enter"
  BY DEF QueryInit
<1>7. \A p \in 1..Len(steps) : FALSE
  BY <1>2
<1> QED
  BY <1>1, <1>2, <1>3, <1>4, <1>5, <1>6, <1>7 DEF SearchInv

\* Every step keeps the invariant.
LEMMA SearchStep == SearchInv /\ [QueryNext]_queryVars => SearchInv'
<1> SUFFICES ASSUME SearchInv, [QueryNext]_queryVars
             PROVE  SearchInv'
  OBVIOUS
<1>1. CASE Planning
  BY <1>1, Planned
<1>2. CASE Search /\ UNCHANGED disturbed
  <2>1. disturbed' \in BOOLEAN
    BY <1>2 DEF SearchInv, QueryTypeOK
  <2> QED
    BY <1>2, <2>1, BoundGiven, Chosen, Followed, Left DEF Search
<1>3. CASE FallingOff
  <2>1. disturbed' \in BOOLEAN
    BY <1>3 DEF FallingOff, FallsOffFalse, FallsOffEndless
  <2> QED
    BY <1>3, <2>1, Left DEF FallingOff
<1>4. CASE \/ Increment \/ UNCHANGED queryVars
           \/ \E e \in outs \cup ins : RemoveEdge(e)
           \/ \E n \in stored : RemoveNode(n)
  <2>1. /\ UNCHANGED vars /\ UNCHANGED askedVars
        /\ bound' = bound /\ at' = at /\ returned' = returned
        /\ LoseOnly
        /\ building' \in BOOLEAN /\ disturbed' \in BOOLEAN
        /\ mode' = mode \/ (mode = "ready" /\ mode' = "retry")
    BY <1>4 DEF Increment, RemoveEdge, RemoveNode, LoseOnly, queryVars, searchVars, askedVars,
      storeVars, SearchInv, QueryTypeOK
  <2>2. /\ pc' = pc /\ steps' = steps /\ nodesCnt' = nodesCnt /\ acquired' = acquired
        /\ i' = i /\ directSize' = directSize /\ graph' = graph /\ query' = query
    BY <2>1 DEF vars, askedVars
  <2>3. PlanInv' /\ DirectFromLeft' /\ Asked'
    <3>1. PlanInv'
      BY <2>1, PlanStep DEF SearchInv
    <3> QED
      BY <3>1, <2>2 DEF SearchInv, DirectFromLeft, Asked
  <2>4. QueryTypeOK'
    <3>1. TypeOK'
      BY <2>3 DEF PlanInv
    <3>2. stored' \subseteq graph'.nodes /\ outs' \cup ins' \subseteq graph'.linked
      BY <2>1, <2>2 DEF SearchInv, QueryTypeOK, LoseOnly
    <3> QED
      BY <2>1, <2>2, <3>1, <3>2 DEF SearchInv, QueryTypeOK
  <2>5. ASSUME NEW p \in 1..Len(steps), Settled(p)'
        PROVE  Held(steps[p], bound)'
    <3>1. Settled(p)
      BY <2>1, <2>5 DEF Settled
    <3>2. Held(steps[p], bound)
      BY <3>1 DEF SearchInv
    <3> QED
      BY <2>1, <2>2, <3>2 DEF Held, FitsAsked, LeftEnd, RightEnd
  <2>6. pc' # "done" => at' = 1 /\ mode' = "enter"
    BY <2>1, <2>2 DEF SearchInv
  <2>7. mode' = "ready" => at' = Len(steps')
    BY <2>1, <2>2 DEF SearchInv
  <2> QED
    BY <2>2, <2>3, <2>4, <2>5, <2>6, <2>7 DEF SearchInv
<1> QED
  BY <1>1, <1>2, <1>3, <1>4 DEF QueryNext, Running

\* So it always holds.
LEMMA SearchAlways == QuerySpec => []SearchInv
BY SearchInit, SearchStep, PTL DEF QuerySpec

\* An edge is between two nodes of the pattern.
LEMMA EdgeInside ==
  ASSUME nodesCnt \in Nat, NEW id \in Elements(nodesCnt), ~ IsNode(id)
  PROVE  /\ id \in Int /\ id - 1 \in Elements(nodesCnt) /\ id + 1 \in Elements(nodesCnt)
         /\ IsNode(id - 1) /\ IsNode(id + 1)
         /\ (id - 1) + 1 = id /\ (id + 1) - 1 = id
<1>1. id \in Int /\ 0 <= id /\ id <= 2 * nodesCnt - 2
  BY DEF Elements
<1>2. id # 0 /\ id # 2 * nodesCnt - 2
  <2>1. IsNode(0) /\ IsNode(2 * nodesCnt - 2)
    BY DEF IsNode
  <2> QED
    BY <2>1
<1> QED
  BY <1>1, <1>2, Alternate DEF Elements

\* What is settled at the end of the plan is a match.
LEMMA MatchHeld == SearchInv => ResultsMatch
<1> SUFFICES ASSUME SearchInv, mode = "ready", Directed, NoneFromRight
             PROVE  IsMatch(bound, graph.nodes, graph.linked)
  BY DEF ResultsMatch
<1>1. pc = "done" /\ at = Len(steps)
  BY DEF SearchInv
<1>2. /\ DOMAIN steps = 1..Len(steps) /\ Len(steps) \in Nat
      /\ nodesCnt \in Nat /\ MaxId \in Nat /\ MaxId = 2 * nodesCnt - 2
  BY StepsDomain, TypeFacts DEF SearchInv, PlanInv
<1>3. \A p \in 1..Len(steps) : Held(steps[p], bound)
  BY <1>1, <1>2 DEF SearchInv, Settled
<1>4. \A x \in Elements(nodesCnt) : \E p \in 1..Len(steps) : steps[p].id = x
  BY <1>1 DEF SearchInv, PlanInv, Placed
<1>5. \A p \in 1..Len(steps) :
        /\ steps[p].direct <=> steps[p].id \in acquired
        /\ steps[p].direct => "right" \notin steps[p].constraint
        /\ ("left" \in steps[p].constraint) <=> \E q \in 1..p - 1 : steps[q].id = steps[p].id - 1
        /\ ("right" \in steps[p].constraint) <=> \E q \in 1..p - 1 : steps[q].id = steps[p].id + 1
  BY DEF SearchInv, PlanInv, Tagged, DirectFromLeft, Exact
<1>6. /\ graph.ends \in [DOMAIN graph.ends -> [from : Id, to : Id]]
      /\ query.direction \in
           [{id \in Elements(nodesCnt) : ~ IsNode(id)} -> {"next", "prev", "both"}]
  BY AskedFacts DEF SearchInv
<1>7. ASSUME NEW id \in Elements(nodesCnt)
      PROVE  FitsAsked(id, bound[id]) /\ (id \in acquired => bound[id] = query.given[id])
  BY <1>3, <1>4, <1>5 DEF Held
<1>8. ASSUME NEW id \in Elements(nodesCnt), ~ IsNode(id)
      PROVE  /\ bound[id] \in graph.linked
             /\ LeftEnd(bound[id], query.direction[id]) = bound[id - 1]
             /\ RightEnd(bound[id], query.direction[id]) = bound[id + 1]
  <2>1. /\ id \in Int /\ id - 1 \in Elements(nodesCnt) /\ id + 1 \in Elements(nodesCnt)
        /\ IsNode(id - 1) /\ IsNode(id + 1)
        /\ (id - 1) + 1 = id /\ (id + 1) - 1 = id
    BY <1>2, <1>8, EdgeInside
  <2>2. PICK p \in 1..Len(steps) : steps[p].id = id
    BY <1>4
  <2>3. PICK l \in 1..Len(steps) : steps[l].id = id - 1
    BY <1>4, <2>1
  <2>4. PICK r \in 1..Len(steps) : steps[r].id = id + 1
    BY <1>4, <2>1
  <2>5. l # p /\ r # p
    BY <2>1, <2>2, <2>3, <2>4
  \* the node on the left was there first
  <2>6. l \in 1..p - 1
    <3>1. "right" \notin steps[l].constraint
      BY <1>2, <2>1, <2>3 DEF NoneFromRight
    <3>2. ~ p \in 1..l - 1
      <4>1. steps[p].id = steps[l].id + 1
        BY <2>1, <2>2, <2>3
      <4> QED
        BY <1>5, <3>1, <4>1
    <3> QED
      BY <1>2, <2>5, <3>2
  <2>7. "left" \in steps[p].constraint
    BY <1>5, <2>2, <2>3, <2>6
  <2>8. bound[id] \in graph.linked /\ LeftEnd(bound[id], query.direction[id]) = bound[id - 1]
    BY <1>3, <1>8, <2>2, <2>7 DEF Held
  <2>9. RightEnd(bound[id], query.direction[id]) = bound[id + 1]
    <3>1. CASE r \in 1..p - 1
      <4>1. "right" \in steps[p].constraint
        BY <1>5, <2>2, <2>4, <3>1
      <4> QED
        BY <1>3, <1>5, <1>8, <2>2, <4>1 DEF Held
    <3>2. CASE p \in 1..r - 1
      <4>1. "left" \in steps[r].constraint
        BY <1>5, <2>1, <2>2, <2>4, <3>2
      <4> QED
        BY <1>3, <2>1, <2>4, <4>1 DEF Held
    <3> QED
      BY <1>2, <2>5, <3>1, <3>2
  <2> QED
    BY <2>8, <2>9
<1>9. ASSUME NEW id \in Elements(nodesCnt), ~ IsNode(id)
      PROVE  graph.ends[bound[id]] =
               [from |-> IF query.direction[id] = "prev" THEN bound[id + 1] ELSE bound[id - 1],
                to |-> IF query.direction[id] = "prev" THEN bound[id - 1] ELSE bound[id + 1]]
  <2>1. query.direction[id] \in {"next", "prev"}
    BY <1>6, <1>9 DEF Directed
  <2>2. bound[id] \in DOMAIN graph.ends
    BY <1>7, <1>9 DEF FitsAsked
  <2>3. graph.ends[bound[id]] \in [from : Id, to : Id]
    BY <1>6, <2>2
  <2>4. /\ LeftEnd(bound[id], query.direction[id]) = bound[id - 1]
        /\ RightEnd(bound[id], query.direction[id]) = bound[id + 1]
    BY <1>8, <1>9
  <2> QED
    BY <2>1, <2>3, <2>4 DEF LeftEnd, RightEnd
<1> QED
  BY <1>7, <1>8, <1>9 DEF IsMatch, FitsAsked

(***************************************************************************)
(* The theorems on each result                                             *)
(***************************************************************************)
\* The planner inside the iterator behaves as the planner alone: what is
\* proved of its plans holds of those the search follows.
THEOREM PlansInside == QuerySpec => Spec
<1>1. QueryInit => Init
  BY InitOfPlan
<1>2. [QueryNext]_queryVars => [Next]_vars
  BY StepOfPlan
<1> QED
  BY <1>1, <1>2, PTL DEF QuerySpec, Spec

\* The fields of the iterator keep their types: in particular the position
\* never leaves the plan, however far the search goes back.
THEOREM QueryTypeCorrect == QuerySpec => []QueryTypeOK
<1>1. SearchInv => QueryTypeOK
  BY DEF SearchInv
<1> QED
  BY <1>1, SearchAlways, PTL

\* For every graph and every pattern in which no node is found from the
\* right, a result is a match, whatever was backtracked over or removed.
THEOREM ResultsAlwaysMatch == QuerySpec => []ResultsMatch
BY MatchHeld, SearchAlways, PTL

(***************************************************************************)
(* No result twice: in the order of the plan, every result so far comes    *)
(* before what the search has bound (PastInv), since retrying a step binds *)
(* a larger id there.                                                      *)
(***************************************************************************)
\* r and b bind the first p elements of the plan alike.
Same(r, b, p) == \A q \in 1..p : r[steps[q].id] = b[steps[q].id]

\* r differs from b first at position p of the plan, and is smaller there.
Before(r, b, p) == Same(r, b, p - 1) /\ r[steps[p].id] < b[steps[p].id]

\* The results so far, against what is bound.
PastInv ==
  /\ pc # "done" => returned = {}
  /\ mode = "enter" => \A r \in returned : \E p \in 1..at - 1 : Before(r, bound, p)
  /\ mode \in {"ready", "retry"} =>
       \A r \in returned : Same(r, bound, at) \/ \E p \in 1..at : Before(r, bound, p)

\* Elements of results and of what is bound are numbers.
LEMMA NumbersBound ==
  ASSUME SearchInv
  PROVE  /\ \A y \in Elements(nodesCnt) : bound[y] \in Nat
         /\ \A r \in returned, y \in Elements(nodesCnt) : r[y] \in Nat
<1>1. Id \cup {NoId} \subseteq Nat
  BY IteratorAssumption
<1> QED
  BY <1>1 DEF SearchInv, QueryTypeOK

\* Binding the element of a step leaves the elements of those before it.
LEMMA PrefixKept ==
  ASSUME SearchInv, pc = "done",
         NEW b, \A y \in Elements(nodesCnt) : y # step.id => b[y] = bound[y]
  PROVE  /\ at \in Nat
         /\ \A q \in 1..at - 1 :
              steps[q].id \in Elements(nodesCnt) /\ b[steps[q].id] = bound[steps[q].id]
<1>1. /\ \A q \in 1..at - 1 : q \in 1..Len(steps) /\ steps[q].id # step.id
      /\ at \in Nat
  BY StepFacts
<1>2. \A q \in 1..at - 1 : steps[q].id \in Elements(nodesCnt)
  <2>1. steps \in Seq(Traits(nodesCnt))
    BY TypeFacts DEF SearchInv, PlanInv
  <2>2. \A q \in 1..at - 1 : steps[q] \in Traits(nodesCnt)
    BY <1>1, <2>1, ElementOfSeq
  <2> QED
    BY <2>2 DEF Traits
<1> QED
  BY <1>1, <1>2

\* So it leaves the comparisons before it alone.
LEMMA ComparedBefore ==
  ASSUME SearchInv, pc = "done",
         NEW b, \A y \in Elements(nodesCnt) : y # step.id => b[y] = bound[y],
         NEW r, NEW p \in 1..at - 1
  PROVE  /\ Same(r, bound, p) => Same(r, b, p)
         /\ Before(r, bound, p) => Before(r, b, p)
<1>1. at \in Nat /\ \A q \in 1..at - 1 : b[steps[q].id] = bound[steps[q].id]
  BY PrefixKept
<1>2. p \in 1..p /\ (\A q \in 1..p : q \in 1..at - 1) /\ \A q \in 1..p - 1 : q \in 1..p
  BY <1>1
<1> QED
  BY <1>1, <1>2 DEF Same, Before

\* A step that binds its element, to a larger id when it is retried, leaves
\* every result behind.
LEMMA LeftBehind ==
  ASSUME SearchInv, PastInv, Searching, NEW x \in Id,
         bound' = [bound EXCEPT ![step.id] = x],
         mode = "retry" => bound[step.id] < x
  PROVE  \A r \in returned : \E p \in 1..at : Before(r, bound', p)
<1>1. /\ at \in Nat /\ at \in 1..at /\ step = steps[at] /\ step.id \in Elements(nodesCnt)
      /\ pc = "done" /\ mode \in {"enter", "retry"}
  BY StepFacts DEF Searching
<1>2. bound \in [Elements(nodesCnt) -> Id \cup {NoId}]
  BY DEF SearchInv, QueryTypeOK
<1>3. PICK b : b = bound'
  OBVIOUS
<1>4. b[step.id] = x /\ \A y \in Elements(nodesCnt) : y # step.id => b[y] = bound[y]
  BY <1>1, <1>2, <1>3
<1>5. \A r : \A p \in 1..at - 1 :
        (Same(r, bound, p) => Same(r, b, p)) /\ (Before(r, bound, p) => Before(r, b, p))
  BY <1>1, <1>4, ComparedBefore
<1>6. x \in Nat /\ bound[step.id] \in Nat /\ \A r \in returned : r[step.id] \in Nat
  BY <1>1, NumbersBound, IteratorAssumption
<1>7. ASSUME NEW r \in returned
      PROVE  \E p \in 1..at : Before(r, b, p)
  <2>1. CASE \E p \in 1..at - 1 : Before(r, bound, p)
    BY <2>1, <1>1, <1>5
  <2>2. ASSUME mode = "retry", Same(r, bound, at - 1), r[step.id] =< bound[step.id]
        PROVE  Before(r, b, at)
    <3>1. Same(r, b, at - 1)
      <4>1. CASE at = 1
        BY <4>1 DEF Same
      <4>2. CASE at # 1
        BY <4>2, <1>1, <1>5, <2>2
      <4> QED
        BY <4>1, <4>2
    <3>2. r[step.id] < b[step.id]
      BY <1>4, <1>6, <2>2
    <3> QED
      BY <3>1, <3>2, <1>1 DEF Before
  <2>3. CASE mode = "retry" /\ Same(r, bound, at)
    <3>1. Same(r, bound, at - 1) /\ r[step.id] = bound[step.id]
      BY <1>1, <2>3 DEF Same
    <3> QED
      BY <1>1, <1>6, <2>2, <2>3, <3>1
  <2>4. CASE mode = "retry" /\ Before(r, bound, at)
    <3>1. Same(r, bound, at - 1) /\ r[step.id] < bound[step.id]
      BY <1>1, <2>4 DEF Before
    <3> QED
      BY <1>1, <1>6, <2>2, <2>4, <3>1
  <2>5. \A p \in 1..at : p \in 1..at - 1 \/ p = at
    BY <1>1
  <2>6. \/ \E p \in 1..at - 1 : Before(r, bound, p)
        \/ mode = "retry" /\ (Same(r, bound, at) \/ Before(r, bound, at))
    BY <1>1, <2>5 DEF PastInv
  <2> QED
    BY <2>1, <2>3, <2>4, <2>6
<1> QED
  BY <1>3, <1>7

\* Such a step keeps the invariant, and a result it finds is new.
LEMMA WentOn ==
  ASSUME SearchInv, PastInv, Searching, NEW x \in Id, GoOn,
         bound' = [bound EXCEPT ![step.id] = x],
         mode = "retry" => bound[step.id] < x
  PROVE  PastInv' /\ bound' \notin returned
<1>1. \A r \in returned : \E p \in 1..at : Before(r, bound', p)
  BY LeftBehind
<1>2. /\ at \in Nat /\ Len(steps) \in Nat /\ at \in 1..Len(steps) /\ pc = "done"
  BY StepFacts DEF Searching
<1>3. /\ steps' = steps /\ pc' = pc
      /\ \/ mode' = "ready" /\ at' = at /\ returned' = returned \cup {bound'}
         \/ mode' = "enter" /\ at' = at + 1 /\ returned' = returned
  BY DEF GoOn, vars
<1>4. PICK b : b = bound'
  OBVIOUS
<1>5. bound' \notin returned
  <2> SUFFICES ASSUME bound' \in returned
               PROVE  FALSE
    OBVIOUS
  <2>1. PICK p \in 1..at : Before(b, b, p)
    BY <1>1, <1>4
  <2>2. b[steps[p].id] < b[steps[p].id]
    BY <2>1 DEF Before
  <2>3. b[steps[p].id] \in Nat
    <3>1. steps \in Seq(Traits(nodesCnt)) /\ p \in 1..Len(steps)
      BY <1>2, TypeFacts DEF SearchInv, PlanInv
    <3>2. steps[p].id \in Elements(nodesCnt)
      <4>1. steps[p] \in Traits(nodesCnt)
        BY <3>1, ElementOfSeq
      <4> QED
        BY <4>1 DEF Traits
    <3> QED
      BY <1>4, <3>2, NumbersBound
  <2> QED
    BY <2>2, <2>3
<1>6. \A r, p : /\ Same(r, b, p)' <=> Same(r, b', p)
                /\ Before(r, bound, p)' <=> Before(r, b, p)
                /\ Same(r, bound, p)' <=> Same(r, b, p)
  BY <1>3, <1>4 DEF Same, Before
<1>7. Same(b, b, at)
  BY DEF Same
<1>8. (at + 1) - 1 = at
  BY <1>2
<1>9. CASE mode' = "ready" /\ at' = at /\ returned' = returned \cup {bound'}
  <2>1. \A r \in returned' : Same(r, b, at) \/ \E p \in 1..at : Before(r, b, p)
    BY <1>1, <1>4, <1>7, <1>9
  <2> QED
    BY <1>2, <1>3, <1>5, <1>6, <1>9, <2>1 DEF PastInv
<1>10. CASE mode' = "enter" /\ at' = at + 1 /\ returned' = returned
  <2>1. \A r \in returned' : \E p \in 1..at' - 1 : Before(r, b, p)
    BY <1>1, <1>4, <1>8, <1>10
  <2> QED
    BY <1>2, <1>3, <1>5, <1>6, <1>10, <2>1 DEF PastInv
<1> QED
  BY <1>3, <1>5, <1>9, <1>10

\* Going back, or ending, leaves the comparisons before the step alone.
LEMMA WentBack ==
  ASSUME SearchInv, PastInv, Searching,
         GoBack \/ (\E how \in {"end", "thrown", "aborted"} : Leave(how)),
         bound' = bound \/ (\E x \in Id : bound' = [bound EXCEPT ![step.id] = x])
  PROVE  PastInv' /\ mode' # "ready"
<1>1. /\ at \in Nat /\ at \in 1..Len(steps) /\ step = steps[at] /\ step.id \in Elements(nodesCnt)
      /\ pc = "done" /\ mode \in {"enter", "retry"}
  BY StepFacts DEF Searching
<1>2. bound \in [Elements(nodesCnt) -> Id \cup {NoId}]
  BY DEF SearchInv, QueryTypeOK
<1>3. PICK b : b = bound'
  OBVIOUS
<1>4. \A y \in Elements(nodesCnt) : y # step.id => b[y] = bound[y]
  BY <1>1, <1>2, <1>3
<1>5. \A r : \A p \in 1..at - 1 :
        (Same(r, bound, p) => Same(r, b, p)) /\ (Before(r, bound, p) => Before(r, b, p))
  BY <1>1, <1>4, ComparedBefore
<1>6. /\ steps' = steps /\ pc' = pc /\ returned' = returned
      /\ \/ mode' \notin {"ready", "retry", "enter"}
         \/ mode' = "retry" /\ at # 1 /\ at' = at - 1
  BY DEF GoBack, Leave, vars
<1>7. \A r, p : /\ Before(r, bound, p)' <=> Before(r, b, p)
                /\ Same(r, bound, p)' <=> Same(r, b, p)
  BY <1>3, <1>6 DEF Same, Before
<1>8. CASE mode' \notin {"ready", "retry", "enter"}
  BY <1>1, <1>6, <1>8 DEF PastInv
<1>9. CASE mode' = "retry" /\ at # 1 /\ at' = at - 1
  <2>1. ASSUME NEW r \in returned
        PROVE  Same(r, b, at - 1) \/ \E p \in 1..at - 1 : Before(r, b, p)
    <3>1. \/ \E p \in 1..at - 1 : Before(r, bound, p)
          \/ Same(r, bound, at) \/ Before(r, bound, at)
      <4>1. \A p \in 1..at : p \in 1..at - 1 \/ p = at
        BY <1>1
      <4> QED
        BY <1>1, <4>1 DEF PastInv
    <3>2. Same(r, bound, at) \/ Before(r, bound, at) => Same(r, bound, at - 1)
      BY <1>1 DEF Same, Before
    <3>3. at - 1 \in 1..at - 1
      BY <1>1, <1>9
    <3> QED
      BY <1>5, <3>1, <3>2, <3>3
  <2> QED
    BY <1>1, <1>6, <1>7, <1>9, <2>1 DEF PastInv
<1> QED
  BY <1>6, <1>8, <1>9

\* What a retried step chooses is larger than what it had.
LEMMA ChosenLarger ==
  ASSUME SearchInv, Choose
  PROVE  Min(Fitting) \in Id /\ (mode = "retry" => bound[step.id] < Min(Fitting))
<1>1. stored \subseteq Id /\ graph.linked \subseteq Id
  BY AskedFacts DEF SearchInv, QueryTypeOK
<1>2. \A c \in Fitting : c \in Id /\ (mode = "retry" => c > bound[step.id])
  <2>1. CASE mode = "enter"
    BY <1>1, <2>1 DEF Fitting, Remaining, Offered
  <2>2. CASE mode # "enter"
    BY <1>1, <2>2 DEF Fitting, Remaining, Offered, NodesBehind
  <2> QED
    BY <2>1, <2>2
<1>3. PICK T : T = Fitting
  OBVIOUS
<1>4. Min(T) \in T
  BY <1>2, <1>3, FirstId DEF Choose
<1>5. Min(Fitting) \in Fitting
  BY <1>3, <1>4
<1>6. PICK c : c = Min(Fitting)
  OBVIOUS
<1>7. c \in Id /\ (mode = "retry" => c > bound[step.id])
  BY <1>2, <1>5, <1>6
<1>8. step.id \in Elements(nodesCnt)
  BY StepFacts DEF Choose, Choosing, Searching
<1>9. c \in Nat /\ bound[step.id] \in Nat
  BY <1>7, <1>8, NumbersBound, IteratorAssumption
<1> QED
  BY <1>6, <1>7, <1>9

\* There are no results at first.
LEMMA PastInit == QueryInit => PastInv
<1> SUFFICES ASSUME QueryInit
             PROVE  PastInv
  OBVIOUS
<1>1. returned = {}
  BY DEF QueryInit
<1> QED
  BY <1>1 DEF PastInv

\* Every step keeps the invariant, and a result it finds is new.
LEMMA PastStep ==
  ASSUME SearchInv, PastInv, [QueryNext]_queryVars
  PROVE  PastInv' /\ (mode # "ready" /\ mode' = "ready" => bound' \notin returned)
<1>1. CASE Planning
  <2>1. pc # "done"
    BY <1>1 DEF Planning, Next, AcquireDirectly, AllAcquired, FillGap, FillLastGap
  <2>2. mode = "enter" /\ returned = {}
    BY <2>1 DEF SearchInv, PastInv
  <2>3. mode' = mode /\ returned' = returned
    BY <1>1 DEF Planning, searchVars
  <2> QED
    BY <2>2, <2>3 DEF PastInv
<1>2. CASE BindGiven
  <2>1. /\ Searching /\ mode = "enter" /\ step.direct /\ GoOn
        /\ bound' = [bound EXCEPT ![step.id] = query.given[step.id]]
    BY <1>2 DEF BindGiven, EnterGiven
  <2>2. query.given[step.id] \in Id
    BY <2>1, StepFacts, AskedFacts DEF SearchInv, Searching
  <2> QED
    BY <2>1, <2>2, WentOn
<1>3. CASE Choose
  <2>1. /\ Searching /\ GoOn
        /\ bound' = [bound EXCEPT ![step.id] = Min(Fitting)]
    BY <1>3 DEF Choose, Choosing
  <2>2. PICK x : x = Min(Fitting)
    OBVIOUS
  <2>3. x \in Id /\ (mode = "retry" => bound[step.id] < x)
    BY <1>3, <2>2, ChosenLarger
  <2> QED
    BY <2>1, <2>2, <2>3, WentOn
<1>4. CASE Follow
  <2>1. /\ Searching /\ mode = "enter" /\ IsNode(step.id) /\ step.constraint # {} /\ GoOn
        /\ bound' = [bound EXCEPT ![step.id] = Reached]
    BY <1>4 DEF Follow, Reach, Following
  <2>2. Reached \in Id
    BY <2>1, ReachedId
  <2> QED
    BY <2>1, <2>2, WentOn
<1>5. CASE GivenDoesNotFit \/ GivenAborts \/ GivenThrows
  <2>1. /\ Searching /\ step.direct
        /\ bound' = [bound EXCEPT ![step.id] = query.given[step.id]]
        /\ \E how \in {"end", "thrown", "aborted"} : Leave(how)
    BY <1>5 DEF GivenDoesNotFit, GivenAborts, GivenThrows, EnterGiven
  <2>2. query.given[step.id] \in Id
    BY <2>1, StepFacts, AskedFacts DEF SearchInv, Searching
  <2> QED
    BY <2>1, <2>2, WentBack
<1>6. CASE GivenRetried \/ NoChoice \/ SeekAborts \/ FollowThrows \/ FollowedRetried
  <2>1. /\ Searching /\ bound' = bound
        /\ GoBack \/ \E how \in {"end", "thrown", "aborted"} : Leave(how)
    BY <1>6 DEF GivenRetried, NoChoice, SeekAborts, Choosing, FollowThrows, Following, FollowedRetried
  <2> QED
    BY <2>1, WentBack
<1>7. CASE DoesNotFit \/ FollowAborts \/ FallingOff
  <2>1. /\ Searching /\ IsNode(step.id) /\ step.constraint # {}
        /\ bound' = [bound EXCEPT ![step.id] = Reached]
        /\ GoBack \/ \E how \in {"end", "thrown", "aborted"} : Leave(how)
    BY <1>7 DEF DoesNotFit, FollowAborts, FallingOff, FallsOffFalse, FallsOffEndless, Reach, Following
  <2>2. Reached \in Id
    BY <2>1, ReachedId
  <2> QED
    BY <2>1, <2>2, WentBack
<1>8. CASE \/ Increment \/ UNCHANGED queryVars
           \/ \E e \in outs \cup ins : RemoveEdge(e)
           \/ \E n \in stored : RemoveNode(n)
  <2>1. /\ steps' = steps /\ pc' = pc /\ bound' = bound /\ at' = at /\ returned' = returned
        /\ mode' = mode \/ (mode = "ready" /\ mode' = "retry")
    BY <1>8 DEF Increment, RemoveEdge, RemoveNode, queryVars, searchVars, vars
  <2> QED
    BY <2>1 DEF PastInv, Same, Before
<1> QED
  BY <1>1, <1>2, <1>3, <1>4, <1>5, <1>6, <1>7, <1>8 DEF QueryNext, Running, Search

\* For every graph and every pattern ++ never comes back to a result, in
\* whatever order the planner binds the elements, however far the search goes
\* back, and whatever nodes and edges are removed between two results.
THEOREM NoResultTwice == QuerySpec => NoneTwice
<1>1. QueryInit => PastInv
  BY PastInit
<1>2. SearchInv /\ PastInv /\ [QueryNext]_queryVars => PastInv'
  BY PastStep
<1>3. SearchInv /\ PastInv /\ [QueryNext]_queryVars
        => [mode # "ready" /\ mode' = "ready" => bound' \notin returned]_queryVars
  BY PastStep
<1> QED
  BY <1>1, <1>2, <1>3, SearchAlways, PTL DEF QuerySpec, NoneTwice

(***************************************************************************)
(* No result is missing: every match that is left is a result already or   *)
(* comes after what is bound (AheadInv), because what is chosen is the     *)
(* smallest of all that a match can have there, and what is bound is still *)
(* among them when its step is retried (Still).                            *)
(***************************************************************************)
\* What was acquired by id is bound first.
DirectFirst ==
  \A p \in 1..Len(steps) : steps[p].direct => \A q \in 1..p : steps[q].direct

\* Every step of the planner keeps that.
LEMMA PlansDirectFirst ==
  ASSUME PlanInv, DirectFirst, Next
  PROVE  DirectFirst'
<1>1. /\ steps \in Seq(Traits(nodesCnt)) /\ Len(steps) \in Nat
      /\ nodesCnt \in Nat /\ MaxId \in Nat /\ MaxId = 2 * nodesCnt - 2
      /\ \A p \in 1..Len(steps) : steps[p].id \in Int /\ 0 <= steps[p].id /\ steps[p].id <= MaxId
      /\ i \in Nat /\ directSize \in Nat
  BY TypeFacts DEF PlanInv
<1>7. PlanInv' /\ Len(steps') \in Nat /\ \A p \in 1..Len(steps') : steps'[p].id \in Int
  <2>1. PlanInv'
    BY PlanStep
  <2>2. TypeOK'
    BY <2>1 DEF PlanInv
  <2>3. PICK n, s : n = nodesCnt' /\ s = steps'
    OBVIOUS
  <2>4. n \in Nat /\ s \in Seq(Traits(n))
    BY <2>2, <2>3, PatternAssumption DEF TypeOK, Traits
  <2>5. Len(s) \in Nat /\ \A p \in 1..Len(s) : s[p] \in Traits(n)
    BY <2>4, LenProperties, ElementOfSeq
  <2>6. \A t \in Traits(n) : t.id \in Int
    BY <2>4 DEF Traits, Elements
  <2> QED
    BY <2>1, <2>3, <2>5, <2>6
<1>2. CASE AcquireDirectly
  <2>1. pc' = "direct"
    BY <1>2 DEF AcquireDirectly
  <2>2. DirectInv' /\ Tagged(steps, acquired)'
    BY <1>7, <2>1 DEF PlanInv
  <2>3. PICK s, a : s = steps' /\ a = acquired'
    OBVIOUS
  <2>4. \A x \in Int : Placed(s, x) => x \in a
    BY <2>2, <2>3 DEF DirectInv
  <2>5. Tagged(s, a)
    BY <2>2, <2>3 DEF Tagged
  <2>6. ASSUME NEW p \in 1..Len(s)
        PROVE  s[p].direct
    <3>1. s[p].id \in Int /\ Placed(s, s[p].id)
      BY <1>7, <2>3 DEF Placed
    <3> QED
      BY <3>1, <2>4, <2>5 DEF Tagged
  <2>7. Len(s) \in Nat
    BY <1>7, <2>3
  <2>8. \A p \in 1..Len(s) : \A q \in 1..p : q \in 1..Len(s)
    BY <2>7
  <2> QED
    BY <2>3, <2>6, <2>8 DEF DirectFirst
<1>3. CASE AllAcquired
  BY <1>3 DEF AllAcquired, DirectFirst
<1>4. ASSUME NEW right \in 0..MaxId + 1,
             pc = "between",
             i < directSize => right = steps[i + 1].id,
             i = directSize => right = MaxId + 1,
             steps' = steps \o Between(BoundBefore(i), right)
      PROVE  DirectFirst'
  <2>1. BoundBefore(i) \in -1..MaxId /\ BoundBefore(i) < right
    BY <1>1, <1>4, GapBounds
  <2>0. PICK s, left : s = steps /\ left = BoundBefore(i)
    OBVIOUS
  <2>2. PICK t : t = s \o Between(left, right)
    OBVIOUS
  <2>3. s \in Seq(Traits(nodesCnt)) /\ nodesCnt \in Nat /\ left \in Int /\ right \in Int /\ left < right
    BY <1>1, <2>0, <2>1
  <2>4. \A p \in 1..Len(t) : IF p <= Len(s) THEN t[p] = s[p] ELSE ~ t[p].direct
    BY <2>2, <2>3, GapSteps
  <2>5. t = steps' /\ Len(t) \in Nat /\ Len(s) \in Nat
    BY <1>1, <1>4, <1>7, <2>0, <2>2
  <2>6. \A p \in 1..Len(s) : s[p].direct => \A q \in 1..p : s[q].direct
    BY <2>0 DEF DirectFirst
  <2>7. ASSUME NEW p \in 1..Len(t), t[p].direct, NEW q \in 1..p
        PROVE  t[q].direct
    <3>1. p <= Len(s) /\ q <= Len(s) /\ q \in 1..Len(t) /\ p \in 1..Len(s)
      BY <2>4, <2>5, <2>7
    <3> QED
      BY <3>1, <2>4, <2>6, <2>7
  <2> QED
    BY <2>5, <2>7 DEF DirectFirst
<1>5. CASE FillGap
  <2>1. /\ pc = "between" /\ i < directSize
        /\ steps' = steps \o Between(BoundBefore(i), steps[i + 1].id)
    BY <1>5 DEF FillGap
  <2>2. i + 1 \in 1..Len(steps)
    BY <1>1, <2>1 DEF PlanInv, BetweenInv
  <2>3. steps[i + 1].id \in 0..MaxId + 1 /\ ~ i = directSize
    BY <1>1, <2>1, <2>2
  <2> QED
    BY <1>4, <2>1, <2>3
<1>6. CASE FillLastGap
  <2>1. /\ pc = "between" /\ i = directSize
        /\ steps' = steps \o Between(BoundBefore(i), MaxId + 1)
    <3>1. 2 * nodesCnt - 1 = MaxId + 1
      BY <1>1
    <3> QED
      BY <1>6, <3>1 DEF FillLastGap
  <2>2. MaxId + 1 \in 0..MaxId + 1 /\ ~ i < directSize
    BY <1>1, <2>1
  <2> QED
    BY <1>4, <2>1, <2>2
<1> QED
  BY <1>2, <1>3, <1>5, <1>6 DEF Next

(***************************************************************************)
(* Matches                                                                 *)
(***************************************************************************)

\* What a match is, element by element.
LEMMA MatchFacts ==
  ASSUME SearchInv, pc = "done", Directed, NEW m \in Matches(stored, outs \cap ins),
         NEW id \in Elements(nodesCnt)
  PROVE  /\ m[id] \in Id
         /\ Fits(id, m[id])
         /\ id \in acquired => m[id] = query.given[id]
         /\ ~ IsNode(id) =>
              /\ m[id] \in outs \cap ins
              /\ LeftEnd(m[id], query.direction[id]) = m[id - 1]
              /\ RightEnd(m[id], query.direction[id]) = m[id + 1]
<1>1. m \in [Elements(nodesCnt) -> Id] /\ IsMatch(m, stored, outs \cap ins)
  BY DEF Matches
<1>2. outs \cup ins \subseteq graph.linked /\ graph.linked \subseteq DOMAIN graph.ends
  BY AskedFacts DEF SearchInv, QueryTypeOK
<1>3. ~ IsNode(id) => query.direction[id] \in {"next", "prev"}
  <2>1. query.direction \in
          [{y \in Elements(nodesCnt) : ~ IsNode(y)} -> {"next", "prev", "both"}]
    BY AskedFacts DEF SearchInv
  <2> QED
    BY <2>1 DEF Directed
<1>4. m[id] \in query.accepts[id] /\ (IsNode(id) => m[id] \in stored)
      /\ (id \in acquired => m[id] = query.given[id])
  BY <1>1 DEF IsMatch
<1>5. ASSUME ~ IsNode(id)
      PROVE  /\ m[id] \in outs \cap ins
             /\ LeftEnd(m[id], query.direction[id]) = m[id - 1]
             /\ RightEnd(m[id], query.direction[id]) = m[id + 1]
  <2>1. PICK from, to : /\ m[id] \in outs \cap ins
                        /\ graph.ends[m[id]] = [from |-> from, to |-> to]
                        /\ from = IF query.direction[id] = "prev" THEN m[id + 1] ELSE m[id - 1]
                        /\ to = IF query.direction[id] = "prev" THEN m[id - 1] ELSE m[id + 1]
    BY <1>1, <1>5 DEF IsMatch
  <2>2. graph.ends[m[id]].from = from /\ graph.ends[m[id]].to = to
    BY <2>1
  <2> QED
    BY <1>3, <1>5, <2>1, <2>2 DEF LeftEnd, RightEnd
<1>6. Fits(id, m[id])
  BY <1>2, <1>4, <1>5 DEF Fits, HasRecord
<1> QED
  BY <1>1, <1>4, <1>5, <1>6

\* An edge of a match that agrees with what is bound is in the sets of the
\* neighbours that are.
LEMMA MatchLinked ==
  ASSUME SearchInv, pc = "done", Directed, NEW m \in Matches(stored, outs \cap ins),
         Same(bound, m, at - 1), ~ IsNode(step.id), NEW side \in step.constraint
  PROVE  m[step.id] \in EdgesOf(side, step.id)
<1>1. /\ step.id \in Elements(nodesCnt)
      /\ step.constraint \in SUBSET Sides
      /\ "left" \in step.constraint => \E p \in 1..at - 1 : steps[p].id = step.id - 1
      /\ "right" \in step.constraint => \E p \in 1..at - 1 : steps[p].id = step.id + 1
  BY StepFacts
<1>2. /\ "left" \in step.constraint => bound[step.id - 1] = m[step.id - 1]
      /\ "right" \in step.constraint => bound[step.id + 1] = m[step.id + 1]
  BY <1>1 DEF Same
<1>3. /\ m[step.id] \in outs \cap ins
      /\ LeftEnd(m[step.id], query.direction[step.id]) = m[step.id - 1]
      /\ RightEnd(m[step.id], query.direction[step.id]) = m[step.id + 1]
  BY <1>1, MatchFacts
<1>4. side = "left" \/ side = "right"
  BY <1>1 DEF Sides
<1> QED
  BY <1>2, <1>3, <1>4 DEF EdgesOf, InEdges, OutEdges, LeftEnd, RightEnd

\* A node of a match at the end of an edge that is bound is that end.
LEMMA MatchReached ==
  ASSUME SearchInv, pc = "done", Directed, NoneFromRight,
         NEW m \in Matches(stored, outs \cap ins),
         Same(bound, m, at - 1), IsNode(step.id), step.constraint # {}
  PROVE  m[step.id] = Reached /\ Agrees /\ "left" \in step.constraint
<1>1. /\ step.id \in Elements(nodesCnt) /\ step.id \in Int
      /\ step.constraint \in SUBSET Sides
      /\ at \in 1..Len(steps) /\ step = steps[at]
      /\ "left" \in step.constraint => \E p \in 1..at - 1 : p \in 1..Len(steps) /\ steps[p].id = step.id - 1
  BY StepFacts
<1>2. "right" \notin step.constraint
  BY <1>1, StepsDomain DEF NoneFromRight, SearchInv
<1>3. "left" \in step.constraint
  BY <1>1, <1>2 DEF Sides
<1>4. PICK p \in 1..at - 1 : p \in 1..Len(steps) /\ steps[p].id = step.id - 1
  BY <1>1, <1>3
<1>5. step.id - 1 \in Elements(nodesCnt) /\ bound[step.id - 1] = m[step.id - 1]
  <2>1. steps[p] \in Traits(nodesCnt)
    BY <1>4, TypeFacts, ElementOfSeq DEF SearchInv, PlanInv
  <2> QED
    BY <2>1, <1>4 DEF Same, Traits
<1>6. ~ IsNode(step.id - 1) /\ (step.id - 1) + 1 = step.id
  BY <1>1, Alternate
<1>7. RightEnd(m[step.id - 1], query.direction[step.id - 1]) = m[step.id]
  BY <1>5, <1>6, MatchFacts
<1>8. m[step.id] = Reached
  BY <1>3, <1>5, <1>7 DEF Reached, FromLeft, EndOf, RightEnd
<1> QED
  BY <1>2, <1>3, <1>8 DEF Agrees

(***************************************************************************)
(* The invariant                                                           *)
(***************************************************************************)
\* The patterns, and the runs, in which every match is found.
Counted == ~ disturbed /\ Directed /\ NoneFromRight

\* What step s has chosen of the elements b is still in the store.
Still(s, b) ==
  /\ IsNode(s.id) => b[s.id] \in stored
  /\ ~ IsNode(s.id) /\ ~ s.direct =>
       /\ b[s.id] \in graph.linked
       /\ "left" \in s.constraint =>
            b[s.id] \in IF query.direction[s.id] = "prev" THEN ins ELSE outs
       /\ "right" \in s.constraint =>
            b[s.id] \in IF query.direction[s.id] = "next" THEN ins ELSE outs

\* m is ahead at the step that is tried: with what is bound before it, and
\* behind what the step was bound to when it is retried.
AheadAt(m) ==
  \/ mode = "enter" /\ Same(bound, m, at - 1)
  \/ mode = "retry" /\ Before(bound, m, at)

\* Every match that is left is a result, or is ahead.
AllAhead ==
  \A m \in Matches(stored, outs \cap ins) :
    /\ mode = "enter" =>
         m \in returned \/ Same(bound, m, at - 1) \/ \E p \in 1..at - 1 : Before(bound, m, p)
    /\ mode \in {"ready", "retry"} => m \in returned \/ \E p \in 1..at : Before(bound, m, p)
    /\ mode = "end" => m \in returned

Ahead ==
  /\ AllAhead
  /\ \A p \in 1..Len(steps) : Settled(p) => Still(steps[p], bound)

AheadInv ==
  /\ DirectFirst
  /\ pc = "done" /\ Counted => Ahead

\* A match that is no result yet is ahead at the step that is tried, or at
\* one before it.
LEMMA AheadHere ==
  ASSUME SearchInv, Searching, AllAhead, NEW m \in Matches(stored, outs \cap ins)
  PROVE  m \in returned \/ AheadAt(m) \/ \E p \in 1..at - 1 : Before(bound, m, p)
<1>1. at \in Nat /\ mode \in {"enter", "retry"}
  BY StepFacts DEF Searching
<1>2. \A p \in 1..at : p \in 1..at - 1 \/ p = at
  BY <1>1
<1> QED
  BY <1>1, <1>2 DEF AllAhead, AheadAt

\* Binding the element of a step leaves what is ahead before it.
LEMMA AheadKept ==
  ASSUME SearchInv, pc = "done",
         NEW b, \A y \in Elements(nodesCnt) : y # step.id => b[y] = bound[y],
         NEW m
  PROVE  /\ \A p \in 1..at - 1 : Before(bound, m, p) => Before(b, m, p)
         /\ Same(bound, m, at - 1) => Same(b, m, at - 1)
<1>1. at \in Nat /\ \A q \in 1..at - 1 : b[steps[q].id] = bound[steps[q].id]
  BY PrefixKept
<1>2. \A p \in 1..at - 1 : \A q \in 1..p - 1 : q \in 1..at - 1
  BY <1>1
<1> QED
  BY <1>1, <1>2 DEF Same, Before

\* What is still in the store before a step stays so when it binds another id.
LEMMA StillKept ==
  ASSUME SearchInv, Searching, UNCHANGED <<vars, askedVars, storeVars>>, Ahead,
         NEW b, b = bound', \A y \in Elements(nodesCnt) : y # step.id => b[y] = bound[y],
         NEW p \in 1..at - 1
  PROVE  Still(steps[p], bound)'
<1>1. /\ p \in 1..Len(steps) /\ steps[p].id # step.id /\ at \in Nat
  BY StepFacts DEF Searching
<1>2. steps[p].id \in Elements(nodesCnt)
  <2>1. steps[p] \in Traits(nodesCnt)
    BY <1>1, TypeFacts, ElementOfSeq DEF SearchInv, PlanInv
  <2> QED
    BY <2>1 DEF Traits
<1>3. Still(steps[p], bound)
  BY <1>1 DEF Ahead, Settled
<1>4. b[steps[p].id] = bound[steps[p].id]
  BY <1>1, <1>2
<1> QED
  BY <1>3, <1>4 DEF Still, vars, askedVars, storeVars

\* Matches are those of the stores as they are.
LEMMA SameMatches ==
  ASSUME UNCHANGED <<vars, askedVars, storeVars>>
  PROVE  Matches(stored, outs \cap ins)' = Matches(stored, outs \cap ins)
BY DEF Matches, IsMatch, vars, askedVars, storeVars

\* No match that is ahead has less than x at the step that is tried.
Smallest(x) == \A m \in Matches(stored, outs \cap ins) : AheadAt(m) => x =< m[step.id]

\* What is ahead when the step that is tried has been bound.
LEMMA AheadAfter ==
  ASSUME SearchInv, Searching, AllAhead, NEW x \in Id, Smallest(x),
         NEW b, b[step.id] = x, \A y \in Elements(nodesCnt) : y # step.id => b[y] = bound[y],
         NEW m \in Matches(stored, outs \cap ins)
  PROVE  m \in returned \/ Same(b, m, at) \/ \E p \in 1..at : Before(b, m, p)
<1>1. /\ at \in Nat /\ step = steps[at] /\ step.id \in Elements(nodesCnt)
      /\ pc = "done" /\ mode \in {"enter", "retry"}
      /\ \A q \in 1..at : q \in 1..at - 1 \/ q = at
      /\ \A q \in 1..at - 1 : q \in 1..at
      /\ at \in 1..at
  BY StepFacts DEF Searching
<1>2. /\ \A p \in 1..at - 1 : Before(bound, m, p) => Before(b, m, p)
      /\ Same(bound, m, at - 1) => Same(b, m, at - 1)
  BY <1>1, AheadKept
<1>3. CASE \E p \in 1..at - 1 : Before(bound, m, p)
  BY <1>1, <1>2, <1>3, Zenon
<1>4. CASE AheadAt(m)
  <2>1. Same(b, m, at - 1)
    BY <1>2, <1>4 DEF AheadAt, Before
  <2>2. x =< m[step.id] /\ x \in Nat /\ m[step.id] \in Nat
    <3>1. m \in [Elements(nodesCnt) -> Id]
      BY DEF Matches
    <3> QED
      BY <1>4, <3>1, <1>1, IteratorAssumption DEF Smallest
  <2>3. CASE x = m[step.id]
    <3>1. \A q \in 1..at : b[steps[q].id] = m[steps[q].id]
      BY <1>1, <2>1, <2>3, Zenon DEF Same
    <3> QED
      BY <3>1 DEF Same
  <2>4. CASE x < m[step.id]
    <3>1. Before(b, m, at)
      BY <1>1, <2>1, <2>4 DEF Before
    <3> QED
      BY <1>1, <3>1
  <2>5. x = m[step.id] \/ x < m[step.id]
    BY <2>2
  <2> QED
    BY <2>3, <2>4, <2>5
<1> QED
  BY <1>3, <1>4, AheadHere

\* A step that binds the smallest of what matches can have there keeps the
\* invariant.
LEMMA Onward ==
  ASSUME SearchInv, Searching, Ahead, GoOn, NEW x \in Id,
         bound' = [bound EXCEPT ![step.id] = x],
         Smallest(x),
         NEW b, b = bound', Still(step, b)
  PROVE  Ahead'
<1>1. /\ at \in Nat /\ Len(steps) \in Nat /\ at \in 1..Len(steps) /\ step = steps[at]
      /\ step.id \in Elements(nodesCnt)
      /\ pc = "done" /\ mode \in {"enter", "retry"}
  BY StepFacts DEF Searching
<1>2. bound \in [Elements(nodesCnt) -> Id \cup {NoId}]
  BY DEF SearchInv, QueryTypeOK
<1>3. b[step.id] = x /\ \A y \in Elements(nodesCnt) : y # step.id => b[y] = bound[y]
  BY <1>1, <1>2
<1>4. /\ UNCHANGED <<vars, askedVars, storeVars>>
      /\ steps' = steps /\ pc' = pc
      /\ \/ at = Len(steps) /\ mode' = "ready" /\ at' = at /\ returned' = returned \cup {b}
         \/ mode' = "enter" /\ at' = at + 1 /\ returned' = returned
  BY DEF GoOn, vars
<1>5. Matches(stored, outs \cap ins)' = Matches(stored, outs \cap ins)
  BY <1>4, SameMatches
<1>6. \A m \in Matches(stored, outs \cap ins) :
        m \in returned \/ Same(b, m, at) \/ \E p \in 1..at : Before(b, m, p)
  BY <1>3, AheadAfter DEF Ahead, Smallest
<1>8. AllAhead'
  <2>1. CASE at = Len(steps) /\ mode' = "ready" /\ at' = at /\ returned' = returned \cup {b}
    <3>1. ASSUME NEW m \in Matches(stored, outs \cap ins), Same(b, m, at)
          PROVE  m = b
      <4>1. \A y \in Elements(nodesCnt) : \E p \in 1..Len(steps) : steps[p].id = y
        BY <1>1 DEF SearchInv, PlanInv, Placed
      <4>2. \A y \in Elements(nodesCnt) : b[y] = m[y]
        BY <2>1, <3>1, <4>1 DEF Same
      <4>3. m \in [Elements(nodesCnt) -> Id] /\ b \in [Elements(nodesCnt) -> Id \cup {NoId}]
        BY <1>2 DEF Matches
      <4> QED
        BY <4>2, <4>3
    <3>2. \A m \in Matches(stored, outs \cap ins) :
            m \in returned' \/ \E p \in 1..at : Before(b, m, p)
      BY <1>6, <2>1, <3>1
    <3>3. \A m, p : Before(bound, m, p)' <=> Before(b, m', p')
      BY <1>4 DEF Same, Before
    <3> QED
      BY <1>5, <2>1, <3>2, <3>3 DEF AllAhead
  <2>2. CASE mode' = "enter" /\ at' = at + 1 /\ returned' = returned
    <3>1. at' - 1 = at
      BY <1>1, <2>2
    <3>2. \A m, p : /\ Before(bound, m, p)' <=> Before(b, m', p')
                    /\ Same(bound, m, p)' <=> Same(b, m', p')
      BY <1>4 DEF Same, Before
    <3> QED
      BY <1>5, <1>6, <2>2, <3>1, <3>2 DEF AllAhead
  <2> QED
    BY <1>4, <2>1, <2>2
<1>9. ASSUME NEW p \in 1..Len(steps), Settled(p)'
      PROVE  Still(steps[p], bound)'
  <2>1. p \in 1..at - 1 \/ p = at
    BY <1>1, <1>4, <1>9 DEF Settled
  <2>2. CASE p \in 1..at - 1
    BY <2>2, <1>3, <1>4, StillKept
  <2>3. CASE p = at
    BY <2>3, <1>1, <1>4 DEF Still, vars, askedVars, storeVars
  <2> QED
    BY <2>1, <2>2, <2>3
<1> QED
  BY <1>4, <1>8, <1>9 DEF Ahead

\* A step that ends the search, or goes back, keeps the invariant when no
\* match is ahead at it, or there is nothing to say of how it ends.
LEMMA Backward ==
  ASSUME SearchInv, Searching, Ahead,
         NEW b, b = bound', \A y \in Elements(nodesCnt) : y # step.id => b[y] = bound[y],
         \/ Leave("thrown") \/ Leave("aborted")
         \/ /\ GoBack
            /\ \A m \in Matches(stored, outs \cap ins) : ~ AheadAt(m)
         \/ /\ Leave("end")
            /\ \A m \in Matches(stored, outs \cap ins) :
                 ~ AheadAt(m) /\ \A p \in 1..at - 1 : ~ Before(bound, m, p)
  PROVE  Ahead'
<1>1. /\ at \in Nat /\ Len(steps) \in Nat /\ at \in 1..Len(steps) /\ step = steps[at]
      /\ step.id \in Elements(nodesCnt)
      /\ pc = "done" /\ mode \in {"enter", "retry"}
  BY StepFacts DEF Searching
<1>2. /\ UNCHANGED <<vars, askedVars, storeVars>>
      /\ steps' = steps /\ pc' = pc /\ returned' = returned
      /\ \/ mode' \in {"end", "thrown", "aborted"} /\ at' = at
         \/ at # 1 /\ mode' = "retry" /\ at' = at - 1
  BY DEF GoBack, Leave, vars
<1>3. Matches(stored, outs \cap ins)' = Matches(stored, outs \cap ins)
  BY <1>2, SameMatches
<1>4. ASSUME NEW m \in Matches(stored, outs \cap ins)
      PROVE  /\ mode' = "end" => m \in returned
             /\ mode' = "retry" => m \in returned \/ \E p \in 1..at - 1 : Before(b, m, p)
  <2>1. m \in returned \/ AheadAt(m) \/ \E p \in 1..at - 1 : Before(bound, m, p)
    BY AheadHere DEF Ahead
  <2>2. \A p \in 1..at - 1 : Before(bound, m, p) => Before(b, m, p)
    BY <1>1, AheadKept
  <2>3. mode' \in {"end", "retry"} => ~ AheadAt(m)
    BY DEF Leave
  <2>4. mode' = "end" => \A p \in 1..at - 1 : ~ Before(bound, m, p)
    <3>1. at = 1 => 1..at - 1 = {}
      OBVIOUS
    <3> QED
      BY <3>1 DEF Leave, GoBack
  <2> QED
    BY <2>1, <2>2, <2>3, <2>4
<1>5. AllAhead'
  <2>1. \A m, p : Before(bound, m, p)' <=> Before(b, m', p')
    BY <1>2 DEF Same, Before
  <2> QED
    BY <1>2, <1>3, <1>4, <2>1 DEF AllAhead
<1>6. ASSUME NEW p \in 1..Len(steps), Settled(p)'
      PROVE  Still(steps[p], bound)'
  <2>1. p \in 1..at - 1
    BY <1>1, <1>2, <1>6 DEF Settled
  <2> QED
    BY <2>1, <1>2, StillKept
<1> QED
  BY <1>2, <1>5, <1>6 DEF Ahead

\* Of what was acquired by id, no match has another element.
LEMMA NoneBeforeDirect ==
  ASSUME SearchInv, DirectFirst, Searching, Directed, step.direct,
         NEW m \in Matches(stored, outs \cap ins)
  PROVE  /\ \A p \in 1..at - 1 : ~ Before(bound, m, p)
         /\ mode = "retry" => ~ AheadAt(m)
<1>1. /\ at \in 1..Len(steps) /\ at \in Nat /\ Len(steps) \in Nat /\ step = steps[at]
      /\ pc = "done"
  BY StepFacts DEF Searching
<1>2. ASSUME NEW p \in 1..Len(steps), steps[p].direct, Settled(p)
      PROVE  ~ Before(bound, m, p)
  <2>1. Held(steps[p], bound)
    BY <1>2 DEF SearchInv
  <2>2. steps[p].id \in acquired /\ steps[p].id \in Elements(nodesCnt)
    <3>1. steps[p] \in Traits(nodesCnt)
      BY TypeFacts, ElementOfSeq DEF SearchInv, PlanInv
    <3> QED
      BY <3>1, <1>2 DEF SearchInv, PlanInv, Tagged, Traits
  <2>3. bound[steps[p].id] = m[steps[p].id]
    BY <1>1, <1>2, <2>1, <2>2, MatchFacts DEF Held
  <2>4. bound[steps[p].id] \in Nat
    BY <2>2, NumbersBound
  <2>5. ~ bound[steps[p].id] < m[steps[p].id]
    BY <2>3, <2>4
  <2> QED
    BY <2>5 DEF Before
<1>3. \A p \in 1..at - 1 : p \in 1..Len(steps) /\ steps[p].direct /\ Settled(p)
  BY <1>1 DEF DirectFirst, Settled
<1>4. mode = "retry" => Settled(at)
  BY DEF Settled
<1> QED
  BY <1>1, <1>2, <1>3, <1>4 DEF AheadAt

\* A match that is ahead has a candidate of the step that is tried.
LEMMA AheadOffered ==
  ASSUME SearchInv, Ahead, Choosing, Directed, NEW m \in Matches(stored, outs \cap ins), AheadAt(m)
  PROVE  m[step.id] \in Fitting
<1>1. /\ Searching /\ ~ step.direct /\ pc = "done" /\ mode \in {"enter", "retry"}
      /\ IsNode(step.id) => step.constraint = {}
  BY DEF Choosing, Searching
<1>2. /\ at \in 1..Len(steps) /\ step = steps[at] /\ step.id \in Elements(nodesCnt)
      /\ step.constraint \in SUBSET Sides
  BY <1>1, StepFacts
<1>3. /\ m[step.id] \in Id
      /\ Fits(step.id, m[step.id])
      /\ ~ IsNode(step.id) => m[step.id] \in outs \cap ins
  BY <1>1, <1>2, MatchFacts
<1>4. Same(bound, m, at - 1)
  BY DEF AheadAt, Before
<1>5. outs \cup ins \subseteq graph.linked
  BY DEF SearchInv, QueryTypeOK
<1>6. m[step.id] \in Offered
  <2>1. CASE IsNode(step.id)
    BY <2>1, <1>3 DEF Offered, Fits, HasRecord
  <2>2. CASE ~ IsNode(step.id)
    <3>1. \A side \in step.constraint : m[step.id] \in EdgesOf(side, step.id)
      BY <2>2, <1>1, <1>4, MatchLinked
    <3> QED
      BY <2>2, <3>1, <1>3, <1>5 DEF Offered
  <2> QED
    BY <2>1, <2>2
<1>7. ASSUME mode = "retry"
      PROVE  /\ bound[step.id] \in Nat /\ m[step.id] \in Nat /\ bound[step.id] < m[step.id]
             /\ Held(step, bound) /\ Still(step, bound)
  <2>1. bound[step.id] < m[step.id]
    BY <1>2, <1>7 DEF AheadAt, Before
  <2>2. bound[step.id] \in Nat /\ m[step.id] \in Nat
    BY <1>2, <1>3, NumbersBound, IteratorAssumption
  <2>3. Settled(at)
    BY <1>7 DEF Settled
  <2> QED
    BY <2>1, <2>2, <2>3, <1>2 DEF SearchInv, Ahead
<1>8. CASE mode = "enter"
  BY <1>3, <1>6, <1>8 DEF Fitting, Remaining
<1>9. CASE mode = "retry" /\ IsNode(step.id)
  <2>1. m[step.id] \in stored /\ bound[step.id] \in stored
    BY <1>3, <1>7, <1>9 DEF Fits, HasRecord, Still
  <2>2. m[step.id] \in NodesBehind(bound[step.id])
    BY <1>7, <1>9, <2>1 DEF NodesBehind
  <2> QED
    BY <2>2, <1>3, <1>9 DEF Fitting, Remaining
<1>10. CASE mode = "retry" /\ ~ IsNode(step.id)
  <2>1. Held(step, bound) /\ Still(step, bound)
    BY <1>7, <1>10
  <2>2. \A side \in step.constraint : bound[step.id] \in EdgesOf(side, step.id)
    BY <1>1, <1>2, <1>10, <2>1
      DEF Sides, Held, Still, EdgesOf, InEdges, OutEdges, LeftEnd, RightEnd
  <2>3. bound[step.id] \in Offered
    BY <1>1, <1>10, <2>1, <2>2 DEF Still, Offered
  <2>4. m[step.id] > bound[step.id]
    BY <1>7, <1>10
  <2> QED
    BY <1>3, <1>6, <1>10, <2>3, <2>4 DEF Fitting, Remaining
<1> QED
  BY <1>1, <1>8, <1>9, <1>10

(***************************************************************************)
(* The steps                                                               *)
(***************************************************************************)
\* A given id is the only one a match can have there.
LEMMA GivenAhead ==
  ASSUME SearchInv, DirectFirst, Counted, Ahead,
         BindGiven \/ GivenDoesNotFit \/ GivenAborts \/ GivenThrows
  PROVE  Ahead'
<1> DEFINE x == query.given[step.id]
<1>1. /\ Searching /\ mode = "enter" /\ step.direct /\ pc = "done" /\ Directed
      /\ bound' = [bound EXCEPT ![step.id] = x]
  BY DEF BindGiven, GivenDoesNotFit, GivenAborts, GivenThrows, EnterGiven, Searching, Counted
<1>2. step.id \in Elements(nodesCnt) /\ step.id \in acquired /\ x \in Id
      /\ step.constraint \in SUBSET Sides
      /\ bound \in [Elements(nodesCnt) -> Id \cup {NoId}]
  BY <1>1, StepFacts, AskedFacts DEF SearchInv, QueryTypeOK
<1> HIDE DEF x
<1>3. PICK b : b = bound'
  OBVIOUS
<1>4. b[step.id] = x /\ \A y \in Elements(nodesCnt) : y # step.id => b[y] = bound[y]
  BY <1>1, <1>2, <1>3
<1>5. \A m \in Matches(stored, outs \cap ins) : m[step.id] = x /\ Fits(step.id, x)
  BY <1>1, <1>2, MatchFacts DEF x
<1>6. CASE BindGiven
  <2>1. GoOn /\ Fits(step.id, x)
    BY <1>6 DEF BindGiven, GivenFits, x
  <2>2. Smallest(x)
    <3>1. x =< x
      BY <1>2, IteratorAssumption
    <3> QED
      BY <3>1, <1>5 DEF Smallest
  <2>3. Still(step, b)
    BY <1>1, <1>4, <2>1 DEF Still, Fits, HasRecord
  <2> QED
    BY <1>1, <1>2, <1>3, <2>1, <2>2, <2>3, Onward
<1>7. CASE GivenDoesNotFit
  <2>1. Leave("end")
    BY <1>7 DEF GivenDoesNotFit
  <2>2. ASSUME NEW m \in Matches(stored, outs \cap ins)
        PROVE  ~ AheadAt(m) /\ \A p \in 1..at - 1 : ~ Before(bound, m, p)
    <3>1. \A p \in 1..at - 1 : ~ Before(bound, m, p)
      BY <1>1, NoneBeforeDirect
    <3>2. ASSUME AheadAt(m)
          PROVE  FALSE
      <4>1. Same(bound, m, at - 1) /\ m[step.id] = x /\ Fits(step.id, x)
        BY <1>1, <1>5, <3>2 DEF AheadAt
      <4>2. Checked /\ CanCheck /\ ~ GivenLinked
        BY <1>7, <4>1 DEF GivenDoesNotFit, GivenFits, x
      <4>3. m[step.id] \in EdgesOf("left", step.id)
        BY <1>1, <4>1, <4>2, MatchLinked DEF Checked, CanCheck
      <4> QED
        BY <4>1, <4>2, <4>3 DEF GivenLinked, x
    <3> QED
      BY <3>1, <3>2
  <2> QED
    BY <1>1, <1>3, <1>4, <2>1, <2>2, Backward
<1>8. CASE GivenAborts \/ GivenThrows
  <2>1. Leave("aborted") \/ Leave("thrown")
    BY <1>8 DEF GivenAborts, GivenThrows
  <2> QED
    BY <1>1, <1>3, <1>4, <2>1, Backward
<1> QED
  BY <1>6, <1>7, <1>8

\* The smallest candidate is chosen, and none is left when the search goes
\* back.
LEMMA ChoiceAhead ==
  ASSUME SearchInv, Counted, Ahead, Choose \/ NoChoice \/ SeekAborts
  PROVE  Ahead'
<1>1. Choosing /\ Searching /\ Directed /\ pc = "done" /\ ~ step.direct
      /\ mode \in {"enter", "retry"}
  BY DEF Choose, NoChoice, SeekAborts, Choosing, Searching, Counted
<1>2. step.id \in Elements(nodesCnt) /\ step.constraint \in SUBSET Sides
      /\ bound \in [Elements(nodesCnt) -> Id \cup {NoId}]
  BY <1>1, StepFacts DEF SearchInv, QueryTypeOK
<1>3. PICK b : b = bound'
  OBVIOUS
<1>4. CASE Choose
  <2>1. GoOn /\ bound' = [bound EXCEPT ![step.id] = Min(Fitting)] /\ Fitting # {}
    BY <1>4 DEF Choose
  <2>2. PICK x, T : x = Min(T) /\ T = Fitting
    OBVIOUS
  <2>3. x \in Id
    BY <1>4, <2>2, ChosenLarger
  <2>4. T \subseteq Id
    <3>1. stored \subseteq Id /\ graph.linked \subseteq Id
      BY AskedFacts DEF SearchInv, QueryTypeOK
    <3> QED
      BY <2>2, <3>1 DEF Fitting, Remaining, Offered, NodesBehind
  <2>5. x \in T /\ \A y \in T : x =< y
    BY <2>1, <2>2, <2>4, FirstId
  <2>6. Smallest(x)
    BY <1>1, <2>2, <2>5, AheadOffered DEF Smallest
  <2>7. b[step.id] = x
    BY <1>2, <1>3, <2>1, <2>2
  <2>8. x \in Offered
    <3>1. x \in Remaining
      BY <2>2, <2>5 DEF Fitting
    <3> QED
      BY <3>1 DEF Remaining, Offered, NodesBehind
  <2>9. ~ IsNode(step.id) => query.direction[step.id] \in {"next", "prev"}
    <3>1. query.direction \in
            [{y \in Elements(nodesCnt) : ~ IsNode(y)} -> {"next", "prev", "both"}]
      BY AskedFacts DEF SearchInv
    <3> QED
      BY <3>1, <1>1, <1>2 DEF Directed
  <2>10. Still(step, b)
    BY <1>1, <2>7, <2>8, <2>9 DEF Still, Offered, EdgesOf, InEdges, OutEdges
  <2> QED
    BY <1>1, <1>3, <2>1, <2>2, <2>3, <2>6, <2>10, Onward
<1>5. CASE NoChoice
  <2>1. GoBack /\ b = bound /\ Fitting = {}
    BY <1>3, <1>5 DEF NoChoice
  <2>2. \A m \in Matches(stored, outs \cap ins) : ~ AheadAt(m)
    BY <1>1, <2>1, AheadOffered
  <2> QED
    BY <1>1, <1>3, <2>1, <2>2, Backward
<1>6. CASE SeekAborts
  <2>1. Leave("aborted") /\ b = bound
    BY <1>3, <1>6 DEF SeekAborts
  <2> QED
    BY <1>1, <1>3, <2>1, Backward
<1> QED
  BY <1>4, <1>5, <1>6

\* The node at the end of a bound edge is the only one a match can have.
LEMMA FollowAhead ==
  ASSUME SearchInv, Counted, Ahead, Follow \/ DoesNotFit \/ FollowAborts
  PROVE  Ahead'
<1> DEFINE x == Reached
<1>1. /\ Searching /\ mode = "enter" /\ Directed /\ NoneFromRight /\ pc = "done"
      /\ IsNode(step.id) /\ step.constraint # {}
      /\ bound' = [bound EXCEPT ![step.id] = x]
  BY DEF Follow, DoesNotFit, FollowAborts, Reach, Following, Searching, Counted
<1>2. x \in Id
  BY <1>1, ReachedId
<1>3. step.id \in Elements(nodesCnt)
      /\ bound \in [Elements(nodesCnt) -> Id \cup {NoId}]
  BY <1>1, StepFacts DEF SearchInv, QueryTypeOK
<1>4. ASSUME NEW m \in Matches(stored, outs \cap ins), AheadAt(m)
      PROVE  m[step.id] = x /\ Fits(step.id, x) /\ Agrees
  <2>1. Same(bound, m, at - 1)
    BY <1>4 DEF AheadAt, Before
  <2>2. m[step.id] = x /\ Agrees
    BY <1>1, <2>1, MatchReached
  <2>3. Fits(step.id, m[step.id])
    BY <1>1, <1>3, MatchFacts
  <2> QED
    BY <2>2, <2>3
<1> HIDE DEF x
<1>5. PICK b : b = bound'
  OBVIOUS
<1>6. b[step.id] = x /\ \A y \in Elements(nodesCnt) : y # step.id => b[y] = bound[y]
  BY <1>1, <1>3, <1>5
<1>7. CASE Follow
  <2>1. GoOn /\ Fits(step.id, x)
    BY <1>7 DEF Follow, ReachedFits, x
  <2>2. Smallest(x)
    <3>1. x =< x
      BY <1>2, IteratorAssumption
    <3> QED
      BY <3>1, <1>4 DEF Smallest
  <2>3. Still(step, b)
    BY <1>1, <1>6, <2>1 DEF Still, Fits, HasRecord
  <2> QED
    BY <1>1, <1>2, <1>5, <2>1, <2>2, <2>3, Onward
<1>8. CASE DoesNotFit
  <2>1. GoBack /\ ~ (Fits(step.id, x) /\ Agrees)
    BY <1>8 DEF DoesNotFit, ReachedFits, x
  <2>2. \A m \in Matches(stored, outs \cap ins) : ~ AheadAt(m)
    BY <1>4, <2>1
  <2> QED
    BY <1>1, <1>5, <1>6, <2>1, <2>2, Backward
<1>9. CASE FollowAborts
  <2>1. Leave("aborted")
    BY <1>9 DEF FollowAborts
  <2> QED
    BY <1>1, <1>5, <1>6, <2>1, Backward
<1> QED
  BY <1>7, <1>8, <1>9

\* A step that was acquired by id, or a node at the end of an edge, has no
\* second candidate.
LEMMA RetryAhead ==
  ASSUME SearchInv, DirectFirst, Counted, Ahead, GivenRetried \/ FollowThrows \/ FollowedRetried
  PROVE  Ahead'
<1>1. /\ Searching /\ pc = "done" /\ Directed /\ NoneFromRight
      /\ bound' = bound
  BY DEF GivenRetried, FollowThrows, FollowedRetried, Following, Searching, Counted
<1>2. PICK b : b = bound'
  OBVIOUS
<1>3. \A y \in Elements(nodesCnt) : y # step.id => b[y] = bound[y]
  BY <1>1, <1>2
<1>4. CASE GivenRetried
  <2>1. Leave("end") /\ step.direct /\ mode = "retry"
    BY <1>4 DEF GivenRetried
  <2>2. \A m \in Matches(stored, outs \cap ins) :
          ~ AheadAt(m) /\ \A p \in 1..at - 1 : ~ Before(bound, m, p)
    BY <1>1, <2>1, NoneBeforeDirect
  <2> QED
    BY <1>1, <1>2, <1>3, <2>1, <2>2, Backward
<1>5. CASE FollowThrows
  <2>1. Leave("thrown")
    BY <1>5 DEF FollowThrows
  <2> QED
    BY <1>1, <1>2, <1>3, <2>1, Backward
<1>6. CASE FollowedRetried
  <2>1. GoBack /\ mode = "retry" /\ IsNode(step.id) /\ step.constraint # {}
    BY <1>6 DEF FollowedRetried
  <2>2. /\ step.id \in Elements(nodesCnt) /\ step = steps[at] /\ at \in 1..Len(steps)
    BY <1>1, StepFacts
  <2>3. Held(step, bound)
    <3>1. Settled(at)
      BY <2>1 DEF Settled
    <3> QED
      BY <2>2, <3>1 DEF SearchInv
  <2>4. ASSUME NEW m \in Matches(stored, outs \cap ins), AheadAt(m)
        PROVE  FALSE
    <3>1. Same(bound, m, at - 1) /\ bound[step.id] < m[step.id]
      BY <2>1, <2>2, <2>4 DEF AheadAt, Before
    <3>2. m[step.id] = Reached /\ "left" \in step.constraint
      BY <1>1, <2>1, <3>1, MatchReached
    <3>3. bound[step.id] = Reached
      BY <2>1, <2>3, <3>2 DEF Held, Reached, FromLeft, EndOf, RightEnd
    <3>4. bound[step.id] \in Nat
      BY <2>2, NumbersBound
    <3> QED
      BY <3>1, <3>2, <3>3, <3>4
  <2> QED
    BY <1>1, <1>2, <1>3, <2>1, <2>4, Backward
<1> QED
  BY <1>4, <1>5, <1>6

\* The client takes nothing from the result the iterator stands on, so what
\* is bound is still in the store, and no match is new.
LEMMA ClientAhead ==
  ASSUME SearchInv, Counted, Counted', Ahead, pc = "done",
         \/ Increment \/ UNCHANGED queryVars
         \/ \E e \in outs \cup ins : RemoveEdge(e)
         \/ \E n \in stored : RemoveNode(n)
  PROVE  Ahead'
<1>1. /\ UNCHANGED <<vars, askedVars>>
      /\ bound' = bound /\ at' = at /\ returned' = returned
      /\ stored' \subseteq stored /\ outs' \subseteq outs /\ ins' \subseteq ins
      /\ mode' = mode \/ (mode = "ready" /\ mode' = "retry")
  BY DEF Increment, RemoveEdge, RemoveNode, queryVars, searchVars, storeVars
<1>2. /\ pc' = pc /\ steps' = steps /\ nodesCnt' = nodesCnt /\ acquired' = acquired
      /\ graph' = graph /\ query' = query
  BY <1>1 DEF vars, askedVars
<1>3. Matches(stored, outs \cap ins)' \subseteq Matches(stored, outs \cap ins)
  BY <1>1, <1>2 DEF Matches, IsMatch
<1>4. AllAhead'
  <2>1. \A m, p : /\ Before(bound, m, p)' <=> Before(bound, m', p')
                  /\ Same(bound, m, p)' <=> Same(bound, m', p')
    BY <1>1, <1>2 DEF Same, Before
  <2> QED
    BY <1>1, <1>3, <2>1 DEF AllAhead, Ahead
<1>5. \A p \in 1..Len(steps) : steps[p].id \in Elements(nodesCnt)
  <2>1. \A p \in 1..Len(steps) : steps[p] \in Traits(nodesCnt)
    BY TypeFacts, ElementOfSeq DEF SearchInv, PlanInv
  <2> QED
    BY <2>1 DEF Traits
<1>6. ASSUME NEW p \in 1..Len(steps), Settled(p)'
      PROVE  Still(steps[p], bound)'
  <2>1. Still(steps[p], bound)
    BY <1>1, <1>6 DEF Settled, Ahead
  <2>2. CASE Increment \/ UNCHANGED queryVars
    BY <1>2, <1>1, <2>1, <2>2 DEF Still, Increment, queryVars, storeVars
  <2>3. CASE \E e \in outs \cup ins : RemoveEdge(e)
    <3>1. PICK e \in outs \cup ins : RemoveEdge(e)
      BY <2>3
    <3>2. ~ IsNode(steps[p].id) => bound[steps[p].id] # e
      BY <3>1, <1>5 DEF RemoveEdge, Counted
    <3>3. outs' = outs \ {e} /\ ins' = ins \ {e} /\ stored' = stored
      BY <3>1 DEF RemoveEdge
    <3> QED
      BY <1>1, <1>2, <2>1, <3>2, <3>3 DEF Still
  <2>4. CASE \E n \in stored : RemoveNode(n)
    <3>1. PICK n \in stored : RemoveNode(n)
      BY <2>4
    <3>2. /\ stored' = stored \ {n}
          /\ outs' = outs \ {e \in ins : graph.ends[e].to = n}
          /\ ins' = ins \ {e \in outs' : graph.ends[e].from = n}
          /\ mode = "ready"
      BY <3>1 DEF RemoveNode, InEdges
    <3>3. \A id \in Elements(nodesCnt) : IsNode(id) => bound[id] # n
      BY <3>1 DEF RemoveNode, Counted
    <3>4. IsNode(steps[p].id) => bound[steps[p].id] \in stored'
      BY <1>5, <2>1, <3>2, <3>3 DEF Still
    <3>5. ASSUME ~ IsNode(steps[p].id)
          PROVE  /\ graph.ends[bound[steps[p].id]].from # n
                 /\ graph.ends[bound[steps[p].id]].to # n
      <4> DEFINE id == steps[p].id
      <4>1. id \in Elements(nodesCnt) /\ nodesCnt \in Nat
        BY <1>5, TypeFacts DEF SearchInv, PlanInv
      <4>2. /\ id - 1 \in Elements(nodesCnt) /\ id + 1 \in Elements(nodesCnt)
            /\ IsNode(id - 1) /\ IsNode(id + 1)
        BY <3>5, <4>1, EdgeInside
      <4>3. IsMatch(bound, graph.nodes, graph.linked)
        BY <3>2, MatchHeld DEF ResultsMatch, Counted
      <4> HIDE DEF id
      <4>4. ~ IsNode(id)
        BY <3>5 DEF id
      <4>5. PICK from, to : /\ graph.ends[bound[id]] = [from |-> from, to |-> to]
                            /\ from \in {bound[id - 1], bound[id + 1]}
                            /\ to \in {bound[id - 1], bound[id + 1]}
        BY <4>1, <4>3, <4>4 DEF IsMatch
      <4>6. bound[id - 1] # n /\ bound[id + 1] # n
        BY <3>3, <4>2
      <4>7. graph.ends[bound[id]].from = from /\ graph.ends[bound[id]].to = to
        BY <4>5
      <4>8. graph.ends[bound[id]].from # n /\ graph.ends[bound[id]].to # n
        BY <4>5, <4>6, <4>7
      <4> QED
        BY <4>8 DEF id
    <3> QED
      BY <1>1, <1>2, <2>1, <3>2, <3>4, <3>5 DEF Still
  <2> QED
    BY <2>2, <2>3, <2>4
<1> QED
  BY <1>2, <1>4, <1>6 DEF Ahead

\* Every step keeps the invariant.
LEMMA AheadStep ==
  ASSUME SearchInv, AheadInv, [QueryNext]_queryVars
  PROVE  AheadInv'
<1>1. CASE Planning
  <2>1. Next /\ UNCHANGED <<searchVars, askedVars, storeVars, disturbed>>
    BY <1>1 DEF Planning
  <2>2. DirectFirst'
    BY <2>1, PlansDirectFirst DEF AheadInv, SearchInv
  <2>3. pc # "done"
    BY <2>1 DEF Next, AcquireDirectly, AllAcquired, FillGap, FillLastGap
  <2>4. at' = 1 /\ mode' = "enter"
    BY <2>1, <2>3 DEF SearchInv, searchVars
  <2>5. AllAhead'
    <3>1. \A m : Same(bound, m, at - 1)'
      BY <2>4 DEF Same
    <3> QED
      BY <2>4, <3>1 DEF AllAhead
  <2>6. \A p \in 1..Len(steps') : ~ Settled(p)'
    BY <2>4 DEF Settled
  <2> QED
    BY <2>2, <2>5, <2>6 DEF AheadInv, Ahead
<1>2. CASE ~ Planning
  <2>2. UNCHANGED <<vars, askedVars>>
    BY <1>2 DEF QueryNext, Running, Search, FallingOff, BindGiven, GivenDoesNotFit, GivenAborts,
      GivenThrows, GivenRetried, Choose, NoChoice, SeekAborts, Follow, DoesNotFit, FollowAborts,
      FollowThrows, FollowedRetried, FallsOffFalse, FallsOffEndless, GoOn, GoBack, Leave,
      Increment, RemoveEdge, RemoveNode, queryVars
  <2>3. steps' = steps /\ pc' = pc /\ query' = query
    BY <2>2 DEF vars, askedVars
  <2>4. DirectFirst /\ DirectFirst'
    BY <2>3 DEF AheadInv, DirectFirst
  <2>5. ASSUME pc' = "done", Counted'
        PROVE  Ahead'
    <3>1. ~ disturbed' /\ (disturbed => disturbed')
      <4>1. \/ UNCHANGED disturbed \/ FallingOff
            \/ \E e \in outs \cup ins : RemoveEdge(e)
            \/ \E n \in stored : RemoveNode(n)
        BY <1>2 DEF QueryNext, Running, Increment, queryVars
      <4>2. (\E e \in outs \cup ins : RemoveEdge(e)) => (disturbed => disturbed')
        BY Zenon DEF RemoveEdge
      <4>3. (\E n \in stored : RemoveNode(n)) => (disturbed => disturbed')
        BY Zenon DEF RemoveNode
      <4>4. FallingOff => disturbed'
        BY DEF FallingOff, FallsOffFalse, FallsOffEndless
      <4>5. UNCHANGED disturbed => (disturbed => disturbed')
        BY Zenon
      <4> QED
        BY <2>5, <4>1, <4>2, <4>3, <4>4, <4>5, Zenon DEF Counted
    <3>2. pc = "done" /\ Counted
      BY <2>3, <2>5, <3>1 DEF Counted, Directed, NoneFromRight
    <3>3. Ahead
      BY <3>2 DEF AheadInv
    <3>4. CASE Search
      BY <2>4, <3>2, <3>3, <3>4, GivenAhead, ChoiceAhead, FollowAhead, RetryAhead DEF Search
    <3>5. CASE FallingOff
      BY <3>1, <3>5 DEF FallingOff, FallsOffFalse, FallsOffEndless
    <3>6. CASE \/ Increment \/ UNCHANGED queryVars
               \/ \E e \in outs \cup ins : RemoveEdge(e)
               \/ \E n \in stored : RemoveNode(n)
      BY <2>5, <3>2, <3>3, <3>6, ClientAhead
    <3> QED
      BY <1>2, <3>4, <3>5, <3>6 DEF QueryNext, Running
  <2> QED
    BY <2>4, <2>5 DEF AheadInv
<1> QED
  BY <1>1, <1>2

\* Nothing is planned or bound at first.
LEMMA AheadInit == QueryInit => AheadInv
<1> SUFFICES ASSUME QueryInit
             PROVE  AheadInv
  OBVIOUS
<1>1. steps = <<>> /\ pc # "done"
  BY InitOfPlan DEF Init
<1> QED
  BY <1>1 DEF AheadInv, DirectFirst

\* For every graph and every pattern in which no node is found from the
\* right, the search that ends has returned every match that is left, when
\* the client took nothing from a result the iterator stood on and the
\* missing return did not matter.
THEOREM AlwaysComplete == QuerySpec => []Complete
<1>1. QueryInit => AheadInv
  BY AheadInit
<1>2. SearchInv /\ AheadInv /\ [QueryNext]_queryVars => AheadInv'
  BY AheadStep
<1>3. SearchInv /\ AheadInv => Complete
  <2>1. SearchInv /\ mode = "end" => pc = "done"
    BY DEF SearchInv
  <2> QED
    BY <2>1 DEF AheadInv, Counted, Ahead, AllAhead, Complete
<1> QED
  BY <1>1, <1>2, <1>3, SearchAlways, PTL DEF QuerySpec
=============================================================================
