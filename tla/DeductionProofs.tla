--------------------------- MODULE DeductionProofs ---------------------------
(***************************************************************************)
(* The planner's properties for patterns of every length.  First the walk  *)
(* through one gap, as arithmetic (Visited...), then what filling a gap    *)
(* does to a list of steps (GapFilled), then the invariant of the three    *)
(* loops (PlanInv) and the theorems.                                       *)
(***************************************************************************)
EXTENDS Deduction, SequenceTheorems, TLAPS

\* The steps of a plan for n nodes.
Traits(n) == [id : Elements(n), constraint : SUBSET Sides, direct : BOOLEAN]

\* A number is twice its half, or one more.
LEMMA Halves ==
  ASSUME NEW j \in Nat
  PROVE  /\ j \div 2 \in Nat
         /\ \/ j % 2 = 0 /\ j = 2 * (j \div 2)
            \/ j % 2 = 1 /\ j = 2 * (j \div 2) + 1
OBVIOUS

\* The gap between two bounds, as facts about integers: which element is
\* visited when.
LEMMA VisitedInGap ==
  ASSUME NEW left \in Int, NEW right \in Int, NEW j \in Nat, j < right - left - 1
  PROVE  /\ Visited(left, right, j) \in left + 1..right - 1
         /\ j % 2 = 0 => Visited(left, right, j) = left + j \div 2 + 1
         /\ j % 2 = 1 => Visited(left, right, j) = right - j \div 2 - 1
BY Halves DEF Visited

\* No element of the gap is visited twice.
LEMMA VisitedOnce ==
  ASSUME NEW left \in Int, NEW right \in Int,
         NEW j \in Nat, j < right - left - 1, NEW l \in Nat, l < j
  PROVE  Visited(left, right, j) # Visited(left, right, l)
<1>1. /\ j \div 2 \in Nat /\ ((j % 2 = 0 /\ j = 2 * (j \div 2)) \/ (j % 2 = 1 /\ j = 2 * (j \div 2) + 1))
      /\ l \div 2 \in Nat /\ ((l % 2 = 0 /\ l = 2 * (l \div 2)) \/ (l % 2 = 1 /\ l = 2 * (l \div 2) + 1))
  BY Halves
<1> DEFINE a == j \div 2
           b == l \div 2
<1>2. /\ a \in Nat /\ b \in Nat
      /\ \/ Visited(left, right, j) = left + a + 1 /\ j = 2 * a
         \/ Visited(left, right, j) = right - a - 1 /\ j = 2 * a + 1
      /\ \/ Visited(left, right, l) = left + b + 1 /\ l = 2 * b
         \/ Visited(left, right, l) = right - b - 1 /\ l = 2 * b + 1
  BY <1>1 DEF Visited
<1> HIDE DEF a, b
<1> QED
  BY <1>2

\* Every element of the gap is visited.
LEMMA VisitedAll ==
  ASSUME NEW left \in Int, NEW right \in Int, NEW x \in left + 1..right - 1
  PROVE  \E j \in 0..right - left - 2 : Visited(left, right, j) = x
<1> DEFINE d == x - left - 1
           r == right - 1 - x
<1>1. d \in Nat /\ r \in Nat /\ d + r = right - left - 2 /\ x = left + d + 1 /\ x = right - r - 1
  OBVIOUS
<1> HIDE DEF d, r
<1>2. CASE d <= r
  <2>1. 2 * d \in 0..right - left - 2 /\ (2 * d) % 2 = 0 /\ (2 * d) \div 2 = d
    BY <1>1, <1>2
  <2> QED
    BY <1>1, <2>1 DEF Visited
<1>3. CASE r < d
  <2>1. 2 * r + 1 \in 0..right - left - 2 /\ (2 * r + 1) % 2 = 1 /\ (2 * r + 1) \div 2 = r
    BY <1>1, <1>3
  <2> QED
    BY <1>1, <2>1 DEF Visited
<1> QED
  BY <1>1, <1>2, <1>3

\* The left neighbour of an element of the gap is the left bound, or was
\* visited before, exactly when the step is approached from the left.
LEMMA LeftOfVisited ==
  ASSUME NEW left \in Int, NEW right \in Int, NEW j \in Nat, j < right - left - 1
  PROVE  ("left" \in Known(right - left - 1, j)) <=>
           \/ Visited(left, right, j) - 1 = left
           \/ \E l \in 0..j - 1 : Visited(left, right, l) = Visited(left, right, j) - 1
<1>0. /\ j \div 2 \in Nat
      /\ (j % 2 = 0 /\ j = 2 * (j \div 2)) \/ (j % 2 = 1 /\ j = 2 * (j \div 2) + 1)
  BY Halves
<1>1. CASE j % 2 = 0
  <2>1. "left" \in Known(right - left - 1, j)
    BY <1>1 DEF Known
  <2>2. CASE j = 0
    BY <2>1, <2>2, <1>0 DEF Visited
  <2>3. CASE j # 0
    <3>1. j - 2 \in 0..j - 1 /\ (j - 2) % 2 = 0 /\ (j - 2) \div 2 = j \div 2 - 1
      BY <1>0, <1>1, <2>3
    <3>2. Visited(left, right, j - 2) = Visited(left, right, j) - 1
      BY <1>0, <1>1, <3>1 DEF Visited
    <3> QED
      BY <2>1, <3>1, <3>2
  <2> QED
    BY <2>2, <2>3
<1>2. CASE j % 2 = 1
  <2>1. ("left" \in Known(right - left - 1, j)) <=> j = right - left - 2
    BY <1>2 DEF Known
  <2>2. CASE j = right - left - 2
    <3>1. j - 1 \in 0..j - 1 /\ (j - 1) % 2 = 0 /\ (j - 1) \div 2 = j \div 2
      BY <1>0, <1>2
    <3>2. Visited(left, right, j - 1) = Visited(left, right, j) - 1
      BY <1>0, <1>2, <2>2, <3>1 DEF Visited
    <3> QED
      BY <2>1, <2>2, <3>1, <3>2
  <2>3. CASE j < right - left - 2
    <3>1. Visited(left, right, j) - 1 # left
      BY <1>0, <1>2, <2>3 DEF Visited
    <3>2. ASSUME NEW l \in 0..j - 1
          PROVE  Visited(left, right, l) # Visited(left, right, j) - 1
      <4>1. /\ l \div 2 \in Nat
            /\ (l % 2 = 0 /\ l = 2 * (l \div 2)) \/ (l % 2 = 1 /\ l = 2 * (l \div 2) + 1)
        BY l \in Nat, Halves
      <4> QED
        BY <1>0, <1>2, <2>3, <4>1 DEF Visited
    <3> QED
      BY <2>1, <2>3, <3>1, <3>2
  <2> QED
    BY <2>2, <2>3
<1> QED
  BY <1>0, <1>1, <1>2

\* The same for the right neighbour.
LEMMA RightOfVisited ==
  ASSUME NEW left \in Int, NEW right \in Int, NEW j \in Nat, j < right - left - 1
  PROVE  ("right" \in Known(right - left - 1, j)) <=>
           \/ Visited(left, right, j) + 1 = right
           \/ \E l \in 0..j - 1 : Visited(left, right, l) = Visited(left, right, j) + 1
<1>0. /\ j \div 2 \in Nat
      /\ (j % 2 = 0 /\ j = 2 * (j \div 2)) \/ (j % 2 = 1 /\ j = 2 * (j \div 2) + 1)
  BY Halves
<1>1. CASE j % 2 = 1
  <2>1. "right" \in Known(right - left - 1, j)
    BY <1>1 DEF Known
  <2>2. CASE j = 1
    BY <1>0, <1>1, <2>1, <2>2 DEF Visited
  <2>3. CASE j # 1
    <3>1. j - 2 \in 0..j - 1 /\ (j - 2) % 2 = 1 /\ (j - 2) \div 2 = j \div 2 - 1
      BY <1>0, <1>1, <2>3
    <3>2. Visited(left, right, j - 2) = Visited(left, right, j) + 1
      BY <1>0, <1>1, <3>1 DEF Visited
    <3> QED
      BY <2>1, <3>1, <3>2
  <2> QED
    BY <2>2, <2>3
<1>2. CASE j % 2 = 0
  <2>1. ("right" \in Known(right - left - 1, j)) <=> j = right - left - 2
    BY <1>2 DEF Known
  <2>2. CASE j = right - left - 2 /\ j = 0
    BY <1>0, <1>2, <2>1, <2>2 DEF Visited
  <2>3. CASE j = right - left - 2 /\ j # 0
    <3>1. j - 1 \in 0..j - 1 /\ (j - 1) % 2 = 1 /\ (j - 1) \div 2 = j \div 2 - 1
      BY <1>0, <1>2, <2>3
    <3>2. Visited(left, right, j - 1) = Visited(left, right, j) + 1
      BY <1>0, <1>2, <2>3, <3>1 DEF Visited
    <3> QED
      BY <2>1, <2>3, <3>1, <3>2
  <2>4. CASE j < right - left - 2
    <3>1. Visited(left, right, j) + 1 # right
      BY <1>0, <1>2, <2>4 DEF Visited
    <3>2. ASSUME NEW l \in 0..j - 1
          PROVE  Visited(left, right, l) # Visited(left, right, j) + 1
      <4>1. /\ l \div 2 \in Nat
            /\ (l % 2 = 0 /\ l = 2 * (l \div 2)) \/ (l % 2 = 1 /\ l = 2 * (l \div 2) + 1)
        BY l \in Nat, Halves
      <4> QED
        BY <1>0, <1>2, <2>4, <4>1 DEF Visited
    <3> QED
      BY <2>1, <2>4, <3>1, <3>2
  <2> QED
    BY <2>2, <2>3, <2>4
<1> QED
  BY <1>0, <1>1, <1>2

\* A gap never leaves its bounds, and meets each of them in one place.
LEMMA NextToBound ==
  ASSUME NEW left \in Int, NEW right \in Int, NEW j \in Nat, j < right - left - 1
  PROVE  /\ Visited(left, right, j) - 1 = left <=> j = 0
         /\ Visited(left, right, j) + 1 = right <=> (j = 1 \/ right - left - 1 = 1)
<1>1. /\ j \div 2 \in Nat
      /\ (j % 2 = 0 /\ j = 2 * (j \div 2)) \/ (j % 2 = 1 /\ j = 2 * (j \div 2) + 1)
  BY Halves
<1> QED
  BY <1>1 DEF Visited

\* A step of the gap is constrained on the left exactly when there is a
\* bound next to it on the left or the element there was visited before.
LEMMA ConstrainedLeft ==
  ASSUME NEW left \in Int, NEW right \in Int, NEW j \in Nat, j < right - left - 1
  PROVE  ("left" \in Known(right - left - 1, j) \ Missing(left, right, right - left - 1, j)) <=>
           \/ left # -1 /\ Visited(left, right, j) - 1 = left
           \/ \E l \in 0..j - 1 : Visited(left, right, l) = Visited(left, right, j) - 1
<1>1. ("left" \in Missing(left, right, right - left - 1, j)) <=> (left = -1 /\ j = 0)
  BY DEF Missing
<1>2. Visited(left, right, j) - 1 = left <=> j = 0
  BY NextToBound
<1>3. j = 0 => 0..j - 1 = {}
  OBVIOUS
<1> QED
  BY <1>1, <1>2, <1>3, LeftOfVisited

\* The same for the right.
LEMMA ConstrainedRight ==
  ASSUME nodesCnt \in Nat,
         NEW left \in Int, NEW right \in Int, NEW j \in Nat, j < right - left - 1
  PROVE  ("right" \in Known(right - left - 1, j) \ Missing(left, right, right - left - 1, j)) <=>
           \/ right <= MaxId /\ Visited(left, right, j) + 1 = right
           \/ \E l \in 0..j - 1 : Visited(left, right, l) = Visited(left, right, j) + 1
<1>1. ("right" \in Missing(left, right, right - left - 1, j))
        <=> (~ right <= MaxId /\ (j = 1 \/ right - left - 1 = 1))
  BY DEF Missing, MaxId
<1>2. Visited(left, right, j) + 1 = right <=> (j = 1 \/ right - left - 1 = 1)
  BY NextToBound
<1>3. Visited(left, right, j) + 1 = right =>
        \A l \in 0..j - 1 : Visited(left, right, l) # Visited(left, right, j) + 1
  <2>1. ASSUME NEW l \in 0..j - 1
        PROVE  Visited(left, right, l) \in left + 1..right - 1
    <3>1. l \in Nat /\ l < right - left - 1
      OBVIOUS
    <3> QED
      BY <3>1, VisitedInGap
  <2> QED
    BY <2>1
<1> QED
  BY <1>1, <1>2, <1>3, RightOfVisited

(***************************************************************************)
(* The invariant                                                           *)
(***************************************************************************)
\* The list s has a step for element x.
Placed(s, x) == \E p \in 1..Len(s) : s[p].id = x

\* The parts of the plan's correctness, for any list of steps.
Exact(s) ==
  \A p \in 1..Len(s) :
    /\ ("left" \in s[p].constraint) <=> \E q \in 1..p - 1 : s[q].id = s[p].id - 1
    /\ ("right" \in s[p].constraint) <=> \E q \in 1..p - 1 : s[q].id = s[p].id + 1

Once(s) == \A p, q \in 1..Len(s) : s[p].id = s[q].id => p = q

Tagged(s, given) == \A p \in 1..Len(s) : s[p].direct <=> s[p].id \in given

Anchored(s, last) ==
  \A p \in 1..Len(s) : s[p].constraint = {} /\ ~ s[p].direct => s[p].id \in {0, last}

\* The first n steps are in the order of the pattern.
Ascending(s, n) == \A p, q \in 1..n : p < q => s[p].id < s[q].id

\* Filling a gap of a correct plan between two bounds leaves it correct and
\* adds exactly the elements of the gap.
LEMMA GapFilled ==
  ASSUME nodesCnt \in Nat \ {0}, NEW s \in Seq(Traits(nodesCnt)),
         NEW left \in -1..MaxId, NEW right \in 0..MaxId + 1, left < right,
         Exact(s), Once(s), Tagged(s, acquired), Anchored(s, MaxId),
         \A x \in Int : left < x /\ x < right => ~ Placed(s, x) /\ x \notin acquired,
         left # -1 => Placed(s, left),
         right <= MaxId => Placed(s, right),
         NEW t, t = s \o Between(left, right)
  PROVE  /\ t \in Seq(Traits(nodesCnt))
         /\ Len(s) <= Len(t)
         /\ \A p \in 1..Len(s) : t[p] = s[p]
         /\ Exact(t) /\ Once(t) /\ Tagged(t, acquired) /\ Anchored(t, MaxId)
         /\ \A x \in Int : Placed(t, x) <=> Placed(s, x) \/ (left < x /\ x < right)
<1> DEFINE count == right - left - 1
           gap == Between(left, right)
           v(j) == Visited(left, right, j)
           known(j) == Known(count, j) \ Missing(left, right, count, j)
           n == Len(s)
<1>1. MaxId \in Nat /\ left \in Int /\ right \in Int /\ count \in Nat /\ n \in Nat
  BY DEF MaxId
<1>2. ASSUME NEW j \in 0..count - 1
      PROVE  /\ v(j) \in Elements(nodesCnt) /\ v(j) \in Int
             /\ left < v(j) /\ v(j) < right
             /\ known(j) \in SUBSET Sides
  <2>1. j \in Nat /\ j < right - left - 1
    BY <1>1
  <2>2. v(j) \in left + 1..right - 1
    BY <2>1, <1>1, VisitedInGap
  <2>3. known(j) \in SUBSET Sides
    BY DEF Known, Sides
  <2> QED
    BY <1>1, <2>2, <2>3 DEF Elements, MaxId
<1>3. \A k \in 1..count :
        k - 1 \in 0..count - 1 /\ gap[k] = [id |-> v(k - 1), constraint |-> known(k - 1), direct |-> FALSE]
  BY <1>1 DEF Between, Trait
<1> HIDE DEF v, known, count
<1>4. gap \in Seq(Traits(nodesCnt)) /\ Len(gap) = count
  <2>2. ASSUME NEW k \in 1..count
        PROVE  gap[k] \in Traits(nodesCnt)
    <3>1. gap[k] = [id |-> v(k - 1), constraint |-> known(k - 1), direct |-> FALSE]
      BY <1>3
    <3>2. v(k - 1) \in Elements(nodesCnt) /\ known(k - 1) \in SUBSET Sides
      BY <1>2, <1>3
    <3> QED
      BY <3>1, <3>2 DEF Traits
  <2>3. gap = [k \in 1..count |-> gap[k]]
    BY DEF Between, count
  <2> HIDE DEF gap
  <2>4. gap \in [1..count -> Traits(nodesCnt)]
    BY <2>2, <2>3
  <2> QED
    BY <1>1, <2>4
<1> HIDE DEF gap, n
<1>5. /\ t \in Seq(Traits(nodesCnt)) /\ Len(t) = n + count
      /\ \A p \in 1..n + count : t[p] = IF p <= n THEN s[p] ELSE gap[p - n]
  BY <1>4, ConcatProperties DEF gap, n
<1>6. \A p \in 1..n : t[p] = s[p]
  BY <1>1, <1>5
<1>7. ASSUME NEW p \in 1..Len(t), ~ p <= n
      PROVE  /\ p - n - 1 \in 0..count - 1
             /\ t[p].id = v(p - n - 1)
             /\ t[p].constraint = known(p - n - 1)
             /\ t[p].direct = FALSE
  <2>0. p \in 1..n + count /\ (p - n) - 1 = p - n - 1
    BY <1>1, <1>5
  <2>1. p - n \in 1..count /\ t[p] = gap[p - n]
    BY <2>0, <1>1, <1>5, <1>7
  <2>2. gap[p - n] = [id |-> v(p - n - 1), constraint |-> known(p - n - 1), direct |-> FALSE]
    BY <2>1, <1>3
  <2> QED
    BY <2>0, <2>1, <2>2, <1>3
<1>8. \A p \in 1..n : s[p].id \in Int /\ 0 <= s[p].id /\ s[p].id <= MaxId
  <2> SUFFICES ASSUME NEW p \in 1..n
               PROVE  s[p].id \in Int /\ 0 <= s[p].id /\ s[p].id <= MaxId
    OBVIOUS
  <2>1. s[p] \in Traits(nodesCnt)
    BY ElementOfSeq DEF n
  <2>2. s[p].id \in Elements(nodesCnt)
    BY <2>1 DEF Traits
  <2> QED
    BY <2>2 DEF Elements, MaxId
<1>9. \A p \in 1..n, j \in 0..count - 1 : s[p].id # v(j)
  BY <1>2 DEF Placed, n
<1>10. Exact(t)
  <2> SUFFICES ASSUME NEW p \in 1..Len(t)
               PROVE  /\ ("left" \in t[p].constraint) <=> \E q \in 1..p - 1 : t[q].id = t[p].id - 1
                      /\ ("right" \in t[p].constraint) <=> \E q \in 1..p - 1 : t[q].id = t[p].id + 1
    BY DEF Exact
  <2>1. CASE p <= n
    <3>1. /\ p \in 1..Len(s) /\ t[p] = s[p]
          /\ \A q \in 1..p - 1 : t[q] = s[q]
      BY <2>1, <1>1, <1>6 DEF n
    <3>2. /\ ("left" \in s[p].constraint) <=> \E q \in 1..p - 1 : s[q].id = s[p].id - 1
          /\ ("right" \in s[p].constraint) <=> \E q \in 1..p - 1 : s[q].id = s[p].id + 1
      BY <3>1 DEF Exact
    <3> QED
      BY <3>1, <3>2
  <2>2. CASE ~ p <= n
    <3> DEFINE j == p - n - 1
    <3>1. /\ j \in 0..count - 1
          /\ t[p].id = v(j) /\ t[p].constraint = known(j)
      BY <2>2, <1>7
    <3>0. j \in Nat /\ j < right - left - 1
      BY <3>1, <1>1 DEF count
    <3>2. v(j) \in Int /\ left < v(j) /\ v(j) < right
      BY <3>1, <1>2
    <3>3. p = n + j + 1
      BY <1>1, <1>5
    <3> HIDE DEF j
    \* an element is bound before p by an old step or by the gap
    <3>4. ASSUME NEW x \in Int
          PROVE  (\E q \in 1..p - 1 : t[q].id = x) <=>
                    Placed(s, x) \/ \E l \in 0..j - 1 : v(l) = x
      <4>1. ASSUME NEW q \in 1..p - 1, t[q].id = x
            PROVE  Placed(s, x) \/ \E l \in 0..j - 1 : v(l) = x
        <5>1. CASE q <= n
          BY <4>1, <5>1, <1>1, <1>6 DEF Placed, n
        <5>2. CASE ~ q <= n
          <6>1. q \in 1..Len(t) /\ q - n - 1 \in 0..j - 1
            BY <5>2, <3>1, <3>3, <1>1, <1>5
          <6> QED
            BY <4>1, <5>2, <6>1, <1>7
        <5> QED
          BY <5>1, <5>2
      <4>2. ASSUME Placed(s, x)
            PROVE  \E q \in 1..p - 1 : t[q].id = x
        <5>1. PICK q \in 1..n : s[q].id = x
          BY <4>2 DEF Placed, n
        <5>2. q \in 1..p - 1
          BY <1>1, <3>1, <3>3
        <5> QED
          BY <5>1, <5>2, <1>6
      <4>3. ASSUME NEW l \in 0..j - 1, v(l) = x
            PROVE  \E q \in 1..p - 1 : t[q].id = x
        <5> DEFINE q == n + l + 1
        <5>0. l \in Nat /\ l < j /\ l < count /\ j \in Nat
          BY <3>0, <3>1, <1>1
        <5>1. q \in 1..p - 1 /\ q \in 1..n + count /\ ~ q <= n /\ q - n - 1 = l
          BY <1>1, <5>0, <3>3
        <5> HIDE DEF q
        <5>2. t[q].id = v(l)
          BY <5>1, <1>5, <1>7
        <5> QED
          BY <4>3, <5>1, <5>2
      <4> QED
        BY <4>1, <4>2, <4>3
    <3>5. Placed(s, v(j) - 1) <=> (left # -1 /\ v(j) - 1 = left)
      <4>1. Placed(s, v(j) - 1) => v(j) - 1 >= 0
        BY <1>8 DEF Placed, n
      <4>2. Placed(s, v(j) - 1) => ~ (left < v(j) - 1 /\ v(j) - 1 < right)
        BY <3>2
      <4> QED
        BY <4>1, <4>2, <3>2, <1>1
    <3>6. Placed(s, v(j) + 1) <=> (right <= MaxId /\ v(j) + 1 = right)
      <4>1. Placed(s, v(j) + 1) => v(j) + 1 <= MaxId
        BY <1>8 DEF Placed, n
      <4>2. Placed(s, v(j) + 1) => ~ (left < v(j) + 1 /\ v(j) + 1 < right)
        BY <3>2
      <4>3. ~ (left < v(j) + 1 /\ v(j) + 1 < right) => v(j) + 1 = right
        <5>1. \A a, b, c \in Int : a < b /\ b < c /\ ~ (a < b + 1 /\ b + 1 < c) => b + 1 = c
          OBVIOUS
        <5> QED
          BY <5>1, <3>2, <1>1
      <4> QED
        BY <4>1, <4>2, <4>3
    <3>7. ("left" \in known(j)) <=>
             (left # -1 /\ v(j) - 1 = left) \/ \E l \in 0..j - 1 : v(l) = v(j) - 1
      BY <3>0, <1>1, ConstrainedLeft DEF known, v, count
    <3>8. ("right" \in known(j)) <=>
             (right <= MaxId /\ v(j) + 1 = right) \/ \E l \in 0..j - 1 : v(l) = v(j) + 1
      BY <3>0, <1>1, ConstrainedRight DEF known, v, count
    <3>9. v(j) - 1 \in Int /\ v(j) + 1 \in Int
      BY <3>2
    <3> QED
      <4>1. (\E q \in 1..p - 1 : t[q].id = v(j) - 1) <=>
              Placed(s, v(j) - 1) \/ \E l \in 0..j - 1 : v(l) = v(j) - 1
        BY <3>4, <3>9
      <4>2. (\E q \in 1..p - 1 : t[q].id = v(j) + 1) <=>
              Placed(s, v(j) + 1) \/ \E l \in 0..j - 1 : v(l) = v(j) + 1
        BY <3>4, <3>9
      <4>3. ("left" \in t[p].constraint) <=> \E q \in 1..p - 1 : t[q].id = t[p].id - 1
        BY <3>1, <3>5, <3>7, <4>1
      <4>4. ("right" \in t[p].constraint) <=> \E q \in 1..p - 1 : t[q].id = t[p].id + 1
        BY <3>1, <3>6, <3>8, <4>2
      <4> QED
        BY <4>3, <4>4
  <2> QED
    BY <2>1, <2>2
<1>11. Once(t)
  <2> SUFFICES ASSUME NEW p \in 1..Len(t), NEW q \in 1..Len(t), p < q
               PROVE  t[p].id # t[q].id
    <3>1. \A p, q \in 1..Len(t) : p = q \/ p < q \/ q < p
      BY <1>1, <1>5
    <3> QED
      BY <3>1 DEF Once
  <2>1. CASE q <= n
    <3>1. p \in 1..n /\ q \in 1..n /\ p # q
      BY <2>1, <1>1, <1>5
    <3>2. s[p].id # s[q].id
      BY <3>1 DEF Once, n
    <3> QED
      BY <3>1, <3>2, <1>6
  <2>2. CASE p <= n /\ ~ q <= n
    <3>1. p \in 1..n /\ t[p] = s[p]
      BY <2>2, <1>1, <1>5, <1>6
    <3>2. q - n - 1 \in 0..count - 1 /\ t[q].id = v(q - n - 1)
      BY <2>2, <1>7
    <3> QED
      BY <3>1, <3>2, <1>9
  <2>3. CASE ~ p <= n /\ ~ q <= n
    <3> DEFINE j == q - n - 1
               l == p - n - 1
    <3>1. j \in Nat /\ l \in Nat /\ l < j /\ j < right - left - 1
      <4>1. count \in Nat /\ n \in Nat /\ count = right - left - 1
        BY <1>1 DEF count
      <4>2. p \in 1..n + count /\ q \in 1..n + count /\ p < q /\ n < p /\ n < q
        BY <2>3, <1>5, <4>1
      <4> QED BY <4>1, <4>2
    <3>2. t[q].id = v(j) /\ t[p].id = v(l)
      BY <2>3, <1>7
    <3> HIDE DEF j, l
    <3> QED
      BY <3>1, <3>2, <1>1, VisitedOnce DEF v
  <2> QED
    BY <2>1, <2>2, <2>3, <1>1, <1>5
<1>12. Tagged(t, acquired)
  <2> SUFFICES ASSUME NEW p \in 1..Len(t)
               PROVE  t[p].direct <=> t[p].id \in acquired
    BY DEF Tagged
  <2>1. CASE p <= n
    BY <2>1, <1>1, <1>6 DEF Tagged, n
  <2>2. CASE ~ p <= n
    BY <2>2, <1>2, <1>7
  <2> QED
    BY <2>1, <2>2
<1>13. Anchored(t, MaxId)
  <2> SUFFICES ASSUME NEW p \in 1..Len(t), t[p].constraint = {}, ~ t[p].direct
               PROVE  t[p].id \in {0, MaxId}
    BY DEF Anchored
  <2>1. CASE p <= n
    BY <2>1, <1>1, <1>6 DEF Anchored, n
  <2>2. CASE ~ p <= n
    <3> DEFINE j == p - n - 1
    <3>1. j \in 0..count - 1 /\ t[p].id = v(j) /\ known(j) = {}
      BY <2>2, <1>7
    <3> HIDE DEF j
    <3>2. j \in Nat /\ j < right - left - 1
      BY <3>1, <1>1 DEF count
    <3>3. CASE "left" \in Known(count, j)
      <4>1. left = -1 /\ j = 0
        BY <3>1, <3>3 DEF known, Missing
      <4>2. v(j) - 1 = left
        BY <4>1, <3>2, <1>1, NextToBound DEF v
      <4>3. v(j) \in Int
        BY <3>1, <1>2
      <4> QED
        BY <3>1, <4>1, <4>2, <4>3
    <3>4. CASE "right" \in Known(count, j)
      <4>1. ~ right <= MaxId /\ (j = 1 \/ count = 1)
        BY <3>1, <3>4, <1>1 DEF known, Missing
      <4>2. v(j) + 1 = right
        BY <4>1, <3>2, <1>1, NextToBound DEF v, count
      <4>3. v(j) \in Int /\ right = MaxId + 1
        BY <3>1, <4>1, <1>1, <1>2
      <4> QED
        BY <3>1, <4>2, <4>3, <1>1
    <3> QED
      BY <3>3, <3>4 DEF Known
  <2> QED
    BY <2>1, <2>2
<1>14. ASSUME NEW x \in Int
       PROVE  Placed(t, x) <=> Placed(s, x) \/ (left < x /\ x < right)
  <2>1. ASSUME NEW p \in 1..Len(t), t[p].id = x
        PROVE  Placed(s, x) \/ (left < x /\ x < right)
    <3>1. CASE p <= n
      BY <2>1, <3>1, <1>1, <1>6 DEF Placed, n
    <3>2. CASE ~ p <= n
      BY <2>1, <3>2, <1>2, <1>7
    <3> QED
      BY <3>1, <3>2
  <2>2. ASSUME NEW p \in 1..n, s[p].id = x
        PROVE  Placed(t, x)
    <3>1. p \in 1..Len(t) /\ t[p] = s[p]
      BY <1>1, <1>5, <1>6
    <3> QED
      BY <2>2, <3>1 DEF Placed
  <2>3. ASSUME left < x, x < right
        PROVE  Placed(t, x)
    <3>1. x \in left + 1..right - 1
      BY <2>3, <1>1
    <3>2. PICK j \in 0..right - left - 2 : v(j) = x
      BY <3>1, <1>1, VisitedAll DEF v
    <3> DEFINE p == n + j + 1
    <3>3. p \in 1..Len(t) /\ ~ p <= n /\ p - n - 1 = j
      BY <1>1, <1>5 DEF count
    <3> HIDE DEF p
    <3>4. t[p].id = v(j)
      BY <3>3, <1>7
    <3> QED
      BY <3>2, <3>3, <3>4 DEF Placed
  <2> QED
    BY <2>1, <2>2, <2>3 DEF Placed, n
<1> QED
  BY <1>1, <1>5, <1>6, <1>10, <1>11, <1>12, <1>13, <1>14 DEF n

\* In the loop over the elements given by id, the list is the accepted ones
\* so far, in the order of the pattern.
DirectInv ==
  /\ Len(steps) <= i
  /\ Ascending(steps, Len(steps))
  /\ \A x \in Int : Placed(steps, x) <=> (x \in acquired /\ x < i)

\* While the gaps are filled, the first directSize steps are all elements
\* given by id, and everything on the left of the next gap is in the list.
BetweenInv ==
  /\ i <= directSize
  /\ directSize <= Len(steps)
  /\ Ascending(steps, directSize)
  /\ \A x \in acquired : \E p \in 1..directSize : steps[p].id = x
  /\ \A p \in 1..directSize : steps[p].id \in acquired
  /\ \A x \in Int : Placed(steps, x) <=> (x \in acquired \/ (0 <= x /\ x < BoundBefore(i)))

\* The inductive invariant.
PlanInv ==
  /\ TypeOK
  /\ Exact(steps)
  /\ Once(steps)
  /\ Tagged(steps, acquired)
  /\ Anchored(steps, MaxId)
  /\ pc = "direct" => DirectInv
  /\ pc = "between" => BetweenInv
  /\ pc = "done" => \A x \in Elements(nodesCnt) : Placed(steps, x)

\* What TypeOK says, as facts about numbers.
LEMMA TypeFacts ==
  ASSUME TypeOK
  PROVE  /\ nodesCnt \in Nat \ {0} /\ MaxId \in Nat /\ MaxId = 2 * nodesCnt - 2
         /\ steps \in Seq(Traits(nodesCnt))
         /\ Len(steps) \in Nat
         /\ i \in Nat /\ directSize \in Nat
         /\ \A x \in acquired : x \in Int /\ 0 <= x /\ x <= MaxId
         /\ \A p \in 1..Len(steps) : steps[p].id \in Int /\ 0 <= steps[p].id /\ steps[p].id <= MaxId
<1>1. /\ nodesCnt \in Nat \ {0} /\ MaxId \in Nat /\ MaxId = 2 * nodesCnt - 2
      /\ steps \in Seq(Traits(nodesCnt))
      /\ i \in Nat /\ directSize \in Nat
  BY PatternAssumption DEF TypeOK, MaxId, Traits
<1>2. \A x \in Elements(nodesCnt) : x \in Int /\ 0 <= x /\ x <= MaxId
  BY <1>1 DEF Elements
<1>3. ASSUME NEW p \in 1..Len(steps)
      PROVE  steps[p].id \in Elements(nodesCnt)
  <2>1. steps[p] \in Traits(nodesCnt)
    BY <1>1, ElementOfSeq
  <2> QED
    BY <2>1 DEF Traits
<1> QED
  BY <1>1, <1>2, <1>3, LenProperties DEF TypeOK

\* The last element is that of the pattern.
LEMMA MaxIdKept ==
  ASSUME nodesCnt' = nodesCnt
  PROVE  MaxId' = MaxId
BY DEF MaxId

\* The invariant holds of the empty list.
LEMMA InitPlan == Init => PlanInv
<1> SUFFICES ASSUME Init
             PROVE  PlanInv
  OBVIOUS
<1>1. steps = <<>> /\ Len(steps) = 0 /\ 1..Len(steps) = {} /\ i = 0 /\ pc = "direct"
  BY DEF Init
<1>2. nodesCnt \in Nat \ {0} /\ \A x \in acquired : x \in Int /\ 0 <= x
  BY PatternAssumption DEF Init, Elements
<1>3. TypeOK
  BY <1>1, <1>2 DEF Init, TypeOK, MaxId
<1>4. Exact(steps) /\ Once(steps) /\ Tagged(steps, acquired) /\ Anchored(steps, MaxId)
  BY <1>1 DEF Exact, Once, Tagged, Anchored
<1>5. DirectInv
  <2>1. \A x \in Int : ~ Placed(steps, x) /\ (x \in acquired => ~ x < i)
    BY <1>1, <1>2 DEF Placed
  <2> QED
    BY <1>1, <2>1 DEF DirectInv, Ascending
<1> QED
  BY <1>1, <1>3, <1>4, <1>5 DEF PlanInv

\* One iteration of the loop over the elements given by id.
LEMMA AcquirePlan ==
  ASSUME PlanInv, AcquireDirectly
  PROVE  PlanInv'
<1>1. /\ pc = "direct" /\ pc' = "direct" /\ i <= MaxId /\ i' = i + 1
      /\ nodesCnt' = nodesCnt /\ acquired' = acquired /\ directSize' = directSize
      /\ TypeOK /\ Exact(steps) /\ Once(steps) /\ Tagged(steps, acquired)
      /\ Anchored(steps, MaxId) /\ DirectInv
  BY DEF PlanInv, AcquireDirectly
<1>2. /\ nodesCnt \in Nat \ {0} /\ MaxId \in Nat /\ MaxId = 2 * nodesCnt - 2
      /\ steps \in Seq(Traits(nodesCnt)) /\ Len(steps) \in Nat /\ i \in Nat
      /\ \A p \in 1..Len(steps) : steps[p].id \in Int /\ 0 <= steps[p].id /\ steps[p].id <= MaxId
  BY <1>1, TypeFacts
<1>3. i' \in 0..MaxId + 1 /\ MaxId' = MaxId
  BY <1>1, <1>2 DEF MaxId
<1>4. CASE i \notin acquired
  <2>1. steps' = steps
    BY <1>4 DEF AcquireDirectly
  <2>2. TypeOK'
    BY <1>1, <1>3, <2>1 DEF TypeOK
  <2>3. \A x \in Int : (x \in acquired /\ x < i + 1) <=> (x \in acquired /\ x < i)
    BY <1>2, <1>4
  <2>4. DirectInv'
    <3>1. Len(steps') <= i' /\ Ascending(steps', Len(steps'))
      BY <1>1, <1>2, <2>1 DEF DirectInv
    <3>2. \A x \in Int : Placed(steps', x) <=> (x \in acquired' /\ x < i')
      BY <1>1, <2>1, <2>3 DEF DirectInv
    <3> QED
      BY <3>1, <3>2 DEF DirectInv, Ascending, Placed
  <2>5. Exact(steps') /\ Once(steps') /\ Tagged(steps', acquired') /\ Anchored(steps', MaxId')
    BY <1>1, <1>3, <2>1
  <2> QED
    BY <1>1, <2>1, <2>2, <2>4, <2>5 DEF PlanInv, Exact, Once, Tagged, Anchored
<1>5. CASE i \in acquired
  <2> DEFINE n == Len(steps)
             e == DirectTrait(i)
  <2>1. /\ e.id = i /\ e.direct = TRUE /\ e \in Traits(nodesCnt)
        /\ e.constraint = IF steps # <<>> /\ steps[n].id = i - 1 THEN {"left"} ELSE {}
    <3>1. i \in Elements(nodesCnt)
      BY <1>1, <1>2 DEF Elements
    <3> QED
      BY <3>1 DEF DirectTrait, Trait, Traits, Sides
  <2>2. steps' = Append(steps, e)
    BY <1>5 DEF AcquireDirectly
  <2> HIDE DEF e
  <2>3. /\ steps' \in Seq(Traits(nodesCnt)) /\ Len(steps') = n + 1
        /\ \A p \in 1..n : steps'[p] = steps[p]
        /\ steps'[n + 1] = e
    BY <1>2, <2>1, <2>2, AppendProperties
  <2> HIDE DEF n
  <2>4. n \in Nat /\ n <= i
    BY <1>1, <1>2 DEF n, DirectInv
  <2>5. \A p \in 1..n : steps[p].id \in Int /\ steps[p].id < i
    BY <1>1, <1>2 DEF DirectInv, Placed, n
  <2>6. TypeOK'
    BY <1>1, <1>3, <2>3 DEF TypeOK, Traits
  <2>7. \A p \in 1..n + 1 : p \in 1..n \/ p = n + 1
    BY <2>4
  <2>8. ASSUME NEW x \in Int
        PROVE  (\E q \in 1..n : steps[q].id = x) <=> (x \in acquired /\ x < i)
    BY <1>1 DEF DirectInv, Placed, n
  <2>9. (\E q \in 1..n : steps[q].id = i - 1) <=> (steps # <<>> /\ steps[n].id = i - 1)
    <3>1. ASSUME NEW q \in 1..n, steps[q].id = i - 1
          PROVE  q = n
      <4>1. n \in 1..n /\ (q = n \/ q < n)
        BY <2>4
      <4>2. q < n => steps[q].id < steps[n].id
        BY <4>1, <1>1 DEF DirectInv, Ascending, n
      <4> QED
        BY <3>1, <4>1, <4>2, <2>5, <1>2
    <3>2. steps # <<>> => n \in 1..n
      BY <1>2, <2>4, EmptySeq DEF n
    <3>3. n \in 1..n => steps # <<>>
      BY <2>4 DEF n
    <3> QED
      BY <3>1, <3>2, <3>3
  <2>10. Exact(steps')
    <3> SUFFICES ASSUME NEW p \in 1..n + 1
                 PROVE  /\ ("left" \in steps'[p].constraint) <=>
                             \E q \in 1..p - 1 : steps'[q].id = steps'[p].id - 1
                        /\ ("right" \in steps'[p].constraint) <=>
                             \E q \in 1..p - 1 : steps'[q].id = steps'[p].id + 1
      BY <2>3 DEF Exact
    <3>1. CASE p \in 1..n
      <4>1. steps'[p] = steps[p] /\ \A q \in 1..p - 1 : steps'[q] = steps[q]
        BY <2>3, <2>4, <3>1
      <4>2. /\ ("left" \in steps[p].constraint) <=> \E q \in 1..p - 1 : steps[q].id = steps[p].id - 1
            /\ ("right" \in steps[p].constraint) <=> \E q \in 1..p - 1 : steps[q].id = steps[p].id + 1
        BY <3>1, <1>1 DEF Exact, n
      <4> QED
        BY <4>1, <4>2
    <3>2. CASE p = n + 1
      <4>1. 1..p - 1 = 1..n /\ steps'[p] = e /\ \A q \in 1..n : steps'[q] = steps[q]
        BY <2>3, <2>4, <3>2
      <4>2. ~ \E q \in 1..n : steps[q].id = i + 1
        BY <2>5, <1>2
      <4>3. (\E q \in 1..p - 1 : steps'[q].id = steps'[p].id - 1)
              <=> (steps # <<>> /\ steps[n].id = i - 1)
        BY <4>1, <2>1, <2>9
      <4>4. ~ \E q \in 1..p - 1 : steps'[q].id = steps'[p].id + 1
        BY <4>1, <4>2, <2>1
      <4>5. /\ ("left" \in e.constraint) <=> (steps # <<>> /\ steps[n].id = i - 1)
            /\ "right" \notin e.constraint
        BY <2>1
      <4> QED
        BY <4>1, <4>3, <4>4, <4>5
    <3> QED
      BY <2>7, <3>1, <3>2
  <2>11. Once(steps')
    <3>1. \A p \in 1..n : steps'[p].id # steps'[n + 1].id
      BY <2>1, <2>3, <2>5, <1>2
    <3>2. \A p, q \in 1..n : steps'[p].id = steps'[q].id => p = q
      BY <2>3, <1>1 DEF Once, n
    <3> QED
      BY <3>1, <3>2, <2>3, <2>7 DEF Once
  <2>12. Tagged(steps', acquired')
    BY <1>1, <1>5, <2>1, <2>3, <2>7 DEF Tagged, n
  <2>13. DirectInv'
    <3>1. Ascending(steps', n + 1)
      <4>1. \A p, q \in 1..n + 1 : p < q => p \in 1..n
        BY <2>4
      <4>2. \A p, q \in 1..n : p < q => steps'[p].id < steps'[q].id
        BY <2>3, <1>1 DEF DirectInv, Ascending, n
      <4>3. \A p \in 1..n : steps'[p].id < steps'[n + 1].id
        BY <2>1, <2>3, <2>5
      <4> QED
        BY <4>1, <4>2, <4>3, <2>7 DEF Ascending
    <3>2. ASSUME NEW x \in Int
          PROVE  Placed(steps', x) <=> (x \in acquired' /\ x < i')
      <4>1. Placed(steps', x) <=> (x = i \/ \E q \in 1..n : steps[q].id = x)
        <5>1. n + 1 \in 1..n + 1 /\ \A q \in 1..n : q \in 1..n + 1
          BY <2>4
        <5> QED
          BY <5>1, <2>1, <2>3, <2>7 DEF Placed
      <4>2. x < i + 1 <=> (x = i \/ x < i)
        BY <1>2
      <4> QED
        BY <4>1, <4>2, <2>8, <1>1, <1>5
    <3>3. Len(steps') <= i'
      BY <2>3, <2>4, <1>1, <1>2
    <3> QED
      BY <3>1, <3>2, <3>3, <2>3 DEF DirectInv, Ascending, Placed
  <2>14. Anchored(steps', MaxId')
    <3>1. \A p \in 1..n : steps'[p] = steps[p]
      BY <2>3
    <3>2. \A p \in 1..n : steps[p].constraint = {} /\ ~ steps[p].direct => steps[p].id \in {0, MaxId}
      BY <1>1 DEF Anchored, n
    <3> QED
      BY <3>1, <3>2, <1>3, <2>1, <2>3, <2>7 DEF Anchored
  <2> QED
    BY <1>1, <2>6, <2>10, <2>11, <2>12, <2>13, <2>14 DEF PlanInv, Exact, Once, Tagged, Anchored
<1> QED
  BY <1>4, <1>5

\* The end of that loop.
LEMMA AllAcquiredPlan ==
  ASSUME PlanInv, AllAcquired
  PROVE  PlanInv'
<1>1. /\ pc = "direct" /\ pc' = "between" /\ i > MaxId /\ i' = 0
      /\ nodesCnt' = nodesCnt /\ acquired' = acquired /\ steps' = steps
      /\ directSize' = Len(steps)
      /\ TypeOK /\ Exact(steps) /\ Once(steps) /\ Tagged(steps, acquired)
      /\ Anchored(steps, MaxId) /\ DirectInv
  BY DEF PlanInv, AllAcquired
<1>2. /\ nodesCnt \in Nat \ {0} /\ MaxId \in Nat /\ Len(steps) \in Nat /\ i \in Nat
      /\ \A x \in acquired : x \in Int /\ 0 <= x /\ x <= MaxId
  BY <1>1, TypeFacts
<1>3. i = MaxId + 1
  BY <1>1, <1>2 DEF TypeOK
<1>4. TypeOK'
  <2>1. MaxId' = MaxId /\ Len(steps) \in 0..MaxId + 1 /\ 0 \in 0..MaxId + 1
    BY <1>1, <1>2, <1>3 DEF MaxId, DirectInv
  <2> QED
    BY <1>1, <2>1 DEF TypeOK
<1>5. \A x \in Int : Placed(steps, x) <=> x \in acquired
  <2>1. \A x \in acquired : x < i
    BY <1>2, <1>3
  <2> QED
    BY <1>1, <2>1 DEF DirectInv
<1>6. BetweenInv'
  <2>1. BoundBefore(i)' = -1
    BY <1>1 DEF BoundBefore
  <2>2. \A x \in Int : ~ (0 <= x /\ x < -1)
    OBVIOUS
  <2>3. \A x \in acquired : \E p \in 1..Len(steps) : steps[p].id = x
    BY <1>2, <1>5 DEF Placed
  <2>4. ASSUME NEW p \in 1..Len(steps)
        PROVE  steps[p].id \in acquired
    <3>1. steps[p].id \in Int
      BY <1>1, TypeFacts
    <3> QED
      BY <3>1, <1>5 DEF Placed
  <2>5. \A x \in Int : Placed(steps, x)' <=> Placed(steps, x)
    BY <1>1 DEF Placed
  <2>6. Ascending(steps, Len(steps))
    BY <1>1 DEF DirectInv
  <2> QED
    BY <1>1, <1>2, <1>5, <2>1, <2>2, <2>3, <2>4, <2>5, <2>6 DEF BetweenInv, Ascending
<1> QED
  BY <1>1, <1>4, <1>6, MaxIdKept DEF PlanInv, Exact, Once, Tagged, Anchored

\* The bounds of the next gap satisfy what GapFilled asks for.
LEMMA GapBounds ==
  ASSUME PlanInv, pc = "between", NEW right \in 0..MaxId + 1,
         i < directSize => right = steps[i + 1].id,
         i = directSize => right = MaxId + 1
  PROVE  /\ BoundBefore(i) \in -1..MaxId
         /\ BoundBefore(i) < right
         /\ \A x \in Int : BoundBefore(i) < x /\ x < right =>
              ~ Placed(steps, x) /\ x \notin acquired
         /\ BoundBefore(i) # -1 => Placed(steps, BoundBefore(i))
         /\ right <= MaxId => Placed(steps, right)
<1> DEFINE left == BoundBefore(i)
<1>1. TypeOK /\ BetweenInv
  BY DEF PlanInv
<1>2. /\ MaxId \in Nat /\ i \in Nat /\ directSize \in Nat /\ Len(steps) \in Nat
      /\ i <= directSize /\ directSize <= Len(steps)
      /\ \A x \in acquired : x \in Int /\ 0 <= x /\ x <= MaxId
      /\ \A p \in 1..Len(steps) : steps[p].id \in Int /\ 0 <= steps[p].id /\ steps[p].id <= MaxId
  BY <1>1, TypeFacts DEF BetweenInv
<1>3. /\ i > 0 => i \in 1..Len(steps) /\ i \in 1..directSize /\ left = steps[i].id
      /\ i = 0 => left = -1
      /\ i < directSize => i + 1 \in 1..Len(steps) /\ i + 1 \in 1..directSize
  BY <1>2 DEF BoundBefore
<1>4. left \in Int /\ -1 <= left /\ left <= MaxId
  BY <1>2, <1>3
<1>5. left < right
  <2>1. CASE i = directSize
    BY <2>1, <1>2, <1>4
  <2>2. CASE i < directSize /\ i = 0
    BY <2>2, <1>2, <1>3
  <2>3. CASE i < directSize /\ i > 0
    BY <2>3, <1>1, <1>2, <1>3 DEF BetweenInv, Ascending
  <2> QED
    BY <2>1, <2>2, <2>3, <1>2
<1> HIDE DEF left
<1>6. ASSUME NEW x \in acquired
      PROVE  ~ (left < x /\ x < right)
  <2>1. PICK p \in 1..directSize : steps[p].id = x
    BY <1>1 DEF BetweenInv
  <2>2. CASE p = i
    BY <2>1, <2>2, <1>2, <1>3
  <2>3. CASE p < i
    <3>1. steps[p].id < steps[i].id
      BY <2>3, <1>1, <1>2, <1>3 DEF BetweenInv, Ascending
    <3> QED
      BY <3>1, <2>1, <2>3, <1>2, <1>3
  <2>4. CASE p = i + 1
    BY <2>1, <2>4, <1>2, <1>3
  <2>5. CASE p > i + 1
    <3>1. i + 1 < p /\ i < directSize
      BY <2>5, <1>2
    <3>2. steps[i + 1].id < steps[p].id
      BY <3>1, <1>1, <1>3 DEF BetweenInv, Ascending
    <3> QED
      BY <3>1, <3>2, <2>1, <1>2, <1>3
  <2> QED
    BY <2>2, <2>3, <2>4, <2>5, <1>2
<1>7. ASSUME NEW x \in Int, left < x, x < right
      PROVE  ~ Placed(steps, x) /\ x \notin acquired
  <2>1. ~ x < left
    BY <1>4, <1>7
  <2> QED
    BY <1>1, <1>6, <1>7, <2>1 DEF BetweenInv, left
<1>8. left # -1 => Placed(steps, left)
  BY <1>2, <1>3 DEF Placed
<1>9. right <= MaxId => Placed(steps, right)
  BY <1>2, <1>3 DEF Placed
<1>10. left \in -1..MaxId
  BY <1>2, <1>4
<1> QED
  BY <1>5, <1>7, <1>8, <1>9, <1>10 DEF left

\* So filling it extends a correct plan by its elements.
LEMMA GapAppended ==
  ASSUME PlanInv, pc = "between", NEW right \in 0..MaxId + 1,
         i < directSize => right = steps[i + 1].id,
         i = directSize => right = MaxId + 1,
         NEW t, t = steps \o Between(BoundBefore(i), right)
  PROVE  /\ t \in Seq(Traits(nodesCnt))
         /\ Len(steps) <= Len(t)
         /\ \A p \in 1..Len(steps) : t[p] = steps[p]
         /\ Exact(t) /\ Once(t) /\ Tagged(t, acquired) /\ Anchored(t, MaxId)
         /\ \A x \in Int : Placed(t, x) <=>
              Placed(steps, x) \/ (BoundBefore(i) < x /\ x < right)
<1>1. PICK s, left : s = steps /\ left = BoundBefore(i)
  OBVIOUS
<1>2. /\ nodesCnt \in Nat \ {0} /\ s \in Seq(Traits(nodesCnt))
      /\ left \in -1..MaxId /\ right \in 0..MaxId + 1 /\ left < right
      /\ Exact(s) /\ Once(s) /\ Tagged(s, acquired) /\ Anchored(s, MaxId)
      /\ \A x \in Int : left < x /\ x < right => ~ Placed(s, x) /\ x \notin acquired
      /\ left # -1 => Placed(s, left)
      /\ right <= MaxId => Placed(s, right)
      /\ t = s \o Between(left, right)
  BY <1>1, TypeFacts, GapBounds DEF PlanInv
<1>3. /\ t \in Seq(Traits(nodesCnt))
      /\ Len(s) <= Len(t)
      /\ \A p \in 1..Len(s) : t[p] = s[p]
      /\ Exact(t) /\ Once(t) /\ Tagged(t, acquired) /\ Anchored(t, MaxId)
      /\ \A x \in Int : Placed(t, x) <=> Placed(s, x) \/ (left < x /\ x < right)
  BY <1>2, GapFilled
<1> QED
  BY <1>1, <1>3

\* The directly acquired steps stay where they are.
LEMMA FillPlan ==
  ASSUME PlanInv, FillGap
  PROVE  PlanInv'
<1> DEFINE right == steps[i + 1].id
<1>1. /\ pc = "between" /\ pc' = "between" /\ i < directSize /\ i' = i + 1
      /\ nodesCnt' = nodesCnt /\ acquired' = acquired /\ directSize' = directSize
      /\ steps' = steps \o Between(BoundBefore(i), right)
      /\ TypeOK /\ Exact(steps) /\ Once(steps) /\ Tagged(steps, acquired)
      /\ Anchored(steps, MaxId) /\ BetweenInv
  BY DEF PlanInv, FillGap
<1>2. /\ nodesCnt \in Nat \ {0} /\ MaxId \in Nat /\ steps \in Seq(Traits(nodesCnt))
      /\ i \in Nat /\ directSize \in Nat /\ Len(steps) \in Nat
      /\ \A p \in 1..Len(steps) : steps[p].id \in Int /\ 0 <= steps[p].id /\ steps[p].id <= MaxId
  BY <1>1, TypeFacts
<1>3. i + 1 \in 1..directSize /\ i + 1 \in 1..Len(steps) /\ directSize <= Len(steps)
  BY <1>1, <1>2 DEF BetweenInv
<1>4. /\ right \in 0..MaxId + 1 /\ right <= MaxId
      /\ i < directSize => right = steps[i + 1].id
      /\ i = directSize => right = MaxId + 1
  BY <1>1, <1>2, <1>3
<1> HIDE DEF right
<1>5. /\ BoundBefore(i) \in -1..MaxId
      /\ BoundBefore(i) < right
      /\ \A x \in Int : BoundBefore(i) < x /\ x < right =>
           ~ Placed(steps, x) /\ x \notin acquired
      /\ BoundBefore(i) # -1 => Placed(steps, BoundBefore(i))
      /\ right <= MaxId => Placed(steps, right)
  BY <1>1, <1>2, <1>4, GapBounds DEF right
<1>6. /\ steps' \in Seq(Traits(nodesCnt))
      /\ Len(steps) <= Len(steps')
      /\ \A p \in 1..Len(steps) : steps'[p] = steps[p]
      /\ Exact(steps') /\ Once(steps') /\ Tagged(steps', acquired)
      /\ Anchored(steps', MaxId)
      /\ \A x \in Int : Placed(steps', x) <=>
           Placed(steps, x) \/ (BoundBefore(i) < x /\ x < right)
  <2>1. /\ PlanInv /\ pc = "between" /\ right \in 0..MaxId + 1
        /\ i < directSize => right = steps[i + 1].id
        /\ i = directSize => right = MaxId + 1
        /\ steps' = steps \o Between(BoundBefore(i), right)
    BY <1>1, <1>4
  <2> QED
    BY <2>1, GapAppended
<1>7. TypeOK'
  <2>1. MaxId' = MaxId /\ i + 1 \in 0..MaxId + 1
    BY <1>1, <1>2 DEF MaxId, TypeOK
  <2> QED
    BY <1>1, <1>6, <2>1 DEF TypeOK, Traits
<1>8. \A p \in 1..directSize : p \in 1..Len(steps) /\ steps'[p] = steps[p]
  BY <1>2, <1>3, <1>6
<1>9. BetweenInv'
  <2>1. BoundBefore(i)' = right
    BY <1>1, <1>2, <1>3, <1>8 DEF BoundBefore, right
  <2>2. ASSUME NEW x \in Int
        PROVE  Placed(steps', x) <=> (x \in acquired \/ (0 <= x /\ x < right))
    <3>1. Placed(steps, x) <=> (x \in acquired \/ (0 <= x /\ x < BoundBefore(i)))
      BY <1>1 DEF BetweenInv
    <3>2. BoundBefore(i) \in Int /\ right \in Int /\ -1 <= BoundBefore(i) /\ BoundBefore(i) < right
      BY <1>2, <1>4, <1>5
    <3>3. CASE x < BoundBefore(i)
      BY <3>1, <3>2, <3>3, <1>6
    <3>4. CASE x = BoundBefore(i)
      BY <3>1, <3>2, <3>4, <1>5, <1>6
    <3>5. CASE BoundBefore(i) < x
      BY <3>1, <3>2, <3>5, <1>6
    <3> QED
      BY <3>2, <3>3, <3>4, <3>5
  <2>3. Ascending(steps', directSize)
    BY <1>1, <1>8 DEF BetweenInv, Ascending
  <2>4. /\ \A x \in acquired : \E p \in 1..directSize : steps'[p].id = x
        /\ \A p \in 1..directSize : steps'[p].id \in acquired
    BY <1>1, <1>8 DEF BetweenInv
  <2>5. i + 1 <= directSize /\ directSize <= Len(steps')
    BY <1>2, <1>3, <1>6, LenProperties
  <2>6. \A x \in Int : Placed(steps, x)' <=> Placed(steps', x)
    BY DEF Placed
  <2> QED
    BY <1>1, <2>1, <2>2, <2>3, <2>4, <2>5, <2>6 DEF BetweenInv, Ascending
<1> QED
  BY <1>1, <1>6, <1>7, <1>9, MaxIdKept DEF PlanInv, Exact, Once, Tagged, Anchored

\* Behind the last gap there is nothing left to place.
LEMMA FillLastPlan ==
  ASSUME PlanInv, FillLastGap
  PROVE  PlanInv'
<1> DEFINE right == MaxId + 1
<1>1. /\ pc = "between" /\ pc' = "done" /\ i = directSize /\ i' = i
      /\ nodesCnt' = nodesCnt /\ acquired' = acquired /\ directSize' = directSize
      /\ TypeOK /\ Exact(steps) /\ Once(steps) /\ Tagged(steps, acquired)
      /\ Anchored(steps, MaxId) /\ BetweenInv
  BY DEF PlanInv, FillLastGap
<1>2. /\ nodesCnt \in Nat \ {0} /\ MaxId \in Nat /\ MaxId = 2 * nodesCnt - 2
      /\ steps \in Seq(Traits(nodesCnt))
      /\ i \in Nat /\ directSize \in Nat /\ Len(steps) \in Nat
  BY <1>1, TypeFacts
<1>3. right = 2 * nodesCnt - 1 /\ right \in 0..MaxId + 1 /\ ~ right <= MaxId
  BY <1>2
<1>4. steps' = steps \o Between(BoundBefore(i), right)
  BY <1>1, <1>3 DEF FillLastGap
<1> HIDE DEF right
<1>5. /\ BoundBefore(i) \in -1..MaxId
      /\ BoundBefore(i) < right
      /\ \A x \in Int : BoundBefore(i) < x /\ x < right =>
           ~ Placed(steps, x) /\ x \notin acquired
      /\ BoundBefore(i) # -1 => Placed(steps, BoundBefore(i))
      /\ right <= MaxId => Placed(steps, right)
  <2>1. ~ i < directSize /\ right = MaxId + 1
    BY <1>1, <1>2 DEF right
  <2> QED
    BY <1>1, <1>3, <2>1, GapBounds
<1>6. /\ steps' \in Seq(Traits(nodesCnt))
      /\ Exact(steps') /\ Once(steps') /\ Tagged(steps', acquired)
      /\ Anchored(steps', MaxId)
      /\ \A x \in Int : Placed(steps', x) <=>
           Placed(steps, x) \/ (BoundBefore(i) < x /\ x < right)
  <2>1. ~ i < directSize /\ right = MaxId + 1
    BY <1>1, <1>2 DEF right
  <2> QED
    BY <1>1, <1>3, <1>4, <2>1, GapAppended
<1>7. TypeOK'
  <2>1. MaxId' = MaxId
    BY <1>1 DEF MaxId
  <2> QED
    BY <1>1, <1>6, <2>1 DEF TypeOK, Traits
<1>8. ASSUME NEW x \in Elements(nodesCnt)
      PROVE  Placed(steps', x)
  <2>1. x \in Int /\ 0 <= x /\ x < right
    BY <1>2, <1>3 DEF Elements
  <2>2. Placed(steps, x) <=> (x \in acquired \/ (0 <= x /\ x < BoundBefore(i)))
    BY <2>1, <1>1 DEF BetweenInv
  <2>3. BoundBefore(i) \in Int /\ -1 <= BoundBefore(i)
    BY <1>2, <1>5
  <2>4. CASE x < BoundBefore(i)
    BY <2>1, <2>2, <2>4, <1>6
  <2>5. CASE x = BoundBefore(i)
    BY <2>1, <2>3, <2>5, <1>5, <1>6
  <2>6. CASE BoundBefore(i) < x
    BY <2>1, <2>6, <1>6
  <2> QED
    BY <2>1, <2>3, <2>4, <2>5, <2>6
<1> QED
  BY <1>1, <1>6, <1>7, <1>8, MaxIdKept DEF PlanInv, Exact, Once, Tagged, Anchored, Placed

(***************************************************************************)
(* The theorems                                                            *)
(***************************************************************************)
\* Every step keeps the invariant.
LEMMA PlanStep == PlanInv /\ [Next]_vars => PlanInv'
<1> SUFFICES ASSUME PlanInv, [Next]_vars
             PROVE  PlanInv'
  OBVIOUS
<1>1. CASE AcquireDirectly
  BY <1>1, AcquirePlan
<1>2. CASE AllAcquired
  BY <1>2, AllAcquiredPlan
<1>3. CASE FillGap
  BY <1>3, FillPlan
<1>4. CASE FillLastGap
  BY <1>4, FillLastPlan
<1>5. CASE UNCHANGED vars
  <2>1. /\ nodesCnt' = nodesCnt /\ acquired' = acquired /\ steps' = steps
        /\ pc' = pc /\ i' = i /\ directSize' = directSize
    BY <1>5 DEF vars
  <2>2. TypeOK'
    BY <2>1 DEF PlanInv, TypeOK, MaxId
  <2>3. Exact(steps)'
    BY <2>1 DEF PlanInv, Exact
  <2>4. Once(steps)'
    BY <2>1 DEF PlanInv, Once
  <2>5. Tagged(steps, acquired)'
    BY <2>1 DEF PlanInv, Tagged
  <2>6. Anchored(steps, MaxId)'
    BY <2>1 DEF PlanInv, Anchored, Placed, MaxId
  <2>7. (pc = "direct" => DirectInv)'
    BY <2>1 DEF PlanInv, DirectInv, Ascending, Placed
  <2>8. (pc = "between" => BetweenInv)'
    BY <2>1 DEF PlanInv, BetweenInv, Ascending, Placed, BoundBefore
  <2>9. (pc = "done" => \A x \in Elements(nodesCnt) : Placed(steps, x))'
    BY <2>1 DEF PlanInv, Placed
  <2> QED BY <2>2, <2>3, <2>4, <2>5, <2>6, <2>7, <2>8, <2>9 DEF PlanInv
<1> QED
  BY <1>1, <1>2, <1>3, <1>4, <1>5 DEF Next

\* So it always holds.
LEMMA PlanAlways == Spec => []PlanInv
BY InitPlan, PlanStep, PTL DEF Spec

\* A list of steps is what TypeOK says, so its domain is known.
LEMMA StepsDomain ==
  ASSUME PlanInv
  PROVE  DOMAIN steps = 1..Len(steps)
BY TypeFacts, LenProperties DEF PlanInv

\* The fields of the planner keep their types: in particular the list never
\* has more directly acquired steps than the pattern has elements.
THEOREM TypeCorrect == Spec => []TypeOK
<1>1. PlanInv => TypeOK
  BY DEF PlanInv
<1> QED
  BY <1>1, PlanAlways, PTL

\* For patterns of every length, every step of the plan is constrained on
\* exactly the sides whose neighbour an earlier step binds: the iterator
\* checks every link once and never uses an element that is not bound.
THEOREM ConstraintsAlwaysExact == Spec => []ConstraintsExact
<1>1. PlanInv => ConstraintsExact
  <2> SUFFICES ASSUME PlanInv
               PROVE  ConstraintsExact
    OBVIOUS
  <2> QED
    BY StepsDomain DEF PlanInv, Exact, ConstraintsExact, PlacedBefore
<1> QED
  BY <1>1, PlanAlways, PTL

\* For patterns of every length, the plan binds no element twice, binds by
\* id exactly those that have one, and in the end binds all of them.
THEOREM AllBoundOnce == Spec => []BindsEachOnce
<1>1. PlanInv => BindsEachOnce
  <2> SUFFICES ASSUME PlanInv
               PROVE  BindsEachOnce
    OBVIOUS
  <2>1. DOMAIN steps = 1..Len(steps)
    BY StepsDomain
  <2>2. \A p \in 1..Len(steps) : steps[p].id \in Elements(nodesCnt)
    <3>1. steps \in Seq(Traits(nodesCnt))
      BY TypeFacts DEF PlanInv
    <3>2. \A p \in 1..Len(steps) : steps[p] \in Traits(nodesCnt)
      BY <3>1, ElementOfSeq
    <3> QED
      BY <3>2 DEF Traits
  <2>3. pc = "done" => {steps[p].id : p \in 1..Len(steps)} = Elements(nodesCnt)
    BY <2>2 DEF PlanInv, Placed
  <2> QED
    BY <2>1, <2>3 DEF PlanInv, Once, Tagged, BindsEachOnce
<1> QED
  BY <1>1, PlanAlways, PTL

\* For patterns of every length, a step that has neither an id nor a bound
\* neighbour to start from is at one of the two ends of the pattern.
THEOREM NeverScansEdges == Spec => []ScansOnlyEndNodes
<1>1. PlanInv => ScansOnlyEndNodes
  <2> SUFFICES ASSUME PlanInv
               PROVE  ScansOnlyEndNodes
    OBVIOUS
  <2> QED
    BY StepsDomain DEF PlanInv, Anchored, ScansOnlyEndNodes
<1> QED
  BY <1>1, PlanAlways, PTL
=============================================================================
