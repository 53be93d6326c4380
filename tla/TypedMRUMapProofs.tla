-------------------------- MODULE TypedMRUMapProofs --------------------------
(***************************************************************************)
(* Proofs about module TypedMRUMap, for every set of keys and values and   *)
(* every limit.  IndexesAgree is inductive as it stands.  SizeBounded is   *)
(* not: an insertion below the limit adds an entry without clearing any,   *)
(* and only the count of insertions, which is never behind the number of   *)
(* entries, tells that there is room (CountCovers).  What is cleared, and  *)
(* how much, needs the clock besides: it is ahead of every last use, and   *)
(* no two keys have the same one (ClockLeads).  The refinement of the      *)
(* recency cache rests on the order of the keys by their times: any        *)
(* increasing list of the times gives that order (OrderFromList), so each  *)
(* operation on the index is one on the order.                             *)
(***************************************************************************)
EXTENDS TypedMRUMap, SequenceTheorems, FunctionTheorems, FiniteSetTheorems,
        WellFoundedInduction, TLAPS

(***************************************************************************)
(* The helpers on maps                                                     *)
(***************************************************************************)
\* The empty map is a map.
LEMMA EmptyType == ASSUME NEW K, NEW V PROVE <<>> \in Partial(K, V)
<1>1. <<>> \in [{} -> V]
  OBVIOUS
<1> QED
  BY <1>1 DEF Partial

\* Storing a pair keeps a map a map.
LEMMA WithType ==
  ASSUME NEW K, NEW V, NEW f \in Partial(K, V), NEW k \in K, NEW v \in V
  PROVE  With(f, k, v) \in Partial(K, V)
<1>1. PICK S \in SUBSET K : f \in [S -> V]
  BY DEF Partial
<1>2. With(f, k, v) \in [S \cup {k} -> V]
  BY <1>1 DEF With
<1>3. S \cup {k} \in SUBSET K
  BY <1>1
<1> QED
  BY <1>2, <1>3 DEF Partial

\* Erasing keys keeps a map a map.
LEMMA EraseType ==
  ASSUME NEW K, NEW V, NEW f \in Partial(K, V), NEW ks
  PROVE  Erase(f, ks) \in Partial(K, V)
<1>1. PICK S \in SUBSET K : f \in [S -> V]
  BY DEF Partial
<1>2. Erase(f, ks) \in [S \ ks -> V]
  BY <1>1 DEF Erase, Restrict
<1>3. S \ ks \in SUBSET K
  BY <1>1
<1> QED
  BY <1>2, <1>3 DEF Partial

\* Clearing keys by their timestamps keeps the indexes in step: a timestamp
\* that stays cannot lead to a key that goes.
LEMMA ClearKeepsAgree ==
  ASSUME NEW m, NEW last, NEW rev, Agree(m, last, rev),
         NEW old \in SUBSET (DOMAIN rev)
  PROVE  LET gone == {rev[t] : t \in old}
         IN  Agree(Erase(m, gone), Erase(last, gone), Erase(rev, old))
<1> DEFINE gone == {rev[t] : t \in old}
<1>1. DOMAIN Erase(last, gone) = DOMAIN Erase(m, gone)
  BY DEF Agree, Erase, Restrict
<1>2. ASSUME NEW t \in DOMAIN Erase(rev, old)
      PROVE  /\ Erase(rev, old)[t] \in DOMAIN Erase(m, gone)
             /\ Erase(last, gone)[Erase(rev, old)[t]] = t
  <2>1. t \in DOMAIN rev /\ t \notin old /\ Erase(rev, old)[t] = rev[t]
    BY DEF Erase, Restrict
  <2>2. rev[t] \in DOMAIN m /\ rev[t] \in DOMAIN last /\ last[rev[t]] = t
    BY <2>1 DEF Agree
  <2>3. rev[t] \notin gone
    BY <2>1, <2>2 DEF Agree
  <2> QED
    BY <2>1, <2>2, <2>3 DEF Erase, Restrict
<1> QED
  BY <1>1, <1>2 DEF Agree

\* A new key with a new timestamp keeps the indexes in step.
LEMMA NewKeyKeepsAgree ==
  ASSUME NEW m, NEW last, NEW rev, Agree(m, last, rev),
         NEW k, k \notin DOMAIN m, NEW v, NEW t
  PROVE  Agree(With(m, k, v), With(last, k, t), With(rev, t, k))
BY DEF Agree, With

\* A non-empty set of timestamps has victims: the smallest one is one.
LEMMA VictimExists ==
  ASSUME NEW rev, DOMAIN rev \subseteq Nat, DOMAIN rev # {}
  PROVE  Victims(rev) # {}
<1> DEFINE Less == {ss \in Nat \X Nat : ss[1] < ss[2]}
<1>1. IsWellFoundedOn(Less, Nat)
  BY NatLessThanWellFounded, Zenon DEF OpToRel
<1> HIDE DEF Less
<1>2. PICK t \in DOMAIN rev : \A u \in DOMAIN rev : ~ (<<u, t>> \in Less)
  BY <1>1, WFMin, Zenon
<1>3. \A u \in DOMAIN rev : ~ (u < t)
  BY <1>2 DEF Less
<1>4. {u \in DOMAIN rev : u < t} = {}
  BY <1>3
<1>5. Cardinality({u \in DOMAIN rev : u < t}) = 0
  BY <1>4, FS_EmptySet
<1>6. 0 < NumberClearAtOnce
  BY MapAssumption
<1> QED
  BY <1>5, <1>6 DEF Victims

(***************************************************************************)
(* Type correctness                                                        *)
(***************************************************************************)
\* The fields keep their types: the two ends of insert() included, whatever
\* maps the insertion leaves to be counted and cleared.
LEMMA CountAndClearType ==
  ASSUME NEW k, NEW m \in Partial(Key, Value), NEW last \in Partial(Key, 1..MaxTimestamp),
         NEW rev \in Partial(1..MaxTimestamp, Key),
         CountAndClear(k, m, last, rev), timestamp' = now, TypeOK, timestamp < MaxTimestamp
  PROVE  TypeOK'
<1> DEFINE old == IF objectSize + 1 > MaxObjectSize THEN Victims(rev) ELSE {}
           gone == {rev[t] : t \in old}
<1>1. /\ objectSize' = objectSize + 1
      /\ map' = Erase(m, gone)
      /\ lastUsedTime' = Erase(last, gone)
      /\ lastUsedTimeRev' = Erase(rev, old)
      /\ result' \in {"erased", "entry"}
  BY DEF CountAndClear
<1> HIDE DEF gone, old
<1>2. /\ map' \in Partial(Key, Value)
      /\ lastUsedTime' \in Partial(Key, 1..MaxTimestamp)
      /\ lastUsedTimeRev' \in Partial(1..MaxTimestamp, Key)
  BY <1>1, EraseType
<1>3. timestamp' \in 0..MaxTimestamp /\ objectSize' \in 0..timestamp'
  BY <1>1, MapAssumption DEF TypeOK, now
<1>4. result' \in Results
  BY <1>1 DEF Results
<1> QED
  BY <1>2, <1>3, <1>4 DEF TypeOK

\* The type invariant is inductive.
LEMMA TypeStep == TypeOK /\ [Next]_vars => TypeOK'
<1> SUFFICES ASSUME TypeOK, Next PROVE TypeOK'
  BY DEF TypeOK, vars, index
<1> PICK k \in Key :
       \/ \E v \in Value : Insert(k, v)
       \/ \E v \in Value : Assign(k, v)
       \/ \E v \in Value : InsertThrows(k, v)
       \/ FindHit(k)
       \/ FindMiss(k)
       \/ FindThrows(k)
  BY DEF Next
<1>now. now \in 1..MaxTimestamp /\ timestamp < MaxTimestamp
  BY MapAssumption DEF Next, TypeOK, now
<1>1. ASSUME NEW v \in Value, InsertNew(k, v) PROVE TypeOK'
  <2>1. /\ With(map, k, v) \in Partial(Key, Value)
        /\ With(lastUsedTime, k, now) \in Partial(Key, 1..MaxTimestamp)
        /\ With(lastUsedTimeRev, now, k) \in Partial(1..MaxTimestamp, Key)
    BY <1>now, WithType DEF TypeOK
  <2> QED
    BY <1>1, <1>now, <2>1, CountAndClearType DEF InsertNew
<1>2. CASE InsertPresent(k)
  BY <1>2, <1>now, CountAndClearType DEF InsertPresent, TypeOK
<1>3. ASSUME NEW v \in Value, AssignPresent(k, v) PROVE TypeOK'
  <2>1. PICK S \in SUBSET Key : map \in [S -> Value]
    BY DEF TypeOK, Partial
  <2>2. map' \in [S -> Value]
    BY <1>3, <2>1 DEF AssignPresent
  <2>3. map' \in Partial(Key, Value)
    BY <2>1, <2>2 DEF Partial
  <2> QED
    BY <1>3, <2>3 DEF AssignPresent, TypeOK, Results, index
<1>4. ASSUME NEW v \in Value, InsertThrows(k, v) PROVE TypeOK'
  <2>1. map' \in Partial(Key, Value)
    BY <1>4, WithType, EraseType DEF InsertThrows, Unwound, TypeOK
  <2>2. Erase(With(lastUsedTimeRev, now, k), {now}) \in Partial(1..MaxTimestamp, Key)
    BY <1>now, WithType, EraseType DEF TypeOK
  <2>3. lastUsedTimeRev' \in Partial(1..MaxTimestamp, Key)
    BY <1>4, <2>2 DEF InsertThrows, Unwound, TypeOK
  <2> QED
    BY <1>4, <1>now, <2>1, <2>3, MapAssumption DEF InsertThrows, Unwound, TypeOK, Results, now
<1>5. CASE FindHit(k) \/ FindThrows(k)
  <2>1. PICK S \in SUBSET Key : lastUsedTime \in [S -> 1..MaxTimestamp]
    BY DEF TypeOK, Partial
  <2>2. lastUsedTime' \in [S -> 1..MaxTimestamp]
    BY <1>5, <1>now, <2>1 DEF FindHit, FindThrows
  <2>3. lastUsedTime' \in Partial(Key, 1..MaxTimestamp)
    BY <2>1, <2>2 DEF Partial
  <2> DEFINE kept == Erase(lastUsedTimeRev, {lastUsedTime[k]})
  <2>4. kept \in Partial(1..MaxTimestamp, Key)
    BY EraseType DEF TypeOK
  <2>5. With(kept, now, k) \in Partial(1..MaxTimestamp, Key)
    BY <1>now, <2>4, WithType
  <2>6. lastUsedTimeRev' \in Partial(1..MaxTimestamp, Key)
    BY <1>5, <2>4, <2>5 DEF FindHit, FindThrows, Renewed
  <2> QED
    BY <1>5, <1>now, <2>3, <2>6, MapAssumption DEF FindHit, FindThrows, TypeOK, Results, now
<1>6. CASE FindMiss(k)
  BY <1>6 DEF FindMiss, TypeOK, Results, index
<1> QED
  BY <1>1, <1>2, <1>3, <1>4, <1>5, <1>6 DEF Insert, Assign

\* TypeOK holds in every reachable state.
THEOREM TypeCorrect == Spec => []TypeOK
<1>1. Init => TypeOK
  BY MapAssumption, EmptyType DEF Init, TypeOK, Results
<1> QED
  BY <1>1, TypeStep, PTL DEF Spec

(***************************************************************************)
(* The two indexes and the map                                             *)
(***************************************************************************)
\* IndexesAgree is inductive.
LEMMA AgreeStep == IndexesAgree /\ [Next]_vars => IndexesAgree'
<1> SUFFICES ASSUME IndexesAgree, Next PROVE IndexesAgree'
  BY DEF IndexesAgree, vars, index
<1> PICK k \in Key :
       \/ \E v \in Value : Insert(k, v)
       \/ \E v \in Value : Assign(k, v)
       \/ \E v \in Value : InsertThrows(k, v)
       \/ FindHit(k)
       \/ FindMiss(k)
       \/ FindThrows(k)
  BY DEF Next
<1>0. ASSUME NEW m, NEW last, NEW rev, Agree(m, last, rev), CountAndClear(k, m, last, rev)
      PROVE  IndexesAgree'
  <2> DEFINE old == IF objectSize + 1 > MaxObjectSize THEN Victims(rev) ELSE {}
  <2>1. old \in SUBSET (DOMAIN rev)
    BY DEF Victims
  <2> QED
    BY <1>0, <2>1, ClearKeepsAgree DEF CountAndClear, IndexesAgree
<1>1. ASSUME NEW v \in Value, InsertNew(k, v) PROVE IndexesAgree'
  BY <1>0, <1>1, NewKeyKeepsAgree DEF InsertNew, IndexesAgree
<1>2. CASE InsertPresent(k)
  BY <1>0, <1>2 DEF InsertPresent, IndexesAgree
<1>3. ASSUME NEW v \in Value, AssignPresent(k, v) PROVE IndexesAgree'
  BY <1>3 DEF AssignPresent, IndexesAgree, Agree, index
<1>4. ASSUME NEW v \in Value, InsertThrows(k, v) PROVE IndexesAgree'
  <2>1. DOMAIN map' = DOMAIN map
    BY <1>4 DEF InsertThrows, Unwound, With, Erase, Restrict
  <2>2. \A t \in DOMAIN lastUsedTimeRev' :
          t \in DOMAIN lastUsedTimeRev /\ lastUsedTimeRev'[t] = lastUsedTimeRev[t]
    BY <1>4 DEF InsertThrows, Unwound, With, Erase, Restrict
  <2> QED
    BY <1>4, <2>1, <2>2 DEF InsertThrows, Unwound, IndexesAgree, Agree
<1>5. CASE FindHit(k)
  BY <1>5 DEF FindHit, Renewed, With, Erase, Restrict, IndexesAgree, Agree
<1>6. CASE FindThrows(k)
  BY <1>6 DEF FindThrows, Erase, Restrict, IndexesAgree, Agree
<1>7. CASE FindMiss(k)
  BY <1>7 DEF FindMiss, IndexesAgree, index
<1> QED
  BY <1>1, <1>2, <1>3, <1>4, <1>5, <1>6, <1>7 DEF Insert, Assign

\* The indexes agree in every reachable state, whichever allocations throw.
THEOREM IndexesAlwaysAgree == Spec => []IndexesAgree
<1>1. Init => IndexesAgree
  BY DEF Init, IndexesAgree, Agree
<1> QED
  BY <1>1, AgreeStep, PTL DEF Spec

(***************************************************************************)
(* The size of the map                                                     *)
(***************************************************************************)
\* The entries are finitely many, no more than the insertions counted so
\* far and no more than the limit.
CountCovers ==
  /\ IsFiniteSet(DOMAIN map)
  /\ Cardinality(DOMAIN map) <= objectSize
  /\ SizeBounded

\* Clearing the victims of a map whose indexes agree erases an entry.
LEMMA ClearingErases ==
  ASSUME NEW m, NEW last, NEW rev, Agree(m, last, rev),
         DOMAIN rev \subseteq Nat, DOMAIN rev # {}
  PROVE  \E x \in DOMAIN m : x \in {rev[t] : t \in Victims(rev)}
<1>1. PICK t \in DOMAIN rev : t \in Victims(rev)
  BY VictimExists DEF Victims
<1> QED
  BY <1>1 DEF Agree

\* CountCovers is kept, given the types and the agreement of the indexes.
LEMMA CoversStep == TypeOK /\ IndexesAgree /\ CountCovers /\ [Next]_vars => CountCovers'
<1> SUFFICES ASSUME TypeOK, IndexesAgree, CountCovers, Next PROVE CountCovers'
  BY DEF CountCovers, SizeBounded, vars, index
<1> PICK k \in Key :
       \/ \E v \in Value : Insert(k, v)
       \/ \E v \in Value : Assign(k, v)
       \/ \E v \in Value : InsertThrows(k, v)
       \/ FindHit(k)
       \/ FindMiss(k)
       \/ FindThrows(k)
  BY DEF Next
<1>nat. /\ objectSize \in Nat /\ MaxObjectSize \in Nat
        /\ IsFiniteSet(DOMAIN map) /\ Cardinality(DOMAIN map) \in Nat
        /\ Cardinality(DOMAIN map) <= objectSize
        /\ Cardinality(DOMAIN map) <= MaxObjectSize
  BY MapAssumption, FS_CardinalityType DEF TypeOK, CountCovers, SizeBounded
<1>same. ASSUME DOMAIN map' = DOMAIN map, objectSize' \in Nat, objectSize' >= objectSize
         PROVE  CountCovers'
  BY <1>nat, <1>same DEF CountCovers, SizeBounded
<1>1. ASSUME NEW v \in Value, InsertNew(k, v) PROVE CountCovers'
  <2> DEFINE m == With(map, k, v)
             last == With(lastUsedTime, k, now)
             rev == With(lastUsedTimeRev, now, k)
             old == IF objectSize + 1 > MaxObjectSize THEN Victims(rev) ELSE {}
             gone == {rev[t] : t \in old}
  <2>1. DOMAIN map' = DOMAIN m \ gone /\ objectSize' = objectSize + 1
    BY <1>1 DEF InsertNew, CountAndClear, Erase, Restrict
  <2>2. DOMAIN m = DOMAIN map \cup {k} /\ k \notin DOMAIN map
    BY <1>1 DEF InsertNew, With
  <2>3. IsFiniteSet(DOMAIN m) /\ Cardinality(DOMAIN m) = Cardinality(DOMAIN map) + 1
    BY <1>nat, <2>2, FS_AddElement
  <2>4. CASE objectSize + 1 <= MaxObjectSize
    <3>1. gone = {}
      BY <1>nat, <2>4
    <3>2. DOMAIN map' = DOMAIN m
      BY <2>1, <3>1
    <3> QED
      BY <1>nat, <2>1, <2>3, <2>4, <3>2 DEF CountCovers, SizeBounded
  <2>5. CASE objectSize + 1 > MaxObjectSize
    <3>1. Agree(m, last, rev)
      BY <2>2, NewKeyKeepsAgree DEF IndexesAgree
    <3>2. DOMAIN rev \subseteq Nat /\ DOMAIN rev # {}
      BY DEF With, TypeOK, Partial, now
    <3>3. PICK x \in DOMAIN m : x \in gone
      BY <2>5, <3>1, <3>2, ClearingErases
    <3>4. DOMAIN map' \subseteq DOMAIN m \ {x}
      BY <2>1, <3>3
    <3>5. IsFiniteSet(DOMAIN m \ {x}) /\ Cardinality(DOMAIN m \ {x}) = Cardinality(DOMAIN map)
      <4> HIDE DEF m
      <4>1. /\ IsFiniteSet(DOMAIN m \ {x})
            /\ Cardinality(DOMAIN m \ {x}) = Cardinality(DOMAIN m) - 1
        BY <2>3, <3>3, FS_RemoveElement
      <4> QED
        BY <1>nat, <2>3, <4>1
    <3>6. IsFiniteSet(DOMAIN map') /\ Cardinality(DOMAIN map') <= Cardinality(DOMAIN map)
      BY <3>4, <3>5, FS_Subset
    <3>7. Cardinality(DOMAIN map') \in Nat
      BY <3>6, FS_CardinalityType
    <3> QED
      BY <1>nat, <2>1, <3>6, <3>7 DEF CountCovers, SizeBounded
  <2> QED
    BY <1>nat, <2>4, <2>5
<1>2. CASE InsertPresent(k)
  <2>1. DOMAIN map' \subseteq DOMAIN map /\ objectSize' = objectSize + 1
    BY <1>2 DEF InsertPresent, CountAndClear, Erase, Restrict
  <2>2. IsFiniteSet(DOMAIN map') /\ Cardinality(DOMAIN map') <= Cardinality(DOMAIN map)
    BY <1>nat, <2>1, FS_Subset
  <2>3. Cardinality(DOMAIN map') \in Nat
    BY <2>2, FS_CardinalityType
  <2> QED
    BY <1>nat, <2>1, <2>2, <2>3 DEF CountCovers, SizeBounded
<1>3. ASSUME NEW v \in Value, AssignPresent(k, v) PROVE CountCovers'
  BY <1>3, <1>nat, <1>same DEF AssignPresent
<1>4. ASSUME NEW v \in Value, InsertThrows(k, v) PROVE CountCovers'
  BY <1>4, <1>nat, <1>same DEF InsertThrows, Unwound, With, Erase, Restrict
<1>5. CASE FindHit(k) \/ FindThrows(k) \/ FindMiss(k)
  BY <1>5, <1>nat, <1>same DEF FindHit, FindThrows, FindMiss
<1> QED
  BY <1>1, <1>2, <1>3, <1>4, <1>5 DEF Insert, Assign

\* The map never holds more than max_objectSize_ entries between calls.
THEOREM SizeAlwaysBounded == Spec => []SizeBounded
<1> DEFINE Inv == TypeOK /\ IndexesAgree /\ CountCovers
<1>1. Init => Inv
  <2> SUFFICES ASSUME Init PROVE Inv
    OBVIOUS
  <2>1. DOMAIN map = {}
    BY DEF Init
  <2>2. CountCovers
    BY <2>1, FS_EmptySet, MapAssumption DEF Init, CountCovers, SizeBounded
  <2> QED
    BY <2>2, MapAssumption, EmptyType DEF Init, TypeOK, Results, IndexesAgree, Agree
<1>2. Inv /\ [Next]_vars => Inv'
  BY TypeStep, AgreeStep, CoversStep
<1>3. Inv => SizeBounded
  BY DEF CountCovers
<1> QED
  BY <1>1, <1>2, <1>3, PTL DEF Spec

(***************************************************************************)
(* The timestamps in their order                                           *)
(***************************************************************************)
\* The place of t among the times of D.
Rank(D, t) == Cardinality({u \in D : u <= t})

\* The time of D at place i.
Nth(D, i) == CHOOSE t \in D : Rank(D, t) = i

\* A finite set of times has one time at each place, and no others.
LEMMA RanksArePlaces ==
  ASSUME NEW D, D \subseteq Nat, IsFiniteSet(D)
  PROVE  /\ Cardinality(D) \in Nat
         /\ \A t \in D : Rank(D, t) \in 1..Cardinality(D)
         /\ \A t, u \in D : t < u => Rank(D, t) < Rank(D, u)
         /\ \A i \in 1..Cardinality(D) : \E t \in D : Rank(D, t) = i
<1> DEFINE n == Cardinality(D)
           upTo(t) == {u \in D : u <= t}
           f == [t \in D |-> Rank(D, t)]
<1>1. n \in Nat
  BY FS_CardinalityType
<1>2. \A t \in D : IsFiniteSet(upTo(t)) /\ Cardinality(upTo(t)) <= n
  BY FS_Subset
<1>3. ASSUME NEW t \in D PROVE Rank(D, t) \in 1..n
  <2>1. Rank(D, t) \in Nat /\ Rank(D, t) <= n
    BY <1>2, FS_CardinalityType DEF Rank
  <2>2. t \in upTo(t)
    OBVIOUS
  <2>3. Rank(D, t) # 0
    BY <1>2, <2>2, FS_EmptySet DEF Rank
  <2> QED BY <1>1, <2>1, <2>3
<1>4. ASSUME NEW t \in D, NEW u \in D, t < u PROVE Rank(D, t) < Rank(D, u)
  <2>1. upTo(t) \subseteq upTo(u)
    <3>1. t \in Nat /\ u \in Nat
      OBVIOUS
    <3>2. ASSUME NEW w \in D, w <= t PROVE w <= u
      <4>1. w \in Nat
        OBVIOUS
      <4> QED BY <1>4, <3>1, <3>2, <4>1
    <3> QED BY <3>2
  <2>2. u \in upTo(u) /\ u \notin upTo(t)
    BY <1>4
  <2>3. Cardinality(upTo(t)) <= Cardinality(upTo(u)) /\ Cardinality(upTo(t)) # Cardinality(upTo(u))
    <3>1. upTo(t) # upTo(u)
      BY <2>2
    <3> HIDE DEF upTo
    <3> QED BY <1>2, <2>1, <3>1, FS_Subset
  <2>4. Rank(D, t) <= Rank(D, u) /\ Rank(D, t) # Rank(D, u)
    BY <2>3 DEF Rank
  <2> QED BY <1>1, <1>3, <2>4
<1>5. \A t, u \in D : f[t] = f[u] => t = u
  <2> SUFFICES ASSUME NEW t \in D, NEW u \in D, Rank(D, t) = Rank(D, u), t # u PROVE FALSE
    OBVIOUS
  <2>1. t < u \/ u < t
    OBVIOUS
  <2>2. Rank(D, t) \in Int /\ Rank(D, u) \in Int
    BY <1>1, <1>3
  <2> QED BY <1>4, <2>1, <2>2
<1>6. f \in Injection(D, 1..n)
  <2>1. f \in [D -> 1..n]
    BY <1>3
  <2> HIDE DEF f
  <2> QED BY <1>5, <2>1, Fun_IsInj
<1>7. IsFiniteSet(1..n) /\ Cardinality(1..n) = n
  <2>1. IsFiniteSet(1..n) /\ Cardinality(1..n) = IF 1 > n THEN 0 ELSE n - 1 + 1
    BY <1>1, FS_Interval
  <2> QED BY <1>1, <2>1
<1>8. f \in Surjection(D, 1..n)
  BY <1>6, <1>7, FS_Injection
<1>9. \A i \in 1..n : \E t \in D : f[t] = i
  <2> HIDE DEF f
  <2> QED BY <1>8, Fun_SurjectionProperties
<1>10. \A i \in 1..n : \E t \in D : Rank(D, t) = i
  BY <1>9
<1> QED BY <1>1, <1>3, <1>4, <1>10

\* The time at a place, and the place of a time.
LEMMA NthHasRank ==
  ASSUME NEW D, D \subseteq Nat, IsFiniteSet(D)
  PROVE  /\ \A i \in 1..Cardinality(D) : Nth(D, i) \in D /\ Rank(D, Nth(D, i)) = i
         /\ \A t \in D : Nth(D, Rank(D, t)) = t
         /\ \A i, j \in 1..Cardinality(D) : i < j => Nth(D, i) < Nth(D, j)
<1>1. \A i \in 1..Cardinality(D) : Nth(D, i) \in D /\ Rank(D, Nth(D, i)) = i
  BY RanksArePlaces DEF Nth
<1>2. ASSUME NEW t \in D, NEW u \in D, Rank(D, t) = Rank(D, u) PROVE t = u
  <2>1. Rank(D, t) \in 1..Cardinality(D) /\ Rank(D, u) \in 1..Cardinality(D)
    BY RanksArePlaces
  <2>2. (t < u => Rank(D, t) < Rank(D, u)) /\ (u < t => Rank(D, u) < Rank(D, t))
    BY RanksArePlaces
  <2>3. ~ (Rank(D, t) < Rank(D, u)) /\ ~ (Rank(D, u) < Rank(D, t))
    BY <1>2, <2>1
  <2>4. t \in Nat /\ u \in Nat
    OBVIOUS
  <2> QED BY <2>2, <2>3, <2>4
<1>3. ASSUME NEW t \in D PROVE Nth(D, Rank(D, t)) = t
  <2>1. Rank(D, t) \in 1..Cardinality(D)
    BY RanksArePlaces
  <2> QED BY <1>1, <1>2, <2>1
<1>4. ASSUME NEW i \in 1..Cardinality(D), NEW j \in 1..Cardinality(D), i < j
      PROVE  Nth(D, i) < Nth(D, j)
  <2> PICK t \in D : t = Nth(D, i)
    BY <1>1
  <2> PICK u \in D : u = Nth(D, j)
    BY <1>1
  <2>1. Rank(D, t) = i /\ Rank(D, u) = j
    BY <1>1
  <2>2. u < t => j < i
    BY <2>1, RanksArePlaces
  <2>3. u # t
    BY <1>4, <2>1
  <2>4. ~ (u < t)
    BY <1>4, <2>2
  <2> QED BY <2>3, <2>4
<1> QED BY <1>1, <1>3, <1>4

\* s lists the m times of D in increasing order.
Lists(s, m, D) ==
  /\ s \in [1..m -> D]
  /\ \A i, j \in 1..m : i < j => s[i] < s[j]
  /\ \A t \in D : \E i \in 1..m : s[i] = t

\* Such a list has each time at its place.
LEMMA ListedIsNth ==
  ASSUME NEW D, D \subseteq Nat, NEW m \in Nat, NEW s, Lists(s, m, D)
  PROVE  /\ IsFiniteSet(D) /\ Cardinality(D) = m
         /\ \A i \in 1..m : Rank(D, s[i]) = i /\ Nth(D, i) = s[i]
<1> /\ s \in [1..m -> D]
    /\ \A i, j \in 1..m : i < j => s[i] < s[j]
    /\ \A t \in D : \E i \in 1..m : s[i] = t
  BY DEF Lists
<1>1. \A i, j \in 1..m : s[i] = s[j] => i = j
  <2> SUFFICES ASSUME NEW i \in 1..m, NEW j \in 1..m, s[i] = s[j], i # j PROVE FALSE
    OBVIOUS
  <2>1. i < j \/ j < i
    OBVIOUS
  <2>2. s[i] \in Nat /\ s[j] \in Nat
    OBVIOUS
  <2> QED BY <2>1, <2>2
<1>2. s \in Bijection(1..m, D)
  BY <1>1, Fun_IsBij
<1>3. \A k \in 0..m : IsFiniteSet(1..k) /\ Cardinality(1..k) = k
  <2> TAKE k \in 0..m
  <2>1. IsFiniteSet(1..k) /\ Cardinality(1..k) = IF 1 > k THEN 0 ELSE k - 1 + 1
    BY FS_Interval
  <2> QED BY <2>1
<1>4. IsFiniteSet(D) /\ Cardinality(D) = m
  <2>1. ExistsBijection(1..m, D)
    BY <1>2, Fun_ExistsBij
  <2> QED BY <1>3, <2>1, FS_Bijection
<1>5. ASSUME NEW i \in 1..m PROVE Rank(D, s[i]) = i
  <2> DEFINE upTo == {u \in D : u <= s[i]}
             f == [j \in 1..i |-> s[j]]
  <2>1. \A j \in 1..i : s[j] \in upTo
    <3> TAKE j \in 1..i
    <3>1. j \in 1..m /\ (j = i \/ j < i)
      OBVIOUS
    <3>2. s[j] \in D /\ s[i] \in D /\ s[j] \in Nat /\ s[i] \in Nat
      BY <3>1
    <3>3. s[j] = s[i] \/ s[j] < s[i]
      BY <3>1
    <3>4. s[j] <= s[i]
      BY <3>2, <3>3
    <3> QED BY <3>2, <3>4
  <2>2. f \in [1..i -> upTo]
    BY <2>1
  <2>3. \A a, b \in 1..i : f[a] = f[b] => a = b
    BY <1>1
  <2>4. \A t \in upTo : \E j \in 1..i : f[j] = t
    <3> TAKE t \in upTo
    <3>1. PICK j \in 1..m : s[j] = t
      OBVIOUS
    <3>2. ~ (i < j)
      <4>1. s[j] <= s[i] /\ s[j] \in Nat /\ s[i] \in Nat
        BY <3>1
      <4> QED BY <4>1
    <3>3. j \in 1..i
      BY <3>2
    <3> QED BY <3>1, <3>3
  <2> HIDE DEF f
  <2>5. ExistsBijection(1..i, upTo)
    <3>1. f \in Bijection(1..i, upTo)
      BY <2>2, <2>3, <2>4, Fun_IsBij
    <3> QED BY <3>1, Fun_ExistsBij
  <2>6. Cardinality(upTo) = Cardinality(1..i)
    BY <1>3, <2>5, FS_Bijection
  <2>7. Cardinality(1..i) = i
    BY <1>3
  <2> QED BY <2>6, <2>7 DEF Rank
<1>6. \A i \in 1..m : Nth(D, i) = s[i]
  <2> TAKE i \in 1..m
  <2>1. Nth(D, Rank(D, s[i])) = s[i]
    BY <1>4, NthHasRank
  <2> QED BY <1>5, <2>1
<1> QED BY <1>4, <1>5, <1>6

\* The victims are the times at the first places.
LEMMA VictimsAreFirst ==
  ASSUME NEW rev, DOMAIN rev \subseteq Nat, IsFiniteSet(DOMAIN rev)
  PROVE  Victims(rev) = {t \in DOMAIN rev : Rank(DOMAIN rev, t) <= NumberClearAtOnce}
<1> DEFINE D == DOMAIN rev
<1>1. ASSUME NEW t \in D PROVE Rank(D, t) = Cardinality({u \in D : u < t}) + 1
  <2> DEFINE under == {u \in D : u < t}
  <2>1. IsFiniteSet(under)
    BY FS_Subset
  <2>2. {u \in D : u <= t} = under \cup {t} /\ t \notin under
    <3>1. t \in Nat /\ \A u \in D : u \in Nat
      OBVIOUS
    <3>2. \A u \in D : u <= t <=> (u < t \/ u = t)
      BY <3>1
    <3> QED BY <3>1, <3>2
  <2>3. Cardinality(under \cup {t}) = Cardinality(under) + 1
    <3> HIDE DEF under
    <3> QED BY <2>1, <2>2, FS_AddElement
  <2> QED BY <2>2, <2>3 DEF Rank
<1>2. ASSUME NEW t \in D PROVE Cardinality({u \in D : u < t}) \in Nat
  <2>1. IsFiniteSet({u \in D : u < t})
    BY FS_Subset
  <2> QED BY <2>1, FS_CardinalityType
<1>3. ASSUME NEW t \in D
      PROVE  Cardinality({u \in D : u < t}) < NumberClearAtOnce <=> Rank(D, t) <= NumberClearAtOnce
  BY <1>1, <1>2, MapAssumption
<1> QED BY <1>3 DEF Victims

\* Of a set of times as many are victims as clearNotUsedCache() visits, or
\* all of them when there are not so many.
LEMMA VictimCount ==
  ASSUME NEW rev, DOMAIN rev \subseteq Nat, IsFiniteSet(DOMAIN rev)
  PROVE  /\ Cardinality(DOMAIN rev) \in Nat
         /\ IsFiniteSet(Victims(rev)) /\ Victims(rev) \subseteq DOMAIN rev
         /\ Cardinality(DOMAIN rev) < NumberClearAtOnce => Victims(rev) = DOMAIN rev
         /\ Cardinality(DOMAIN rev) >= NumberClearAtOnce
              => Cardinality(Victims(rev)) = NumberClearAtOnce
<1> DEFINE D == DOMAIN rev
<1> PICK most \in Nat : most = NumberClearAtOnce
  BY MapAssumption
<1>1. Victims(rev) = {t \in D : Rank(D, t) <= most}
  BY VictimsAreFirst
<1>2. PICK n \in Nat : n = Cardinality(D)
  BY RanksArePlaces
<1>3. \A t \in D : Rank(D, t) \in 1..n
  BY <1>2, RanksArePlaces
<1>4. Victims(rev) \subseteq D /\ IsFiniteSet(Victims(rev))
  BY <1>1, FS_Subset
<1>5. ASSUME n < most PROVE Victims(rev) = D
  BY <1>1, <1>3, <1>5
<1>6. ASSUME n >= most PROVE Cardinality(Victims(rev)) = most
  <2> DEFINE f == [i \in 1..most |-> Nth(D, i)]
  <2>1. \A i \in 1..most : i \in 1..n
    BY <1>6
  <2>2. \A i \in 1..most : Nth(D, i) \in D /\ Rank(D, Nth(D, i)) = i
    BY <1>2, <2>1, NthHasRank
  <2>3. f \in [1..most -> Victims(rev)]
    <3>1. \A i \in 1..most : i <= most
      OBVIOUS
    <3> QED BY <1>1, <2>2, <3>1
  <2>4. \A a, b \in 1..most : f[a] = f[b] => a = b
    BY <2>2
  <2>5. \A t \in Victims(rev) : \E i \in 1..most : f[i] = t
    <3> TAKE t \in Victims(rev)
    <3>1. t \in D /\ Rank(D, t) \in 1..n /\ Rank(D, t) <= most
      BY <1>1, <1>3
    <3>2. Rank(D, t) \in 1..most
      BY <3>1
    <3>3. f[Rank(D, t)] = t
      BY <3>1, <3>2, NthHasRank
    <3> QED BY <3>2, <3>3
  <2> HIDE DEF f
  <2>6. ExistsBijection(1..most, Victims(rev))
    <3>1. f \in Bijection(1..most, Victims(rev))
      BY <2>3, <2>4, <2>5, Fun_IsBij
    <3> QED BY <3>1, Fun_ExistsBij
  <2>7. IsFiniteSet(1..most) /\ Cardinality(1..most) = most
    <3>1. IsFiniteSet(1..most) /\ Cardinality(1..most) = IF 1 > most THEN 0 ELSE most - 1 + 1
      BY FS_Interval
    <3> QED BY <3>1
  <2> QED BY <2>6, <2>7, FS_Bijection
<1> QED BY <1>2, <1>4, <1>5, <1>6

(***************************************************************************)
(* What is cleared, and how much of it                                     *)
(***************************************************************************)
\* The clock is not behind any last use, and no two keys were last used at
\* the same time.
ClockLeads ==
  /\ DOMAIN lastUsedTimeRev \subseteq 1..timestamp
  /\ \A k \in DOMAIN lastUsedTime : lastUsedTime[k] \in 1..timestamp
  /\ \A k, l \in DOMAIN lastUsedTime : lastUsedTime[k] = lastUsedTime[l] => k = l

\* ClockLeads is kept, given the types and the agreement of the indexes.
LEMMA ClockStep == TypeOK /\ IndexesAgree /\ ClockLeads /\ [Next]_vars => ClockLeads'
<1> SUFFICES ASSUME TypeOK, IndexesAgree, ClockLeads, Next PROVE ClockLeads'
  BY DEF ClockLeads, vars, index
<1> PICK k \in Key :
       \/ \E v \in Value : Insert(k, v)
       \/ \E v \in Value : Assign(k, v)
       \/ \E v \in Value : InsertThrows(k, v)
       \/ FindHit(k)
       \/ FindMiss(k)
       \/ FindThrows(k)
  BY DEF Next
<1>0. timestamp \in Nat /\ now = timestamp + 1 /\ DOMAIN lastUsedTime = DOMAIN map
  BY MapAssumption DEF TypeOK, now, IndexesAgree, Agree
<1>now. now \in 1..now /\ now \notin 1..timestamp /\ 1..timestamp \subseteq 1..now
  BY <1>0
<1>clear. ASSUME NEW m, NEW last, NEW rev, CountAndClear(k, m, last, rev), timestamp' = now,
                 DOMAIN rev \subseteq 1..now, \A x \in DOMAIN last : last[x] \in 1..now,
                 \A x, y \in DOMAIN last : last[x] = last[y] => x = y
          PROVE  ClockLeads'
  <2>1. /\ DOMAIN lastUsedTime' \subseteq DOMAIN last
        /\ \A x \in DOMAIN lastUsedTime' : lastUsedTime'[x] = last[x]
        /\ DOMAIN lastUsedTimeRev' \subseteq DOMAIN rev
    BY <1>clear DEF CountAndClear, Erase, Restrict
  <2> QED BY <1>clear, <2>1 DEF ClockLeads
<1>1. ASSUME NEW v \in Value, InsertNew(k, v) PROVE ClockLeads'
  <2> DEFINE last == With(lastUsedTime, k, now)
             rev == With(lastUsedTimeRev, now, k)
  <2>1. k \notin DOMAIN lastUsedTime
    BY <1>0, <1>1 DEF InsertNew
  <2>2. DOMAIN rev \subseteq 1..now
    BY <1>now DEF With, ClockLeads
  <2>3. \A x \in DOMAIN last : last[x] \in 1..now
    BY <1>now DEF With, ClockLeads
  <2>4. \A x, y \in DOMAIN last : last[x] = last[y] => x = y
    BY <1>now, <2>1 DEF With, ClockLeads
  <2>5. CountAndClear(k, With(map, k, v), last, rev) /\ timestamp' = now
    BY <1>1 DEF InsertNew
  <2> HIDE DEF last, rev
  <2> QED BY <1>clear, <2>2, <2>3, <2>4, <2>5
<1>2. CASE InsertPresent(k)
  BY <1>2, <1>clear, <1>now DEF InsertPresent, ClockLeads
<1>3. ASSUME NEW v \in Value, AssignPresent(k, v) PROVE ClockLeads'
  BY <1>3 DEF AssignPresent, ClockLeads, index
<1>4. ASSUME NEW v \in Value, InsertThrows(k, v) PROVE ClockLeads'
  <2>1. DOMAIN lastUsedTimeRev' \subseteq DOMAIN lastUsedTimeRev
    BY <1>4 DEF InsertThrows, Unwound, With, Erase, Restrict
  <2> QED BY <1>4, <1>now, <2>1 DEF InsertThrows, Unwound, ClockLeads
<1>5. CASE FindHit(k) \/ FindThrows(k)
  <2>1. DOMAIN lastUsedTimeRev' \subseteq DOMAIN lastUsedTimeRev \cup {now}
    BY <1>5 DEF FindHit, FindThrows, Renewed, With, Erase, Restrict
  <2>2. /\ lastUsedTime' = [lastUsedTime EXCEPT ![k] = now] /\ timestamp' = now
        /\ k \in DOMAIN lastUsedTime
    BY <1>0, <1>5 DEF FindHit, FindThrows
  <2>3. /\ DOMAIN lastUsedTime' = DOMAIN lastUsedTime
        /\ \A x \in DOMAIN lastUsedTime :
             lastUsedTime'[x] = IF x = k THEN now ELSE lastUsedTime[x]
    BY <2>2
  <2>4. DOMAIN lastUsedTimeRev' \subseteq 1..timestamp'
    BY <1>now, <2>1, <2>2 DEF ClockLeads
  <2>5. \A x \in DOMAIN lastUsedTime' : lastUsedTime'[x] \in 1..timestamp'
    BY <1>now, <2>2, <2>3 DEF ClockLeads
  <2>6. \A x, y \in DOMAIN lastUsedTime' : lastUsedTime'[x] = lastUsedTime'[y] => x = y
    BY <1>now, <2>2, <2>3 DEF ClockLeads
  <2> QED BY <2>4, <2>5, <2>6 DEF ClockLeads
<1>6. CASE FindMiss(k)
  BY <1>6 DEF FindMiss, ClockLeads, index
<1> QED
  BY <1>1, <1>2, <1>3, <1>4, <1>5, <1>6 DEF Insert, Assign

\* What the index holds in every reachable state.
MapInv == TypeOK /\ IndexesAgree /\ CountCovers /\ ClockLeads

\* MapInv is an invariant of the class.
LEMMA MapInvHolds == Spec => []MapInv
<1>1. Init => MapInv
  <2> SUFFICES ASSUME Init PROVE MapInv
    OBVIOUS
  <2>1. DOMAIN map = {}
    BY DEF Init
  <2>2. CountCovers
    BY <2>1, FS_EmptySet, MapAssumption DEF Init, CountCovers, SizeBounded
  <2>3. TypeOK
    BY MapAssumption, EmptyType DEF Init, TypeOK, Results
  <2>4. IndexesAgree /\ ClockLeads
    BY DEF Init, IndexesAgree, Agree, ClockLeads
  <2> QED BY <2>2, <2>3, <2>4 DEF MapInv
<1>2. MapInv /\ [Next]_vars => MapInv'
  BY TypeStep, AgreeStep, CoversStep, ClockStep DEF MapInv
<1> QED BY <1>1, <1>2, PTL DEF Spec

\* A clearing takes no time later than one it leaves.
LEMMA EarlierGoesFirst ==
  ASSUME NEW rev, DOMAIN rev \subseteq Nat, IsFiniteSet(DOMAIN rev),
         NEW t \in Victims(rev), NEW u \in DOMAIN rev, u < t
  PROVE  u \in Victims(rev)
<1> PICK most \in Nat : most = NumberClearAtOnce
  BY MapAssumption
<1>1. Victims(rev) = {x \in DOMAIN rev : Rank(DOMAIN rev, x) <= most}
  BY VictimsAreFirst
<1>2. t \in DOMAIN rev /\ Rank(DOMAIN rev, t) <= most
  BY <1>1
<1>3. Rank(DOMAIN rev, u) < Rank(DOMAIN rev, t)
  BY <1>2, RanksArePlaces
<1>4. /\ Cardinality(DOMAIN rev) \in Nat
      /\ Rank(DOMAIN rev, u) \in 1..Cardinality(DOMAIN rev)
      /\ Rank(DOMAIN rev, t) \in 1..Cardinality(DOMAIN rev)
  BY <1>2, RanksArePlaces
<1>5. Rank(DOMAIN rev, u) <= most
  BY <1>2, <1>3, <1>4
<1> QED BY <1>1, <1>5

\* Times up to a limit are finitely many numbers.
LEMMA FiniteTimes ==
  ASSUME NEW n \in Nat, NEW T \in SUBSET (1..n)
  PROVE  T \subseteq Nat /\ IsFiniteSet(T)
<1>1. IsFiniteSet(1..n)
  BY FS_Interval
<1>2. IsFiniteSet(T)
  BY <1>1, FS_Subset
<1>3. T \subseteq Nat
  OBVIOUS
<1> QED BY <1>2, <1>3

\* The end of insert() keeps no key that can be cleared and was used before
\* one it erases.
LEMMA ClearsOldest ==
  ASSUME NEW k, NEW m, NEW last, NEW rev, Agree(m, last, rev),
         DOMAIN rev \subseteq Nat, IsFiniteSet(DOMAIN rev),
         \A x, y \in DOMAIN last : last[x] = last[y] => x = y,
         CountAndClear(k, m, last, rev),
         NEW g \in DOMAIN m, g \notin DOMAIN map',
         NEW x \in DOMAIN m, x \in DOMAIN map', last[x] \in DOMAIN rev
  PROVE  last[g] < last[x]
<1> DEFINE old == IF objectSize + 1 > MaxObjectSize THEN Victims(rev) ELSE {}
           gone == {rev[t] : t \in old}
<1>1. DOMAIN map' = DOMAIN m \ gone
  BY DEF CountAndClear, Erase, Restrict
<1>2. g \in gone /\ x \notin gone
  BY <1>1
<1>3. PICK t \in old : g = rev[t]
  BY <1>2
<1>4. old = Victims(rev)
  BY <1>3
<1>5. t \in Victims(rev) /\ t \in DOMAIN rev
  BY <1>3, <1>4 DEF Victims
<1>6. last[g] = t
  BY <1>3, <1>5 DEF Agree
<1> PICK u \in DOMAIN rev : u = last[x]
  OBVIOUS
<1>7. rev[u] = x
  BY DEF Agree
<1>8. u \notin Victims(rev)
  BY <1>2, <1>4, <1>7
<1>9. ~ (u < t) /\ u # t
  BY <1>5, <1>8, EarlierGoesFirst
<1>10. u \in Nat /\ t \in Nat
  BY <1>5
<1> QED BY <1>6, <1>9, <1>10

\* What clearNotUsedCache() erases was used before everything it keeps and
\* could clear, and insert() erases its own entry only when it keeps
\* nothing of that kind.
THEOREM OldestAlwaysGoFirst == Spec => OldestGoFirst
<1> DEFINE A == /\ \A gone \in DOMAIN map \ DOMAIN map', kept \in DOMAIN map \cap DOMAIN map' :
                     kept \notin Orphans => lastUsedTime[gone] < lastUsedTime[kept]
                /\ \A k \in Key, v \in Value :
                     (InsertNew(k, v) /\ result' = "erased") => DOMAIN map' \subseteq Orphans
<1>1. ASSUME MapInv, Next PROVE A
  <2> PICK k \in Key :
         \/ \E v \in Value : Insert(k, v)
         \/ \E v \in Value : Assign(k, v)
         \/ \E v \in Value : InsertThrows(k, v)
         \/ FindHit(k)
         \/ FindMiss(k)
         \/ FindThrows(k)
    BY <1>1 DEF Next
  <2>0. /\ timestamp \in Nat /\ now = timestamp + 1 /\ DOMAIN lastUsedTime = DOMAIN map
        /\ Agree(map, lastUsedTime, lastUsedTimeRev) /\ DOMAIN lastUsedTimeRev \subseteq 1..timestamp
        /\ \A x \in DOMAIN lastUsedTime : lastUsedTime[x] \in 1..timestamp
        /\ \A x, y \in DOMAIN lastUsedTime : lastUsedTime[x] = lastUsedTime[y] => x = y
    BY <1>1, MapAssumption DEF MapInv, TypeOK, now, IndexesAgree, Agree, ClockLeads
  <2>now. now \in Nat /\ now \in 1..now /\ now \notin 1..timestamp /\ 1..timestamp \subseteq 1..now
    BY <2>0
  <2>new. ASSUME NEW q \in Key, NEW v \in Value, InsertNew(q, v),
                 NEW g \in DOMAIN map \cup {q}, g \notin DOMAIN map',
                 NEW x \in DOMAIN map, x \in DOMAIN map', x \notin Orphans
          PROVE  (IF g = q THEN now ELSE lastUsedTime[g]) < lastUsedTime[x]
    <3> DEFINE m == With(map, q, v)
               last == With(lastUsedTime, q, now)
               rev == With(lastUsedTimeRev, now, q)
    <3>1. q \notin DOMAIN map /\ CountAndClear(q, m, last, rev)
      BY <2>new DEF InsertNew
    <3>2. Agree(m, last, rev)
      BY <2>0, <3>1, NewKeyKeepsAgree
    <3>3. DOMAIN rev \subseteq Nat /\ IsFiniteSet(DOMAIN rev)
      <4>1. DOMAIN rev \in SUBSET (1..now)
        BY <2>0, <2>now DEF With
      <4> QED BY <2>now, <4>1, FiniteTimes
    <3>4. \A y, z \in DOMAIN last : last[y] = last[z] => y = z
      BY <2>0, <2>now, <3>1 DEF With
    <3>5. g \in DOMAIN m /\ x \in DOMAIN m
      BY DEF With
    <3>6. last[x] = lastUsedTime[x] /\ last[g] = IF g = q THEN now ELSE lastUsedTime[g]
      BY <2>0, <3>1 DEF With
    <3>7. last[x] \in DOMAIN rev
      BY <2>new, <3>6 DEF Orphans, With
    <3> HIDE DEF m, last, rev
    <3>8. last[g] < last[x]
      BY <2>new, <3>1, <3>2, <3>3, <3>4, <3>5, <3>7, ClearsOldest
    <3> QED BY <3>6, <3>8
  <2>late. ASSUME NEW q \in Key, NEW v \in Value, InsertNew(q, v), result' = "erased"
           PROVE  DOMAIN map' \subseteq Orphans
    <3>1. q \notin DOMAIN map' /\ DOMAIN map' \subseteq DOMAIN map \cup {q}
      BY <2>late DEF InsertNew, CountAndClear, Erase, Restrict, With
    <3> SUFFICES ASSUME NEW x \in DOMAIN map', x \notin Orphans PROVE FALSE
      OBVIOUS
    <3>2. x \in DOMAIN map
      BY <3>1
    <3>3. now < lastUsedTime[x]
      BY <2>late, <2>new, <3>1, <3>2
    <3>4. lastUsedTime[x] \in 1..timestamp
      BY <2>0, <3>2
    <3> QED BY <2>0, <3>3, <3>4
  <2>1. ASSUME NEW gone \in DOMAIN map \ DOMAIN map', NEW kept \in DOMAIN map \cap DOMAIN map',
               kept \notin Orphans
        PROVE  lastUsedTime[gone] < lastUsedTime[kept]
    <3>1. ASSUME NEW v \in Value, InsertNew(k, v) PROVE lastUsedTime[gone] < lastUsedTime[kept]
      <4>1. gone # k
        BY <3>1 DEF InsertNew
      <4> QED BY <2>1, <2>new, <3>1, <4>1
    <3>2. ASSUME InsertPresent(k) PROVE lastUsedTime[gone] < lastUsedTime[kept]
      <4>1. CountAndClear(k, map, lastUsedTime, lastUsedTimeRev)
        BY <3>2 DEF InsertPresent
      <4>2. DOMAIN lastUsedTimeRev \subseteq Nat /\ IsFiniteSet(DOMAIN lastUsedTimeRev)
        BY <2>0, FiniteTimes
      <4>3. lastUsedTime[kept] \in DOMAIN lastUsedTimeRev
        BY <2>1 DEF Orphans
      <4> QED BY <2>0, <4>1, <4>2, <4>3, ClearsOldest
    <3>3. ASSUME \/ \E v \in Value : AssignPresent(k, v)
                 \/ \E v \in Value : InsertThrows(k, v)
                 \/ FindHit(k) \/ FindMiss(k) \/ FindThrows(k)
          PROVE  DOMAIN map' = DOMAIN map
      <4>1. ASSUME NEW v \in Value, InsertThrows(k, v) PROVE DOMAIN map' = DOMAIN map
        BY <4>1 DEF InsertThrows, Unwound, With, Erase, Restrict
      <4> QED BY <3>3, <4>1 DEF AssignPresent, FindHit, FindMiss, FindThrows
    <3> QED BY <3>1, <3>2, <3>3 DEF Insert, Assign
  <2> QED BY <2>1, <2>late
<1>2. MapInv /\ [Next]_vars => [A]_vars
  <2> HIDE DEF A
  <2> QED BY <1>1
<1>3. Spec => []MapInv
  BY MapInvHolds
<1> QED BY <1>2, <1>3, PTL DEF Spec, OldestGoFirst

\* When no key is orphaned, a clearing takes as many entries as there are
\* victims.
LEMMA ClearedCount ==
  ASSUME NEW m, NEW last, NEW rev, Agree(m, last, rev),
         DOMAIN rev \subseteq Nat, IsFiniteSet(DOMAIN rev),
         \A x, y \in DOMAIN last : last[x] = last[y] => x = y,
         \A x \in DOMAIN m : last[x] \in DOMAIN rev
  PROVE  LET gone == {rev[t] : t \in Victims(rev)}
             room == Cardinality(DOMAIN m)
         IN  /\ room \in Nat
             /\ Cardinality(DOMAIN m \ gone)
                  = IF room < NumberClearAtOnce THEN 0 ELSE room - NumberClearAtOnce
<1> DEFINE gone == {rev[t] : t \in Victims(rev)}
           f == [t \in DOMAIN rev |-> rev[t]]
           g == [t \in Victims(rev) |-> rev[t]]
<1> PICK most \in Nat : most = NumberClearAtOnce
  BY MapAssumption
<1>1. /\ \A t \in DOMAIN rev : rev[t] \in DOMAIN m /\ last[rev[t]] = t
      /\ \A x \in DOMAIN m : rev[last[x]] = x
  BY DEF Agree
<1>2. Victims(rev) \subseteq DOMAIN rev /\ IsFiniteSet(Victims(rev))
  BY VictimCount
<1>3. gone \subseteq DOMAIN m
  BY <1>1, <1>2
<1>4. IsFiniteSet(gone) /\ Cardinality(gone) = Cardinality(Victims(rev))
  <2>1. g \in [Victims(rev) -> gone] /\ \A x \in gone : \E t \in Victims(rev) : g[t] = x
    OBVIOUS
  <2>2. \A a, b \in Victims(rev) : g[a] = g[b] => a = b
    BY <1>1, <1>2
  <2> HIDE DEF g, gone
  <2>3. g \in Bijection(Victims(rev), gone)
    BY <2>1, <2>2, Fun_IsBij
  <2>4. ExistsBijection(Victims(rev), gone)
    BY <2>3, Fun_ExistsBij
  <2> QED BY <1>2, <2>4, FS_Bijection
<1>5. IsFiniteSet(DOMAIN m) /\ Cardinality(DOMAIN m) = Cardinality(DOMAIN rev)
  <2>1. /\ f \in [DOMAIN rev -> DOMAIN m]
        /\ \A a, b \in DOMAIN rev : f[a] = f[b] => a = b
    BY <1>1
  <2>2. \A x \in DOMAIN m : \E t \in DOMAIN rev : f[t] = x
    BY <1>1
  <2> HIDE DEF f
  <2>3. f \in Bijection(DOMAIN rev, DOMAIN m)
    BY <2>1, <2>2, Fun_IsBij
  <2>4. ExistsBijection(DOMAIN rev, DOMAIN m)
    BY <2>3, Fun_ExistsBij
  <2> QED BY <2>4, FS_Bijection
<1>6. PICK room \in Nat : room = Cardinality(DOMAIN m)
  BY <1>5, FS_CardinalityType
<1>7. ASSUME room < most PROVE Cardinality(DOMAIN m \ gone) = 0
  <2>1. Victims(rev) = DOMAIN rev
    BY <1>5, <1>6, <1>7, VictimCount
  <2>2. DOMAIN m \ gone = {}
    <3> SUFFICES ASSUME NEW x \in DOMAIN m PROVE x \in gone
      OBVIOUS
    <3>1. last[x] \in Victims(rev) /\ rev[last[x]] = x
      BY <1>1, <2>1
    <3> QED BY <3>1
  <2> QED BY <2>2, FS_EmptySet
<1>8. ASSUME ~ (room < most) PROVE Cardinality(DOMAIN m \ gone) = room - most
  <2>1. Cardinality(Victims(rev)) = most
    BY <1>5, <1>6, <1>8, VictimCount
  <2> HIDE DEF gone
  <2>2. DOMAIN m \cap gone = gone
    BY <1>3
  <2>3. Cardinality(DOMAIN m \ gone) = Cardinality(DOMAIN m) - Cardinality(DOMAIN m \cap gone)
    BY <1>5, FS_Difference
  <2> QED BY <1>4, <1>6, <2>1, <2>2, <2>3
<1> QED BY <1>6, <1>7, <1>8

\* Once as many insertions were made as there is room for, each new key
\* costs NumberClearAtOnce entries, or all there are.
THEOREM AlwaysShrinksOnceFull == Spec => ShrinksOnceFull
<1> DEFINE A == \A k \in Key, v \in Value :
                  (InsertNew(k, v) /\ objectSize >= MaxObjectSize /\ Orphans = {})
                    => LET room == Cardinality(DOMAIN map) + 1
                       IN  Cardinality(DOMAIN map') =
                             IF room < NumberClearAtOnce THEN 0 ELSE room - NumberClearAtOnce
<1>1. ASSUME MapInv PROVE A
  <2> SUFFICES ASSUME NEW k \in Key, NEW v \in Value, InsertNew(k, v),
                      objectSize >= MaxObjectSize, Orphans = {}
               PROVE  LET room == Cardinality(DOMAIN map) + 1
                      IN  Cardinality(DOMAIN map') =
                            IF room < NumberClearAtOnce THEN 0 ELSE room - NumberClearAtOnce
    OBVIOUS
  <2> DEFINE m == With(map, k, v)
             last == With(lastUsedTime, k, now)
             rev == With(lastUsedTimeRev, now, k)
             gone == {rev[t] : t \in Victims(rev)}
  <2>0. /\ timestamp \in Nat /\ now = timestamp + 1 /\ DOMAIN lastUsedTime = DOMAIN map
        /\ Agree(map, lastUsedTime, lastUsedTimeRev) /\ DOMAIN lastUsedTimeRev \subseteq 1..timestamp
        /\ \A x \in DOMAIN lastUsedTime : lastUsedTime[x] \in 1..timestamp
        /\ \A x, y \in DOMAIN lastUsedTime : lastUsedTime[x] = lastUsedTime[y] => x = y
    BY <1>1, MapAssumption DEF MapInv, TypeOK, now, IndexesAgree, Agree, ClockLeads
  <2>now. now \in Nat /\ now \in 1..now /\ now \notin 1..timestamp /\ 1..timestamp \subseteq 1..now
    BY <2>0
  <2>1. k \notin DOMAIN map /\ CountAndClear(k, m, last, rev)
    BY DEF InsertNew
  <2>2. objectSize + 1 > MaxObjectSize
    BY <1>1, MapAssumption DEF MapInv, TypeOK
  <2>3. DOMAIN map' = DOMAIN m \ gone
    BY <2>1, <2>2 DEF CountAndClear, Erase, Restrict
  <2>4. Agree(m, last, rev)
    BY <2>0, <2>1, NewKeyKeepsAgree
  <2>5. DOMAIN rev \subseteq Nat /\ IsFiniteSet(DOMAIN rev)
    <3>1. DOMAIN rev \in SUBSET (1..now)
      BY <2>0, <2>now DEF With
    <3> QED BY <2>now, <3>1, FiniteTimes
  <2>6. \A x, y \in DOMAIN last : last[x] = last[y] => x = y
    BY <2>0, <2>now, <2>1 DEF With
  <2>7. \A x \in DOMAIN m : last[x] \in DOMAIN rev
    <3> TAKE x \in DOMAIN m
    <3>1. CASE x = k
      BY <3>1 DEF With
    <3>2. CASE x # k
      <4>1. x \in DOMAIN map /\ x \in DOMAIN lastUsedTime
        BY <2>0, <3>2 DEF With
      <4>2. lastUsedTime[x] \in DOMAIN lastUsedTimeRev
        BY <4>1 DEF Orphans
      <4> QED BY <3>2, <4>1, <4>2 DEF With
    <3> QED BY <3>1, <3>2
  <2>8. DOMAIN m = DOMAIN map \cup {k} /\ IsFiniteSet(DOMAIN map)
    BY <1>1 DEF With, MapInv, CountCovers
  <2> HIDE DEF m, last, rev
  <2>9. Cardinality(DOMAIN m) = Cardinality(DOMAIN map) + 1
    BY <2>1, <2>8, FS_AddElement
  <2>10. Cardinality(DOMAIN m \ gone)
           = IF Cardinality(DOMAIN m) < NumberClearAtOnce THEN 0
             ELSE Cardinality(DOMAIN m) - NumberClearAtOnce
    BY <2>4, <2>5, <2>6, <2>7, ClearedCount
  <2> QED BY <2>3, <2>9, <2>10
<1>2. MapInv => [A]_vars
  <2> HIDE DEF A
  <2> QED BY <1>1
<1>3. Spec => []MapInv
  BY MapInvHolds
<1> QED BY <1>2, <1>3, PTL DEF ShrinksOnceFull

(***************************************************************************)
(* The order of the keys, as the recency cache has it                      *)
(***************************************************************************)
\* The keys of a reverse index, from the least to the most recently used.
OrderOf(rev) == [i \in 1..Cardinality(DOMAIN rev) |-> rev[Nth(DOMAIN rev, i)]]

\* An order is a sequence, and each key stands at the place of its time.
LEMMA OrderHas ==
  ASSUME NEW K, NEW rev, DOMAIN rev \subseteq Nat, IsFiniteSet(DOMAIN rev),
         \A t \in DOMAIN rev : rev[t] \in K
  PROVE  /\ OrderOf(rev) \in Seq(K) /\ Cardinality(DOMAIN rev) \in Nat
         /\ Len(OrderOf(rev)) = Cardinality(DOMAIN rev)
         /\ DOMAIN OrderOf(rev) = 1..Cardinality(DOMAIN rev)
         /\ \A i \in 1..Cardinality(DOMAIN rev) :
              /\ OrderOf(rev)[i] = rev[Nth(DOMAIN rev, i)]
              /\ Nth(DOMAIN rev, i) \in DOMAIN rev
         /\ \A t \in DOMAIN rev : /\ Rank(DOMAIN rev, t) \in 1..Cardinality(DOMAIN rev)
                                  /\ OrderOf(rev)[Rank(DOMAIN rev, t)] = rev[t]
<1>1. PICK n \in Nat : n = Cardinality(DOMAIN rev)
  BY RanksArePlaces
<1>2. /\ \A i \in 1..n : Nth(DOMAIN rev, i) \in DOMAIN rev
      /\ \A t \in DOMAIN rev : Nth(DOMAIN rev, Rank(DOMAIN rev, t)) = t
      /\ \A t \in DOMAIN rev : Rank(DOMAIN rev, t) \in 1..n
  BY <1>1, NthHasRank, RanksArePlaces
<1>3. OrderOf(rev) = [i \in 1..n |-> rev[Nth(DOMAIN rev, i)]]
  BY <1>1 DEF OrderOf
<1>4. OrderOf(rev) \in [1..n -> K]
  BY <1>2, <1>3
<1>5. OrderOf(rev) \in Seq(K) /\ Len(OrderOf(rev)) = n
  BY <1>4
<1> QED BY <1>1, <1>2, <1>3, <1>5

\* An order is known from any increasing list of its times.
LEMMA OrderFromList ==
  ASSUME NEW rev, DOMAIN rev \subseteq Nat, NEW m \in Nat, NEW s, Lists(s, m, DOMAIN rev)
  PROVE  IsFiniteSet(DOMAIN rev) /\ OrderOf(rev) = [i \in 1..m |-> rev[s[i]]]
<1>1. /\ IsFiniteSet(DOMAIN rev) /\ Cardinality(DOMAIN rev) = m
      /\ \A i \in 1..m : Nth(DOMAIN rev, i) = s[i]
  BY ListedIsNth
<1> QED BY <1>1 DEF OrderOf

\* A key with a new time goes behind the others.
LEMMA OrderAppends ==
  ASSUME NEW rev, DOMAIN rev \subseteq Nat, IsFiniteSet(DOMAIN rev),
         \A t \in DOMAIN rev : rev[t] \in Key, NEW k \in Key,
         NEW t1 \in Nat, \A t \in DOMAIN rev : t < t1
  PROVE  OrderOf(With(rev, t1, k)) = Append(OrderOf(rev), k)
<1> DEFINE D == DOMAIN rev
           s == [i \in 1..Cardinality(D) + 1 |-> IF i <= Cardinality(D) THEN Nth(D, i) ELSE t1]
           new == With(rev, t1, k)
<1>0. D \subseteq Nat /\ IsFiniteSet(D)
  OBVIOUS
<1>1. PICK c \in Nat : c = Cardinality(D)
  BY <1>0, RanksArePlaces
<1>2. /\ \A i \in 1..c : Nth(D, i) \in D
      /\ \A i, j \in 1..c : i < j => Nth(D, i) < Nth(D, j)
      /\ \A t \in D : Nth(D, Rank(D, t)) = t /\ Rank(D, t) \in 1..c
  BY <1>0, <1>1, NthHasRank, RanksArePlaces
<1>3. DOMAIN new = D \cup {t1} /\ new[t1] = k /\ \A t \in D : new[t] = rev[t]
  <2>1. t1 \notin D
    BY <1>0
  <2> QED BY <2>1 DEF With
<1>4. /\ s[c + 1] = t1 /\ \A i \in 1..c : s[i] = Nth(D, i)
      /\ s = [i \in 1..c + 1 |-> s[i]]
  BY <1>1
<1> HIDE DEF s, new
<1>5. \A i \in 1..c + 1 : i \in 1..c \/ i = c + 1
  OBVIOUS
<1>6. s \in [1..c + 1 -> DOMAIN new]
  BY <1>2, <1>3, <1>4, <1>5
<1>7. ASSUME NEW i \in 1..c + 1, NEW j \in 1..c + 1, i < j PROVE s[i] < s[j]
  <2>1. i \in 1..c
    BY <1>7
  <2>2. CASE j \in 1..c
    BY <1>2, <1>4, <1>7, <2>1, <2>2
  <2>3. CASE j = c + 1
    <3>1. s[i] \in D /\ s[j] = t1
      BY <1>2, <1>4, <2>1, <2>3
    <3> QED BY <3>1
  <2> QED BY <1>5, <2>2, <2>3
<1>8. \A t \in DOMAIN new : \E i \in 1..c + 1 : s[i] = t
  <2> TAKE t \in DOMAIN new
  <2>1. CASE t = t1
    <3>1. c + 1 \in 1..c + 1
      OBVIOUS
    <3> QED BY <1>4, <2>1, <3>1
  <2>2. CASE t \in D
    <3>1. Rank(D, t) \in 1..c /\ Rank(D, t) \in 1..c + 1
      BY <1>2, <2>2
    <3> QED BY <1>2, <1>4, <2>2, <3>1
  <2> QED BY <1>3, <2>1, <2>2
<1>9. OrderOf(new) = [i \in 1..c + 1 |-> new[s[i]]]
  <2>1. DOMAIN new \subseteq Nat
    BY <1>0, <1>3
  <2> PICK m \in Nat : m = c + 1
    OBVIOUS
  <2>2. Lists(s, m, DOMAIN new)
    BY <1>6, <1>7, <1>8 DEF Lists
  <2> QED BY <2>1, <2>2, OrderFromList
<1>10. OrderOf(rev) \in Seq(Key) /\ Len(OrderOf(rev)) = c /\ \A i \in 1..c : OrderOf(rev)[i] = rev[Nth(D, i)]
  BY <1>0, <1>1, OrderHas
<1>11. /\ Append(OrderOf(rev), k) \in Seq(Key) /\ Len(Append(OrderOf(rev), k)) = c + 1
       /\ \A i \in 1..c : Append(OrderOf(rev), k)[i] = rev[Nth(D, i)]
       /\ Append(OrderOf(rev), k)[c + 1] = k
  BY <1>10, AppendProperties
<1>12. \A i \in 1..c + 1 : OrderOf(new)[i] = Append(OrderOf(rev), k)[i]
  <2> TAKE i \in 1..c + 1
  <2>1. OrderOf(new)[i] = new[s[i]]
    BY <1>9
  <2>2. CASE i \in 1..c
    BY <1>2, <1>3, <1>4, <1>11, <2>1, <2>2
  <2>3. CASE i = c + 1
    BY <1>3, <1>4, <1>11, <2>1, <2>3
  <2> QED BY <1>5, <2>2, <2>3
<1>13. OrderOf(new) \in Seq(Key) /\ Len(OrderOf(new)) = c + 1
  <2>1. \A i \in 1..c + 1 : new[s[i]] \in Key
    BY <1>2, <1>3, <1>4, <1>5
  <2> QED BY <1>9, <2>1
<1>14. OrderOf(new) = Append(OrderOf(rev), k)
  BY <1>11, <1>12, <1>13, SeqEqual
<1> QED BY <1>14 DEF new

\* Clearing the victims takes the first keys from the order.
LEMMA OrderDrops ==
  ASSUME NEW rev, DOMAIN rev \subseteq Nat, IsFiniteSet(DOMAIN rev),
         \A t \in DOMAIN rev : rev[t] \in Key
  PROVE  /\ OrderOf(Erase(rev, Victims(rev)))
              = SubSeq(OrderOf(rev), NumberClearAtOnce + 1, Len(OrderOf(rev)))
         /\ Cache!Dropped(OrderOf(rev)) = {rev[t] : t \in Victims(rev)}
<1> DEFINE D == DOMAIN rev
           left == Erase(rev, Victims(rev))
           order == OrderOf(rev)
<1> PICK most \in Nat : most = NumberClearAtOnce
  BY MapAssumption
<1>1. PICK c \in Nat : c = Cardinality(D)
  BY RanksArePlaces
<1>2. /\ \A i \in 1..c : Nth(D, i) \in D /\ Rank(D, Nth(D, i)) = i
      /\ \A i, j \in 1..c : i < j => Nth(D, i) < Nth(D, j)
      /\ \A t \in D : Nth(D, Rank(D, t)) = t /\ Rank(D, t) \in 1..c
  BY <1>1, NthHasRank, RanksArePlaces
<1>3. Victims(rev) = {t \in D : Rank(D, t) <= most}
  BY VictimsAreFirst
<1>4. /\ order \in Seq(Key) /\ Len(order) = c /\ DOMAIN order = 1..c
      /\ \A i \in 1..c : order[i] = rev[Nth(D, i)]
      /\ \A t \in D : order[Rank(D, t)] = rev[t]
  BY <1>1, OrderHas
<1>5. /\ DOMAIN left = {t \in D : Rank(D, t) > most}
      /\ \A t \in DOMAIN left : left[t] = rev[t]
  <2>1. DOMAIN left = D \ Victims(rev) /\ \A t \in DOMAIN left : left[t] = rev[t]
    BY DEF Erase, Restrict
  <2>2. \A t \in D : Rank(D, t) > most <=> ~ (Rank(D, t) <= most)
    BY <1>2
  <2> QED BY <1>3, <2>1, <2>2
<1> HIDE DEF left, order
<1>6. Cache!Dropped(order) = {rev[t] : t \in Victims(rev)}
  <2>1. Cache!Dropped(order) = {order[i] : i \in {j \in 1..c : j <= most}}
    BY <1>4 DEF Cache!Dropped
  <2>2. ASSUME NEW i \in 1..c, i <= most PROVE order[i] \in {rev[t] : t \in Victims(rev)}
    BY <1>2, <1>3, <1>4, <2>2
  <2>3. ASSUME NEW t \in Victims(rev) PROVE \E i \in 1..c : i <= most /\ order[i] = rev[t]
    BY <1>2, <1>3, <1>4
  <2> QED BY <2>1, <2>2, <2>3
<1>7. PICK m \in Nat : (c >= most => m = c - most) /\ (c < most => m = 0)
  <2>1. CASE c >= most
    <3>1. c - most \in Nat /\ ~ (c < most)
      BY <2>1
    <3> QED BY <2>1, <3>1
  <2>2. CASE c < most
    BY <2>2
  <2> QED BY <2>1, <2>2
<1>8. \A i \in 1..m : i + most \in 1..c
  BY <1>7
<1> DEFINE s == [i \in 1..m |-> Nth(D, i + most)]
<1>9. Lists(s, m, DOMAIN left)
  <2>1. s \in [1..m -> DOMAIN left]
    <3> SUFFICES ASSUME NEW i \in 1..m PROVE Nth(D, i + most) \in DOMAIN left
      OBVIOUS
    <3>1. Nth(D, i + most) \in D /\ Rank(D, Nth(D, i + most)) = i + most
      BY <1>2, <1>8
    <3>2. i + most > most
      OBVIOUS
    <3> QED BY <1>5, <3>1, <3>2
  <2>2. ASSUME NEW i \in 1..m, NEW j \in 1..m, i < j PROVE s[i] < s[j]
    <3>1. i + most < j + most
      BY <2>2
    <3> QED BY <1>2, <1>8, <3>1
  <2>3. ASSUME NEW t \in DOMAIN left PROVE \E i \in 1..m : s[i] = t
    <3> PICK r \in 1..c : r = Rank(D, t)
      BY <1>2, <1>5
    <3>1. t \in D /\ r > most /\ Nth(D, r) = t
      BY <1>2, <1>5
    <3>2. r - most \in 1..m /\ (r - most) + most = r
      BY <1>7, <3>1
    <3>3. s[r - most] = t
      BY <3>1, <3>2
    <3> QED BY <3>2, <3>3
  <2> HIDE DEF s
  <2> QED BY <2>1, <2>2, <2>3 DEF Lists
<1>10. OrderOf(left) = [i \in 1..m |-> left[s[i]]]
  <2>1. DOMAIN left \subseteq Nat
    BY <1>5
  <2> HIDE DEF s
  <2> QED BY <1>9, <2>1, OrderFromList
<1>11. \A i \in 1..m : OrderOf(left)[i] = rev[Nth(D, i + most)] /\ rev[Nth(D, i + most)] \in Key
  <2> TAKE i \in 1..m
  <2>1. OrderOf(left)[i] = left[Nth(D, i + most)]
    BY <1>10
  <2>2. Nth(D, i + most) \in D /\ Nth(D, i + most) \in DOMAIN left
    <3>1. Nth(D, i + most) \in D /\ Rank(D, Nth(D, i + most)) = i + most
      BY <1>2, <1>8
    <3>2. i + most > most
      OBVIOUS
    <3> QED BY <1>5, <3>1, <3>2
  <2> QED BY <1>5, <2>1, <2>2
<1>12. OrderOf(left) \in Seq(Key) /\ Len(OrderOf(left)) = m
  <2>1. DOMAIN OrderOf(left) = 1..m /\ OrderOf(left) = [i \in 1..m |-> OrderOf(left)[i]]
    BY <1>10
  <2>2. OrderOf(left) \in [1..m -> Key]
    BY <1>11, <2>1
  <2> QED BY <2>2
<1> DEFINE sub == SubSeq(order, most + 1, c)
<1>13. /\ sub \in Seq(Key) /\ Len(sub) = m
       /\ \A i \in 1..m : sub[i] = order[i + most]
  <2>1. \A i \in most + 1..c : order[i] \in Key
    BY <1>4
  <2>2. /\ sub \in Seq(Key) /\ Len(sub) = IF most + 1 <= c THEN c - (most + 1) + 1 ELSE 0
        /\ \A i \in 1..c - (most + 1) + 1 : sub[i] = order[most + 1 + i - 1]
    BY <2>1, SubSeqProperties
  <2> HIDE DEF sub
  <2>3. Len(sub) = m
    BY <1>7, <2>2
  <2>4. ASSUME NEW i \in 1..m PROVE sub[i] = order[i + most]
    <3>1. i \in 1..c - (most + 1) + 1 /\ most + 1 + i - 1 = i + most
      BY <1>7
    <3> QED BY <2>2, <3>1
  <2> QED BY <2>2, <2>3, <2>4
<1>14. \A i \in 1..m : OrderOf(left)[i] = sub[i]
  <2> HIDE DEF sub
  <2> QED BY <1>4, <1>8, <1>11, <1>13
<1>15. OrderOf(left) = sub
  <2> HIDE DEF sub
  <2> QED BY <1>12, <1>13, <1>14, SeqEqual
<1> QED BY <1>4, <1>6, <1>15 DEF left, order

\* A sequence without the element at a place.
LEMMA WithoutAt ==
  ASSUME NEW K, NEW s \in Seq(K), NEW at \in 1..Len(s),
         \A x, y \in 1..Len(s) : s[x] = s[y] => x = y,
         NEW w, w = Cache!Without(s, s[at])
  PROVE  /\ w \in Seq(K) /\ Len(w) = Len(s) - 1
         /\ \A i \in 1..Len(s) - 1 : w[i] = IF i < at THEN s[i] ELSE s[i + 1]
<1> DEFINE a == SubSeq(s, 1, at - 1)
           b == SubSeq(s, at + 1, Len(s))
<1>1. PICK l \in Nat : l = Len(s)
  BY LenProperties
<1>2. DOMAIN s = 1..l /\ at \in 1..l /\ \A i \in 1..l : s[i] \in K
  BY <1>1, LenProperties
<1>3. w = a \o b
  <2>1. at = CHOOSE i \in DOMAIN s : s[i] = s[at]
    BY <1>1, <1>2
  <2> QED BY <2>1 DEF Cache!Without
<1>4. a \in Seq(K) /\ Len(a) = at - 1 /\ \A i \in 1..at - 1 : a[i] = s[i]
  <2>1. \A i \in 1..at - 1 : s[i] \in K
    BY <1>2
  <2>2. /\ a \in Seq(K) /\ Len(a) = IF 1 <= at - 1 THEN at - 1 - 1 + 1 ELSE 0
        /\ \A i \in 1..at - 1 - 1 + 1 : a[i] = s[1 + i - 1]
    BY <1>2, <2>1, SubSeqProperties
  <2> HIDE DEF a
  <2> QED BY <1>2, <2>2
<1>5. b \in Seq(K) /\ Len(b) = l - at /\ \A i \in 1..l - at : b[i] = s[at + i]
  <2>1. \A i \in at + 1..l : s[i] \in K
    BY <1>2
  <2>2. /\ b \in Seq(K) /\ Len(b) = IF at + 1 <= l THEN l - (at + 1) + 1 ELSE 0
        /\ \A i \in 1..l - (at + 1) + 1 : b[i] = s[at + 1 + i - 1]
    BY <1>1, <1>2, <2>1, SubSeqProperties
  <2> HIDE DEF b
  <2>3. Len(b) = l - at
    BY <1>2, <2>2
  <2>4. ASSUME NEW i \in 1..l - at PROVE b[i] = s[at + i]
    <3>1. i \in 1..l - (at + 1) + 1 /\ at + 1 + i - 1 = at + i
      BY <1>2
    <3> QED BY <2>2, <3>1
  <2> QED BY <2>2, <2>3, <2>4
<1> HIDE DEF a, b
<1>6. /\ w \in Seq(K) /\ Len(w) = Len(a) + Len(b)
      /\ \A i \in 1..Len(a) + Len(b) : w[i] = IF i <= Len(a) THEN a[i] ELSE b[i - Len(a)]
  <2>1. a \in Seq(K) /\ b \in Seq(K)
    BY <1>4, <1>5
  <2> PICK p \in Seq(K) : p = a
    BY <2>1
  <2> PICK q \in Seq(K) : q = b
    BY <2>1
  <2>2. /\ p \o q \in Seq(K) /\ Len(p \o q) = Len(p) + Len(q)
        /\ \A i \in 1..Len(p) + Len(q) :
             (p \o q)[i] = IF i <= Len(p) THEN p[i] ELSE q[i - Len(p)]
    BY ConcatProperties
  <2> QED BY <1>3, <2>2
<1>7. Len(w) = l - 1 /\ \A i \in 1..l - 1 : w[i] = IF i <= at - 1 THEN a[i] ELSE b[i - (at - 1)]
  BY <1>2, <1>4, <1>5, <1>6
<1>8. ASSUME NEW i \in 1..l - 1 PROVE w[i] = IF i < at THEN s[i] ELSE s[i + 1]
  <2>1. CASE i < at
    BY <1>2, <1>4, <1>7, <2>1
  <2>2. CASE ~ (i < at)
    <3>1. i - (at - 1) \in 1..l - at /\ at + (i - (at - 1)) = i + 1 /\ ~ (i <= at - 1)
      BY <1>2, <2>2
    <3>2. b[i - (at - 1)] = s[i + 1]
      BY <1>5, <3>1
    <3> QED BY <1>7, <2>2, <3>1, <3>2
  <2> QED BY <2>1, <2>2
<1> QED BY <1>1, <1>3, <1>6, <1>7, <1>8

\* Erasing the time of a key takes the key from its place in the order.
LEMMA OrderLoses ==
  ASSUME NEW rev, DOMAIN rev \subseteq Nat, IsFiniteSet(DOMAIN rev),
         \A t \in DOMAIN rev : rev[t] \in Key,
         \A t, u \in DOMAIN rev : rev[t] = rev[u] => t = u,
         NEW gone \in DOMAIN rev
  PROVE  OrderOf(Erase(rev, {gone})) = Cache!Without(OrderOf(rev), rev[gone])
<1> DEFINE D == DOMAIN rev
           left == Erase(rev, {gone})
           order == OrderOf(rev)
           w == Cache!Without(order, rev[gone])
<1>1. PICK c \in Nat : c = Cardinality(D)
  BY RanksArePlaces
<1>2. /\ \A i \in 1..c : Nth(D, i) \in D /\ Rank(D, Nth(D, i)) = i
      /\ \A i, j \in 1..c : i < j => Nth(D, i) < Nth(D, j)
      /\ \A t \in D : Nth(D, Rank(D, t)) = t /\ Rank(D, t) \in 1..c
  BY <1>1, NthHasRank, RanksArePlaces
<1>3. PICK at \in 1..c : at = Rank(D, gone)
  BY <1>2
<1>4. /\ order \in Seq(Key) /\ Len(order) = c
      /\ \A i \in 1..c : order[i] = rev[Nth(D, i)]
      /\ order[at] = rev[gone]
  BY <1>1, <1>3, OrderHas
<1>5. /\ DOMAIN left = D \ {gone}
      /\ \A t \in DOMAIN left : left[t] = rev[t]
  BY DEF Erase, Restrict
<1>6. PICK m \in Nat : m = c - 1
  OBVIOUS
<1> HIDE DEF left, order
<1>7. \A x, y \in 1..c : order[x] = order[y] => x = y
  <2> SUFFICES ASSUME NEW x \in 1..c, NEW y \in 1..c, order[x] = order[y] PROVE x = y
    OBVIOUS
  <2>1. Nth(D, x) = Nth(D, y)
    BY <1>2, <1>4
  <2>2. Rank(D, Nth(D, x)) = x /\ Rank(D, Nth(D, y)) = y
    BY <1>2
  <2> QED BY <2>1, <2>2
<1>8. /\ w \in Seq(Key) /\ Len(w) = m
      /\ \A i \in 1..m : w[i] = IF i < at THEN order[i] ELSE order[i + 1]
  <2>1. /\ order \in Seq(Key) /\ at \in 1..Len(order)
        /\ \A x, y \in 1..Len(order) : order[x] = order[y] => x = y
    BY <1>4, <1>7
  <2>2. w = Cache!Without(order, order[at])
    BY <1>4
  <2> HIDE DEF w
  <2>3. /\ w \in Seq(Key) /\ Len(w) = Len(order) - 1
        /\ \A i \in 1..Len(order) - 1 : w[i] = IF i < at THEN order[i] ELSE order[i + 1]
    BY <2>1, <2>2, WithoutAt, SMTT(30)
  <2> QED BY <1>4, <1>6, <2>3
<1> DEFINE s == [i \in 1..m |-> IF i < at THEN Nth(D, i) ELSE Nth(D, i + 1)]
<1>9. /\ s = [i \in 1..m |-> s[i]]
      /\ \A i \in 1..m : i < at => i \in 1..c /\ i # at /\ s[i] = Nth(D, i)
      /\ \A i \in 1..m : ~ (i < at) => i + 1 \in 1..c /\ i + 1 # at /\ s[i] = Nth(D, i + 1)
  BY <1>6
<1> HIDE DEF w, s
<1>10. ASSUME NEW i \in 1..m PROVE s[i] \in DOMAIN left /\ w[i] = left[s[i]]
  <2>1. \A j \in 1..c : j # at => Nth(D, j) \in DOMAIN left /\ order[j] = left[Nth(D, j)]
    BY <1>2, <1>3, <1>4, <1>5
  <2>2. CASE i < at
    BY <1>8, <1>9, <2>1, <2>2
  <2>3. CASE ~ (i < at)
    BY <1>8, <1>9, <2>1, <2>3
  <2> QED BY <2>2, <2>3
<1>11. Lists(s, m, DOMAIN left)
  <2>1. s \in [1..m -> DOMAIN left]
    BY <1>9, <1>10
  <2>2. ASSUME NEW i \in 1..m, NEW j \in 1..m, i < j PROVE s[i] < s[j]
    <3>1. CASE j < at
      <4>1. i < at
        BY <2>2, <3>1
      <4> QED BY <1>2, <1>9, <2>2, <3>1, <4>1
    <3>2. CASE ~ (j < at) /\ i < at
      <4>1. i < j + 1
        BY <2>2
      <4> QED BY <1>2, <1>9, <3>2, <4>1
    <3>3. CASE ~ (j < at) /\ ~ (i < at)
      <4>1. i + 1 < j + 1
        BY <2>2
      <4> QED BY <1>2, <1>9, <3>3, <4>1
    <3> QED BY <3>1, <3>2, <3>3
  <2>3. ASSUME NEW t \in DOMAIN left PROVE \E i \in 1..m : s[i] = t
    <3> PICK r \in 1..c : r = Rank(D, t)
      BY <1>2, <1>5
    <3>1. Nth(D, r) = t /\ Nth(D, at) = gone /\ t # gone
      BY <1>2, <1>3, <1>5
    <3>2. CASE r < at
      <4>1. r \in 1..m
        BY <1>6, <3>2
      <4> QED BY <1>9, <3>1, <3>2, <4>1
    <3>3. CASE r > at
      <4>1. r - 1 \in 1..m /\ ~ (r - 1 < at) /\ (r - 1) + 1 = r
        BY <1>6, <3>3
      <4>2. s[r - 1] = t
        BY <1>9, <3>1, <4>1
      <4> QED BY <4>1, <4>2
    <3>4. r # at
      BY <3>1
    <3> QED BY <3>2, <3>3, <3>4
  <2> QED BY <2>1, <2>2, <2>3 DEF Lists
<1>12. OrderOf(left) = [i \in 1..m |-> left[s[i]]]
  <2>1. DOMAIN left \subseteq Nat
    BY <1>5
  <2> QED BY <1>11, <2>1, OrderFromList
<1>13. \A i \in 1..m : OrderOf(left)[i] = w[i] /\ w[i] \in Key
  <2> TAKE i \in 1..m
  <2>1. OrderOf(left)[i] = w[i]
    BY <1>10, <1>12
  <2>2. w[i] \in Key
    BY <1>8, ElementOfSeq
  <2> QED BY <2>1, <2>2
<1>14. OrderOf(left) \in Seq(Key) /\ Len(OrderOf(left)) = m
  <2>1. DOMAIN OrderOf(left) = 1..m /\ OrderOf(left) = [i \in 1..m |-> OrderOf(left)[i]]
    BY <1>12
  <2>2. OrderOf(left) \in [1..m -> Key]
    BY <1>13, <2>1
  <2> QED BY <2>2
<1>15. OrderOf(left) = w
  BY <1>8, <1>13, <1>14, SeqEqual
<1> QED BY <1>15 DEF left, order, w

\* The cache that a reverse index, a map and a count stand for.
CacheAt(rev, m, n) ==
  [order |-> OrderOf(rev), val |-> m,
   inserted |-> IF n > MaxObjectSize THEN MaxObjectSize + 1 ELSE n]

\* The class stands for the cache of its own fields.
LEMMA AbstractIs == /\ abstractCache = CacheAt(lastUsedTimeRev, map, objectSize)
                    /\ abstractCache' = CacheAt(lastUsedTimeRev', map', objectSize')
BY DEF abstractCache, CacheAt, OrderOf, NthTime, Nth, Rank

\* The end of insert() is the counting of the recency cache.
LEMMA CountIsCounted ==
  ASSUME NEW k, NEW last, NEW m, m = [x \in DOMAIN m |-> m[x]],
         NEW rev, rev = [t \in DOMAIN rev |-> rev[t]],
         DOMAIN rev \subseteq Nat, IsFiniteSet(DOMAIN rev),
         \A t \in DOMAIN rev : rev[t] \in Key,
         objectSize \in Nat, CountAndClear(k, m, last, rev)
  PROVE  CacheAt(lastUsedTimeRev', map', objectSize')
           = Cache!Counted(OrderOf(rev), m, CacheAt(lastUsedTimeRev, map, objectSize).inserted)
<1> DEFINE before == CacheAt(lastUsedTimeRev, map, objectSize).inserted
<1> PICK most \in Nat : most = MaxObjectSize
  BY MapAssumption
<1> PICK n \in Nat : n = objectSize
  OBVIOUS
<1>1. before = IF n > most THEN most + 1 ELSE n
  BY DEF CacheAt
<1>2. objectSize' = n + 1
  BY DEF CountAndClear
<1> HIDE DEF before
<1>3. CASE n + 1 <= most
  <2>1. before < most /\ before + 1 = n + 1 /\ ~ (n + 1 > most)
    BY <1>1, <1>3
  <2>2. map' = Erase(m, {}) /\ lastUsedTimeRev' = Erase(rev, {})
    <3>1. {rev[t] : t \in {}} = {}
      OBVIOUS
    <3> QED BY <2>1, <3>1 DEF CountAndClear
  <2>3. map' = m /\ lastUsedTimeRev' = rev
    BY <2>2 DEF Erase, Restrict
  <2>4. CacheAt(lastUsedTimeRev', map', objectSize')
          = [order |-> OrderOf(rev), val |-> m, inserted |-> n + 1]
    BY <1>2, <2>1, <2>3 DEF CacheAt
  <2>5. Cache!Counted(OrderOf(rev), m, before)
          = [order |-> OrderOf(rev), val |-> m, inserted |-> n + 1]
    BY <2>1 DEF Cache!Counted, Cache!CacheOf
  <2> QED BY <2>4, <2>5 DEF before
<1>4. CASE n + 1 > most
  <2> DEFINE gone == {rev[t] : t \in Victims(rev)}
             order == SubSeq(OrderOf(rev), NumberClearAtOnce + 1, Len(OrderOf(rev)))
  <2>1. ~ (before < most)
    BY <1>1, <1>4
  <2>2. map' = Erase(m, gone) /\ lastUsedTimeRev' = Erase(rev, Victims(rev))
    BY <1>4 DEF CountAndClear
  <2>3. OrderOf(lastUsedTimeRev') = order /\ Cache!Dropped(OrderOf(rev)) = gone
    BY <2>2, OrderDrops
  <2>4. CacheAt(lastUsedTimeRev', map', objectSize')
          = [order |-> order, val |-> Erase(m, gone), inserted |-> most + 1]
    <3> HIDE DEF order, gone
    <3> QED BY <1>2, <1>4, <2>2, <2>3 DEF CacheAt
  <2>5. Cache!Counted(OrderOf(rev), m, before)
          = [order |-> order, val |-> Restrict(m, DOMAIN m \ gone), inserted |-> most + 1]
    <3> HIDE DEF gone
    <3> QED BY <2>1, <2>3 DEF Cache!Counted, Cache!CacheOf, Cache!Restrict, Restrict
  <2> QED BY <2>4, <2>5 DEF before, Erase
<1> QED BY <1>3, <1>4

\* What the fields of a reachable map tell about the reverse index.
LEMMA MapParts ==
  ASSUME MapInv
  PROVE  /\ timestamp \in Nat /\ now = timestamp + 1 /\ objectSize \in Nat
         /\ DOMAIN lastUsedTime = DOMAIN map /\ DOMAIN map \subseteq Key
         /\ map = [x \in DOMAIN map |-> map[x]]
         /\ lastUsedTimeRev = [t \in DOMAIN lastUsedTimeRev |-> lastUsedTimeRev[t]]
         /\ DOMAIN lastUsedTimeRev \subseteq 1..timestamp
         /\ DOMAIN lastUsedTimeRev \subseteq Nat /\ IsFiniteSet(DOMAIN lastUsedTimeRev)
         /\ \A t \in DOMAIN lastUsedTimeRev : lastUsedTimeRev[t] \in Key
         /\ \A t, u \in DOMAIN lastUsedTimeRev : lastUsedTimeRev[t] = lastUsedTimeRev[u] => t = u
<1>1. /\ timestamp \in Nat /\ now = timestamp + 1 /\ objectSize \in Nat
      /\ DOMAIN lastUsedTimeRev \subseteq 1..timestamp
  BY MapAssumption DEF MapInv, TypeOK, now, ClockLeads
<1>2. DOMAIN lastUsedTimeRev \subseteq Nat /\ IsFiniteSet(DOMAIN lastUsedTimeRev)
  BY <1>1, FiniteTimes
<1>3. /\ map = [x \in DOMAIN map |-> map[x]] /\ DOMAIN map \subseteq Key
  BY DEF MapInv, TypeOK, Partial
<1>4. /\ lastUsedTimeRev = [t \in DOMAIN lastUsedTimeRev |-> lastUsedTimeRev[t]]
      /\ \A t \in DOMAIN lastUsedTimeRev : lastUsedTimeRev[t] \in Key
  BY DEF MapInv, TypeOK, Partial
<1>5. /\ DOMAIN lastUsedTime = DOMAIN map
      /\ \A t, u \in DOMAIN lastUsedTimeRev : lastUsedTimeRev[t] = lastUsedTimeRev[u] => t = u
  BY DEF MapInv, IndexesAgree, Agree
<1> QED BY <1>1, <1>2, <1>3, <1>4, <1>5

\* A new key comes to the cache as it comes to the class.
LEMMA NewIsInserted ==
  ASSUME MapInv, NEW k \in Key, NEW v \in Value, InsertNew(k, v)
  PROVE  /\ abstractCache' = Cache!Insert(abstractCache, k, v)
         /\ abstractCache' = Cache!Assign(abstractCache, k, v)
<1> DEFINE m == With(map, k, v)
           rev == With(lastUsedTimeRev, now, k)
           c == CacheAt(lastUsedTimeRev, map, objectSize)
<1>0. /\ timestamp \in Nat /\ now = timestamp + 1 /\ objectSize \in Nat
      /\ DOMAIN lastUsedTimeRev \subseteq 1..timestamp
      /\ DOMAIN lastUsedTimeRev \subseteq Nat /\ IsFiniteSet(DOMAIN lastUsedTimeRev)
      /\ \A t \in DOMAIN lastUsedTimeRev : lastUsedTimeRev[t] \in Key
  BY MapParts
<1>1. k \notin DOMAIN map /\ CountAndClear(k, m, With(lastUsedTime, k, now), rev)
  BY DEF InsertNew
<1>2. OrderOf(rev) = Append(OrderOf(lastUsedTimeRev), k)
  <2>1. now \in Nat /\ \A t \in DOMAIN lastUsedTimeRev : t < now
    BY <1>0
  <2> QED BY <1>0, <2>1, OrderAppends
<1>3. /\ m = [x \in DOMAIN m |-> m[x]] /\ rev = [t \in DOMAIN rev |-> rev[t]]
      /\ \A t \in DOMAIN rev : rev[t] \in Key
  BY <1>0 DEF With
<1>4. DOMAIN rev \subseteq Nat /\ IsFiniteSet(DOMAIN rev)
  <2>1. DOMAIN rev \in SUBSET (1..now) /\ now \in Nat
    BY <1>0 DEF With
  <2> QED BY <2>1, FiniteTimes
<1>5. CacheAt(lastUsedTimeRev', map', objectSize') = Cache!Counted(OrderOf(rev), m, c.inserted)
  <2> HIDE DEF m, rev
  <2> QED BY <1>0, <1>1, <1>3, <1>4, CountIsCounted
<1>6. abstractCache' = Cache!Counted(Append(c.order, k), m, c.inserted) /\ abstractCache = c
  <2>1. c.order = OrderOf(lastUsedTimeRev)
    BY DEF CacheAt
  <2> QED BY <1>2, <1>5, <2>1, AbstractIs
<1>7. c.val = map
  BY DEF CacheAt
<1> HIDE DEF c
<1>8. ~ Cache!Holds(c, k) /\ m = [x \in DOMAIN c.val \cup {k} |-> IF x = k THEN v ELSE c.val[x]]
  BY <1>1, <1>7 DEF Cache!Holds, With
<1> HIDE DEF m
<1>9. abstractCache' = Cache!Insert(c, k, v)
  BY <1>6, <1>8 DEF Cache!Insert
<1> QED BY <1>6, <1>8, <1>9 DEF Cache!Assign

\* A hit makes the key the most recently used one.
LEMMA HitIsFound ==
  ASSUME MapInv, NEW k \in Key, k \notin Orphans, FindHit(k)
  PROVE  abstractCache' = Cache!Find(abstractCache, k)
<1>0. /\ timestamp \in Nat /\ now = timestamp + 1
      /\ DOMAIN lastUsedTime = DOMAIN map
      /\ DOMAIN lastUsedTimeRev \subseteq 1..timestamp
      /\ DOMAIN lastUsedTimeRev \subseteq Nat /\ IsFiniteSet(DOMAIN lastUsedTimeRev)
      /\ \A t \in DOMAIN lastUsedTimeRev : lastUsedTimeRev[t] \in Key
      /\ \A t, u \in DOMAIN lastUsedTimeRev : lastUsedTimeRev[t] = lastUsedTimeRev[u] => t = u
  BY MapParts
<1>1. PICK t \in DOMAIN lastUsedTimeRev : t = lastUsedTime[k]
  BY DEF FindHit, Orphans
<1>2. lastUsedTimeRev[t] = k
  BY <1>0, <1>1 DEF FindHit, MapInv, IndexesAgree, Agree, ClockLeads
<1> DEFINE left == Erase(lastUsedTimeRev, {t})
<1>3. lastUsedTimeRev' = With(left, now, k)
  BY <1>1 DEF FindHit, Renewed
<1>4. OrderOf(left) = Cache!Without(OrderOf(lastUsedTimeRev), k)
  BY <1>0, <1>2, OrderLoses
<1>5. /\ DOMAIN left \subseteq DOMAIN lastUsedTimeRev
      /\ \A u \in DOMAIN left : left[u] \in Key
  BY <1>0 DEF Erase, Restrict
<1>6. OrderOf(lastUsedTimeRev') = Append(OrderOf(left), k)
  <2> HIDE DEF left
  <2>1. DOMAIN left \subseteq Nat /\ IsFiniteSet(DOMAIN left)
    BY <1>0, <1>5, FS_Subset
  <2>2. now \in Nat /\ \A u \in DOMAIN left : u < now
    BY <1>0, <1>5
  <2> QED BY <1>3, <1>5, <2>1, <2>2, OrderAppends
<1>7. /\ abstractCache = CacheAt(lastUsedTimeRev, map, objectSize)
      /\ abstractCache' = CacheAt(lastUsedTimeRev', map, objectSize)
  BY AbstractIs DEF FindHit
<1>8. k \in DOMAIN map
  BY DEF FindHit
<1> QED
  BY <1>4, <1>6, <1>7, <1>8 DEF CacheAt, Cache!Find, Cache!Holds, Cache!CacheOf

\* Through its recency order, the class implements the recency cache as long
\* as no find() throws; an insertion that throws changes nothing.
THEOREM ImplementsTheCache == Spec => ImplementsCache
<1> DEFINE A == (Orphans = {} /\ ~ \E k \in Key : FindThrows(k)) => [Cache!Next]_abstractCache
<1>1. Init => Cache!Init
  <2> SUFFICES ASSUME Init PROVE abstractCache = Cache!EmptyCache
    BY DEF Cache!Init
  <2>1. DOMAIN lastUsedTimeRev = {} /\ map = <<>> /\ objectSize = 0
    BY DEF Init
  <2>2. Cardinality(DOMAIN lastUsedTimeRev) = 0 /\ IsFiniteSet(DOMAIN lastUsedTimeRev)
    BY <2>1, FS_EmptySet
  <2>3. OrderOf(lastUsedTimeRev) \in Seq(Key) /\ Len(OrderOf(lastUsedTimeRev)) = 0
    BY <2>1, <2>2, OrderHas
  <2>4. OrderOf(lastUsedTimeRev) = <<>>
    BY <2>3, EmptySeq
  <2>5. ~ (objectSize > MaxObjectSize)
    BY <2>1, MapAssumption
  <2> QED BY <2>1, <2>4, <2>5, AbstractIs DEF CacheAt, Cache!EmptyCache, Cache!CacheOf
<1>2. ASSUME MapInv, Next, Orphans = {}, ~ \E k \in Key : FindThrows(k)
      PROVE  Cache!Next \/ abstractCache' = abstractCache
  <2> PICK k \in Key :
         \/ \E v \in Value : Insert(k, v)
         \/ \E v \in Value : Assign(k, v)
         \/ \E v \in Value : InsertThrows(k, v)
         \/ FindHit(k)
         \/ FindMiss(k)
         \/ FindThrows(k)
    BY <1>2 DEF Next
  <2>1. ASSUME NEW v \in Value, InsertNew(k, v) PROVE Cache!Next
    BY <1>2, <2>1, NewIsInserted DEF Cache!Next
  <2>2. ASSUME NEW v \in Value, InsertPresent(k) PROVE Cache!Next
    <3>1. CountAndClear(k, map, lastUsedTime, lastUsedTimeRev) /\ k \in DOMAIN map
      BY <2>2 DEF InsertPresent
    <3>2. abstractCache' = Cache!Counted(OrderOf(lastUsedTimeRev), map, abstractCache.inserted)
      BY <1>2, <3>1, MapParts, CountIsCounted, AbstractIs
    <3>3. abstractCache.order = OrderOf(lastUsedTimeRev) /\ abstractCache.val = map
      BY AbstractIs DEF CacheAt
    <3>4. abstractCache' = Cache!Insert(abstractCache, k, v)
      BY <3>1, <3>2, <3>3 DEF Cache!Insert, Cache!Holds
    <3> QED BY <2>2, <3>4 DEF Cache!Next
  <2>3. ASSUME NEW v \in Value, AssignPresent(k, v) PROVE Cache!Next
    <3>1. /\ abstractCache = CacheAt(lastUsedTimeRev, map, objectSize)
          /\ abstractCache' = CacheAt(lastUsedTimeRev, [map EXCEPT ![k] = v], objectSize)
          /\ k \in DOMAIN map
      BY <2>3, AbstractIs DEF AssignPresent, index
    <3>2. abstractCache' = Cache!Assign(abstractCache, k, v)
      BY <3>1 DEF CacheAt, Cache!Assign, Cache!Holds, Cache!CacheOf
    <3> QED BY <2>3, <3>2 DEF Cache!Next
  <2>4. ASSUME NEW v \in Value, InsertThrows(k, v) PROVE abstractCache' = abstractCache
    <3>1. now \notin DOMAIN lastUsedTimeRev
      BY <1>2, MapParts
    <3>2. Erase(With(lastUsedTimeRev, now, k), {now})
            = [t \in DOMAIN lastUsedTimeRev |-> lastUsedTimeRev[t]]
      BY <3>1 DEF Erase, With, Restrict
    <3>3. Erase(With(map, k, v), {k}) = [x \in DOMAIN map |-> map[x]]
      BY <2>4 DEF Erase, With, Restrict, InsertThrows
    <3>4. lastUsedTimeRev' = lastUsedTimeRev /\ map' = map /\ objectSize' = objectSize
      BY <1>2, <2>4, <3>2, <3>3, MapParts DEF InsertThrows, Unwound
    <3> QED BY <3>4, AbstractIs
  <2>5. ASSUME FindHit(k) PROVE Cache!Next
    BY <1>2, <2>5, HitIsFound DEF Cache!Next
  <2>6. ASSUME FindMiss(k) PROVE abstractCache' = abstractCache
    BY <2>6, AbstractIs DEF FindMiss, index
  <2> QED BY <1>2, <2>1, <2>2, <2>3, <2>4, <2>5, <2>6 DEF Insert, Assign
<1>3. MapInv /\ [Next]_vars => [A]_vars
  <2> SUFFICES ASSUME MapInv, Next, Orphans = {}, ~ \E k \in Key : FindThrows(k)
               PROVE  [Cache!Next]_abstractCache
    OBVIOUS
  <2> QED BY <1>2
<1>4. Spec => []MapInv
  BY MapInvHolds
<1> QED BY <1>1, <1>3, <1>4, PTL DEF Spec, ImplementsCache
=============================================================================
