----------------------------- MODULE TypedMRUMap -----------------------------
(***************************************************************************)
(* impl::TypedMRUMap<KeyT, ValueT> (include/typedmrumap.hpp): the map the  *)
(* graph stores keep their adjacency sets in.  Recency is kept twice, as   *)
(* key -> timestamp and as timestamp -> key, and every operation has to    *)
(* keep the two and the map itself in step, also when an allocation in the *)
(* middle of it throws.                                                    *)
(***************************************************************************)
EXTENDS Naturals, FiniteSets, Functions

CONSTANTS
  Key, Value,
  MaxObjectSize,      \* max_objectSize_
  NumberClearAtOnce,  \* numberClearAtOnce, 10 in the code
  MaxTimestamp        \* bound of the model: calls that move the clock

ASSUME MapAssumption ==
  /\ MaxObjectSize \in Nat
  /\ NumberClearAtOnce \in Nat \ {0}
  /\ MaxTimestamp \in Nat

VARIABLES
  map,              \* map_
  lastUsedTime,     \* lastUsedTime_
  lastUsedTimeRev,  \* lastUsedTimeRev_
  timestamp,
  objectSize,
  result            \* what the last call handed to its caller

index == <<lastUsedTime, lastUsedTimeRev>>
vars == <<map, index, timestamp, objectSize, result>>

\* a returned iterator is end(), refers to an entry of the map, or to one
\* the same call has already erased; a call may also end by an exception
Results == {"none", "end", "entry", "erased", "thrown"}

Init ==
  /\ map = <<>>
  /\ lastUsedTime = <<>>
  /\ lastUsedTimeRev = <<>>
  /\ timestamp = 0
  /\ objectSize = 0
  /\ result = "none"

(***************************************************************************)
(* Helpers on std::map                                                     *)
(***************************************************************************)
With(f, k, v) == [x \in DOMAIN f \cup {k} |-> IF x = k THEN v ELSE f[x]]
Erase(f, ks) == Restrict(f, DOMAIN f \ ks)

now == timestamp + 1

\* a mutation of Victims: the walk starts at the newest end
NewestFirst(rev) ==
  {t \in DOMAIN rev : Cardinality({u \in DOMAIN rev : u > t}) < NumberClearAtOnce}

\* a mutation of Victims: one more is visited
OneTooMany(rev) ==
  {t \in DOMAIN rev : Cardinality({u \in DOMAIN rev : u < t}) <= NumberClearAtOnce}

\* the timestamps clearNotUsedCache() visits: the smallest ones, at most
\* NumberClearAtOnce of them
Victims(rev) ==
  {t \in DOMAIN rev : Cardinality({u \in DOMAIN rev : u < t}) < NumberClearAtOnce}

(***************************************************************************)
(* insert(): the end of the call, from `objectSize += ...` on, applied to  *)
(* the maps m, last and rev as the insertion left them.  getSize() of a    *)
(* key-value pair is 1.                                                    *)
(***************************************************************************)
\* a mutation of CountAndClear: the key and the value are both counted
CountTwice(k, m, last, rev) ==
  LET old == IF objectSize + 2 > MaxObjectSize THEN Victims(rev) ELSE {}
      gone == {rev[t] : t \in old}
  IN  /\ objectSize' = objectSize + 2
      /\ map' = Erase(m, gone)
      /\ lastUsedTime' = Erase(last, gone)
      /\ lastUsedTimeRev' = Erase(rev, old)
      /\ result' = IF k \in gone THEN "erased" ELSE "entry"

\* a mutation of CountAndClear: the new entry is counted after the question
CountLate(k, m, last, rev) ==
  LET old == IF objectSize > MaxObjectSize THEN Victims(rev) ELSE {}
      gone == {rev[t] : t \in old}
  IN  /\ objectSize' = objectSize + 1
      /\ map' = Erase(m, gone)
      /\ lastUsedTime' = Erase(last, gone)
      /\ lastUsedTimeRev' = Erase(rev, old)
      /\ result' = IF k \in gone THEN "erased" ELSE "entry"

CountAndClear(k, m, last, rev) ==
  LET old == IF objectSize + 1 > MaxObjectSize THEN Victims(rev) ELSE {}
      gone == {rev[t] : t \in old}
  IN  /\ objectSize' = objectSize + 1
      /\ map' = Erase(m, gone)
      /\ lastUsedTime' = Erase(last, gone)
      /\ lastUsedTimeRev' = Erase(rev, old)
      /\ result' = IF k \in gone THEN "erased" ELSE "entry"

InsertNew(k, v) ==
  /\ k \notin DOMAIN map
  /\ timestamp' = now
  /\ CountAndClear(k, With(map, k, v), With(lastUsedTime, k, now),
                   With(lastUsedTimeRev, now, k))

\* the key is there: the clock and the count move, nothing else
InsertPresent(k) ==
  /\ k \in DOMAIN map
  /\ timestamp' = now
  /\ CountAndClear(k, map, lastUsedTime, lastUsedTimeRev)

Insert(k, v) == InsertNew(k, v) \/ InsertPresent(k)

\* what the two catch blocks of insert() leave: the entry is erased again,
\* and so is its timestamp if the throw came after that was stored
Unwound(k, v) ==
  /\ map' = Erase(With(map, k, v), {k})
  /\ lastUsedTimeRev' \in {lastUsedTimeRev, Erase(With(lastUsedTimeRev, now, k), {now})}
  /\ lastUsedTime' = lastUsedTime

\* inserting into lastUsedTimeRev_ or into lastUsedTime_ throws
InsertThrows(k, v) ==
  /\ k \notin DOMAIN map
  /\ timestamp' = now
  /\ Unwound(k, v)
  /\ result' = "thrown"
  /\ UNCHANGED objectSize

(***************************************************************************)
(* find()                                                                  *)
(***************************************************************************)
\* a mutation of Renewed: the old timestamp stays in lastUsedTimeRev_
RenewedTwice(k) == With(lastUsedTimeRev, now, k)

\* lastUsedTimeRev_ once the key has moved to the current time
Renewed(k) == With(Erase(lastUsedTimeRev, {lastUsedTime[k]}), now, k)

FindHit(k) ==
  /\ k \in DOMAIN map
  /\ timestamp' = now
  /\ lastUsedTime' = [lastUsedTime EXCEPT ![k] = now]
  /\ lastUsedTimeRev' = Renewed(k)
  /\ result' = "entry"
  /\ UNCHANGED <<map, objectSize>>

FindMiss(k) ==
  /\ k \notin DOMAIN map
  /\ result' = "end"
  /\ UNCHANGED <<map, index, timestamp, objectSize>>

\* the insertion of the new timestamp throws: the old one is gone already
FindThrows(k) ==
  /\ k \in DOMAIN map
  /\ timestamp' = now
  /\ lastUsedTime' = [lastUsedTime EXCEPT ![k] = now]
  /\ lastUsedTimeRev' = Erase(lastUsedTimeRev, {lastUsedTime[k]})
  /\ result' = "thrown"
  /\ UNCHANGED <<map, objectSize>>

(***************************************************************************)
(* operator[] and the assignment through the reference it returns, which   *)
(* is how the stores use it.  A key that is there is not renewed.  If the  *)
(* insertion cleared its own key, the value is written to freed memory.    *)
(***************************************************************************)
AssignPresent(k, v) ==
  /\ k \in DOMAIN map
  /\ map' = [map EXCEPT ![k] = v]
  /\ result' = "entry"
  /\ UNCHANGED <<index, timestamp, objectSize>>

Assign(k, v) == AssignPresent(k, v) \/ InsertNew(k, v)

(***************************************************************************)
(* The specification                                                       *)
(***************************************************************************)
Next ==
  /\ timestamp < MaxTimestamp
  /\ \E k \in Key :
       \/ \E v \in Value : Insert(k, v)
       \/ \E v \in Value : Assign(k, v)
       \/ \E v \in Value : InsertThrows(k, v)
       \/ FindHit(k)
       \/ FindMiss(k)
       \/ FindThrows(k)

Spec == Init /\ [][Next]_vars

(***************************************************************************)
(* Properties                                                              *)
(***************************************************************************)
Partial(K, V) == UNION {[S -> V] : S \in SUBSET K}

\* The type invariant of the class's fields.
TypeOK ==
  /\ map \in Partial(Key, Value)
  /\ lastUsedTime \in Partial(Key, 1..MaxTimestamp)
  /\ lastUsedTimeRev \in Partial(1..MaxTimestamp, Key)
  /\ timestamp \in 0..MaxTimestamp
  /\ objectSize \in 0..timestamp
  /\ result \in Results

Agree(m, last, rev) ==
  /\ DOMAIN last = DOMAIN m
  /\ \A t \in DOMAIN rev : rev[t] \in DOMAIN m /\ last[rev[t]] = t

\* Every key of the map has a last-used time, so the assertion of find()
\* never fails, and every timestamp of the reverse index leads to a key of
\* the map whose last-used time it is: clearNotUsedCache() never erases a
\* key by an outdated timestamp.  Throwing allocations are no exception.
IndexesAgree == Agree(map, lastUsedTime, lastUsedTimeRev)

\* Keys that clearNotUsedCache() can never reach.
Orphans == {k \in DOMAIN map : lastUsedTime[k] \notin DOMAIN lastUsedTimeRev}

\* The map never holds more than max_objectSize_ entries between calls, not
\* even when keys have been orphaned: each insertion past the limit clears
\* at least as many entries as it adds.
SizeBounded == Cardinality(DOMAIN map) <= MaxObjectSize

\* What clearNotUsedCache() erases was used before everything it keeps; so
\* insert() erases its own new entry, to which operator[] still returns a
\* reference, only when it keeps nothing that can be cleared.
OldestGoFirst ==
  [][/\ \A gone \in DOMAIN map \ DOMAIN map', kept \in DOMAIN map \cap DOMAIN map' :
          kept \notin Orphans => lastUsedTime[gone] < lastUsedTime[kept]
     /\ \A k \in Key, v \in Value :
          (InsertNew(k, v) /\ result' = "erased") => DOMAIN map' \subseteq Orphans]_vars

\* objectSize is never decreased, so from the first clearing on every new
\* key costs NumberClearAtOnce entries, or all there are: the map shrinks
\* with each insertion instead of settling at its limit.
ShrinksOnceFull ==
  [][\A k \in Key, v \in Value :
        (InsertNew(k, v) /\ objectSize >= MaxObjectSize /\ Orphans = {})
           => LET room == Cardinality(DOMAIN map) + 1
              IN  Cardinality(DOMAIN map') =
                    IF room < NumberClearAtOnce THEN 0 ELSE room - NumberClearAtOnce]_vars

(***************************************************************************)
(* The class implements the recency cache: the order is the keys sorted by *)
(* their timestamps.                                                       *)
(***************************************************************************)
\* the i-th smallest timestamp of the reverse index
NthTime(i) ==
  CHOOSE t \in DOMAIN lastUsedTimeRev :
    Cardinality({u \in DOMAIN lastUsedTimeRev : u <= t}) = i

abstractCache ==
  [order |-> [i \in 1..Cardinality(DOMAIN lastUsedTimeRev) |-> lastUsedTimeRev[NthTime(i)]],
   val |-> map,
   inserted |-> IF objectSize > MaxObjectSize THEN MaxObjectSize + 1 ELSE objectSize]

Cache == INSTANCE CacheSpec WITH cache <- abstractCache

\* Seen through the recency order, every call of the class is a call of the
\* cache of module RecencyCache, and an insertion that throws changes nothing.
\* Only a find() that throws leaves a key no clearing reaches.
ImplementsCache ==
  /\ Cache!Init
  /\ [][(Orphans = {} /\ ~ \E k \in Key : FindThrows(k)) => [Cache!Next]_abstractCache]_vars
=============================================================================
