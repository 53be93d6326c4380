---------------------------- MODULE RecencyCache ----------------------------
(***************************************************************************)
(* What impl::TypedMRUMap (include/typedmrumap.hpp) promises its callers:  *)
(* a map whose keys are ordered by last use, and which drops its least     *)
(* recently used keys, NumberClearAtOnce at a time, once more than         *)
(* MaxObjectSize insertions were made.  The timestamps and the two index   *)
(* maps of the class are module TypedMRUMap's concern; it is shown there   *)
(* to implement this one.  The graph stores use these operators for their  *)
(* outEdgeCache and inEdgeCache.                                           *)
(***************************************************************************)
EXTENDS Naturals, Sequences, Functions

CONSTANTS
  MaxObjectSize,     \* insertions after which the cache counts as full
  NumberClearAtOnce  \* keys dropped by one clearNotUsedCache()

ASSUME CacheAssumption ==
  /\ MaxObjectSize \in Nat
  /\ NumberClearAtOnce \in Nat \ {0}

(***************************************************************************)
(* A cache is a record: the map `val`, its keys from the least to the most *)
(* recently used in `order`, and in `inserted` the number of insertions,   *)
(* which the class never decreases, so that counting past MaxObjectSize    *)
(* tells nothing more.                                                     *)
(***************************************************************************)
CacheOf(order, val, inserted) == [order |-> order, val |-> val, inserted |-> inserted]

EmptyCache == CacheOf(<<>>, <<>>, 0)

Holds(c, k) == k \in DOMAIN c.val

\* the order without a key that is in it
Without(order, k) ==
  LET at == CHOOSE i \in DOMAIN order : order[i] = k
  IN  SubSeq(order, 1, at - 1) \o SubSeq(order, at + 1, Len(order))

\* a mutation of Find: the key keeps its old place as well
FindTwice(c, k) ==
  IF Holds(c, k) THEN CacheOf(Append(c.order, k), c.val, c.inserted) ELSE c

\* find(key): a hit makes the key the most recently used one
Find(c, k) ==
  IF Holds(c, k) THEN CacheOf(Append(Without(c.order, k), k), c.val, c.inserted) ELSE c

\* clearNotUsedCache(): the first keys of the order go
Dropped(order) == {order[i] : i \in {j \in DOMAIN order : j <= NumberClearAtOnce}}

\* what insert() leaves of the order and the map it has brought about: past
\* the limit it ends with a clearing
Counted(order, val, inserted) ==
  IF inserted < MaxObjectSize
  THEN CacheOf(order, val, inserted + 1)
  ELSE CacheOf(SubSeq(order, NumberClearAtOnce + 1, Len(order)),
               Restrict(val, DOMAIN val \ Dropped(order)), MaxObjectSize + 1)

\* insert({k, v}): a key that is there keeps its value and its place
Insert(c, k, v) ==
  IF Holds(c, k)
  THEN Counted(c.order, c.val, c.inserted)
  ELSE Counted(Append(c.order, k),
               [x \in DOMAIN c.val \cup {k} |-> IF x = k THEN v ELSE c.val[x]], c.inserted)

\* cache[k] = v: operator[] finds without touching the order, or inserts.
\* When the insertion cleared k itself the value goes to a freed entry.
Assign(c, k, v) ==
  IF Holds(c, k) THEN CacheOf(c.order, [c.val EXCEPT ![k] = v], c.inserted)
  ELSE Insert(c, k, v)

\* the caches that order exactly the keys they hold
Caches(Key, Value) ==
  {c \in [order : Seq(Key), val : UNION {[S -> Value] : S \in SUBSET Key},
          inserted : 0..MaxObjectSize + 1] :
     IsInjective(c.order) /\ Range(c.order) = DOMAIN c.val}
=============================================================================
