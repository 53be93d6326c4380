----------------------------- MODULE StoreLemmas -----------------------------
(***************************************************************************)
(* What the proofs about the two stores use of the cache and the records:  *)
(* a cache holds what it was told or nothing, and the records of a bundle  *)
(* are those of its edges.                                                 *)
(***************************************************************************)
EXTENDS StoreRecords, FiniteSetTheorems, SequenceTheorems, WellFoundedInduction, TLAPS

(***************************************************************************)
(* The cache                                                               *)
(***************************************************************************)
\* find() changes no value.
LEMMA FindKeeps ==
  ASSUME NEW c, NEW k
  PROVE  Find(c, k).val = c.val
BY DEF Find, CacheOf

\* Counting an insertion only takes entries away.
LEMMA CountedKeeps ==
  ASSUME NEW order, NEW f, NEW i
  PROVE  LET d == Counted(order, f, i)
         IN  /\ DOMAIN d.val \subseteq DOMAIN f
             /\ \A x \in DOMAIN d.val : d.val[x] = f[x]
BY DEF Counted, CacheOf, Restrict

\* After cache[k] = v every entry is either the new one or was there before
\* with the same value, whatever was cleared.
LEMMA AssignKeeps ==
  ASSUME NEW c, NEW k, NEW v
  PROVE  LET d == Assign(c, k, v)
         IN  /\ DOMAIN d.val \subseteq DOMAIN c.val \cup {k}
             /\ \A x \in DOMAIN d.val : d.val[x] = IF x = k THEN v ELSE c.val[x]
<1>1. CASE Holds(c, k)
  BY <1>1 DEF Assign, CacheOf
<1>2. CASE ~ Holds(c, k)
  <2> DEFINE g == [x \in DOMAIN c.val \cup {k} |-> IF x = k THEN v ELSE c.val[x]]
  <2>1. Assign(c, k, v) = Counted(Append(c.order, k), g, c.inserted)
    BY <1>2 DEF Assign, Insert
  <2>2. DOMAIN g = DOMAIN c.val \cup {k}
    OBVIOUS
  <2>3. \A x \in DOMAIN g : g[x] = IF x = k THEN v ELSE c.val[x]
    OBVIOUS
  <2> HIDE DEF g
  <2> QED
    BY <2>1, <2>2, <2>3, CountedKeeps
<1> QED
  BY <1>1, <1>2

\* A set that is read and written again.
LEMMA RewrittenKeeps ==
  ASSUME NEW c, NEW k, NEW v
  PROVE  LET d == Rewritten(c, k, v)
         IN  /\ DOMAIN d.val \subseteq DOMAIN c.val \cup {k}
             /\ \A x \in DOMAIN d.val : d.val[x] = IF x = k THEN v ELSE c.val[x]
<1>1. Find(c, k).val = c.val
  BY FindKeeps
<1> QED
  BY <1>1, AssignKeeps DEF Rewritten

(***************************************************************************)
(* The order of a cache: it holds each key of the cache once               *)
(***************************************************************************)
\* A cache is its three parts.
LEMMA CacheParts ==
  ASSUME NEW K, NEW V, NEW order \in Seq(K), IsInjective(order), NEW S \in SUBSET K,
         NEW val \in [S -> V], Range(order) = S, NEW inserted \in 0..MaxObjectSize + 1
  PROVE  CacheOf(order, val, inserted) \in Caches(K, V)
<1>1. val \in UNION {[R -> V] : R \in SUBSET K}
  OBVIOUS
<1> QED
  BY <1>1 DEF CacheOf, Caches

\* What is known of a cache.
LEMMA CacheHas ==
  ASSUME NEW K, NEW V, NEW c \in Caches(K, V)
  PROVE  /\ c.order \in Seq(K) /\ IsInjective(c.order) /\ Range(c.order) = DOMAIN c.val
         /\ DOMAIN c.val \in SUBSET K /\ c.val \in [DOMAIN c.val -> V]
         /\ c.inserted \in 0..MaxObjectSize + 1
<1>1. c.val \in UNION {[R -> V] : R \in SUBSET K}
  BY DEF Caches
<1>2. PICK R \in SUBSET K : c.val \in [R -> V]
  BY <1>1
<1> QED
  BY <1>2 DEF Caches

\* An order without one of its keys keeps the others in their order.
LEMMA WithoutKeeps ==
  ASSUME NEW K, NEW s \in Seq(K), IsInjective(s), NEW k \in Range(s)
  PROVE  /\ Without(s, k) \in Seq(K) /\ IsInjective(Without(s, k))
         /\ Range(Without(s, k)) = Range(s) \ {k}
<1> DEFINE at == CHOOSE i \in DOMAIN s : s[i] = k
           a == SubSeq(s, 1, at - 1)
           b == SubSeq(s, at + 1, Len(s))
           w == a \o b
<1>1. at \in DOMAIN s /\ s[at] = k
  BY DEF Range
<1>2. DOMAIN s = 1..Len(s) /\ Len(s) \in Nat /\ \A i \in 1..Len(s) : s[i] \in K
  BY LenProperties
<1> HIDE DEF at
<1>3. at \in 1..Len(s) /\ at \in Int
  BY <1>1, <1>2
<1>4. a \in Seq(K) /\ Len(a) = at - 1 /\ \A i \in 1..at - 1 : a[i] = s[i]
  <2>1. \A i \in 1..at - 1 : s[i] \in K
    BY <1>2, <1>3
  <2>2. /\ a \in Seq(K) /\ Len(a) = IF 1 <= at - 1 THEN at - 1 - 1 + 1 ELSE 0
        /\ \A i \in 1..at - 1 - 1 + 1 : a[i] = s[1 + i - 1]
    BY <1>3, <2>1, SubSeqProperties
  <2> HIDE DEF a
  <2> QED BY <1>3, <2>2
<1>5. b \in Seq(K) /\ Len(b) = Len(s) - at /\ \A i \in 1..Len(s) - at : b[i] = s[at + i]
  <2>1. \A i \in at + 1..Len(s) : s[i] \in K
    BY <1>2, <1>3
  <2>2. /\ b \in Seq(K) /\ Len(b) = IF at + 1 <= Len(s) THEN Len(s) - (at + 1) + 1 ELSE 0
        /\ \A i \in 1..Len(s) - (at + 1) + 1 : b[i] = s[at + 1 + i - 1]
    BY <1>2, <1>3, <2>1, SubSeqProperties
  <2>3. Len(s) - (at + 1) + 1 = Len(s) - at /\ \A i \in Int : at + 1 + i - 1 = at + i
    BY <1>2, <1>3
  <2>4. ASSUME NEW i \in 1..Len(s) - at PROVE b[i] = s[at + i]
    <3>1. i \in 1..Len(s) - (at + 1) + 1 /\ at + 1 + i - 1 = at + i
      BY <1>2, <1>3, <2>3
    <3> HIDE DEF b
    <3> QED BY <2>2, <3>1
  <2> HIDE DEF b
  <2>5. Len(b) = Len(s) - at
    <3>1. CASE at + 1 <= Len(s)
      BY <2>2, <2>3, <3>1
    <3>2. CASE ~ (at + 1 <= Len(s))
      <4>1. Len(s) - at = 0
        <5> PICK l \in Nat : l = Len(s)
          BY <1>2
        <5>1. at \in 1..l /\ ~ (at + 1 <= l)
          BY <1>3, <3>2
        <5> QED BY <5>1
      <4> QED BY <2>2, <3>2, <4>1
    <3> QED BY <3>1, <3>2
  <2> QED BY <2>2, <2>4, <2>5
<1> HIDE DEF a, b
<1>6. /\ w \in Seq(K) /\ Len(w) = Len(s) - 1
      /\ \A i \in 1..Len(s) - 1 : w[i] = IF i < at THEN s[i] ELSE s[i + 1]
  <2>1. /\ w \in Seq(K) /\ Len(w) = Len(a) + Len(b)
        /\ \A i \in 1..Len(a) + Len(b) : w[i] = IF i <= Len(a) THEN a[i] ELSE b[i - Len(a)]
    BY <1>4, <1>5, ConcatProperties
  <2>2. Len(a) + Len(b) = Len(s) - 1
    BY <1>2, <1>3, <1>4, <1>5
  <2> HIDE DEF w
  <2>3. ASSUME NEW i \in 1..Len(s) - 1 PROVE w[i] = IF i < at THEN s[i] ELSE s[i + 1]
    <3>1. w[i] = IF i <= at - 1 THEN a[i] ELSE b[i - (at - 1)]
      BY <1>4, <2>1, <2>2
    <3>2. CASE i < at
      BY <1>3, <1>4, <3>1, <3>2
    <3>3. CASE ~ (i < at)
      <4>1. i - (at - 1) \in 1..Len(s) - at /\ at + (i - (at - 1)) = i + 1
        BY <1>2, <1>3, <3>3
      <4>2. b[i - (at - 1)] = s[i + 1]
        BY <1>5, <4>1
      <4>3. ~ (i <= at - 1)
        BY <1>3, <3>3
      <4> QED BY <3>1, <3>3, <4>2, <4>3
    <3> QED BY <3>2, <3>3
  <2> QED BY <2>1, <2>2, <2>3
<1>7. w = Without(s, k)
  BY DEF Without, a, b, at
<1> HIDE DEF w
<1>8. DOMAIN w = 1..Len(s) - 1
  BY <1>6, LenProperties
<1>9. IsInjective(w)
  <2> SUFFICES ASSUME NEW i \in DOMAIN w, NEW j \in DOMAIN w, w[i] = w[j] PROVE i = j
    BY DEF IsInjective
  <2>1. \A x, y \in 1..Len(s) : s[x] = s[y] => x = y
    BY <1>2 DEF IsInjective
  <2> QED BY <1>2, <1>3, <1>6, <1>8, <2>1
<1>10. ASSUME NEW x \in Range(w) PROVE x \in Range(s) \ {k}
  <2>1. PICK i \in 1..Len(s) - 1 : x = w[i]
    BY <1>8 DEF Range
  <2>2. PICK j \in 1..Len(s) : x = s[j] /\ j # at
    BY <1>2, <1>3, <1>6, <2>1
  <2>3. x # k
    BY <1>1, <1>2, <2>2 DEF IsInjective
  <2> QED BY <1>2, <2>2, <2>3 DEF Range
<1>11. ASSUME NEW x \in Range(s) \ {k} PROVE x \in Range(w)
  <2>1. PICK j \in 1..Len(s) : x = s[j]
    BY <1>2 DEF Range
  <2>2. j # at
    BY <1>1, <2>1
  <2>3. \E i \in 1..Len(s) - 1 : w[i] = x
    <3>1. CASE j < at
      BY <1>2, <1>3, <1>6, <2>1, <3>1
    <3>2. CASE j > at
      <4>1. j - 1 \in 1..Len(s) - 1 /\ ~ (j - 1 < at) /\ (j - 1) + 1 = j
        BY <1>2, <1>3, <3>2
      <4> QED BY <1>6, <2>1, <4>1
    <3> QED BY <1>3, <2>2, <3>1, <3>2
  <2> QED BY <1>8, <2>3 DEF Range
<1> QED
  BY <1>6, <1>7, <1>9, <1>10, <1>11

\* A new key behind the others.
LEMMA AppendKeeps ==
  ASSUME NEW K, NEW s \in Seq(K), IsInjective(s), NEW k \in K, k \notin Range(s)
  PROVE  /\ Append(s, k) \in Seq(K) /\ IsInjective(Append(s, k))
         /\ Range(Append(s, k)) = Range(s) \cup {k}
<1> DEFINE w == Append(s, k)
<1>1. /\ w \in Seq(K) /\ Len(w) = Len(s) + 1 /\ Len(s) \in Nat
      /\ DOMAIN w = 1..Len(s) + 1 /\ DOMAIN s = 1..Len(s)
      /\ \A i \in 1..Len(s) : w[i] = s[i]
      /\ w[Len(s) + 1] = k
  BY AppendProperties, LenProperties
<1> HIDE DEF w
<1>2. Range(w) = Range(s) \cup {k}
  BY <1>1 DEF Range
<1>3. IsInjective(w)
  <2> SUFFICES ASSUME NEW i \in DOMAIN w, NEW j \in DOMAIN w, w[i] = w[j] PROVE i = j
    BY DEF IsInjective
  <2>1. \A x \in 1..Len(s) : s[x] # k
    BY <1>1 DEF Range
  <2>2. \A x, y \in 1..Len(s) : s[x] = s[y] => x = y
    BY <1>1 DEF IsInjective
  <2> QED BY <1>1, <2>1, <2>2
<1> QED
  BY <1>1, <1>2, <1>3 DEF w

\* find() keeps a cache a cache.
LEMMA FindCaches ==
  ASSUME NEW K, NEW V, NEW c \in Caches(K, V), NEW k \in K
  PROVE  Find(c, k) \in Caches(K, V)
<1>1. CASE Holds(c, k)
  <2>1. k \in Range(c.order) /\ c.order \in Seq(K) /\ IsInjective(c.order)
    BY <1>1, CacheHas DEF Holds
  <2> DEFINE w == Without(c.order, k)
  <2>2. w \in Seq(K) /\ IsInjective(w) /\ Range(w) = Range(c.order) \ {k}
    BY <2>1, WithoutKeeps
  <2> HIDE DEF w
  <2>3. /\ Append(w, k) \in Seq(K) /\ IsInjective(Append(w, k))
        /\ Range(Append(w, k)) = Range(w) \cup {k}
    BY <2>2, AppendKeeps
  <2>4. Range(Append(w, k)) = DOMAIN c.val
    BY <2>1, <2>2, <2>3, CacheHas
  <2>5. CacheOf(Append(w, k), c.val, c.inserted) \in Caches(K, V)
    BY <2>3, <2>4, CacheHas, CacheParts
  <2> QED BY <1>1, <2>5 DEF Find, w
<1> QED
  BY <1>1 DEF Find

\* Counting an insertion, and clearing, keeps a cache a cache.
LEMMA CountedCaches ==
  ASSUME NEW K, NEW V, NEW s \in Seq(K), IsInjective(s), NEW S \in SUBSET K,
         NEW f \in [S -> V], Range(s) = S, NEW i \in 0..MaxObjectSize + 1
  PROVE  Counted(s, f, i) \in Caches(K, V)
<1>0. MaxObjectSize \in Nat /\ NumberClearAtOnce \in Nat \ {0}
  BY CacheAssumption
<1>1. CASE i < MaxObjectSize
  <2>1. i + 1 \in 0..MaxObjectSize + 1
    BY <1>0, <1>1
  <2>2. CacheOf(s, f, i + 1) \in Caches(K, V)
    BY <2>1, CacheParts
  <2> QED BY <1>1, <2>2 DEF Counted
<1>2. CASE ~ (i < MaxObjectSize)
  <2> PICK n \in Nat : n = NumberClearAtOnce /\ n > 0
    BY <1>0
  <2> DEFINE w == SubSeq(s, n + 1, Len(s))
             T == S \ Dropped(s)
             g == Restrict(f, T)
  <2>1. DOMAIN s = 1..Len(s) /\ Len(s) \in Nat /\ \A j \in 1..Len(s) : s[j] \in K
    BY LenProperties
  <2>2. /\ w \in Seq(K) /\ DOMAIN w = 1..Len(w) /\ Len(w) \in Nat
        /\ (n + 1 <= Len(s) => Len(w) = Len(s) - n) /\ 1..Len(w) \subseteq 1..Len(s) - n
        /\ \A j \in 1..Len(w) : w[j] = s[n + j]
    <3>1. \A j \in n + 1..Len(s) : s[j] \in K
      BY <1>0, <2>1
    <3>2. /\ w \in Seq(K) /\ Len(w) = IF n + 1 <= Len(s) THEN Len(s) - (n + 1) + 1 ELSE 0
          /\ \A j \in 1..Len(s) - (n + 1) + 1 : w[j] = s[n + 1 + j - 1]
      BY <1>0, <2>1, <3>1, SubSeqProperties
    <3>3. DOMAIN w = 1..Len(w) /\ Len(w) \in Nat
      BY <3>2, LenProperties
    <3>4. Len(s) - (n + 1) + 1 = Len(s) - n /\ \A j \in Int : n + 1 + j - 1 = n + j
      BY <2>1
    <3>5. \A j \in 1..Len(s) - n : w[j] = s[n + j]
      BY <3>2, <3>4
    <3>6. n + 1 <= Len(s) => Len(w) = Len(s) - n
      BY <3>2, <3>4
    <3>7. ~ (n + 1 <= Len(s)) => Len(w) = 0
      BY <3>2
    <3> HIDE DEF w
    <3>8. 1..Len(w) \subseteq 1..Len(s) - n
      <4>1. CASE n + 1 <= Len(s)
        BY <3>6, <4>1
      <4>2. CASE ~ (n + 1 <= Len(s))
        <5>1. 1..Len(w) = {}
          BY <3>7, <4>2
        <5> QED BY <5>1
      <4> QED BY <4>1, <4>2
    <3> QED BY <3>2, <3>3, <3>5, <3>6, <3>8
  <2> HIDE DEF w
  <2>3. \A x, y \in 1..Len(s) : s[x] = s[y] => x = y
    BY <2>1 DEF IsInjective
  <2>i. ASSUME NEW j \in 1..Len(w) PROVE n + j \in 1..Len(s)
    <3>1. j \in 1..Len(s) - n
      BY <2>2
    <3> QED BY <2>1, <3>1
  <2>4. IsInjective(w)
    <3> SUFFICES ASSUME NEW x \in 1..Len(w), NEW y \in 1..Len(w), w[x] = w[y] PROVE x = y
      BY <2>2 DEF IsInjective
    <3>1. s[n + x] = s[n + y]
      BY <2>2
    <3>2. n + x = n + y
      BY <2>3, <2>i, <3>1
    <3> QED BY <3>2
  <2>5. Dropped(s) = {s[j] : j \in {x \in 1..Len(s) : x <= n}}
    BY <2>1 DEF Dropped
  <2>6. ASSUME NEW x \in Range(w) PROVE x \in T
    <3>1. PICK j \in 1..Len(w) : x = s[n + j]
      BY <2>2 DEF Range
    <3>2. n + j \in 1..Len(s)
      BY <2>i
    <3>3. x \notin Dropped(s)
      BY <2>1, <2>3, <2>5, <3>1, <3>2
    <3>4. x \in S
      BY <2>1, <3>1, <3>2 DEF Range
    <3> QED BY <3>3, <3>4
  <2>7. ASSUME NEW x \in T PROVE x \in Range(w)
    <3>1. PICK j \in 1..Len(s) : x = s[j]
      BY <2>1 DEF Range
    <3>2. ~ (j <= n)
      BY <2>5, <3>1
    <3>3. j - n \in 1..Len(w) /\ n + (j - n) = j
      <4>0. n + 1 <= Len(s)
        BY <2>1, <3>2
      <4>1. Len(w) = Len(s) - n
        BY <2>2, <4>0
      <4> QED BY <2>1, <3>2, <4>1
    <3> QED BY <2>2, <3>1, <3>3 DEF Range
  <2>8. Range(w) = T
    BY <2>6, <2>7
  <2>9. T \in SUBSET K /\ g \in [T -> V]
    BY DEF Restrict
  <2>10. MaxObjectSize + 1 \in 0..MaxObjectSize + 1
    BY <1>0
  <2> HIDE DEF T, g
  <2>11. CacheOf(w, g, MaxObjectSize + 1) \in Caches(K, V)
    BY <2>2, <2>4, <2>8, <2>9, <2>10, CacheParts
  <2>12. DOMAIN f = S
    OBVIOUS
  <2>13. Counted(s, f, i) = CacheOf(w, g, MaxObjectSize + 1)
    BY <1>2, <2>12 DEF Counted, w, g, T
  <2> QED BY <2>11, <2>13
<1> QED
  BY <1>1, <1>2

\* cache[k] = v keeps a cache a cache.
LEMMA AssignCaches ==
  ASSUME NEW K, NEW V, NEW c \in Caches(K, V), NEW k \in K, NEW v \in V
  PROVE  Assign(c, k, v) \in Caches(K, V)
<1>0. /\ c.order \in Seq(K) /\ IsInjective(c.order) /\ Range(c.order) = DOMAIN c.val
      /\ DOMAIN c.val \in SUBSET K /\ c.val \in [DOMAIN c.val -> V]
      /\ c.inserted \in 0..MaxObjectSize + 1
  BY CacheHas
<1>1. CASE Holds(c, k)
  <2>1. [c.val EXCEPT ![k] = v] \in [DOMAIN c.val -> V]
    BY <1>0
  <2>2. CacheOf(c.order, [c.val EXCEPT ![k] = v], c.inserted) \in Caches(K, V)
    BY <1>0, <2>1, CacheParts
  <2> QED BY <1>1, <2>2 DEF Assign
<1>2. CASE ~ Holds(c, k)
  <2> DEFINE S == DOMAIN c.val \cup {k}
             f == [x \in S |-> IF x = k THEN v ELSE c.val[x]]
             s == Append(c.order, k)
  <2>1. s \in Seq(K) /\ IsInjective(s) /\ Range(s) = S
    BY <1>0, <1>2, AppendKeeps DEF Holds
  <2>2. S \in SUBSET K /\ f \in [S -> V]
    BY <1>0
  <2>3. Assign(c, k, v) = Counted(s, f, c.inserted)
    BY <1>2 DEF Assign, Insert
  <2> HIDE DEF S, f, s
  <2> QED BY <1>0, <2>1, <2>2, <2>3, CountedCaches
<1> QED
  BY <1>1, <1>2

\* A set that is read and written again.
LEMMA RewrittenCaches ==
  ASSUME NEW K, NEW V, NEW c \in Caches(K, V), NEW k \in K, NEW v \in V
  PROVE  Rewritten(c, k, v) \in Caches(K, V)
BY FindCaches, AssignCaches DEF Rewritten

\* The cache of a store just opened.
LEMMA EmptyCaches == ASSUME NEW K, NEW V PROVE EmptyCache \in Caches(K, V)
<1>1. <<>> \in Seq(K) /\ DOMAIN <<>> = {} /\ <<>> \in [{} -> V]
  OBVIOUS
<1>2. IsInjective(<<>>) /\ Range(<<>>) = {}
  BY <1>1 DEF IsInjective, Range
<1>3. 0 \in 0..MaxObjectSize + 1
  BY CacheAssumption
<1> QED
  BY <1>1, <1>2, <1>3, CacheParts DEF EmptyCache

(***************************************************************************)
(* A cache with room for every key                                         *)
(***************************************************************************)
\* While every insertion was of a new key, a cache that could hold all keys
\* never clears: what it is told stays.
LEMMA RoomyRewritten ==
  ASSUME NEW K, IsFiniteSet(K), Cardinality(K) <= MaxObjectSize,
         NEW c, DOMAIN c.val \subseteq K, c.inserted = Cardinality(DOMAIN c.val),
         NEW k \in K, NEW v
  PROVE  LET d == Rewritten(c, k, v)
         IN  DOMAIN d.val = DOMAIN c.val \cup {k} /\ d.inserted = Cardinality(DOMAIN d.val)
<1> DEFINE b == Find(c, k)
           d == Rewritten(c, k, v)
           S == DOMAIN c.val
<1>0. b.val = c.val /\ b.inserted = c.inserted /\ d = Assign(b, k, v)
  BY DEF Find, CacheOf, Rewritten
<1> HIDE DEF b
<1>1. CASE k \in S
  <2>1. d = CacheOf(b.order, [b.val EXCEPT ![k] = v], b.inserted)
    BY <1>0, <1>1 DEF Assign, Holds
  <2>2. DOMAIN d.val = S /\ d.inserted = b.inserted
    BY <1>0, <2>1 DEF CacheOf
  <2>3. S \cup {k} = S
    BY <1>1
  <2> QED BY <1>0, <2>2, <2>3
<1>2. CASE k \notin S
  <2>1. IsFiniteSet(S) /\ Cardinality(S) \in Nat /\ Cardinality(K) \in Nat
    BY FS_Subset, FS_CardinalityType
  <2>2. IsFiniteSet(S \cup {k}) /\ Cardinality(S \cup {k}) = Cardinality(S) + 1
    BY <1>2, <2>1, FS_AddElement
  <2>3. Cardinality(S \cup {k}) <= Cardinality(K)
    BY FS_Subset
  <2>4. Cardinality(S) < MaxObjectSize
    BY <2>1, <2>2, <2>3, CacheAssumption
  <2>5. d = CacheOf(Append(b.order, k), [x \in S \cup {k} |-> IF x = k THEN v ELSE b.val[x]],
                    b.inserted + 1)
    BY <1>0, <1>2, <2>4 DEF Assign, Insert, Counted, Holds
  <2>6. DOMAIN d.val = S \cup {k} /\ d.inserted = Cardinality(S) + 1
    BY <1>0, <2>5 DEF CacheOf
  <2> QED BY <2>2, <2>6
<1> QED
  BY <1>1, <1>2

(***************************************************************************)
(* Records and sets by id                                                  *)
(***************************************************************************)
Partial(K, V) == UNION {[S -> V] : S \in SUBSET K}

\* What is known of a partial function.
LEMMA PartialHas ==
  ASSUME NEW K, NEW V, NEW f \in Partial(K, V)
  PROVE  DOMAIN f \subseteq K /\ f \in [DOMAIN f -> V]
BY DEF Partial

\* How to show that something is one.
LEMMA PartialIs ==
  ASSUME NEW K, NEW V, NEW S \in SUBSET K, NEW f \in [S -> V]
  PROVE  f \in Partial(K, V)
BY DEF Partial

\* No records.
LEMMA EmptyPartial == ASSUME NEW K, NEW V PROVE <<>> \in Partial(K, V)
<1>1. <<>> \in [{} -> V]
  OBVIOUS
<1> QED
  BY <1>1, PartialIs

\* One record more.
LEMMA PutPartial ==
  ASSUME NEW K, NEW V, NEW f \in Partial(K, V), NEW k \in K, NEW v \in V
  PROVE  Put(f, k, v) \in Partial(K, V)
<1>1. DOMAIN f \cup {k} \in SUBSET K /\ Put(f, k, v) \in [DOMAIN f \cup {k} -> V]
  BY PartialHas DEF Put
<1> QED
  BY <1>1, PartialIs

\* A batch applied.
LEMMA OverPartial ==
  ASSUME NEW K, NEW V, NEW f \in Partial(K, V), NEW g \in Partial(K, V)
  PROVE  Over(g, f) \in Partial(K, V)
<1>1. /\ DOMAIN f \cup DOMAIN g \in SUBSET K
      /\ Over(g, f) \in [DOMAIN f \cup DOMAIN g -> V]
  BY PartialHas DEF Over
<1> QED
  BY <1>1, PartialIs

(***************************************************************************)
(* The records of a bundle                                                 *)
(***************************************************************************)
\* Among the positions of a sequence that hold an id there is a last one.
LEMMA LastPosition ==
  ASSUME NEW eb \in Seq(Edge), NEW T \in SUBSET DOMAIN eb, T # {}
  PROVE  \E i \in T : \A j \in T : j <= i
<1> DEFINE Less == {ss \in Nat \X Nat : ss[1] < ss[2]}
           behind == {Len(eb) - i : i \in T}
<1>1. IsWellFoundedOn(Less, Nat)
  BY NatLessThanWellFounded, Zenon DEF OpToRel
<1>2. T \subseteq 1..Len(eb) /\ Len(eb) \in Nat
  OBVIOUS
<1>3. behind \subseteq Nat /\ behind # {}
  BY <1>2
<1> HIDE DEF Less, behind
<1>4. PICK b \in behind : \A d \in behind : ~ (<<d, b>> \in Less)
  BY <1>1, <1>3, WFMin, Zenon
<1>5. PICK i \in T : b = Len(eb) - i
  BY <1>4 DEF behind
<1>6. ASSUME NEW j \in T PROVE j <= i
  <2>1. Len(eb) - j \in behind
    BY DEF behind
  <2>2. ~ (Len(eb) - j < Len(eb) - i)
    BY <1>3, <1>4, <1>5, <2>1 DEF Less
  <2> QED
    BY <1>2, <2>2
<1> QED
  BY <1>6

\* Every edge of a bundle has a record, and a record has the ends of an edge.
LEMMA RecordsOfBundle ==
  ASSUME NEW eb \in Seq(Edge)
  PROVE  /\ \A i \in DOMAIN eb : eb[i].id \in DOMAIN RecordsOf(eb)
         /\ \A id \in DOMAIN RecordsOf(eb) : RecordsOf(eb)[id] \in Ends
<1>1. \A i \in DOMAIN eb : eb[i].id \in DOMAIN RecordsOf(eb)
  BY DEF RecordsOf
<1>2. ASSUME NEW id \in DOMAIN RecordsOf(eb) PROVE RecordsOf(eb)[id] \in Ends
  <2> DEFINE T == {i \in DOMAIN eb : eb[i].id = id}
             IsLast(i) == eb[i].id = id /\ \A j \in DOMAIN eb : eb[j].id = id => j <= i
             last == CHOOSE i \in DOMAIN eb : IsLast(i)
  <2>1. T # {}
    BY DEF RecordsOf
  <2>2. \E i \in T : \A j \in T : j <= i
    BY <2>1, LastPosition
  <2>3. \E i \in DOMAIN eb : IsLast(i)
    BY <2>2
  <2>4. last \in DOMAIN eb
    BY <2>3
  <2>5. eb[last] \in Edge
    BY <2>4
  <2>6. RecordsOf(eb)[id] = EndsOf(eb[last])
    BY DEF RecordsOf
  <2> HIDE DEF last
  <2> QED
    BY <2>5, <2>6 DEF Edge, Ends, EndsOf
<1> QED
  BY <1>1, <1>2

\* The records of a bundle are records.
LEMMA RecordsOfTyped ==
  ASSUME NEW eb \in Seq(Edge)
  PROVE  RecordsOf(eb) \in Partial(EdgeId, Ends)
<1> DEFINE S == {eb[i].id : i \in DOMAIN eb}
<1>1. \A i \in DOMAIN eb : eb[i] \in Edge
  OBVIOUS
<1>2. S \in SUBSET EdgeId
  BY <1>1 DEF Edge
<1>3. DOMAIN RecordsOf(eb) = S /\ RecordsOf(eb) = [x \in S |-> RecordsOf(eb)[x]]
  BY DEF RecordsOf
<1>4. \A x \in S : RecordsOf(eb)[x] \in Ends
  BY <1>3, RecordsOfBundle
<1> HIDE DEF S
<1>5. RecordsOf(eb) \in [S -> Ends]
  BY <1>3, <1>4
<1> QED
  BY <1>2, <1>5, PartialIs

\* A bundle whose edges of one id are equal leaves each edge's own record.
LEMMA RecordsOfCareful ==
  ASSUME NEW eb \in Seq(Edge), \A i, j \in DOMAIN eb : eb[i].id = eb[j].id => eb[i] = eb[j]
  PROVE  \A i \in DOMAIN eb : /\ eb[i].id \in DOMAIN RecordsOf(eb)
                              /\ RecordsOf(eb)[eb[i].id] = EndsOf(eb[i])
<1> SUFFICES ASSUME NEW i \in DOMAIN eb
             PROVE  eb[i].id \in DOMAIN RecordsOf(eb) /\ RecordsOf(eb)[eb[i].id] = EndsOf(eb[i])
  OBVIOUS
<1> DEFINE id == eb[i].id
           T == {k \in DOMAIN eb : eb[k].id = id}
           IsLast(k) == eb[k].id = id /\ \A j \in DOMAIN eb : eb[j].id = id => j <= k
           last == CHOOSE k \in DOMAIN eb : IsLast(k)
<1>1. \E k \in T : \A j \in T : j <= k
  BY LastPosition
<1>2. \E k \in DOMAIN eb : IsLast(k)
  BY <1>1
<1>3. last \in DOMAIN eb /\ eb[last].id = id
  BY <1>2
<1>4. id \in DOMAIN RecordsOf(eb) /\ RecordsOf(eb)[id] = EndsOf(eb[last])
  BY DEF RecordsOf
<1> HIDE DEF last
<1> QED
  BY <1>3, <1>4
=============================================================================
