------------------------ MODULE UndirectedStoreProofs ------------------------
(***************************************************************************)
(* Proofs about modules UndirectedStore and UndirectedClient, for any sets *)
(* of nodes and edge ids and, but for the last part, any cache limits and  *)
(* crash points, and any client that does not call destroy() with entries  *)
(* in the cache; the types need nothing at all.  The argument is that of   *)
(* module DirectedStoreProofs; what is new is that a step may rewrite two  *)
(* sets in one cache, or one set twice, and that removeNode() may follow a *)
(* record to either end.                                                   *)
(***************************************************************************)
EXTENDS UndirectedClient, StoreLemmas

(***************************************************************************)
(* Types                                                                   *)
(***************************************************************************)
\* The types a step relies on, with the shared constructions named.
LEMMA TypeParts ==
  ASSUME TypeOK
  PROVE  /\ edges \in Partial(EdgeId, Ends)
         /\ batch.edge \in Partial(EdgeId, Ends) /\ batch.out \in Partial(Node, Sets)
         /\ batch = Batch(batch.edge, batch.out)
         /\ \A id \in DOMAIN edges : edges[id].from \in Node /\ edges[id].to \in Node
         /\ \A n \in Node : outDb[n] \in Sets
<1>1. edges \in Partial(EdgeId, Ends) /\ \A n \in Node : outDb[n] \in Sets
  BY DEF TypeOK, Records, Partial
<1>2. /\ batch.edge \in Partial(EdgeId, Ends) /\ batch.out \in Partial(Node, Sets)
      /\ batch = Batch(batch.edge, batch.out)
  BY DEF TypeOK, Records, Partial, Batch
<1>3. \A id \in DOMAIN edges : edges[id] \in Ends
  BY <1>1, PartialHas
<1> QED
  BY <1>1, <1>2, <1>3 DEF Ends

\* What a get returns from any cache is a set of ids.
LEMMA GotTyped ==
  ASSUME TypeOK, NEW c \in Caches(Node, Sets), NEW n \in Node
  PROVE  EdgesIn(c, n) \in Sets
<1>1. outDb[n] \in Sets
  BY TypeParts
<1>2. c.val \in [DOMAIN c.val -> Sets]
  BY CacheHas
<1> QED
  BY <1>1, <1>2 DEF EdgesIn, Holds

\* The batch of new parts.
LEMMA BatchTyped ==
  ASSUME NEW e \in Partial(EdgeId, Ends), NEW o \in Partial(Node, Sets)
  PROVE  Batch(e, o) \in [edge : Records, out : UNION {[S -> Sets] : S \in SUBSET Node}]
BY DEF Records, Partial, Batch

\* Writing the batch keeps the types of what is stored.
LEMMA WriteTyped ==
  ASSUME TypeOK, Write
  PROVE  /\ edges' \in Records /\ outDb' \in [Node -> Sets]
         /\ batch' \in [edge : Records, out : UNION {[S -> Sets] : S \in SUBSET Node}]
<1>1. edges' \in Records
  <2>1. Over(batch.edge, edges) \in Partial(EdgeId, Ends)
    BY TypeParts, OverPartial
  <2> QED BY <2>1 DEF Write, Records, Partial
<1>2. outDb' \in [Node -> Sets]
  <2>1. DOMAIN batch.out \subseteq Node /\ batch.out \in [DOMAIN batch.out -> Sets]
    BY TypeParts, PartialHas
  <2> QED BY <2>1 DEF Write, Over, TypeOK
<1>3. batch' \in [edge : Records, out : UNION {[S -> Sets] : S \in SUBSET Node}]
  BY EmptyPartial, BatchTyped DEF Write, NoBatch
<1> QED
  BY <1>1, <1>2, <1>3

\* The node whose edges the loop removes is one: what TypeOK needs to be
\* inductive.
Removing == pc = "unlink" => node \in Node

\* Every step keeps the types.
LEMMA TypeStep == TypeOK /\ Removing /\ [Next]_vars => TypeOK' /\ Removing'
<1> SUFFICES ASSUME TypeOK, Removing, [Next]_vars PROVE TypeOK' /\ Removing'
  OBVIOUS
<1>0. Removing'
  BY DEF Removing, Next, Steps, SetNode, SetNodesBundle, RemoveNode, ReadOut, SetEdge,
         SetEdgesBundle, RemoveEdge, RemoveUnknownEdge, LinkNext, LinkDone, Unlink, UnlinkDone,
         Restart, Destroy, vars, local, Idle
<1>c. cache \in Caches(Node, Sets)
  BY DEF TypeOK
<1>1. ASSUME NEW ns \in SUBSET Node, SetNodesBundle(ns) PROVE TypeOK'
  BY <1>1 DEF SetNodesBundle, TypeOK, local
<1>2. ASSUME NEW n \in Node, RemoveNode(n) PROVE TypeOK'
  <2>1. unlinks' \subseteq EdgeId
    BY <1>2, <1>c, GotTyped DEF RemoveNode, OutEdges, Sets
  <2> QED BY <1>2, <1>c, <2>1, FindCaches DEF RemoveNode, TypeOK
<1>3. ASSUME NEW n \in Node, ReadOut(n) PROVE TypeOK'
  BY <1>3, <1>c, FindCaches DEF ReadOut, db, local, TypeOK
<1>4. ASSUME NEW eb \in Seq(Edge), SetEdgesBundle(eb) PROVE TypeOK'
  <2>1. batch' \in [edge : Records, out : UNION {[S -> Sets] : S \in SUBSET Node}]
    BY <1>4, RecordsOfTyped, EmptyPartial, BatchTyped DEF SetEdgesBundle
  <2> QED BY <1>4, <2>1 DEF SetEdgesBundle, TypeOK, db
<1>5. ASSUME NEW id \in EdgeId, RemoveEdge(id) PROVE TypeOK'
  <2> DEFINE from == edges[id].from
             to == edges[id].to
             fromSet == OutEdges(from) \ {id}
             once == Rewritten(cache, from, fromSet)
             toSet == EdgesIn(once, to) \ {id}
  <2>1. from \in Node /\ to \in Node
    BY <1>5, TypeParts DEF RemoveEdge
  <2>2. /\ cache' = Rewritten(once, to, toSet)
        /\ outDb' = [outDb EXCEPT ![from] = fromSet, ![to] = toSet]
        /\ UNCHANGED <<nodes, edges, batch, pc, links, node, unlinks>>
    BY <1>5 DEF RemoveEdge, local
  <2> HIDE DEF from, to
  <2>3. fromSet \in Sets
    BY <1>c, <2>1, GotTyped DEF OutEdges, Sets
  <2> HIDE DEF fromSet
  <2>4. once \in Caches(Node, Sets)
    BY <1>c, <2>1, <2>3, RewrittenCaches
  <2> HIDE DEF once
  <2>5. toSet \in Sets
    BY <2>1, <2>4, GotTyped DEF Sets
  <2> HIDE DEF toSet
  <2>6. cache' \in Caches(Node, Sets)
    BY <2>1, <2>2, <2>4, <2>5, RewrittenCaches
  <2>7. outDb' \in [Node -> Sets]
    BY <2>2, <2>3, <2>5 DEF TypeOK
  <2> QED BY <2>2, <2>6, <2>7 DEF TypeOK
<1>6. ASSUME LinkNext PROVE TypeOK'
  <2> DEFINE e == Head(links)
             fromSet == OutEdges(e.from) \cup {e.id}
             once == Rewritten(cache, e.from, fromSet)
             toSet == EdgesIn(once, e.to) \cup {e.id}
  <2>1. e \in Edge /\ links' \in Seq(Edge)
    BY <1>6 DEF LinkNext, TypeOK
  <2>2. e.from \in Node /\ e.to \in Node /\ e.id \in EdgeId
    BY <2>1 DEF Edge
  <2> HIDE DEF e
  <2>3. /\ cache' = Rewritten(once, e.to, toSet)
        /\ batch' = Batch(batch.edge, Put(Put(batch.out, e.from, fromSet), e.to, toSet))
        /\ UNCHANGED <<nodes, edges, outDb, pc, node, unlinks>>
    BY <1>6 DEF LinkNext, Link, db, e
  <2>4. fromSet \in Sets
    BY <1>c, <2>2, GotTyped DEF OutEdges, Sets
  <2> HIDE DEF fromSet
  <2>5. once \in Caches(Node, Sets)
    BY <1>c, <2>2, <2>4, RewrittenCaches
  <2> HIDE DEF once
  <2>6. toSet \in Sets
    BY <2>2, <2>5, GotTyped DEF Sets
  <2> HIDE DEF toSet
  <2>7. cache' \in Caches(Node, Sets)
    BY <2>2, <2>3, <2>5, <2>6, RewrittenCaches
  <2>8. batch' \in [edge : Records, out : UNION {[S -> Sets] : S \in SUBSET Node}]
    <3>1. Put(batch.out, e.from, fromSet) \in Partial(Node, Sets)
      BY <2>2, <2>4, TypeParts, PutPartial
    <3>2. Put(Put(batch.out, e.from, fromSet), e.to, toSet) \in Partial(Node, Sets)
      BY <2>2, <2>6, <3>1, PutPartial
    <3> QED BY <2>3, <3>2, TypeParts, BatchTyped
  <2> QED BY <2>1, <2>3, <2>7, <2>8 DEF TypeOK
<1>7. ASSUME LinkDone PROVE TypeOK'
  <2>1. UNCHANGED <<nodes, cache, links, node, unlinks>> /\ pc' = "idle" /\ Write
    BY <1>7 DEF LinkDone
  <2> QED BY <2>1, WriteTyped DEF TypeOK
<1>8. ASSUME NEW id \in EdgeId, Unlink(id) PROVE TypeOK'
  <2>1. UNCHANGED <<nodes, edges, outDb, pc, links, node>> /\ unlinks' = unlinks \ {id}
    BY <1>8 DEF Unlink, db
  <2>2. CASE id \in DOMAIN edges
    <3> DEFINE end == OtherEnd(id)
               rest == OutEdges(end) \ {id}
    <3>1. end \in Node
      BY <2>2, TypeParts DEF OtherEnd
    <3>2. cache' = Rewritten(cache, end, rest) /\ batch' = Batch(batch.edge, Put(batch.out, end, rest))
      BY <1>8, <2>2 DEF Unlink, DropFrom
    <3> HIDE DEF end
    <3>3. rest \in Sets
      BY <1>c, <3>1, GotTyped DEF OutEdges, Sets
    <3> HIDE DEF rest
    <3>4. batch' \in [edge : Records, out : UNION {[S -> Sets] : S \in SUBSET Node}]
      BY <3>1, <3>2, <3>3, TypeParts, PutPartial, BatchTyped
    <3>5. cache' \in Caches(Node, Sets)
      BY <1>c, <3>1, <3>2, <3>3, RewrittenCaches
    <3> QED BY <2>1, <3>4, <3>5 DEF TypeOK
  <2>3. CASE id \notin DOMAIN edges
    BY <1>8, <2>1, <2>3 DEF Unlink, TypeOK
  <2> QED BY <2>2, <2>3
<1>9. ASSUME UnlinkDone PROVE TypeOK'
  <2>1. /\ UNCHANGED <<nodes, cache, links, unlinks>> /\ pc' = "idle" /\ node' = NoNode
        /\ Write
    BY <1>9 DEF UnlinkDone
  <2> QED BY <2>1, WriteTyped DEF TypeOK
<1>10. ASSUME Restart PROVE TypeOK'
  <2>1. <<>> \in Seq(Edge) /\ NoBatch \in [edge : Records, out : UNION {[S -> Sets] : S \in SUBSET Node}]
    BY EmptyPartial, BatchTyped DEF NoBatch
  <2> QED BY <1>10, <2>1, EmptyCaches DEF Restart, TypeOK, db
<1>11. ASSUME Destroy PROVE TypeOK'
  <2>1. edges' \in Records /\ outDb' \in [Node -> Sets]
    BY <1>11, EmptyPartial DEF Destroy, Records, Partial, NoSets, Sets
  <2> QED BY <1>11, <2>1 DEF Destroy, TypeOK, local
<1>12. ASSUME UNCHANGED vars PROVE TypeOK'
  BY <1>12 DEF vars, db, local, TypeOK
<1>13. ASSUME NEW e \in Edge, SetEdge(e) PROVE TypeOK'
  <2>1. <<e>> \in Seq(Edge)
    OBVIOUS
  <2> QED BY <1>4, <1>13, <2>1 DEF SetEdge
<1>14. \A eb \in Bundles : eb \in Seq(Edge)
  BY StoreAssumption
<1>15. \A n \in Node : SetNode(n) => TypeOK'
  BY <1>1 DEF SetNode
<1>16. \A id \in EdgeId : RemoveUnknownEdge(id) => UNCHANGED vars
  BY DEF RemoveUnknownEdge
<1> QED
  BY <1>0, <1>1, <1>2, <1>3, <1>4, <1>5, <1>6, <1>7, <1>8, <1>9, <1>10, <1>11, <1>12, <1>13, <1>14,
     <1>15, <1>16 DEF Next, Steps

\* An empty store is typed.
LEMMA TypeInit == Init => TypeOK /\ Removing
<1> SUFFICES ASSUME Init PROVE TypeOK /\ Removing
  OBVIOUS
<1>1. <<>> \in Seq(Edge) /\ <<>> \in Records
  BY EmptyPartial DEF Records, Partial
<1>2. NoSets \in [Node -> Sets]
  BY DEF NoSets, Sets
<1>3. NoBatch \in [edge : Records, out : UNION {[S -> Sets] : S \in SUBSET Node}]
  BY EmptyPartial, BatchTyped DEF NoBatch
<1>4. TypeOK
  BY <1>1, <1>2, <1>3, EmptyCaches DEF Init, TypeOK
<1>5. Removing
  BY DEF Init, Removing
<1> QED
  BY <1>4, <1>5

\* The types hold in every reachable state, also of a store destroyed with
\* entries in its cache.
THEOREM TypeCorrect == Spec => []TypeOK
BY TypeInit, TypeStep, PTL DEF Spec

(***************************************************************************)
(* Steps                                                                   *)
(***************************************************************************)
\* What a get returns, now or after entries were changed to sets that have
\* records, has records.
LEMMA GotIdsHaveRecords ==
  ASSUME StoreInv, NEW n \in Node
  PROVE  OutEdges(n) \subseteq DOMAIN edges \cup DOMAIN batch.edge
<1>1. OutEdges(n) \in {Pending(n), outDb[n]}
  BY DEF OutEdges, EdgesIn, Holds, StoreInv, CacheCoherent
<1>2. Pending(n) \subseteq DOMAIN edges \cup DOMAIN batch.edge
  BY DEF Pending, StoreInv, PutResolve, StoredResolve
<1>3. outDb[n] \subseteq DOMAIN edges
  BY DEF StoreInv, StoredResolve
<1> QED
  BY <1>1, <1>2, <1>3

\* The two ends of an edge rewritten one after the other: a cached set is
\* the last one given to its node.
LEMMA RewrittenTwice ==
  ASSUME NEW c, NEW a, NEW b, NEW s, NEW t
  PROVE  LET d == Rewritten(Rewritten(c, a, s), b, t)
         IN  /\ DOMAIN d.val \subseteq DOMAIN c.val \cup {a, b}
             /\ \A x \in DOMAIN d.val :
                  d.val[x] = IF x = b THEN t ELSE IF x = a THEN s ELSE c.val[x]
<1> DEFINE once == Rewritten(c, a, s)
           d == Rewritten(once, b, t)
<1>1. /\ DOMAIN once.val \subseteq DOMAIN c.val \cup {a}
      /\ \A x \in DOMAIN once.val : once.val[x] = IF x = a THEN s ELSE c.val[x]
  BY RewrittenKeeps
<1> HIDE DEF once
<1>2. /\ DOMAIN d.val \subseteq DOMAIN once.val \cup {b}
      /\ \A x \in DOMAIN d.val : d.val[x] = IF x = b THEN t ELSE once.val[x]
  BY RewrittenKeeps
<1> HIDE DEF d
<1>3. /\ DOMAIN d.val \subseteq DOMAIN c.val \cup {a, b}
      /\ \A x \in DOMAIN d.val :
           d.val[x] = IF x = b THEN t ELSE IF x = a THEN s ELSE c.val[x]
  BY <1>1, <1>2
<1> QED
  BY <1>3 DEF once, d

\* The second get of a call sees the set of the first, or one with records.
LEMMA SecondGetHasRecords ==
  ASSUME StoreInv, NEW n \in Node, NEW a, NEW s, s \subseteq DOMAIN edges \cup DOMAIN batch.edge
  PROVE  EdgesIn(Rewritten(cache, a, s), n) \subseteq DOMAIN edges \cup DOMAIN batch.edge
<1> DEFINE once == Rewritten(cache, a, s)
<1>1. /\ DOMAIN once.val \subseteq DOMAIN cache.val \cup {a}
      /\ \A x \in DOMAIN once.val : once.val[x] = IF x = a THEN s ELSE cache.val[x]
  BY RewrittenKeeps
<1> HIDE DEF once
<1>2. EdgesIn(once, n) \in {s, cache.val[n], outDb[n]}
      /\ (EdgesIn(once, n) # s => EdgesIn(once, n) = outDb[n] \/ n \in DOMAIN cache.val)
  BY <1>1 DEF EdgesIn, Holds
<1>3. n \in DOMAIN cache.val => cache.val[n] \subseteq DOMAIN edges \cup DOMAIN batch.edge
  BY GotIdsHaveRecords DEF OutEdges, EdgesIn, Holds
<1>4. outDb[n] \subseteq DOMAIN edges
  BY DEF StoreInv, StoredResolve
<1>5. EdgesIn(once, n) \subseteq DOMAIN edges \cup DOMAIN batch.edge
  BY <1>2, <1>3, <1>4
<1> QED
  BY <1>5 DEF once

\* A bundle opens a batch with its records.
LEMMA SetEdgesStep ==
  ASSUME StoreInv, NEW eb \in Seq(Edge), SetEdgesBundle(eb)
  PROVE  StoreInv'
<1>1. /\ batch = NoBatch /\ batch'.out = <<>> /\ batch'.edge = RecordsOf(eb)
      /\ links' = eb /\ pc' = "link"
      /\ UNCHANGED <<edges, outDb, cache>>
  BY DEF SetEdgesBundle, Batch, StoreInv, WellFormed, db
<1>2. WellFormed'
  BY <1>1, RecordsOfBundle DEF StoreInv, WellFormed, Idle
<1>3. CacheCoherent'
  BY <1>1 DEF StoreInv, CacheCoherent, Pending, NoBatch, Batch
<1>4. StoredResolve' /\ PutResolve'
  BY <1>1 DEF StoreInv, StoredResolve, PutResolve
<1>5. LinksHaveRecords'
  BY <1>1, RecordsOfBundle DEF LinksHaveRecords
<1> QED
  BY <1>2, <1>3, <1>4, <1>5 DEF StoreInv

\* Indexing an edge tells the cache and the batch the same two sets, in the
\* same order.
LEMMA LinkStep ==
  ASSUME StoreInv, LinkNext
  PROVE  StoreInv'
<1> DEFINE e == Head(links)
           fromSet == OutEdges(e.from) \cup {e.id}
           once == Rewritten(cache, e.from, fromSet)
           toSet == EdgesIn(once, e.to) \cup {e.id}
<1>1. /\ e \in Edge /\ links' = Tail(links) /\ links' \in Seq(Edge)
      /\ e.id \in DOMAIN batch.edge
      /\ \A i \in DOMAIN links' : links'[i].id \in DOMAIN batch.edge
  BY DEF StoreInv, WellFormed, LinksHaveRecords, LinkNext
<1>2. e.from \in Node /\ e.to \in Node
  BY <1>1 DEF Edge
<1> HIDE DEF e
<1>3. /\ cache' = Rewritten(Rewritten(cache, e.from, fromSet), e.to, toSet)
      /\ batch'.edge = batch.edge
      /\ batch'.out = Put(Put(batch.out, e.from, fromSet), e.to, toSet)
      /\ pc = "link" /\ pc' = "link"
      /\ UNCHANGED <<edges, outDb>>
  BY DEF LinkNext, Link, Batch, db, e
<1>4. fromSet \subseteq DOMAIN edges \cup DOMAIN batch.edge
  BY <1>1, <1>2, GotIdsHaveRecords
<1> HIDE DEF fromSet
<1>5. toSet \subseteq DOMAIN edges \cup DOMAIN batch.edge
  BY <1>1, <1>2, <1>4, SecondGetHasRecords
<1> HIDE DEF toSet
<1>6. /\ DOMAIN cache'.val \subseteq DOMAIN cache.val \cup {e.from, e.to}
      /\ \A x \in DOMAIN cache'.val :
            cache'.val[x] = IF x = e.to THEN toSet ELSE IF x = e.from THEN fromSet ELSE cache.val[x]
  BY <1>3, RewrittenTwice
<1>7. /\ DOMAIN batch'.out = DOMAIN batch.out \cup {e.from, e.to}
      /\ \A x \in DOMAIN batch'.out :
            batch'.out[x] = IF x = e.to THEN toSet ELSE IF x = e.from THEN fromSet ELSE batch.out[x]
  BY <1>3 DEF Put
<1>8. WellFormed'
  BY <1>1, <1>2, <1>3, <1>6, <1>7 DEF StoreInv, WellFormed, Idle
<1>9. CacheCoherent'
  BY <1>3, <1>6, <1>7 DEF StoreInv, CacheCoherent, Pending
<1>10. StoredResolve' /\ PutResolve'
  BY <1>3, <1>4, <1>5, <1>7 DEF StoreInv, StoredResolve, PutResolve
<1>11. LinksHaveRecords'
  BY <1>1, <1>3 DEF LinksHaveRecords
<1> QED
  BY <1>8, <1>9, <1>10, <1>11 DEF StoreInv

\* The commit makes what was pending the stored state.
LEMMA WriteStep ==
  ASSUME StoreInv, Write, pc' = "idle", links = <<>>, UNCHANGED <<cache, links>>
  PROVE  StoreInv'
<1>1. batch'.edge = <<>> /\ batch'.out = <<>> /\ batch' = NoBatch
  BY DEF Write, NoBatch, Batch
<1>2. DOMAIN outDb = Node /\ DOMAIN batch.out \subseteq Node
  BY DEF StoreInv, WellFormed
<1>3. DOMAIN outDb' = Node /\ \A n \in Node : outDb'[n] = Pending(n)
  BY <1>2 DEF Write, Over, Pending
<1>4. /\ DOMAIN edges' = DOMAIN edges \cup DOMAIN batch.edge
      /\ \A id \in DOMAIN edges' : edges'[id] \in Ends
  BY DEF Write, Over, StoreInv, WellFormed
<1>5. WellFormed'
  BY <1>1, <1>3, <1>4 DEF StoreInv, WellFormed
<1>6. CacheCoherent'
  BY <1>1, <1>3 DEF StoreInv, WellFormed, CacheCoherent, Pending
<1>7. \A n \in Node : Pending(n) \subseteq DOMAIN edges'
  BY <1>4 DEF Pending, StoreInv, StoredResolve, PutResolve
<1>8. StoredResolve' /\ PutResolve' /\ LinksHaveRecords'
  BY <1>1, <1>3, <1>7 DEF StoredResolve, PutResolve, LinksHaveRecords
<1> QED
  BY <1>5, <1>6, <1>8 DEF StoreInv

\* Removing one edge changes its sets in the cache and in the database alike.
LEMMA RemoveEdgeStep ==
  ASSUME StoreInv, NEW id, RemoveEdge(id)
  PROVE  StoreInv'
<1> DEFINE from == edges[id].from
           to == edges[id].to
           fromSet == OutEdges(from) \ {id}
           once == Rewritten(cache, from, fromSet)
           toSet == EdgesIn(once, to) \ {id}
<1>1. from \in Node /\ to \in Node /\ batch = NoBatch
  BY DEF RemoveEdge, StoreInv, WellFormed, Ends
<1> HIDE DEF from, to
<1>2. /\ cache' = Rewritten(Rewritten(cache, from, fromSet), to, toSet)
      /\ outDb' = [outDb EXCEPT ![from] = fromSet, ![to] = toSet]
      /\ UNCHANGED <<edges, batch, pc, links>>
  BY DEF RemoveEdge, local, from, to
<1>3. batch.out = <<>> /\ batch.edge = <<>> /\ DOMAIN outDb = Node
  BY <1>1 DEF NoBatch, Batch, StoreInv, WellFormed
<1>4. fromSet \subseteq DOMAIN edges
  BY <1>1, <1>3, GotIdsHaveRecords
<1> HIDE DEF fromSet
<1>5. toSet \subseteq DOMAIN edges
  BY <1>1, <1>3, <1>4, SecondGetHasRecords
<1> HIDE DEF toSet
<1>6. /\ DOMAIN cache'.val \subseteq DOMAIN cache.val \cup {from, to}
      /\ \A x \in DOMAIN cache'.val :
            cache'.val[x] = IF x = to THEN toSet ELSE IF x = from THEN fromSet ELSE cache.val[x]
  BY <1>2, RewrittenTwice
<1>7. /\ DOMAIN outDb' = Node
      /\ \A x \in Node :
            outDb'[x] = IF x = to THEN toSet ELSE IF x = from THEN fromSet ELSE outDb[x]
  BY <1>1, <1>2, <1>3
<1>8. WellFormed'
  BY <1>1, <1>2, <1>6, <1>7 DEF StoreInv, WellFormed, Idle
<1>9. CacheCoherent'
  BY <1>1, <1>2, <1>3, <1>6, <1>7 DEF StoreInv, WellFormed, CacheCoherent, Pending
<1>10. StoredResolve' /\ PutResolve'
  BY <1>2, <1>3, <1>4, <1>5, <1>7 DEF StoreInv, StoredResolve, PutResolve
<1>11. LinksHaveRecords'
  BY <1>2 DEF StoreInv, LinksHaveRecords
<1> QED
  BY <1>8, <1>9, <1>10, <1>11 DEF StoreInv

\* An iteration of removeNode() tells the cache and the batch the same set,
\* whichever end the record leads to.
LEMMA UnlinkStep ==
  ASSUME StoreInv, NEW id, Unlink(id)
  PROVE  StoreInv'
<1>1. CASE id \in DOMAIN edges
  <2> DEFINE end == OtherEnd(id)
             rest == OutEdges(end) \ {id}
  <2>1. end \in Node
    BY <1>1 DEF OtherEnd, StoreInv, WellFormed, Ends
  <2> HIDE DEF end
  <2>2. /\ cache' = Rewritten(cache, end, rest)
        /\ batch'.edge = batch.edge
        /\ batch'.out = Put(batch.out, end, rest)
        /\ pc = "unlink"
        /\ UNCHANGED <<edges, outDb, pc, links>>
    BY <1>1 DEF Unlink, DropFrom, Batch, db, end
  <2>3. rest \subseteq DOMAIN edges \cup DOMAIN batch.edge
    BY <2>1, GotIdsHaveRecords
  <2> HIDE DEF rest
  <2>4. /\ DOMAIN cache'.val \subseteq DOMAIN cache.val \cup {end}
        /\ \A x \in DOMAIN cache'.val : cache'.val[x] = IF x = end THEN rest ELSE cache.val[x]
    BY <2>2, RewrittenKeeps
  <2>5. WellFormed'
    BY <2>1, <2>2, <2>4 DEF StoreInv, WellFormed, Put, Idle
  <2>6. CacheCoherent'
    BY <2>2, <2>4 DEF StoreInv, CacheCoherent, Pending, Put
  <2>7. StoredResolve' /\ PutResolve' /\ LinksHaveRecords'
    BY <2>2, <2>3 DEF StoreInv, StoredResolve, PutResolve, LinksHaveRecords, Put
  <2> QED
    BY <2>5, <2>6, <2>7 DEF StoreInv
<1>2. CASE id \notin DOMAIN edges
  BY <1>2 DEF Unlink, StoreInv, WellFormed, CacheCoherent, Pending, StoredResolve, PutResolve,
              LinksHaveRecords, Idle, db
<1> QED
  BY <1>1, <1>2

\* Steps that touch no set, at most the order of the cache, keep the
\* invariant.
LEMMA SameSetsStep ==
  ASSUME StoreInv, UNCHANGED <<edges, outDb, batch, links>>, cache'.val = cache.val,
         pc # "link" => pc' # "link",
         pc' # "link" => links = <<>>,
         pc' = "idle" => batch = NoBatch
  PROVE  StoreInv'
BY DEF StoreInv, WellFormed, CacheCoherent, Pending, StoredResolve, PutResolve,
       LinksHaveRecords, Idle

\* A restart forgets the cache and the batch; what is stored resolves.
LEMMA RestartStep ==
  ASSUME StoreInv, Restart
  PROVE  StoreInv'
<1>1. /\ cache'.val = <<>>
      /\ batch' = NoBatch /\ batch'.edge = <<>> /\ batch'.out = <<>>
      /\ pc' = "idle" /\ links' = <<>>
      /\ UNCHANGED <<edges, outDb>>
  BY DEF Restart, EmptyCache, CacheOf, NoBatch, Batch, db
<1> QED
  BY <1>1 DEF StoreInv, WellFormed, CacheCoherent, StoredResolve, PutResolve, LinksHaveRecords

\* destroy() with an empty cache leaves an empty store.
LEMMA DestroyStep ==
  ASSUME StoreInv, Destroy, ~ WarmDestroy
  PROVE  StoreInv'
<1>1. /\ cache'.val = <<>> /\ outDb' = [n \in Node |-> {}] /\ edges' = <<>>
      /\ UNCHANGED <<batch, pc, links>> /\ pc = "idle"
  BY DEF Destroy, EmptyCache, CacheOf, NoSets, Idle, local
<1>2. batch.out = <<>> /\ batch.edge = <<>>
  BY <1>1 DEF StoreInv, WellFormed, Idle, NoBatch, Batch
<1> QED
  BY <1>1, <1>2 DEF StoreInv, WellFormed, CacheCoherent, StoredResolve, PutResolve,
                    LinksHaveRecords, Idle

(***************************************************************************)
(* The invariant                                                           *)
(***************************************************************************)
LEMMA StoreInit == Init => StoreInv
BY DEF Init, NoSets, NoBatch, Batch, EmptyCache, CacheOf, StoreInv, WellFormed, CacheCoherent,
       StoredResolve, PutResolve, LinksHaveRecords, Idle

LEMMA StoreStep == ~ WarmDestroy /\ StoreInv /\ [Next]_vars => StoreInv'
<1> SUFFICES ASSUME ~ WarmDestroy, StoreInv, [Next]_vars PROVE StoreInv'
  OBVIOUS
<1>1. ASSUME NEW ns, SetNodesBundle(ns) PROVE StoreInv'
  BY <1>1, SameSetsStep DEF SetNodesBundle, local, StoreInv, WellFormed, Idle
<1>2. ASSUME NEW n \in Node, RemoveNode(n) PROVE StoreInv'
  BY <1>2, SameSetsStep, FindKeeps DEF RemoveNode, StoreInv, WellFormed, Idle
<1>3. ASSUME NEW n \in Node, ReadOut(n) PROVE StoreInv'
  BY <1>3, SameSetsStep, FindKeeps DEF ReadOut, db, local, StoreInv, WellFormed, Idle
<1>4. ASSUME NEW e \in Edge, SetEdge(e) PROVE StoreInv'
  <2>1. <<e>> \in Seq(Edge)
    OBVIOUS
  <2> QED
    BY <1>4, <2>1, SetEdgesStep DEF SetEdge
<1>5. ASSUME NEW eb \in Bundles, SetEdgesBundle(eb) PROVE StoreInv'
  BY <1>5, SetEdgesStep, StoreAssumption
<1>6. ASSUME NEW id \in EdgeId, RemoveEdge(id) \/ RemoveUnknownEdge(id) PROVE StoreInv'
  <2>1. CASE RemoveEdge(id)
    BY <2>1, RemoveEdgeStep
  <2>2. CASE RemoveUnknownEdge(id)
    BY <2>2, SameSetsStep DEF RemoveUnknownEdge, vars, db, local, StoreInv, WellFormed, Idle
  <2> QED
    BY <1>6, <2>1, <2>2
<1>7. CASE Steps
  <2>1. CASE LinkNext
    BY <2>1, LinkStep
  <2>2. CASE LinkDone
    BY <2>2, WriteStep DEF LinkDone
  <2>3. ASSUME NEW id \in EdgeId, Unlink(id) PROVE StoreInv'
    BY <2>3, UnlinkStep
  <2>4. CASE UnlinkDone
    BY <2>4, WriteStep DEF UnlinkDone, StoreInv, WellFormed
  <2> QED
    BY <1>7, <2>1, <2>2, <2>3, <2>4 DEF Steps
<1>8. CASE Restart
  BY <1>8, RestartStep
<1>9. CASE Destroy
  BY <1>9, DestroyStep
<1>10. CASE UNCHANGED vars
  BY <1>10, SameSetsStep DEF vars, db, local, StoreInv, WellFormed, Idle
<1> QED
  BY <1>1, <1>2, <1>3, <1>4, <1>5, <1>6, <1>7, <1>8, <1>9, <1>10 DEF Next, SetNode

\* Reading through the cache is reading the database with the open batch
\* over it, in every reachable state, also when one call rewrites one set
\* for both ends of an edge.
THEOREM CacheAlwaysCoherent == ASSUME ~ WarmDestroy PROVE Spec => []CacheCoherent
<1>1. StoreInv => CacheCoherent
  BY DEF StoreInv
<1> QED
  BY <1>1, StoreInit, StoreStep, PTL DEF Spec

\* Every id in a set of edges has an edge record, in every reachable state.
THEOREM IdsAlwaysHaveRecords == ASSUME ~ WarmDestroy PROVE Spec => []IdsHaveRecords
<1>1. StoreInv => IdsHaveRecords
  BY DEF StoreInv, StoredResolve, PutResolve, IdsHaveRecords, Pending
<1> QED
  BY <1>1, StoreInit, StoreStep, PTL DEF Spec

(***************************************************************************)
(* A careful client is shown a graph                                       *)
(*                                                                         *)
(* As for the directed store, under the same hypotheses.  A set may be     *)
(* read and rewritten twice by one step, and an edge of a removed node     *)
(* leaves the set of OtherEnd() only: the node's own set keeps the id,     *)
(* which is why EndsAgree does not speak of removed nodes.                 *)
(***************************************************************************)
Roomy == IsFiniteSet(Node) /\ Cardinality(Node) <= MaxObjectSize

\* Every set of the open batch is in the cache, which never had to clear.
Cached ==
  /\ cache.inserted = Cardinality(DOMAIN cache.val)
  /\ DOMAIN batch.out \subseteq DOMAIN cache.val

\* A set holds edges of its own node only, whichever end the node is.
SetsOfEnds == \A n \in Node : \A id \in outDb[n] : n \in {edges[id].from, edges[id].to}

\* The sets of the two ends of an edge agree, except those of a removed node.
EndsAgree ==
  \A id \in DOMAIN edges :
    /\ edges[id].from \notin removed /\ id \in outDb[edges[id].from] => id \in outDb[edges[id].to]
    /\ edges[id].to \notin removed /\ id \in outDb[edges[id].to] => id \in outDb[edges[id].from]

\* removeNode() takes the node before its edges.
ShownNodes ==
  IF pc = "unlink" THEN nodes = shown \ {node} /\ node \in removed ELSE nodes = shown

\* The loop over the bundle eb: an edge is still to be visited or its id is
\* in the pending sets of both ends, and nothing else was added to a set.
Indexing(eb) ==
  /\ batch.edge = RecordsOf(eb)
  /\ Careful(eb)
  /\ \A j \in DOMAIN links : \E i \in DOMAIN eb : links[j] = eb[i]
  /\ \A i \in DOMAIN eb :
       \/ \E j \in DOMAIN links : links[j] = eb[i]
       \/ eb[i].id \in Pending(eb[i].from) /\ eb[i].id \in Pending(eb[i].to)
  /\ \A n \in Node :
       /\ outDb[n] \subseteq Pending(n)
       /\ \A id \in Pending(n) \ outDb[n] :
            \E i \in DOMAIN eb : eb[i].id = id /\ n \in {eb[i].from, eb[i].to}

Carried == Bundles \cup {<<e>> : e \in Edge}

LinkPart == pc = "link" => \E eb \in Carried : Indexing(eb)

\* The loop over the edges of a node: what was visited is gone from the
\* pending set of the other end, and nothing else.
Visited(id) == id \in outDb[node] /\ id \notin unlinks

UnlinkPart ==
  pc = "unlink" =>
    /\ batch.edge = <<>>
    /\ unlinks \subseteq outDb[node]
    /\ \A n \in Node : \A id :
         id \in Pending(n) <=> id \in outDb[n] /\ ~ (Visited(id) /\ OtherEnd(id) = n)

GraphParts == Cached /\ SetsOfEnds /\ EndsAgree /\ ShownNodes /\ LinkPart /\ UnlinkPart

GraphInv == TypeOK /\ Removing /\ StoreInv /\ GraphParts

\* A step of the graph, or none.
GraphStep == [Graph!Next]_(Graph!vars)

\* The bundles a call may carry are sequences of edges.
LEMMA CarriedEdges ==
  ASSUME NEW eb \in Carried
  PROVE  /\ eb \in Seq(Edge)
         /\ \A i \in DOMAIN eb : eb[i].id \in EdgeId /\ eb[i].from \in Node /\ eb[i].to \in Node
<1>1. \A e \in Edge : <<e>> \in Seq(Edge)
  OBVIOUS
<1>2. eb \in Seq(Edge)
  BY <1>1, StoreAssumption, Zenon DEF Carried
<1>3. \A i \in DOMAIN eb : eb[i] \in Edge
  BY <1>2
<1> QED
  BY <1>2, <1>3 DEF Edge

\* While every set of the batch is in the cache, reads show the batch.
LEMMA ReadsShowBatch ==
  ASSUME StoreInv, Cached, NEW n \in Node
  PROVE  OutEdges(n) = Pending(n)
BY DEF OutEdges, EdgesIn, Holds, StoreInv, CacheCoherent, Pending, Cached

\* The second get of a call that rewrites two sets sees the first one if the
\* node is the same.
LEMMA SecondRead ==
  ASSUME Roomy, GraphInv, NEW a \in Node, NEW b \in Node, NEW s
  PROVE  EdgesIn(Rewritten(cache, a, s), b) = IF b = a THEN s ELSE Pending(b)
<1> DEFINE once == Rewritten(cache, a, s)
<1>1. /\ DOMAIN cache.val \subseteq Node /\ cache.inserted = Cardinality(DOMAIN cache.val)
      /\ IsFiniteSet(Node) /\ Cardinality(Node) <= MaxObjectSize
  BY DEF GraphInv, GraphParts, Cached, StoreInv, WellFormed, Roomy
<1>2. DOMAIN once.val = DOMAIN cache.val \cup {a}
  BY <1>1, RoomyRewritten
<1>3. \A x \in DOMAIN once.val : once.val[x] = IF x = a THEN s ELSE cache.val[x]
  BY RewrittenKeeps
<1> HIDE DEF once
<1>4. EdgesIn(once, b) = IF b = a THEN s ELSE OutEdges(b)
  BY <1>2, <1>3 DEF OutEdges, EdgesIn, Holds
<1>5. OutEdges(b) = Pending(b)
  BY ReadsShowBatch DEF GraphInv, GraphParts
<1> QED
  BY <1>4, <1>5 DEF once

\* Both sets stay in the cache.
LEMMA BothKept ==
  ASSUME Roomy, GraphInv, NEW a \in Node, NEW b \in Node, NEW s, NEW t
  PROVE  LET d == Rewritten(Rewritten(cache, a, s), b, t)
         IN  /\ DOMAIN d.val = DOMAIN cache.val \cup {a, b}
             /\ d.inserted = Cardinality(DOMAIN d.val)
<1>1. /\ DOMAIN cache.val \subseteq Node /\ cache.inserted = Cardinality(DOMAIN cache.val)
      /\ IsFiniteSet(Node) /\ Cardinality(Node) <= MaxObjectSize
  BY DEF GraphInv, GraphParts, Cached, StoreInv, WellFormed, Roomy
<1> PICK once : once = Rewritten(cache, a, s)
  OBVIOUS
<1>2. /\ DOMAIN once.val = DOMAIN cache.val \cup {a}
      /\ once.inserted = Cardinality(DOMAIN once.val)
  BY <1>1, RoomyRewritten
<1>3. DOMAIN once.val \subseteq Node
  BY <1>1, <1>2
<1> PICK d : d = Rewritten(once, b, t)
  OBVIOUS
<1>4. /\ DOMAIN d.val = DOMAIN once.val \cup {b}
      /\ d.inserted = Cardinality(DOMAIN d.val)
  BY <1>1, <1>2, <1>3, RoomyRewritten
<1> QED
  BY <1>2, <1>4

\* Between calls nothing is pending.
LEMMA NothingPending ==
  ASSUME batch = NoBatch
  PROVE  /\ batch.edge = <<>> /\ DOMAIN batch.out = {}
         /\ \A n \in Node : Pending(n) = outDb[n]
<1>1. batch.edge = <<>> /\ batch.out = <<>>
  BY DEF NoBatch, Batch
<1> QED
  BY <1>1 DEF Pending

\* What the invariant says of the ends and records of what is in a set.
LEMMA SetFacts ==
  ASSUME GraphInv
  PROVE  /\ \A id \in DOMAIN edges : edges[id].from \in Node /\ edges[id].to \in Node
         /\ \A n \in Node : \A id \in outDb[n] :
              id \in DOMAIN edges /\ n \in {edges[id].from, edges[id].to}
BY DEF GraphInv, GraphParts, SetsOfEnds, StoreInv, WellFormed, StoredResolve, Ends

\* Steps that store nothing.
LEMMA SameStored ==
  ASSUME GraphInv, UNCHANGED <<edges, outDb>>, removed \subseteq removed'
  PROVE  SetsOfEnds' /\ EndsAgree'
BY DEF GraphInv, GraphParts, SetsOfEnds, EndsAgree

\* A step that stores nothing and shows the same nodes is none of the graph.
LEMMA SameGraph ==
  ASSUME UNCHANGED <<edges, outDb, shown>>
  PROVE  GraphStep
BY DEF GraphStep, Graph!vars, liveIds

\* Steps that leave the batch and the keys of the cache alone.
LEMMA CachedStep ==
  ASSUME GraphInv, batch' = batch, cache'.val = cache.val, cache'.inserted = cache.inserted
  PROVE  Cached'
BY DEF GraphInv, GraphParts, Cached

\* find() inserts nothing.
LEMMA FindSame == ASSUME NEW c, NEW k PROVE Find(c, k).val = c.val /\ Find(c, k).inserted = c.inserted
BY DEF Find, CacheOf

\* setNodesBundle()
LEMMA SetNodesStep ==
  ASSUME GraphInv, NEW ns \in SUBSET Node, SetNodesBundle(ns), shown' = nodes', removed' = removed
  PROVE  GraphParts' /\ GraphStep
<1>1. /\ pc = "idle" /\ nodes' = nodes \cup ns
      /\ UNCHANGED <<edges, outDb, cache, batch, pc, links, node, unlinks>>
  BY DEF SetNodesBundle, Idle, local
<1>2. shown = nodes /\ shown' = shown \cup ns
  BY <1>1 DEF GraphInv, GraphParts, ShownNodes
<1>3. SetsOfEnds' /\ EndsAgree' /\ liveIds' = liveIds
  BY <1>1, SameStored DEF liveIds
<1>4. Cached'
  BY <1>1, CachedStep
<1>5. ShownNodes' /\ LinkPart' /\ UnlinkPart'
  BY <1>1 DEF ShownNodes, LinkPart, UnlinkPart
<1>6. Graph!SetNodes(ns)
  BY <1>1, <1>2, <1>3 DEF Graph!SetNodes
<1> QED
  BY <1>3, <1>4, <1>5, <1>6 DEF GraphParts, GraphStep, Graph!Next

\* getOutEdge()
LEMMA ReadStep ==
  ASSUME GraphInv, NEW n \in Node, ReadOut(n), shown' = nodes', removed' = removed
  PROVE  GraphParts' /\ GraphStep
<1>1. /\ pc = "idle" /\ cache' = Find(cache, n)
      /\ UNCHANGED <<nodes, edges, outDb, batch, pc, links, node, unlinks>>
  BY DEF ReadOut, Idle, db, local
<1>2. shown = nodes /\ shown' = shown
  BY <1>1 DEF GraphInv, GraphParts, ShownNodes
<1>3. SetsOfEnds' /\ EndsAgree'
  BY <1>1, SameStored
<1>4. Cached'
  BY <1>1, CachedStep, FindSame
<1>5. ShownNodes' /\ LinkPart' /\ UnlinkPart'
  BY <1>1, <1>2 DEF ShownNodes, LinkPart, UnlinkPart
<1> QED
  BY <1>1, <1>2, <1>3, <1>4, <1>5, SameGraph DEF GraphParts

\* setEdge(), setEdgesBundle(): the loop has visited no edge.
LEMMA OpenStep ==
  ASSUME GraphInv, NEW eb \in Carried, Careful(eb), SetEdgesBundle(eb), shown' = nodes',
         removed' = removed
  PROVE  GraphParts' /\ GraphStep
<1>1. /\ pc = "idle" /\ pc' = "link" /\ links' = eb
      /\ UNCHANGED <<nodes, edges, outDb, cache, node, unlinks>>
      /\ batch'.edge = RecordsOf(eb) /\ batch'.out = <<>>
  BY DEF SetEdgesBundle, Idle, db, Batch
<1>2. shown = nodes /\ shown' = shown
  BY <1>1 DEF GraphInv, GraphParts, ShownNodes
<1>3. SetsOfEnds' /\ EndsAgree'
  BY <1>1, SameStored
<1>4. Cached'
  BY <1>1 DEF GraphInv, GraphParts, Cached
<1>5. ShownNodes' /\ UnlinkPart'
  BY <1>1, <1>2 DEF ShownNodes, UnlinkPart
<1>6. \A n : Pending(n)' = outDb[n]
  BY <1>1 DEF Pending
<1>7. Careful(eb)'
  BY <1>1 DEF Careful, InUse
<1>8. Indexing(eb)'
  BY <1>1, <1>6, <1>7 DEF Indexing
<1> QED
  BY <1>1, <1>2, <1>3, <1>4, <1>5, <1>8, SameGraph DEF GraphParts, LinkPart

\* removeNode() opens its loop.
LEMMA RemoveNodeStep ==
  ASSUME GraphInv, NEW n \in Node, RemoveNode(n), shown' = shown, removed' = removed \cup {node'}
  PROVE  GraphParts' /\ GraphStep
<1>1. /\ pc = "idle" /\ pc' = "unlink" /\ nodes' = nodes \ {n} /\ node' = n
      /\ UNCHANGED <<edges, outDb, batch, links>>
      /\ cache' = Find(cache, n) /\ unlinks' = OutEdges(n)
  BY DEF RemoveNode, Idle
<1>2. SetsOfEnds' /\ EndsAgree'
  BY <1>1, SameStored
<1>3. batch = NoBatch
  BY <1>1 DEF GraphInv, StoreInv, WellFormed, Idle
<1>4. Cached'
  BY <1>1, CachedStep, FindSame
<1>5. ShownNodes' /\ LinkPart'
  BY <1>1 DEF ShownNodes, LinkPart, GraphInv, GraphParts
<1>6. unlinks' = outDb[n]
  BY <1>1, <1>3, NothingPending, ReadsShowBatch DEF GraphInv, GraphParts
<1>7. batch'.edge = <<>> /\ \A m \in Node : Pending(m)' = outDb[m]
  BY <1>1, <1>3, NothingPending DEF Pending
<1>8. \A id : ~ Visited(id)'
  BY <1>1, <1>6 DEF Visited
<1>9. UnlinkPart'
  BY <1>1, <1>6, <1>7, <1>8 DEF UnlinkPart
<1> QED
  BY <1>1, <1>2, <1>4, <1>5, <1>9, SameGraph DEF GraphParts

\* One edge of the bundle is indexed, a loop in one set twice.
LEMMA IndexStep ==
  ASSUME Roomy, GraphInv, LinkNext, shown' = nodes', removed' = removed
  PROVE  GraphParts' /\ GraphStep
<1> DEFINE e == Head(links)
           fromSet == OutEdges(e.from) \cup {e.id}
           once == Rewritten(cache, e.from, fromSet)
           toSet == EdgesIn(once, e.to) \cup {e.id}
<1>1. /\ e \in Edge /\ links' = Tail(links)
      /\ \E j \in DOMAIN links : links[j] = e
      /\ \A j \in DOMAIN links : links[j] = e \/ \E i \in DOMAIN links' : links'[i] = links[j]
      /\ \A i \in DOMAIN links' : \E j \in DOMAIN links : links'[i] = links[j]
  <2>1. links \in Seq(Edge) /\ links # <<>> /\ links' = Tail(links)
    BY DEF GraphInv, TypeOK, LinkNext
  <2>2. /\ Len(links) \in Nat /\ Len(links) >= 1
        /\ DOMAIN links = 1..Len(links) /\ DOMAIN links' = 1..Len(links) - 1
        /\ e = links[1] /\ \A i \in 1..Len(links) - 1 : links'[i] = links[i + 1]
    BY <2>1
  <2>3. \A j \in 1..Len(links) : j = 1 \/ (j - 1 \in 1..Len(links) - 1 /\ (j - 1) + 1 = j)
    BY <2>2
  <2>4. ASSUME NEW j \in DOMAIN links
        PROVE  links[j] = e \/ \E i \in DOMAIN links' : links'[i] = links[j]
    BY <2>2, <2>3
  <2>5. \A i \in 1..Len(links) - 1 : i + 1 \in 1..Len(links)
    BY <2>2
  <2> QED BY <2>1, <2>2, <2>4, <2>5
<1>2. e.from \in Node /\ e.to \in Node /\ e.id \in EdgeId
  BY <1>1 DEF Edge
<1> PICK from \in Node, to \in Node, new \in EdgeId : from = e.from /\ to = e.to /\ new = e.id
  BY <1>2
<1> HIDE DEF e
<1>3. /\ cache' = Rewritten(Rewritten(cache, from, fromSet), to, toSet)
      /\ batch'.edge = batch.edge
      /\ batch'.out = Put(Put(batch.out, from, fromSet), to, toSet)
      /\ pc = "link" /\ pc' = "link"
      /\ UNCHANGED <<nodes, edges, outDb, node>>
  BY DEF LinkNext, Link, Batch, db, e
<1>4. /\ fromSet = Pending(from) \cup {new}
      /\ toSet = (IF to = from THEN fromSet ELSE Pending(to)) \cup {new}
  <2>1. fromSet = Pending(from) \cup {new}
    BY ReadsShowBatch DEF GraphInv, GraphParts
  <2>2. once = Rewritten(cache, from, fromSet)
    OBVIOUS
  <2> HIDE DEF once, fromSet
  <2>3. EdgesIn(once, to) = IF to = from THEN fromSet ELSE Pending(to)
    BY <2>2, SecondRead
  <2> QED BY <2>1, <2>3
<1> HIDE DEF fromSet, toSet
<1>5. /\ DOMAIN cache'.val = DOMAIN cache.val \cup {from, to}
      /\ cache'.inserted = Cardinality(DOMAIN cache'.val)
  BY <1>3, BothKept
<1>6. /\ DOMAIN batch'.out = DOMAIN batch.out \cup {from, to}
      /\ Pending(to)' = Pending(to) \cup {new}
      /\ from # to => Pending(from)' = Pending(from) \cup {new}
      /\ \A m \in Node \ {from, to} : Pending(m)' = Pending(m)
  BY <1>3, <1>4 DEF Pending, Put
<1>7. shown = nodes /\ shown' = shown
  BY <1>3 DEF GraphInv, GraphParts, ShownNodes
<1>8. SetsOfEnds' /\ EndsAgree'
  BY <1>3, SameStored
<1>9. Cached' /\ ShownNodes' /\ UnlinkPart'
  BY <1>3, <1>5, <1>6, <1>7 DEF Cached, ShownNodes, UnlinkPart, GraphInv, GraphParts
<1>10. PICK eb \in Carried : Indexing(eb)
  BY <1>3 DEF GraphInv, GraphParts, LinkPart
<1>11. \A i \in DOMAIN eb : eb[i].from \in Node /\ eb[i].to \in Node
  BY CarriedEdges
<1>12. Careful(eb)'
  BY <1>3, <1>10 DEF Careful, InUse, Indexing
<1>13. \A m \in Node : /\ Pending(m) \subseteq Pending(m)'
                       /\ Pending(m)' \subseteq Pending(m) \cup {new}
                       /\ m \in {from, to} => new \in Pending(m)'
                       /\ m \notin {from, to} => Pending(m)' = Pending(m)
  BY <1>6
<1>14. \E k \in DOMAIN eb : eb[k].id = new /\ eb[k].from = from /\ eb[k].to = to
  BY <1>1, <1>10 DEF Indexing
<1>15. \A j \in DOMAIN links' : \E i \in DOMAIN eb : links'[j] = eb[i]
  BY <1>1, <1>10 DEF Indexing
<1>16. ASSUME NEW i \in DOMAIN eb
       PROVE  \/ \E j \in DOMAIN links' : links'[j] = eb[i]
              \/ eb[i].id \in Pending(eb[i].from)' /\ eb[i].id \in Pending(eb[i].to)'
  <2>1. CASE eb[i] = e
    BY <1>13, <2>1
  <2>2. CASE eb[i] # e
    <3>1. \/ \E j \in DOMAIN links : links[j] = eb[i]
          \/ eb[i].id \in Pending(eb[i].from) /\ eb[i].id \in Pending(eb[i].to)
      BY <1>10 DEF Indexing
    <3> QED BY <1>1, <1>11, <1>13, <2>2, <3>1
  <2> QED BY <2>1, <2>2
<1>17. ASSUME NEW n \in Node
       PROVE  /\ outDb[n] \subseteq Pending(n)'
              /\ \A id \in Pending(n)' \ outDb[n] :
                    \E i \in DOMAIN eb : eb[i].id = id /\ n \in {eb[i].from, eb[i].to}
  <2>1. /\ outDb[n] \subseteq Pending(n)
        /\ \A id \in Pending(n) \ outDb[n] :
              \E i \in DOMAIN eb : eb[i].id = id /\ n \in {eb[i].from, eb[i].to}
    BY <1>10 DEF Indexing
  <2> QED BY <1>13, <1>14, <2>1
<1>18. Indexing(eb)'
  BY <1>3, <1>10, <1>12, <1>15, <1>16, <1>17 DEF Indexing
<1>19. LinkPart'
  BY <1>18 DEF LinkPart
<1> QED
  BY <1>3, <1>7, <1>8, <1>9, <1>19, SameGraph DEF GraphParts

\* What the commit of a batch leaves in the sets.
LEMMA Written ==
  ASSUME GraphInv, Write
  PROVE  /\ edges' = Over(batch.edge, edges) /\ batch' = NoBatch
         /\ \A n \in Node : outDb'[n] = Pending(n)
<1>1. DOMAIN outDb = Node /\ DOMAIN batch.out \subseteq Node
  BY DEF GraphInv, StoreInv, WellFormed
<1> QED
  BY <1>1 DEF Write, Over, Pending

\* setEdge(), setEdgesBundle() commit: all edges of the bundle at once.
LEMMA CommitStep ==
  ASSUME GraphInv, LinkDone, shown' = nodes', removed' = removed
  PROVE  GraphParts' /\ GraphStep
<1>1. /\ pc = "link" /\ pc' = "idle" /\ links = <<>>
      /\ UNCHANGED <<nodes, cache, links, node, unlinks>>
      /\ edges' = Over(batch.edge, edges) /\ batch' = NoBatch
      /\ \A n \in Node : outDb'[n] = Pending(n)
  BY Written DEF LinkDone
<1>2. shown = nodes /\ shown' = shown
  BY <1>1 DEF GraphInv, GraphParts, ShownNodes
<1>3. PICK eb \in Carried : Indexing(eb)
  BY <1>1 DEF GraphInv, GraphParts, LinkPart
<1> DEFINE ids == {eb[i].id : i \in DOMAIN eb}
<1>4. /\ eb \in Seq(Edge)
      /\ \A i \in DOMAIN eb : eb[i].id \in EdgeId /\ eb[i].from \in Node /\ eb[i].to \in Node
  BY CarriedEdges
<1>5. /\ \A i, j \in DOMAIN eb : eb[i].id = eb[j].id => eb[i] = eb[j]
      /\ \A i \in DOMAIN eb :
           (eb[i].id \in DOMAIN edges /\ InUse(eb[i].id)) => EndsOf(eb[i]) = edges[eb[i].id]
  BY <1>3 DEF Indexing, Careful
<1>6. DOMAIN edges' = DOMAIN edges \cup ids
  BY <1>1, <1>3 DEF Indexing, Over, RecordsOf
<1>7. ASSUME NEW i \in DOMAIN eb
      PROVE  edges'[eb[i].id].from = eb[i].from /\ edges'[eb[i].id].to = eb[i].to
  <2>1. edges'[eb[i].id] = EndsOf(eb[i])
    BY <1>1, <1>3, <1>4, <1>5, RecordsOfCareful DEF Indexing, Over
  <2> QED BY <2>1 DEF EndsOf
<1>8. \A id \in DOMAIN edges \ ids : edges'[id] = edges[id]
  BY <1>1, <1>3 DEF Indexing, Over, RecordsOf
<1>9. /\ \A id \in DOMAIN edges : edges[id].from \in Node /\ edges[id].to \in Node
      /\ \A n \in Node : \A id \in outDb[n] :
           id \in DOMAIN edges /\ n \in {edges[id].from, edges[id].to}
  BY SetFacts
<1>10. /\ \A i \in DOMAIN eb : eb[i].id \in outDb'[eb[i].from] /\ eb[i].id \in outDb'[eb[i].to]
       /\ \A n \in Node :
            /\ outDb[n] \subseteq outDb'[n]
            /\ \A id \in outDb'[n] \ outDb[n] :
                 \E i \in DOMAIN eb : eb[i].id = id /\ n \in {eb[i].from, eb[i].to}
  BY <1>1, <1>3, <1>4 DEF Indexing
\* an id of the bundle that a set already had is in use, with these ends
<1>11. ASSUME NEW i \in DOMAIN eb, NEW n \in Node, eb[i].id \in outDb[n]
       PROVE  n \in {eb[i].from, eb[i].to}
  <2>1. eb[i].id \in DOMAIN edges /\ InUse(eb[i].id) /\ n \in {edges[eb[i].id].from, edges[eb[i].id].to}
    BY <1>9, <1>11 DEF InUse
  <2>2. EndsOf(eb[i]) = edges[eb[i].id]
    BY <1>5, <2>1
  <2> QED BY <2>1, <2>2 DEF EndsOf
<1>12. \A id \in ids : \E i \in DOMAIN eb : eb[i].id = id
  OBVIOUS
<1>13. \A i \in DOMAIN eb : eb[i].id \in ids
  OBVIOUS
<1> HIDE DEF ids
<1>14. SetsOfEnds'
  <2> SUFFICES ASSUME NEW n \in Node, NEW id \in outDb'[n]
               PROVE  n \in {edges'[id].from, edges'[id].to}
    BY DEF SetsOfEnds
  <2>1. CASE id \in outDb[n]
    <3>1. id \in DOMAIN edges /\ n \in {edges[id].from, edges[id].to}
      BY <1>9, <2>1
    <3>2. CASE id \in ids
      BY <1>7, <1>11, <1>12, <2>1, <3>2
    <3> QED BY <1>8, <3>1, <3>2
  <2>2. CASE id \notin outDb[n]
    BY <1>7, <1>10, <2>2
  <2> QED BY <2>1, <2>2
\* an edge of the bundle is in both sets, any other is where it was
<1>15. ASSUME NEW id \in ids
       PROVE  id \in outDb'[edges'[id].from] /\ id \in outDb'[edges'[id].to]
  BY <1>7, <1>10, <1>12
<1>16. ASSUME NEW id \in DOMAIN edges' \ ids
       PROVE  /\ id \in DOMAIN edges /\ edges'[id] = edges[id]
              /\ id \in outDb'[edges[id].from] <=> id \in outDb[edges[id].from]
              /\ id \in outDb'[edges[id].to] <=> id \in outDb[edges[id].to]
  <2>1. id \in DOMAIN edges /\ edges'[id] = edges[id]
    BY <1>6, <1>8
  <2> QED BY <1>9, <1>10, <1>13, <2>1
<1>17. EndsAgree'
  <2> SUFFICES ASSUME NEW id \in DOMAIN edges'
               PROVE  /\ edges'[id].from \notin removed /\ id \in outDb'[edges'[id].from]
                            => id \in outDb'[edges'[id].to]
                      /\ edges'[id].to \notin removed /\ id \in outDb'[edges'[id].to]
                            => id \in outDb'[edges'[id].from]
    BY DEF EndsAgree
  <2>1. CASE id \in ids
    BY <1>15, <2>1
  <2>2. CASE id \notin ids
    BY <1>16, <2>2 DEF GraphInv, GraphParts, EndsAgree
  <2> QED BY <2>1, <2>2
<1>18. liveIds' = liveIds \cup ids
  <2>1. \A id \in ids : id \in DOMAIN edges'
    BY <1>6
  <2>2. \A id \in ids : id \in liveIds'
    BY <1>15, <2>1 DEF liveIds
  <2>3. \A id : id \notin ids => (id \in liveIds' <=> id \in liveIds)
    BY <1>6, <1>16 DEF liveIds
  <2> QED BY <2>2, <2>3
<1>19. Cached'
  BY <1>1 DEF Cached, GraphInv, GraphParts, NoBatch, Batch
<1>20. ShownNodes' /\ LinkPart' /\ UnlinkPart'
  BY <1>1, <1>2 DEF ShownNodes, LinkPart, UnlinkPart
<1>21. Graph!SetEdges(eb)
  <2> DEFINE last(id) == CHOOSE i \in DOMAIN eb :
                           eb[i].id = id /\ \A j \in DOMAIN eb : eb[j].id = id => j <= i
             live == [id \in liveIds |-> edges[id]]
             after == [id \in liveIds' |-> edges'[id]]
             promised == [id \in DOMAIN live \cup ids |->
                            IF id \in ids
                            THEN [from |-> eb[last(id)].from, to |-> eb[last(id)].to]
                            ELSE live[id]]
  <2>1. DOMAIN after = DOMAIN promised
    BY <1>18
  <2>2. ASSUME NEW id \in ids PROVE edges'[id] = [from |-> eb[last(id)].from, to |-> eb[last(id)].to]
    <3>1. edges'[id] = RecordsOf(eb)[id]
      BY <1>1, <1>3, <2>2 DEF Indexing, Over, RecordsOf, ids
    <3>2. RecordsOf(eb)[id] = EndsOf(eb[last(id)])
      BY <2>2 DEF RecordsOf, ids
    <3> HIDE DEF last
    <3> QED BY <3>1, <3>2 DEF EndsOf
  <2>3. ASSUME NEW id \in liveIds, id \notin ids PROVE edges'[id] = edges[id]
    BY <1>8, <2>3 DEF liveIds
  <2> HIDE DEF last
  <2>4. after = promised
    BY <1>18, <2>2, <2>3
  <2>5. shown' = shown
    BY <1>2
  <2> QED BY <2>4, <2>5 DEF Graph!SetEdges, last, ids
<1>22. eb \in Bundles \cup {<<e>> : e \in Edge}
  BY DEF Carried
<1> QED
  BY <1>14, <1>17, <1>19, <1>20, <1>21, <1>22 DEF GraphParts, GraphStep, Graph!Next

\* removeEdge()
LEMMA RemoveEdgeParts ==
  ASSUME Roomy, GraphInv, NEW id \in EdgeId, RemoveEdge(id), shown' = nodes', removed' = removed
  PROVE  GraphParts' /\ GraphStep
<1> DEFINE from == edges[id].from
           to == edges[id].to
           fromSet == OutEdges(from) \ {id}
           once == Rewritten(cache, from, fromSet)
           toSet == EdgesIn(once, to) \ {id}
<1>1. /\ id \in DOMAIN edges /\ pc = "idle" /\ batch = NoBatch
      /\ cache' = Rewritten(Rewritten(cache, from, fromSet), to, toSet)
      /\ outDb' = [outDb EXCEPT ![from] = fromSet, ![to] = toSet]
      /\ UNCHANGED <<nodes, edges, batch, pc, links, node, unlinks>>
  BY DEF RemoveEdge, local, Idle, GraphInv, StoreInv, WellFormed
<1>2. from \in Node /\ to \in Node
  BY <1>1, SetFacts
<1> HIDE DEF from, to
<1>3. /\ fromSet = outDb[from] \ {id}
      /\ toSet = (IF to = from THEN fromSet ELSE outDb[to]) \ {id}
  <2>1. fromSet = outDb[from] \ {id}
    BY <1>1, <1>2, ReadsShowBatch, NothingPending DEF GraphInv, GraphParts
  <2>2. once = Rewritten(cache, from, fromSet)
    OBVIOUS
  <2> HIDE DEF once, fromSet
  <2>3. EdgesIn(once, to) = IF to = from THEN fromSet ELSE Pending(to)
    BY <1>2, <2>2, SecondRead
  <2> QED BY <1>1, <1>2, <2>1, <2>3, NothingPending
<1> HIDE DEF fromSet, toSet
<1>4. \A n \in Node : \A x : x \in outDb'[n] <=> x \in outDb[n] /\ ~ (n \in {from, to} /\ x = id)
  <2>1. DOMAIN outDb = Node
    BY DEF GraphInv, StoreInv, WellFormed
  <2> QED BY <1>1, <1>2, <1>3, <2>1
<1>5. shown = nodes /\ shown' = shown
  BY <1>1 DEF GraphInv, GraphParts, ShownNodes
<1>6. SetsOfEnds'
  BY <1>1, <1>4 DEF SetsOfEnds, GraphInv, GraphParts
<1>7. \A x \in DOMAIN edges : edges[x].from \in Node /\ edges[x].to \in Node
  BY SetFacts
<1>8. \A x \in DOMAIN edges : /\ x \in outDb'[edges[x].from] <=> x \in outDb[edges[x].from] /\ x # id
                              /\ x \in outDb'[edges[x].to] <=> x \in outDb[edges[x].to] /\ x # id
  BY <1>4, <1>7 DEF from, to
<1>9. EndsAgree'
  BY <1>1, <1>8 DEF EndsAgree, GraphInv, GraphParts
<1>10. liveIds' = liveIds \ {id}
  BY <1>1, <1>8 DEF liveIds
<1>11. Cached'
  <2>1. cache'.inserted = Cardinality(DOMAIN cache'.val)
    BY <1>1, <1>2, BothKept
  <2> QED BY <1>1, <2>1, NothingPending DEF Cached
<1>12. ShownNodes' /\ LinkPart' /\ UnlinkPart'
  BY <1>1, <1>5 DEF ShownNodes, LinkPart, UnlinkPart
<1>13. Graph!RemoveEdge(id)
  BY <1>1, <1>5, <1>10 DEF Graph!RemoveEdge, Graph!Keep
<1> QED
  BY <1>6, <1>9, <1>11, <1>12, <1>13 DEF GraphParts, GraphStep, Graph!Next

\* removeNode() visits an edge of the node: its id leaves the set of the
\* other end, or the node's own set if the edge is a loop.
LEMMA UnlinkParts ==
  ASSUME Roomy, GraphInv, NEW id \in EdgeId, Unlink(id), shown' = shown, removed' = removed
  PROVE  GraphParts' /\ GraphStep
<1>1. /\ pc = "unlink" /\ pc' = "unlink" /\ id \in unlinks /\ unlinks' = unlinks \ {id}
      /\ UNCHANGED <<nodes, edges, outDb, links, node>>
      /\ id \in DOMAIN edges => DropFrom(OtherEnd(id), id)
  BY DEF Unlink, IsNext, db
<1>2. /\ node \in Node /\ unlinks \subseteq outDb[node] /\ batch.edge = <<>>
      /\ \A n \in Node : \A x :
           x \in Pending(n) <=> x \in outDb[n] /\ ~ (Visited(x) /\ OtherEnd(x) = n)
  BY <1>1 DEF GraphInv, Removing, GraphParts, UnlinkPart
<1>3. id \in DOMAIN edges /\ id \in outDb[node]
  BY <1>1, <1>2, SetFacts
<1> DEFINE rest == OutEdges(OtherEnd(id)) \ {id}
<1> PICK end \in Node : end = OtherEnd(id)
  BY <1>3, SetFacts DEF OtherEnd
<1>4. /\ cache' = Rewritten(cache, end, rest)
      /\ batch'.edge = batch.edge /\ batch'.out = Put(batch.out, end, rest)
  BY <1>1, <1>3 DEF DropFrom, Batch
<1>5. rest = Pending(end) \ {id}
  BY ReadsShowBatch DEF GraphInv, GraphParts
<1> HIDE DEF rest
<1>6. Cached'
  <2>1. DOMAIN cache.val \subseteq Node
    BY DEF GraphInv, StoreInv, WellFormed
  <2>2. /\ DOMAIN cache'.val = DOMAIN cache.val \cup {end}
        /\ cache'.inserted = Cardinality(DOMAIN cache'.val)
    BY <1>4, <2>1, RoomyRewritten DEF Roomy, GraphInv, GraphParts, Cached
  <2> QED BY <1>4, <2>2 DEF Cached, Put, GraphInv, GraphParts
<1>7. Pending(end)' = Pending(end) \ {id} /\ \A m \in Node \ {end} : Pending(m)' = Pending(m)
  BY <1>1, <1>4, <1>5 DEF Pending, Put
<1>8. /\ \A x : Visited(x)' <=> Visited(x) \/ x = id
      /\ \A x : OtherEnd(x)' = OtherEnd(x)
  BY <1>1, <1>3 DEF Visited, OtherEnd
<1>9. \A n \in Node : \A x :
        x \in Pending(n)' <=> x \in outDb[n] /\ ~ ((Visited(x) \/ x = id) /\ OtherEnd(x) = n)
  BY <1>2, <1>7
<1>10. UnlinkPart'
  BY <1>1, <1>2, <1>4, <1>8, <1>9 DEF UnlinkPart
<1>11. SetsOfEnds' /\ EndsAgree'
  BY <1>1, SameStored
<1>12. ShownNodes' /\ LinkPart'
  BY <1>1 DEF ShownNodes, LinkPart, GraphInv, GraphParts
<1> QED
  BY <1>1, <1>6, <1>10, <1>11, <1>12, SameGraph DEF GraphParts

\* removeNode() commits: the node and all its edges are gone, and no other
\* edge.
LEMMA UnlinkDoneParts ==
  ASSUME GraphInv, UnlinkDone, shown' = nodes', removed' = removed
  PROVE  GraphParts' /\ GraphStep
<1>1. /\ pc = "unlink" /\ pc' = "idle" /\ unlinks = {}
      /\ UNCHANGED <<nodes, cache, links, unlinks>>
      /\ edges' = Over(batch.edge, edges) /\ batch' = NoBatch
      /\ \A n \in Node : outDb'[n] = Pending(n)
  BY Written DEF UnlinkDone
<1>2. /\ node \in Node /\ batch.edge = <<>>
      /\ \A n \in Node : \A x :
           x \in outDb'[n] <=> x \in outDb[n] /\ ~ (x \in outDb[node] /\ OtherEnd(x) = n)
  BY <1>1 DEF GraphInv, Removing, GraphParts, UnlinkPart, Visited
<1>3. edges' = edges
  <2>1. Over(<<>>, edges) = [x \in DOMAIN edges |-> edges[x]]
    BY DEF Over
  <2>2. edges = [x \in DOMAIN edges |-> edges[x]]
    BY TypeParts, PartialHas DEF GraphInv
  <2> QED BY <1>1, <1>2, <2>1, <2>2
<1>4. nodes = shown \ {node} /\ node \in removed /\ shown' = shown \ {node}
  BY <1>1 DEF GraphInv, GraphParts, ShownNodes
<1>5. SetsOfEnds'
  BY <1>2, <1>3 DEF SetsOfEnds, GraphInv, GraphParts
<1>6. ASSUME NEW id \in DOMAIN edges
      PROVE  /\ id \in outDb'[edges[id].from] <=>
                   id \in outDb[edges[id].from]
                   /\ ~ (id \in outDb[node] /\ OtherEnd(id) = edges[id].from)
             /\ id \in outDb'[edges[id].to] <=>
                   id \in outDb[edges[id].to]
                   /\ ~ (id \in outDb[node] /\ OtherEnd(id) = edges[id].to)
             /\ id \in outDb[node] => node \in {edges[id].from, edges[id].to}
             /\ OtherEnd(id) = IF edges[id].from = node THEN edges[id].to ELSE edges[id].from
  BY <1>2, SetFacts DEF OtherEnd
<1>7. EndsAgree'
  <2> SUFFICES ASSUME NEW id \in DOMAIN edges
               PROVE  /\ edges[id].from \notin removed /\ id \in outDb'[edges[id].from]
                            => id \in outDb'[edges[id].to]
                      /\ edges[id].to \notin removed /\ id \in outDb'[edges[id].to]
                            => id \in outDb'[edges[id].from]
    BY <1>3 DEF EndsAgree
  <2> QED BY <1>4, <1>6 DEF GraphInv, GraphParts, EndsAgree
<1>8. liveIds' = {id \in liveIds : node \notin {edges[id].from, edges[id].to}}
  BY <1>3, <1>6 DEF liveIds
<1>9. Cached'
  BY <1>1 DEF Cached, GraphInv, GraphParts, NoBatch, Batch
<1>10. ShownNodes' /\ LinkPart' /\ UnlinkPart'
  BY <1>1, <1>4 DEF ShownNodes, LinkPart, UnlinkPart
<1>11. \E n \in Node : Graph!RemoveNode(n)
  <2> PICK n \in Node : n = node
    BY <1>2
  <2>1. \A id \in liveIds : [x \in liveIds |-> edges[x]][id] = edges[id]
    OBVIOUS
  <2> DEFINE kept == {id \in liveIds : n \notin {edges[id].from, edges[id].to}}
  <2>2. [id \in liveIds' |-> edges'[id]] = [id \in kept |-> [x \in liveIds |-> edges[x]][id]]
    BY <1>3, <1>8, <2>1
  <2> QED BY <1>4, <2>2 DEF Graph!RemoveNode, Graph!Keep
<1> QED
  BY <1>5, <1>7, <1>9, <1>10, <1>11 DEF GraphParts, GraphStep, Graph!Next

\* The process stops: what is stored stays.
LEMMA RestartParts ==
  ASSUME GraphInv, Restart, CrashPoints \subseteq {"idle", "link"}, shown' = nodes', removed' = removed
  PROVE  GraphParts' /\ GraphStep
<1>1. /\ pc \in {"idle", "link"} /\ pc' = "idle"
      /\ UNCHANGED <<nodes, edges, outDb>>
      /\ cache'.val = <<>> /\ cache'.inserted = 0 /\ batch'.out = <<>>
  BY DEF Restart, db, EmptyCache, CacheOf, NoBatch, Batch
<1>2. shown = nodes /\ shown' = shown
  BY <1>1 DEF GraphInv, GraphParts, ShownNodes
<1>3. SetsOfEnds' /\ EndsAgree'
  BY <1>1, SameStored
<1>4. Cached'
  BY <1>1, FS_EmptySet DEF Cached
<1>5. ShownNodes' /\ LinkPart' /\ UnlinkPart'
  BY <1>1, <1>2 DEF ShownNodes, LinkPart, UnlinkPart
<1> QED
  BY <1>1, <1>2, <1>3, <1>4, <1>5, SameGraph DEF GraphParts

\* destroy()
LEMMA DestroyParts ==
  ASSUME GraphInv, Destroy, shown' = nodes', removed' = {}
  PROVE  GraphParts' /\ GraphStep
<1>1. /\ pc = "idle" /\ nodes' = {} /\ edges' = <<>> /\ outDb' = NoSets
      /\ UNCHANGED <<cache, batch, pc, links, node, unlinks>>
  BY DEF Destroy, Idle, local
<1>2. liveIds' = {} /\ \A n \in Node : outDb'[n] = {}
  BY <1>1 DEF liveIds, NoSets
<1>3. SetsOfEnds' /\ EndsAgree'
  BY <1>1, <1>2 DEF SetsOfEnds, EndsAgree
<1>4. Cached'
  BY <1>1, CachedStep
<1>5. ShownNodes' /\ LinkPart' /\ UnlinkPart'
  BY <1>1 DEF ShownNodes, LinkPart, UnlinkPart
<1>6. Graph!Clear
  BY <1>1, <1>2 DEF Graph!Clear
<1> QED
  BY <1>3, <1>4, <1>5, <1>6 DEF GraphParts, GraphStep, Graph!Next

\* Every step of a client keeps the invariant and is a step of the graph or
\* none.
LEMMA ClientStep ==
  ASSUME Roomy, ~ WarmDestroy, CrashPoints \subseteq {"idle", "link"}, GraphInv, [CNext]_cvars
  PROVE  GraphInv' /\ GraphStep
<1>1. [Next]_vars
  BY DEF CNext, Noting, Calls, Next, cvars
<1>2. TypeOK' /\ Removing' /\ StoreInv'
  BY <1>1, TypeStep, StoreStep DEF GraphInv
<1> DEFINE Good == GraphParts' /\ GraphStep
<1>3. ASSUME Calls, shown' = IF pc' = "unlink" THEN shown ELSE nodes',
             removed' = IF pc' = "unlink" THEN removed \cup {node'} ELSE removed
      PROVE  Good
  <2>1. ASSUME NEW ns \in SUBSET Node, SetNodesBundle(ns) PROVE Good
    <3>1. pc' = "idle"
      BY <2>1 DEF SetNodesBundle, Idle, local
    <3> QED BY <1>3, <2>1, <3>1, SetNodesStep
  <2>2. ASSUME NEW n \in Node, SetNode(n) PROVE Good
    <3>1. {n} \in SUBSET Node
      OBVIOUS
    <3> QED BY <2>1, <2>2, <3>1 DEF SetNode
  <2>3. ASSUME NEW n \in Node, RemoveNode(n) PROVE Good
    <3>1. pc' = "unlink"
      BY <2>3 DEF RemoveNode
    <3> QED BY <1>3, <2>3, <3>1, RemoveNodeStep
  <2>4. ASSUME NEW n \in Node, ReadOut(n) PROVE Good
    <3>1. pc' = "idle"
      BY <2>4 DEF ReadOut, Idle, local
    <3> QED BY <1>3, <2>4, <3>1, ReadStep
  <2>5. ASSUME NEW eb \in Carried, Careful(eb), SetEdgesBundle(eb) PROVE Good
    <3>1. pc' = "link"
      BY <2>5 DEF SetEdgesBundle
    <3> QED BY <1>3, <2>5, <3>1, OpenStep
  <2>6. ASSUME NEW e \in Edge, Careful(<<e>>), SetEdge(e) PROVE Good
    <3>1. <<e>> \in Carried
      BY DEF Carried
    <3> QED BY <2>5, <2>6, <3>1 DEF SetEdge
  <2>7. ASSUME NEW id \in EdgeId, RemoveEdge(id) PROVE Good
    <3>1. pc' = "idle"
      BY <2>7 DEF RemoveEdge, Idle, local
    <3> QED BY <1>3, <2>7, <3>1, RemoveEdgeParts
  <2>8. \A eb \in Bundles : eb \in Carried
    BY DEF Carried
  <2> HIDE DEF Good
  <2> QED BY <1>3, <2>1, <2>2, <2>3, <2>4, <2>5, <2>6, <2>7, <2>8 DEF Calls
<1>4. ASSUME Steps, shown' = IF pc' = "unlink" THEN shown ELSE nodes', removed' = removed
      PROVE  Good
  <2>1. CASE LinkNext
    <3>1. pc' = "link"
      BY <2>1 DEF LinkNext
    <3> QED BY <1>4, <2>1, <3>1, IndexStep
  <2>2. CASE LinkDone
    <3>1. pc' = "idle"
      BY <2>2 DEF LinkDone
    <3> QED BY <1>4, <2>2, <3>1, CommitStep
  <2>3. ASSUME NEW id \in EdgeId, Unlink(id) PROVE Good
    <3>1. pc' = "unlink"
      BY <2>3 DEF Unlink
    <3> QED BY <1>4, <2>3, <3>1, UnlinkParts
  <2>4. CASE UnlinkDone
    <3>1. pc' = "idle"
      BY <2>4 DEF UnlinkDone
    <3> QED BY <1>4, <2>4, <3>1, UnlinkDoneParts
  <2> HIDE DEF Good
  <2> QED BY <1>4, <2>1, <2>2, <2>3, <2>4 DEF Steps
<1>5. ASSUME Restart, shown' = IF pc' = "unlink" THEN shown ELSE nodes', removed' = removed
      PROVE  Good
  <2>1. pc' = "idle"
    BY <1>5 DEF Restart
  <2> QED BY <1>5, <2>1, RestartParts
<1>6. ASSUME Destroy, shown' = IF pc' = "unlink" THEN shown ELSE nodes', removed' = {}
      PROVE  Good
  <2>1. pc' = "idle"
    BY <1>6 DEF Destroy, Idle, local
  <2> QED BY <1>6, <2>1, DestroyParts
<1>7. ASSUME UNCHANGED cvars PROVE Good
  <2>1. UNCHANGED <<nodes, edges, outDb, cache, batch, pc, links, node, unlinks, shown, removed>>
    BY <1>7 DEF cvars, vars, db, local
  <2>2. SetsOfEnds' /\ EndsAgree'
    BY <2>1, SameStored
  <2>3. \A n : Pending(n)' = Pending(n)
    BY <2>1 DEF Pending
  <2>4. Cached' /\ ShownNodes'
    BY <2>1 DEF GraphInv, GraphParts, Cached, ShownNodes
  <2>5. UnlinkPart'
    <3>1. \A id : OtherEnd(id)' = OtherEnd(id) /\ (Visited(id)' <=> Visited(id))
      BY <2>1 DEF OtherEnd, Visited
    <3> QED BY <2>1, <2>3, <3>1 DEF GraphInv, GraphParts, UnlinkPart
  <2>6. LinkPart'
    <3>1. \A eb \in Carried : Indexing(eb) => Indexing(eb)'
      BY <2>1, <2>3 DEF Indexing, Careful, InUse
    <3> QED BY <2>1, <3>1 DEF GraphInv, GraphParts, LinkPart
  <2> QED BY <2>1, <2>2, <2>4, <2>5, <2>6, SameGraph DEF GraphParts
<1> HIDE DEF Good
<1>8. Good
  BY <1>3, <1>4, <1>5, <1>6, <1>7 DEF CNext, Noting
<1> QED
  BY <1>2, <1>8 DEF Good, GraphInv

\* The empty store shows an empty graph.
LEMMA ClientInit ==
  ASSUME CInit
  PROVE  GraphInv /\ Graph!Init
<1>1. TypeOK /\ Removing /\ StoreInv
  BY TypeInit, StoreInit DEF CInit
<1>2. liveIds = {}
  BY DEF CInit, Init, liveIds
<1>3. GraphParts
  BY <1>2, FS_EmptySet DEF CInit, Init, EmptyCache, CacheOf, NoBatch, Batch, NoSets, GraphParts,
     Cached, SetsOfEnds, EndsAgree, ShownNodes, LinkPart, UnlinkPart
<1>4. Graph!Init
  BY <1>2 DEF CInit, Graph!Init
<1> QED
  BY <1>1, <1>3, <1>4 DEF GraphInv

\* A client's calls are calls of the store, whatever it is careful about: what
\* holds of the store in every reachable state holds for the client.
THEOREM ClientUsesStore == CSpec => Spec
<1>1. CInit => Init
  BY DEF CInit
<1>2. [CNext]_cvars => [Next]_vars
  BY DEF CNext, Noting, Calls, Next, cvars
<1> QED
  BY <1>1, <1>2, PTL DEF CSpec, Spec

\* With room in the cache for every node and no stop inside removeNode(),
\* every call of a careful client takes effect as a whole or not at all.
THEOREM StoreImplementsGraph ==
  ASSUME Roomy, ~ WarmDestroy, CrashPoints \subseteq {"idle", "link"}
  PROVE  CSpec => ImplementsGraph
<1>1. CInit => GraphInv
  BY ClientInit
<1>2. GraphInv /\ [CNext]_cvars => GraphInv'
  BY ClientStep
<1>3. CInit => Graph!Init
  BY ClientInit
<1>4. GraphInv /\ [CNext]_cvars => [Graph!Next]_(Graph!vars)
  BY ClientStep DEF GraphStep
<1> QED
  BY <1>1, <1>2, <1>3, <1>4, PTL DEF CSpec, ImplementsGraph, Graph!Spec

\* Then the set of a node never removed lists its edges, all and no others,
\* whichever end the node is.
THEOREM SetsAlwaysExact ==
  ASSUME Roomy, ~ WarmDestroy, CrashPoints \subseteq {"idle", "link"}
  PROVE  CSpec => []SetsAreExact
<1>1. CInit => GraphInv
  BY ClientInit
<1>2. GraphInv /\ [CNext]_cvars => GraphInv'
  BY ClientStep
<1>3. GraphInv => SetsAreExact
  <2> SUFFICES ASSUME GraphInv, NEW n \in Node, n \notin removed
               PROVE  outDb[n] = {id \in liveIds : n \in {edges[id].from, edges[id].to}}
    BY DEF SetsAreExact
  <2> QED BY SetFacts DEF GraphInv, GraphParts, EndsAgree, liveIds
<1> QED
  BY <1>1, <1>2, <1>3, PTL DEF CSpec
=============================================================================
