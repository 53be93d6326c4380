------------------------- MODULE DirectedStoreProofs -------------------------
(***************************************************************************)
(* Proofs about modules DirectedStore and DirectedClient, for any sets of  *)
(* nodes and edge ids and, but for the last part, any cache limits and     *)
(* crash points, and any client that does not call destroy() with entries  *)
(* in the caches; the types need nothing at all.                           *)
(*                                                                         *)
(* CacheCoherent and IdsHaveRecords are not inductive alone.  A commit     *)
(* must find in the batch everything the caches were told (WellFormed      *)
(* keeps the batch empty between calls, so that what is pending then is    *)
(* what is stored), and a crash must leave sets whose ids have stored      *)
(* records, whatever the lost batch held (StoredResolve).                  *)
(***************************************************************************)
EXTENDS DirectedClient, StoreLemmas

(***************************************************************************)
(* Types                                                                   *)
(***************************************************************************)
\* The types a step relies on, with the shared constructions named.
LEMMA TypeParts ==
  ASSUME TypeOK
  PROVE  /\ edges \in Partial(EdgeId, Ends)
         /\ batch.edge \in Partial(EdgeId, Ends)
         /\ batch.out \in Partial(Node, Sets) /\ batch.in \in Partial(Node, Sets)
         /\ batch = Batch(batch.edge, batch.out, batch.in)
         /\ \A id \in DOMAIN edges : edges[id].from \in Node /\ edges[id].to \in Node
         /\ \A n \in Node : OutEdges(n) \in Sets /\ InEdges(n) \in Sets
<1>1. edges \in Partial(EdgeId, Ends)
  BY DEF TypeOK, Records, Partial
<1>2. /\ batch.edge \in Partial(EdgeId, Ends)
      /\ batch.out \in Partial(Node, Sets) /\ batch.in \in Partial(Node, Sets)
      /\ batch = Batch(batch.edge, batch.out, batch.in)
  BY DEF TypeOK, Records, PartialSets, Partial, Batch
<1>3. \A id \in DOMAIN edges : edges[id] \in Ends
  BY <1>1, PartialHas
<1>4. ASSUME NEW n \in Node PROVE OutEdges(n) \in Sets /\ InEdges(n) \in Sets
  <2>1. outDb[n] \in Sets /\ inDb[n] \in Sets
    BY DEF TypeOK
  <2>2. outCache \in Caches(Node, Sets) /\ inCache \in Caches(Node, Sets)
    BY DEF TypeOK
  <2>3. outCache.val \in [DOMAIN outCache.val -> Sets] /\ inCache.val \in [DOMAIN inCache.val -> Sets]
    BY <2>2, CacheHas
  <2> QED BY <2>1, <2>3 DEF OutEdges, InEdges, Holds
<1> QED
  BY <1>1, <1>2, <1>3, <1>4 DEF Ends

\* The batch of new parts.
LEMMA BatchTyped ==
  ASSUME NEW e \in Partial(EdgeId, Ends), NEW o \in Partial(Node, Sets),
         NEW i \in Partial(Node, Sets)
  PROVE  Batch(e, o, i) \in [edge : Records, out : PartialSets, in : PartialSets]
BY DEF Records, PartialSets, Partial, Batch

LEMMA NoBatchTyped == NoBatch \in [edge : Records, out : PartialSets, in : PartialSets]
BY BatchTyped, EmptyPartial DEF NoBatch

\* Writing the batch keeps the types of what is stored.
LEMMA WriteTyped ==
  ASSUME TypeOK, Write
  PROVE  /\ edges' \in Records
         /\ outDb' \in [Node -> Sets] /\ inDb' \in [Node -> Sets]
         /\ batch' \in [edge : Records, out : PartialSets, in : PartialSets]
<1>1. edges' \in Records
  <2>1. Over(batch.edge, edges) \in Partial(EdgeId, Ends)
    BY TypeParts, OverPartial
  <2> QED BY <2>1 DEF Write, Records, Partial
<1>2. outDb' \in [Node -> Sets]
  <2>1. DOMAIN batch.out \subseteq Node /\ batch.out \in [DOMAIN batch.out -> Sets]
    BY TypeParts, PartialHas
  <2> QED BY <2>1 DEF Write, Over, TypeOK
<1>3. inDb' \in [Node -> Sets]
  <2>1. DOMAIN batch.in \subseteq Node /\ batch.in \in [DOMAIN batch.in -> Sets]
    BY TypeParts, PartialHas
  <2> QED BY <2>1 DEF Write, Over, TypeOK
<1> QED
  BY <1>1, <1>2, <1>3, NoBatchTyped DEF Write

\* The node whose edges a loop removes is one: what TypeOK needs to be
\* inductive.
Removing == pc \in {"unlinkIn", "unlinkOut"} => node \in Node

\* Every step keeps the types.
LEMMA TypeStep == TypeOK /\ Removing /\ [Next]_vars => TypeOK' /\ Removing'
<1> SUFFICES ASSUME TypeOK, Removing, [Next]_vars PROVE TypeOK' /\ Removing'
  OBVIOUS
<1>0. Removing'
  BY DEF Removing, Next, Steps, SetNode, SetNodesBundle, RemoveNode, ReadOut, ReadIn, SetEdge,
         SetEdgesBundle, RemoveEdge, RemoveUnknownEdge, LinkNext, LinkDone, UnlinkIn, UnlinkInDone,
         UnlinkOut, UnlinkOutDone, Restart, Destroy, vars, local, Idle
<1>c. outCache \in Caches(Node, Sets) /\ inCache \in Caches(Node, Sets)
  BY DEF TypeOK
<1>f. ASSUME NEW n \in Node
      PROVE  Find(outCache, n) \in Caches(Node, Sets) /\ Find(inCache, n) \in Caches(Node, Sets)
  BY <1>c, FindCaches
<1>r. ASSUME NEW n \in Node, NEW s \in Sets
      PROVE  /\ Rewritten(outCache, n, s) \in Caches(Node, Sets)
             /\ Rewritten(inCache, n, s) \in Caches(Node, Sets)
  BY <1>c, RewrittenCaches
<1>1. ASSUME NEW ns \in SUBSET Node, SetNodesBundle(ns) PROVE TypeOK'
  BY <1>1 DEF SetNodesBundle, TypeOK, caches, local
<1>2. ASSUME NEW n \in Node, RemoveNode(n) PROVE TypeOK'
  <2>1. unlinks' \subseteq EdgeId
    BY <1>2, TypeParts DEF RemoveNode, Sets
  <2> QED BY <1>2, <1>f, <2>1 DEF RemoveNode, TypeOK
<1>3. ASSUME NEW n \in Node, ReadOut(n) \/ ReadIn(n) PROVE TypeOK'
  BY <1>3, <1>f DEF ReadOut, ReadIn, db, local, TypeOK
<1>4. ASSUME NEW eb \in Seq(Edge), SetEdgesBundle(eb) PROVE TypeOK'
  <2>1. batch' \in [edge : Records, out : PartialSets, in : PartialSets]
    BY <1>4, RecordsOfTyped, EmptyPartial, BatchTyped DEF SetEdgesBundle
  <2> QED BY <1>4, <2>1 DEF SetEdgesBundle, TypeOK, db, caches
<1>5. ASSUME NEW id \in EdgeId, RemoveEdge(id) PROVE TypeOK'
  <2> DEFINE from == edges[id].from
             to == edges[id].to
             outSet == OutEdges(from) \ {id}
             inSet == InEdges(to) \ {id}
  <2>1. from \in Node /\ to \in Node /\ outSet \in Sets /\ inSet \in Sets
    BY <1>5, TypeParts DEF RemoveEdge, Sets
  <2>2. /\ outCache' = Rewritten(outCache, from, outSet)
        /\ inCache' = Rewritten(inCache, to, inSet)
        /\ outDb' = [outDb EXCEPT ![from] = outSet]
        /\ inDb' = [inDb EXCEPT ![to] = inSet]
        /\ UNCHANGED <<nodes, edges, batch, pc, links, node, unlinks>>
    BY <1>5 DEF RemoveEdge, local
  <2> HIDE DEF from, to, outSet, inSet
  <2>3. outDb' \in [Node -> Sets] /\ inDb' \in [Node -> Sets]
    BY <2>1, <2>2 DEF TypeOK
  <2> QED BY <1>r, <2>1, <2>2, <2>3 DEF TypeOK
<1>6. ASSUME LinkNext PROVE TypeOK'
  <2> DEFINE e == Head(links)
             outSet == OutEdges(e.from) \cup {e.id}
             inSet == InEdges(e.to) \cup {e.id}
  <2>1. e \in Edge /\ links' \in Seq(Edge)
    BY <1>6 DEF LinkNext, TypeOK
  <2>2. e.from \in Node /\ e.to \in Node /\ e.id \in EdgeId
    BY <2>1 DEF Edge
  <2> HIDE DEF e
  <2>3. outSet \in Sets /\ inSet \in Sets
    BY <2>2, TypeParts DEF Sets
  <2>4. /\ outCache' = Rewritten(outCache, e.from, outSet)
        /\ inCache' = Rewritten(inCache, e.to, inSet)
        /\ batch' = Batch(batch.edge, Put(batch.out, e.from, outSet), Put(batch.in, e.to, inSet))
        /\ UNCHANGED <<nodes, edges, outDb, inDb, pc, node, unlinks>>
    BY <1>6 DEF LinkNext, Link, db, e
  <2> HIDE DEF outSet, inSet
  <2>5. batch' \in [edge : Records, out : PartialSets, in : PartialSets]
    <3>1. /\ Put(batch.out, e.from, outSet) \in Partial(Node, Sets)
          /\ Put(batch.in, e.to, inSet) \in Partial(Node, Sets)
      BY <2>2, <2>3, TypeParts, PutPartial
    <3> QED BY <2>4, <3>1, TypeParts, BatchTyped
  <2> QED BY <1>r, <2>1, <2>2, <2>3, <2>4, <2>5 DEF TypeOK
<1>7. ASSUME LinkDone PROVE TypeOK'
  <2>1. UNCHANGED <<nodes, outCache, inCache, links, node, unlinks>> /\ pc' = "idle" /\ Write
    BY <1>7 DEF LinkDone, caches
  <2> QED BY <2>1, WriteTyped DEF TypeOK
<1>8. ASSUME NEW id \in EdgeId, UnlinkIn(id) PROVE TypeOK'
  <2>1. UNCHANGED <<nodes, edges, outDb, inDb, inCache, pc, links, node>> /\ unlinks' = unlinks \ {id}
    BY <1>8 DEF UnlinkIn, db
  <2>2. CASE id \in DOMAIN edges
    <3> DEFINE from == edges[id].from
               outSet == OutEdges(from) \ {id}
    <3>1. from \in Node /\ outSet \in Sets
      BY <2>2, TypeParts DEF Sets
    <3>2. /\ outCache' = Rewritten(outCache, from, outSet)
          /\ batch' = Batch(batch.edge, Put(batch.out, from, outSet), batch.in)
      BY <1>8, <2>2 DEF UnlinkIn, DropFromOut
    <3> HIDE DEF from, outSet
    <3>3. batch' \in [edge : Records, out : PartialSets, in : PartialSets]
      BY <3>1, <3>2, TypeParts, PutPartial, BatchTyped
    <3> QED BY <1>r, <2>1, <3>1, <3>2, <3>3 DEF TypeOK
  <2>3. CASE id \notin DOMAIN edges
    BY <1>8, <2>1, <2>3 DEF UnlinkIn, TypeOK
  <2> QED BY <2>2, <2>3
<1>9. ASSUME NEW id \in EdgeId, UnlinkOut(id) PROVE TypeOK'
  <2>1. UNCHANGED <<nodes, edges, outDb, inDb, outCache, pc, links, node>> /\ unlinks' = unlinks \ {id}
    BY <1>9 DEF UnlinkOut, db
  <2>2. CASE id \in DOMAIN edges
    <3> DEFINE to == edges[id].to
               inSet == InEdges(to) \ {id}
    <3>1. to \in Node /\ inSet \in Sets
      BY <2>2, TypeParts DEF Sets
    <3>2. /\ inCache' = Rewritten(inCache, to, inSet)
          /\ batch' = Batch(batch.edge, batch.out, Put(batch.in, to, inSet))
      BY <1>9, <2>2 DEF UnlinkOut, DropFromIn
    <3> HIDE DEF to, inSet
    <3>3. batch' \in [edge : Records, out : PartialSets, in : PartialSets]
      BY <3>1, <3>2, TypeParts, PutPartial, BatchTyped
    <3> QED BY <1>r, <2>1, <3>1, <3>2, <3>3 DEF TypeOK
  <2>3. CASE id \notin DOMAIN edges
    BY <1>9, <2>1, <2>3 DEF UnlinkOut, TypeOK
  <2> QED BY <2>2, <2>3
<1>10. ASSUME UnlinkInDone PROVE TypeOK'
  <2>1. outCache' \in Caches(Node, Sets)
    BY <1>10, <1>f DEF UnlinkInDone, Removing
  <2>2. unlinks' \subseteq EdgeId
    BY <1>10, TypeParts DEF UnlinkInDone, Sets, Removing
  <2> QED BY <1>10, <2>1, <2>2 DEF UnlinkInDone, TypeOK, db
<1>11. ASSUME UnlinkOutDone PROVE TypeOK'
  <2>1. /\ UNCHANGED <<nodes, outCache, inCache, links, unlinks>> /\ pc' = "idle" /\ node' = NoNode
        /\ Write
    BY <1>11 DEF UnlinkOutDone, caches
  <2> QED BY <2>1, WriteTyped DEF TypeOK
<1>12. ASSUME Restart PROVE TypeOK'
  <2>1. <<>> \in Seq(Edge)
    OBVIOUS
  <2> QED BY <1>12, <2>1, EmptyCaches, NoBatchTyped DEF Restart, TypeOK, db
<1>13. ASSUME Destroy PROVE TypeOK'
  <2>1. edges' \in Records
    BY <1>13, EmptyPartial DEF Destroy, Records, Partial
  <2>2. outDb' \in [Node -> Sets] /\ inDb' \in [Node -> Sets]
    BY <1>13 DEF Destroy, NoSets, Sets
  <2> QED BY <1>13, <2>1, <2>2 DEF Destroy, TypeOK, caches, local
<1>14. ASSUME UNCHANGED vars PROVE TypeOK'
  BY <1>14 DEF vars, db, caches, local, TypeOK
<1>15. ASSUME NEW e \in Edge, SetEdge(e) PROVE TypeOK'
  <2>1. <<e>> \in Seq(Edge)
    OBVIOUS
  <2> QED BY <1>4, <1>15, <2>1 DEF SetEdge
<1>16. \A eb \in Bundles : eb \in Seq(Edge)
  BY StoreAssumption
<1>17. \A n \in Node : SetNode(n) => TypeOK'
  BY <1>1 DEF SetNode
<1>18. \A id \in EdgeId : RemoveUnknownEdge(id) => UNCHANGED vars
  BY DEF RemoveUnknownEdge
<1> QED
  BY <1>0, <1>1, <1>2, <1>3, <1>4, <1>5, <1>6, <1>7, <1>8, <1>9, <1>10, <1>11, <1>12, <1>13, <1>14,
     <1>15, <1>16, <1>17, <1>18 DEF Next, Steps

\* An empty store is typed.
LEMMA TypeInit == Init => TypeOK /\ Removing
<1> SUFFICES ASSUME Init PROVE TypeOK /\ Removing
  OBVIOUS
<1>1. <<>> \in Seq(Edge) /\ <<>> \in Records
  BY EmptyPartial DEF Records, Partial
<1>2. NoSets \in [Node -> Sets]
  BY DEF NoSets, Sets
<1>3. TypeOK
  BY <1>1, <1>2, EmptyCaches, NoBatchTyped DEF Init, TypeOK
<1>4. Removing
  BY DEF Init, Removing
<1> QED
  BY <1>3, <1>4

\* The types hold in every reachable state, also of a store destroyed with
\* entries in its caches.
THEOREM TypeCorrect == Spec => []TypeOK
BY TypeInit, TypeStep, PTL DEF Spec

(***************************************************************************)
(* Steps                                                                   *)
(***************************************************************************)
\* The ids a get returns have records.
LEMMA GotIdsHaveRecords ==
  ASSUME StoreInv, NEW n \in Node
  PROVE  OutEdges(n) \cup InEdges(n) \subseteq DOMAIN edges \cup DOMAIN batch.edge
<1>1. OutEdges(n) \in {PendingOut(n), outDb[n]} /\ InEdges(n) \in {PendingIn(n), inDb[n]}
  BY DEF OutEdges, InEdges, Holds, StoreInv, CacheCoherent, OutCoherent, InCoherent
<1>2. PendingOut(n) \cup PendingIn(n) \subseteq DOMAIN edges \cup DOMAIN batch.edge
  BY DEF PendingOut, PendingIn, StoreInv, PutResolve, StoredResolve
<1>3. outDb[n] \cup inDb[n] \subseteq DOMAIN edges
  BY DEF StoreInv, StoredResolve
<1> QED
  BY <1>1, <1>2, <1>3

\* A bundle opens a batch with its records.
LEMMA SetEdgesStep ==
  ASSUME StoreInv, NEW eb \in Seq(Edge), SetEdgesBundle(eb)
  PROVE  StoreInv'
<1>1. /\ batch = NoBatch /\ batch'.out = <<>> /\ batch'.in = <<>> /\ batch'.edge = RecordsOf(eb)
      /\ links' = eb /\ pc' = "link"
      /\ UNCHANGED <<edges, outDb, inDb, outCache, inCache, node>>
  BY DEF SetEdgesBundle, Batch, StoreInv, WellFormed, db, caches
<1>2. WellFormed'
  BY <1>1, RecordsOfBundle DEF StoreInv, WellFormed, Idle
<1>3. CacheCoherent'
  BY <1>1 DEF StoreInv, CacheCoherent, OutCoherent, InCoherent, PendingOut, PendingIn,
              NoBatch, Batch
<1>4. StoredResolve' /\ PutResolve'
  BY <1>1 DEF StoreInv, StoredResolve, PutResolve
<1>5. LinksHaveRecords'
  BY <1>1, RecordsOfBundle DEF LinksHaveRecords
<1> QED
  BY <1>2, <1>3, <1>4, <1>5 DEF StoreInv

\* Indexing an edge tells the caches and the batch the same sets.
LEMMA LinkStep ==
  ASSUME StoreInv, LinkNext
  PROVE  StoreInv'
<1> DEFINE e == Head(links)
           outSet == OutEdges(e.from) \cup {e.id}
           inSet == InEdges(e.to) \cup {e.id}
<1>1. /\ e \in Edge /\ links' = Tail(links) /\ links' \in Seq(Edge)
      /\ e.id \in DOMAIN batch.edge
      /\ \A i \in DOMAIN links' : links'[i].id \in DOMAIN batch.edge
  BY DEF StoreInv, WellFormed, LinksHaveRecords, LinkNext
<1>2. e.from \in Node /\ e.to \in Node
  BY <1>1 DEF Edge
<1> HIDE DEF e
<1>3. /\ outCache' = Rewritten(outCache, e.from, outSet)
      /\ inCache' = Rewritten(inCache, e.to, inSet)
      /\ batch'.edge = batch.edge
      /\ batch'.out = Put(batch.out, e.from, outSet)
      /\ batch'.in = Put(batch.in, e.to, inSet)
      /\ pc = "link" /\ pc' = "link"
      /\ UNCHANGED <<edges, outDb, inDb, node>>
  BY DEF LinkNext, Link, Batch, db, e
<1>4. outSet \cup inSet \subseteq DOMAIN edges \cup DOMAIN batch.edge
  BY <1>1, <1>2, GotIdsHaveRecords
<1> HIDE DEF outSet, inSet
<1>5. /\ DOMAIN outCache'.val \subseteq DOMAIN outCache.val \cup {e.from}
      /\ \A x \in DOMAIN outCache'.val :
            outCache'.val[x] = IF x = e.from THEN outSet ELSE outCache.val[x]
      /\ DOMAIN inCache'.val \subseteq DOMAIN inCache.val \cup {e.to}
      /\ \A x \in DOMAIN inCache'.val :
            inCache'.val[x] = IF x = e.to THEN inSet ELSE inCache.val[x]
  BY <1>3, RewrittenKeeps
<1>6. WellFormed'
  BY <1>1, <1>2, <1>3, <1>5 DEF StoreInv, WellFormed, Put, Idle
<1>7. CacheCoherent'
  BY <1>3, <1>5 DEF StoreInv, CacheCoherent, OutCoherent, InCoherent, PendingOut, PendingIn, Put
<1>8. StoredResolve' /\ PutResolve'
  BY <1>3, <1>4 DEF StoreInv, StoredResolve, PutResolve, Put
<1>9. LinksHaveRecords'
  BY <1>1, <1>3 DEF LinksHaveRecords
<1> QED
  BY <1>6, <1>7, <1>8, <1>9 DEF StoreInv

\* The commit makes what was pending the stored state.
LEMMA WriteStep ==
  ASSUME StoreInv, Write, pc' = "idle", links = <<>>, UNCHANGED <<caches, links>>
  PROVE  StoreInv'
<1>1. batch'.edge = <<>> /\ batch'.out = <<>> /\ batch'.in = <<>> /\ batch' = NoBatch
  BY DEF Write, NoBatch, Batch
<1>2. /\ DOMAIN outDb = Node /\ DOMAIN inDb = Node
      /\ DOMAIN batch.out \subseteq Node /\ DOMAIN batch.in \subseteq Node
  BY DEF StoreInv, WellFormed
<1>3. /\ DOMAIN outDb' = Node /\ \A n \in Node : outDb'[n] = PendingOut(n)
      /\ DOMAIN inDb' = Node /\ \A n \in Node : inDb'[n] = PendingIn(n)
  BY <1>2 DEF Write, Over, PendingOut, PendingIn
<1>4. /\ DOMAIN edges' = DOMAIN edges \cup DOMAIN batch.edge
      /\ \A id \in DOMAIN edges' : edges'[id] \in Ends
  BY DEF Write, Over, StoreInv, WellFormed
<1>5. WellFormed'
  BY <1>1, <1>3, <1>4 DEF StoreInv, WellFormed, caches
<1>6. CacheCoherent'
  BY <1>1, <1>3 DEF StoreInv, WellFormed, CacheCoherent, OutCoherent, InCoherent,
                    PendingOut, PendingIn, caches
<1>7. \A n \in Node : PendingOut(n) \cup PendingIn(n) \subseteq DOMAIN edges'
  BY <1>4 DEF PendingOut, PendingIn, StoreInv, StoredResolve, PutResolve
<1>8. StoredResolve' /\ PutResolve' /\ LinksHaveRecords'
  BY <1>1, <1>3, <1>7 DEF StoredResolve, PutResolve, LinksHaveRecords
<1> QED
  BY <1>5, <1>6, <1>8 DEF StoreInv

\* Removing one edge changes a set in the cache and in the database alike.
LEMMA RemoveEdgeStep ==
  ASSUME StoreInv, NEW id, RemoveEdge(id)
  PROVE  StoreInv'
<1> DEFINE from == edges[id].from
           to == edges[id].to
           outSet == OutEdges(from) \ {id}
           inSet == InEdges(to) \ {id}
<1>1. from \in Node /\ to \in Node /\ batch = NoBatch
  BY DEF RemoveEdge, StoreInv, WellFormed, Ends
<1> HIDE DEF from, to
<1>2. /\ outCache' = Rewritten(outCache, from, outSet)
      /\ inCache' = Rewritten(inCache, to, inSet)
      /\ outDb' = [outDb EXCEPT ![from] = outSet]
      /\ inDb' = [inDb EXCEPT ![to] = inSet]
      /\ UNCHANGED <<edges, batch, pc, links, node>>
  BY DEF RemoveEdge, local, from, to
<1>3. outSet \cup inSet \subseteq DOMAIN edges
  BY <1>1, GotIdsHaveRecords DEF NoBatch, Batch
<1> HIDE DEF outSet, inSet
<1>4. /\ DOMAIN outCache'.val \subseteq DOMAIN outCache.val \cup {from}
      /\ \A x \in DOMAIN outCache'.val :
            outCache'.val[x] = IF x = from THEN outSet ELSE outCache.val[x]
      /\ DOMAIN inCache'.val \subseteq DOMAIN inCache.val \cup {to}
      /\ \A x \in DOMAIN inCache'.val :
            inCache'.val[x] = IF x = to THEN inSet ELSE inCache.val[x]
  BY <1>2, RewrittenKeeps
<1>5. batch.out = <<>> /\ batch.in = <<>> /\ DOMAIN outDb = Node /\ DOMAIN inDb = Node
  BY <1>1 DEF NoBatch, Batch, StoreInv, WellFormed
<1>6. WellFormed'
  BY <1>1, <1>2, <1>4 DEF StoreInv, WellFormed, Idle
<1>7. CacheCoherent'
  BY <1>1, <1>2, <1>4, <1>5 DEF StoreInv, CacheCoherent, OutCoherent, InCoherent,
                                PendingOut, PendingIn
<1>8. StoredResolve' /\ PutResolve'
  BY <1>2, <1>3, <1>5 DEF StoreInv, StoredResolve, PutResolve
<1>9. LinksHaveRecords'
  BY <1>2 DEF StoreInv, LinksHaveRecords
<1> QED
  BY <1>6, <1>7, <1>8, <1>9 DEF StoreInv

\* An iteration of the first loop of removeNode() tells the cache and the
\* batch the same out set.
LEMMA UnlinkInStep ==
  ASSUME StoreInv, NEW id, UnlinkIn(id)
  PROVE  StoreInv'
<1>1. CASE id \in DOMAIN edges
  <2> DEFINE from == edges[id].from
             outSet == OutEdges(from) \ {id}
  <2>1. from \in Node
    BY <1>1 DEF StoreInv, WellFormed, Ends
  <2> HIDE DEF from
  <2>2. /\ outCache' = Rewritten(outCache, from, outSet)
        /\ batch'.edge = batch.edge /\ batch'.in = batch.in
        /\ batch'.out = Put(batch.out, from, outSet)
        /\ pc = "unlinkIn"
        /\ UNCHANGED <<edges, outDb, inDb, inCache, pc, links, node>>
    BY <1>1 DEF UnlinkIn, DropFromOut, Batch, db, from
  <2>3. outSet \subseteq DOMAIN edges \cup DOMAIN batch.edge
    BY <2>1, GotIdsHaveRecords
  <2> HIDE DEF outSet
  <2>4. /\ DOMAIN outCache'.val \subseteq DOMAIN outCache.val \cup {from}
        /\ \A x \in DOMAIN outCache'.val :
              outCache'.val[x] = IF x = from THEN outSet ELSE outCache.val[x]
    BY <2>2, RewrittenKeeps
  <2>5. WellFormed'
    BY <2>1, <2>2, <2>4 DEF StoreInv, WellFormed, Put, Idle
  <2>6. CacheCoherent'
    BY <2>2, <2>4 DEF StoreInv, CacheCoherent, OutCoherent, InCoherent, PendingOut, PendingIn, Put
  <2>7. StoredResolve' /\ PutResolve' /\ LinksHaveRecords'
    BY <2>2, <2>3 DEF StoreInv, StoredResolve, PutResolve, LinksHaveRecords, Put
  <2> QED
    BY <2>5, <2>6, <2>7 DEF StoreInv
<1>2. CASE id \notin DOMAIN edges
  BY <1>2 DEF UnlinkIn, StoreInv, WellFormed, CacheCoherent, OutCoherent, InCoherent, PendingOut,
              PendingIn, StoredResolve, PutResolve, LinksHaveRecords, Idle, db
<1> QED
  BY <1>1, <1>2

\* An iteration of the second loop does the same for an in set.
LEMMA UnlinkOutStep ==
  ASSUME StoreInv, NEW id, UnlinkOut(id)
  PROVE  StoreInv'
<1>1. CASE id \in DOMAIN edges
  <2> DEFINE to == edges[id].to
             inSet == InEdges(to) \ {id}
  <2>1. to \in Node
    BY <1>1 DEF StoreInv, WellFormed, Ends
  <2> HIDE DEF to
  <2>2. /\ inCache' = Rewritten(inCache, to, inSet)
        /\ batch'.edge = batch.edge /\ batch'.out = batch.out
        /\ batch'.in = Put(batch.in, to, inSet)
        /\ pc = "unlinkOut"
        /\ UNCHANGED <<edges, outDb, inDb, outCache, pc, links, node>>
    BY <1>1 DEF UnlinkOut, DropFromIn, Batch, db, to
  <2>3. inSet \subseteq DOMAIN edges \cup DOMAIN batch.edge
    BY <2>1, GotIdsHaveRecords
  <2> HIDE DEF inSet
  <2>4. /\ DOMAIN inCache'.val \subseteq DOMAIN inCache.val \cup {to}
        /\ \A x \in DOMAIN inCache'.val :
              inCache'.val[x] = IF x = to THEN inSet ELSE inCache.val[x]
    BY <2>2, RewrittenKeeps
  <2>5. WellFormed'
    BY <2>1, <2>2, <2>4 DEF StoreInv, WellFormed, Put, Idle
  <2>6. CacheCoherent'
    BY <2>2, <2>4 DEF StoreInv, CacheCoherent, OutCoherent, InCoherent, PendingOut, PendingIn, Put
  <2>7. StoredResolve' /\ PutResolve' /\ LinksHaveRecords'
    BY <2>2, <2>3 DEF StoreInv, StoredResolve, PutResolve, LinksHaveRecords, Put
  <2> QED
    BY <2>5, <2>6, <2>7 DEF StoreInv
<1>2. CASE id \notin DOMAIN edges
  BY <1>2 DEF UnlinkOut, StoreInv, WellFormed, CacheCoherent, OutCoherent, InCoherent, PendingOut,
              PendingIn, StoredResolve, PutResolve, LinksHaveRecords, Idle, db
<1> QED
  BY <1>1, <1>2

\* Steps that touch no set, at most the order of a cache, keep the
\* invariant.
LEMMA SameSetsStep ==
  ASSUME StoreInv, UNCHANGED <<edges, outDb, inDb, batch, links>>,
         outCache'.val = outCache.val, inCache'.val = inCache.val,
         pc # "link" => pc' # "link",
         pc' # "link" => links = <<>>,
         pc' \in {"unlinkIn", "unlinkOut"} => node' \in Node,
         pc' = "idle" => batch = NoBatch
  PROVE  StoreInv'
BY DEF StoreInv, WellFormed, CacheCoherent, OutCoherent, InCoherent, PendingOut, PendingIn,
       StoredResolve, PutResolve, LinksHaveRecords, Idle

\* A restart forgets the caches and the batch; what is stored resolves.
LEMMA RestartStep ==
  ASSUME StoreInv, Restart
  PROVE  StoreInv'
<1>1. /\ outCache'.val = <<>> /\ inCache'.val = <<>>
      /\ batch' = NoBatch /\ batch'.edge = <<>> /\ batch'.out = <<>> /\ batch'.in = <<>>
      /\ pc' = "idle" /\ links' = <<>>
      /\ UNCHANGED <<edges, outDb, inDb>>
  BY DEF Restart, EmptyCache, CacheOf, NoBatch, Batch, db
<1> QED
  BY <1>1 DEF StoreInv, WellFormed, CacheCoherent, OutCoherent, InCoherent,
              StoredResolve, PutResolve, LinksHaveRecords

\* destroy() with empty caches leaves an empty store.
LEMMA DestroyStep ==
  ASSUME StoreInv, Destroy, ~ WarmDestroy
  PROVE  StoreInv'
<1>1. /\ outCache'.val = <<>> /\ inCache'.val = <<>>
      /\ outDb' = [n \in Node |-> {}] /\ inDb' = [n \in Node |-> {}] /\ edges' = <<>>
      /\ UNCHANGED <<batch, pc, links, node>> /\ pc = "idle"
  BY DEF Destroy, EmptyCache, CacheOf, NoSets, Idle, caches, local
<1>2. batch.out = <<>> /\ batch.in = <<>> /\ batch.edge = <<>>
  BY <1>1 DEF StoreInv, WellFormed, Idle, NoBatch, Batch
<1> QED
  BY <1>1, <1>2 DEF StoreInv, WellFormed, CacheCoherent, OutCoherent, InCoherent,
                    StoredResolve, PutResolve, LinksHaveRecords, Idle

(***************************************************************************)
(* The invariant                                                           *)
(***************************************************************************)
LEMMA StoreInit == Init => StoreInv
BY DEF Init, NoSets, NoBatch, Batch, EmptyCache, CacheOf, StoreInv, WellFormed, CacheCoherent,
       OutCoherent, InCoherent, StoredResolve, PutResolve, LinksHaveRecords, Idle

LEMMA StoreStep == ~ WarmDestroy /\ StoreInv /\ [Next]_vars => StoreInv'
<1> SUFFICES ASSUME ~ WarmDestroy, StoreInv, [Next]_vars PROVE StoreInv'
  OBVIOUS
<1>1. ASSUME NEW ns, SetNodesBundle(ns) PROVE StoreInv'
  BY <1>1, SameSetsStep DEF SetNodesBundle, caches, local, StoreInv, WellFormed, Idle
<1>2. ASSUME NEW n \in Node, RemoveNode(n) PROVE StoreInv'
  BY <1>2, SameSetsStep, FindKeeps DEF RemoveNode, StoreInv, WellFormed, Idle
<1>3. ASSUME NEW n \in Node, ReadOut(n) \/ ReadIn(n) PROVE StoreInv'
  BY <1>3, SameSetsStep, FindKeeps DEF ReadOut, ReadIn, db, local, StoreInv, WellFormed, Idle
<1>4. ASSUME NEW e \in Edge, SetEdge(e) PROVE StoreInv'
  <2>1. <<e>> \in Seq(Edge)
    OBVIOUS
  <2> QED
    BY <1>4, <2>1, SetEdgesStep DEF SetEdge
<1>5. ASSUME NEW eb \in Bundles, SetEdgesBundle(eb) PROVE StoreInv'
  BY <1>5, SetEdgesStep, StoreAssumption
<1>6. ASSUME NEW id \in EdgeId, RemoveEdge(id) \/ RemoveUnknownEdge(id) PROVE StoreInv'
  <2>1. CASE RemoveEdge(id)
    BY <2>1, RemoveEdgeStep
  <2>2. CASE RemoveUnknownEdge(id)
    BY <2>2, SameSetsStep DEF RemoveUnknownEdge, vars, db, caches, local, StoreInv, WellFormed, Idle
  <2> QED
    BY <1>6, <2>1, <2>2
<1>7. CASE Steps
  <2>1. CASE LinkNext
    BY <2>1, LinkStep
  <2>2. CASE LinkDone
    BY <2>2, WriteStep DEF LinkDone, caches
  <2>3. ASSUME NEW id \in EdgeId, UnlinkIn(id) \/ UnlinkOut(id) PROVE StoreInv'
    BY <2>3, UnlinkInStep, UnlinkOutStep
  <2>4. CASE UnlinkInDone
    BY <2>4, SameSetsStep, FindKeeps DEF UnlinkInDone, db, StoreInv, WellFormed
  <2>5. CASE UnlinkOutDone
    BY <2>5, WriteStep DEF UnlinkOutDone, caches, StoreInv, WellFormed
  <2> QED
    BY <1>7, <2>1, <2>2, <2>3, <2>4, <2>5 DEF Steps
<1>8. CASE Restart
  BY <1>8, RestartStep
<1>9. CASE Destroy
  BY <1>9, DestroyStep
<1>10. CASE UNCHANGED vars
  BY <1>10, SameSetsStep DEF vars, db, caches, local, StoreInv, WellFormed, Idle
<1> QED
  BY <1>1, <1>2, <1>3, <1>4, <1>5, <1>6, <1>7, <1>8, <1>9, <1>10 DEF Next, SetNode

\* Reading through a cache is reading the database with the open batch over
\* it, in every reachable state.
THEOREM CacheAlwaysCoherent == ASSUME ~ WarmDestroy PROVE Spec => []CacheCoherent
<1>1. StoreInv => CacheCoherent
  BY DEF StoreInv
<1> QED
  BY <1>1, StoreInit, StoreStep, PTL DEF Spec

\* Every id in a set of edges has an edge record, in every reachable state.
THEOREM IdsAlwaysHaveRecords == ASSUME ~ WarmDestroy PROVE Spec => []IdsHaveRecords
<1>1. StoreInv => IdsHaveRecords
  BY DEF StoreInv, StoredResolve, PutResolve, IdsHaveRecords, PendingOut, PendingIn
<1> QED
  BY <1>1, StoreInit, StoreStep, PTL DEF Spec
-----------------------------------------------------------------------------

(***************************************************************************)
(* A careful client is shown a graph                                       *)
(*                                                                         *)
(* GraphParts says, beside what StoreInv says, which edges the sets hold   *)
(* between calls, and in the loops how far the open batch is from the      *)
(* stored sets.  The hypotheses are those of a store that has room in its  *)
(* caches for the sets of all nodes, as the 1048576 entries of the code    *)
(* have for the graphs it is made for, and of a process that does not stop *)
(* between the two writes of removeNode().  DirectedCrash and              *)
(* DirectedSaturated show that both are needed.                            *)
(***************************************************************************)
Roomy == IsFiniteSet(Node) /\ Cardinality(Node) <= MaxObjectSize

\* Every set of the open batch is in its cache, which never had to clear.
Cached ==
  /\ outCache.inserted = Cardinality(DOMAIN outCache.val)
  /\ inCache.inserted = Cardinality(DOMAIN inCache.val)
  /\ DOMAIN batch.out \subseteq DOMAIN outCache.val
  /\ DOMAIN batch.in \subseteq DOMAIN inCache.val

\* A set holds edges of its own node only.
SetsOfEnds ==
  \A n \in Node : /\ \A id \in outDb[n] : edges[id].from = n
                  /\ \A id \in inDb[n] : edges[id].to = n

\* The two sets of an edge agree, except those of a removed node.
EndsAgree ==
  \A id \in DOMAIN edges :
    /\ edges[id].from \notin removed /\ id \in outDb[edges[id].from] => id \in inDb[edges[id].to]
    /\ edges[id].to \notin removed /\ id \in inDb[edges[id].to] => id \in outDb[edges[id].from]

\* removeNode() takes the node before its edges.
ShownNodes ==
  IF pc \in {"unlinkIn", "unlinkOut"}
  THEN nodes = shown \ {node} /\ node \in removed
  ELSE nodes = shown

LiveEndsShown == \A id \in liveIds : {edges[id].from, edges[id].to} \subseteq shown

\* The loop over the bundle eb: an edge is still to be visited or its id is
\* in both pending sets, and nothing else was added to a set.
Indexing(eb) ==
  /\ batch.edge = RecordsOf(eb)
  /\ Careful(eb)
  /\ \A j \in DOMAIN links : \E i \in DOMAIN eb : links[j] = eb[i]
  /\ \A i \in DOMAIN eb :
       \/ \E j \in DOMAIN links : links[j] = eb[i]
       \/ eb[i].id \in PendingOut(eb[i].from) /\ eb[i].id \in PendingIn(eb[i].to)
  /\ \A n \in Node :
       /\ outDb[n] \subseteq PendingOut(n) /\ inDb[n] \subseteq PendingIn(n)
       /\ \A id \in PendingOut(n) \ outDb[n] : \E i \in DOMAIN eb : eb[i].id = id /\ eb[i].from = n
       /\ \A id \in PendingIn(n) \ inDb[n] : \E i \in DOMAIN eb : eb[i].id = id /\ eb[i].to = n

Carried == Bundles \cup {<<e>> : e \in Edge}

LinkPart == pc = "link" => \E eb \in Carried : Indexing(eb)

\* The bundles a call may carry are sequences of edges.
LEMMA CarriedEdges ==
  ASSUME NEW eb \in Carried
  PROVE  /\ eb \in Seq(Edge)
         /\ \A i \in DOMAIN eb : eb[i].id \in EdgeId /\ eb[i].from \in Node /\ eb[i].to \in Node
<1>1. \A e \in Edge : <<e>> \in Seq(Edge)
  OBVIOUS
<1>2. eb \in Seq(Edge)
  BY <1>1, StoreAssumption, Zenon DEF Carried
<1>3. \A i \in DOMAIN eb : eb[i] \in Edge
  BY <1>2
<1> QED
  BY <1>2, <1>3 DEF Edge

\* The loops over the edges of a node: what was visited is gone from the
\* pending sets of the other ends, and nothing else.
UnlinkPart ==
  /\ pc \in {"unlinkIn", "unlinkOut"} => batch.edge = <<>>
  /\ pc = "unlinkIn" =>
       /\ unlinks \subseteq inDb[node]
       /\ \A n \in Node : PendingIn(n) = inDb[n] /\ PendingOut(n) = outDb[n] \ (inDb[node] \ unlinks)
  /\ pc = "unlinkOut" =>
       /\ unlinks \subseteq PendingOut(node)
       /\ \A n \in Node : /\ PendingOut(n) = outDb[n] \ inDb[node]
                          /\ PendingIn(n) = inDb[n] \ (PendingOut(node) \ unlinks)

GraphParts ==
  Cached /\ SetsOfEnds /\ EndsAgree /\ ShownNodes /\ LiveEndsShown /\ LinkPart /\ UnlinkPart

GraphInv == TypeOK /\ Removing /\ StoreInv /\ GraphParts

\* A step of the graph, or none.
GraphStep == [Graph!Next]_(Graph!vars)

\* While every set of the batch is in a cache, reads show the batch.
LEMMA ReadsShowBatch ==
  ASSUME StoreInv, Cached, NEW n \in Node
  PROVE  OutEdges(n) = PendingOut(n) /\ InEdges(n) = PendingIn(n)
BY DEF OutEdges, InEdges, Holds, StoreInv, CacheCoherent, OutCoherent, InCoherent, PendingOut,
       PendingIn, Cached

\* Between calls nothing is pending.
LEMMA NothingPending ==
  ASSUME batch = NoBatch
  PROVE  /\ batch.edge = <<>> /\ DOMAIN batch.out = {} /\ DOMAIN batch.in = {}
         /\ \A n \in Node : PendingOut(n) = outDb[n] /\ PendingIn(n) = inDb[n]
<1>1. batch.edge = <<>> /\ batch.out = <<>> /\ batch.in = <<>>
  BY DEF NoBatch, Batch
<1> QED
  BY <1>1 DEF PendingOut, PendingIn

\* What the invariant says of the ends and records of what is in a set.
LEMMA SetFacts ==
  ASSUME GraphInv
  PROVE  /\ \A id \in DOMAIN edges : edges[id].from \in Node /\ edges[id].to \in Node
         /\ \A n \in Node : /\ \A id \in outDb[n] : id \in DOMAIN edges /\ edges[id].from = n
                            /\ \A id \in inDb[n] : id \in DOMAIN edges /\ edges[id].to = n
BY DEF GraphInv, GraphParts, SetsOfEnds, StoreInv, WellFormed, StoredResolve, Ends

\* Steps that store nothing.
LEMMA SameStored ==
  ASSUME GraphInv, UNCHANGED <<edges, outDb, inDb>>, removed \subseteq removed', shown \subseteq shown'
  PROVE  SetsOfEnds' /\ EndsAgree' /\ LiveEndsShown' /\ liveIds' = liveIds
<1>1. liveIds' = liveIds
  BY DEF liveIds
<1>2. SetsOfEnds' /\ EndsAgree'
  BY DEF GraphInv, GraphParts, SetsOfEnds, EndsAgree
<1>3. LiveEndsShown'
  BY <1>1 DEF GraphInv, GraphParts, LiveEndsShown
<1> QED
  BY <1>1, <1>2, <1>3

\* A step that stores nothing and shows the same nodes is none of the graph.
LEMMA SameGraph ==
  ASSUME UNCHANGED <<edges, outDb, inDb, shown>>
  PROVE  GraphStep
BY DEF GraphStep, Graph!vars, liveIds

\* Steps between calls, or from one to the next loop, with no batch.
LEMMA CachedStep ==
  ASSUME GraphInv, batch' = batch,
         outCache'.val = outCache.val, outCache'.inserted = outCache.inserted,
         inCache'.val = inCache.val, inCache'.inserted = inCache.inserted
  PROVE  Cached'
BY DEF GraphInv, GraphParts, Cached

\* find() inserts nothing.
LEMMA FindSame == ASSUME NEW c, NEW k PROVE Find(c, k).val = c.val /\ Find(c, k).inserted = c.inserted
BY DEF Find, CacheOf

\* setNodesBundle()
LEMMA SetNodesStep ==
  ASSUME GraphInv, NEW ns \in SUBSET Node, SetNodesBundle(ns), shown' = nodes', removed' = removed
  PROVE  GraphParts' /\ GraphStep
<1>1. /\ pc = "idle" /\ nodes' = nodes \cup ns
      /\ UNCHANGED <<edges, outDb, inDb, outCache, inCache, batch, pc, links, node, unlinks>>
  BY DEF SetNodesBundle, Idle, caches, local
<1>2. shown = nodes /\ shown' = shown \cup ns
  BY <1>1 DEF GraphInv, GraphParts, ShownNodes
<1>3. SetsOfEnds' /\ EndsAgree' /\ LiveEndsShown' /\ liveIds' = liveIds
  BY <1>1, <1>2, SameStored
<1>4. Cached'
  BY <1>1, CachedStep
<1>5. ShownNodes' /\ LinkPart' /\ UnlinkPart'
  BY <1>1 DEF ShownNodes, LinkPart, UnlinkPart
<1>6. Graph!SetNodes(ns)
  BY <1>1, <1>2, <1>3 DEF Graph!SetNodes
<1> QED
  BY <1>3, <1>4, <1>5, <1>6 DEF GraphParts, GraphStep, Graph!Next

\* getOutEdge(), getInEdge()
LEMMA ReadStep ==
  ASSUME GraphInv, NEW n \in Node, ReadOut(n) \/ ReadIn(n), shown' = nodes', removed' = removed
  PROVE  GraphParts' /\ GraphStep
<1>1. /\ pc = "idle"
      /\ UNCHANGED <<nodes, edges, outDb, inDb, batch, pc, links, node, unlinks>>
      /\ outCache' \in {outCache, Find(outCache, n)} /\ inCache' \in {inCache, Find(inCache, n)}
  BY DEF ReadOut, ReadIn, Idle, db, local
<1>2. shown = nodes /\ shown' = shown
  BY <1>1 DEF GraphInv, GraphParts, ShownNodes
<1>3. SetsOfEnds' /\ EndsAgree' /\ LiveEndsShown'
  BY <1>1, <1>2, SameStored
<1>4. Cached'
  BY <1>1, CachedStep, FindSame
<1>5. ShownNodes' /\ LinkPart' /\ UnlinkPart'
  BY <1>1, <1>2 DEF ShownNodes, LinkPart, UnlinkPart
<1> QED
  BY <1>1, <1>2, <1>3, <1>4, <1>5, SameGraph DEF GraphParts

\* setEdge(), setEdgesBundle(): the loop has visited no edge.
LEMMA OpenStep ==
  ASSUME GraphInv, NEW eb \in Carried, Careful(eb), SetEdgesBundle(eb), shown' = nodes',
         removed' = removed
  PROVE  GraphParts' /\ GraphStep
<1>1. /\ pc = "idle" /\ pc' = "link" /\ links' = eb
      /\ UNCHANGED <<nodes, edges, outDb, inDb, outCache, inCache, node, unlinks>>
      /\ batch'.edge = RecordsOf(eb) /\ batch'.out = <<>> /\ batch'.in = <<>>
  BY DEF SetEdgesBundle, Idle, db, caches, Batch
<1>2. shown = nodes /\ shown' = shown
  BY <1>1 DEF GraphInv, GraphParts, ShownNodes
<1>3. SetsOfEnds' /\ EndsAgree' /\ LiveEndsShown'
  BY <1>1, <1>2, SameStored
<1>4. Cached'
  BY <1>1 DEF GraphInv, GraphParts, Cached
<1>5. ShownNodes' /\ UnlinkPart'
  BY <1>1, <1>2 DEF ShownNodes, UnlinkPart
<1>6. \A n : PendingOut(n)' = outDb[n] /\ PendingIn(n)' = inDb[n]
  BY <1>1 DEF PendingOut, PendingIn
<1>7. Careful(eb)'
  BY <1>1 DEF Careful, InUse
<1>8. Indexing(eb)'
  BY <1>1, <1>6, <1>7 DEF Indexing
<1> QED
  BY <1>1, <1>2, <1>3, <1>4, <1>5, <1>8, SameGraph DEF GraphParts, LinkPart

\* removeNode() opens its first loop.
LEMMA RemoveNodeStep ==
  ASSUME GraphInv, NEW n \in Node, RemoveNode(n), shown' = shown, removed' = removed \cup {node'}
  PROVE  GraphParts' /\ GraphStep
<1>1. /\ pc = "idle" /\ pc' = "unlinkIn" /\ nodes' = nodes \ {n} /\ node' = n
      /\ UNCHANGED <<edges, outDb, inDb, outCache, batch, links>>
      /\ inCache' = Find(inCache, n) /\ unlinks' = InEdges(n)
  BY DEF RemoveNode, Idle
<1>2. SetsOfEnds' /\ EndsAgree' /\ LiveEndsShown'
  BY <1>1, SameStored
<1>3. batch = NoBatch
  BY <1>1 DEF GraphInv, StoreInv, WellFormed, Idle
<1>4. Cached'
  BY <1>1, CachedStep, FindSame
<1>5. ShownNodes' /\ LinkPart'
  BY <1>1 DEF ShownNodes, LinkPart, GraphInv, GraphParts
<1>6. unlinks' = inDb[n]
  BY <1>1, <1>3, NothingPending, ReadsShowBatch DEF GraphInv, GraphParts
<1>7. batch'.edge = <<>> /\ \A m \in Node : PendingOut(m)' = outDb[m] /\ PendingIn(m)' = inDb[m]
  BY <1>1, <1>3, NothingPending DEF PendingOut, PendingIn
<1>8. UnlinkPart'
  BY <1>1, <1>6, <1>7 DEF UnlinkPart
<1> QED
  BY <1>1, <1>2, <1>4, <1>5, <1>8, SameGraph DEF GraphParts

\* A step that rewrites an out set, in the cache and in the batch.
LEMMA PutOut ==
  ASSUME Roomy, GraphInv, NEW n \in Node, NEW ids,
         outCache' = Rewritten(outCache, n, ids), batch'.out = Put(batch.out, n, ids), outDb' = outDb
  PROVE  /\ outCache'.inserted = Cardinality(DOMAIN outCache'.val)
         /\ DOMAIN batch'.out \subseteq DOMAIN outCache'.val
         /\ PendingOut(n)' = ids /\ \A m \in Node \ {n} : PendingOut(m)' = PendingOut(m)
<1>1. DOMAIN outCache.val \subseteq Node
  BY DEF GraphInv, StoreInv, WellFormed
<1>2. /\ DOMAIN outCache'.val = DOMAIN outCache.val \cup {n}
      /\ outCache'.inserted = Cardinality(DOMAIN outCache'.val)
  BY <1>1, RoomyRewritten DEF Roomy, GraphInv, GraphParts, Cached
<1>3. DOMAIN batch'.out \subseteq DOMAIN outCache'.val
  BY <1>2 DEF Put, GraphInv, GraphParts, Cached
<1>4. PendingOut(n)' = ids /\ \A m \in Node \ {n} : PendingOut(m)' = PendingOut(m)
  BY DEF PendingOut, Put
<1> QED
  BY <1>2, <1>3, <1>4

\* A step that rewrites an in set.
LEMMA PutIn ==
  ASSUME Roomy, GraphInv, NEW n \in Node, NEW ids,
         inCache' = Rewritten(inCache, n, ids), batch'.in = Put(batch.in, n, ids), inDb' = inDb
  PROVE  /\ inCache'.inserted = Cardinality(DOMAIN inCache'.val)
         /\ DOMAIN batch'.in \subseteq DOMAIN inCache'.val
         /\ PendingIn(n)' = ids /\ \A m \in Node \ {n} : PendingIn(m)' = PendingIn(m)
<1>1. DOMAIN inCache.val \subseteq Node
  BY DEF GraphInv, StoreInv, WellFormed
<1>2. /\ DOMAIN inCache'.val = DOMAIN inCache.val \cup {n}
      /\ inCache'.inserted = Cardinality(DOMAIN inCache'.val)
  BY <1>1, RoomyRewritten DEF Roomy, GraphInv, GraphParts, Cached
<1>3. DOMAIN batch'.in \subseteq DOMAIN inCache'.val
  BY <1>2 DEF Put, GraphInv, GraphParts, Cached
<1>4. PendingIn(n)' = ids /\ \A m \in Node \ {n} : PendingIn(m)' = PendingIn(m)
  BY DEF PendingIn, Put
<1> QED
  BY <1>2, <1>3, <1>4

\* One edge of the bundle is indexed.
LEMMA IndexStep ==
  ASSUME Roomy, GraphInv, LinkNext, shown' = nodes', removed' = removed
  PROVE  GraphParts' /\ GraphStep
<1> DEFINE e == Head(links)
           outSet == OutEdges(e.from) \cup {e.id}
           inSet == InEdges(e.to) \cup {e.id}
<1>1. /\ e \in Edge /\ links' = Tail(links)
      /\ \E j \in DOMAIN links : links[j] = e
      /\ \A j \in DOMAIN links : links[j] = e \/ \E i \in DOMAIN links' : links'[i] = links[j]
      /\ \A i \in DOMAIN links' : \E j \in DOMAIN links : links'[i] = links[j]
  <2>1. links \in Seq(Edge) /\ links # <<>> /\ links' = Tail(links)
    BY DEF GraphInv, TypeOK, LinkNext
  <2>2. /\ Len(links) \in Nat /\ Len(links) >= 1
        /\ DOMAIN links = 1..Len(links) /\ DOMAIN links' = 1..Len(links) - 1
        /\ e = links[1] /\ \A i \in 1..Len(links) - 1 : links'[i] = links[i + 1]
    BY <2>1
  <2>3. \A j \in 1..Len(links) : j = 1 \/ (j - 1 \in 1..Len(links) - 1 /\ (j - 1) + 1 = j)
    BY <2>2
  <2>4. ASSUME NEW j \in DOMAIN links
        PROVE  links[j] = e \/ \E i \in DOMAIN links' : links'[i] = links[j]
    BY <2>2, <2>3
  <2>5. \A i \in 1..Len(links) - 1 : i + 1 \in 1..Len(links)
    BY <2>2
  <2> QED BY <2>1, <2>2, <2>4, <2>5
<1>2. e.from \in Node /\ e.to \in Node /\ e.id \in EdgeId
  BY <1>1 DEF Edge
<1> PICK from \in Node, to \in Node, new \in EdgeId : from = e.from /\ to = e.to /\ new = e.id
  BY <1>2
<1> HIDE DEF e
<1>3. /\ outCache' = Rewritten(outCache, from, outSet)
      /\ inCache' = Rewritten(inCache, to, inSet)
      /\ batch'.edge = batch.edge
      /\ batch'.out = Put(batch.out, from, outSet)
      /\ batch'.in = Put(batch.in, to, inSet)
      /\ pc = "link" /\ pc' = "link"
      /\ UNCHANGED <<nodes, edges, outDb, inDb, node>>
  BY DEF LinkNext, Link, Batch, db, e
<1>4. outSet = PendingOut(from) \cup {new} /\ inSet = PendingIn(to) \cup {new}
  BY <1>2, ReadsShowBatch DEF GraphInv, GraphParts
<1> HIDE DEF outSet, inSet
<1>5. /\ outCache'.inserted = Cardinality(DOMAIN outCache'.val)
      /\ DOMAIN batch'.out \subseteq DOMAIN outCache'.val
      /\ PendingOut(from)' = PendingOut(from) \cup {new}
      /\ \A m \in Node \ {from} : PendingOut(m)' = PendingOut(m)
  BY <1>2, <1>3, <1>4, PutOut
<1>6. /\ inCache'.inserted = Cardinality(DOMAIN inCache'.val)
      /\ DOMAIN batch'.in \subseteq DOMAIN inCache'.val
      /\ PendingIn(to)' = PendingIn(to) \cup {new}
      /\ \A m \in Node \ {to} : PendingIn(m)' = PendingIn(m)
  BY <1>2, <1>3, <1>4, PutIn
<1>7. shown = nodes /\ shown' = shown
  BY <1>3 DEF GraphInv, GraphParts, ShownNodes
<1>8. SetsOfEnds' /\ EndsAgree' /\ LiveEndsShown'
  BY <1>3, <1>7, SameStored
<1>9. Cached' /\ ShownNodes' /\ UnlinkPart'
  BY <1>3, <1>5, <1>6, <1>7 DEF Cached, ShownNodes, UnlinkPart
<1>10. PICK eb \in Carried : Indexing(eb)
  BY <1>3 DEF GraphInv, GraphParts, LinkPart
<1>11. \A i \in DOMAIN eb : eb[i].from \in Node /\ eb[i].to \in Node
  BY CarriedEdges
<1>12. Careful(eb)'
  BY <1>3, <1>10 DEF Careful, InUse, Indexing
<1>13. \A m \in Node : /\ PendingOut(m) \subseteq PendingOut(m)'
                       /\ PendingOut(m)' \subseteq PendingOut(m) \cup {new}
                       /\ PendingIn(m) \subseteq PendingIn(m)'
                       /\ PendingIn(m)' \subseteq PendingIn(m) \cup {new}
                       /\ m # from => PendingOut(m)' = PendingOut(m)
                       /\ m # to => PendingIn(m)' = PendingIn(m)
  BY <1>5, <1>6
<1>14. \E k \in DOMAIN eb : eb[k].id = new /\ eb[k].from = from /\ eb[k].to = to
  BY <1>1, <1>10 DEF Indexing
<1>15. \A j \in DOMAIN links' : \E i \in DOMAIN eb : links'[j] = eb[i]
  BY <1>1, <1>10 DEF Indexing
<1>16. ASSUME NEW i \in DOMAIN eb
       PROVE  \/ \E j \in DOMAIN links' : links'[j] = eb[i]
              \/ eb[i].id \in PendingOut(eb[i].from)' /\ eb[i].id \in PendingIn(eb[i].to)'
  <2>1. CASE eb[i] = e
    BY <1>5, <1>6, <2>1
  <2>2. CASE eb[i] # e
    <3>1. \/ \E j \in DOMAIN links : links[j] = eb[i]
          \/ eb[i].id \in PendingOut(eb[i].from) /\ eb[i].id \in PendingIn(eb[i].to)
      BY <1>10 DEF Indexing
    <3> QED BY <1>1, <1>11, <1>13, <2>2, <3>1
  <2> QED BY <2>1, <2>2
<1>17. ASSUME NEW n \in Node
       PROVE  /\ outDb[n] \subseteq PendingOut(n)' /\ inDb[n] \subseteq PendingIn(n)'
              /\ \A id \in PendingOut(n)' \ outDb[n] :
                    \E i \in DOMAIN eb : eb[i].id = id /\ eb[i].from = n
              /\ \A id \in PendingIn(n)' \ inDb[n] :
                    \E i \in DOMAIN eb : eb[i].id = id /\ eb[i].to = n
  <2>1. /\ outDb[n] \subseteq PendingOut(n) /\ inDb[n] \subseteq PendingIn(n)
        /\ \A id \in PendingOut(n) \ outDb[n] : \E i \in DOMAIN eb : eb[i].id = id /\ eb[i].from = n
        /\ \A id \in PendingIn(n) \ inDb[n] : \E i \in DOMAIN eb : eb[i].id = id /\ eb[i].to = n
    BY <1>10 DEF Indexing
  <2> QED BY <1>13, <1>14, <2>1
<1>18. Indexing(eb)'
  BY <1>3, <1>10, <1>12, <1>15, <1>16, <1>17 DEF Indexing
<1>19. LinkPart'
  BY <1>18 DEF LinkPart
<1> QED
  BY <1>3, <1>7, <1>8, <1>9, <1>19, SameGraph DEF GraphParts

\* What the commit of a batch leaves in the sets.
LEMMA Written ==
  ASSUME GraphInv, Write
  PROVE  /\ edges' = Over(batch.edge, edges) /\ batch' = NoBatch
         /\ \A n \in Node : outDb'[n] = PendingOut(n) /\ inDb'[n] = PendingIn(n)
<1>1. /\ DOMAIN outDb = Node /\ DOMAIN inDb = Node
      /\ DOMAIN batch.out \subseteq Node /\ DOMAIN batch.in \subseteq Node
  BY DEF GraphInv, StoreInv, WellFormed
<1> QED
  BY <1>1 DEF Write, Over, PendingOut, PendingIn

\* removeEdge()
LEMMA RemoveEdgeParts ==
  ASSUME Roomy, GraphInv, NEW id \in EdgeId, RemoveEdge(id), shown' = nodes', removed' = removed
  PROVE  GraphParts' /\ GraphStep
<1> DEFINE from == edges[id].from
           to == edges[id].to
           outSet == OutEdges(from) \ {id}
           inSet == InEdges(to) \ {id}
<1>1. /\ id \in DOMAIN edges /\ pc = "idle" /\ batch = NoBatch
      /\ outCache' = Rewritten(outCache, from, outSet)
      /\ inCache' = Rewritten(inCache, to, inSet)
      /\ outDb' = [outDb EXCEPT ![from] = outSet]
      /\ inDb' = [inDb EXCEPT ![to] = inSet]
      /\ UNCHANGED <<nodes, edges, batch, pc, links, node, unlinks>>
  BY DEF RemoveEdge, local, Idle, GraphInv, StoreInv, WellFormed
<1>2. from \in Node /\ to \in Node
  BY <1>1, SetFacts
<1>3. outSet = outDb[from] \ {id} /\ inSet = inDb[to] \ {id}
  BY <1>1, <1>2, ReadsShowBatch, NothingPending DEF GraphInv, GraphParts
<1> HIDE DEF from, to, outSet, inSet
<1>4. /\ \A n \in Node : \A x : x \in outDb'[n] <=> x \in outDb[n] /\ ~ (n = from /\ x = id)
      /\ \A n \in Node : \A x : x \in inDb'[n] <=> x \in inDb[n] /\ ~ (n = to /\ x = id)
  <2>1. DOMAIN outDb = Node /\ DOMAIN inDb = Node
    BY DEF GraphInv, StoreInv, WellFormed
  <2> QED BY <1>1, <1>2, <1>3, <2>1
<1>5. shown = nodes /\ shown' = shown
  BY <1>1 DEF GraphInv, GraphParts, ShownNodes
<1>6. SetsOfEnds'
  BY <1>1, <1>4 DEF SetsOfEnds, GraphInv, GraphParts
<1>7. \A x \in DOMAIN edges : edges[x].from \in Node /\ edges[x].to \in Node
  BY SetFacts
<1>8. \A x \in DOMAIN edges : /\ x \in outDb'[edges[x].from] <=> x \in outDb[edges[x].from] /\ x # id
                              /\ x \in inDb'[edges[x].to] <=> x \in inDb[edges[x].to] /\ x # id
  BY <1>4, <1>7 DEF from, to
<1>9. EndsAgree'
  BY <1>1, <1>8 DEF EndsAgree, GraphInv, GraphParts
<1>10. liveIds' = liveIds \ {id}
  BY <1>1, <1>8 DEF liveIds
<1>11. LiveEndsShown'
  BY <1>1, <1>5, <1>10 DEF LiveEndsShown, GraphInv, GraphParts
<1>12. Cached'
  <2>1. DOMAIN outCache.val \subseteq Node /\ DOMAIN inCache.val \subseteq Node
    BY DEF GraphInv, StoreInv, WellFormed
  <2>2. outCache'.inserted = Cardinality(DOMAIN outCache'.val)
    BY <1>1, <1>2, <2>1, RoomyRewritten DEF Roomy, GraphInv, GraphParts, Cached
  <2>3. inCache'.inserted = Cardinality(DOMAIN inCache'.val)
    BY <1>1, <1>2, <2>1, RoomyRewritten DEF Roomy, GraphInv, GraphParts, Cached
  <2> QED BY <1>1, <2>2, <2>3, NothingPending DEF Cached
<1>13. ShownNodes' /\ LinkPart' /\ UnlinkPart'
  BY <1>1, <1>5 DEF ShownNodes, LinkPart, UnlinkPart
<1>14. Graph!RemoveEdge(id)
  BY <1>1, <1>5, <1>10 DEF Graph!RemoveEdge, Graph!Keep
<1> QED
  BY <1>6, <1>9, <1>11, <1>12, <1>13, <1>14 DEF GraphParts, GraphStep, Graph!Next

\* The process stops: what is stored stays.
LEMMA RestartParts ==
  ASSUME GraphInv, Restart, CrashPoints \subseteq {"idle", "link"}, shown' = nodes', removed' = removed
  PROVE  GraphParts' /\ GraphStep
<1>1. /\ pc \in {"idle", "link"} /\ pc' = "idle"
      /\ UNCHANGED <<nodes, edges, outDb, inDb>>
      /\ outCache'.val = <<>> /\ outCache'.inserted = 0
      /\ inCache'.val = <<>> /\ inCache'.inserted = 0
      /\ batch'.out = <<>> /\ batch'.in = <<>>
  BY DEF Restart, db, EmptyCache, CacheOf, NoBatch, Batch
<1>2. shown = nodes /\ shown' = shown
  BY <1>1 DEF GraphInv, GraphParts, ShownNodes
<1>3. SetsOfEnds' /\ EndsAgree' /\ LiveEndsShown'
  BY <1>1, <1>2, SameStored
<1>4. Cached'
  BY <1>1, FS_EmptySet DEF Cached
<1>5. ShownNodes' /\ LinkPart' /\ UnlinkPart'
  BY <1>1, <1>2 DEF ShownNodes, LinkPart, UnlinkPart
<1> QED
  BY <1>1, <1>2, <1>3, <1>4, <1>5, SameGraph DEF GraphParts

\* destroy()
LEMMA DestroyParts ==
  ASSUME GraphInv, Destroy, shown' = nodes', removed' = {}
  PROVE  GraphParts' /\ GraphStep
<1>1. /\ pc = "idle" /\ nodes' = {} /\ edges' = <<>> /\ outDb' = NoSets /\ inDb' = NoSets
      /\ UNCHANGED <<outCache, inCache, batch, pc, links, node, unlinks>>
  BY DEF Destroy, Idle, caches, local
<1>2. \A n \in Node : outDb'[n] = {} /\ inDb'[n] = {}
  BY <1>1 DEF NoSets
<1>3. liveIds' = {}
  BY <1>1 DEF liveIds
<1>4. SetsOfEnds' /\ EndsAgree' /\ LiveEndsShown'
  BY <1>1, <1>2, <1>3 DEF SetsOfEnds, EndsAgree, LiveEndsShown
<1>5. Cached'
  BY <1>1, CachedStep
<1>6. ShownNodes' /\ LinkPart' /\ UnlinkPart'
  BY <1>1 DEF ShownNodes, LinkPart, UnlinkPart
<1>7. Graph!Clear
  BY <1>1, <1>3 DEF Graph!Clear
<1> QED
  BY <1>4, <1>5, <1>6, <1>7 DEF GraphParts, GraphStep, Graph!Next

\* setEdge(), setEdgesBundle() commit: all edges of the bundle at once.
LEMMA CommitStep ==
  ASSUME GraphInv, LinkDone, shown' = nodes', removed' = removed
  PROVE  GraphParts' /\ GraphStep
<1>1. /\ pc = "link" /\ pc' = "idle" /\ links = <<>>
      /\ UNCHANGED <<nodes, outCache, inCache, links, node, unlinks>>
      /\ edges' = Over(batch.edge, edges) /\ batch' = NoBatch
      /\ \A n \in Node : outDb'[n] = PendingOut(n) /\ inDb'[n] = PendingIn(n)
  BY Written DEF LinkDone, caches
<1>2. shown = nodes /\ shown' = shown
  BY <1>1 DEF GraphInv, GraphParts, ShownNodes
<1>3. PICK eb \in Carried : Indexing(eb)
  BY <1>1 DEF GraphInv, GraphParts, LinkPart
<1> DEFINE ids == {eb[i].id : i \in DOMAIN eb}
<1>4. /\ eb \in Seq(Edge)
      /\ \A i \in DOMAIN eb : eb[i].id \in EdgeId /\ eb[i].from \in Node /\ eb[i].to \in Node
  BY CarriedEdges
<1>5. /\ \A i, j \in DOMAIN eb : eb[i].id = eb[j].id => eb[i] = eb[j]
      /\ \A i \in DOMAIN eb : {eb[i].from, eb[i].to} \subseteq nodes
      /\ \A i \in DOMAIN eb :
           (eb[i].id \in DOMAIN edges /\ InUse(eb[i].id)) => EndsOf(eb[i]) = edges[eb[i].id]
  BY <1>3 DEF Indexing, Careful
<1>6. DOMAIN edges' = DOMAIN edges \cup ids
  BY <1>1, <1>3 DEF Indexing, Over, RecordsOf
<1>7. ASSUME NEW i \in DOMAIN eb
      PROVE  edges'[eb[i].id].from = eb[i].from /\ edges'[eb[i].id].to = eb[i].to
  <2>1. edges'[eb[i].id] = EndsOf(eb[i])
    BY <1>1, <1>3, <1>4, <1>5, RecordsOfCareful DEF Indexing, Over
  <2> QED BY <2>1 DEF EndsOf
<1>8. \A id \in DOMAIN edges \ ids : edges'[id] = edges[id]
  BY <1>1, <1>3 DEF Indexing, Over, RecordsOf
<1>9. /\ \A id \in DOMAIN edges : edges[id].from \in Node /\ edges[id].to \in Node
      /\ \A n \in Node : /\ \A id \in outDb[n] : id \in DOMAIN edges /\ edges[id].from = n
                         /\ \A id \in inDb[n] : id \in DOMAIN edges /\ edges[id].to = n
  BY SetFacts
<1>10. /\ \A i \in DOMAIN eb : eb[i].id \in outDb'[eb[i].from] /\ eb[i].id \in inDb'[eb[i].to]
       /\ \A n \in Node :
            /\ outDb[n] \subseteq outDb'[n] /\ inDb[n] \subseteq inDb'[n]
            /\ \A id \in outDb'[n] \ outDb[n] : \E i \in DOMAIN eb : eb[i].id = id /\ eb[i].from = n
            /\ \A id \in inDb'[n] \ inDb[n] : \E i \in DOMAIN eb : eb[i].id = id /\ eb[i].to = n
  BY <1>1, <1>3, <1>4 DEF Indexing
\* an id of the bundle that a set already had is in use, with these ends
<1>11. ASSUME NEW i \in DOMAIN eb, NEW n \in Node
       PROVE  /\ eb[i].id \in outDb[n] => eb[i].from = n
              /\ eb[i].id \in inDb[n] => eb[i].to = n
  <2>1. eb[i].id \in outDb[n] \cup inDb[n] => eb[i].id \in DOMAIN edges /\ InUse(eb[i].id)
    BY <1>9 DEF InUse
  <2>2. eb[i].id \in outDb[n] \cup inDb[n] => EndsOf(eb[i]) = edges[eb[i].id]
    BY <1>5, <2>1
  <2> QED BY <1>9, <2>2 DEF EndsOf
<1>12. \A id \in ids : \E i \in DOMAIN eb : eb[i].id = id
  OBVIOUS
<1>13. \A i \in DOMAIN eb : eb[i].id \in ids
  OBVIOUS
<1> HIDE DEF ids
<1>14. SetsOfEnds'
  <2> SUFFICES ASSUME NEW n \in Node
               PROVE  /\ \A id \in outDb'[n] : edges'[id].from = n
                      /\ \A id \in inDb'[n] : edges'[id].to = n
    BY DEF SetsOfEnds
  <2>1. ASSUME NEW id \in outDb'[n] PROVE edges'[id].from = n
    <3>1. CASE id \in outDb[n]
      <4>1. id \in DOMAIN edges /\ edges[id].from = n
        BY <1>9, <3>1
      <4>2. CASE id \in ids
        BY <1>7, <1>11, <1>12, <3>1, <4>2
      <4> QED BY <1>8, <4>1, <4>2
    <3>2. CASE id \notin outDb[n]
      BY <1>7, <1>10, <3>2
    <3> QED BY <3>1, <3>2
  <2>2. ASSUME NEW id \in inDb'[n] PROVE edges'[id].to = n
    <3>1. CASE id \in inDb[n]
      <4>1. id \in DOMAIN edges /\ edges[id].to = n
        BY <1>9, <3>1
      <4>2. CASE id \in ids
        BY <1>7, <1>11, <1>12, <3>1, <4>2
      <4> QED BY <1>8, <4>1, <4>2
    <3>2. CASE id \notin inDb[n]
      BY <1>7, <1>10, <3>2
    <3> QED BY <3>1, <3>2
  <2> QED BY <2>1, <2>2
\* an edge of the bundle is in both sets, any other is where it was
<1>15. ASSUME NEW id \in ids
       PROVE  id \in outDb'[edges'[id].from] /\ id \in inDb'[edges'[id].to]
  BY <1>7, <1>10, <1>12
<1>16. ASSUME NEW id \in DOMAIN edges' \ ids
       PROVE  /\ id \in DOMAIN edges /\ edges'[id] = edges[id]
              /\ id \in outDb'[edges[id].from] <=> id \in outDb[edges[id].from]
              /\ id \in inDb'[edges[id].to] <=> id \in inDb[edges[id].to]
  <2>1. id \in DOMAIN edges /\ edges'[id] = edges[id]
    BY <1>6, <1>8
  <2> QED BY <1>9, <1>10, <1>13, <2>1
<1>17. EndsAgree'
  <2> SUFFICES ASSUME NEW id \in DOMAIN edges'
               PROVE  /\ edges'[id].from \notin removed /\ id \in outDb'[edges'[id].from]
                            => id \in inDb'[edges'[id].to]
                      /\ edges'[id].to \notin removed /\ id \in inDb'[edges'[id].to]
                            => id \in outDb'[edges'[id].from]
    BY DEF EndsAgree
  <2>1. CASE id \in ids
    BY <1>15, <2>1
  <2>2. CASE id \notin ids
    BY <1>16, <2>2 DEF GraphInv, GraphParts, EndsAgree
  <2> QED BY <2>1, <2>2
<1>18. liveIds' = liveIds \cup ids
  <2>1. \A id \in ids : id \in DOMAIN edges'
    BY <1>6
  <2>2. \A id \in ids : id \in liveIds'
    BY <1>15, <2>1 DEF liveIds
  <2>3. \A id : id \notin ids => (id \in liveIds' <=> id \in liveIds)
    BY <1>6, <1>16 DEF liveIds
  <2> QED BY <2>2, <2>3
<1>19. LiveEndsShown'
  <2> SUFFICES ASSUME NEW id \in liveIds'
               PROVE  {edges'[id].from, edges'[id].to} \subseteq shown'
    BY DEF LiveEndsShown
  <2>1. CASE id \in ids
    BY <1>2, <1>5, <1>7, <1>12, <2>1
  <2>2. CASE id \notin ids
    <3>1. id \in liveIds /\ edges'[id] = edges[id]
      BY <1>8, <1>18, <2>2 DEF liveIds
    <3> QED BY <1>2, <3>1 DEF GraphInv, GraphParts, LiveEndsShown
  <2> QED BY <2>1, <2>2
<1>20. Cached'
  BY <1>1 DEF Cached, GraphInv, GraphParts, NoBatch, Batch
<1>21. ShownNodes' /\ LinkPart' /\ UnlinkPart'
  BY <1>1, <1>2 DEF ShownNodes, LinkPart, UnlinkPart
<1>22. Graph!SetEdges(eb)
  <2> DEFINE last(id) == CHOOSE i \in DOMAIN eb :
                           eb[i].id = id /\ \A j \in DOMAIN eb : eb[j].id = id => j <= i
             live == [id \in liveIds |-> edges[id]]
             after == [id \in liveIds' |-> edges'[id]]
             promised == [id \in DOMAIN live \cup ids |->
                            IF id \in ids
                            THEN [from |-> eb[last(id)].from, to |-> eb[last(id)].to]
                            ELSE live[id]]
  <2>1. DOMAIN after = DOMAIN promised
    BY <1>18
  <2>2. ASSUME NEW id \in ids PROVE edges'[id] = [from |-> eb[last(id)].from, to |-> eb[last(id)].to]
    <3>1. edges'[id] = RecordsOf(eb)[id]
      BY <1>1, <1>3, <2>2 DEF Indexing, Over, RecordsOf, ids
    <3>2. RecordsOf(eb)[id] = EndsOf(eb[last(id)])
      BY <2>2 DEF RecordsOf, ids
    <3> HIDE DEF last
    <3> QED BY <3>1, <3>2 DEF EndsOf
  <2>3. ASSUME NEW id \in liveIds, id \notin ids PROVE edges'[id] = edges[id]
    BY <1>8, <2>3 DEF liveIds
  <2> HIDE DEF last
  <2>4. after = promised
    BY <1>18, <2>2, <2>3
  <2>5. shown' = shown
    BY <1>2
  <2> QED BY <2>4, <2>5 DEF Graph!SetEdges, last, ids
<1>23. eb \in Bundles \cup {<<e>> : e \in Edge}
  BY DEF Carried
<1> QED
  BY <1>14, <1>17, <1>19, <1>20, <1>21, <1>22, <1>23 DEF GraphParts, GraphStep, Graph!Next

\* removeNode() visits an edge into the node.
LEMMA UnlinkInParts ==
  ASSUME Roomy, GraphInv, NEW id \in EdgeId, UnlinkIn(id), shown' = shown, removed' = removed
  PROVE  GraphParts' /\ GraphStep
<1>1. /\ pc = "unlinkIn" /\ pc' = "unlinkIn" /\ id \in unlinks /\ unlinks' = unlinks \ {id}
      /\ UNCHANGED <<nodes, edges, outDb, inDb, inCache, links, node>>
      /\ id \in DOMAIN edges => DropFromOut(id)
  BY DEF UnlinkIn, IsNext, db
<1>2. /\ node \in Node /\ unlinks \subseteq inDb[node] /\ batch.edge = <<>>
      /\ \A n \in Node : PendingIn(n) = inDb[n] /\ PendingOut(n) = outDb[n] \ (inDb[node] \ unlinks)
  BY <1>1 DEF GraphInv, Removing, GraphParts, UnlinkPart
<1>3. id \in DOMAIN edges /\ id \in inDb[node]
  BY <1>1, <1>2, SetFacts
<1> DEFINE outSet == OutEdges(edges[id].from) \ {id}
<1> PICK from \in Node : from = edges[id].from
  BY <1>3, SetFacts
<1>4. /\ outCache' = Rewritten(outCache, from, outSet)
      /\ batch'.edge = batch.edge /\ batch'.in = batch.in
      /\ batch'.out = Put(batch.out, from, outSet)
  BY <1>1, <1>3 DEF DropFromOut, Batch
<1>5. outSet = PendingOut(from) \ {id}
  BY ReadsShowBatch DEF GraphInv, GraphParts
<1> HIDE DEF outSet
<1>6. /\ outCache'.inserted = Cardinality(DOMAIN outCache'.val)
      /\ DOMAIN batch'.out \subseteq DOMAIN outCache'.val
      /\ PendingOut(from)' = PendingOut(from) \ {id}
      /\ \A m \in Node \ {from} : PendingOut(m)' = PendingOut(m)
  BY <1>1, <1>4, <1>5, PutOut
<1>7. \A n \in Node : PendingIn(n)' = PendingIn(n)
  BY <1>1, <1>4 DEF PendingIn
<1>8. \A n \in Node : PendingOut(n)' = outDb[n] \ (inDb[node] \ (unlinks \ {id}))
  <2> SUFFICES ASSUME NEW n \in Node PROVE PendingOut(n)' = outDb[n] \ (inDb[node] \ (unlinks \ {id}))
    OBVIOUS
  <2>1. CASE n = from
    BY <1>2, <1>3, <1>6, <2>1
  <2>2. CASE n # from
    <3>1. id \notin outDb[n]
      BY <2>2, SetFacts
    <3> QED BY <1>2, <1>6, <2>2, <3>1
  <2> QED BY <2>1, <2>2
<1>9. SetsOfEnds' /\ EndsAgree' /\ LiveEndsShown'
  BY <1>1, SameStored
<1>10. Cached'
  BY <1>1, <1>4, <1>6 DEF Cached, GraphInv, GraphParts
<1>11. ShownNodes' /\ LinkPart'
  BY <1>1 DEF ShownNodes, LinkPart, GraphInv, GraphParts
<1>12. UnlinkPart'
  BY <1>1, <1>2, <1>4, <1>7, <1>8 DEF UnlinkPart
<1> QED
  BY <1>1, <1>9, <1>10, <1>11, <1>12, SameGraph DEF GraphParts

\* removeNode() goes on to the edges out of the node.
LEMMA UnlinkInDoneParts ==
  ASSUME GraphInv, UnlinkInDone, shown' = shown, removed' = removed
  PROVE  GraphParts' /\ GraphStep
<1>1. /\ pc = "unlinkIn" /\ pc' = "unlinkOut" /\ unlinks = {}
      /\ outCache' = Find(outCache, node) /\ unlinks' = OutEdges(node)
      /\ UNCHANGED <<nodes, edges, outDb, inDb, inCache, batch, links, node>>
  BY DEF UnlinkInDone, db
<1>2. /\ node \in Node /\ batch.edge = <<>>
      /\ \A n \in Node : PendingIn(n) = inDb[n] /\ PendingOut(n) = outDb[n] \ inDb[node]
  BY <1>1 DEF GraphInv, Removing, GraphParts, UnlinkPart
<1>3. unlinks' = PendingOut(node)
  BY <1>1, <1>2, ReadsShowBatch DEF GraphInv, GraphParts
<1>4. \A n \in Node : PendingIn(n)' = PendingIn(n) /\ PendingOut(n)' = PendingOut(n)
  BY <1>1 DEF PendingIn, PendingOut
<1>5. PendingOut(node)' = PendingOut(node)
  BY <1>1 DEF PendingOut
<1>6. SetsOfEnds' /\ EndsAgree' /\ LiveEndsShown'
  BY <1>1, SameStored
<1>7. Cached'
  BY <1>1, CachedStep, FindSame
<1>8. ShownNodes' /\ LinkPart'
  BY <1>1 DEF ShownNodes, LinkPart, GraphInv, GraphParts
<1>9. UnlinkPart'
  BY <1>1, <1>2, <1>3, <1>4, <1>5 DEF UnlinkPart
<1> QED
  BY <1>1, <1>6, <1>7, <1>8, <1>9, SameGraph DEF GraphParts

\* removeNode() visits an edge out of the node.
LEMMA UnlinkOutParts ==
  ASSUME Roomy, GraphInv, NEW id \in EdgeId, UnlinkOut(id), shown' = shown, removed' = removed
  PROVE  GraphParts' /\ GraphStep
<1>1. /\ pc = "unlinkOut" /\ pc' = "unlinkOut" /\ id \in unlinks /\ unlinks' = unlinks \ {id}
      /\ UNCHANGED <<nodes, edges, outDb, inDb, outCache, links, node>>
      /\ id \in DOMAIN edges => DropFromIn(id)
  BY DEF UnlinkOut, IsNext, db
<1>2. /\ node \in Node /\ unlinks \subseteq PendingOut(node) /\ batch.edge = <<>>
      /\ \A n \in Node : /\ PendingOut(n) = outDb[n] \ inDb[node]
                         /\ PendingIn(n) = inDb[n] \ (PendingOut(node) \ unlinks)
  BY <1>1 DEF GraphInv, Removing, GraphParts, UnlinkPart
<1>3. id \in DOMAIN edges /\ id \in PendingOut(node)
  BY <1>1, <1>2, SetFacts
<1> DEFINE inSet == InEdges(edges[id].to) \ {id}
<1> PICK to \in Node : to = edges[id].to
  BY <1>3, SetFacts
<1>4. /\ inCache' = Rewritten(inCache, to, inSet)
      /\ batch'.edge = batch.edge /\ batch'.out = batch.out
      /\ batch'.in = Put(batch.in, to, inSet)
  BY <1>1, <1>3 DEF DropFromIn, Batch
<1>5. inSet = PendingIn(to) \ {id}
  BY ReadsShowBatch DEF GraphInv, GraphParts
<1> HIDE DEF inSet
<1>6. /\ inCache'.inserted = Cardinality(DOMAIN inCache'.val)
      /\ DOMAIN batch'.in \subseteq DOMAIN inCache'.val
      /\ PendingIn(to)' = PendingIn(to) \ {id}
      /\ \A m \in Node \ {to} : PendingIn(m)' = PendingIn(m)
  BY <1>1, <1>4, <1>5, PutIn
<1>7. /\ \A n \in Node : PendingOut(n)' = PendingOut(n)
      /\ PendingOut(node)' = PendingOut(node)
  BY <1>1, <1>4 DEF PendingOut
<1>8. \A n \in Node : PendingIn(n)' = inDb[n] \ (PendingOut(node) \ (unlinks \ {id}))
  <2> SUFFICES ASSUME NEW n \in Node
               PROVE  PendingIn(n)' = inDb[n] \ (PendingOut(node) \ (unlinks \ {id}))
    OBVIOUS
  <2>1. CASE n = to
    BY <1>2, <1>3, <1>6, <2>1
  <2>2. CASE n # to
    <3>1. id \notin inDb[n]
      BY <2>2, SetFacts
    <3> QED BY <1>2, <1>6, <2>2, <3>1
  <2> QED BY <2>1, <2>2
<1>9. SetsOfEnds' /\ EndsAgree' /\ LiveEndsShown'
  BY <1>1, SameStored
<1>10. Cached'
  BY <1>1, <1>4, <1>6 DEF Cached, GraphInv, GraphParts
<1>11. ShownNodes' /\ LinkPart'
  BY <1>1 DEF ShownNodes, LinkPart, GraphInv, GraphParts
<1>12. UnlinkPart'
  BY <1>1, <1>2, <1>4, <1>7, <1>8 DEF UnlinkPart
<1> QED
  BY <1>1, <1>9, <1>10, <1>11, <1>12, SameGraph DEF GraphParts

\* removeNode() commits: the node and all its edges are gone, and no other
\* edge.  A self-loop left the out set in the first loop, so that the second
\* does not visit it and the node's own in set keeps it.
LEMMA UnlinkDoneParts ==
  ASSUME GraphInv, UnlinkOutDone, shown' = nodes', removed' = removed
  PROVE  GraphParts' /\ GraphStep
<1>1. /\ pc = "unlinkOut" /\ pc' = "idle" /\ unlinks = {}
      /\ UNCHANGED <<nodes, outCache, inCache, links, unlinks>>
      /\ edges' = Over(batch.edge, edges) /\ batch' = NoBatch
      /\ \A n \in Node : outDb'[n] = PendingOut(n) /\ inDb'[n] = PendingIn(n)
  BY Written DEF UnlinkOutDone, caches
<1>2. /\ node \in Node /\ batch.edge = <<>>
      /\ \A n \in Node : PendingOut(n) = outDb[n] \ inDb[node]
      /\ \A n \in Node : PendingIn(n) = inDb[n] \ (outDb[node] \ inDb[node])
  BY <1>1 DEF GraphInv, Removing, GraphParts, UnlinkPart
<1>3. edges' = edges
  <2>1. Over(<<>>, edges) = [x \in DOMAIN edges |-> edges[x]]
    BY DEF Over
  <2>2. edges = [x \in DOMAIN edges |-> edges[x]]
    BY TypeParts, PartialHas DEF GraphInv
  <2> QED BY <1>1, <1>2, <2>1, <2>2
<1>4. nodes = shown \ {node} /\ node \in removed /\ shown' = shown \ {node}
  BY <1>1 DEF GraphInv, GraphParts, ShownNodes
<1>5. /\ \A id \in DOMAIN edges : edges[id].from \in Node /\ edges[id].to \in Node
      /\ \A n \in Node : /\ \A id \in outDb[n] : id \in DOMAIN edges /\ edges[id].from = n
                         /\ \A id \in inDb[n] : id \in DOMAIN edges /\ edges[id].to = n
  BY SetFacts
<1>6. SetsOfEnds'
  BY <1>1, <1>2, <1>3, <1>5 DEF SetsOfEnds
<1>7. ASSUME NEW id \in DOMAIN edges
      PROVE  /\ id \in outDb'[edges[id].from] <=>
                   id \in outDb[edges[id].from] /\ id \notin inDb[node]
             /\ id \in inDb'[edges[id].to] <=>
                   id \in inDb[edges[id].to] /\ ~ (id \in outDb[node] /\ id \notin inDb[node])
             /\ id \in inDb[node] => edges[id].to = node
             /\ id \in outDb[node] => edges[id].from = node
  BY <1>1, <1>2, <1>5
<1>8. EndsAgree'
  <2> SUFFICES ASSUME NEW id \in DOMAIN edges
               PROVE  /\ edges[id].from \notin removed /\ id \in outDb'[edges[id].from]
                            => id \in inDb'[edges[id].to]
                      /\ edges[id].to \notin removed /\ id \in inDb'[edges[id].to]
                            => id \in outDb'[edges[id].from]
    BY <1>3 DEF EndsAgree
  <2> QED BY <1>4, <1>7 DEF GraphInv, GraphParts, EndsAgree
<1>9. liveIds' = {id \in liveIds : node \notin {edges[id].from, edges[id].to}}
  BY <1>3, <1>7 DEF liveIds
<1>10. LiveEndsShown'
  BY <1>3, <1>4, <1>9 DEF LiveEndsShown, GraphInv, GraphParts
<1>11. Cached'
  BY <1>1 DEF Cached, GraphInv, GraphParts, NoBatch, Batch
<1>12. ShownNodes' /\ LinkPart' /\ UnlinkPart'
  BY <1>1, <1>4 DEF ShownNodes, LinkPart, UnlinkPart
<1>13. \E n \in Node : Graph!RemoveNode(n)
  <2> PICK n \in Node : n = node
    BY <1>2
  <2>1. \A id \in liveIds : [x \in liveIds |-> edges[x]][id] = edges[id]
    OBVIOUS
  <2> DEFINE kept == {id \in liveIds : n \notin {edges[id].from, edges[id].to}}
  <2>2. [id \in liveIds' |-> edges'[id]] = [id \in kept |-> [x \in liveIds |-> edges[x]][id]]
    BY <1>3, <1>9, <2>1
  <2> QED BY <1>4, <2>2 DEF Graph!RemoveNode, Graph!Keep
<1> QED
  BY <1>6, <1>8, <1>10, <1>11, <1>12, <1>13 DEF GraphParts, GraphStep, Graph!Next

\* Every step of a client keeps the invariant and is a step of the graph or
\* none.
LEMMA ClientStep ==
  ASSUME Roomy, ~ WarmDestroy, CrashPoints \subseteq {"idle", "link"}, GraphInv, [CNext]_cvars
  PROVE  GraphInv' /\ GraphStep
<1>1. [Next]_vars
  BY DEF CNext, Noting, Calls, Next, cvars
<1>2. TypeOK' /\ Removing' /\ StoreInv'
  BY <1>1, TypeStep, StoreStep DEF GraphInv
<1> DEFINE Good == GraphParts' /\ GraphStep
<1>3. ASSUME Calls, shown' = IF pc' \in {"unlinkIn", "unlinkOut"} THEN shown ELSE nodes',
             removed' = IF pc' = "unlinkIn" THEN removed \cup {node'} ELSE removed
      PROVE  Good
  <2>1. ASSUME NEW ns \in SUBSET Node, SetNodesBundle(ns) PROVE Good
    <3>1. pc' = "idle"
      BY <2>1 DEF SetNodesBundle, Idle, local
    <3> QED BY <1>3, <2>1, <3>1, SetNodesStep
  <2>2. ASSUME NEW n \in Node, SetNode(n) PROVE Good
    <3>1. {n} \in SUBSET Node
      OBVIOUS
    <3> QED BY <2>1, <2>2, <3>1 DEF SetNode
  <2>3. ASSUME NEW n \in Node, RemoveNode(n) PROVE Good
    <3>1. pc' = "unlinkIn"
      BY <2>3 DEF RemoveNode
    <3> QED BY <1>3, <2>3, <3>1, RemoveNodeStep
  <2>4. ASSUME NEW n \in Node, ReadOut(n) \/ ReadIn(n) PROVE Good
    <3>1. pc' = "idle"
      BY <2>4 DEF ReadOut, ReadIn, Idle, local
    <3> QED BY <1>3, <2>4, <3>1, ReadStep
  <2>5. ASSUME NEW eb \in Carried, Careful(eb), SetEdgesBundle(eb) PROVE Good
    <3>1. pc' = "link"
      BY <2>5 DEF SetEdgesBundle
    <3> QED BY <1>3, <2>5, <3>1, OpenStep
  <2>6. ASSUME NEW e \in Edge, Careful(<<e>>), SetEdge(e) PROVE Good
    <3>1. <<e>> \in Carried
      BY DEF Carried
    <3> QED BY <2>5, <2>6, <3>1 DEF SetEdge
  <2>7. ASSUME NEW id \in EdgeId, RemoveEdge(id) PROVE Good
    <3>1. pc' = "idle"
      BY <2>7 DEF RemoveEdge, Idle, local
    <3> QED BY <1>3, <2>7, <3>1, RemoveEdgeParts
  <2>8. \A eb \in Bundles : eb \in Carried
    BY DEF Carried
  <2> HIDE DEF Good
  <2> QED BY <1>3, <2>1, <2>2, <2>3, <2>4, <2>5, <2>6, <2>7, <2>8 DEF Calls
<1>4. ASSUME Steps, shown' = IF pc' \in {"unlinkIn", "unlinkOut"} THEN shown ELSE nodes',
             removed' = removed
      PROVE  Good
  <2>1. CASE LinkNext
    <3>1. pc' = "link"
      BY <2>1 DEF LinkNext
    <3> QED BY <1>4, <2>1, <3>1, IndexStep
  <2>2. CASE LinkDone
    <3>1. pc' = "idle"
      BY <2>2 DEF LinkDone
    <3> QED BY <1>4, <2>2, <3>1, CommitStep
  <2>3. ASSUME NEW id \in EdgeId, UnlinkIn(id) PROVE Good
    <3>1. pc' = "unlinkIn"
      BY <2>3 DEF UnlinkIn
    <3> QED BY <1>4, <2>3, <3>1, UnlinkInParts
  <2>4. CASE UnlinkInDone
    <3>1. pc' = "unlinkOut"
      BY <2>4 DEF UnlinkInDone
    <3> QED BY <1>4, <2>4, <3>1, UnlinkInDoneParts
  <2>5. ASSUME NEW id \in EdgeId, UnlinkOut(id) PROVE Good
    <3>1. pc' = "unlinkOut"
      BY <2>5 DEF UnlinkOut
    <3> QED BY <1>4, <2>5, <3>1, UnlinkOutParts
  <2>6. CASE UnlinkOutDone
    <3>1. pc' = "idle"
      BY <2>6 DEF UnlinkOutDone
    <3> QED BY <1>4, <2>6, <3>1, UnlinkDoneParts
  <2> HIDE DEF Good
  <2> QED BY <1>4, <2>1, <2>2, <2>3, <2>4, <2>5, <2>6 DEF Steps
<1>5. ASSUME Restart, shown' = IF pc' \in {"unlinkIn", "unlinkOut"} THEN shown ELSE nodes',
             removed' = removed
      PROVE  Good
  <2>1. pc' = "idle"
    BY <1>5 DEF Restart
  <2> QED BY <1>5, <2>1, RestartParts
<1>6. ASSUME Destroy, shown' = IF pc' \in {"unlinkIn", "unlinkOut"} THEN shown ELSE nodes',
             removed' = {}
      PROVE  Good
  <2>1. pc' = "idle"
    BY <1>6 DEF Destroy, Idle, local
  <2> QED BY <1>6, <2>1, DestroyParts
<1>7. ASSUME UNCHANGED cvars PROVE Good
  <2>1. UNCHANGED <<nodes, edges, outDb, inDb, outCache, inCache, batch, pc, links, node, unlinks,
                    shown, removed>>
    BY <1>7 DEF cvars, vars, db, caches, local
  <2>2. SetsOfEnds' /\ EndsAgree' /\ LiveEndsShown'
    BY <2>1, SameStored
  <2>3. \A n : PendingOut(n)' = PendingOut(n) /\ PendingIn(n)' = PendingIn(n)
    BY <2>1 DEF PendingOut, PendingIn
  <2>4. Cached' /\ ShownNodes' /\ UnlinkPart'
    BY <2>1 DEF GraphInv, GraphParts, Cached, ShownNodes, UnlinkPart, PendingOut, PendingIn
  <2>5. LinkPart'
    <3>1. \A eb \in Carried : Indexing(eb) => Indexing(eb)'
      BY <2>1, <2>3 DEF Indexing, Careful, InUse
    <3> QED BY <2>1, <3>1 DEF GraphInv, GraphParts, LinkPart
  <2> QED BY <2>1, <2>2, <2>4, <2>5, SameGraph DEF GraphParts
<1> HIDE DEF Good
<1>8. Good
  BY <1>3, <1>4, <1>5, <1>6, <1>7 DEF CNext, Noting
<1> QED
  BY <1>2, <1>8 DEF Good, GraphInv

\* The empty store shows an empty graph.
LEMMA ClientInit ==
  ASSUME CInit
  PROVE  GraphInv /\ Graph!Init
<1>1. TypeOK /\ Removing /\ StoreInv
  BY TypeInit, StoreInit DEF CInit
<1>2. liveIds = {}
  BY DEF CInit, Init, liveIds
<1>3. GraphParts
  BY <1>2, FS_EmptySet DEF CInit, Init, EmptyCache, CacheOf, NoBatch, Batch, NoSets, GraphParts,
     Cached, SetsOfEnds, EndsAgree, ShownNodes, LiveEndsShown, LinkPart, UnlinkPart
<1>4. Graph!Init
  BY <1>2 DEF CInit, Graph!Init
<1> QED
  BY <1>1, <1>3, <1>4 DEF GraphInv

\* A client's calls are calls of the store, whatever it is careful about: what
\* holds of the store in every reachable state holds for the client.
THEOREM ClientUsesStore == CSpec => Spec
<1>1. CInit => Init
  BY DEF CInit
<1>2. [CNext]_cvars => [Next]_vars
  BY DEF CNext, Noting, Calls, Next, cvars
<1> QED
  BY <1>1, <1>2, PTL DEF CSpec, Spec

\* With room in the caches for every node and no stop inside removeNode(),
\* every call of a careful client takes effect as a whole or not at all.
THEOREM StoreImplementsGraph ==
  ASSUME Roomy, ~ WarmDestroy, CrashPoints \subseteq {"idle", "link"}
  PROVE  CSpec => ImplementsGraph
<1>1. CInit => GraphInv
  BY ClientInit
<1>2. GraphInv /\ [CNext]_cvars => GraphInv'
  BY ClientStep
<1>3. CInit => Graph!Init
  BY ClientInit
<1>4. GraphInv /\ [CNext]_cvars => [Graph!Next]_(Graph!vars)
  BY ClientStep DEF GraphStep
<1> QED
  BY <1>1, <1>2, <1>3, <1>4, PTL DEF CSpec, ImplementsGraph, Graph!Spec

\* Then the sets of a node never removed list its edges, all and no others.
THEOREM SetsAlwaysExact ==
  ASSUME Roomy, ~ WarmDestroy, CrashPoints \subseteq {"idle", "link"}
  PROVE  CSpec => []SetsAreExact
<1>1. CInit => GraphInv
  BY ClientInit
<1>2. GraphInv /\ [CNext]_cvars => GraphInv'
  BY ClientStep
<1>3. GraphInv => SetsAreExact
  <2> SUFFICES ASSUME GraphInv, NEW n \in Node, n \notin removed
               PROVE  /\ outDb[n] = {id \in liveIds : edges[id].from = n}
                      /\ inDb[n] = {id \in liveIds : edges[id].to = n}
    BY DEF SetsAreExact
  <2> QED BY SetFacts DEF GraphInv, GraphParts, EndsAgree, liveIds
<1> QED
  BY <1>1, <1>2, <1>3, PTL DEF CSpec

\* Then, too, the ends of every edge exist.
THEOREM EndsAlwaysExist ==
  ASSUME Roomy, ~ WarmDestroy, CrashPoints \subseteq {"idle", "link"}
  PROVE  CSpec => []EndsExist
<1>1. CInit => GraphInv
  BY ClientInit
<1>2. GraphInv /\ [CNext]_cvars => GraphInv'
  BY ClientStep
<1>3. GraphInv => EndsExist
  BY DEF GraphInv, GraphParts, LiveEndsShown, ShownNodes, EndsExist, Idle
<1> QED
  BY <1>1, <1>2, <1>3, PTL DEF CSpec
=============================================================================
