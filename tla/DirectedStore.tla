---------------------------- MODULE DirectedStore ----------------------------
(***************************************************************************)
(* LevelDbGraph<NodeType, EdgeType, true> (include/backend/                *)
(* leveldbgraph.hpp): a directed graph kept in LevelDB as node records,    *)
(* edge records and, for every node, the set of its outgoing and the set   *)
(* of its incoming edge ids; each kind of set has a recency cache in       *)
(* memory.  Operations that write several records collect them in a        *)
(* WriteBatch, which LevelDB applies atomically, but they read through the *)
(* caches and the database, which do not show the batch.                   *)
(*                                                                         *)
(* An operation with a loop is modelled by one action per iteration, so    *)
(* that the process may stop between any two writes.                       *)
(***************************************************************************)
EXTENDS StoreRecords

CONSTANTS
  NoNode,
  Bundles,       \* the vectors that may be given to setEdgesBundle()
  CrashPoints,   \* the values of pc at which the process may stop
  WarmDestroy    \* whether destroy() is called with entries in the caches

ASSUME StoreAssumption ==
  /\ NoNode \notin Node
  /\ Bundles \subseteq Seq(Edge)
  /\ CrashPoints \subseteq {"idle", "link", "unlinkIn", "unlinkOut"}
  /\ WarmDestroy \in BOOLEAN

VARIABLES
  nodes,        \* ids with a node record
  edges,        \* edge records: id -> ends
  outDb, inDb,  \* the stored sets; no record reads as the empty set
  outCache, inCache,
  batch,        \* the records put into the open WriteBatch
  pc,           \* the loop the running operation is in
  links,        \* setEdge, setEdgesBundle: edges still to be indexed
  node,         \* removeNode: its argument
  unlinks       \* removeNode: ids the running loop has still to visit

db == <<nodes, edges, outDb, inDb>>
caches == <<outCache, inCache>>
local == <<pc, links, node, unlinks>>
vars == <<db, caches, batch, local>>

Batch(edge, out, in) == [edge |-> edge, out |-> out, in |-> in]
NoBatch == Batch(<<>>, <<>>, <<>>)
NoSets == [n \in Node |-> {}]

Idle == pc = "idle"

Init ==
  /\ nodes = {} /\ edges = <<>> /\ outDb = NoSets /\ inDb = NoSets
  /\ outCache = EmptyCache /\ inCache = EmptyCache
  /\ batch = NoBatch
  /\ pc = "idle" /\ links = <<>> /\ node = NoNode /\ unlinks = {}

(***************************************************************************)
(* The sets                                                                *)
(***************************************************************************)
\* getOutEdge(), getInEdge(): the cache first, then the database.  A miss
\* leaves the cache as it is.
OutEdges(n) == IF Holds(outCache, n) THEN outCache.val[n] ELSE outDb[n]
InEdges(n) == IF Holds(inCache, n) THEN inCache.val[n] ELSE inDb[n]

(***************************************************************************)
(* Node records                                                            *)
(***************************************************************************)
SetNodesBundle(ns) ==
  /\ Idle
  /\ nodes' = nodes \cup ns
  /\ UNCHANGED <<edges, outDb, inDb, caches, batch, local>>

SetNode(n) == SetNodesBundle({n})

(***************************************************************************)
(* setEdge(), setEdgesBundle()                                             *)
(***************************************************************************)
SetEdgesBundle(eb) ==
  /\ Idle
  /\ batch' = Batch(RecordsOf(eb), <<>>, <<>>)
  /\ links' = eb
  /\ pc' = "link"
  /\ UNCHANGED <<db, caches, node, unlinks>>

\* the record is put last instead of first, into the same batch
SetEdge(e) == SetEdgesBundle(<<e>>)

\* a mutation of Link: the in set is given to the cache only
LinkWithoutPut(e) ==
  LET outSet == OutEdges(e.from) \cup {e.id}
      inSet == InEdges(e.to) \cup {e.id}
  IN  /\ outCache' = Rewritten(outCache, e.from, outSet)
      /\ inCache' = Rewritten(inCache, e.to, inSet)
      /\ batch' = Batch(batch.edge, Put(batch.out, e.from, outSet), batch.in)

\* one iteration: the id joins the out set of one end and the in set of the
\* other, both in the cache and in the batch
Link(e) ==
  LET outSet == OutEdges(e.from) \cup {e.id}
      inSet == InEdges(e.to) \cup {e.id}
  IN  /\ outCache' = Rewritten(outCache, e.from, outSet)
      /\ inCache' = Rewritten(inCache, e.to, inSet)
      /\ batch' = Batch(batch.edge, Put(batch.out, e.from, outSet), Put(batch.in, e.to, inSet))

LinkNext ==
  /\ pc = "link"
  /\ links # <<>>
  /\ Link(Head(links))
  /\ links' = Tail(links)
  /\ UNCHANGED <<db, pc, node, unlinks>>

\* a mutation of Write: the edge records are left out
WriteSetsOnly ==
  /\ edges' = edges
  /\ outDb' = Over(batch.out, outDb)
  /\ inDb' = Over(batch.in, inDb)
  /\ batch' = NoBatch

\* db->Write(): the whole batch at once
Write ==
  /\ edges' = Over(batch.edge, edges)
  /\ outDb' = Over(batch.out, outDb)
  /\ inDb' = Over(batch.in, inDb)
  /\ batch' = NoBatch

LinkDone ==
  /\ pc = "link"
  /\ links = <<>>
  /\ Write
  /\ pc' = "idle"
  /\ UNCHANGED <<nodes, caches, links, node, unlinks>>

(***************************************************************************)
(* removeEdgeImpl(): the id leaves the sets of one end or of both; the     *)
(* edge record stays.  An id without a record is ignored.                  *)
(***************************************************************************)
\* a mutation of RemoveEdge: the set of the from side is left alone
RemoveEdgeToSide(id) ==
  /\ Idle
  /\ id \in DOMAIN edges
  /\ LET inSet == InEdges(edges[id].to) \ {id}
     IN  /\ inCache' = Rewritten(inCache, edges[id].to, inSet)
         /\ inDb' = [inDb EXCEPT ![edges[id].to] = inSet]
  /\ UNCHANGED <<nodes, edges, outDb, outCache, batch, local>>

RemoveEdge(id) ==
  /\ Idle
  /\ id \in DOMAIN edges
  /\ LET outSet == OutEdges(edges[id].from) \ {id}
         inSet == InEdges(edges[id].to) \ {id}
     IN  /\ outCache' = Rewritten(outCache, edges[id].from, outSet)
         /\ inCache' = Rewritten(inCache, edges[id].to, inSet)
         /\ outDb' = [outDb EXCEPT ![edges[id].from] = outSet]
         /\ inDb' = [inDb EXCEPT ![edges[id].to] = inSet]
  /\ UNCHANGED <<nodes, edges, batch, local>>

RemoveUnknownEdge(id) ==
  /\ Idle
  /\ id \notin DOMAIN edges
  /\ UNCHANGED vars

\* a mutation of DropFromOut: the set is read from the database
DropFromOutUncached(id) ==
  LET outSet == outDb[edges[id].from] \ {id}
  IN  /\ outCache' = Rewritten(outCache, edges[id].from, outSet)
      /\ batch' = Batch(batch.edge, Put(batch.out, edges[id].from, outSet), batch.in)

DropFromOut(id) ==
  LET outSet == OutEdges(edges[id].from) \ {id}
  IN  /\ outCache' = Rewritten(outCache, edges[id].from, outSet)
      /\ batch' = Batch(batch.edge, Put(batch.out, edges[id].from, outSet), batch.in)

DropFromIn(id) ==
  LET inSet == InEdges(edges[id].to) \ {id}
  IN  /\ inCache' = Rewritten(inCache, edges[id].to, inSet)
      /\ batch' = Batch(batch.edge, batch.out, Put(batch.in, edges[id].to, inSet))

(***************************************************************************)
(* removeNode(): the node record is deleted at once, then the node's ids   *)
(* leave the sets of its neighbours in one batch.  Its own two sets and    *)
(* the edge records stay.                                                  *)
(***************************************************************************)
RemoveNode(n) ==
  /\ Idle
  /\ nodes' = nodes \ {n}
  /\ inCache' = Find(inCache, n)
  /\ node' = n
  /\ unlinks' = InEdges(n)
  /\ pc' = "unlinkIn"
  /\ UNCHANGED <<edges, outDb, inDb, outCache, batch, links>>

\* the loop visits the ids in the order of std::set
IsNext(id) == id \in unlinks /\ \A other \in unlinks : id <= other

UnlinkIn(id) ==
  /\ pc = "unlinkIn"
  /\ IsNext(id)
  /\ IF id \in DOMAIN edges THEN DropFromOut(id) ELSE UNCHANGED <<outCache, batch>>
  /\ unlinks' = unlinks \ {id}
  /\ UNCHANGED <<db, inCache, pc, links, node>>

UnlinkInDone ==
  /\ pc = "unlinkIn"
  /\ unlinks = {}
  /\ outCache' = Find(outCache, node)
  /\ unlinks' = OutEdges(node)
  /\ pc' = "unlinkOut"
  /\ UNCHANGED <<db, inCache, batch, links, node>>

UnlinkOut(id) ==
  /\ pc = "unlinkOut"
  /\ IsNext(id)
  /\ IF id \in DOMAIN edges THEN DropFromIn(id) ELSE UNCHANGED <<inCache, batch>>
  /\ unlinks' = unlinks \ {id}
  /\ UNCHANGED <<db, outCache, pc, links, node>>

UnlinkOutDone ==
  /\ pc = "unlinkOut"
  /\ unlinks = {}
  /\ Write
  /\ pc' = "idle"
  /\ node' = NoNode
  /\ UNCHANGED <<nodes, caches, links, unlinks>>

(***************************************************************************)
(* getOutEdge() and getInEdge() as a client or the query iterator call     *)
(* them: all they change is the order of the cache.                        *)
(***************************************************************************)
ReadOut(n) ==
  /\ Idle
  /\ outCache' = Find(outCache, n)
  /\ UNCHANGED <<db, inCache, batch, local>>

ReadIn(n) ==
  /\ Idle
  /\ inCache' = Find(inCache, n)
  /\ UNCHANGED <<db, outCache, batch, local>>

(***************************************************************************)
(* The process stops, between calls or in one, and opens the database      *)
(* again: what was only in memory is gone.                                 *)
(***************************************************************************)
Restart ==
  /\ pc \in CrashPoints
  /\ outCache' = EmptyCache
  /\ inCache' = EmptyCache
  /\ batch' = NoBatch
  /\ pc' = "idle" /\ links' = <<>> /\ node' = NoNode /\ unlinks' = {}
  /\ UNCHANGED db

\* destroy(): an empty database; the caches are not told
Destroy ==
  /\ Idle
  /\ WarmDestroy \/ (outCache = EmptyCache /\ inCache = EmptyCache)
  /\ nodes' = {} /\ edges' = <<>> /\ outDb' = NoSets /\ inDb' = NoSets
  /\ UNCHANGED <<caches, batch, local>>

(***************************************************************************)
(* The specification                                                       *)
(***************************************************************************)
Steps ==
  \/ LinkNext
  \/ LinkDone
  \/ \E id \in EdgeId : UnlinkIn(id)
  \/ UnlinkInDone
  \/ \E id \in EdgeId : UnlinkOut(id)
  \/ UnlinkOutDone

Next ==
  \/ \E n \in Node : SetNode(n) \/ RemoveNode(n) \/ ReadOut(n) \/ ReadIn(n)
  \/ \E ns \in SUBSET Node : SetNodesBundle(ns)
  \/ \E e \in Edge : SetEdge(e)
  \/ \E eb \in Bundles : SetEdgesBundle(eb)
  \/ \E id \in EdgeId : RemoveEdge(id) \/ RemoveUnknownEdge(id)
  \/ Steps
  \/ Restart
  \/ Destroy

Spec == Init /\ [][Next]_vars

(***************************************************************************)
(* Properties                                                              *)
(***************************************************************************)
PendingOut(n) == IF n \in DOMAIN batch.out THEN batch.out[n] ELSE outDb[n]
PendingIn(n) == IF n \in DOMAIN batch.in THEN batch.in[n] ELSE inDb[n]

Sets == SUBSET EdgeId
PartialSets == UNION {[S -> Sets] : S \in SUBSET Node}
Records == UNION {[S -> Ends] : S \in SUBSET EdgeId}

\* The type invariant of the store; a cache orders exactly its keys.
TypeOK ==
  /\ nodes \subseteq Node
  /\ edges \in Records
  /\ outDb \in [Node -> Sets]
  /\ inDb \in [Node -> Sets]
  /\ outCache \in Caches(Node, Sets)
  /\ inCache \in Caches(Node, Sets)
  /\ batch \in [edge : Records, out : PartialSets, in : PartialSets]
  /\ pc \in {"idle", "link", "unlinkIn", "unlinkOut"}
  /\ links \in Seq(Edge)
  /\ node \in Node \cup {NoNode}
  /\ unlinks \subseteq EdgeId

OutCoherent == \A n \in DOMAIN outCache.val : outCache.val[n] = PendingOut(n)
InCoherent == \A n \in DOMAIN inCache.val : inCache.val[n] = PendingIn(n)

\* A set in a cache is the set the database has, or will have once the open
\* batch is written: reading through the cache and reading the database
\* never differ between calls, whatever was evicted or lost in between.
CacheCoherent == OutCoherent /\ InCoherent

\* Every id in a set has an edge record, stored or about to be: getEdge()
\* on an id from getOutEdge() or getInEdge() never parses an empty string.
IdsHaveRecords ==
  \A n \in Node : PendingOut(n) \cup PendingIn(n) \subseteq DOMAIN edges \cup DOMAIN batch.edge

(***************************************************************************)
(* The inductive invariant of module DirectedStoreProofs                   *)
(***************************************************************************)
\* Enough of TypeOK to know which records a step reads and writes.  Between
\* calls no batch is open.
WellFormed ==
  /\ DOMAIN outDb = Node /\ DOMAIN inDb = Node
  /\ DOMAIN outCache.val \subseteq Node /\ DOMAIN inCache.val \subseteq Node
  /\ DOMAIN batch.out \subseteq Node /\ DOMAIN batch.in \subseteq Node
  /\ \A id \in DOMAIN edges : edges[id] \in Ends
  /\ \A id \in DOMAIN batch.edge : batch.edge[id] \in Ends
  /\ links \in Seq(Edge)
  /\ pc # "link" => links = <<>>
  /\ pc \in {"unlinkIn", "unlinkOut"} => node \in Node
  /\ Idle => batch = NoBatch

\* Stored sets hold ids of stored records, sets and edges of the open batch
\* may also have their records in the batch.
StoredResolve == \A n \in Node : outDb[n] \cup inDb[n] \subseteq DOMAIN edges
PutResolve ==
  /\ \A n \in DOMAIN batch.out : batch.out[n] \subseteq DOMAIN edges \cup DOMAIN batch.edge
  /\ \A n \in DOMAIN batch.in : batch.in[n] \subseteq DOMAIN edges \cup DOMAIN batch.edge
LinksHaveRecords == \A i \in DOMAIN links : links[i].id \in DOMAIN batch.edge

StoreInv ==
  WellFormed /\ CacheCoherent /\ StoredResolve /\ PutResolve /\ LinksHaveRecords
=============================================================================
