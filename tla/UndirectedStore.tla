---------------------------- MODULE UndirectedStore --------------------------
(***************************************************************************)
(* LevelDbGraph<NodeType, EdgeType, false> (include/backend/               *)
(* leveldbgraph.hpp): the undirected graph.  A node has one set of edge    *)
(* ids, so that one call may read and write the set of a node twice (a     *)
(* loop, or the ends of a bundle's edges), each time through the one       *)
(* cache.  Everything else is as in module DirectedStore.                  *)
(***************************************************************************)
EXTENDS StoreRecords

CONSTANTS
  NoNode,
  Bundles,       \* the vectors that may be given to setEdgesBundle()
  CrashPoints,   \* the values of pc at which the process may stop
  WarmDestroy    \* whether destroy() is called with entries in the cache

ASSUME StoreAssumption ==
  /\ NoNode \notin Node
  /\ Bundles \subseteq Seq(Edge)
  /\ CrashPoints \subseteq {"idle", "link", "unlink"}
  /\ WarmDestroy \in BOOLEAN

VARIABLES
  nodes,    \* ids with a node record
  edges,    \* edge records: id -> ends
  outDb,    \* the stored sets; no record reads as the empty set
  cache,    \* outEdgeCache
  batch,    \* the records put into the open WriteBatch
  pc,       \* the loop the running operation is in
  links,    \* setEdge, setEdgesBundle: edges still to be indexed
  node,     \* removeNode: its argument
  unlinks   \* removeNode: ids the loop has still to visit

db == <<nodes, edges, outDb>>
local == <<pc, links, node, unlinks>>
vars == <<db, cache, batch, local>>

Batch(edge, out) == [edge |-> edge, out |-> out]
NoBatch == Batch(<<>>, <<>>)
NoSets == [n \in Node |-> {}]

Idle == pc = "idle"

Init ==
  /\ nodes = {} /\ edges = <<>> /\ outDb = NoSets
  /\ cache = EmptyCache
  /\ batch = NoBatch
  /\ pc = "idle" /\ links = <<>> /\ node = NoNode /\ unlinks = {}

\* getOutEdge(), given the cache it finds: the cache first, then the database
EdgesIn(c, n) == IF Holds(c, n) THEN c.val[n] ELSE outDb[n]
OutEdges(n) == EdgesIn(cache, n)

(***************************************************************************)
(* Node records                                                            *)
(***************************************************************************)
SetNodesBundle(ns) ==
  /\ Idle
  /\ nodes' = nodes \cup ns
  /\ UNCHANGED <<edges, outDb, cache, batch, local>>

SetNode(n) == SetNodesBundle({n})

(***************************************************************************)
(* setEdge(), setEdgesBundle()                                             *)
(***************************************************************************)
SetEdgesBundle(eb) ==
  /\ Idle
  /\ batch' = Batch(RecordsOf(eb), <<>>)
  /\ links' = eb
  /\ pc' = "link"
  /\ UNCHANGED <<db, cache, node, unlinks>>

\* the record is put last instead of first, into the same batch
SetEdge(e) == SetEdgesBundle(<<e>>)

\* a mutation of Link: the second set is given to the cache only
LinkWithoutPut(e) ==
  LET fromSet == OutEdges(e.from) \cup {e.id}
      once == Rewritten(cache, e.from, fromSet)
      toSet == EdgesIn(once, e.to) \cup {e.id}
  IN  /\ cache' = Rewritten(once, e.to, toSet)
      /\ batch' = Batch(batch.edge, Put(batch.out, e.from, fromSet))

\* one iteration: the id joins the set of one end, then that of the other
Link(e) ==
  LET fromSet == OutEdges(e.from) \cup {e.id}
      once == Rewritten(cache, e.from, fromSet)
      toSet == EdgesIn(once, e.to) \cup {e.id}
  IN  /\ cache' = Rewritten(once, e.to, toSet)
      /\ batch' = Batch(batch.edge, Put(Put(batch.out, e.from, fromSet), e.to, toSet))

LinkNext ==
  /\ pc = "link"
  /\ links # <<>>
  /\ Link(Head(links))
  /\ links' = Tail(links)
  /\ UNCHANGED <<db, pc, node, unlinks>>

\* a mutation of Write: the edge records are left out
WriteSetsOnly ==
  /\ edges' = edges
  /\ outDb' = Over(batch.out, outDb)
  /\ batch' = NoBatch

\* db->Write(): the whole batch at once
Write ==
  /\ edges' = Over(batch.edge, edges)
  /\ outDb' = Over(batch.out, outDb)
  /\ batch' = NoBatch

LinkDone ==
  /\ pc = "link"
  /\ links = <<>>
  /\ Write
  /\ pc' = "idle"
  /\ UNCHANGED <<nodes, cache, links, node, unlinks>>

(***************************************************************************)
(* removeEdgeImpl(): the id leaves the set of one end or of both; the edge *)
(* record stays.  An id without a record is ignored.                       *)
(***************************************************************************)
RemoveEdge(id) ==
  /\ Idle
  /\ id \in DOMAIN edges
  /\ LET fromSet == OutEdges(edges[id].from) \ {id}
         once == Rewritten(cache, edges[id].from, fromSet)
         toSet == EdgesIn(once, edges[id].to) \ {id}
     IN  /\ cache' = Rewritten(once, edges[id].to, toSet)
         /\ outDb' = [outDb EXCEPT ![edges[id].from] = fromSet, ![edges[id].to] = toSet]
  /\ UNCHANGED <<nodes, edges, batch, local>>

RemoveUnknownEdge(id) ==
  /\ Idle
  /\ id \notin DOMAIN edges
  /\ UNCHANGED vars

\* a mutation of DropFrom: the set is read from the database
DropFromUncached(n, id) ==
  LET rest == outDb[n] \ {id}
  IN  /\ cache' = Rewritten(cache, n, rest)
      /\ batch' = Batch(batch.edge, Put(batch.out, n, rest))

\* removeEdgeImpl() for one side
DropFrom(n, id) ==
  LET rest == OutEdges(n) \ {id}
  IN  /\ cache' = Rewritten(cache, n, rest)
      /\ batch' = Batch(batch.edge, Put(batch.out, n, rest))

(***************************************************************************)
(* removeNode(): the node record is deleted at once, then its ids leave    *)
(* the sets of the other ends in one batch.  Its own set and the edge      *)
(* records stay, except that a loop leaves the node's own set.             *)
(***************************************************************************)
RemoveNode(n) ==
  /\ Idle
  /\ nodes' = nodes \ {n}
  /\ cache' = Find(cache, n)
  /\ node' = n
  /\ unlinks' = OutEdges(n)
  /\ pc' = "unlink"
  /\ UNCHANGED <<edges, outDb, batch, links>>

\* a mutation of OtherEnd: the side of the node itself
OwnEnd(id) == IF edges[id].from = node THEN edges[id].from ELSE edges[id].to

OtherEnd(id) == IF edges[id].from = node THEN edges[id].to ELSE edges[id].from

\* the loop visits the ids in the order of std::set
IsNext(id) == id \in unlinks /\ \A other \in unlinks : id <= other

Unlink(id) ==
  /\ pc = "unlink"
  /\ IsNext(id)
  /\ IF id \in DOMAIN edges THEN DropFrom(OtherEnd(id), id) ELSE UNCHANGED <<cache, batch>>
  /\ unlinks' = unlinks \ {id}
  /\ UNCHANGED <<db, pc, links, node>>

UnlinkDone ==
  /\ pc = "unlink"
  /\ unlinks = {}
  /\ Write
  /\ pc' = "idle"
  /\ node' = NoNode
  /\ UNCHANGED <<nodes, cache, links, unlinks>>

\* getOutEdge() as a client calls it: only the order of the cache changes
ReadOut(n) ==
  /\ Idle
  /\ cache' = Find(cache, n)
  /\ UNCHANGED <<db, batch, local>>

(***************************************************************************)
(* The process stops and opens the database again                          *)
(***************************************************************************)
Restart ==
  /\ pc \in CrashPoints
  /\ cache' = EmptyCache
  /\ batch' = NoBatch
  /\ pc' = "idle" /\ links' = <<>> /\ node' = NoNode /\ unlinks' = {}
  /\ UNCHANGED db

\* destroy(): an empty database; the cache is not told
Destroy ==
  /\ Idle
  /\ WarmDestroy \/ cache = EmptyCache
  /\ nodes' = {} /\ edges' = <<>> /\ outDb' = NoSets
  /\ UNCHANGED <<cache, batch, local>>

(***************************************************************************)
(* The specification                                                       *)
(***************************************************************************)
Steps ==
  \/ LinkNext
  \/ LinkDone
  \/ \E id \in EdgeId : Unlink(id)
  \/ UnlinkDone

Next ==
  \/ \E n \in Node : SetNode(n) \/ RemoveNode(n) \/ ReadOut(n)
  \/ \E ns \in SUBSET Node : SetNodesBundle(ns)
  \/ \E e \in Edge : SetEdge(e)
  \/ \E eb \in Bundles : SetEdgesBundle(eb)
  \/ \E id \in EdgeId : RemoveEdge(id) \/ RemoveUnknownEdge(id)
  \/ Steps
  \/ Restart
  \/ Destroy

Spec == Init /\ [][Next]_vars

(***************************************************************************)
(* Properties                                                              *)
(***************************************************************************)
Pending(n) == IF n \in DOMAIN batch.out THEN batch.out[n] ELSE outDb[n]

Sets == SUBSET EdgeId
Records == UNION {[S -> Ends] : S \in SUBSET EdgeId}

\* The type invariant of the store; a cache orders exactly its keys.
TypeOK ==
  /\ nodes \subseteq Node
  /\ edges \in Records
  /\ outDb \in [Node -> Sets]
  /\ cache \in Caches(Node, Sets)
  /\ batch \in [edge : Records, out : UNION {[S -> Sets] : S \in SUBSET Node}]
  /\ pc \in {"idle", "link", "unlink"}
  /\ links \in Seq(Edge)
  /\ node \in Node \cup {NoNode}
  /\ unlinks \subseteq EdgeId

\* A set in the cache is the set the database has, or will have once the
\* open batch is written, also when both ends of an edge share the set.
CacheCoherent == \A n \in DOMAIN cache.val : cache.val[n] = Pending(n)

\* Every id in a set has an edge record, stored or about to be, so that
\* removeNode() never asks an edge parsed from an empty string for its end.
IdsHaveRecords == \A n \in Node : Pending(n) \subseteq DOMAIN edges \cup DOMAIN batch.edge

(***************************************************************************)
(* The inductive invariant of module UndirectedStoreProofs                 *)
(***************************************************************************)
\* Enough of TypeOK to know which records a step reads and writes.  Between
\* calls no batch is open.
WellFormed ==
  /\ DOMAIN outDb = Node
  /\ DOMAIN cache.val \subseteq Node
  /\ DOMAIN batch.out \subseteq Node
  /\ \A id \in DOMAIN edges : edges[id] \in Ends
  /\ \A id \in DOMAIN batch.edge : batch.edge[id] \in Ends
  /\ links \in Seq(Edge)
  /\ pc # "link" => links = <<>>
  /\ Idle => batch = NoBatch

\* Stored sets hold ids of stored records; sets and edges of the open batch
\* may also have their records in the batch.
StoredResolve == \A n \in Node : outDb[n] \subseteq DOMAIN edges
PutResolve == \A n \in DOMAIN batch.out : batch.out[n] \subseteq DOMAIN edges \cup DOMAIN batch.edge
LinksHaveRecords == \A i \in DOMAIN links : links[i].id \in DOMAIN batch.edge

StoreInv ==
  WellFormed /\ CacheCoherent /\ StoredResolve /\ PutResolve /\ LinksHaveRecords
=============================================================================
