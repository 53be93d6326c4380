---------------------------- MODULE DirectedClient ---------------------------
(***************************************************************************)
(* DirectedStore as the tests and the README use it: a client that links   *)
(* only nodes that exist and does not give an edge id that is in use other *)
(* ends.  Such a client is promised a graph: module GraphSpec.             *)
(***************************************************************************)
EXTENDS DirectedStore

VARIABLES
  shown,   \* auxiliary: the nodes as of the last completed call
  removed  \* auxiliary: the ids removeNode() was called with

cvars == <<vars, shown, removed>>

InUse(id) == id \in outDb[edges[id].from] \cup inDb[edges[id].to]

Careful(eb) ==
  /\ \A i, j \in DOMAIN eb : eb[i].id = eb[j].id => eb[i] = eb[j]
  /\ \A i \in DOMAIN eb :
       /\ {eb[i].from, eb[i].to} \subseteq nodes
       /\ (eb[i].id \in DOMAIN edges /\ InUse(eb[i].id)) => EndsOf(eb[i]) = edges[eb[i].id]

\* the calls of the client
Calls ==
  \/ \E n \in Node : SetNode(n) \/ RemoveNode(n) \/ ReadOut(n) \/ ReadIn(n)
  \/ \E ns \in SUBSET Node : SetNodesBundle(ns)
  \/ \E e \in Edge : Careful(<<e>>) /\ SetEdge(e)
  \/ \E eb \in Bundles : Careful(eb) /\ SetEdgesBundle(eb)
  \/ \E id \in EdgeId : RemoveEdge(id)

Noting(A, gone) ==
  /\ A
  /\ shown' = IF pc' \in {"unlinkIn", "unlinkOut"} THEN shown ELSE nodes'
  /\ removed' = gone

CInit == Init /\ shown = {} /\ removed = {}

CNext ==
  \/ Noting(Calls, IF pc' = "unlinkIn" THEN removed \cup {node'} ELSE removed)
  \/ Noting(Steps, removed)
  \/ Noting(Restart, removed)
  \/ Noting(Destroy, {})

CSpec == CInit /\ [][CNext]_cvars

(***************************************************************************)
(* Properties                                                              *)
(***************************************************************************)
\* An edge exists for a caller when both sets and the record agree on it.
liveIds == {id \in DOMAIN edges : id \in outDb[edges[id].from] /\ id \in inDb[edges[id].to]}

Graph == INSTANCE GraphSpec WITH
  nodes <- shown,
  live <- [id \in liveIds |-> edges[id]],
  EdgeBundle <- Bundles \cup {<<e>> : e \in Edge}

\* Every call takes effect as a whole: a bundle stores and indexes all of
\* its edges or none, removeNode() takes the node and all its edges, also
\* self-loops and parallel edges, and leaves every other edge alone.
ImplementsGraph == Graph!Spec

\* The sets of a node that was never removed list exactly its edges: what
\* getOutEdge() and getInEdge() return are neither dead nor missing ids.
SetsAreExact ==
  Idle => \A n \in Node \ removed :
            /\ outDb[n] = {id \in liveIds : edges[id].from = n}
            /\ inDb[n] = {id \in liveIds : edges[id].to = n}

\* The ends of every edge exist, so that getNode() on an end of an edge
\* found by a query does not fail its assertion.
EndsExist ==
  Idle => \A id \in liveIds : {edges[id].from, edges[id].to} \subseteq nodes
=============================================================================
