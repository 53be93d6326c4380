--------------------------- MODULE UndirectedClient --------------------------
(***************************************************************************)
(* UndirectedStore used by a client that links only nodes that exist and   *)
(* does not give an edge id that is in use other ends.  It is promised the *)
(* graph of module GraphSpec; which end is `from` is kept by the record    *)
(* and does not matter to the sets.                                        *)
(***************************************************************************)
EXTENDS UndirectedStore

VARIABLES
  shown,   \* auxiliary: the nodes as of the last completed call
  removed  \* auxiliary: the ids removeNode() was called with

cvars == <<vars, shown, removed>>

InUse(id) == id \in outDb[edges[id].from] \cup outDb[edges[id].to]

Careful(eb) ==
  /\ \A i, j \in DOMAIN eb : eb[i].id = eb[j].id => eb[i] = eb[j]
  /\ \A i \in DOMAIN eb :
       /\ {eb[i].from, eb[i].to} \subseteq nodes
       /\ (eb[i].id \in DOMAIN edges /\ InUse(eb[i].id)) => EndsOf(eb[i]) = edges[eb[i].id]

\* the calls of the client
Calls ==
  \/ \E n \in Node : SetNode(n) \/ RemoveNode(n) \/ ReadOut(n)
  \/ \E ns \in SUBSET Node : SetNodesBundle(ns)
  \/ \E e \in Edge : Careful(<<e>>) /\ SetEdge(e)
  \/ \E eb \in Bundles : Careful(eb) /\ SetEdgesBundle(eb)
  \/ \E id \in EdgeId : RemoveEdge(id)

Noting(A, gone) ==
  /\ A
  /\ shown' = IF pc' = "unlink" THEN shown ELSE nodes'
  /\ removed' = gone

CInit == Init /\ shown = {} /\ removed = {}

CNext ==
  \/ Noting(Calls, IF pc' = "unlink" THEN removed \cup {node'} ELSE removed)
  \/ Noting(Steps, removed)
  \/ Noting(Restart, removed)
  \/ Noting(Destroy, {})

CSpec == CInit /\ [][CNext]_cvars

(***************************************************************************)
(* Properties                                                              *)
(***************************************************************************)
\* An edge exists for a caller when the sets of both its ends have it.
liveIds == {id \in DOMAIN edges : id \in outDb[edges[id].from] \cap outDb[edges[id].to]}

Graph == INSTANCE GraphSpec WITH
  nodes <- shown,
  live <- [id \in liveIds |-> edges[id]],
  EdgeBundle <- Bundles \cup {<<e>> : e \in Edge}

\* Every call takes effect as a whole: a bundle stores and indexes all of
\* its edges or none, removeNode() takes the node and all its edges, also
\* self-loops and parallel edges, and leaves every other edge alone.
ImplementsGraph == Graph!Spec

\* The set of a node that was never removed lists exactly its edges, those
\* that start at it and those that end there.
SetsAreExact ==
  Idle => \A n \in Node \ removed :
            outDb[n] = {id \in liveIds : n \in {edges[id].from, edges[id].to}}
=============================================================================
