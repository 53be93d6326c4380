------------------------------ MODULE GraphSpec ------------------------------
(***************************************************************************)
(* What GraphInterface (include/graph_interface.hpp) promises a caller of  *)
(* a store: a set of nodes and a set of edges between ids, where every     *)
(* call takes effect completely or not at all, and where removing a node   *)
(* removes its edges.                                                      *)
(***************************************************************************)
EXTENDS Naturals, Sequences

CONSTANTS Node, EdgeId, EdgeBundle  \* EdgeBundle: the vectors of edges a call may carry

VARIABLES
  nodes,  \* the ids of the nodes
  live    \* the edges: id -> ends

vars == <<nodes, live>>

Init == nodes = {} /\ live = <<>>

SetNodes(ns) == nodes' = nodes \cup ns /\ UNCHANGED live

\* the edges of the vector, the last one of an id
SetEdges(eb) ==
  LET ids == {eb[i].id : i \in DOMAIN eb}
      last(id) == CHOOSE i \in DOMAIN eb :
                    eb[i].id = id /\ \A j \in DOMAIN eb : eb[j].id = id => j <= i
  IN  /\ live' = [id \in DOMAIN live \cup ids |->
                    IF id \in ids
                    THEN [from |-> eb[last(id)].from, to |-> eb[last(id)].to]
                    ELSE live[id]]
      /\ UNCHANGED nodes

Keep(ids) == live' = [id \in ids |-> live[id]]

RemoveEdge(id) == Keep(DOMAIN live \ {id}) /\ UNCHANGED nodes

RemoveNode(n) ==
  /\ nodes' = nodes \ {n}
  /\ Keep({id \in DOMAIN live : n \notin {live[id].from, live[id].to}})

Clear == nodes' = {} /\ live' = <<>>

Next ==
  \/ \E ns \in SUBSET Node : SetNodes(ns)
  \/ \E eb \in EdgeBundle : SetEdges(eb)
  \/ \E id \in EdgeId : RemoveEdge(id)
  \/ \E n \in Node : RemoveNode(n)
  \/ Clear

Spec == Init /\ [][Next]_vars
=============================================================================
