-------------------------- MODULE MCDirectedClient --------------------------
(* Small instances of DirectedClient. *)
EXTENDS DirectedClient

CONSTANTS n1, n2, n3

TwoNodes == {n1, n2}
ThreeNodes == {n1, n2, n3}

MCEdge(i, a, b) == [id |-> i, from |-> a, to |-> b]

TwoNodeBundles ==
  {<<MCEdge(1, n1, n2), MCEdge(2, n1, n2)>>,
   <<MCEdge(2, n2, n2), MCEdge(1, n2, n1)>>,
   <<MCEdge(1, n1, n2), MCEdge(1, n1, n2)>>}
=============================================================================
