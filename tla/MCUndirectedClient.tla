------------------------ MODULE MCUndirectedClient --------------------------
(* Small instances of UndirectedClient. *)
EXTENDS UndirectedClient, TLC

CONSTANTS n1, n2, n3

ThreeNodes == {n1, n2, n3}

MCEdge(i, a, b) == [id |-> i, from |-> a, to |-> b]

\* parallel edges; a loop and an edge; a path; one edge twice; in every naming
\* of the nodes, so that the nodes are interchangeable
ThreeNodeBundles ==
  UNION {{<<MCEdge(1, p[n1], p[n2]), MCEdge(2, p[n1], p[n2])>>,
          <<MCEdge(2, p[n2], p[n2]), MCEdge(1, p[n2], p[n1])>>,
          <<MCEdge(1, p[n1], p[n3]), MCEdge(2, p[n3], p[n2])>>,
          <<MCEdge(1, p[n1], p[n2]), MCEdge(1, p[n1], p[n2])>>} : p \in Permutations(ThreeNodes)}

Interchangeable == Permutations(ThreeNodes)
=============================================================================
