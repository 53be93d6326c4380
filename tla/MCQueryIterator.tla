--------------------------- MODULE MCQueryIterator ---------------------------
(* The graphs and the patterns the iterator is checked with.               *)
EXTENDS QueryIterator, TLC

ids == 1..3

Graph(nodes, ends, in) == [nodes |-> nodes, ends |-> ends, linked |-> in]

Ends(nodes) == [from : nodes, to : nodes]

\* two nodes, up to two edge records, all of them or some removed
smallGraphs ==
  {Graph({1, 2}, ends, in) :
     <<ends, in>> \in UNION {{<<f, l>> : f \in [records -> Ends({1, 2})], l \in SUBSET records} :
                               records \in {{}, {1}, {1, 2}}}}

\* a node record is missing
brokenGraphs == {Graph({1}, [e \in {1} |-> x], {1}) : x \in Ends({1, 2})}

\* three edges: parallel ones, a loop, a triangle, the README's graph
largeGraphs ==
  LET G(a, b, c, d, e, f) ==
        Graph(ids, 1 :> [from |-> a, to |-> b] @@ 2 :> [from |-> c, to |-> d]
                     @@ 3 :> [from |-> e, to |-> f], ids)
  IN  {G(1, 2, 1, 2, 2, 1), G(1, 1, 1, 2, 2, 2), G(1, 2, 2, 3, 3, 1), G(1, 3, 2, 3, 3, 2)}

\* patterns of n nodes with ids from givens; at most one literal filters
Patterns(n, givens, filters, dirs) ==
  LET els == 0..2 * n - 2
  IN  {[nodesCnt |-> n, given |-> given, accepts |-> accepts, direction |-> direction] :
         given \in UNION {[known -> givens] : known \in SUBSET els},
         accepts \in {[id \in els |-> IF id = x THEN f ELSE ids] : x \in els, f \in filters},
         direction \in [{id \in els : ~ IsNode(id)} -> dirs]}

oneWay == {"next", "prev"}

\* the first of the ids that are given is 1: no node is looked for before it
smallQueries ==
  Patterns(1, ids, {ids, {2}}, oneWay)
    \cup {q \in Patterns(2, {1, 2}, {ids, {2}}, oneWay \cup {"both"}) :
            DOMAIN q.given = {} \/ q.given[Min(DOMAIN q.given)] = 1}

\* chains of two edges, by what is given
chainQueries == Patterns(3, {1, 3}, {ids}, oneWay)

On(graphs, queries) == {[graph |-> g, query |-> q] : g \in graphs, q \in queries}

smallCases == On(smallGraphs \cup brokenGraphs \cup largeGraphs, smallQueries)
simpleCases == On(largeGraphs, smallQueries)
chainCases == On(largeGraphs, chainQueries)
allCases == smallCases \cup chainCases

\* test/leveldbgraphtest.cpp:46-107: A -> B, A -> C; (id="A")-[e]->(b)
testCases ==
  LET star == Graph(ids, 1 :> [from |-> 1, to |-> 2] @@ 2 :> [from |-> 1, to |-> 3], {1, 2})
  IN  On({star}, {q \in Patterns(2, {1}, {ids}, {"next"}) : q.given = (0 :> 1)})
=============================================================================
