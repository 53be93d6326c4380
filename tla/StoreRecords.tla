---------------------------- MODULE StoreRecords ----------------------------
(***************************************************************************)
(* The records the graph stores of include/backend/leveldbgraph.hpp keep   *)
(* in LevelDB, and the helpers both stores use on them.  A record is       *)
(* modelled by its content, keyed by the id its key is built from: the     *)
(* suffixes keep the four kinds of records apart.  Node records have no    *)
(* content the store looks at.                                             *)
(***************************************************************************)
EXTENDS RecencyCache

CONSTANTS Node, EdgeId  \* edge ids are numbers, standing for their byte order

ASSUME IdAssumption == EdgeId \subseteq Nat

Edge == [id : EdgeId, from : Node, to : Node]
Ends == [from : Node, to : Node]

\* f, with the records of g put over it
Over(g, f) == [x \in DOMAIN f \cup DOMAIN g |-> IF x \in DOMAIN g THEN g[x] ELSE f[x]]

Put(f, k, v) == [x \in DOMAIN f \cup {k} |-> IF x = k THEN v ELSE f[x]]

EndsOf(e) == [from |-> e.from, to |-> e.to]

\* the edge records of a bundle; a later one replaces an earlier one
RecordsOf(eb) ==
  [id \in {eb[i].id : i \in DOMAIN eb} |->
     EndsOf(eb[CHOOSE i \in DOMAIN eb :
                 eb[i].id = id /\ \A j \in DOMAIN eb : eb[j].id = id => j <= i])]

\* the cache after a get followed by a set of the same node
Rewritten(c, n, ids) == Assign(Find(c, n), n, ids)
=============================================================================
