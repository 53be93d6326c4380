--------------------------- MODULE TFLabelConstruct ---------------------------
(* TFLabel::construct() (src/include/algorithm/tflabel.hpp:312-530): the    *)
(* components and the edges between them are kept in a directed store and   *)
(* folded there, round by round, while an iterator walks its node records.  *)
(* The store is what its callers are promised (module GraphSpec).  An edge  *)
(* has its two ends for an id.  Node ids are numbers, and the walk takes    *)
(* them by their keys, in decimal: 10 before 2 (KeyOrder).                  *)
EXTENDS TFLabel

CONSTANTS
  Ids,      \* bound on the numbers of nodes
  KeyOrder  \* pairs of them, of which the first has the key that comes first

ASSUME KeyAssumption ==
  /\ Ids \subseteq Nat /\ 0..MaxTot - 1 \subseteq Ids
  /\ \A x, y \in Ids : x # y => <<x, y>> \in KeyOrder \/ <<y, x>> \in KeyOrder
  /\ \A x \in Ids : <<x, x>> \notin KeyOrder
  /\ \A x, y, z \in Ids : <<x, y>> \in KeyOrder /\ <<y, z>> \in KeyOrder => <<x, z>> \in KeyOrder

VARIABLES
  phase,                \* "off", the loop that walks: "a", "b", "c", "close", "finished"
  ii,                   \* the round
  it,                   \* the node the walk is at; End behind the last
  level, edges,         \* the store: node records and edges
  tot, fa,              \* nodes so far, and the component each is made from
  label_in, label_out,
  order,                \* nodes in the order of their removal
  joined                \* positions of order done, of the loop over them

End == -1
folding == <<phase, ii, it, level, edges, tot, fa, label_in, label_out, order, joined>>
allVars == <<vars, folding>>

Records == DOMAIN level
FirstOf(S) == IF S = {} THEN End ELSE CHOOSE n \in S : \A m \in S \ {n} : <<n, m>> \in KeyOrder
OutNodes(n) == {m \in Records : <<n, m>> \in edges}
InNodes(n) == {m \in Records : <<m, n>> \in edges}
IsOdd(n) == n % 2 = 1

\* ++ on the iterator: what the store holds by then counts
After(n, records) == FirstOf({m \in records : <<n, m>> \in KeyOrder})

\* the nodes of a finished walk lead to the next loop
Walk(records, next) ==
  IF After(it, records) # End
    THEN it' = After(it, records) /\ phase' = phase
    ELSE it' = FirstOf(records) /\ phase' = next

-----------------------------------------------------------------------------
ConstructInit ==
  /\ Init
  /\ phase = "off" /\ ii = 0 /\ it = End /\ level = <<>> /\ edges = {}
  /\ tot = 0 /\ fa = <<>> /\ label_in = <<>> /\ label_out = <<>> /\ order = <<>> /\ joined = 0

\* a new object: its store is destroyed, its arrays are new
Renew ==
  /\ phase' = "off" /\ ii' = 0 /\ it' = End /\ level' = <<>> /\ edges' = {}
  /\ tot' = 0 /\ fa' = <<>> /\ label_in' = <<>> /\ label_out' = <<>> /\ order' = <<>> /\ joined' = 0

\* the edges between components, as read() puts them into the store
Crossing ==
  LET number(u) == sccno[u] - 1 IN
  UNION {{number(u)} \X ({number(v) : v \in Range(GG[u])} \ {number(u)}) : u \in Nodes}

\* what read() left in the store, with the levels of toposort()
StartConstruct ==
  LET self == [c \in Components |-> {c}] IN
  /\ stage = "done" /\ phase = "off"
  /\ level' = tln /\ edges' = Crossing
  /\ tot' = scc_cnt /\ fa' = [c \in Components |-> c]
  /\ label_in' = self /\ label_out' = self /\ order' = <<>> /\ joined' = 0 /\ ii' = 1
  /\ IF TF < 1 THEN phase' = "finished" /\ it' = End ELSE phase' = "a" /\ it' = FirstOf(Components)
  /\ UNCHANGED vars

\* a new node on the edges between n and far, behind n or before it
Split(n, far, newLevel, outwards) ==
  LET m == tot
      old == IF outwards THEN {n} \X far ELSE far \X {n}
      new == IF outwards THEN {<<n, m>>} \cup ({m} \X far) ELSE {<<m, n>>} \cup (far \X {m})
  IN
  IF far = {} THEN UNCHANGED <<level, edges, tot, fa, label_in, label_out>>
  ELSE /\ m \in Ids
       /\ level' = [x \in Records \cup {m} |-> IF x = m THEN newLevel ELSE level[x]]
       /\ edges' = (edges \ old) \cup new
       /\ tot' = tot + 1 /\ fa' = [x \in 0..tot |-> IF x = m THEN fa[n] ELSE fa[x]]
       /\ label_in' = [x \in 0..tot |-> IF x = m THEN {} ELSE label_in[x]]
       /\ label_out' = [x \in 0..tot |-> IF x = m THEN {} ELSE label_out[x]]

\* a mutation of Ahead: a node two levels up counts as the next
AheadTooFar(n) == IF IsOdd(level[n]) THEN {m \in OutNodes(n) : level[m] > level[n] + 2} ELSE {}

\* a new node goes before those more than a level behind
Ahead(n) == IF IsOdd(level[n]) THEN {m \in OutNodes(n) : level[m] > level[n] + 1} ELSE {}

SplitOut ==
  /\ phase = "a"
  /\ Split(it, Ahead(it), level[it] + 1, TRUE)
  /\ Walk(DOMAIN level', "b")
  /\ UNCHANGED <<vars, ii, order, joined>>

Behind(n) ==
  IF IsOdd(level[n]) THEN {m \in InNodes(n) : level[m] < level[n] - 1 /\ ~ IsOdd(level[m])} ELSE {}

SplitIn ==
  /\ phase = "b"
  /\ Split(it, Behind(it), level[it] - 1, FALSE)
  /\ Walk(DOMAIN level', "c")
  /\ UNCHANGED <<vars, ii, order, joined>>

Halve ==
  /\ phase = "c" /\ ~ IsOdd(level[it])
  /\ level' = [level EXCEPT ![it] = @ \div 2]
  /\ Walk(Records, "close")
  /\ UNCHANGED <<vars, ii, edges, tot, fa, label_in, label_out, order, joined>>

\* a mutation of Bridges: what leads to n is led nowhere else
BridgesLost(n) == {}

\* an edge for each way through n
Bridges(n) == InNodes(n) \X OutNodes(n)

\* a mutation of InLabel: from the nodes before it
InLabelBackwards(n) == label_in[n] \cup UNION {label_in[m] : m \in InNodes(n)}

InLabel(n) == label_in[n] \cup UNION {label_in[m] : m \in OutNodes(n)}
OutLabel(n) == label_out[n] \cup UNION {label_out[m] : m \in InNodes(n)}

Fold ==
  /\ phase = "c" /\ IsOdd(level[it])
  /\ label_in' = [label_in EXCEPT ![it] = InLabel(it)]
  /\ label_out' = [label_out EXCEPT ![it] = OutLabel(it)]
  /\ edges' = {e \in edges : it \notin {e[1], e[2]}} \cup Bridges(it)
  /\ order' = Append(order, it)
  /\ level' = [x \in Records \ {it} |-> level[x]]
  /\ Walk(Records, "close")
  /\ UNCHANGED <<vars, ii, tot, fa, joined>>

\* a mutation of Joined: nothing is joined
JoinedNever(label, i) == label

\* position i, not the node there, joins the labels of what its label has
Joined(label, i) == [label EXCEPT ![i] = @ \cup UNION {label[x] : x \in @}]

\* the loop over the positions of order, from the last
Join ==
  LET i == Len(order) - 1 - joined IN
  /\ phase = "close" /\ i >= 0
  /\ label_in' = Joined(label_in, i) /\ label_out' = Joined(label_out, i)
  /\ joined' = joined + 1
  /\ UNCHANGED <<vars, phase, ii, it, level, edges, tot, fa, order>>

Renamed(label) ==
  [x \in DOMAIN label |-> IF x \in Components THEN {fa[y] : y \in label[x]} ELSE label[x]]

Close ==
  /\ phase = "close" /\ joined = Len(order) /\ joined' = 0
  /\ label_in' = Renamed(label_in) /\ label_out' = Renamed(label_out)
  /\ ii' = ii + 1
  /\ IF ii' > TF THEN phase' = "finished" /\ it' = End
     ELSE /\ phase' = IF Records = {} THEN "close" ELSE "a"
          /\ it' = FirstOf(Records)
  /\ UNCHANGED <<vars, level, edges, tot, fa, order>>

Construct == StartConstruct \/ SplitOut \/ SplitIn \/ Halve \/ Fold \/ Join \/ Close

\* read() and preprocess() of one object after the other
ConstructNext ==
  \/ Work /\ UNCHANGED folding
  \/ Construct
  \/ (stage = "done" => phase = "finished") /\ Begin /\ Renew

ConstructSpec == ConstructInit /\ [][ConstructNext]_allVars

-----------------------------------------------------------------------------
Joins(E, N, x, y) ==
  \A S \in SUBSET N : x \in S /\ (\A e \in E : e[1] \in S => e[2] \in S) => y \in S

\* between components, as they were read
Precedes(x, y) == Joins(Crossing, Components, x, y)
Folding == phase # "off"

(* TF rounds fold every node of the store, the new ones too, each once: the *)
(* walk misses none of them although nodes come and go behind and before it *)
(* (tflabel.hpp:281, 335-482).                                              *)
EveryNodeFolded ==
  (phase = "finished" /\ TF >= 1) => Records = {} /\ Len(order) = tot /\ Range(order) = 0..tot - 1

(* When the third loop of a round begins, every edge at a node of an odd    *)
(* level spans one level: no two nodes folded in one round are neighbours,  *)
(* so a label does not depend on the order of the walk (tflabel.hpp:337-429). *)
FoldedApart ==
  (phase = "c" /\ it = FirstOf(Records)) =>
     \A e \in edges : (IsOdd(level[e[1]]) \/ IsOdd(level[e[2]])) => level[e[2]] = level[e[1]] + 1

(* While nodes are added, folded and removed, a component still stored      *)
(* leads to the same of the others still stored as in the file              *)
(* (tflabel.hpp:345-377, 396-427, 465-478).                                 *)
ReachabilityKept ==
  Folding => \A x, y \in Records \cap Components : Joins(edges, Records, x, y) <=> Precedes(x, y)

(* A label names, through fa, only components reached from its node, or     *)
(* that reach it: at no step is a pair reported that is not there           *)
(* (tflabel.hpp:449-463, 483-515).                                          *)
LabelsSound ==
  Folding =>
    \A x \in 0..tot - 1 :
      /\ \A y \in label_in[x] : Precedes(fa[x], fa[y])
      /\ \A y \in label_out[x] : Precedes(fa[y], fa[x])

(* Of components below level 8 with no edge over more than a level, so that *)
(* no new node was made, one reaches the other exactly when their labels    *)
(* meet: what the labels are for.  With a level more the one pass of Join   *)
(* is not enough (tflabel.hpp:89, 449-498).                                 *)
LabelsComplete ==
  (phase = "finished" /\ TF \in 1..3 /\ tot = scc_cnt) =>
    \A x, y \in Components : Precedes(x, y) <=> label_in[x] \cap label_out[y] # {}
=============================================================================
