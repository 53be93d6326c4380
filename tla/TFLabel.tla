------------------------------- MODULE TFLabel -------------------------------
(* TFLabel::read() and toposort() (src/include/algorithm/tflabel.hpp): the  *)
(* strongly connected components by Tarjan's depth-first search, the graph  *)
(* between them, and the level of each.  The calls of dfs() are a stack of  *)
(* frames.  The labels of construct() are in module TFLabelConstruct.       *)
EXTENDS Integers, Sequences, SequencesExt

CONSTANTS
  Files,  \* what data.txt may hold: sequences of pairs of numbers
  Later,  \* and what it may hold for a second object
  MaxTot, \* bound on the nodes of a file (maxn)
  MaxNum  \* highest number there is an element of pre_to_new_NUM for (maxN - 1)

ids(file) == {file[i][k] : i \in DOMAIN file, k \in 1..2}

ASSUME FilesAssumption ==
  /\ MaxTot \in Nat /\ MaxNum \in Nat /\ Later \subseteq Files
  /\ \A file \in Files :
       /\ file \in Seq((0..MaxNum) \X (0..MaxNum)) /\ file # <<>>
       /\ Cardinality(ids(file)) <= MaxTot

VARIABLES
  stage,                \* "new", "scc", "sort", "levels", "done"
  GG,                   \* the graph as read, nodes numbered from 0
  pre, lowlink, sccno,  \* per node
  stack,                \* s of dfs(), static
  frames,               \* the calls of dfs(): a node and the next of its edges
  root,                 \* i of find_scc()
  dfs_clock, scc_cnt,
  G,                    \* the graph between components, numbered from 0
  deg,                  \* of toposort(), static
  tln,                  \* levels
  queue, maxx, TF

search == <<pre, lowlink, sccno, stack, frames, root, dfs_clock, scc_cnt>>
sorting == <<deg, tln, queue, maxx, TF>>
vars == <<stage, GG, search, G, sorting>>

Nodes == DOMAIN GG
Components == 0..scc_cnt - 1

Most(S) == CHOOSE x \in S : \A y \in S : y <= x
Least(x, y) == IF x < y THEN x ELSE y
Times(y, s) == Cardinality({i \in DOMAIN s : s[i] = y})

\* the members of S, one before the other as the pairs of them say
InOrder(S, before) ==
  LET n == Cardinality(S)
  IN  CHOOSE s \in [1..n -> S] : \A i, j \in 1..n : i < j => <<s[i], s[j]>> \in before

Ascending(S) == InOrder(S, {p \in S \X S : p[1] < p[2]})

-----------------------------------------------------------------------------
(* read(): the numbers of the file become 0, 1, ...                         *)

NewNum(file, x) == Cardinality({y \in ids(file) : y < x})

Adjacency(file) ==
  [u \in 0..Cardinality(ids(file)) - 1 |->
     LET out == Ascending({i \in DOMAIN file : NewNum(file, file[i][1]) = u})
     IN  [i \in DOMAIN out |-> NewNum(file, file[out[i]][2])]]

Init ==
  /\ stage = "new" /\ GG = <<>> /\ pre = <<>> /\ lowlink = <<>> /\ sccno = <<>>
  /\ frames = <<>> /\ root = 0 /\ dfs_clock = 0 /\ scc_cnt = 0
  /\ G = <<>> /\ tln = <<>> /\ queue = <<>> /\ maxx = 0 /\ TF = 0
  /\ stack = <<>> /\ deg = [c \in 0..MaxTot - 1 |-> 0]

\* a new object reads its file; deg and the stack are as the last one left them
Read(file) ==
  LET zero == [u \in DOMAIN Adjacency(file) |-> 0] IN
  /\ stage' = "scc" /\ GG' = Adjacency(file)
  /\ pre' = zero /\ lowlink' = zero /\ sccno' = zero
  /\ frames' = <<>> /\ root' = 0 /\ dfs_clock' = 0 /\ scc_cnt' = 0
  /\ G' = <<>> /\ tln' = <<>> /\ queue' = <<>> /\ maxx' = 0 /\ TF' = 0
  /\ UNCHANGED <<stack, deg>>

-----------------------------------------------------------------------------
(* find_scc() and dfs()                                                      *)

\* the beginning of dfs(u)
Visit(u) ==
  /\ dfs_clock' = dfs_clock + 1
  /\ pre' = [pre EXCEPT ![u] = dfs_clock + 1]
  /\ lowlink' = [lowlink EXCEPT ![u] = dfs_clock + 1]
  /\ stack' = Append(stack, u)
  /\ frames' = Append(frames, [node |-> u, next |-> 1])
  /\ UNCHANGED <<sccno, scc_cnt>>

TryRoot ==
  /\ stage = "scc" /\ frames = <<>> /\ root \in Nodes
  /\ root' = root + 1
  /\ IF pre[root] = 0 THEN Visit(root)
     ELSE UNCHANGED <<pre, lowlink, sccno, stack, frames, dfs_clock, scc_cnt>>
  /\ UNCHANGED <<stage, GG, G, sorting>>

u0 == Last(frames).node
Looking == stage = "scc" /\ frames # <<>> /\ Last(frames).next \in DOMAIN GG[u0]
v0 == GG[u0][Last(frames).next]

Advanced(calls) ==
  IF calls = <<>> THEN <<>> ELSE [calls EXCEPT ![Len(calls)].next = @ + 1]

Descend ==
  /\ Looking /\ pre[v0] = 0
  /\ Visit(v0)
  /\ UNCHANGED <<stage, GG, root, G, sorting>>

\* an edge to a node already visited: on the stack, or in a component
\* a mutation of SeenLow: components that are complete count as well
SeenLowAnywhere == Least(lowlink[u0], pre[v0])

SeenLow == IF sccno[v0] = 0 THEN Least(lowlink[u0], pre[v0]) ELSE lowlink[u0]

Seen ==
  /\ Looking /\ pre[v0] # 0
  /\ lowlink' = [lowlink EXCEPT ![u0] = SeenLow]
  /\ frames' = Advanced(frames)
  /\ UNCHANGED <<stage, GG, pre, sccno, stack, root, dfs_clock, scc_cnt, G, sorting>>

\* a mutation of From: the loop stops before u itself
FromBehind(u) == 1 + Most({i \in DOMAIN stack : stack[i] = u})

\* where the component of u begins on the stack
From(u) == Most({i \in DOMAIN stack : stack[i] = u})

\* the loop that pops a component
PopComponent(u) ==
  /\ scc_cnt' = scc_cnt + 1
  /\ sccno' = [v \in Nodes |-> IF \E i \in From(u)..Len(stack) : stack[i] = v
                                 THEN scc_cnt + 1 ELSE sccno[v]]
  /\ stack' = SubSeq(stack, 1, From(u) - 1)

\* the end of dfs(u), and the caller's next lines
Return ==
  /\ stage = "scc" /\ frames # <<>> /\ Last(frames).next \notin DOMAIN GG[u0]
  /\ IF lowlink[u0] = pre[u0] THEN PopComponent(u0) ELSE UNCHANGED <<scc_cnt, sccno, stack>>
  /\ frames' = Advanced(Front(frames))
  /\ lowlink' = IF Len(frames) = 1 THEN lowlink
                ELSE [lowlink EXCEPT ![Last(Front(frames)).node] = Least(@, lowlink[u0])]
  /\ UNCHANGED <<stage, GG, pre, root, dfs_clock, G, sorting>>

-----------------------------------------------------------------------------
(* the rest of read(): the edges between components, parallel ones kept      *)

Between(c) ==
  LET ends == UNION {{u} \X DOMAIN GG[u] : u \in Nodes}
      leaving == {e \in ends : sccno[e[1]] = c + 1 /\ sccno[GG[e[1]][e[2]]] # c + 1}
      out == InOrder(leaving, {p \in leaving \X leaving :
                                 p[1][1] < p[2][1] \/ (p[1][1] = p[2][1] /\ p[1][2] < p[2][2])})
  IN  [i \in DOMAIN out |-> sccno[GG[out[i][1]][out[i][2]]] - 1]

Condense ==
  /\ stage = "scc" /\ frames = <<>> /\ root \notin Nodes
  /\ stage' = "sort" /\ G' = [c \in Components |-> Between(c)]
  /\ UNCHANGED <<GG, search, sorting>>

-----------------------------------------------------------------------------
(* toposort()                                                                *)

\* a mutation of EdgesInto: parallel edges count once
EdgesIntoOnce(c) == Cardinality({b \in Components : c \in Range(G[b])})

\* edges into c, each as often as it is in G
EdgesInto(c) ==
  Cardinality({e \in UNION {{b} \X DOMAIN G[b] : b \in Components} : G[e[1]][e[2]] = c})

Seed ==
  LET counted == [c \in DOMAIN deg |-> deg[c] + EdgesInto(c)] IN
  /\ stage = "sort" /\ stage' = "levels"
  /\ deg' = counted
  /\ queue' = Ascending({c \in Components : counted[c] = 0})
  /\ tln' = [c \in Components |-> IF counted[c] = 0 THEN 1 ELSE 0]
  /\ UNCHANGED <<GG, search, G, maxx, TF>>

\* a mutation of Raised: the same level as the predecessor
RaisedToSame(x, y) == IF tln[y] > tln[x] THEN tln[y] ELSE tln[x]

Raised(x, y) == IF tln[y] > tln[x] + 1 THEN tln[y] ELSE tln[x] + 1

\* one element of the queue, with all of its edges
Take ==
  LET x == Head(queue)
      level == [y \in Components |-> IF y \in Range(G[x]) THEN Raised(x, y) ELSE tln[y]]
      \* the edge with which a count reaches 0
      clears(i) == deg[G[x][i]] = Times(G[x][i], SubSeq(G[x], 1, i))
      cleared == Ascending({i \in DOMAIN G[x] : clears(i)})
  IN
  /\ stage = "levels" /\ queue # <<>>
  /\ deg' = [y \in DOMAIN deg |-> deg[y] - Times(y, G[x])]
  /\ tln' = level
  /\ maxx' = Most({maxx} \cup {level[y] : y \in Range(G[x])})
  /\ queue' = Tail(queue) \o [i \in DOMAIN cleared |-> G[x][cleared[i]]]
  /\ UNCHANGED <<stage, GG, search, G, TF>>

\* (int)(log(maxx)/log(2)) + 1; the cast of minus infinity gives the least int
LeastInt == -2147483647 - 1
\* a mutation of Rounds: the logarithm alone
RoundsOneLess == IF maxx = 0 THEN LeastInt ELSE CHOOSE k \in 0..maxx : 2^k <= maxx /\ maxx < 2^(k + 1)

Rounds == IF maxx = 0 THEN LeastInt + 1 ELSE 1 + CHOOSE k \in 0..maxx : 2^k <= maxx /\ maxx < 2^(k + 1)

FinishLevels ==
  /\ stage = "levels" /\ queue = <<>>
  /\ stage' = "done" /\ TF' = Rounds
  /\ UNCHANGED <<GG, search, G, deg, tln, queue, maxx>>

Work ==
  \/ TryRoot \/ Descend \/ Seen \/ Return \/ Condense \/ Seed \/ Take \/ FinishLevels

\* one TFLabel after the other in a process
Begin ==
  \/ stage = "new" /\ \E file \in Files : Read(file)
  \/ stage = "done" /\ \E file \in Later : Read(file)

Next == Begin \/ Work

Spec == Init /\ [][Next]_vars

-----------------------------------------------------------------------------

(* Types and ranges: node and component numbers fit their arrays, and no    *)
(* count of edges falls below zero (tflabel.hpp:57-68, 239-272).            *)
TypeOK ==
  /\ stage \in {"new", "scc", "sort", "levels", "done"}
  /\ \A u \in Nodes : Range(GG[u]) \subseteq Nodes
  /\ \A f \in {pre, lowlink, sccno} : f \in [Nodes -> 0..MaxTot]
  /\ stack \in Seq(Nodes) /\ \A i \in DOMAIN frames : frames[i].node \in Nodes
  /\ root \in 0..MaxTot /\ dfs_clock \in 0..MaxTot /\ scc_cnt \in 0..MaxTot
  /\ G # <<>> => \A c \in Components : Range(G[c]) \subseteq Components
  /\ deg \in [0..MaxTot - 1 -> Nat] /\ Range(queue) \subseteq Components

\* every set of nodes that has u and what its members lead to has v
Reaches(u, v) ==
  \A S \in SUBSET Nodes : u \in S /\ (\A x \in S : Range(GG[x]) \subseteq S) => v \in S

(* A component is complete when it gets its number: who has the same number *)
(* is reached both ways, and everything reached from it has a number        *)
(* already, and no higher one, so that edges between components lead to     *)
(* lower numbers (tflabel.hpp:119-158).                                     *)
ComponentsClosed ==
  \A u, v \in Nodes :
    sccno[u] # 0 =>
      /\ Reaches(u, v) => sccno[v] \in 1..sccno[u]
      /\ sccno[v] = sccno[u] <=> Reaches(u, v) /\ Reaches(v, u)

(* The stack holds exactly the nodes visited and without a component, in    *)
(* the order of their visit; that is why dfs() may ask for sccno instead of *)
(* looking there, and why the static stack is empty between two searches    *)
(* (tflabel.hpp:121-147).                                                   *)
StackIsOpen ==
  /\ Range(stack) = {u \in Nodes : pre[u] # 0 /\ sccno[u] = 0}
  /\ \A i, j \in DOMAIN stack : i < j => pre[stack[i]] < pre[stack[j]]
  /\ frames = <<>> => stack = <<>>

(* A level is one more than the highest level with an edge to it, and every *)
(* component has one: none is left out, none is placed too early or from an *)
(* unfinished predecessor.  The static counts of edges are 0 again, as the  *)
(* next TFLabel of the process needs them (tflabel.hpp:238-280).            *)
LevelsExact ==
  stage = "done" =>
    /\ \A c \in DOMAIN deg : deg[c] = 0
    /\ \A c \in Components :
       tln[c] = 1 + Most({0} \cup {tln[b] : b \in {b \in Components : c \in Range(G[b])}})
=============================================================================
