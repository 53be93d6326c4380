---------------------------- MODULE TFLabelProofs ----------------------------
(* Tarjan's search in dfs() and find_scc() is correct for every graph       *)
(* (src/include/algorithm/tflabel.hpp:117-158): what is on the stack, and   *)
(* that the numbered components are those of mutual reachability.  The      *)
(* levels of toposort() (238-280) are exact.  The rounds of construct()     *)
(* (312-530) fold every node of the graph between them, none next to        *)
(* another, and the labels it makes name only what is there; where no node  *)
(* is new and the levels are below 8, they also name enough.                *)
EXTENDS TFLabelConstruct, SequenceTheorems, FunctionTheorems, FiniteSetTheorems,
        WellFoundedInduction, TLAPS

\* u leads to v in the graph g: Reaches(u, v), with the graph as a parameter
Leads(g, u, v) ==
  \A S \in SUBSET DOMAIN g : u \in S /\ (\A x \in S : Range(g[x]) \subseteq S) => v \in S

\* x was visited in call i, or in one made by it that has returned
Within(calls, num, i, x) ==
  /\ num[calls[i].node] <= num[x]
  /\ i + 1 \in DOMAIN calls => num[x] < num[calls[i + 1].node]

SearchTypes ==
  /\ \A u \in Nodes : GG[u] \in Seq(Nodes)
  /\ pre \in [Nodes -> Nat] /\ lowlink \in [Nodes -> Nat] /\ sccno \in [Nodes -> Nat]
  /\ stack \in Seq(Nodes) /\ frames \in Seq([node : Nodes, next : Nat \ {0}])
  /\ root \in Nat /\ dfs_clock \in Nat /\ scc_cnt \in Nat

Numbered ==
  \A u \in Nodes : pre[u] <= dfs_clock /\ sccno[u] <= scc_cnt /\ (sccno[u] # 0 => pre[u] # 0)

CallsOnStack ==
  /\ stage # "scc" => frames = <<>>
  /\ \A i \in DOMAIN frames : frames[i].node \in Range(stack)
  /\ \A i, j \in DOMAIN frames : i < j => pre[frames[i].node] < pre[frames[j].node]
  /\ frames # <<>> => stack # <<>> /\ stack[1] = frames[1].node

\* a call that waits stands at the edge to the node of the next one
Calling ==
  \A i \in DOMAIN frames :
    i + 1 \in DOMAIN frames =>
      /\ frames[i].next \in DOMAIN GG[frames[i].node]
      /\ GG[frames[i].node][frames[i].next] = frames[i + 1].node

\* lowlink is the number of a node on the stack that the call's node leads to
LowLeads ==
  \A i \in DOMAIN frames :
    /\ lowlink[frames[i].node] <= pre[frames[i].node]
    /\ \E y \in Range(stack) :
         pre[y] = lowlink[frames[i].node] /\ Leads(GG, frames[i].node, y)

\* and it is the lowest that the edges seen in the call lead to
LowBounds ==
  \A i \in DOMAIN frames : \A x \in Range(stack) : \A k \in DOMAIN GG[x] :
    (Within(frames, pre, i, x) /\ (x = frames[i].node => k < frames[i].next)) =>
      /\ pre[GG[x][k]] # 0
      /\ sccno[GG[x][k]] = 0 => lowlink[frames[i].node] <= pre[GG[x][k]]

\* the node of a call leads to what is above it on the stack
LeadsUp ==
  \A i \in DOMAIN frames : \A x \in Range(stack) :
    pre[frames[i].node] <= pre[x] => Leads(GG, frames[i].node, x)

\* what is on the stack leads back to the node of its call
LeadsBack ==
  \A x \in Range(stack) : \E i \in DOMAIN frames :
    Within(frames, pre, i, x) /\ Leads(GG, x, frames[i].node)

\* no edge leaves the components numbered so far
NumberedClosed ==
  \A u \in Nodes : sccno[u] # 0 => \A k \in DOMAIN GG[u] : sccno[GG[u][k]] \in 1..sccno[u]

NumberedMutual ==
  \A u, v \in Nodes : (sccno[u] # 0 /\ sccno[u] = sccno[v]) => Leads(GG, u, v)

SearchInv ==
  /\ SearchTypes /\ Numbered /\ StackIsOpen /\ CallsOnStack /\ Calling
  /\ LowLeads /\ LowBounds /\ LeadsUp /\ LeadsBack /\ NumberedClosed /\ NumberedMutual

-----------------------------------------------------------------------------
(* Sets of numbers and pairs, put in order                                   *)

\* before orders S: it compares any two members, and one way only.
Orders(before, S) ==
  /\ \A x, y \in S : x # y => <<x, y>> \in before \/ <<y, x>> \in before
  /\ \A x \in S : <<x, x>> \notin before
  /\ \A x, y, z \in S : <<x, y>> \in before /\ <<y, z>> \in before => <<x, z>> \in before

\* A finite set that is ordered is listed in that order, each member once.
LEMMA ListedInOrder ==
  ASSUME NEW S, IsFiniteSet(S), NEW before, Orders(before, S)
  PROVE  LET s == InOrder(S, before)
             n == Cardinality(S)
         IN  /\ n \in Nat /\ s \in [1..n -> S] /\ DOMAIN s = 1..n
             /\ \A i, j \in 1..n : i < j => <<s[i], s[j]>> \in before
             /\ \A i, j \in 1..n : s[i] = s[j] => i = j
             /\ \A x \in S : \E i \in 1..n : s[i] = x
  <1> DEFINE under(x) == {y \in S : <<y, x>> \in before}
             place == [x \in S |-> Cardinality(under(x)) + 1]
  <1>0. PICK n \in Nat : n = Cardinality(S)
    BY FS_CardinalityType
  <1>1. ASSUME NEW x \in S
        PROVE  IsFiniteSet(under(x)) /\ Cardinality(under(x)) \in Nat /\ Cardinality(under(x)) < n
    <2>1. under(x) \subseteq S /\ x \notin under(x)
      BY DEF Orders
    <2>2. IsFiniteSet(under(x)) /\ Cardinality(under(x)) <= n
          /\ (n = Cardinality(under(x)) => S = under(x))
      <3> HIDE DEF under
      <3> QED BY <1>0, <2>1, FS_Subset
    <2>3. Cardinality(under(x)) # n
      BY <2>1, <2>2
    <2>4. Cardinality(under(x)) \in Nat
      <3> HIDE DEF under
      <3> QED BY <2>2, FS_CardinalityType
    <2> HIDE DEF under
    <2> QED BY <1>0, <2>2, <2>3, <2>4
  <1>2. ASSUME NEW x \in S, NEW y \in S, <<x, y>> \in before
        PROVE  Cardinality(under(x)) < Cardinality(under(y))
    <2>1. under(x) \subseteq under(y) /\ x \in under(y) /\ x \notin under(x)
      BY <1>2 DEF Orders
    <2>2. under(x) # under(y)
      BY <2>1
    <2> HIDE DEF under
    <2>3. Cardinality(under(x)) <= Cardinality(under(y)) /\ Cardinality(under(x)) # Cardinality(under(y))
      BY <1>1, <2>1, <2>2, FS_Subset
    <2> QED BY <1>1, <2>3
  <1> HIDE DEF under
  <1>3. place \in [S -> 1..n] /\ \A x \in S : place[x] = Cardinality(under(x)) + 1
    BY <1>1
  <1>4. \A x, y \in S : <<x, y>> \in before => place[x] < place[y]
    BY <1>1, <1>2, <1>3
  <1> HIDE DEF place
  <1>5. \A x, y \in S : place[x] = place[y] => x = y
    <2> SUFFICES ASSUME NEW x \in S, NEW y \in S, place[x] = place[y], x # y PROVE FALSE
      OBVIOUS
    <2>1. <<x, y>> \in before \/ <<y, x>> \in before
      BY DEF Orders
    <2>2. place[x] \in 1..n /\ place[y] \in 1..n
      BY <1>3
    <2>3. place[x] < place[y] \/ place[y] < place[x]
      BY <1>4, <2>1
    <2> QED BY <2>2, <2>3
  <1>6. \A i \in 1..n : \E x \in S : place[x] = i
    <2>1. place \in Injection(S, 1..n)
      BY <1>3, <1>5, Fun_IsInj
    <2>2. IsFiniteSet(1..n) /\ Cardinality(1..n) = n
      <3>1. IsFiniteSet(1..n) /\ Cardinality(1..n) = IF 1 > n THEN 0 ELSE n - 1 + 1
        BY FS_Interval
      <3> QED BY <3>1
    <2>3. place \in Surjection(S, 1..n)
      BY <1>0, <2>1, <2>2, FS_Injection
    <2> QED BY <2>3, Fun_SurjectionProperties
  <1> DEFINE t == [i \in 1..n |-> CHOOSE x \in S : place[x] = i]
  <1>7. t \in [1..n -> S] /\ \A i \in 1..n : t[i] \in S /\ place[t[i]] = i
    BY <1>6
  <1> HIDE DEF t
  <1>8. \A i, j \in 1..n : i < j => <<t[i], t[j]>> \in before
    <2> SUFFICES ASSUME NEW i \in 1..n, NEW j \in 1..n, i < j, <<t[i], t[j]>> \notin before
                 PROVE  FALSE
      OBVIOUS
    <2> PICK x \in S : x = t[i]
      BY <1>7
    <2> PICK y \in S : y = t[j]
      BY <1>7
    <2>1. place[x] = i /\ place[y] = j
      BY <1>7
    <2>2. <<y, x>> \in before
      BY <2>1 DEF Orders
    <2>3. j < i
      BY <1>4, <2>1, <2>2
    <2> QED BY <2>3
  <1> DEFINE s == InOrder(S, before)
  <1>9. s \in [1..n -> S] /\ \A i, j \in 1..n : i < j => <<s[i], s[j]>> \in before
    <2>1. \E q \in [1..n -> S] : \A i, j \in 1..n : i < j => <<q[i], q[j]>> \in before
      BY <1>7, <1>8
    <2>2. s = CHOOSE q \in [1..n -> S] : \A i, j \in 1..n : i < j => <<q[i], q[j]>> \in before
      BY <1>0 DEF InOrder
    <2> HIDE DEF s
    <2> QED BY <2>1, <2>2
  <1> HIDE DEF s
  <1>10. \A i, j \in 1..n : s[i] = s[j] => i = j
    <2> SUFFICES ASSUME NEW i \in 1..n, NEW j \in 1..n, s[i] = s[j], i # j PROVE FALSE
      OBVIOUS
    <2>1. i < j \/ j < i
      OBVIOUS
    <2>2. s[i] \in S /\ <<s[i], s[i]>> \in before
      BY <1>9, <2>1
    <2> QED BY <2>2 DEF Orders
  <1>11. \A x \in S : \E i \in 1..n : s[i] = x
    <2>1. s \in Injection(1..n, S)
      BY <1>9, <1>10, Fun_IsInj
    <2>2. Cardinality(1..n) = n
      <3>1. Cardinality(1..n) = IF 1 > n THEN 0 ELSE n - 1 + 1
        BY FS_Interval
      <3> QED BY <3>1
    <2>3. s \in Surjection(1..n, S)
      BY <1>0, <2>1, <2>2, FS_Injection
    <2> QED BY <2>3, Fun_SurjectionProperties
  <1> QED BY <1>0, <1>9, <1>10, <1>11 DEF s

\* A finite set of numbers is listed from the least.
LEMMA ListedAscending ==
  ASSUME NEW S, IsFiniteSet(S), S \subseteq Int
  PROVE  LET s == Ascending(S)
             n == Cardinality(S)
         IN  /\ n \in Nat /\ s \in [1..n -> S] /\ DOMAIN s = 1..n
             /\ \A i, j \in 1..n : i < j => s[i] < s[j]
             /\ \A i, j \in 1..n : s[i] = s[j] => i = j
             /\ \A x \in S : \E i \in 1..n : s[i] = x
  <1> DEFINE before == {p \in S \X S : p[1] < p[2]}
             s == Ascending(S)
             n == Cardinality(S)
  <1>1. \A x, y \in S : <<x, y>> \in before <=> x < y
    OBVIOUS
  <1>2. Orders(before, S)
    <2> HIDE DEF before
    <2>1. \A x \in S : x \in Int
      OBVIOUS
    <2> QED BY <1>1, <2>1 DEF Orders
  <1>3. s = InOrder(S, before)
    BY DEF Ascending
  <1> HIDE DEF before, s
  <1>4. /\ n \in Nat /\ s \in [1..n -> S] /\ DOMAIN s = 1..n
        /\ \A i, j \in 1..n : i < j => <<s[i], s[j]>> \in before
        /\ \A i, j \in 1..n : s[i] = s[j] => i = j
        /\ \A x \in S : \E i \in 1..n : s[i] = x
    BY <1>2, <1>3, ListedInOrder
  <1> HIDE DEF n
  <1>5. \A i, j \in 1..n : i < j => s[i] < s[j]
    BY <1>1, <1>4
  <1> QED BY <1>4, <1>5 DEF s, n

-----------------------------------------------------------------------------

\* The numbers of a file are finitely many.
LEMMA IdsFinite ==
  ASSUME NEW file \in Files
  PROVE  IsFiniteSet(ids(file)) /\ Cardinality(ids(file)) \in Nat /\ ids(file) \subseteq Int
  <1> PICK l \in Nat : l = Len(file)
    BY FilesAssumption, LenProperties
  <1>1. DOMAIN file = 1..l /\ \A i \in 1..l : file[i] \in Int \X Int
    BY FilesAssumption
  <1> DEFINE A(k) == {file[i][k] : i \in 1..l}
  <1>2. ASSUME NEW k \in 1..2 PROVE IsFiniteSet(A(k))
    <2> DEFINE f == [i \in 1..l |-> file[i][k]]
    <2>1. f \in [1..l -> A(k)] /\ \A x \in A(k) : \E i \in 1..l : f[i] = x
      OBVIOUS
    <2> HIDE DEF f, A
    <2>2. f \in Surjection(1..l, A(k))
      BY <2>1, Fun_IsSurj
    <2>3. IsFiniteSet(1..l)
      BY FS_Interval
    <2> QED BY <2>2, <2>3, FS_Surjection
  <1>3. ids(file) = A(1) \cup A(2)
    <2>1. ids(file) = {file[i][k] : i \in 1..l, k \in 1..2}
      BY <1>1 DEF ids
    <2>2. \A x : x \in ids(file) <=> \E i \in 1..l, k \in 1..2 : x = file[i][k]
      BY <2>1
    <2>3. \A i \in 1..l, k \in 1..2 : file[i][k] \in A(k) /\ (k = 1 \/ k = 2)
      OBVIOUS
    <2>4. ids(file) \subseteq A(1) \cup A(2)
      BY <2>2, <2>3
    <2>5. A(1) \subseteq ids(file) /\ A(2) \subseteq ids(file)
      BY <2>2
    <2> QED BY <2>4, <2>5
  <1>4. ids(file) \subseteq Int
    BY <1>1, <1>3
  <1> HIDE DEF A
  <1>5. IsFiniteSet(ids(file))
    <2>1. IsFiniteSet(A(1)) /\ IsFiniteSet(A(2))
      BY <1>2
    <2> QED BY <1>3, <2>1, FS_Union
  <1> QED BY <1>4, <1>5, FS_CardinalityType

\* A new number is below the count of all, and every edge leads to a node.
LEMMA EdgesLeadToNodes ==
  ASSUME NEW file \in Files
  PROVE  \A u \in DOMAIN Adjacency(file) : Adjacency(file)[u] \in Seq(DOMAIN Adjacency(file))
  <1> PICK n \in Nat : n = Cardinality(ids(file))
    BY IdsFinite
  <1>1. ASSUME NEW x \in ids(file) PROVE NewNum(file, x) \in 0..n - 1
    <2> DEFINE under == {y \in ids(file) : y < x}
    <2>1. under \subseteq ids(file) /\ x \notin under /\ IsFiniteSet(ids(file))
      BY IdsFinite
    <2>2. NewNum(file, x) = Cardinality(under)
      BY DEF NewNum
    <2> HIDE DEF under
    <2>3. IsFiniteSet(under) /\ Cardinality(under) <= n /\ (n = Cardinality(under) => ids(file) = under)
      BY <2>1, FS_Subset
    <2>4. Cardinality(under) \in Nat /\ Cardinality(under) # n
      BY <1>1, <2>1, <2>3, FS_CardinalityType
    <2> QED BY <2>2, <2>3, <2>4
  <1>2. DOMAIN Adjacency(file) = 0..n - 1
    BY DEF Adjacency
  <1> PICK l \in Nat : l = Len(file)
    BY FilesAssumption, LenProperties
  <1>3. DOMAIN file = 1..l
    BY FilesAssumption
  <1>4. ASSUME NEW u \in 0..n - 1 PROVE Adjacency(file)[u] \in Seq(0..n - 1)
    <2> DEFINE at == {i \in DOMAIN file : NewNum(file, file[i][1]) = u}
               out == Ascending(at)
               c == Cardinality(at)
    <2>1. Adjacency(file)[u] = [i \in DOMAIN out |-> NewNum(file, file[out[i]][2])]
      BY DEF Adjacency
    <2>2. at \subseteq 1..l /\ at \subseteq Int
      BY <1>3
    <2>3. IsFiniteSet(at)
      <3>1. IsFiniteSet(1..l)
        BY FS_Interval
      <3> HIDE DEF at
      <3> QED BY <2>2, <3>1, FS_Subset
    <2> HIDE DEF at
    <2>4. c \in Nat /\ out \in [1..c -> at] /\ DOMAIN out = 1..c
      BY <2>2, <2>3, ListedAscending
    <2> HIDE DEF out, c
    <2>5. \A i \in 1..c : NewNum(file, file[out[i]][2]) \in 0..n - 1
      <3> TAKE i \in 1..c
      <3>1. out[i] \in DOMAIN file
        BY <1>3, <2>2, <2>4
      <3>2. file[out[i]][2] \in ids(file)
        BY <3>1 DEF ids
      <3> QED BY <1>1, <3>2
    <2> QED BY <2>1, <2>4, <2>5
  <1> QED BY <1>2, <1>4

-----------------------------------------------------------------------------
(* Lemmas about paths and sequences                                          *)

\* A node leads to itself and to the ends of its edges, and on from there.
LEMMA LeadsSelf == ASSUME NEW g, NEW u PROVE Leads(g, u, u)
  BY DEF Leads

LEMMA LeadsByEdge ==
  ASSUME NEW g, NEW u \in DOMAIN g, NEW k \in DOMAIN g[u] PROVE Leads(g, u, g[u][k])
  BY DEF Leads, Range

LEMMA LeadsOn ==
  ASSUME NEW g, NEW u, NEW v, NEW w, Leads(g, u, v), Leads(g, v, w) PROVE Leads(g, u, w)
  BY DEF Leads

\* Leads() is what the property of the components is stated with.
LEMMA ReachesIsLeads ==
  ASSUME NEW u, NEW v PROVE Reaches(u, v) <=> Leads(GG, u, v)
  BY DEF Reaches, Leads, Nodes

\* What one more element of a sequence changes.
LEMMA Pushed ==
  ASSUME NEW S, NEW s \in Seq(S), NEW x \in S
  PROVE  /\ Append(s, x) \in Seq(S)
         /\ Len(Append(s, x)) = Len(s) + 1
         /\ Append(s, x)[Len(s) + 1] = x
         /\ \A i \in DOMAIN s : Append(s, x)[i] = s[i]
         /\ DOMAIN s = 1..Len(s) /\ DOMAIN Append(s, x) = 1..Len(s) + 1 /\ Len(s) \in Nat
         /\ Range(Append(s, x)) = Range(s) \cup {x}
  <1>1. /\ Append(s, x) \in Seq(S) /\ Len(Append(s, x)) = Len(s) + 1
        /\ Append(s, x)[Len(s) + 1] = x /\ \A i \in DOMAIN s : Append(s, x)[i] = s[i]
        /\ DOMAIN s = 1..Len(s) /\ DOMAIN Append(s, x) = 1..Len(s) + 1 /\ Len(s) \in Nat
    OBVIOUS
  <1>2. Range(Append(s, x)) \subseteq Range(s) \cup {x}
    BY <1>1 DEF Range
  <1>3. Range(s) \cup {x} \subseteq Range(Append(s, x))
    BY <1>1 DEF Range
  <1> QED BY <1>1, <1>2, <1>3

\* The elements of a sequence, and how one is put together from them.
LEMMA Elements ==
  ASSUME NEW T, NEW s \in Seq(T)
  PROVE  Len(s) \in Nat /\ DOMAIN s = 1..Len(s) /\ \A i \in 1..Len(s) : s[i] \in T
  OBVIOUS

LEMMA FromElements ==
  ASSUME NEW T, NEW n \in Nat, NEW s \in [1..n -> T] PROVE s \in Seq(T) /\ Len(s) = n
  OBVIOUS

\* What the caller's loop does to the calls.
LEMMA AdvancedFrames ==
  ASSUME NEW S, NEW s \in Seq([node : S, next : Nat \ {0}])
  PROVE  /\ Advanced(s) \in Seq([node : S, next : Nat \ {0}])
         /\ Len(Advanced(s)) = Len(s) /\ DOMAIN Advanced(s) = DOMAIN s /\ DOMAIN s = 1..Len(s)
         /\ \A i \in DOMAIN s : Advanced(s)[i].node = s[i].node
         /\ \A i \in DOMAIN s :
              Advanced(s)[i].next = IF i = Len(s) THEN s[i].next + 1 ELSE s[i].next
  <1> DEFINE T == [node : S, next : Nat \ {0}]
  <1>1. CASE s = <<>>
    BY <1>1 DEF Advanced
  <1>2. CASE s # <<>>
    <2> DEFINE a == [s EXCEPT ![Len(s)].next = @ + 1]
    <2>1. Advanced(s) = a
      BY <1>2 DEF Advanced
    <2>2. s \in Seq(T) /\ s # <<>>
      BY <1>2
    <2> HIDE DEF T
    <2>3. Len(s) \in Nat /\ DOMAIN s = 1..Len(s) /\ \A i \in 1..Len(s) : s[i] \in T
      BY <2>2, Elements
    <2>4. \A i \in 1..Len(s) : s[i] \in [node : S, next : Nat \ {0}]
      BY <2>3 DEF T
    <2>5. /\ a = [i \in DOMAIN s |-> IF i = Len(s) THEN [s[i] EXCEPT !.next = @ + 1] ELSE s[i]]
      OBVIOUS
    <2> HIDE DEF a
    <2>6. ASSUME NEW i \in 1..Len(s)
          PROVE  /\ a[i] \in [node : S, next : Nat \ {0}]
                 /\ a[i].node = s[i].node
                 /\ a[i].next = IF i = Len(s) THEN s[i].next + 1 ELSE s[i].next
      <3>1. s[i] \in [node : S, next : Nat \ {0}] /\ s[i].next + 1 \in Nat \ {0}
        BY <2>4
      <3>2. a[i] = IF i = Len(s) THEN [s[i] EXCEPT !.next = @ + 1] ELSE s[i]
        BY <2>3, <2>5
      <3> QED BY <3>1, <3>2
    <2>7. a \in [1..Len(s) -> T]
      BY <2>3, <2>5, <2>6 DEF T
    <2>8. a \in Seq(T) /\ Len(a) = Len(s)
      BY <2>3, <2>7, FromElements
    <2>9. DOMAIN a = DOMAIN s
      BY <2>5
    <2> QED BY <2>1, <2>3, <2>6, <2>8, <2>9 DEF T
  <1> QED BY <1>1, <1>2

\* A sequence cut off behind an element.
LEMMA CutOff ==
  ASSUME NEW S, NEW s \in Seq(S), NEW n \in 0..Len(s)
  PROVE  /\ SubSeq(s, 1, n) \in Seq(S) /\ Len(SubSeq(s, 1, n)) = n
         /\ DOMAIN SubSeq(s, 1, n) = 1..n
         /\ \A i \in 1..n : SubSeq(s, 1, n)[i] = s[i]
  <1>1. n \in Nat /\ Len(s) \in Nat
    OBVIOUS
  <1>2. \A i \in 1..n : s[i] \in S
    BY <1>1, Elements
  <1>3. SubSeq(s, 1, n) = [i \in 1..n |-> s[i]]
    BY <1>1
  <1> QED BY <1>1, <1>2, <1>3, FromElements

\* The calls without the last one.
LEMMA FrontFrames ==
  ASSUME NEW S, NEW s \in Seq(S), s # <<>>
  PROVE  /\ Front(s) \in Seq(S) /\ Len(Front(s)) = Len(s) - 1 /\ DOMAIN Front(s) = 1..Len(s) - 1
         /\ \A i \in 1..Len(s) - 1 : Front(s)[i] = s[i]
         /\ Last(s) = s[Len(s)] /\ Len(s) \in DOMAIN s /\ DOMAIN s = 1..Len(s) /\ Len(s) \in Nat \ {0}
  <1>1. Len(s) \in Nat \ {0} /\ DOMAIN s = 1..Len(s) /\ Len(s) - 1 \in 0..Len(s)
    OBVIOUS
  <1> QED BY <1>1, CutOff DEF Front, Last

\* What the invariant says of the calls and of the stack, put together.
LEMMA CallFacts ==
  ASSUME SearchInv
  PROVE  /\ Len(frames) \in Nat /\ DOMAIN frames = 1..Len(frames)
         /\ \A i \in 1..Len(frames) :
              /\ frames[i].node \in Nodes /\ frames[i].node \in Range(stack)
              /\ frames[i].next \in Nat \ {0} /\ frames[i] \in [node : Nodes, next : Nat \ {0}]
         /\ Len(stack) \in Nat /\ DOMAIN stack = 1..Len(stack)
         /\ \A i \in 1..Len(stack) : stack[i] \in Nodes /\ stack[i] \in Range(stack)
         /\ Range(stack) \subseteq Nodes
         /\ \A x \in Nodes : /\ pre[x] \in Nat /\ lowlink[x] \in Nat /\ sccno[x] \in Nat
                             /\ x \in Range(stack) <=> pre[x] # 0 /\ sccno[x] = 0
         /\ \A x \in Nodes : \A k \in DOMAIN GG[x] : GG[x][k] \in Nodes
         /\ \A x \in Nodes : DOMAIN GG[x] = 1..Len(GG[x]) /\ Len(GG[x]) \in Nat
  <1> DEFINE F == [node : Nodes, next : Nat \ {0}]
  <1>1. frames \in Seq(F) /\ stack \in Seq(Nodes) /\ \A u \in Nodes : GG[u] \in Seq(Nodes)
    BY DEF SearchInv, SearchTypes
  <1> HIDE DEF F
  <1>2. /\ Len(frames) \in Nat /\ DOMAIN frames = 1..Len(frames)
        /\ \A i \in 1..Len(frames) : frames[i] \in F
    BY <1>1, Elements
  <1>3. /\ Len(stack) \in Nat /\ DOMAIN stack = 1..Len(stack)
        /\ \A i \in 1..Len(stack) : stack[i] \in Nodes
    BY <1>1, Elements
  <1>4. \A x \in Nodes : /\ DOMAIN GG[x] = 1..Len(GG[x]) /\ Len(GG[x]) \in Nat
                         /\ \A k \in DOMAIN GG[x] : GG[x][k] \in Nodes
    BY <1>1, Elements
  <1>5. Range(stack) \subseteq Nodes /\ \A i \in 1..Len(stack) : stack[i] \in Range(stack)
    BY <1>3 DEF Range
  <1>6. \A i \in 1..Len(frames) : frames[i].node \in Range(stack)
    BY <1>2 DEF SearchInv, CallsOnStack
  <1>7. \A x \in Nodes : /\ pre[x] \in Nat /\ lowlink[x] \in Nat /\ sccno[x] \in Nat
                         /\ x \in Range(stack) <=> pre[x] # 0 /\ sccno[x] = 0
    BY DEF SearchInv, SearchTypes, StackIsOpen
  <1>8. \A i \in 1..Len(frames) :
          /\ frames[i].node \in Nodes
          /\ frames[i].next \in Nat \ {0} /\ frames[i] \in [node : Nodes, next : Nat \ {0}]
    BY <1>2 DEF F
  <1> QED BY <1>2, <1>3, <1>4, <1>5, <1>6, <1>7, <1>8

\* Calls made later have nodes visited later.
LEMMA CallOrder ==
  ASSUME SearchInv, NEW i \in 1..Len(frames), NEW j \in 1..Len(frames)
  PROVE  /\ i < j => pre[frames[i].node] < pre[frames[j].node]
         /\ i <= j => pre[frames[i].node] <= pre[frames[j].node]
         /\ pre[frames[i].node] < pre[frames[j].node] => i < j
         /\ frames[i].node = frames[j].node => i = j
  <1>1. /\ Len(frames) \in Nat /\ DOMAIN frames = 1..Len(frames)
        /\ pre[frames[i].node] \in Nat /\ pre[frames[j].node] \in Nat
    BY CallFacts
  <1>2. /\ i < j => pre[frames[i].node] < pre[frames[j].node]
        /\ j < i => pre[frames[j].node] < pre[frames[i].node]
    BY <1>1 DEF SearchInv, CallsOnStack
  <1> QED BY <1>1, <1>2

-----------------------------------------------------------------------------
(* The beginning of dfs()                                                    *)

\* A node that is visited is the last on the stack and the last of the calls.
LEMMA VisitKeeps ==
  ASSUME SearchInv, stage = "scc", stage' = stage, GG' = GG, root' \in Nat,
         NEW v \in Nodes, pre[v] = 0, Visit(v), frames = <<>> \/ (Looking /\ v = v0)
  PROVE  SearchInv'
  <1> DEFINE n == Len(frames)
  <1> DEFINE F == [node : Nodes, next : Nat \ {0}]
  <1>0. /\ n \in Nat /\ DOMAIN frames = 1..n
        /\ \A i \in 1..n : frames[i].node \in Nodes /\ frames[i].node \in Range(stack)
        /\ Range(stack) \subseteq Nodes
        /\ \A i \in 1..n : frames[i].next \in Nat
    BY CallFacts
  <1>1. /\ n \in Nat /\ DOMAIN frames = 1..n /\ DOMAIN frames' = 1..n + 1 /\ frames' \in Seq(F)
        /\ \A i \in 1..n : frames'[i] = frames[i]
        /\ frames'[n + 1].node = v /\ frames'[n + 1].next = 1
    <2>1. [node |-> v, next |-> 1] \in F
      OBVIOUS
    <2>2. frames \in Seq(F) /\ frames' = Append(frames, [node |-> v, next |-> 1])
      BY DEF SearchInv, SearchTypes, Visit
    <2> HIDE DEF F
    <2> QED BY <2>1, <2>2, Pushed
  <1>3. /\ stack' \in Seq(Nodes) /\ Len(stack) \in Nat /\ Range(stack') = Range(stack) \cup {v}
        /\ DOMAIN stack = 1..Len(stack) /\ DOMAIN stack' = 1..Len(stack) + 1
        /\ \A i \in 1..Len(stack) : stack'[i] = stack[i]
        /\ stack'[Len(stack) + 1] = v
    BY Pushed DEF Visit, SearchInv, SearchTypes
  <1>4. /\ pre' \in [Nodes -> Nat] /\ pre'[v] = dfs_clock + 1
        /\ lowlink' \in [Nodes -> Nat] /\ lowlink'[v] = dfs_clock + 1
        /\ \A x \in Nodes : x # v => pre'[x] = pre[x] /\ lowlink'[x] = lowlink[x]
        /\ \A x \in Nodes : pre[x] \in Nat /\ pre[x] <= dfs_clock
        /\ dfs_clock \in Nat /\ dfs_clock' = dfs_clock + 1
        /\ sccno' = sccno /\ scc_cnt' = scc_cnt /\ Nodes' = Nodes
    BY DEF Visit, SearchInv, SearchTypes, Numbered, Nodes
  <1>5. /\ v \notin Range(stack) /\ sccno[v] = 0
        /\ \A x \in Range(stack) : /\ x \in Nodes /\ pre'[x] = pre[x] /\ lowlink'[x] = lowlink[x]
                                   /\ sccno[x] = 0 /\ pre[x] < pre'[v] /\ pre[x] \in Nat
    BY <1>0, <1>4 DEF SearchInv, StackIsOpen, Numbered
  <1>6. \A i \in 1..n : frames[i].node \in Nodes /\ frames[i].node \in Range(stack)
    BY <1>0
  <1> HIDE DEF n, F
  <1>7. \A i \in 1..n : \A x \in Range(stack) :
          Within(frames', pre', i, x) <=> Within(frames, pre, i, x)
    <2> SUFFICES ASSUME NEW i \in 1..n, NEW x \in Range(stack)
                 PROVE  Within(frames', pre', i, x) <=> Within(frames, pre, i, x)
      OBVIOUS
    <2>1. frames'[i] = frames[i] /\ pre'[frames[i].node] = pre[frames[i].node] /\ pre'[x] = pre[x]
      BY <1>1, <1>5, <1>6
    <2>2. CASE i = n
      BY <2>1, <2>2, <1>1, <1>4, <1>5 DEF Within
    <2>3. CASE i # n
      <3>1. i + 1 \in 1..n /\ i + 1 \in 1..n + 1
        BY <2>3, <1>1
      <3>2. frames'[i + 1] = frames[i + 1] /\ pre'[frames[i + 1].node] = pre[frames[i + 1].node]
        BY <3>1, <1>1, <1>5, <1>6
      <3> QED BY <2>1, <3>1, <3>2, <1>1 DEF Within
    <2> QED BY <2>2, <2>3
  <1>8. Within(frames', pre', n + 1, v) /\ \A x \in Range(stack) : ~ Within(frames', pre', n + 1, x)
    BY <1>1, <1>4, <1>5 DEF Within
  <1>9. \A i \in 1..n : ~ Within(frames', pre', i, v)
    <2> SUFFICES ASSUME NEW i \in 1..n PROVE ~ Within(frames', pre', i, v)
      OBVIOUS
    <2>1. i + 1 \in 1..n + 1
      BY <1>1
    <2>2. CASE i = n
      BY <2>1, <2>2, <1>1, <1>4 DEF Within
    <2>3. CASE i # n
      <3>1. i + 1 \in 1..n
        BY <2>3, <1>1
      <3>2. frames'[i + 1] = frames[i + 1] /\ pre'[frames[i + 1].node] < pre'[v]
        BY <3>1, <1>1, <1>5, <1>6
      <3>3. pre'[frames[i + 1].node] \in Nat /\ pre'[v] \in Nat
        BY <3>1, <1>4, <1>6
      <3> QED BY <2>1, <3>2, <3>3, <1>1 DEF Within
    <2> QED BY <2>2, <2>3
  <1>a. SearchTypes'
    <2>1. frames' \in Seq([node : Nodes', next : Nat \ {0}])
      BY <1>1, <1>4 DEF F
    <2>2. stack' \in Seq(Nodes') /\ \A u \in Nodes' : GG'[u] \in Seq(Nodes')
      BY <1>3, <1>4 DEF SearchInv, SearchTypes
    <2>3. /\ pre' \in [Nodes' -> Nat] /\ lowlink' \in [Nodes' -> Nat] /\ sccno' \in [Nodes' -> Nat]
          /\ root' \in Nat /\ dfs_clock' \in Nat /\ scc_cnt' \in Nat
      BY <1>4 DEF SearchInv, SearchTypes
    <2> QED BY <2>1, <2>2, <2>3 DEF SearchTypes
  <1>b. Numbered'
    BY <1>4, <1>5 DEF SearchInv, SearchTypes, Numbered
  <1>c. StackIsOpen'
    <2>1. Range(stack') = {u \in Nodes' : pre'[u] # 0 /\ sccno'[u] = 0}
      <3>1. \A u \in Nodes : pre'[u] # 0 /\ sccno[u] = 0 <=> u = v \/ u \in Range(stack)
        BY <1>4, <1>5 DEF SearchInv, StackIsOpen
      <3> QED BY <3>1, <1>0, <1>3, <1>4
    <2>2. ASSUME NEW i \in DOMAIN stack', NEW j \in DOMAIN stack', i < j
          PROVE  pre'[stack'[i]] < pre'[stack'[j]]
      <3>1. i \in 1..Len(stack) /\ stack'[i] = stack[i] /\ stack[i] \in Range(stack)
        BY <1>3, <2>2 DEF Range
      <3>2. CASE j \in 1..Len(stack)
        <4>1. stack'[j] = stack[j] /\ stack[j] \in Range(stack)
          BY <1>3, <3>2 DEF Range
        <4>2. pre[stack[i]] < pre[stack[j]]
          BY <1>3, <2>2, <3>1, <3>2 DEF SearchInv, StackIsOpen
        <4> QED BY <1>5, <3>1, <4>1, <4>2
      <3>3. CASE j = Len(stack) + 1
        BY <1>3, <1>5, <3>1, <3>3
      <3> QED BY <1>3, <3>2, <3>3
    <2>3. frames' # <<>>
      BY <1>1
    <2> QED BY <2>1, <2>2, <2>3 DEF StackIsOpen
  <1>d. CallsOnStack'
    <2>1. \A i \in DOMAIN frames' : frames'[i].node \in Range(stack')
      BY <1>1, <1>3, <1>6
    <2>2. ASSUME NEW i \in DOMAIN frames', NEW j \in DOMAIN frames', i < j
          PROVE  pre'[frames'[i].node] < pre'[frames'[j].node]
      <3>1. i \in 1..n /\ frames'[i] = frames[i] /\ frames[i].node \in Range(stack)
        BY <1>1, <1>6, <2>2
      <3>2. CASE j \in 1..n
        <4>1. pre[frames[i].node] < pre[frames[j].node]
          BY <2>2, <3>1, <3>2, CallOrder DEF n
        <4> QED BY <1>1, <1>5, <1>6, <3>1, <3>2, <4>1
      <3>3. CASE j = n + 1
        BY <1>1, <1>5, <3>1, <3>3
      <3> QED BY <1>1, <3>2, <3>3
    <2>3. stack' # <<>> /\ stack'[1] = frames'[1].node
      <3>1. CASE frames = <<>>
        <4>1. n = 0
          BY <3>1 DEF n
        <4>2. stack = <<>> /\ Len(stack) = 0
          BY <3>1 DEF SearchInv, StackIsOpen
        <4>3. 1 \in DOMAIN stack' /\ stack'[1] = v /\ frames'[1].node = v
          BY <4>1, <4>2, <1>1, <1>3
        <4> QED BY <4>3
      <3>2. CASE frames # <<>>
        <4>1. 1 \in 1..n
          BY <3>2, <1>1, CallFacts DEF n, SearchInv, SearchTypes
        <4>2. stack # <<>> /\ stack[1] = frames[1].node
          BY <3>2 DEF SearchInv, CallsOnStack
        <4>3. 1 \in 1..Len(stack)
          BY <4>2 DEF SearchInv, SearchTypes
        <4> QED BY <4>1, <4>2, <4>3, <1>1, <1>3
      <3> QED BY <3>1, <3>2
    <2> QED BY <2>1, <2>2, <2>3 DEF CallsOnStack
  <1>e. Calling'
    <2> SUFFICES ASSUME NEW i \in DOMAIN frames', i + 1 \in DOMAIN frames'
                 PROVE  /\ frames'[i].next \in DOMAIN GG[frames'[i].node]
                        /\ GG[frames'[i].node][frames'[i].next] = frames'[i + 1].node
      BY DEF Calling
    <2>1. i \in 1..n /\ frames'[i] = frames[i]
      BY <1>1
    <2>2. CASE i = n
      <3>1. frames # <<>>
        BY <2>1, <1>1
      <3>2. Last(frames) = frames[n]
        BY DEF Last, n
      <3>3. Looking /\ v = v0
        BY <3>1
      <3> QED BY <2>1, <2>2, <3>2, <3>3, <1>1 DEF Looking, v0, u0
    <2>3. CASE i # n
      <3>1. i + 1 \in 1..n /\ frames'[i + 1] = frames[i + 1]
        BY <2>1, <2>3, <1>1
      <3> QED BY <2>1, <3>1, <1>1 DEF SearchInv, Calling
    <2> QED BY <2>2, <2>3
  <1>f. LowLeads'
    <2> SUFFICES ASSUME NEW i \in DOMAIN frames'
                 PROVE  /\ lowlink'[frames'[i].node] <= pre'[frames'[i].node]
                        /\ \E y \in Range(stack') : /\ pre'[y] = lowlink'[frames'[i].node]
                                                    /\ Leads(GG, frames'[i].node, y)
      BY DEF LowLeads
    <2>1. CASE i \in 1..n
      <3>1. PICK y \in Range(stack) :
              pre[y] = lowlink[frames[i].node] /\ Leads(GG, frames[i].node, y)
        BY <2>1, <1>1 DEF SearchInv, LowLeads
      <3>2. lowlink[frames[i].node] <= pre[frames[i].node]
        BY <2>1, <1>1 DEF SearchInv, LowLeads
      <3> QED BY <2>1, <3>1, <3>2, <1>1, <1>3, <1>5, <1>6
    <2>2. CASE i = n + 1
      BY <2>2, <1>1, <1>3, <1>4, LeadsSelf
    <2> QED BY <2>1, <2>2, <1>1
  <1>g. LowBounds'
    <2> SUFFICES ASSUME NEW i \in DOMAIN frames', NEW x \in Range(stack'), NEW k \in DOMAIN GG[x],
                        Within(frames', pre', i, x), x = frames'[i].node => k < frames'[i].next
                 PROVE  /\ pre'[GG[x][k]] # 0
                        /\ sccno[GG[x][k]] = 0 => lowlink'[frames'[i].node] <= pre'[GG[x][k]]
      BY <1>4 DEF LowBounds
    <2>1. x \in Nodes /\ DOMAIN GG[x] = 1..Len(GG[x]) /\ Len(GG[x]) \in Nat /\ GG[x][k] \in Nodes
      BY <1>0, <1>3, CallFacts
    <2>2. CASE i = n + 1
      <3>1. x = v
        BY <2>2, <1>3, <1>8
      <3>2. k < 1
        BY <2>2, <3>1, <1>1
      <3> QED BY <2>1, <3>2
    <2>3. CASE i \in 1..n
      <3>1. x \in Range(stack)
        BY <2>3, <1>3, <1>9
      <3>2. Within(frames, pre, i, x) /\ (x = frames[i].node => k < frames[i].next)
        BY <2>3, <3>1, <1>1, <1>7
      <3>3. /\ pre[GG[x][k]] # 0
            /\ sccno[GG[x][k]] = 0 => lowlink[frames[i].node] <= pre[GG[x][k]]
        BY <2>3, <3>1, <3>2, <1>1 DEF SearchInv, LowBounds
      <3>4. pre'[GG[x][k]] = pre[GG[x][k]]
        BY <2>1, <3>3, <1>4
      <3>5. lowlink'[frames'[i].node] = lowlink[frames[i].node]
        BY <2>3, <1>1, <1>5, <1>6
      <3> QED BY <3>3, <3>4, <3>5
    <2> QED BY <2>2, <2>3, <1>1
  <1>h. LeadsUp'
    <2> SUFFICES ASSUME NEW i \in DOMAIN frames', NEW x \in Range(stack'),
                        pre'[frames'[i].node] <= pre'[x]
                 PROVE  Leads(GG, frames'[i].node, x)
      BY DEF LeadsUp
    <2>1. CASE i = n + 1
      <3>1. x = v
        BY <2>1, <1>1, <1>3, <1>4, <1>5
      <3> QED BY <2>1, <3>1, <1>1, LeadsSelf
    <2>2. CASE i \in 1..n /\ x \in Range(stack)
      <3>1. pre[frames[i].node] <= pre[x]
        BY <2>2, <1>1, <1>5, <1>6
      <3> QED BY <2>2, <3>1, <1>1 DEF SearchInv, LeadsUp
    <2>3. CASE i \in 1..n /\ x = v
      <3>1. n \in 1..n /\ frames # <<>>
        BY <2>3, <1>1
      <3>2. Last(frames) = frames[n]
        BY DEF Last, n
      <3>3. Leads(GG, frames[n].node, v)
        BY <3>1, <3>2, <1>6, LeadsByEdge DEF Looking, v0, u0, Nodes
      <3>4. pre[frames[i].node] <= pre[frames[n].node]
        BY <2>3, <3>1, <1>1, CallOrder DEF n
      <3>5. Leads(GG, frames[i].node, frames[n].node)
        BY <2>3, <3>1, <3>4, <1>1, <1>6 DEF SearchInv, LeadsUp
      <3> QED BY <2>3, <3>3, <3>5, <1>1, LeadsOn
    <2> QED BY <2>1, <2>2, <2>3, <1>1, <1>3
  <1>i. LeadsBack'
    <2> SUFFICES ASSUME NEW x \in Range(stack')
                 PROVE  \E i \in DOMAIN frames' :
                          Within(frames', pre', i, x) /\ Leads(GG, x, frames'[i].node)
      BY DEF LeadsBack
    <2>1. CASE x = v
      BY <2>1, <1>1, <1>8, LeadsSelf
    <2>2. CASE x \in Range(stack)
      <3>1. PICK i \in 1..n : Within(frames, pre, i, x) /\ Leads(GG, x, frames[i].node)
        BY <2>2, <1>1 DEF SearchInv, LeadsBack
      <3>2. i \in DOMAIN frames' /\ frames'[i] = frames[i] /\ Within(frames', pre', i, x)
        BY <2>2, <3>1, <1>1, <1>7
      <3> QED BY <3>1, <3>2
    <2> QED BY <2>1, <2>2, <1>3
  <1>j. NumberedClosed' /\ NumberedMutual'
    BY <1>4 DEF SearchInv, NumberedClosed, NumberedMutual
  <1> QED BY <1>a, <1>b, <1>c, <1>d, <1>e, <1>f, <1>g, <1>h, <1>i, <1>j DEF SearchInv

-----------------------------------------------------------------------------
(* An edge to a node already visited                                         *)

\* Only the call's lowlink changes, and its edge is one of those seen.
LEMMA SeenKeeps ==
  ASSUME SearchInv, Seen
  PROVE  SearchInv'
  <1> DEFINE n == Len(frames)
  <1> DEFINE u == frames[n].node
  <1> DEFINE k0 == frames[n].next
  <1>0. /\ n \in Nat /\ DOMAIN frames = 1..n
        /\ \A i \in 1..n : /\ frames[i].node \in Nodes /\ frames[i].node \in Range(stack)
                           /\ frames[i].next \in Nat
        /\ Range(stack) \subseteq Nodes
        /\ \A x \in Nodes : pre[x] \in Nat /\ lowlink[x] \in Nat
        /\ \A x \in Nodes : DOMAIN GG[x] = 1..Len(GG[x]) /\ Len(GG[x]) \in Nat
    BY CallFacts
  <1>1. /\ n \in 1..n /\ Last(frames) = frames[n] /\ u0 = u /\ v0 = GG[u][k0]
        /\ k0 \in DOMAIN GG[u] /\ pre[v0] # 0 /\ v0 \in Nodes /\ frames # <<>> /\ u \in Nodes
    <2>1. Looking /\ frames # <<>> /\ pre[v0] # 0
      BY DEF Seen, Looking
    <2>2. n \in 1..n /\ Last(frames) = frames[n]
      BY <2>1, <1>0 DEF Last
    <2>3. u0 = u /\ v0 = GG[u][k0] /\ k0 \in DOMAIN GG[u] /\ u \in Nodes
      BY <2>1, <2>2, <1>0 DEF u0, v0, Looking
    <2>4. v0 \in Nodes
      BY <2>3, CallFacts
    <2> QED BY <2>1, <2>2, <2>3, <2>4
  <1>2. /\ frames' = Advanced(frames) /\ frames' \in Seq([node : Nodes, next : Nat \ {0}])
        /\ DOMAIN frames' = 1..n
        /\ \A i \in 1..n : /\ frames'[i].node = frames[i].node
                           /\ frames'[i].next = IF i = n THEN frames[i].next + 1 ELSE frames[i].next
    BY AdvancedFrames DEF Seen, SearchInv, SearchTypes
  <1>3. /\ GG' = GG /\ pre' = pre /\ sccno' = sccno /\ stack' = stack /\ root' = root
        /\ dfs_clock' = dfs_clock /\ scc_cnt' = scc_cnt /\ Nodes' = Nodes /\ stage' = stage
    BY DEF Seen, Nodes
  <1>4. /\ lowlink' \in [Nodes -> Nat]
        /\ \A x \in Nodes : x # u => lowlink'[x] = lowlink[x]
        /\ lowlink'[u] = SeenLow /\ SeenLow \in Nat
    <2>1. SeenLow \in Nat
      BY <1>0, <1>1 DEF SeenLow, Least
    <2> QED BY <2>1, <1>1 DEF Seen, SearchInv, SearchTypes
  <1>5. \A i \in 1..n : i # n => frames[i].node # u
    BY <1>1, CallOrder
  <1>6. \A i \in 1..n : \A x : Within(frames', pre', i, x) <=> Within(frames, pre, i, x)
    <2> SUFFICES ASSUME NEW i \in 1..n, NEW x
                 PROVE  Within(frames', pre', i, x) <=> Within(frames, pre, i, x)
      OBVIOUS
    <2>1. CASE i + 1 \in 1..n
      BY <2>1, <1>0, <1>2, <1>3 DEF Within
    <2>2. CASE i + 1 \notin 1..n
      BY <2>2, <1>0, <1>2, <1>3 DEF Within
    <2> QED BY <2>1, <2>2
  <1>7. /\ v0 \in Range(stack) <=> sccno[v0] = 0
        /\ SeenLow <= lowlink[u] /\ (sccno[v0] = 0 => SeenLow <= pre[v0])
        /\ SeenLow = lowlink[u] \/ (sccno[v0] = 0 /\ SeenLow = pre[v0])
    <2>1. v0 \in Range(stack) <=> sccno[v0] = 0
      BY <1>1 DEF SearchInv, StackIsOpen
    <2>2. lowlink[u] \in Nat /\ pre[v0] \in Nat
      BY <1>0, <1>1
    <2>3. SeenLow = IF sccno[v0] = 0 THEN Least(lowlink[u], pre[v0]) ELSE lowlink[u]
      BY <1>1 DEF SeenLow
    <2>4. \A x, y \in Nat : Least(x, y) \in {x, y} /\ Least(x, y) <= x /\ Least(x, y) <= y
      BY DEF Least
    <2> QED BY <2>1, <2>2, <2>3, <2>4
  <1> HIDE DEF n, u, k0
  <1>a. SearchTypes' /\ Numbered' /\ NumberedClosed' /\ NumberedMutual'
    BY <1>2, <1>3, <1>4 DEF SearchInv, SearchTypes, Numbered, NumberedClosed, NumberedMutual
  <1>b. StackIsOpen'
    BY <1>1, <1>2, <1>3 DEF SearchInv, StackIsOpen
  <1>c. CallsOnStack'
    <2>1. \A i \in DOMAIN frames' : frames'[i].node \in Range(stack')
      BY <1>0, <1>2, <1>3
    <2>2. \A i, j \in DOMAIN frames' : i < j => pre'[frames'[i].node] < pre'[frames'[j].node]
      BY <1>2, <1>3, CallOrder DEF n
    <2>3. frames'[1].node = frames[1].node /\ frames' # <<>>
      BY <1>0, <1>1, <1>2
    <2>4. stack # <<>> /\ stack[1] = frames[1].node /\ stage = "scc"
      BY <1>1 DEF SearchInv, CallsOnStack, Seen, Looking
    <2> QED BY <2>1, <2>2, <2>3, <2>4, <1>3 DEF CallsOnStack
  <1>d. Calling'
    <2> SUFFICES ASSUME NEW i \in 1..n, i + 1 \in 1..n
                 PROVE  /\ frames'[i].next \in DOMAIN GG[frames'[i].node]
                        /\ GG[frames'[i].node][frames'[i].next] = frames'[i + 1].node
      BY <1>2, <1>3 DEF Calling
    <2>1. i # n
      BY <1>0
    <2> QED BY <2>1, <1>0, <1>2 DEF SearchInv, Calling
  <1>e. LowLeads'
    <2> SUFFICES ASSUME NEW i \in 1..n
                 PROVE  /\ lowlink'[frames[i].node] <= pre[frames[i].node]
                        /\ \E y \in Range(stack) : /\ pre[y] = lowlink'[frames[i].node]
                                                   /\ Leads(GG, frames[i].node, y)
      BY <1>2, <1>3 DEF LowLeads
    <2>1. /\ lowlink[frames[i].node] <= pre[frames[i].node]
          /\ \E y \in Range(stack) :
               pre[y] = lowlink[frames[i].node] /\ Leads(GG, frames[i].node, y)
      BY <1>0 DEF SearchInv, LowLeads
    <2>2. CASE i # n
      BY <2>1, <2>2, <1>0, <1>4, <1>5
    <2>3. CASE i = n /\ SeenLow = lowlink[u]
      BY <2>1, <2>3, <1>4 DEF u
    <2>4. CASE i = n /\ sccno[v0] = 0 /\ SeenLow = pre[v0]
      <3>1. Leads(GG, u, v0)
        BY <1>1, LeadsByEdge DEF Nodes
      <3>2. lowlink'[u] <= pre[u]
        <4>1. /\ lowlink'[u] \in Nat /\ lowlink[u] \in Nat /\ pre[u] \in Nat
              /\ lowlink'[u] <= lowlink[u] /\ lowlink[u] <= pre[u]
          BY <2>1, <2>4, <1>0, <1>1, <1>4, <1>7 DEF u
        <4> QED BY <4>1
      <3> QED BY <2>4, <3>1, <3>2, <1>4, <1>7 DEF u
    <2> QED BY <2>2, <2>3, <2>4, <1>7
  <1>f. LowBounds'
    <2> SUFFICES ASSUME NEW i \in 1..n, NEW x \in Range(stack), NEW k \in DOMAIN GG[x],
                        Within(frames, pre, i, x), x = frames[i].node => k < frames'[i].next
                 PROVE  /\ pre[GG[x][k]] # 0
                        /\ sccno[GG[x][k]] = 0 => lowlink'[frames[i].node] <= pre[GG[x][k]]
      BY <1>2, <1>3, <1>6 DEF LowBounds
    <2>0. k \in Nat /\ x \in Nodes /\ GG[x][k] \in Nodes
      BY <1>0, CallFacts
    <2>1. CASE x = frames[i].node => k < frames[i].next
      <3>1. /\ pre[GG[x][k]] # 0
            /\ sccno[GG[x][k]] = 0 => lowlink[frames[i].node] <= pre[GG[x][k]]
        BY <2>1, <1>0 DEF SearchInv, LowBounds
      <3>2. lowlink'[frames[i].node] <= lowlink[frames[i].node]
        <4>1. CASE i = n
          BY <4>1, <1>4, <1>7 DEF u
        <4>2. CASE i # n
          BY <4>2, <1>0, <1>4, <1>5
        <4> QED BY <4>1, <4>2
      <3>3. /\ lowlink'[frames[i].node] \in Nat /\ lowlink[frames[i].node] \in Nat
            /\ pre[GG[x][k]] \in Nat
        BY <2>0, <1>0, <1>4
      <3> QED BY <3>1, <3>2, <3>3
    <2>2. CASE x = frames[i].node /\ ~ (k < frames[i].next)
      <3>1. i = n
        BY <2>2, <1>2
      <3>2. k = k0 /\ x = u
        BY <2>0, <2>2, <3>1, <1>0, <1>2 DEF k0, u
      <3>3. GG[x][k] = v0
        BY <3>2, <1>1
      <3> QED BY <3>1, <3>2, <3>3, <1>1, <1>4, <1>7 DEF u
    <2> QED BY <2>1, <2>2
  <1>g. LeadsUp' /\ LeadsBack'
    BY <1>0, <1>2, <1>3, <1>6 DEF SearchInv, LeadsUp, LeadsBack
  <1> QED BY <1>a, <1>b, <1>c, <1>d, <1>e, <1>f, <1>g DEF SearchInv

-----------------------------------------------------------------------------
(* The end of dfs()                                                          *)

\* The calls that remain when the last one returns.
LEMMA ReturnedFrames ==
  ASSUME SearchInv, Return
  PROVE  /\ Len(frames) \in Nat /\ Len(frames) \in 1..Len(frames) /\ DOMAIN frames = 1..Len(frames)
         /\ Last(frames) = frames[Len(frames)] /\ u0 = frames[Len(frames)].node
         /\ u0 \in Nodes /\ u0 \in Range(stack) /\ stage = "scc" /\ frames # <<>>
         /\ \A k \in DOMAIN GG[u0] : k < frames[Len(frames)].next
         /\ frames' \in Seq([node : Nodes, next : Nat \ {0}])
         /\ DOMAIN frames' = 1..Len(frames) - 1
         /\ \A i \in 1..Len(frames) - 1 :
              /\ frames'[i].node = frames[i].node
              /\ frames'[i].next = IF i = Len(frames) - 1 THEN frames[i].next + 1 ELSE frames[i].next
         /\ GG' = GG /\ Nodes' = Nodes /\ pre' = pre /\ root' = root
         /\ dfs_clock' = dfs_clock /\ stage' = stage
         /\ Len(frames) # 1 => Last(Front(frames)).node = frames[Len(frames) - 1].node
  <1> DEFINE F == [node : Nodes, next : Nat \ {0}]
  <1> DEFINE n == Len(frames)
  <1>1. frames \in Seq(F) /\ frames # <<>> /\ stage = "scc" /\ frames' = Advanced(Front(frames))
    BY DEF SearchInv, SearchTypes, Return
  <1> HIDE DEF F
  <1>2. /\ Front(frames) \in Seq(F) /\ Len(Front(frames)) = n - 1 /\ DOMAIN Front(frames) = 1..n - 1
        /\ \A i \in 1..n - 1 : Front(frames)[i] = frames[i]
        /\ Last(frames) = frames[n] /\ n \in DOMAIN frames /\ DOMAIN frames = 1..n /\ n \in Nat \ {0}
    BY <1>1, FrontFrames
  <1>3. u0 = frames[n].node /\ u0 \in Nodes /\ u0 \in Range(stack)
    BY <1>2, CallFacts DEF u0
  <1>4. \A k \in DOMAIN GG[u0] : k < frames[n].next
    <2>1. frames[n].next \notin DOMAIN GG[u0]
      BY <1>2 DEF Return
    <2>2. DOMAIN GG[u0] = 1..Len(GG[u0]) /\ Len(GG[u0]) \in Nat /\ frames[n].next \in Nat \ {0}
      BY <1>2, <1>3, CallFacts
    <2> QED BY <2>1, <2>2
  <1>5. Front(frames) \in Seq([node : Nodes, next : Nat \ {0}])
    BY <1>2 DEF F
  <1> HIDE DEF n
  <1>6. /\ frames' \in Seq([node : Nodes, next : Nat \ {0}])
        /\ DOMAIN frames' = 1..n - 1
        /\ \A i \in 1..n - 1 :
             /\ frames'[i].node = Front(frames)[i].node
             /\ frames'[i].next = IF i = n - 1 THEN Front(frames)[i].next + 1 ELSE Front(frames)[i].next
    <2>1. /\ Advanced(Front(frames)) \in Seq([node : Nodes, next : Nat \ {0}])
          /\ DOMAIN Advanced(Front(frames)) = DOMAIN Front(frames)
          /\ \A i \in DOMAIN Front(frames) : Advanced(Front(frames))[i].node = Front(frames)[i].node
          /\ \A i \in DOMAIN Front(frames) :
               Advanced(Front(frames))[i].next =
                 IF i = Len(Front(frames)) THEN Front(frames)[i].next + 1 ELSE Front(frames)[i].next
      BY <1>5, AdvancedFrames
    <2> QED BY <2>1, <1>1, <1>2
  <1>7. n # 1 => Last(Front(frames)).node = frames[n - 1].node
    <2> SUFFICES ASSUME n # 1 PROVE Last(Front(frames)).node = frames[n - 1].node
      OBVIOUS
    <2>1. n - 1 \in 1..n - 1
      BY <1>2
    <2>2. Last(Front(frames)) = Front(frames)[n - 1]
      BY <1>2 DEF Last
    <2> QED BY <2>1, <2>2, <1>2
  <1>8. /\ GG' = GG /\ Nodes' = Nodes /\ pre' = pre /\ root' = root
        /\ dfs_clock' = dfs_clock /\ stage' = stage
    BY DEF Return, Nodes
  <1> QED BY <1>1, <1>2, <1>3, <1>4, <1>6, <1>7, <1>8 DEF n

\* The call of the first node on the stack ends with a component.
LEMMA FirstCallPops ==
  ASSUME SearchInv, frames # <<>>, lowlink[frames[1].node] # pre[frames[1].node]
  PROVE  FALSE
  <1>1. 1 \in DOMAIN frames /\ stack # <<>> /\ stack[1] = frames[1].node
    <2>1. Len(frames) \in Nat /\ DOMAIN frames = 1..Len(frames)
      BY CallFacts
    <2>2. Len(frames) # 0
      BY DEF SearchInv, SearchTypes
    <2> QED BY <2>1, <2>2 DEF SearchInv, CallsOnStack
  <1>2. /\ lowlink[frames[1].node] <= pre[frames[1].node]
        /\ \E y \in Range(stack) : pre[y] = lowlink[frames[1].node]
    BY <1>1 DEF SearchInv, LowLeads
  <1>3. PICK j \in DOMAIN stack : pre[stack[j]] = lowlink[frames[1].node]
    BY <1>2 DEF Range
  <1>4. j = 1 \/ 1 < j
    BY CallFacts
  <1>5. 1 \in DOMAIN stack
    BY <1>3, <1>4, CallFacts
  <1>6. 1 < j => pre[stack[1]] < pre[stack[j]]
    BY <1>3, <1>5 DEF SearchInv, StackIsOpen
  <1>7. pre[stack[1]] \in Nat /\ pre[stack[j]] \in Nat
    BY <1>3, <1>5, CallFacts
  <1> QED BY <1>1, <1>2, <1>3, <1>4, <1>6, <1>7

\* A node whose lowlink is lower stays on the stack, in the call before.
LEMMA MergeKeeps ==
  ASSUME SearchInv, Return, lowlink[u0] # pre[u0]
  PROVE  SearchInv'
  <1> DEFINE n == Len(frames)
  <1> DEFINE m == n - 1
  <1> DEFINE p == frames[m].node
  <1>0. /\ \A i \in 1..n : /\ frames[i].node \in Nodes /\ frames[i].node \in Range(stack)
                           /\ frames[i].next \in Nat
        /\ Range(stack) \subseteq Nodes
        /\ \A x \in Nodes : pre[x] \in Nat /\ lowlink[x] \in Nat
        /\ \A x \in Nodes : DOMAIN GG[x] = 1..Len(GG[x]) /\ Len(GG[x]) \in Nat
    BY CallFacts
  <1>1. /\ n \in Nat /\ n \in 1..n /\ DOMAIN frames = 1..n /\ u0 = frames[n].node
        /\ stage = "scc" /\ frames # <<>>
        /\ \A k \in DOMAIN GG[u0] : k < frames[n].next
        /\ frames' \in Seq([node : Nodes, next : Nat \ {0}]) /\ DOMAIN frames' = 1..m
        /\ \A i \in 1..m :
             /\ frames'[i].node = frames[i].node
             /\ frames'[i].next = IF i = m THEN frames[i].next + 1 ELSE frames[i].next
        /\ GG' = GG /\ Nodes' = Nodes /\ pre' = pre /\ root' = root
        /\ dfs_clock' = dfs_clock /\ stage' = stage
    BY ReturnedFrames
  <1>2. /\ n # 1 /\ n \in 1..n /\ m \in 1..m /\ m \in 1..n /\ m + 1 = n /\ m < n /\ {m, n} \subseteq Nat
        /\ \A i \in 1..m : i \in 1..n /\ i <= m /\ i < n /\ (i # m => i + 1 \in 1..m)
        /\ \A i \in 1..n : i < n => i \in 1..m
        /\ Last(Front(frames)).node = p
    <2>1. ASSUME n = 1 PROVE FALSE
      <3>1. frames[1].node = u0
        BY <2>1, <1>1
      <3> QED BY <3>1, <1>1, FirstCallPops
    <2>2. Last(Front(frames)).node = p
      BY <2>1, <1>1, ReturnedFrames
    <2>3. n \in Nat /\ n \in 1..n
      BY <1>1
    <2> HIDE DEF n
    <2>4. /\ n # 1 /\ n \in 1..n /\ m \in 1..m /\ m \in 1..n /\ m + 1 = n /\ m < n /\ {m, n} \subseteq Nat
          /\ \A i \in 1..m : i \in 1..n /\ i <= m /\ i < n /\ (i # m => i + 1 \in 1..m)
          /\ \A i \in 1..n : i < n => i \in 1..m
      BY <2>1, <2>3
    <2> QED BY <2>2, <2>4
  <1>o. \A i, j \in 1..n :
          /\ i < j => pre[frames[i].node] < pre[frames[j].node]
          /\ i <= j => pre[frames[i].node] <= pre[frames[j].node]
          /\ pre[frames[i].node] < pre[frames[j].node] => i < j
          /\ frames[i].node = frames[j].node => i = j
    BY CallOrder
  <1> HIDE DEF n, m
  <1>3. scc_cnt' = scc_cnt /\ sccno' = sccno /\ stack' = stack
    BY DEF Return
  <1>4. /\ p \in Nodes /\ p \in Range(stack) /\ u0 \in Nodes /\ u0 \in Range(stack)
        /\ lowlink[p] \in Nat /\ lowlink[u0] \in Nat /\ pre[u0] \in Nat /\ pre[p] \in Nat
        /\ pre[p] < pre[u0]
    <2>1. pre[frames[m].node] < pre[frames[n].node]
      BY <1>o, <1>1, <1>2
    <2> QED BY <2>1, <1>0, <1>1, <1>2
  <1>5. /\ lowlink' \in [Nodes -> Nat]
        /\ \A x \in Nodes : x # p => lowlink'[x] = lowlink[x]
        /\ lowlink'[p] = Least(lowlink[p], lowlink[u0])
    <2>1. lowlink' = [lowlink EXCEPT ![p] = Least(lowlink[p], lowlink[u0])]
      BY <1>1, <1>2 DEF Return, n, m
    <2>2. lowlink \in [Nodes -> Nat] /\ Least(lowlink[p], lowlink[u0]) \in Nat
      BY <1>4 DEF SearchInv, SearchTypes, Least
    <2> QED BY <2>1, <2>2, <1>4
  <1>6. \A i \in 1..m : i # m => frames[i].node # p
    <2> SUFFICES ASSUME NEW i \in 1..m, i # m PROVE frames[i].node # p
      OBVIOUS
    <2>1. i \in 1..n /\ m \in 1..n
      BY <1>2
    <2>2. i < m
      BY <1>2
    <2> QED BY <2>1, <2>2, <1>1, <1>o DEF p
  <1>7. /\ lowlink'[p] <= lowlink[p] /\ lowlink'[p] <= lowlink[u0]
        /\ lowlink'[p] = lowlink[p] \/ lowlink'[p] = lowlink[u0]
    BY <1>4, <1>5 DEF Least
  \* what was visited in the last call counts for the one before
  <1>8. \A x \in Range(stack) :
          /\ \A i \in 1..m : Within(frames, pre, i, x) => Within(frames', pre', i, x)
          /\ Within(frames, pre, n, x) => Within(frames', pre', m, x)
          /\ \A i \in 1..m : Within(frames', pre', i, x) =>
               Within(frames, pre, i, x) \/ (i = m /\ Within(frames, pre, n, x))
    <2> SUFFICES ASSUME NEW x \in Range(stack)
          PROVE /\ \A i \in 1..m : Within(frames, pre, i, x) => Within(frames', pre', i, x)
                /\ Within(frames, pre, n, x) => Within(frames', pre', m, x)
                /\ \A i \in 1..m : Within(frames', pre', i, x) =>
                     Within(frames, pre, i, x) \/ (i = m /\ Within(frames, pre, n, x))
      OBVIOUS
    <2>0. pre[x] \in Nat
      BY <1>0
    <2>1. /\ n + 1 \notin DOMAIN frames /\ m + 1 \notin DOMAIN frames'
          /\ m + 1 = n /\ frames'[m].node = p /\ frames[m].node = p
      BY <1>1, <1>2
    <2>2. Within(frames', pre', m, x) <=> pre[p] <= pre[x]
      BY <2>1, <1>1 DEF Within
    <2>3. Within(frames, pre, n, x) <=> pre[u0] <= pre[x]
      BY <2>1, <1>1 DEF Within
    <2>4. Within(frames, pre, m, x) <=> pre[p] <= pre[x] /\ pre[x] < pre[u0]
      BY <2>1, <1>1 DEF Within
    <2>5. \A i \in 1..m : i # m => (Within(frames', pre', i, x) <=> Within(frames, pre, i, x))
      <3> SUFFICES ASSUME NEW i \in 1..m, i # m
                   PROVE  Within(frames', pre', i, x) <=> Within(frames, pre, i, x)
        OBVIOUS
      <3>1. i + 1 \in 1..m /\ i + 1 \in 1..n
        BY <1>2
      <3> QED BY <3>1, <1>1 DEF Within
    <2>6. pre[p] <= pre[x] => pre[x] < pre[u0] \/ pre[u0] <= pre[x]
      BY <2>0, <1>4
    <2>7. pre[u0] <= pre[x] => pre[p] <= pre[x]
      BY <2>0, <1>4
    <2> QED BY <2>2, <2>3, <2>4, <2>5, <2>6, <2>7
  <1>9. Leads(GG, p, u0)
    <2>1. /\ frames[m].next \in DOMAIN GG[p] /\ GG[p][frames[m].next] = u0
          /\ m + 1 = n
      BY <1>1, <1>2 DEF SearchInv, Calling
    <2> QED BY <2>1, <1>4, LeadsByEdge DEF Nodes
  \* and that node leads back to the call before
  <1>10. Leads(GG, u0, p)
    <2>1. PICK y \in Range(stack) : pre[y] = lowlink[u0] /\ Leads(GG, u0, y)
      BY <1>1 DEF SearchInv, LowLeads
    <2>2. lowlink[u0] <= pre[u0]
      BY <1>1 DEF SearchInv, LowLeads
    <2>3. pre[y] < pre[u0] /\ pre[y] \in Nat
      BY <2>1, <2>2, <1>4
    <2>4. PICK j \in 1..n : Within(frames, pre, j, y) /\ Leads(GG, y, frames[j].node)
      BY <1>1 DEF SearchInv, LeadsBack
    <2>5. pre[frames[j].node] < pre[u0]
      <3>1. pre[frames[j].node] <= pre[y] /\ pre[frames[j].node] \in Nat
        BY <2>4, <1>0 DEF Within
      <3> QED BY <3>1, <2>3, <1>4
    <2>6. j \in 1..m
      <3>1. j < n
        <4>1. n \in Nat /\ n \in 1..n /\ pre[frames[j].node] < pre[frames[n].node]
          BY <2>5, <1>1
        <4> QED BY <4>1, <1>o
      <3> QED BY <3>1, <1>2
    <2>7. pre[frames[j].node] <= pre[p]
      <3>1. j <= m /\ j \in 1..n /\ m \in 1..n
        BY <2>6, <1>2
      <3> QED BY <3>1, <1>1, <1>o DEF p
    <2>8. Leads(GG, frames[j].node, p)
      BY <2>7, <1>1, <1>4 DEF SearchInv, LeadsUp
    <2>9. Leads(GG, y, p)
      BY <2>4, <2>8, LeadsOn
    <2> QED BY <2>1, <2>9, LeadsOn
  <1>11. frames' # <<>>
    BY <1>1, <1>2
  <1> HIDE DEF p
  <1>a. SearchTypes' /\ Numbered' /\ NumberedClosed' /\ NumberedMutual'
    BY <1>1, <1>3, <1>5 DEF SearchInv, SearchTypes, Numbered, NumberedClosed, NumberedMutual
  <1>b. StackIsOpen'
    BY <1>1, <1>3, <1>11 DEF SearchInv, StackIsOpen
  <1>c. CallsOnStack'
    <2>1. \A i \in DOMAIN frames' : frames'[i].node \in Range(stack')
      BY <1>0, <1>1, <1>2, <1>3
    <2>2. \A i, j \in DOMAIN frames' : i < j => pre'[frames'[i].node] < pre'[frames'[j].node]
      <3>1. \A i, j \in 1..m : i < j => pre[frames[i].node] < pre[frames[j].node]
        <4>1. \A i \in 1..m : i \in 1..n
          BY <1>2
        <4> QED BY <4>1, <1>1, <1>o
      <3> QED BY <3>1, <1>1
    <2>3. frames'[1].node = frames[1].node
      BY <1>1, <1>2
    <2>4. stack # <<>> /\ stack[1] = frames[1].node
      BY <1>1 DEF SearchInv, CallsOnStack
    <2> QED BY <2>1, <2>2, <2>3, <2>4, <1>1, <1>3 DEF CallsOnStack
  <1>d. Calling'
    <2> SUFFICES ASSUME NEW i \in 1..m, i + 1 \in 1..m
                 PROVE  /\ frames'[i].next \in DOMAIN GG[frames'[i].node]
                        /\ GG[frames'[i].node][frames'[i].next] = frames'[i + 1].node
      BY <1>1 DEF Calling
    <2>1. i # m /\ i \in 1..n /\ i + 1 \in 1..n
      BY <1>2
    <2> QED BY <2>1, <1>1 DEF SearchInv, Calling
  <1>e. LowLeads'
    <2> SUFFICES ASSUME NEW i \in 1..m
                 PROVE  /\ lowlink'[frames[i].node] <= pre[frames[i].node]
                        /\ \E y \in Range(stack) : /\ pre[y] = lowlink'[frames[i].node]
                                                   /\ Leads(GG, frames[i].node, y)
      BY <1>1, <1>3 DEF LowLeads
    <2>1. /\ lowlink[frames[i].node] <= pre[frames[i].node]
          /\ \E y \in Range(stack) :
               pre[y] = lowlink[frames[i].node] /\ Leads(GG, frames[i].node, y)
      BY <1>1, <1>2 DEF SearchInv, LowLeads
    <2>2. CASE i # m
      <3>1. frames[i].node # p /\ frames[i].node \in Nodes
        BY <2>2, <1>0, <1>2, <1>6
      <3> QED BY <2>1, <3>1, <1>5
    <2>3. CASE i = m /\ lowlink'[p] = lowlink[p]
      BY <2>1, <2>3 DEF p
    <2>4. CASE i = m /\ lowlink'[p] = lowlink[u0]
      <3>1. PICK y \in Range(stack) : pre[y] = lowlink[u0] /\ Leads(GG, u0, y)
        BY <1>1 DEF SearchInv, LowLeads
      <3>2. Leads(GG, p, y)
        BY <3>1, <1>9, LeadsOn
      <3>3. lowlink'[p] <= pre[p]
        <4>1. lowlink[p] <= pre[p] /\ lowlink'[p] \in Nat
          BY <2>1, <2>4, <1>4 DEF p
        <4> QED BY <4>1, <1>4, <1>7
      <3> QED BY <2>4, <3>1, <3>2, <3>3 DEF p
    <2> QED BY <2>2, <2>3, <2>4, <1>7
  <1>f. LowBounds'
    <2> SUFFICES ASSUME NEW i \in 1..m, NEW x \in Range(stack), NEW k \in DOMAIN GG[x],
                        Within(frames', pre', i, x), x = frames[i].node => k < frames'[i].next
                 PROVE  /\ pre[GG[x][k]] # 0
                        /\ sccno[GG[x][k]] = 0 => lowlink'[frames[i].node] <= pre[GG[x][k]]
      BY <1>1, <1>3 DEF LowBounds
    <2>0. k \in Nat /\ x \in Nodes /\ GG[x][k] \in Nodes /\ pre[GG[x][k]] \in Nat
      BY <1>0, CallFacts
    <2>1. /\ lowlink'[frames[i].node] <= lowlink[frames[i].node]
          /\ lowlink'[frames[i].node] \in Nat /\ lowlink[frames[i].node] \in Nat
      <3>1. CASE i = m
        BY <3>1, <1>4, <1>5, <1>7 DEF p
      <3>2. CASE i # m
        <4>1. frames[i].node # p /\ frames[i].node \in Nodes
          BY <3>2, <1>0, <1>2, <1>6
        <4> QED BY <4>1, <1>0, <1>5
      <3> QED BY <3>1, <3>2
    <2>2. CASE Within(frames, pre, i, x) /\ (x = frames[i].node => k < frames[i].next)
      <3>0. i \in DOMAIN frames
        BY <1>1, <1>2
      <3>1. /\ pre[GG[x][k]] # 0
            /\ sccno[GG[x][k]] = 0 => lowlink[frames[i].node] <= pre[GG[x][k]]
        BY <2>2, <3>0 DEF SearchInv, LowBounds
      <3> QED BY <2>0, <2>1, <3>1
    <2>3. CASE x = frames[i].node /\ ~ (k < frames[i].next)
      <3>1. i = m
        BY <2>3, <1>1
      <3>2. k = frames[m].next /\ x = p
        BY <2>0, <2>3, <3>1, <1>0, <1>1, <1>2 DEF p
      <3>3. GG[x][k] = u0
        <4>1. GG[p][frames[m].next] = u0 /\ m + 1 = n
          BY <1>1, <1>2 DEF SearchInv, Calling, p
        <4> QED BY <4>1, <3>2
      <3>4. pre[u0] # 0
        BY <1>4 DEF SearchInv, StackIsOpen
      <3>5. lowlink'[p] <= pre[u0]
        <4>1. lowlink[u0] <= pre[u0]
          BY <1>1 DEF SearchInv, LowLeads
        <4> QED BY <4>1, <2>1, <3>1, <1>4, <1>7 DEF p
      <3> QED BY <3>1, <3>3, <3>4, <3>5 DEF p
    <2>4. CASE i = m /\ Within(frames, pre, n, x)
      <3>1. x = frames[n].node => k < frames[n].next
        BY <1>1
      <3>2. /\ pre[GG[x][k]] # 0
            /\ sccno[GG[x][k]] = 0 => lowlink[u0] <= pre[GG[x][k]]
        BY <2>4, <3>1, <1>1 DEF SearchInv, LowBounds
      <3>3. lowlink'[p] <= lowlink[u0] /\ lowlink'[p] \in Nat
        BY <2>1, <2>4, <1>7 DEF p
      <3> QED BY <2>0, <2>4, <3>2, <3>3, <1>4 DEF p
    <2> QED BY <2>2, <2>3, <2>4, <1>8
  <1>g. LeadsUp'
    <2> SUFFICES ASSUME NEW i \in 1..m, NEW x \in Range(stack),
                        pre[frames[i].node] <= pre[x]
                 PROVE  Leads(GG, frames[i].node, x)
      BY <1>1, <1>3 DEF LeadsUp
    <2>1. i \in DOMAIN frames
      BY <1>1, <1>2
    <2> QED BY <2>1 DEF SearchInv, LeadsUp
  <1>h. LeadsBack'
    <2> SUFFICES ASSUME NEW x \in Range(stack)
                 PROVE  \E i \in 1..m :
                          Within(frames', pre', i, x) /\ Leads(GG, x, frames[i].node)
      BY <1>1, <1>3 DEF LeadsBack
    <2>1. PICK i \in 1..n : Within(frames, pre, i, x) /\ Leads(GG, x, frames[i].node)
      BY <1>1 DEF SearchInv, LeadsBack
    <2>2. CASE i = n
      <3>1. Leads(GG, x, p)
        BY <2>1, <2>2, <1>1, <1>10, LeadsOn
      <3> QED BY <2>1, <2>2, <3>1, <1>2, <1>8 DEF p
    <2>3. CASE i \in 1..m
      BY <2>1, <2>3, <1>8
    <2>4. i = n \/ i < n
      BY <1>1
    <2> QED BY <2>2, <2>3, <2>4, <1>2
  <1> QED BY <1>a, <1>b, <1>c, <1>d, <1>e, <1>f, <1>g, <1>h DEF SearchInv

\* The loop pops the node of the call and what was visited after it.
LEMMA PopCuts ==
  ASSUME SearchInv, NEW u \in Range(stack), PopComponent(u)
  PROVE  /\ stack' \in Seq(Nodes) /\ DOMAIN stack' \subseteq DOMAIN stack
         /\ \A i \in DOMAIN stack' : stack'[i] = stack[i]
         /\ Range(stack') = {x \in Range(stack) : pre[x] < pre[u]}
         /\ stack[1] = u => stack' = <<>>
         /\ stack[1] # u => stack' # <<>> /\ 1 \in DOMAIN stack'
         /\ scc_cnt' = scc_cnt + 1 /\ sccno' \in [Nodes -> Nat]
         /\ \A x \in Nodes : sccno'[x] = IF x \in Range(stack) /\ pre[u] <= pre[x]
                                           THEN scc_cnt + 1 ELSE sccno[x]
  <1> DEFINE N == Len(stack)
  <1>1. /\ N \in Nat /\ DOMAIN stack = 1..N /\ stack \in Seq(Nodes) /\ u \in Nodes
        /\ \A i \in 1..N : stack[i] \in Nodes /\ stack[i] \in Range(stack)
        /\ \A x \in Nodes : pre[x] \in Nat
    BY CallFacts DEF SearchInv, SearchTypes
  <1>2. \A i, j \in 1..N : i < j => pre[stack[i]] < pre[stack[j]]
    BY <1>1 DEF SearchInv, StackIsOpen
  <1>3. PICK q \in 1..N : stack[q] = u
    BY <1>1 DEF Range
  <1>4. \A i \in 1..N : stack[i] = u => i = q
    <2> SUFFICES ASSUME NEW i \in 1..N, stack[i] = u PROVE i = q
      OBVIOUS
    <2>1. ~ (i < q) /\ ~ (q < i)
      BY <1>1, <1>2, <1>3
    <2> QED BY <2>1, <1>1, <1>3
  <1>5. From(u) = q
    <2>1. {i \in DOMAIN stack : stack[i] = u} = {q}
      BY <1>1, <1>3, <1>4
    <2>2. Most({q}) = q
      BY <1>1, <1>3 DEF Most
    <2> QED BY <2>1, <2>2 DEF From
  <1>6. \A i \in 1..N : i < q <=> pre[stack[i]] < pre[u]
    <2> SUFFICES ASSUME NEW i \in 1..N PROVE i < q <=> pre[stack[i]] < pre[u]
      OBVIOUS
    <2>1. i < q => pre[stack[i]] < pre[u]
      BY <1>2, <1>3
    <2>2. q < i => pre[u] < pre[stack[i]]
      BY <1>2, <1>3
    <2>3. pre[u] \in Nat /\ pre[stack[i]] \in Nat
      BY <1>1
    <2>4. i < q \/ i = q \/ q < i
      BY <1>1, <1>3
    <2> QED BY <2>1, <2>2, <2>3, <2>4, <1>1, <1>3
  <1>7. /\ q - 1 \in 0..N /\ q - 1 \in Nat /\ stack' = SubSeq(stack, 1, q - 1)
        /\ scc_cnt' = scc_cnt + 1
    BY <1>1, <1>3, <1>5 DEF PopComponent
  <1>8. /\ stack' \in Seq(Nodes) /\ DOMAIN stack' = 1..q - 1
        /\ \A i \in 1..q - 1 : stack'[i] = stack[i]
    BY <1>1, <1>7, CutOff
  <1> HIDE DEF N
  <1>9. \A i : i \in 1..q - 1 <=> i \in 1..N /\ i < q
    BY <1>1, <1>3
  <1>10. Range(stack') = {x \in Range(stack) : pre[x] < pre[u]}
    <2>1. ASSUME NEW x \in Range(stack') PROVE x \in Range(stack) /\ pre[x] < pre[u]
      <3>1. PICK i \in 1..q - 1 : x = stack'[i]
        BY <1>8 DEF Range
      <3> QED BY <3>1, <1>1, <1>6, <1>8, <1>9
    <2>2. ASSUME NEW x \in Range(stack), pre[x] < pre[u] PROVE x \in Range(stack')
      <3>1. PICK i \in 1..N : x = stack[i]
        BY <1>1 DEF Range
      <3>2. i \in 1..q - 1
        BY <3>1, <2>2, <1>6, <1>9
      <3> QED BY <3>1, <3>2, <1>8 DEF Range
    <2> QED BY <2>1, <2>2
  <1>11. /\ stack[1] = u => stack' = <<>>
         /\ stack[1] # u => stack' # <<>> /\ 1 \in DOMAIN stack'
    <2>1. 1 \in 1..N
      BY <1>1, <1>3
    <2>2. CASE stack[1] = u
      <3>1. q = 1
        BY <2>1, <2>2, <1>4
      <3>2. DOMAIN stack' = 1..0
        BY <3>1, <1>8
      <3> QED BY <3>2, <2>2, <1>8
    <2>3. CASE stack[1] # u
      <3>1. 1 < q
        BY <2>3, <1>1, <1>3
      <3>2. 1 \in DOMAIN stack'
        BY <3>1, <2>1, <1>8, <1>9
      <3> QED BY <3>2, <2>3
    <2> QED BY <2>2, <2>3
  <1>12. \A x \in Nodes : (\E i \in q..N : stack[i] = x) <=> x \in Range(stack) /\ pre[u] <= pre[x]
    <2> SUFFICES ASSUME NEW x \in Nodes
                 PROVE  (\E i \in q..N : stack[i] = x) <=> x \in Range(stack) /\ pre[u] <= pre[x]
      OBVIOUS
    <2>1. \A i : i \in q..N <=> i \in 1..N /\ ~ (i < q)
      BY <1>1, <1>3
    <2>2. pre[u] <= pre[x] <=> ~ (pre[x] < pre[u])
      BY <1>1
    <2>3. x \in Range(stack) <=> \E i \in 1..N : stack[i] = x
      BY <1>1 DEF Range
    <2> QED BY <2>1, <2>2, <2>3, <1>6
  <1>13. /\ sccno' \in [Nodes -> Nat]
         /\ \A x \in Nodes : sccno'[x] = IF x \in Range(stack) /\ pre[u] <= pre[x]
                                           THEN scc_cnt + 1 ELSE sccno[x]
    <2>1. sccno' = [x \in Nodes |-> IF \E i \in q..N : stack[i] = x THEN scc_cnt + 1 ELSE sccno[x]]
      BY <1>5 DEF PopComponent, N
    <2>2. scc_cnt + 1 \in Nat /\ sccno \in [Nodes -> Nat]
      BY DEF SearchInv, SearchTypes
    <2> QED BY <2>1, <2>2, <1>12
  <1>14. DOMAIN stack' \subseteq DOMAIN stack /\ \A i \in DOMAIN stack' : stack'[i] = stack[i]
    BY <1>1, <1>8, <1>9
  <1> QED BY <1>7, <1>8, <1>10, <1>11, <1>13, <1>14

\* A node whose lowlink is its own number leaves with its component.
LEMMA PopKeeps ==
  ASSUME SearchInv, Return, lowlink[u0] = pre[u0]
  PROVE  SearchInv'
  <1> DEFINE n == Len(frames)
  <1> DEFINE m == n - 1
  <1> DEFINE c == scc_cnt + 1
  <1>0. /\ \A i \in 1..n : /\ frames[i].node \in Nodes /\ frames[i].node \in Range(stack)
                           /\ frames[i].next \in Nat
        /\ Range(stack) \subseteq Nodes
        /\ \A x \in Nodes : pre[x] \in Nat /\ lowlink[x] \in Nat /\ sccno[x] \in Nat
        /\ \A x \in Nodes : x \in Range(stack) <=> pre[x] # 0 /\ sccno[x] = 0
        /\ \A x \in Nodes : DOMAIN GG[x] = 1..Len(GG[x]) /\ Len(GG[x]) \in Nat
    BY CallFacts
  <1>1. /\ n \in Nat /\ n \in 1..n /\ DOMAIN frames = 1..n /\ u0 = frames[n].node
        /\ stage = "scc" /\ frames # <<>> /\ u0 \in Nodes /\ u0 \in Range(stack)
        /\ \A k \in DOMAIN GG[u0] : k < frames[n].next
        /\ frames' \in Seq([node : Nodes, next : Nat \ {0}]) /\ DOMAIN frames' = 1..m
        /\ \A i \in 1..m :
             /\ frames'[i].node = frames[i].node
             /\ frames'[i].next = IF i = m THEN frames[i].next + 1 ELSE frames[i].next
        /\ GG' = GG /\ Nodes' = Nodes /\ pre' = pre /\ root' = root
        /\ dfs_clock' = dfs_clock /\ stage' = stage
    BY ReturnedFrames
  <1>2. PopComponent(u0)
    BY DEF Return
  <1>3. /\ stack' \in Seq(Nodes) /\ DOMAIN stack' \subseteq DOMAIN stack
        /\ \A i \in DOMAIN stack' : stack'[i] = stack[i]
        /\ Range(stack') = {x \in Range(stack) : pre[x] < pre[u0]}
        /\ stack[1] = u0 => stack' = <<>>
        /\ stack[1] # u0 => stack' # <<>> /\ 1 \in DOMAIN stack'
        /\ scc_cnt' = c /\ sccno' \in [Nodes -> Nat]
        /\ \A x \in Nodes : sccno'[x] = IF x \in Range(stack) /\ pre[u0] <= pre[x] THEN c ELSE sccno[x]
    BY <1>1, <1>2, PopCuts
  <1>o. \A i, j \in 1..n :
          /\ i < j => pre[frames[i].node] < pre[frames[j].node]
          /\ i <= j => pre[frames[i].node] <= pre[frames[j].node]
          /\ pre[frames[i].node] < pre[frames[j].node] => i < j
          /\ frames[i].node = frames[j].node => i = j
    BY CallOrder
  <1> HIDE DEF n
  <1>4. /\ m + 1 = n /\ m \in Nat
        /\ \A i \in 1..m : i \in 1..n /\ i < n /\ (i # m => i + 1 \in 1..m)
        /\ \A i \in 1..n : i = n \/ i \in 1..m
        /\ n # 1 => m \in 1..m /\ m \in 1..n /\ 1 \in 1..m
    BY <1>1
  <1>5. /\ c \in Nat /\ c # 0 /\ \A x \in Nodes : sccno[x] < c
        /\ pre[u0] \in Nat
    <2>1. scc_cnt \in Nat /\ \A x \in Nodes : sccno[x] <= scc_cnt
      BY <1>0 DEF SearchInv, SearchTypes, Numbered
    <2>2. \A x \in Nodes : sccno[x] \in Nat /\ pre[x] \in Nat
      BY <1>0
    <2>3. u0 \in Nodes
      BY <1>0, <1>1
    <2> QED BY <2>1, <2>2, <2>3
  <1> HIDE DEF m, c
  \* the calls that go on are those of nodes below on the stack
  <1>6. \A i \in 1..m : /\ frames[i].node \in Range(stack') /\ frames[i].node \in Nodes
                        /\ pre[frames[i].node] < pre[u0]
    <2> SUFFICES ASSUME NEW i \in 1..m PROVE pre[frames[i].node] < pre[u0]
      BY <1>0, <1>3, <1>4
    <2>1. i \in 1..n /\ n \in 1..n /\ i < n
      BY <1>1, <1>4
    <2> QED BY <2>1, <1>1, <1>o
  <1>7. lowlink' = lowlink
    <2>1. CASE n = 1
      BY <2>1 DEF Return, n
    <2>2. CASE n # 1
      <3> DEFINE p == frames[m].node
      <3>1. Last(Front(frames)).node = p
        BY <2>2, ReturnedFrames DEF n, m
      <3>2. m \in DOMAIN frames
        BY <2>2, <1>1, <1>4
      <3>3. lowlink[p] <= pre[p] /\ pre[p] < pre[u0] /\ p \in Nodes
        BY <2>2, <3>2, <1>4, <1>6 DEF SearchInv, LowLeads
      <3>4. lowlink[p] \in Nat /\ pre[p] \in Nat
        BY <3>3, <1>0
      <3>5. Least(lowlink[p], lowlink[u0]) = lowlink[p]
        BY <3>3, <3>4, <1>5 DEF Least
      <3>6. lowlink' = [lowlink EXCEPT ![p] = Least(lowlink[p], lowlink[u0])]
        BY <2>2, <3>1 DEF Return, n
      <3> QED BY <3>5, <3>6 DEF SearchInv, SearchTypes
    <2> QED BY <2>1, <2>2
  \* what stays on the stack was not visited in the last call
  <1>8. \A x \in Range(stack') : /\ x \in Range(stack) /\ x \in Nodes
                                 /\ pre[x] < pre[u0] /\ pre[x] \in Nat
    BY <1>0, <1>3
  <1>9. \A x \in Range(stack') : \A i \in 1..m :
          Within(frames', pre', i, x) <=> Within(frames, pre, i, x)
    <2> SUFFICES ASSUME NEW x \in Range(stack'), NEW i \in 1..m
                 PROVE  Within(frames', pre', i, x) <=> Within(frames, pre, i, x)
      OBVIOUS
    <2>1. CASE i = m
      <3>1. i + 1 = n /\ i + 1 \in DOMAIN frames /\ i + 1 \notin DOMAIN frames'
        BY <2>1, <1>1, <1>4
      <3> QED BY <3>1, <1>1, <1>8 DEF Within
    <2>2. CASE i # m
      <3>1. i + 1 \in 1..m /\ i + 1 \in 1..n
        BY <2>2, <1>4
      <3> QED BY <3>1, <1>1 DEF Within
    <2> QED BY <2>1, <2>2
  <1>10. \A x \in Range(stack) : pre[u0] <= pre[x] <=> Within(frames, pre, n, x)
    <2>1. n + 1 \notin DOMAIN frames
      BY <1>1
    <2> QED BY <2>1, <1>1 DEF Within
  <1>a. SearchTypes'
    BY <1>1, <1>3, <1>5, <1>7 DEF SearchInv, SearchTypes
  <1>b. Numbered'
    <2> SUFFICES ASSUME NEW x \in Nodes
                 PROVE  pre[x] <= dfs_clock /\ sccno'[x] <= c /\ (sccno'[x] # 0 => pre[x] # 0)
      BY <1>1, <1>3 DEF Numbered
    <2>1. pre[x] <= dfs_clock /\ (sccno[x] # 0 => pre[x] # 0)
      BY DEF SearchInv, Numbered
    <2> QED BY <2>1, <1>0, <1>3, <1>5
  <1>c. StackIsOpen'
    <2>1. Range(stack') = {x \in Nodes' : pre'[x] # 0 /\ sccno'[x] = 0}
      <3>1. \A x \in Nodes : x \in Range(stack') <=> pre[x] # 0 /\ sccno'[x] = 0
        <4> SUFFICES ASSUME NEW x \in Nodes
                     PROVE  x \in Range(stack') <=> pre[x] # 0 /\ sccno'[x] = 0
          OBVIOUS
        <4>1. pre[x] \in Nat /\ (x \in Range(stack) <=> pre[x] # 0 /\ sccno[x] = 0)
          BY <1>0
        <4>2. pre[u0] <= pre[x] <=> ~ (pre[x] < pre[u0])
          BY <4>1, <1>5
        <4> QED BY <4>1, <4>2, <1>3, <1>5
      <3>2. Range(stack') \subseteq Nodes
        BY <1>8
      <3> QED BY <3>1, <3>2, <1>1
    <2>2. \A i, j \in DOMAIN stack' : i < j => pre'[stack'[i]] < pre'[stack'[j]]
      BY <1>1, <1>3 DEF SearchInv, StackIsOpen
    <2>3. frames' = <<>> => stack' = <<>>
      <3> SUFFICES ASSUME frames' = <<>> PROVE stack' = <<>>
        OBVIOUS
      <3>1. n = 1
        BY <1>1, <1>4
      <3>2. stack[1] = u0
        BY <3>1, <1>1 DEF SearchInv, CallsOnStack
      <3> QED BY <3>2, <1>3
    <2> QED BY <2>1, <2>2, <2>3 DEF StackIsOpen
  <1>d. CallsOnStack'
    <2>1. \A i \in DOMAIN frames' : frames'[i].node \in Range(stack')
      BY <1>1, <1>6
    <2>2. \A i, j \in DOMAIN frames' : i < j => pre'[frames'[i].node] < pre'[frames'[j].node]
      <3>1. \A i \in 1..m : i \in 1..n
        BY <1>4
      <3>2. \A i, j \in 1..m : i < j => pre[frames[i].node] < pre[frames[j].node]
        BY <3>1, <1>1, <1>o
      <3> QED BY <3>2, <1>1
    <2>3. ASSUME frames' # <<>> PROVE stack' # <<>> /\ stack'[1] = frames'[1].node
      <3>1. n # 1
        <4> DEFINE F == [node : Nodes, next : Nat \ {0}]
        <4>1. frames' \in Seq(F)
          BY <1>1
        <4>2. n = 1 => DOMAIN frames' = 1..0
          BY <1>1, <1>4
        <4> HIDE DEF F
        <4>3. DOMAIN frames' = 1..0 => frames' = <<>>
          BY <4>1
        <4> QED BY <4>2, <4>3, <2>3
      <3>2. stack[1] = frames[1].node /\ 1 \in 1..m
        BY <3>1, <1>1, <1>4 DEF SearchInv, CallsOnStack
      <3>3. stack[1] # u0
        BY <3>2, <1>5, <1>6
      <3> QED BY <3>2, <3>3, <1>1, <1>3
    <2> QED BY <2>1, <2>2, <2>3, <1>1 DEF CallsOnStack
  <1>e. Calling'
    <2> SUFFICES ASSUME NEW i \in 1..m, i + 1 \in 1..m
                 PROVE  /\ frames'[i].next \in DOMAIN GG[frames'[i].node]
                        /\ GG[frames'[i].node][frames'[i].next] = frames'[i + 1].node
      BY <1>1 DEF Calling
    <2>1. i # m /\ i \in 1..n /\ i + 1 \in 1..n
      BY <1>4
    <2> QED BY <2>1, <1>1 DEF SearchInv, Calling
  <1>f. LowLeads'
    <2> SUFFICES ASSUME NEW i \in 1..m
                 PROVE  /\ lowlink[frames[i].node] <= pre[frames[i].node]
                        /\ \E y \in Range(stack') : /\ pre[y] = lowlink[frames[i].node]
                                                    /\ Leads(GG, frames[i].node, y)
      BY <1>1, <1>7 DEF LowLeads
    <2>1. i \in DOMAIN frames
      BY <1>1, <1>4
    <2>2. lowlink[frames[i].node] <= pre[frames[i].node]
      BY <2>1 DEF SearchInv, LowLeads
    <2>3. PICK y \in Range(stack) : pre[y] = lowlink[frames[i].node] /\ Leads(GG, frames[i].node, y)
      BY <2>1 DEF SearchInv, LowLeads
    <2>4. pre[frames[i].node] < pre[u0] /\ pre[frames[i].node] \in Nat /\ pre[y] \in Nat
      BY <1>0, <1>6
    <2>5. y \in Range(stack')
      BY <2>2, <2>3, <2>4, <1>3, <1>5
    <2> QED BY <2>2, <2>3, <2>5
  <1>g. LowBounds'
    <2> SUFFICES ASSUME NEW i \in 1..m, NEW x \in Range(stack'), NEW k \in DOMAIN GG[x],
                        Within(frames, pre, i, x), x = frames[i].node => k < frames'[i].next
                 PROVE  /\ pre[GG[x][k]] # 0
                        /\ sccno'[GG[x][k]] = 0 => lowlink[frames[i].node] <= pre[GG[x][k]]
      BY <1>1, <1>7, <1>9 DEF LowBounds
    <2>1. k \in Nat /\ x \in Nodes /\ GG[x][k] \in Nodes /\ x \in Range(stack)
      BY <1>0, <1>8, CallFacts
    <2>2. i \in DOMAIN frames /\ frames[i].next \in Nat
      BY <1>0, <1>1, <1>4
    <2>3. CASE x = frames[i].node => k < frames[i].next
      <3>1. /\ pre[GG[x][k]] # 0
            /\ sccno[GG[x][k]] = 0 => lowlink[frames[i].node] <= pre[GG[x][k]]
        BY <2>1, <2>2, <2>3 DEF SearchInv, LowBounds
      <3>2. sccno'[GG[x][k]] = 0 => sccno[GG[x][k]] = 0
        BY <2>1, <1>3, <1>5
      <3> QED BY <3>1, <3>2
    <2>4. CASE x = frames[i].node /\ ~ (k < frames[i].next)
      <3>1. i = m
        BY <2>4, <1>1
      <3>2. k = frames[m].next /\ x = frames[m].node
        BY <2>1, <2>2, <2>4, <3>1, <1>1
      <3>3. GG[x][k] = u0
        <4>1. m \in DOMAIN frames /\ m + 1 \in DOMAIN frames /\ m + 1 = n
          BY <2>2, <3>1, <1>1, <1>4
        <4> QED BY <4>1, <3>2, <1>1 DEF SearchInv, Calling
      <3>4. pre[u0] # 0 /\ pre[u0] <= pre[u0]
        BY <1>0, <1>1, <1>5
      <3>5. sccno'[u0] = c
        BY <3>4, <1>1, <1>3
      <3> QED BY <3>3, <3>4, <3>5, <1>5
    <2> QED BY <2>3, <2>4
  <1>h. LeadsUp'
    <2> SUFFICES ASSUME NEW i \in 1..m, NEW x \in Range(stack'),
                        pre[frames[i].node] <= pre[x]
                 PROVE  Leads(GG, frames[i].node, x)
      BY <1>1 DEF LeadsUp
    <2>1. i \in DOMAIN frames
      BY <1>1, <1>4
    <2> QED BY <2>1, <1>8 DEF SearchInv, LeadsUp
  <1>i. LeadsBack'
    <2> SUFFICES ASSUME NEW x \in Range(stack')
                 PROVE  \E i \in 1..m : Within(frames', pre', i, x) /\ Leads(GG, x, frames[i].node)
      BY <1>1 DEF LeadsBack
    <2>1. PICK i \in 1..n : Within(frames, pre, i, x) /\ Leads(GG, x, frames[i].node)
      BY <1>1, <1>8 DEF SearchInv, LeadsBack
    <2>2. i # n
      <3>1. ~ (pre[u0] <= pre[x])
        BY <1>5, <1>8
      <3> QED BY <3>1, <2>1, <1>8, <1>10
    <2>3. i \in 1..m
      BY <2>2, <1>4
    <2> QED BY <2>1, <2>3, <1>9
  <1>j. NumberedClosed'
    <2> SUFFICES ASSUME NEW x \in Nodes, sccno'[x] # 0, NEW k \in DOMAIN GG[x]
                 PROVE  sccno'[GG[x][k]] \in 1..sccno'[x]
      BY <1>1 DEF NumberedClosed
    <2> DEFINE w == GG[x][k]
    <2>1. w \in Nodes
      BY CallFacts
    <2> HIDE DEF w
    <2>2. CASE x \in Range(stack) /\ pre[u0] <= pre[x]
      <3>1. pre[w] # 0 /\ (sccno[w] = 0 => pre[u0] <= pre[w])
        <4>1. Within(frames, pre, n, x) /\ (x = frames[n].node => k < frames[n].next)
          BY <2>2, <1>1, <1>10
        <4> QED BY <4>1, <2>2, <1>1 DEF SearchInv, LowBounds, w
      <3>2. sccno'[x] = c
        BY <2>2, <1>3
      <3>3. sccno'[w] \in 1..c
        <4>1. CASE sccno[w] = 0
          <5>1. w \in Range(stack) /\ pre[u0] <= pre[w]
            BY <4>1, <3>1, <2>1, <1>0
          <5> QED BY <5>1, <2>1, <1>3, <1>5
        <4>2. CASE sccno[w] # 0
          <5>1. sccno'[w] = sccno[w]
            BY <4>2, <2>1, <1>0, <1>3
          <5> QED BY <5>1, <4>2, <2>1, <1>0, <1>5
        <4> QED BY <4>1, <4>2
      <3> QED BY <3>2, <3>3 DEF w
    <2>3. CASE ~ (x \in Range(stack) /\ pre[u0] <= pre[x])
      <3>1. sccno'[x] = sccno[x]
        BY <2>3, <1>3
      <3>2. sccno[w] \in 1..sccno[x]
        BY <2>2, <3>1 DEF SearchInv, NumberedClosed, w
      <3>3. sccno[w] # 0
        BY <3>2
      <3>4. sccno'[w] = sccno[w]
        BY <3>3, <2>1, <1>0, <1>3
      <3> QED BY <3>1, <3>2, <3>4 DEF w
    <2> QED BY <2>2, <2>3
  <1>k. NumberedMutual'
    <2> SUFFICES ASSUME NEW x \in Nodes, NEW y \in Nodes, sccno'[x] # 0, sccno'[x] = sccno'[y]
                 PROVE  Leads(GG, x, y)
      BY <1>1 DEF NumberedMutual
    <2> DEFINE Popped == {v \in Range(stack) : pre[u0] <= pre[v]}
    <2>1. /\ sccno'[x] = IF x \in Popped THEN c ELSE sccno[x]
          /\ sccno'[y] = IF y \in Popped THEN c ELSE sccno[y]
      BY <1>3
    <2>2. CASE x \in Popped /\ y \in Popped
      <3>1. PICK i \in 1..n : Within(frames, pre, i, x) /\ Leads(GG, x, frames[i].node)
        BY <2>2, <1>1 DEF SearchInv, LeadsBack
      <3>2. i = n
        <4> SUFFICES ASSUME i # n PROVE FALSE
          OBVIOUS
        <4>1. i + 1 \in 1..n /\ i + 1 <= n
          BY <1>1
        <4>2. pre[x] < pre[frames[i + 1].node]
          BY <4>1, <3>1, <1>1 DEF Within
        <4>3. pre[frames[i + 1].node] <= pre[u0]
          BY <4>1, <1>1, <1>o
        <4>4. pre[x] \in Nat /\ pre[frames[i + 1].node] \in Nat
          BY <4>1, <1>0
        <4> QED BY <4>2, <4>3, <4>4, <2>2, <1>5
      <3>3. Leads(GG, u0, y)
        BY <2>2, <1>1 DEF SearchInv, LeadsUp
      <3> QED BY <3>1, <3>2, <3>3, <1>1, LeadsOn
    <2>3. CASE x \notin Popped /\ y \notin Popped
      BY <2>1, <2>3 DEF SearchInv, NumberedMutual
    <2> HIDE DEF Popped
    <2>0. /\ sccno[x] \in Nat /\ sccno[x] < c /\ sccno[y] \in Nat /\ sccno[y] < c
          /\ c \in Nat /\ sccno'[x] = sccno'[y]
      BY <1>0, <1>5
    <2>4. CASE x \in Popped /\ y \notin Popped
      <3>1. sccno[y] = c
        BY <2>0, <2>1, <2>4
      <3>2. sccno[y] # c
        BY <2>0
      <3> QED BY <3>1, <3>2
    <2>5. CASE x \notin Popped /\ y \in Popped
      <3>1. sccno[x] = c
        BY <2>0, <2>1, <2>5
      <3>2. sccno[x] # c
        BY <2>0
      <3> QED BY <3>1, <3>2
    <2> QED BY <2>2, <2>3, <2>4, <2>5
  <1> QED BY <1>a, <1>b, <1>c, <1>d, <1>e, <1>f, <1>g, <1>h, <1>i, <1>j, <1>k DEF SearchInv

-----------------------------------------------------------------------------
(* The whole of the search                                                   *)

\* Before the first call, nothing is on the stack.
LEMMA IdleKeeps ==
  ASSUME SearchTypes', Numbered', stack' = <<>>, frames' = <<>>,
         \A u \in Nodes' : sccno'[u] = 0 => pre'[u] = 0,
         NumberedClosed', NumberedMutual'
  PROVE  SearchInv'
  <1>1. Range(stack') = {} /\ DOMAIN stack' = {} /\ DOMAIN frames' = {}
    BY DEF Range
  <1>2. StackIsOpen'
    BY <1>1 DEF StackIsOpen, SearchTypes, Numbered
  <1>3. CallsOnStack' /\ Calling' /\ LowLeads' /\ LowBounds' /\ LeadsUp' /\ LeadsBack'
    BY <1>1 DEF CallsOnStack, Calling, LowLeads, LowBounds, LeadsUp, LeadsBack
  <1> QED BY <1>2, <1>3 DEF SearchInv

\* Steps of other functions leave the search alone.
LEMMA OtherKeeps ==
  ASSUME SearchInv, UNCHANGED <<GG, search>>, stage' # "scc" => frames = <<>>
  PROVE  SearchInv'
  <1>1. /\ GG' = GG /\ pre' = pre /\ lowlink' = lowlink /\ sccno' = sccno /\ stack' = stack
        /\ frames' = frames /\ root' = root /\ dfs_clock' = dfs_clock /\ scc_cnt' = scc_cnt
        /\ Nodes' = Nodes
    BY DEF search, Nodes
  <1>2. SearchTypes' /\ Numbered' /\ StackIsOpen' /\ Calling' /\ LowLeads'
    BY <1>1 DEF SearchInv, SearchTypes, Numbered, StackIsOpen, Calling, LowLeads
  <1>3. LowBounds' /\ LeadsUp' /\ LeadsBack' /\ NumberedClosed' /\ NumberedMutual'
    BY <1>1 DEF SearchInv, LowBounds, LeadsUp, LeadsBack, NumberedClosed, NumberedMutual
  <1>4. CallsOnStack'
    BY <1>1 DEF SearchInv, CallsOnStack
  <1> QED BY <1>2, <1>3, <1>4 DEF SearchInv

\* No object has read a file yet.
LEMMA SearchStarts == Init => SearchInv
  <1> SUFFICES ASSUME Init PROVE SearchInv
    OBVIOUS
  <1>1. Nodes = {} /\ Range(stack) = {} /\ DOMAIN frames = {} /\ DOMAIN stack = {}
    BY DEF Init, Nodes, Range
  <1>2. SearchTypes
    <2>1. frames \in Seq([node : Nodes, next : Nat \ {0}]) /\ stack \in Seq(Nodes)
      BY DEF Init
    <2>2. pre \in [Nodes -> Nat] /\ lowlink \in [Nodes -> Nat] /\ sccno \in [Nodes -> Nat]
      BY <1>1 DEF Init
    <2> QED BY <1>1, <2>1, <2>2 DEF Init, SearchTypes
  <1>3. Numbered /\ StackIsOpen /\ CallsOnStack /\ Calling
    BY <1>1 DEF Init, Numbered, StackIsOpen, CallsOnStack, Calling
  <1>4. LowLeads /\ LowBounds /\ LeadsUp /\ LeadsBack /\ NumberedClosed /\ NumberedMutual
    BY <1>1 DEF LowLeads, LowBounds, LeadsUp, LeadsBack, NumberedClosed, NumberedMutual
  <1> QED BY <1>2, <1>3, <1>4 DEF SearchInv

\* A new object finds the static stack as the one before left it: empty.
LEMMA ReadKeeps ==
  ASSUME SearchInv, NEW file \in Files, Read(file), frames = <<>>
  PROVE  SearchInv'
  <1>1. /\ GG' = Adjacency(file) /\ Nodes' = DOMAIN Adjacency(file)
        /\ pre' = [u \in Nodes' |-> 0] /\ lowlink' = [u \in Nodes' |-> 0]
        /\ sccno' = [u \in Nodes' |-> 0]
        /\ frames' = <<>> /\ root' = 0 /\ dfs_clock' = 0 /\ scc_cnt' = 0
    BY DEF Read, Nodes
  <1>2. stack' = <<>>
    BY DEF Read, SearchInv, StackIsOpen
  <1>3. \A u \in Nodes' : GG'[u] \in Seq(Nodes')
    BY <1>1, EdgesLeadToNodes
  <1>4. SearchTypes'
    BY <1>1, <1>2, <1>3 DEF SearchTypes
  <1>5. Numbered' /\ NumberedClosed' /\ NumberedMutual' /\ \A u \in Nodes' : pre'[u] = 0
    BY <1>1 DEF Numbered, NumberedClosed, NumberedMutual
  <1> QED BY <1>1, <1>2, <1>4, <1>5, IdleKeeps

\* Every step of an object keeps the invariant.
LEMMA SearchStep == SearchInv /\ [Next]_vars => SearchInv'
  <1> SUFFICES ASSUME SearchInv, [Next]_vars PROVE SearchInv'
    OBVIOUS
  <1>1. CASE TryRoot
    <2>1. stage = "scc" /\ frames = <<>> /\ root \in Nodes /\ root' = root + 1
          /\ stage' = stage /\ GG' = GG
      BY <1>1 DEF TryRoot
    <2>2. root' \in Nat
      BY <2>1 DEF SearchInv, SearchTypes
    <2>3. CASE pre[root] = 0
      BY <2>1, <2>2, <2>3, <1>1, VisitKeeps DEF TryRoot
    <2>4. CASE pre[root] # 0
      <3>1. /\ GG' = GG /\ pre' = pre /\ lowlink' = lowlink /\ sccno' = sccno /\ stack' = stack
            /\ frames' = frames /\ dfs_clock' = dfs_clock /\ scc_cnt' = scc_cnt /\ Nodes' = Nodes
        BY <2>4, <1>1 DEF TryRoot, Nodes
      <3>2. Numbered' /\ SearchTypes' /\ NumberedClosed' /\ NumberedMutual'
        BY <3>1, <2>2 DEF SearchInv, Numbered, SearchTypes, NumberedClosed, NumberedMutual
      <3>3. stack' = <<>> /\ frames' = <<>>
        BY <3>1, <2>1 DEF SearchInv, StackIsOpen
      <3>4. \A u \in Nodes' : sccno'[u] = 0 => pre'[u] = 0
        <4>1. Range(stack) = {u \in Nodes : pre[u] # 0 /\ sccno[u] = 0}
          BY DEF SearchInv, StackIsOpen
        <4>2. Range(stack) = {}
          BY <3>1, <3>3 DEF Range
        <4> QED BY <4>1, <4>2, <3>1
      <3> QED BY <3>2, <3>3, <3>4, IdleKeeps
    <2> QED BY <2>3, <2>4
  <1>2. CASE Descend
    <2>1. /\ Looking /\ pre[v0] = 0 /\ Visit(v0) /\ stage = "scc" /\ stage' = stage /\ GG' = GG
          /\ root' \in Nat
      BY <1>2 DEF Descend, Looking, SearchInv, SearchTypes
    <2>2. v0 \in Nodes
      <3>1. Last(frames) = frames[Len(frames)] /\ frames # <<>>
        BY <2>1 DEF Last, Looking
      <3>2. Len(frames) \in 1..Len(frames)
        BY <3>1 DEF SearchInv, SearchTypes
      <3>3. u0 \in Nodes
        BY <3>1, <3>2, CallFacts DEF u0
      <3> QED BY <2>1, <3>3, CallFacts DEF v0, Looking
    <2> QED BY <2>1, <2>2, VisitKeeps
  <1>3. CASE Seen
    BY <1>3, SeenKeeps
  <1>4. CASE Return
    BY <1>4, MergeKeeps, PopKeeps
  <1>5. CASE Condense \/ Seed \/ Take \/ FinishLevels \/ UNCHANGED vars
    <2>1. UNCHANGED <<GG, search>>
      BY <1>5 DEF Condense, Seed, Take, FinishLevels, vars
    <2>2. stage' # "scc" => frames = <<>>
      BY <1>5 DEF Condense, Seed, Take, FinishLevels, vars, SearchInv, CallsOnStack
    <2> QED BY <2>1, <2>2, OtherKeeps
  <1>6. CASE Begin
    <2>1. PICK file \in Files : Read(file) /\ stage # "scc"
      BY <1>6, FilesAssumption DEF Begin
    <2>2. frames = <<>>
      BY <2>1 DEF SearchInv, CallsOnStack
    <2> QED BY <2>1, <2>2, ReadKeeps
  <1> QED BY <1>1, <1>2, <1>3, <1>4, <1>5, <1>6 DEF Next, Work

\* The inductive invariant, for every file and every object after it.
LEMMA SearchAlways == Spec => []SearchInv
  <1> QED BY SearchStarts, SearchStep, PTL DEF Spec

\* What a node leads to has a number that is no higher than its own.
LEMMA ClosedLeads ==
  ASSUME SearchInv, NEW u \in Nodes, sccno[u] # 0, NEW v \in Nodes, Leads(GG, u, v)
  PROVE  sccno[v] \in 1..sccno[u]
  <1> DEFINE S == {x \in Nodes : sccno[x] \in 1..sccno[u]}
  <1>1. \A x \in Nodes : sccno[x] \in Nat
    BY CallFacts
  <1>2. u \in S /\ S \subseteq DOMAIN GG
    BY <1>1 DEF Nodes
  <1>3. ASSUME NEW x \in S PROVE Range(GG[x]) \subseteq S
    <2> SUFFICES ASSUME NEW k \in DOMAIN GG[x] PROVE GG[x][k] \in S
      BY DEF Range
    <2>1. x \in Nodes /\ sccno[x] \in 1..sccno[u] /\ sccno[x] # 0
      BY <1>1
    <2>2. sccno[GG[x][k]] \in 1..sccno[x]
      BY <2>1 DEF SearchInv, NumberedClosed
    <2>3. GG[x][k] \in Nodes
      BY <2>1, CallFacts
    <2> QED BY <2>1, <2>2, <2>3, <1>1
  <1>4. v \in S
    BY <1>2, <1>3 DEF Leads
  <1> QED BY <1>4

\* The invariant gives what the components promise.
LEMMA InvCloses == SearchInv => ComponentsClosed
  <1> SUFFICES ASSUME SearchInv, NEW u \in Nodes, NEW v \in Nodes, sccno[u] # 0
               PROVE  /\ Reaches(u, v) => sccno[v] \in 1..sccno[u]
                      /\ sccno[v] = sccno[u] <=> Reaches(u, v) /\ Reaches(v, u)
    BY DEF ComponentsClosed
  <1>1. (Reaches(u, v) <=> Leads(GG, u, v)) /\ (Reaches(v, u) <=> Leads(GG, v, u))
    BY ReachesIsLeads
  <1>2. Leads(GG, u, v) => sccno[v] \in 1..sccno[u]
    BY ClosedLeads
  <1>3. sccno[v] # 0 /\ Leads(GG, v, u) => sccno[u] \in 1..sccno[v]
    BY ClosedLeads
  <1>4. sccno[u] \in Nat /\ sccno[v] \in Nat
    BY CallFacts
  <1>5. sccno[v] = sccno[u] => Leads(GG, u, v) /\ Leads(GG, v, u)
    BY DEF SearchInv, NumberedMutual
  <1>6. Leads(GG, u, v) /\ Leads(GG, v, u) => sccno[v] = sccno[u]
    <2> SUFFICES ASSUME Leads(GG, u, v), Leads(GG, v, u) PROVE sccno[v] = sccno[u]
      OBVIOUS
    <2>1. sccno[v] \in 1..sccno[u]
      BY <1>2
    <2>2. sccno[v] # 0
      BY <2>1
    <2>3. sccno[u] \in 1..sccno[v]
      BY <2>2, <1>3
    <2> QED BY <2>1, <2>3, <1>4
  <1> QED BY <1>1, <1>2, <1>5, <1>6

-----------------------------------------------------------------------------
(* Paths in the store while construct() changes it                           *)

\* no edge of E leads back
Acyclic(E, N) == \A e \in E : ~ Joins(E, N, e[2], e[1])

\* E with the node m on all edges from A to B
Detour(E, A, B, m) == (E \ (A \X B)) \cup (A \X {m}) \cup ({m} \X B)

\* E without n, and an edge for each way through it
Bridged(E, N, n) ==
  {e \in E : n \notin {e[1], e[2]}} \cup ({a \in N : <<a, n>> \in E} \X {b \in N : <<n, b>> \in E})

\* A node is joined to itself, to the end of an edge, and on from there.
LEMMA JoinsSelf == ASSUME NEW E, NEW N, NEW x PROVE Joins(E, N, x, x)
  BY DEF Joins

LEMMA JoinsByEdge ==
  ASSUME NEW E, NEW N, NEW x, NEW y, <<x, y>> \in E PROVE Joins(E, N, x, y)
  <1> SUFFICES ASSUME NEW S \in SUBSET N, x \in S, \A e \in E : e[1] \in S => e[2] \in S
               PROVE  y \in S
    BY DEF Joins
  <1>1. PICK e \in E : e = <<x, y>>
    OBVIOUS
  <1> QED BY <1>1

LEMMA JoinsOn ==
  ASSUME NEW E, NEW N, NEW x, NEW y, NEW z, Joins(E, N, x, y), Joins(E, N, y, z)
  PROVE  Joins(E, N, x, z)
  BY DEF Joins

\* A set of nodes that no edge leaves holds what its members are joined to.
LEMMA JoinsStays ==
  ASSUME NEW E, NEW N, NEW S \in SUBSET N, \A e \in E : e[1] \in S => e[2] \in S,
         NEW x \in S, NEW y, Joins(E, N, x, y)
  PROVE  y \in S
  BY DEF Joins

\* A node on some edges joins the same of the others.
LEMMA DetourJoins ==
  ASSUME NEW N, NEW E \in SUBSET (N \X N), NEW m, m \notin N,
         NEW A \in SUBSET N, NEW B \in SUBSET N, A \X B \subseteq E,
         NEW x \in N, NEW y \in N
  PROVE  Joins(Detour(E, A, B, m), N \cup {m}, x, y) <=> Joins(E, N, x, y)
  <1> DEFINE E2 == Detour(E, A, B, m)
  <1>1. \A e \in E : \E a, b \in N : e = <<a, b>>
    OBVIOUS
  <1>2. \A e \in E2 : \/ e \in E \/ (\E a \in A : e = <<a, m>>) \/ (\E b \in B : e = <<m, b>>)
    BY DEF Detour
  <1>3. /\ \A e \in E : e \in E2 \/ \E a \in A, b \in B : e = <<a, b>>
        /\ \A a \in A : <<a, m>> \in E2
        /\ \A b \in B : <<m, b>> \in E2
    BY DEF Detour
  <1> HIDE DEF E2
  <1>4. ASSUME Joins(E, N, x, y) PROVE Joins(E2, N \cup {m}, x, y)
    <2> SUFFICES ASSUME NEW S \in SUBSET (N \cup {m}), x \in S,
                        \A e \in E2 : e[1] \in S => e[2] \in S
                 PROVE  y \in S
      BY DEF Joins
    <2>1. ASSUME NEW e \in E, e[1] \in S \cap N PROVE e[2] \in S \cap N
      <3>1. PICK a \in N, b \in N : e = <<a, b>>
        BY <1>1
      <3>2. CASE e \in E2
        BY <3>1, <3>2, <2>1
      <3>3. CASE a \in A /\ b \in B
        <4>1. <<a, m>> \in E2 /\ <<m, b>> \in E2
          BY <3>3, <1>3
        <4>2. m \in S
          <5>1. <<a, m>>[1] \in S
            BY <3>1, <2>1
          <5>2. <<a, m>>[2] \in S
            BY <5>1, <4>1
          <5> QED BY <5>2
        <4>3. b \in S
          <5>1. <<m, b>>[2] \in S
            BY <4>1, <4>2
          <5> QED BY <5>1
        <4> QED BY <4>3, <3>1
      <3> QED BY <3>1, <3>2, <3>3, <1>3
    <2>2. y \in S \cap N
      BY <2>1, <1>4, JoinsStays
    <2> QED BY <2>2
  <1>5. ASSUME Joins(E2, N \cup {m}, x, y) PROVE Joins(E, N, x, y)
    <2> SUFFICES ASSUME NEW S \in SUBSET N, x \in S, \A e \in E : e[1] \in S => e[2] \in S
                 PROVE  y \in S
      BY DEF Joins
    <2> DEFINE T == S \cup {z \in {m} : A \cap S # {}}
    <2>1. T \in SUBSET (N \cup {m}) /\ x \in T
      OBVIOUS
    <2>2. ASSUME NEW e \in E2, e[1] \in T PROVE e[2] \in T
      <3>1. CASE e \in E
        BY <3>1, <2>2, <1>1
      <3>2. ASSUME NEW a \in A, e = <<a, m>> PROVE e[2] \in T
        BY <3>2, <2>2
      <3>3. ASSUME NEW b \in B, e = <<m, b>> PROVE e[2] \in T
        <4>1. PICK a \in A : a \in S
          BY <3>3, <2>2
        <4>2. <<a, b>> \in E
          OBVIOUS
        <4>3. <<a, b>>[2] \in S
          BY <4>1, <4>2
        <4> QED BY <4>3, <3>3
      <3> QED BY <1>2, <3>1, <3>2, <3>3
    <2>3. y \in T
      <3> HIDE DEF T
      <3> QED BY <2>1, <2>2, <1>5, JoinsStays
    <2> QED BY <2>3
  <1> QED BY <1>4, <1>5 DEF E2

\* It closes no cycle.
LEMMA DetourAcyclic ==
  ASSUME NEW N, NEW E \in SUBSET (N \X N), NEW m, m \notin N,
         NEW A \in SUBSET N, NEW B \in SUBSET N, A \X B \subseteq E, Acyclic(E, N)
  PROVE  Acyclic(Detour(E, A, B, m), N \cup {m})
  <1> DEFINE E2 == Detour(E, A, B, m)
             N2 == N \cup {m}
  <1>1. \A e \in E : \E a, b \in N : e = <<a, b>>
    OBVIOUS
  <1>2. \A e \in E2 : \/ e \in E \/ (\E a \in A : e = <<a, m>>) \/ (\E b \in B : e = <<m, b>>)
    BY DEF Detour
  <1>3. ASSUME NEW a \in A, NEW b \in B PROVE ~ Joins(E, N, b, a)
    <2>1. <<a, b>> \in E
      OBVIOUS
    <2>2. ~ Joins(E, N, <<a, b>>[2], <<a, b>>[1])
      BY <2>1 DEF Acyclic
    <2> QED BY <2>2
  <1>4. \A x, y \in N : Joins(E2, N2, x, y) <=> Joins(E, N, x, y)
    BY DetourJoins
  <1> HIDE DEF E2
  <1>5. ASSUME NEW e \in E PROVE ~ Joins(E2, N2, e[2], e[1])
    BY <1>1, <1>4 DEF Acyclic
  <1>6. ASSUME NEW a \in A PROVE ~ Joins(E2, N2, m, a)
    <2> DEFINE S == {m} \cup {z \in N : \E b \in B : Joins(E, N, b, z)}
    <2>1. S \in SUBSET N2 /\ m \in S /\ a \notin S
      BY <1>3
    <2>2. ASSUME NEW e \in E2, e[1] \in S PROVE e[2] \in S
      <3>1. CASE e \in E
        <4>1. PICK c \in N, d \in N : e = <<c, d>>
          BY <3>1, <1>1
        <4>2. PICK b \in B : Joins(E, N, b, c)
          BY <4>1, <2>2
        <4>3. Joins(E, N, b, d)
          BY <3>1, <4>1, <4>2, JoinsByEdge, JoinsOn
        <4> QED BY <4>1, <4>3
      <3>2. ASSUME NEW c \in A, e = <<c, m>> PROVE e[2] \in S
        BY <3>2
      <3>3. ASSUME NEW b \in B, e = <<m, b>> PROVE e[2] \in S
        BY <3>3, JoinsSelf
      <3> QED BY <1>2, <3>1, <3>2, <3>3
    <2> HIDE DEF S
    <2> QED BY <2>1, <2>2, JoinsStays
  <1>7. ASSUME NEW b \in B PROVE ~ Joins(E2, N2, b, m)
    <2> DEFINE S == {z \in N : Joins(E, N, b, z)}
    <2>1. S \in SUBSET N2 /\ b \in S /\ m \notin S
      BY JoinsSelf
    <2>2. ASSUME NEW e \in E2, e[1] \in S PROVE e[2] \in S
      <3>1. CASE e \in E
        <4>1. PICK c \in N, d \in N : e = <<c, d>>
          BY <3>1, <1>1
        <4>2. Joins(E, N, b, d)
          BY <3>1, <4>1, <2>2, JoinsByEdge, JoinsOn
        <4> QED BY <4>1, <4>2
      <3>2. ASSUME NEW a \in A, e = <<a, m>> PROVE FALSE
        BY <3>2, <2>2, <1>3
      <3>3. ASSUME NEW c \in B, e = <<m, c>> PROVE FALSE
        BY <3>3, <2>2
      <3> QED BY <1>2, <3>1, <3>2, <3>3
    <2> HIDE DEF S
    <2> QED BY <2>1, <2>2, JoinsStays
  <1>8. ASSUME NEW e \in E2 PROVE ~ Joins(E2, N2, e[2], e[1])
    <2>1. CASE e \in E
      BY <2>1, <1>5
    <2>2. ASSUME NEW a \in A, e = <<a, m>> PROVE ~ Joins(E2, N2, e[2], e[1])
      BY <2>2, <1>6
    <2>3. ASSUME NEW b \in B, e = <<m, b>> PROVE ~ Joins(E2, N2, e[2], e[1])
      BY <2>3, <1>7
    <2> QED BY <1>2, <2>1, <2>2, <2>3
  <1> QED BY <1>8 DEF Acyclic, E2

\* The nodes that stay are joined as before.
LEMMA BridgedJoins ==
  ASSUME NEW N, NEW E \in SUBSET (N \X N), NEW n, <<n, n>> \notin E,
         NEW x \in N \ {n}, NEW y \in N \ {n}
  PROVE  Joins(Bridged(E, N, n), N \ {n}, x, y) <=> Joins(E, N, x, y)
  <1> DEFINE E2 == Bridged(E, N, n)
  <1>1. \A e \in E : \E a, b \in N : e = <<a, b>>
    OBVIOUS
  <1>2. \A e \in E2 : \/ e \in E /\ n \notin {e[1], e[2]}
                      \/ \E a, b \in N : e = <<a, b>> /\ <<a, n>> \in E /\ <<n, b>> \in E
    BY DEF Bridged
  <1>3. /\ \A e \in E : n \notin {e[1], e[2]} => e \in E2
        /\ \A a, b \in N : <<a, n>> \in E /\ <<n, b>> \in E => <<a, b>> \in E2
    BY DEF Bridged
  <1> HIDE DEF E2
  <1>4. ASSUME Joins(E, N, x, y) PROVE Joins(E2, N \ {n}, x, y)
    <2> SUFFICES ASSUME NEW S \in SUBSET (N \ {n}), x \in S,
                        \A e \in E2 : e[1] \in S => e[2] \in S
                 PROVE  y \in S
      BY DEF Joins
    <2> DEFINE T == S \cup {z \in {n} : n \in N /\ \E a \in S : <<a, n>> \in E}
    <2>1. T \in SUBSET N /\ x \in T
      OBVIOUS
    <2>2. ASSUME NEW e \in E, e[1] \in T PROVE e[2] \in T
      <3>1. PICK a \in N, b \in N : e = <<a, b>>
        BY <1>1
      <3>2. CASE a = n
        <4>1. b # n
          BY <3>1, <3>2
        <4>2. PICK c \in S : <<c, n>> \in E
          BY <3>1, <3>2, <2>2
        <4>3. <<c, b>> \in E2
          BY <4>2, <3>1, <3>2, <1>3
        <4>4. <<c, b>>[2] \in S
          BY <4>2, <4>3
        <4> QED BY <4>4, <3>1
      <3>3. CASE a # n /\ b = n
        <4>1. a \in S
          BY <3>1, <3>3, <2>2
        <4> QED BY <4>1, <3>1, <3>3
      <3>4. CASE a # n /\ b # n
        BY <3>1, <3>4, <1>3, <2>2
      <3> QED BY <3>2, <3>3, <3>4
    <2>3. y \in T
      <3> HIDE DEF T
      <3> QED BY <2>1, <2>2, <1>4, JoinsStays
    <2> QED BY <2>3
  <1>5. ASSUME Joins(E2, N \ {n}, x, y) PROVE Joins(E, N, x, y)
    <2> SUFFICES ASSUME NEW S \in SUBSET N, x \in S, \A e \in E : e[1] \in S => e[2] \in S
                 PROVE  y \in S
      BY DEF Joins
    <2> DEFINE T == S \ {n}
    <2>1. T \in SUBSET (N \ {n}) /\ x \in T
      OBVIOUS
    <2>2. ASSUME NEW e \in E2, e[1] \in T PROVE e[2] \in T
      <3>1. CASE e \in E /\ n \notin {e[1], e[2]}
        BY <3>1, <2>2
      <3>2. ASSUME NEW a \in N, NEW b \in N, e = <<a, b>>, <<a, n>> \in E, <<n, b>> \in E
            PROVE  e[2] \in T
        <4>1. <<a, n>>[2] \in S
          BY <3>2, <2>2
        <4>2. <<n, b>>[2] \in S
          BY <3>2, <4>1
        <4>3. b # n
          BY <3>2
        <4> QED BY <4>2, <4>3, <3>2
      <3> QED BY <1>2, <3>1, <3>2
    <2>3. y \in T
      <3> HIDE DEF T
      <3> QED BY <2>1, <2>2, <1>5, JoinsStays
    <2> QED BY <2>3
  <1> QED BY <1>4, <1>5 DEF E2

\* And no cycle is closed.
LEMMA BridgedAcyclic ==
  ASSUME NEW N, NEW E \in SUBSET (N \X N), NEW n, Acyclic(E, N)
  PROVE  /\ <<n, n>> \notin E
         /\ Bridged(E, N, n) \subseteq (N \ {n}) \X (N \ {n})
         /\ Acyclic(Bridged(E, N, n), N \ {n})
  <1> DEFINE E2 == Bridged(E, N, n)
  <1>1. \A e \in E : \E a, b \in N : e = <<a, b>>
    OBVIOUS
  <1>2. \A e \in E2 : \/ e \in E /\ n \notin {e[1], e[2]}
                      \/ \E a, b \in N : e = <<a, b>> /\ <<a, n>> \in E /\ <<n, b>> \in E
    BY DEF Bridged
  <1>3. \A a, b : <<a, b>> \in E => ~ Joins(E, N, b, a)
    <2> SUFFICES ASSUME NEW a, NEW b, <<a, b>> \in E PROVE ~ Joins(E, N, b, a)
      OBVIOUS
    <2>1. ~ Joins(E, N, <<a, b>>[2], <<a, b>>[1])
      BY DEF Acyclic
    <2> QED BY <2>1
  <1>4. <<n, n>> \notin E
    BY <1>3, JoinsSelf
  <1> HIDE DEF E2
  <1>5. \A e \in E2 : \E a, b \in N \ {n} : e = <<a, b>>
    <2> SUFFICES ASSUME NEW e \in E2 PROVE \E a, b \in N \ {n} : e = <<a, b>>
      OBVIOUS
    <2>1. CASE e \in E /\ n \notin {e[1], e[2]}
      BY <2>1, <1>1
    <2>2. ASSUME NEW a \in N, NEW b \in N, e = <<a, b>>, <<a, n>> \in E, <<n, b>> \in E
          PROVE  \E c, d \in N \ {n} : e = <<c, d>>
      BY <2>2, <1>4
    <2> QED BY <1>2, <2>1, <2>2
  <1>6. \A x, y \in N \ {n} : Joins(E2, N \ {n}, x, y) <=> Joins(E, N, x, y)
    BY <1>4, BridgedJoins DEF E2
  <1>7. ASSUME NEW e \in E2 PROVE ~ Joins(E2, N \ {n}, e[2], e[1])
    <2>1. PICK a \in N \ {n}, b \in N \ {n} : e = <<a, b>>
      BY <1>5
    <2>2. ~ Joins(E, N, b, a)
      <3>1. CASE e \in E
        BY <3>1, <2>1, <1>3
      <3>2. CASE <<a, n>> \in E /\ <<n, b>> \in E
        <4>1. ~ Joins(E, N, b, n) /\ Joins(E, N, a, n)
          BY <3>2, <1>3, JoinsByEdge
        <4> QED BY <4>1, JoinsOn
      <3> QED BY <2>1, <3>1, <3>2, <1>2
    <2> QED BY <2>1, <2>2, <1>6
  <1> QED BY <1>4, <1>5, <1>7 DEF Acyclic, E2

(***************************************************************************)
(* What construct() keeps: C and X are the components and the edges between *)
(* them, the rest is the store, fa and the labels.                          *)
(***************************************************************************)
KeptTypes(C, R, E, t, f, li, lo) ==
  /\ t \in Nat /\ C \subseteq 0..t - 1 /\ R \subseteq 0..t - 1 /\ E \subseteq R \X R
  /\ f \in [0..t - 1 -> C] /\ \A c \in C : f[c] = c
  /\ li \in [0..t - 1 -> SUBSET (0..t - 1)] /\ lo \in [0..t - 1 -> SUBSET (0..t - 1)]

\* the store joins the components it still has as the file does
KeptJoins(C, X, R, E) ==
  Acyclic(E, R) /\ \A x, y \in R \cap C : Joins(E, R, x, y) <=> Joins(X, C, x, y)

\* an edge of the store is a path between the components of its ends
KeptEdges(C, X, E, f) == \A e \in E : Joins(X, C, f[e[1]], f[e[2]])

KeptLabels(C, X, t, f, li, lo) ==
  \A x \in 0..t - 1 :
    /\ \A y \in li[x] : Joins(X, C, f[x], f[y])
    /\ \A y \in lo[x] : Joins(X, C, f[y], f[x])

Kept(C, X, R, E, t, f, li, lo) ==
  /\ KeptTypes(C, R, E, t, f, li, lo) /\ KeptJoins(C, X, R, E)
  /\ KeptEdges(C, X, E, f) /\ KeptLabels(C, X, t, f, li, lo)

\* A new node before or behind n keeps it.
LEMMA KeptWithNode ==
  ASSUME NEW C, NEW X, NEW R, NEW E, NEW t, NEW f, NEW li, NEW lo,
         Kept(C, X, R, E, t, f, li, lo),
         NEW A \in SUBSET R, NEW B \in SUBSET R, A \X B \subseteq E,
         NEW n \in R, A = {n} \/ B = {n},
         NEW f2, f2 = [x \in 0..t |-> IF x = t THEN f[n] ELSE f[x]],
         NEW li2, li2 = [x \in 0..t |-> IF x = t THEN {} ELSE li[x]],
         NEW lo2, lo2 = [x \in 0..t |-> IF x = t THEN {} ELSE lo[x]]
  PROVE  Kept(C, X, R \cup {t}, Detour(E, A, B, t), t + 1, f2, li2, lo2)
  <1>1. /\ t \in Nat /\ t \notin 0..t - 1 /\ (t + 1) - 1 = t /\ 0..t = (0..t - 1) \cup {t}
        /\ C \subseteq 0..t - 1 /\ R \subseteq 0..t - 1 /\ E \subseteq R \X R
        /\ f \in [0..t - 1 -> C] /\ \A c \in C : f[c] = c
        /\ li \in [0..t - 1 -> SUBSET (0..t - 1)] /\ lo \in [0..t - 1 -> SUBSET (0..t - 1)]
    BY DEF Kept, KeptTypes
  <1>2. t \notin R /\ t \notin C
    BY <1>1
  <1>3. \A e \in Detour(E, A, B, t) : \/ e \in E \/ (\E a \in A : e = <<a, t>>) \/ (\E b \in B : e = <<t, b>>)
    BY DEF Detour
  <1>4. f2[t] = f[n] /\ \A x \in 0..t - 1 : f2[x] = f[x]
    BY <1>1
  <1>5. KeptTypes(C, R \cup {t}, Detour(E, A, B, t), t + 1, f2, li2, lo2)
    <2>1. Detour(E, A, B, t) \subseteq (R \cup {t}) \X (R \cup {t})
      BY <1>1 DEF Detour
    <2>2. f2 \in [0..t -> C] /\ \A c \in C : f2[c] = c
      BY <1>1
    <2>3. li2 \in [0..t -> SUBSET (0..t)] /\ lo2 \in [0..t -> SUBSET (0..t)]
      BY <1>1
    <2>4. t + 1 \in Nat /\ C \subseteq 0..t /\ R \cup {t} \subseteq 0..t
      BY <1>1
    <2> QED BY <1>1, <2>1, <2>2, <2>3, <2>4 DEF KeptTypes
  <1>6. KeptJoins(C, X, R \cup {t}, Detour(E, A, B, t))
    <2>1. Acyclic(E, R)
      BY DEF Kept, KeptJoins
    <2>2. Acyclic(Detour(E, A, B, t), R \cup {t})
      BY <1>1, <1>2, <2>1, DetourAcyclic
    <2>3. \A x, y \in R : Joins(Detour(E, A, B, t), R \cup {t}, x, y) <=> Joins(E, R, x, y)
      BY <1>1, <1>2, DetourJoins
    <2> QED BY <1>2, <2>2, <2>3 DEF Kept, KeptJoins
  <1>7. KeptEdges(C, X, Detour(E, A, B, t), f2)
    <2> SUFFICES ASSUME NEW e \in Detour(E, A, B, t) PROVE Joins(X, C, f2[e[1]], f2[e[2]])
      BY DEF KeptEdges
    <2>1. \A a \in R, b \in R : <<a, b>> \in E => Joins(X, C, f[a], f[b])
      <3> SUFFICES ASSUME NEW a \in R, NEW b \in R, <<a, b>> \in E PROVE Joins(X, C, f[a], f[b])
        OBVIOUS
      <3>1. Joins(X, C, f[<<a, b>>[1]], f[<<a, b>>[2]])
        BY DEF Kept, KeptEdges
      <3> QED BY <3>1
    <2>2. CASE e \in E
      <3>1. PICK a \in R, b \in R : e = <<a, b>>
        <4>1. e \in R \X R
          BY <2>2, <1>1
        <4> QED BY <4>1
      <3> QED BY <3>1, <2>1, <2>2, <1>1, <1>4
    <2>3. ASSUME NEW a \in A, e = <<a, t>> PROVE Joins(X, C, f2[e[1]], f2[e[2]])
      <3>1. f2[a] = f[a]
        BY <1>1, <1>4
      <3>2. Joins(X, C, f[a], f[n])
        BY <2>1, JoinsSelf
      <3> QED BY <2>3, <3>1, <3>2, <1>4
    <2>4. ASSUME NEW b \in B, e = <<t, b>> PROVE Joins(X, C, f2[e[1]], f2[e[2]])
      <3>1. f2[b] = f[b]
        BY <1>1, <1>4
      <3>2. Joins(X, C, f[n], f[b])
        BY <2>1, JoinsSelf
      <3> QED BY <2>4, <3>1, <3>2, <1>4
    <2> QED BY <1>3, <2>2, <2>3, <2>4
  <1>8. KeptLabels(C, X, t + 1, f2, li2, lo2)
    <2>1. \A x \in 0..t - 1 : /\ \A y \in li[x] : y \in 0..t - 1 /\ Joins(X, C, f[x], f[y])
                              /\ \A y \in lo[x] : y \in 0..t - 1 /\ Joins(X, C, f[y], f[x])
      BY <1>1 DEF Kept, KeptLabels
    <2>2. \A x \in 0..t : /\ \A y \in li2[x] : x # t /\ y \in li[x]
                          /\ \A y \in lo2[x] : x # t /\ y \in lo[x]
      BY <1>1
    <2>3. \A x \in 0..t : /\ \A y \in li2[x] : Joins(X, C, f2[x], f2[y])
                          /\ \A y \in lo2[x] : Joins(X, C, f2[y], f2[x])
      BY <1>1, <1>4, <2>1, <2>2
    <2> QED BY <1>1, <2>3 DEF KeptLabels
  <1> QED BY <1>5, <1>6, <1>7, <1>8 DEF Kept

\* Folding n keeps it, with the labels of its neighbours in those of n.
LEMMA KeptWithoutNode ==
  ASSUME NEW C, NEW X, NEW R, NEW E, NEW t, NEW f, NEW li, NEW lo,
         Kept(C, X, R, E, t, f, li, lo), NEW n,
         NEW li2, li2 = [x \in 0..t - 1 |-> li2[x]], NEW lo2, lo2 = [x \in 0..t - 1 |-> lo2[x]],
         \A x \in 0..t - 1 :
           /\ \A y \in li2[x] : y \in li[x] \/ \E m \in R : x = n /\ <<n, m>> \in E /\ y \in li[m]
           /\ \A y \in lo2[x] : y \in lo[x] \/ \E m \in R : x = n /\ <<m, n>> \in E /\ y \in lo[m]
  PROVE  Kept(C, X, R \ {n}, Bridged(E, R, n), t, f, li2, lo2)
  <1>1. /\ t \in Nat /\ C \subseteq 0..t - 1 /\ R \subseteq 0..t - 1 /\ E \subseteq R \X R
        /\ f \in [0..t - 1 -> C] /\ \A c \in C : f[c] = c
        /\ li \in [0..t - 1 -> SUBSET (0..t - 1)] /\ lo \in [0..t - 1 -> SUBSET (0..t - 1)]
    BY DEF Kept, KeptTypes
  <1>2. Acyclic(E, R)
    BY DEF Kept, KeptJoins
  <1>3. /\ <<n, n>> \notin E /\ Bridged(E, R, n) \subseteq (R \ {n}) \X (R \ {n})
        /\ Acyclic(Bridged(E, R, n), R \ {n})
    BY <1>1, <1>2, BridgedAcyclic
  <1>4. \A a \in R, b \in R : <<a, b>> \in E => Joins(X, C, f[a], f[b])
    <2> SUFFICES ASSUME NEW a \in R, NEW b \in R, <<a, b>> \in E PROVE Joins(X, C, f[a], f[b])
      OBVIOUS
    <2>1. Joins(X, C, f[<<a, b>>[1]], f[<<a, b>>[2]])
      BY DEF Kept, KeptEdges
    <2> QED BY <2>1
  <1>5. \A a, b : <<a, b>> \in E => a \in R /\ b \in R
    BY <1>1
  <1>6. \A x \in 0..t - 1 : /\ \A y \in li[x] : y \in 0..t - 1 /\ Joins(X, C, f[x], f[y])
                            /\ \A y \in lo[x] : y \in 0..t - 1 /\ Joins(X, C, f[y], f[x])
    BY <1>1 DEF Kept, KeptLabels
  <1>8. KeptTypes(C, R \ {n}, Bridged(E, R, n), t, f, li2, lo2)
    <2>1. DOMAIN li2 = 0..t - 1 /\ DOMAIN lo2 = 0..t - 1
      BY <1>1
    <2>2. \A x \in 0..t - 1 : li2[x] \subseteq 0..t - 1 /\ lo2[x] \subseteq 0..t - 1
      BY <1>1, <1>6
    <2>3. li2 \in [0..t - 1 -> SUBSET (0..t - 1)] /\ lo2 \in [0..t - 1 -> SUBSET (0..t - 1)]
      BY <2>1, <2>2
    <2> QED BY <1>1, <1>3, <2>3 DEF KeptTypes
  <1>9. KeptJoins(C, X, R \ {n}, Bridged(E, R, n))
    <2>1. \A x, y \in R \ {n} : Joins(Bridged(E, R, n), R \ {n}, x, y) <=> Joins(E, R, x, y)
      BY <1>1, <1>3, BridgedJoins
    <2> QED BY <1>3, <2>1 DEF Kept, KeptJoins
  <1>10. KeptEdges(C, X, Bridged(E, R, n), f)
    <2> SUFFICES ASSUME NEW e \in Bridged(E, R, n) PROVE Joins(X, C, f[e[1]], f[e[2]])
      BY DEF KeptEdges
    <2>1. CASE e \in E
      BY <2>1 DEF Kept, KeptEdges
    <2>2. ASSUME NEW a \in R, NEW b \in R, e = <<a, b>>, <<a, n>> \in E, <<n, b>> \in E
          PROVE  Joins(X, C, f[e[1]], f[e[2]])
      <3>1. Joins(X, C, f[a], f[n]) /\ Joins(X, C, f[n], f[b])
        BY <2>2, <1>4, <1>5
      <3>2. Joins(X, C, f[a], f[b])
        BY <3>1, JoinsOn
      <3> QED BY <2>2, <3>2
    <2> QED BY <2>1, <2>2 DEF Bridged
  <1>11. KeptLabels(C, X, t, f, li2, lo2)
    <2> SUFFICES ASSUME NEW x \in 0..t - 1
                 PROVE  /\ \A y \in li2[x] : Joins(X, C, f[x], f[y])
                        /\ \A y \in lo2[x] : Joins(X, C, f[y], f[x])
      BY DEF KeptLabels
    <2>1. ASSUME NEW y \in li2[x] PROVE Joins(X, C, f[x], f[y])
      <3>1. ASSUME NEW m \in R, x = n, <<n, m>> \in E, y \in li[m] PROVE Joins(X, C, f[x], f[y])
        <4>1. Joins(X, C, f[n], f[m]) /\ Joins(X, C, f[m], f[y])
          BY <3>1, <1>1, <1>4, <1>5, <1>6
        <4> QED BY <4>1, <3>1, JoinsOn
      <3> QED BY <2>1, <3>1, <1>6
    <2>2. ASSUME NEW y \in lo2[x] PROVE Joins(X, C, f[y], f[x])
      <3>1. ASSUME NEW m \in R, x = n, <<m, n>> \in E, y \in lo[m] PROVE Joins(X, C, f[y], f[x])
        <4>1. Joins(X, C, f[m], f[n]) /\ Joins(X, C, f[y], f[m])
          BY <3>1, <1>1, <1>4, <1>5, <1>6
        <4> QED BY <4>1, <3>1, JoinsOn
      <3> QED BY <2>2, <3>1, <1>6
    <2> QED BY <2>1, <2>2
  <1> QED BY <1>8, <1>9, <1>10, <1>11 DEF Kept

\* Joining labels keeps it.
LEMMA KeptJoined ==
  ASSUME NEW C, NEW X, NEW R, NEW E, NEW t, NEW f, NEW li, NEW lo,
         Kept(C, X, R, E, t, f, li, lo), NEW i
  PROVE  Kept(C, X, R, E, t, f, Joined(li, i), Joined(lo, i))
  <1> DEFINE li2 == Joined(li, i)
             lo2 == Joined(lo, i)
  <1>1. /\ li \in [0..t - 1 -> SUBSET (0..t - 1)] /\ lo \in [0..t - 1 -> SUBSET (0..t - 1)]
    BY DEF Kept, KeptTypes
  <1>2. \A x \in 0..t - 1 : /\ \A y \in li[x] : y \in 0..t - 1 /\ Joins(X, C, f[x], f[y])
                            /\ \A y \in lo[x] : y \in 0..t - 1 /\ Joins(X, C, f[y], f[x])
    BY <1>1 DEF Kept, KeptLabels
  <1>3. ASSUME NEW x \in 0..t - 1
        PROVE  /\ \A y \in li2[x] : y \in li[x] \/ \E m \in li[x] : y \in li[m]
               /\ \A y \in lo2[x] : y \in lo[x] \/ \E m \in lo[x] : y \in lo[m]
    <2>1. CASE x = i
      BY <2>1, <1>1 DEF Joined
    <2>2. CASE x # i
      <3>1. li2[x] = li[x] /\ lo2[x] = lo[x]
        BY <2>2, <1>1 DEF Joined
      <3> QED BY <3>1
    <2> QED BY <2>1, <2>2
  <1>4. DOMAIN li2 = 0..t - 1 /\ DOMAIN lo2 = 0..t - 1 /\ li2 = [x \in 0..t - 1 |-> li2[x]]
        /\ lo2 = [x \in 0..t - 1 |-> lo2[x]]
    BY <1>1 DEF Joined
  <1> HIDE DEF li2, lo2
  <1>5. KeptTypes(C, R, E, t, f, li2, lo2)
    <2>1. \A x \in 0..t - 1 : li2[x] \subseteq 0..t - 1 /\ lo2[x] \subseteq 0..t - 1
      BY <1>2, <1>3
    <2>2. li2 \in [0..t - 1 -> SUBSET (0..t - 1)] /\ lo2 \in [0..t - 1 -> SUBSET (0..t - 1)]
      BY <1>4, <2>1
    <2> QED BY <2>2 DEF Kept, KeptTypes
  <1>6. KeptLabels(C, X, t, f, li2, lo2)
    <2> SUFFICES ASSUME NEW x \in 0..t - 1
                 PROVE  /\ \A y \in li2[x] : Joins(X, C, f[x], f[y])
                        /\ \A y \in lo2[x] : Joins(X, C, f[y], f[x])
      BY DEF KeptLabels
    <2>1. ASSUME NEW y \in li2[x] PROVE Joins(X, C, f[x], f[y])
      <3>1. ASSUME NEW m \in li[x], y \in li[m] PROVE Joins(X, C, f[x], f[y])
        BY <3>1, <1>2, JoinsOn
      <3> QED BY <2>1, <3>1, <1>2, <1>3
    <2>2. ASSUME NEW y \in lo2[x] PROVE Joins(X, C, f[y], f[x])
      <3>1. ASSUME NEW m \in lo[x], y \in lo[m] PROVE Joins(X, C, f[y], f[x])
        BY <3>1, <1>2, JoinsOn
      <3> QED BY <2>2, <3>1, <1>2, <1>3
    <2> QED BY <2>1, <2>2
  <1>7. KeptJoins(C, X, R, E) /\ KeptEdges(C, X, E, f)
    BY DEF Kept
  <1> QED BY <1>5, <1>6, <1>7 DEF Kept, li2, lo2

\* And so does naming components instead of nodes.
LEMMA KeptRenamed ==
  ASSUME NEW C, NEW X, NEW R, NEW E, NEW t, NEW f, NEW li, NEW lo,
         Kept(C, X, R, E, t, f, li, lo),
         NEW li2, li2 = [x \in DOMAIN li |-> IF x \in C THEN {f[y] : y \in li[x]} ELSE li[x]],
         NEW lo2, lo2 = [x \in DOMAIN lo |-> IF x \in C THEN {f[y] : y \in lo[x]} ELSE lo[x]]
  PROVE  Kept(C, X, R, E, t, f, li2, lo2)
  <1>1. /\ t \in Nat /\ C \subseteq 0..t - 1 /\ f \in [0..t - 1 -> C] /\ \A c \in C : f[c] = c
        /\ li \in [0..t - 1 -> SUBSET (0..t - 1)] /\ lo \in [0..t - 1 -> SUBSET (0..t - 1)]
    BY DEF Kept, KeptTypes
  <1>2. \A x \in 0..t - 1 : /\ \A y \in li[x] : y \in 0..t - 1 /\ Joins(X, C, f[x], f[y])
                            /\ \A y \in lo[x] : y \in 0..t - 1 /\ Joins(X, C, f[y], f[x])
    BY <1>1 DEF Kept, KeptLabels
  <1>3. ASSUME NEW x \in 0..t - 1
        PROVE  /\ \A y \in li2[x] : y \in 0..t - 1 /\ \E z \in li[x] : f[y] = f[z]
               /\ \A y \in lo2[x] : y \in 0..t - 1 /\ \E z \in lo[x] : f[y] = f[z]
    <2>1. CASE x \in C
      <3>1. li2[x] = {f[y] : y \in li[x]} /\ lo2[x] = {f[y] : y \in lo[x]}
        BY <2>1, <1>1
      <3>2. \A y \in 0..t - 1 : f[y] \in C /\ f[y] \in 0..t - 1 /\ f[f[y]] = f[y]
        BY <1>1
      <3> QED BY <3>1, <3>2, <1>2
    <2>2. CASE x \notin C
      <3>1. li2[x] = li[x] /\ lo2[x] = lo[x]
        BY <2>2, <1>1
      <3> QED BY <3>1, <1>2
    <2> QED BY <2>1, <2>2
  <1>4. DOMAIN li2 = 0..t - 1 /\ DOMAIN lo2 = 0..t - 1 /\ li2 = [x \in 0..t - 1 |-> li2[x]]
        /\ lo2 = [x \in 0..t - 1 |-> lo2[x]]
    BY <1>1
  <1>5. KeptTypes(C, R, E, t, f, li2, lo2)
    <2>1. \A x \in 0..t - 1 : li2[x] \subseteq 0..t - 1 /\ lo2[x] \subseteq 0..t - 1
      BY <1>3
    <2>2. li2 \in [0..t - 1 -> SUBSET (0..t - 1)] /\ lo2 \in [0..t - 1 -> SUBSET (0..t - 1)]
      BY <1>4, <2>1
    <2> QED BY <2>2 DEF Kept, KeptTypes
  <1>6. KeptLabels(C, X, t, f, li2, lo2)
    BY <1>2, <1>3 DEF KeptLabels
  <1>7. KeptJoins(C, X, R, E) /\ KeptEdges(C, X, E, f)
    BY DEF Kept
  <1> QED BY <1>5, <1>6, <1>7 DEF Kept

-----------------------------------------------------------------------------
(* What the search leaves behind                                             *)

\* every node before root was visited, all of them when the search is over
Numbering ==
  /\ \E c \in Nat : Nodes = 0..c - 1
  /\ \A u \in Nodes : u < root => pre[u] # 0
  /\ stage \in {"sort", "levels", "done"} => root \notin Nodes
  /\ stage \in {"levels", "done"} => DOMAIN tln = Components

\* No object has read a file yet.
LEMMA NumberingStarts == Init => Numbering
  <1> SUFFICES ASSUME Init PROVE Numbering
    OBVIOUS
  <1>1. Nodes = {} /\ 0 \in Nat /\ {} = 0..0 - 1
    BY DEF Init, Nodes
  <1>2. \E c \in Nat : Nodes = 0..c - 1
    BY <1>1
  <1> QED BY <1>1, <1>2 DEF Init, Numbering

\* find_scc() leaves no node out.
LEMMA NumberingStep == SearchInv /\ Numbering /\ [Next]_vars => Numbering'
  <1> SUFFICES ASSUME SearchInv, Numbering, [Next]_vars PROVE Numbering'
    OBVIOUS
  <1>1. /\ \A x \in Nodes : pre[x] \in Nat
        /\ pre \in [Nodes -> Nat] /\ dfs_clock \in Nat /\ root \in Nat
    BY DEF SearchInv, SearchTypes
  <1>2. ASSUME NEW v, Visit(v) PROVE \A u \in Nodes : (pre[u] # 0 \/ u = v) => pre'[u] # 0
    BY <1>1, <1>2 DEF Visit
  <1>3. CASE Work \/ UNCHANGED vars
    <2>1. GG' = GG /\ Nodes' = Nodes /\ \E c \in Nat : Nodes' = 0..c - 1
      <3>1. GG' = GG
        BY <1>3 DEF Work, TryRoot, Descend, Seen, Return, Condense, Seed, Take, FinishLevels, vars
      <3> QED BY <3>1 DEF Nodes, Numbering
    <2>2. CASE TryRoot
      <3>1. stage = "scc" /\ stage' = "scc" /\ root' = root + 1 /\ root \in Nodes
        BY <2>2 DEF TryRoot
      <3>2. pre[root] = 0 => Visit(root)
        BY <2>2 DEF TryRoot
      <3>3. pre[root] # 0 => pre' = pre
        BY <2>2 DEF TryRoot
      <3>4. \A u \in Nodes : u \in Int
        BY DEF Numbering
      <3>5. \A u \in Nodes : u < root + 1 => pre'[u] # 0
        <4> SUFFICES ASSUME NEW u \in Nodes, u < root + 1 PROVE pre'[u] # 0
          OBVIOUS
        <4>1. u < root \/ u = root
          BY <3>4, <1>1
        <4>2. pre[u] # 0 \/ u = root
          BY <4>1 DEF Numbering
        <4> QED BY <4>2, <3>2, <3>3, <1>2
      <3> QED BY <2>1, <3>1, <3>5 DEF Numbering
    <2>3. CASE Descend
      <3>1. stage = "scc" /\ stage' = "scc" /\ root' = root /\ Visit(v0)
        BY <2>3 DEF Descend, Looking
      <3> QED BY <2>1, <3>1, <1>2 DEF Numbering
    <2>4. CASE Seen \/ Return
      <3>1. stage = "scc" /\ stage' = "scc" /\ root' = root /\ pre' = pre
        BY <2>4 DEF Seen, Looking, Return
      <3> QED BY <2>1, <3>1 DEF Numbering
    <2>5. CASE Condense
      <3>1. stage' = "sort" /\ root' = root /\ pre' = pre /\ root \notin Nodes
        BY <2>5 DEF Condense, search
      <3> QED BY <2>1, <3>1 DEF Numbering
    <2>6. CASE Seed \/ Take \/ FinishLevels
      <3>1. /\ stage \in {"sort", "levels", "done"} /\ root' = root /\ pre' = pre
            /\ scc_cnt' = scc_cnt /\ Components' = Components
        BY <2>6 DEF Seed, Take, FinishLevels, search, Components
      <3>2. DOMAIN tln' = Components
        <4>1. CASE Seed
          BY <4>1 DEF Seed
        <4>2. CASE Take
          BY <4>2 DEF Take
        <4>3. CASE FinishLevels
          BY <4>3 DEF FinishLevels, Numbering
        <4> QED BY <2>6, <4>1, <4>2, <4>3
      <3> QED BY <2>1, <3>1, <3>2 DEF Numbering
    <2>7. CASE UNCHANGED vars
      <3>1. /\ stage' = stage /\ root' = root /\ pre' = pre /\ tln' = tln
            /\ Components' = Components
        BY <2>7 DEF vars, search, sorting, Components
      <3> QED BY <2>1, <3>1 DEF Numbering
    <2> QED BY <1>3, <2>2, <2>3, <2>4, <2>5, <2>6, <2>7 DEF Work
  <1>4. CASE Begin
    <2>1. PICK file \in Files : Read(file)
      BY <1>4, FilesAssumption DEF Begin
    <2>2. /\ stage' = "scc" /\ root' = 0
          /\ Nodes' = 0..Cardinality(ids(file)) - 1
      BY <2>1 DEF Read, Nodes, Adjacency
    <2>3. Cardinality(ids(file)) \in Nat
      BY IdsFinite
    <2>4. \A u \in Nodes' : ~ (u < root')
      BY <2>2, <2>3
    <2> QED BY <2>2, <2>3, <2>4 DEF Numbering
  <1> QED BY <1>3, <1>4 DEF Next

\* When an object is done its search is over.
LEMMA SearchOver == ASSUME SearchInv, Numbering, stage = "done" PROVE frames = <<>> /\ root \notin Nodes
  BY DEF SearchInv, CallsOnStack, Numbering

\* After the search every node is in a component.
LEMMA AllNumbered ==
  ASSUME SearchInv, Numbering, frames = <<>>, root \notin Nodes
  PROVE  /\ \A u \in Nodes : sccno[u] \in 1..scc_cnt
         /\ scc_cnt \in Nat
  <1>1. stack = <<>>
    BY DEF SearchInv, StackIsOpen
  <1>2. Range(stack) = {}
    BY <1>1 DEF Range
  <1>3. \A u \in Nodes : pre[u] # 0
    <2>1. PICK c \in Nat : Nodes = 0..c - 1
      BY DEF Numbering
    <2>2. root \notin Nodes /\ root \in Nat
      BY DEF SearchInv, SearchTypes
    <2>3. \A u \in Nodes : u < root
      BY <2>1, <2>2
    <2> QED BY <2>3 DEF Numbering
  <1>4. \A u \in Nodes : sccno[u] # 0
    BY <1>2, <1>3 DEF SearchInv, StackIsOpen
  <1>5. scc_cnt \in Nat /\ \A u \in Nodes : sccno[u] \in Nat /\ sccno[u] <= scc_cnt
    BY DEF SearchInv, SearchTypes, Numbered
  <1> QED BY <1>4, <1>5

\* An edge between components leads to a lower number, so that none is on a cycle.
LEMMA CrossingAcyclic ==
  ASSUME SearchInv, Numbering, stage = "done"
  PROVE  Crossing \in SUBSET (Components \X Components) /\ Acyclic(Crossing, Components)
  <1>1. scc_cnt \in Nat /\ \A u \in Nodes : sccno[u] \in 1..scc_cnt
    BY SearchOver, AllNumbered
  <1>2. ASSUME NEW e \in Crossing
        PROVE  \E a, b \in Components : e = <<a, b>> /\ b < a
    <2>1. PICK u \in Nodes :
            e \in {sccno[u] - 1} \X ({sccno[v] - 1 : v \in Range(GG[u])} \ {sccno[u] - 1})
      BY <1>2 DEF Crossing
    <2>2. PICK v \in Range(GG[u]) : e = <<sccno[u] - 1, sccno[v] - 1>> /\ sccno[v] - 1 # sccno[u] - 1
      BY <2>1
    <2>3. sccno[u] \in 1..scc_cnt
      BY <1>1
    <2>4. sccno[v] \in 1..sccno[u]
      <3>1. PICK k \in DOMAIN GG[u] : GG[u][k] = v
        BY DEF Range
      <3>2. sccno[u] # 0
        BY <2>3
      <3> QED BY <3>1, <3>2 DEF SearchInv, NumberedClosed
    <2>5. sccno[u] - 1 \in Components /\ sccno[v] - 1 \in Components /\ sccno[v] - 1 < sccno[u] - 1
      BY <1>1, <2>2, <2>3, <2>4 DEF Components
    <2> QED BY <2>2, <2>5
  <1>3. ASSUME NEW e \in Crossing PROVE ~ Joins(Crossing, Components, e[2], e[1])
    <2>1. PICK a \in Components, b \in Components : e = <<a, b>> /\ b < a
      BY <1>2
    <2> DEFINE S == {z \in Components : z <= b}
    <2>2. S \in SUBSET Components /\ b \in S /\ a \notin S
      BY <2>1, <1>1 DEF Components
    <2>3. ASSUME NEW d \in Crossing, d[1] \in S PROVE d[2] \in S
      <3>1. PICK x \in Components, y \in Components : d = <<x, y>> /\ y < x
        BY <1>2
      <3>2. x \in Int /\ y \in Int /\ b \in Int
        BY <1>1 DEF Components
      <3> QED BY <3>1, <3>2, <2>3
    <2> HIDE DEF S
    <2> QED BY <2>1, <2>2, <2>3, JoinsStays
  <1>4. Crossing \in SUBSET (Components \X Components)
    BY <1>2
  <1> QED BY <1>3, <1>4 DEF Acyclic

-----------------------------------------------------------------------------
(* Counting: how often an edge leads to a component                          *)

\* the positions of y in s
Places(y, s) == {i \in DOMAIN s : s[i] = y}
\* those among the first i positions
TimesUpTo(y, s, i) == Cardinality({k \in 1..i : s[k] = y})

\* The numbers up to l are l.
LEMMA UpTo == ASSUME NEW l \in Nat PROVE IsFiniteSet(1..l) /\ Cardinality(1..l) = l
  <1>1. IsFiniteSet(1..l) /\ Cardinality(1..l) = IF 1 > l THEN 0 ELSE l - 1 + 1
    BY FS_Interval
  <1> QED BY <1>1

\* A sequence has finitely many places, none exactly for what is not in it.
LEMMA PlacesCount ==
  ASSUME NEW T, NEW s \in Seq(T), NEW y
  PROVE  /\ IsFiniteSet(Places(y, s)) /\ Times(y, s) = Cardinality(Places(y, s)) /\ Times(y, s) \in Nat
         /\ Times(y, s) = 0 <=> y \notin Range(s)
  <1> PICK l \in Nat : l = Len(s)
    BY LenProperties
  <1>1. DOMAIN s = 1..l
    BY LenProperties
  <1>2. Places(y, s) \subseteq 1..l
    BY <1>1 DEF Places
  <1>3. IsFiniteSet(1..l)
    BY UpTo
  <1>4. IsFiniteSet(Places(y, s)) /\ Cardinality(Places(y, s)) \in Nat
    BY <1>2, <1>3, FS_Subset, FS_CardinalityType
  <1>5. Times(y, s) = Cardinality(Places(y, s))
    BY DEF Times, Places
  <1>6. Cardinality(Places(y, s)) = 0 <=> Places(y, s) = {}
    BY <1>4, FS_EmptySet
  <1>7. Places(y, s) = {} <=> y \notin Range(s)
    BY DEF Places, Range
  <1> QED BY <1>4, <1>5, <1>6, <1>7

\* What Take compares a count with: the places up to one.
LEMMA PrefixTimes ==
  ASSUME NEW T, NEW s \in Seq(T), NEW y, NEW i \in DOMAIN s
  PROVE  Times(y, SubSeq(s, 1, i)) = TimesUpTo(y, s, i)
  <1> PICK l \in Nat : l = Len(s)
    BY LenProperties
  <1>1. DOMAIN s = 1..l /\ i \in 1..l
    BY LenProperties
  <1>2. DOMAIN SubSeq(s, 1, i) = 1..i /\ \A k \in 1..i : SubSeq(s, 1, i)[k] = s[k]
    BY <1>1
  <1>3. {k \in DOMAIN SubSeq(s, 1, i) : SubSeq(s, 1, i)[k] = y} = {k \in 1..i : s[k] = y}
    BY <1>2
  <1> QED BY <1>3 DEF Times, TimesUpTo

\* They grow at each of the places, from one at the first to all at the last.
LEMMA TimesGrow ==
  ASSUME NEW T, NEW s \in Seq(T), NEW y
  PROVE  /\ \A i \in DOMAIN s : TimesUpTo(y, s, i) \in Nat /\ TimesUpTo(y, s, i) <= Times(y, s)
         /\ \A i \in Places(y, s) : TimesUpTo(y, s, i) > 0
         /\ \A i, j \in Places(y, s) : i < j => TimesUpTo(y, s, i) < TimesUpTo(y, s, j)
         /\ y \in Range(s) => \E i \in Places(y, s) : TimesUpTo(y, s, i) = Times(y, s)
  <1> PICK l \in Nat : l = Len(s)
    BY LenProperties
  <1>1. DOMAIN s = 1..l
    BY LenProperties
  <1> DEFINE P == Places(y, s)
             upTo(i) == {k \in 1..i : s[k] = y}
  <1>2. P = {k \in 1..l : s[k] = y} /\ IsFiniteSet(P) /\ Cardinality(P) = Times(y, s) /\ Times(y, s) \in Nat
    BY <1>1, PlacesCount DEF Places
  <1>3. ASSUME NEW i \in 1..l
        PROVE  /\ IsFiniteSet(upTo(i)) /\ Cardinality(upTo(i)) = TimesUpTo(y, s, i)
               /\ TimesUpTo(y, s, i) \in Nat /\ TimesUpTo(y, s, i) <= Times(y, s)
    <2>1. upTo(i) \subseteq P
      BY <1>2
    <2>2. Cardinality(upTo(i)) = TimesUpTo(y, s, i)
      BY DEF TimesUpTo
    <2> HIDE DEF P, upTo
    <2> QED BY <1>2, <2>1, <2>2, FS_Subset, FS_CardinalityType
  <1>4. ASSUME NEW i \in P PROVE TimesUpTo(y, s, i) > 0
    <2>1. i \in 1..l /\ i \in upTo(i)
      BY <1>2
    <2> HIDE DEF P, upTo
    <2>2. Cardinality(upTo(i)) # 0
      BY <1>3, <2>1, FS_EmptySet
    <2> QED BY <1>3, <2>1, <2>2
  <1>5. ASSUME NEW i \in P, NEW j \in P, i < j
        PROVE  TimesUpTo(y, s, i) < TimesUpTo(y, s, j)
    <2>1. i \in 1..l /\ j \in 1..l
      BY <1>2
    <2>2. upTo(i) \subseteq upTo(j) /\ j \in upTo(j) /\ j \notin upTo(i)
      BY <1>2, <1>5
    <2> HIDE DEF P, upTo
    <2>3. Cardinality(upTo(i)) <= Cardinality(upTo(j)) /\ Cardinality(upTo(i)) # Cardinality(upTo(j))
      BY <1>3, <2>1, <2>2, FS_Subset
    <2> QED BY <1>3, <2>1, <2>3
  <1>6. ASSUME y \in Range(s) PROVE \E i \in P : TimesUpTo(y, s, i) = Times(y, s)
    <2> DEFINE after(i) == l - i
               D == {d \in Nat : \E i \in P : d = l - i}
    <2>1. P # {} /\ P \subseteq 1..l
      BY <1>2, <1>6, <1>1 DEF Range
    <2>2. \E d : d \in D
      BY <2>1
    <2> HIDE DEF P
    <2>3. D \subseteq Nat /\ D # {}
      BY <2>2
    <2>4. PICK d \in D : \A m \in D : ~ <<m, d>> \in OpToRel(<, Nat)
      BY <2>3, NatLessThanWellFounded, WFMin
    <2>5. \A m \in D : ~ (m < d)
      BY <2>3, <2>4 DEF OpToRel
    <2>6. PICK i \in P : d = l - i
      OBVIOUS
    <2>7. \A k \in P : k <= i
      <3> TAKE k \in P
      <3>1. k \in 1..l /\ i \in 1..l
        BY <2>1
      <3>2. l - k \in D
        <4>1. l - k \in Nat /\ \E j \in P : l - k = l - j
          BY <3>1
        <4> QED BY <4>1
      <3>3. ~ (l - k < l - i)
        BY <2>5, <2>6, <3>2
      <3> QED BY <3>1, <3>3
    <2>8. i \in 1..l /\ upTo(i) = P
      BY <1>2, <2>1, <2>7 DEF P
    <2> QED BY <1>2, <1>3, <2>8
  <1> HIDE DEF P, upTo
  <1> QED BY <1>1, <1>3, <1>4, <1>5, <1>6 DEF P

\* The edges of H from the nodes N into c.
Into(H, N, c) == {e \in UNION {{b} \X DOMAIN H[b] : b \in N} : H[e[1]][e[2]] = c}

\* The graph of the components: an edge leads to a lower number.
Descends(H, n) ==
  /\ H \in [0..n - 1 -> Seq(0..n - 1)]
  /\ \A b \in 0..n - 1 : \A c \in Range(H[b]) : c < b

\* They are finitely many, and none where c is in no list.
LEMMA IntoCounted ==
  ASSUME NEW n \in Nat, NEW H, Descends(H, n), NEW N, N \subseteq 0..n - 1, NEW c
  PROVE  /\ IsFiniteSet(Into(H, N, c)) /\ Cardinality(Into(H, N, c)) \in Nat
         /\ Cardinality(Into(H, N, c)) = 0 => \A b \in N : c \notin Range(H[b])
         /\ (\A b \in N : c \notin Range(H[b])) => Cardinality(Into(H, N, c)) = 0
  <1>1. \A b \in N : H[b] \in Seq(0..n - 1)
    BY DEF Descends
  <1>2. IsFiniteSet(N)
    <2>1. IsFiniteSet(0..n - 1)
      BY FS_Interval
    <2> QED BY <2>1, FS_Subset
  <1> DEFINE ends(b) == {b} \X DOMAIN H[b]
             all == {ends(b) : b \in N}
  <1>3. IsFiniteSet(all)
    <2> HIDE DEF ends
    <2> DEFINE f == [b \in N |-> ends(b)]
    <2>1. f \in [N -> all] /\ \A t \in all : \E b \in N : f[b] = t
      OBVIOUS
    <2> HIDE DEF f, all
    <2>2. f \in Surjection(N, all)
      BY <2>1, Fun_IsSurj
    <2> QED BY <1>2, <2>2, FS_Surjection
  <1>4. ASSUME NEW b \in N PROVE IsFiniteSet(ends(b))
    <2>1. IsFiniteSet(DOMAIN H[b])
      <3> PICK l \in Nat : l = Len(H[b])
        BY <1>1, LenProperties
      <3>1. DOMAIN H[b] = 1..l
        BY <1>1, LenProperties
      <3>2. IsFiniteSet(1..l)
        BY UpTo
      <3> QED BY <3>1, <3>2
    <2>2. IsFiniteSet({b})
      BY FS_Singleton
    <2> QED BY <2>1, <2>2, FS_Product
  <1>5. IsFiniteSet(UNION all)
    <2> HIDE DEF ends
    <2>1. \A t \in all : IsFiniteSet(t)
      BY <1>4
    <2> HIDE DEF all
    <2> QED BY <1>3, <2>1, FS_UNION
  <1>6. Into(H, N, c) \subseteq UNION all
    BY DEF Into
  <1>7. IsFiniteSet(Into(H, N, c)) /\ Cardinality(Into(H, N, c)) \in Nat
    <2> HIDE DEF all
    <2> QED BY <1>5, <1>6, FS_Subset, FS_CardinalityType
  <1>8. Cardinality(Into(H, N, c)) = 0 <=> Into(H, N, c) = {}
    BY <1>7, FS_EmptySet
  <1>9. Into(H, N, c) = {} <=> \A b \in N : c \notin Range(H[b])
    <2>1. \A b \in N : \A i \in DOMAIN H[b] : H[b][i] = c => <<b, i>> \in Into(H, N, c)
      BY DEF Into
    <2>2. \A e \in Into(H, N, c) : \E b \in N : c \in Range(H[b])
      BY DEF Into, Range
    <2>3. \A b \in N : c \in Range(H[b]) => \E i \in DOMAIN H[b] : H[b][i] = c
      BY DEF Range
    <2> QED BY <2>1, <2>2, <2>3
  <1> QED BY <1>7, <1>8, <1>9

\* What N has more of them than K is as many as c is in the list s.
CountedApart(H, N, K, c, s) == Cardinality(Into(H, N, c)) = Cardinality(Into(H, K, c)) + Times(c, s)

\* Those of x are as many as c is in its list.
LEMMA IntoOneLess ==
  ASSUME NEW n \in Nat, NEW H, Descends(H, n), NEW N, N \subseteq 0..n - 1, NEW c, NEW x \in N,
         NEW K, K = N \ {x}, NEW s, s = H[x]
  PROVE  CountedApart(H, N, K, c, s)
  <1>h. H[x] \in Seq(0..n - 1)
    BY DEF Descends
  <1>f. IsFiniteSet(Into(H, N, c))
    BY IntoCounted
  <1> DEFINE own == {x} \X Places(c, H[x])
             rest == Into(H, N \ {x}, c)
  <1>1. IsFiniteSet(Places(c, H[x])) /\ Cardinality(Places(c, H[x])) = Times(c, H[x]) /\ Times(c, H[x]) \in Nat
    BY <1>h, PlacesCount
  <1>2. IsFiniteSet({x}) /\ Cardinality({x}) = 1
    BY FS_Singleton
  <1>3. IsFiniteSet(own) /\ Cardinality(own) = Cardinality({x}) * Cardinality(Places(c, H[x]))
    BY <1>1, <1>2, FS_Product
  <1>4. Cardinality(own) = Times(c, H[x])
    <2> PICK t \in Nat : t = Cardinality(Places(c, H[x]))
      BY <1>1
    <2>1. Cardinality(own) = 1 * t
      BY <1>2, <1>3
    <2> QED BY <1>1, <2>1
  <1>5. Into(H, N, c) = rest \cup own
    <2>1. \A e : e \in own <=> \E i \in DOMAIN H[x] : e = <<x, i>> /\ H[x][i] = c
      <3>1. \A i : i \in Places(c, H[x]) <=> i \in DOMAIN H[x] /\ H[x][i] = c
        BY DEF Places
      <3> QED BY <3>1
    <2>2. \A e : e \in rest <=> \E b \in N \ {x} : \E i \in DOMAIN H[b] : e = <<b, i>> /\ H[b][i] = c
      BY DEF Into
    <2>3. \A e : e \in Into(H, N, c) <=> \E b \in N : \E i \in DOMAIN H[b] : e = <<b, i>> /\ H[b][i] = c
      BY DEF Into
    <2> HIDE DEF own, rest
    <2>4. rest \subseteq Into(H, N, c) /\ own \subseteq Into(H, N, c)
      <3>1. ASSUME NEW e \in rest PROVE e \in Into(H, N, c)
        <4>1. PICK b \in N \ {x} : \E i \in DOMAIN H[b] : e = <<b, i>> /\ H[b][i] = c
          BY <2>2, <3>1
        <4>2. b \in N
          BY <4>1
        <4> QED BY <4>1, <4>2, <2>3
      <3>2. ASSUME NEW e \in own PROVE e \in Into(H, N, c)
        BY <2>1, <2>3, <3>2
      <3> QED BY <3>1, <3>2
    <2>5. ASSUME NEW e \in Into(H, N, c) PROVE e \in rest \/ e \in own
      <3>1. PICK b \in N : \E i \in DOMAIN H[b] : e = <<b, i>> /\ H[b][i] = c
        BY <2>3
      <3>2. CASE b = x
        BY <3>1, <3>2, <2>1
      <3>3. CASE b # x
        <4>1. b \in N \ {x}
          BY <3>3
        <4> QED BY <3>1, <4>1, <2>2
      <3> QED BY <3>2, <3>3
    <2> QED BY <2>4, <2>5
  <1>6. rest \cap own = {}
    <2>1. \A e \in rest : \E b \in N \ {x} : e[1] = b
      BY DEF Into
    <2> QED BY <2>1
  <1>7. IsFiniteSet(rest) /\ Cardinality(rest) \in Nat
    <2>1. rest \subseteq Into(H, N, c)
      BY <1>5
    <2> HIDE DEF rest
    <2> QED BY <2>1, <1>f, FS_Subset, FS_CardinalityType
  <1> HIDE DEF own, rest
  <1>8. Cardinality(rest \cap own) = 0
    BY <1>6, FS_EmptySet
  <1>9. Cardinality(Into(H, N, c)) = Cardinality(rest) + Cardinality(own) - Cardinality(rest \cap own)
    BY <1>3, <1>5, <1>7, FS_Union
  <1>10. Cardinality(Into(H, N, c)) = Cardinality(rest) + Times(c, H[x])
    BY <1>1, <1>4, <1>7, <1>8, <1>9
  <1>11. Cardinality(Into(H, N, c)) = Cardinality(Into(H, N \ {x}, c)) + Times(c, H[x])
    BY <1>10 DEF rest
  <1> QED BY <1>11 DEF CountedApart

-----------------------------------------------------------------------------
(* Steps of toposort()                                                       *)

\* The components taken from the queue: nothing is left to lead to them.
Taken(N, d, q) == {c \in N : d[c] = 0 /\ c \notin Range(q)}

\* The queue holds components with no count left, each once.
Queued(N, d, q) ==
  /\ q \in Seq(N) /\ IsInjective(q)
  /\ \A c \in Range(q) : d[c] = 0

\* A count is of the edges from what is not taken yet.
CountsLeft(H, N, M, d, q) ==
  /\ d \in [0..M - 1 -> Nat]
  /\ \A c \in 0..M - 1 : d[c] = Cardinality(Into(H, N \ Taken(N, d, q), c))

\* A level is above those taken with an edge to it, and not without reason.
Placed(H, N, d, q, t) ==
  /\ t \in [N -> Nat]
  /\ \A c \in N : d[c] = 0 => t[c] > 0
  /\ \A b \in Taken(N, d, q), c \in N : c \in Range(H[b]) => t[b] < t[c]
  /\ \A c \in N :
       \/ (t[c] = 0 /\ d[c] # 0) \/ (t[c] = 1 /\ d[c] = 0)
       \/ \E b \in Taken(N, d, q) : c \in Range(H[b]) /\ t[c] = t[b] + 1

\* The counts are at least of the edges listed in s.
Enough(d, N, s) == \A y \in N : d[y] \in Nat /\ Times(y, s) <= d[y]

\* z is what s has at the places at, in the order of a; there a count is reached.
CollectsBy(z, n, a, at, s) ==
  /\ z = [i \in 1..n |-> s[a[i]]] /\ \A i \in 1..n : a[i] \in at
  /\ \A i, j \in 1..n : a[i] = a[j] => i = j
  /\ \A k \in at : \E i \in 1..n : a[i] = k

\* z is what s has at the places at, in some order.
Collects(z, at, s) == \E n \in Nat : \E a : CollectsBy(z, n, a, at, s)

\* at are the places of s at which a count is reached.
ReachedAt(at, N, s, d) ==
  /\ \A k \in at : k \in DOMAIN s /\ s[k] \in N /\ d[s[k]] = TimesUpTo(s[k], s, k)
  /\ \A k \in DOMAIN s : d[s[k]] = TimesUpTo(s[k], s, k) => k \in at

\* What a list of the places has at which a count is reached.
LEMMA ClearedList ==
  ASSUME NEW N, NEW s \in Seq(N), NEW d, Enough(d, N, s),
         NEW at, NEW z, ReachedAt(at, N, s, d), Collects(z, at, s)
  PROVE  /\ z \in Seq(N) /\ IsInjective(z)
         /\ \A y \in N : y \in Range(z) <=> d[y] # 0 /\ d[y] = Times(y, s)
  <1> PICK l \in Nat : l = Len(s)
    BY LenProperties
  <1> PICK n \in Nat : \E a : CollectsBy(z, n, a, at, s)
    BY DEF Collects
  <1> PICK a : CollectsBy(z, n, a, at, s)
    OBVIOUS
  <1>l. DOMAIN s = 1..l
    BY LenProperties
  <1>0. /\ \A k \in at : k \in 1..l /\ s[k] \in N /\ d[s[k]] = TimesUpTo(s[k], s, k)
        /\ \A k \in 1..l : d[s[k]] = TimesUpTo(s[k], s, k) => k \in at
        /\ DOMAIN z = 1..n /\ \A i \in 1..n : z[i] = s[a[i]] /\ a[i] \in at
        /\ \A i, j \in 1..n : a[i] = a[j] => i = j
        /\ \A k \in at : \E i \in 1..n : a[i] = k
    BY <1>l DEF ReachedAt, CollectsBy
  <1>1. z \in Seq(N)
    <2>1. \A i \in 1..n : z[i] \in N
      BY <1>0
    <2>2. z = [i \in 1..n |-> s[a[i]]]
      BY DEF CollectsBy
    <2>3. \A i \in 1..n : s[a[i]] \in N
      BY <1>0
    <2> QED BY <2>2, <2>3
  <1>2. ASSUME NEW i \in at, NEW j \in at, s[i] = s[j], i < j PROVE FALSE
    <2> PICK y \in N : y = s[i]
      BY <1>0
    <2>1. i \in Places(y, s) /\ j \in Places(y, s)
      BY <1>l, <1>0, <1>2 DEF Places
    <2>2. TimesUpTo(y, s, i) < TimesUpTo(y, s, j)
      BY <1>2, <2>1, TimesGrow
    <2>3. d[y] = TimesUpTo(y, s, i) /\ d[y] = TimesUpTo(y, s, j)
      BY <1>0, <1>2
    <2>4. d[y] \in Nat
      BY DEF Enough
    <2> QED BY <2>2, <2>3, <2>4
  <1>3. \A i, j \in at : s[i] = s[j] => i = j
    <2> SUFFICES ASSUME NEW i \in at, NEW j \in at, s[i] = s[j], i # j PROVE FALSE
      OBVIOUS
    <2>1. i < j \/ j < i
      BY <1>0
    <2> QED BY <1>2, <2>1
  <1>4. IsInjective(z)
    <2> SUFFICES ASSUME NEW i \in 1..n, NEW j \in 1..n, z[i] = z[j] PROVE i = j
      BY <1>0 DEF IsInjective
    <2>1. a[i] \in at /\ a[j] \in at /\ s[a[i]] = s[a[j]]
      BY <1>0
    <2>2. a[i] = a[j]
      BY <1>3, <2>1
    <2> QED BY <1>0, <2>2
  <1>5. ASSUME NEW y \in N, y \in Range(z) PROVE d[y] # 0 /\ d[y] = Times(y, s)
    <2>1. PICK i \in 1..n : z[i] = y
      BY <1>0, <1>5 DEF Range
    <2>2. PICK k \in at : s[k] = y
      BY <1>0, <2>1
    <2>3. k \in Places(y, s) /\ k \in DOMAIN s /\ d[y] = TimesUpTo(y, s, k)
      BY <1>l, <1>0, <2>2 DEF Places
    <2>4. TimesUpTo(y, s, k) > 0 /\ TimesUpTo(y, s, k) \in Nat /\ TimesUpTo(y, s, k) <= Times(y, s)
      BY <2>3, TimesGrow
    <2>5. Times(y, s) \in Nat /\ Times(y, s) <= d[y] /\ d[y] \in Nat
      BY PlacesCount DEF Enough
    <2> QED BY <2>3, <2>4, <2>5
  <1>6. ASSUME NEW y \in N, d[y] # 0, d[y] = Times(y, s) PROVE y \in Range(z)
    <2>1. y \in Range(s)
      BY <1>6, PlacesCount
    <2>2. PICK k \in Places(y, s) : TimesUpTo(y, s, k) = Times(y, s)
      BY <2>1, TimesGrow
    <2>3. k \in 1..l /\ s[k] = y
      BY <1>l, <1>0, <2>2 DEF Places
    <2>4. k \in at
      BY <1>0, <1>6, <2>2, <2>3
    <2>5. PICK i \in 1..n : a[i] = k
      BY <1>0, <2>4
    <2>6. z[i] = y
      BY <1>0, <2>3, <2>5
    <2> QED BY <1>0, <2>6 DEF Range
  <1> QED BY <1>1, <1>4, <1>5, <1>6

\* What Take appends to the queue: the components it brings to 0, by their last edges.
Clears(z, d, s) ==
  LET cleared == Ascending({i \in DOMAIN s : d[s[i]] = Times(s[i], SubSeq(s, 1, i))})
  IN  z = [i \in DOMAIN cleared |-> s[cleared[i]]]

\* Take appends each of the components whose count it brings to 0 once.
LEMMA ClearedOnce ==
  ASSUME NEW N, NEW s \in Seq(N), NEW d, Enough(d, N, s), NEW z, Clears(z, d, s)
  PROVE  /\ z \in Seq(N) /\ IsInjective(z)
         /\ \A y \in N : y \in Range(z) <=> d[y] # 0 /\ d[y] = Times(y, s)
  <1> PICK l \in Nat : l = Len(s)
    BY LenProperties
  <1>1. DOMAIN s = 1..l /\ \A i \in 1..l : s[i] \in N
    BY LenProperties, ElementOfSeq
  <1> DEFINE at == {i \in DOMAIN s : d[s[i]] = Times(s[i], SubSeq(s, 1, i))}
             a == Ascending(at)
             n == Cardinality(at)
  <1>2. at = {i \in 1..l : d[s[i]] = TimesUpTo(s[i], s, i)}
    BY <1>1, PrefixTimes
  <1>z. z = [i \in DOMAIN a |-> s[a[i]]]
    BY DEF Clears
  <1> HIDE DEF at
  <1>3. IsFiniteSet(at) /\ at \subseteq Int
    <2>1. at \subseteq 1..l /\ at \subseteq Int
      BY <1>2
    <2>2. IsFiniteSet(1..l)
      BY FS_Interval
    <2> QED BY <2>1, <2>2, FS_Subset
  <1>4. /\ n \in Nat /\ a \in [1..n -> at] /\ DOMAIN a = 1..n
        /\ \A i, j \in 1..n : a[i] = a[j] => i = j
        /\ \A k \in at : \E i \in 1..n : a[i] = k
    BY <1>3, ListedAscending
  <1>5. z = [i \in 1..n |-> s[a[i]]] /\ \A i \in 1..n : a[i] \in at
    BY <1>4, <1>z
  <1>6. ReachedAt(at, N, s, d)
    BY <1>1, <1>2 DEF ReachedAt
  <1> HIDE DEF a, n
  <1>7. CollectsBy(z, n, a, at, s)
    BY <1>4, <1>5 DEF CollectsBy
  <1>8. Collects(z, at, s)
    BY <1>4, <1>7 DEF Collects
  <1> QED BY <1>6, <1>8, ClearedList

\* A queue with its first taken and more behind it, place by place.
Shifts(r, q, l, z, m) ==
  /\ DOMAIN q = 1..l + 1 /\ DOMAIN z = 1..m /\ DOMAIN r = 1..l + m
  /\ \A i \in 1..l : r[i] = q[i + 1]
  /\ \A i \in 1..m : r[l + i] = z[i]

\* No two places of it are the same, and it has lost only the first.
LEMMA QueueShifts ==
  ASSUME NEW l \in Nat, NEW m \in Nat, NEW q, NEW z, NEW r, Shifts(r, q, l, z, m),
         IsInjective(q), IsInjective(z), Range(z) \cap Range(q) = {}
  PROVE  /\ IsInjective(r)
         /\ Range(r) = (Range(q) \ {q[1]}) \cup Range(z)
  <1>0. /\ DOMAIN q = 1..l + 1 /\ DOMAIN z = 1..m /\ DOMAIN r = 1..l + m
        /\ \A i \in 1..l : r[i] = q[i + 1]
        /\ \A i \in 1..m : r[l + i] = z[i]
        /\ \A i, j \in 1..l + 1 : q[i] = q[j] => i = j
        /\ \A i, j \in 1..m : z[i] = z[j] => i = j
    BY DEF Shifts, IsInjective
  <1>1. \A i \in 1..l + m : \/ i \in 1..l /\ i + 1 \in 1..l + 1 /\ r[i] = q[i + 1]
                            \/ i > l /\ i - l \in 1..m /\ r[i] = z[i - l]
    <2> SUFFICES ASSUME NEW i \in 1..l + m
                 PROVE  \/ i \in 1..l /\ i + 1 \in 1..l + 1 /\ r[i] = q[i + 1]
                        \/ i > l /\ i - l \in 1..m /\ r[i] = z[i - l]
      OBVIOUS
    <2>1. CASE i <= l
      <3>1. i \in 1..l
        BY <2>1
      <3> QED BY <1>0, <3>1
    <2>2. CASE i > l
      <3>1. i - l \in 1..m /\ l + (i - l) = i
        BY <2>2
      <3>2. r[l + (i - l)] = z[i - l]
        BY <1>0, <3>1
      <3> QED BY <2>2, <3>1, <3>2
    <2> QED BY <2>1, <2>2
  <1>2. \A i \in 1..m : z[i] \in Range(z)
    BY <1>0 DEF Range
  <1>3. \A i \in 1..l + 1 : q[i] \in Range(q)
    BY <1>0 DEF Range
  <1>4. \A i, j \in 1..l + m : r[i] = r[j] => i = j
    <2> SUFFICES ASSUME NEW i \in 1..l + m, NEW j \in 1..l + m, r[i] = r[j] PROVE i = j
      OBVIOUS
    <2>1. CASE i \in 1..l /\ i + 1 \in 1..l + 1 /\ r[i] = q[i + 1]
      <3>1. CASE j \in 1..l /\ j + 1 \in 1..l + 1 /\ r[j] = q[j + 1]
        <4>1. i + 1 = j + 1
          BY <1>0, <2>1, <3>1
        <4> QED BY <4>1
      <3>2. CASE j > l /\ j - l \in 1..m /\ r[j] = z[j - l]
        BY <1>2, <1>3, <2>1, <3>2
      <3> QED BY <1>1, <3>1, <3>2
    <2>2. CASE i > l /\ i - l \in 1..m /\ r[i] = z[i - l]
      <3>1. CASE j \in 1..l /\ j + 1 \in 1..l + 1 /\ r[j] = q[j + 1]
        BY <1>2, <1>3, <2>2, <3>1
      <3>2. CASE j > l /\ j - l \in 1..m /\ r[j] = z[j - l]
        <4>1. i - l = j - l
          BY <1>0, <2>2, <3>2
        <4> QED BY <4>1
      <3> QED BY <1>1, <3>1, <3>2
    <2> QED BY <1>1, <2>1, <2>2
  <1>5. \A i \in 1..l + m : r[i] \in (Range(q) \ {q[1]}) \cup Range(z)
    <2> SUFFICES ASSUME NEW i \in 1..l + m PROVE r[i] \in (Range(q) \ {q[1]}) \cup Range(z)
      OBVIOUS
    <2>1. CASE i \in 1..l /\ i + 1 \in 1..l + 1 /\ r[i] = q[i + 1]
      <3>1. q[i + 1] # q[1]
        BY <1>0, <2>1
      <3> QED BY <1>3, <2>1, <3>1
    <2>2. CASE i > l /\ i - l \in 1..m /\ r[i] = z[i - l]
      BY <1>2, <2>2
    <2> QED BY <1>1, <2>1, <2>2
  <1>6. \A i \in 1..l + m : r[i] \in Range(r)
    BY <1>0 DEF Range
  <1>7. ASSUME NEW i \in 1..l + 1, q[i] # q[1] PROVE q[i] \in Range(r)
    <2>1. i - 1 \in 1..l /\ i - 1 \in 1..l + m /\ (i - 1) + 1 = i
      BY <1>7
    <2>2. r[i - 1] = q[(i - 1) + 1]
      BY <1>0, <2>1
    <2> QED BY <1>6, <2>1, <2>2
  <1>8. ASSUME NEW i \in 1..m PROVE z[i] \in Range(r)
    <2>1. l + i \in 1..l + m /\ r[l + i] = z[i]
      BY <1>0
    <2> QED BY <1>6, <2>1
  <1>9. Range(r) \subseteq (Range(q) \ {q[1]}) \cup Range(z)
    BY <1>0, <1>5 DEF Range
  <1>10. Range(q) \ {q[1]} \subseteq Range(r)
    BY <1>0, <1>7 DEF Range
  <1>11. Range(z) \subseteq Range(r)
    BY <1>0, <1>8 DEF Range
  <1>12. IsInjective(r)
    BY <1>0, <1>4 DEF IsInjective
  <1> QED BY <1>12, <1>9, <1>10, <1>11

\* A queue with its first taken and more behind it.
LEMMA QueueMoves ==
  ASSUME NEW N, NEW q \in Seq(N), q # <<>>, NEW z \in Seq(N), NEW r, r = Tail(q) \o z,
         IsInjective(q), IsInjective(z), Range(z) \cap Range(q) = {}
  PROVE  /\ r \in Seq(N) /\ IsInjective(r)
         /\ Head(q) \in N /\ Head(q) \in Range(q) /\ Range(r) = (Range(q) \ {Head(q)}) \cup Range(z)
  <1>1. Tail(q) \in Seq(N) /\ Len(q) = Len(Tail(q)) + 1 /\ \A i \in 1..Len(Tail(q)) : Tail(q)[i] = q[i + 1]
    <2> PICK k \in Nat : k = Len(q) /\ k > 0
      BY LenProperties, EmptySeq
    <2>1. Tail(q) \in Seq(N) /\ Len(Tail(q)) = k - 1 /\ \A i \in 1..k - 1 : Tail(q)[i] = q[i + 1]
      BY HeadTailProperties
    <2> QED BY <2>1
  <1> PICK p \in Seq(N) : p = Tail(q) /\ Len(q) = Len(p) + 1 /\ \A i \in 1..Len(p) : p[i] = q[i + 1]
    BY <1>1
  <1> PICK l \in Nat : l = Len(p)
    BY LenProperties
  <1> PICK m \in Nat : m = Len(z)
    BY LenProperties
  <1>2. DOMAIN q = 1..l + 1 /\ DOMAIN z = 1..m /\ \A i \in 1..l : p[i] = q[i + 1]
    BY LenProperties
  <1>3. Head(q) = q[1] /\ q[1] \in N /\ q[1] \in Range(q)
    BY <1>2 DEF Range
  <1>4. r \in Seq(N) /\ Len(r) = l + m /\ DOMAIN r = 1..l + m
    <2>1. r = p \o z
      OBVIOUS
    <2> QED BY <2>1, ConcatProperties
  <1>5. /\ \A i \in 1..l : r[i] = p[i]
        /\ \A i \in 1..m : r[l + i] = z[i]
    <2>1. r = p \o z
      OBVIOUS
    <2> QED BY <2>1
  <1>6. \A i \in 1..l : r[i] = q[i + 1]
    BY <1>2, <1>5
  <1>7. Shifts(r, q, l, z, m)
    BY <1>2, <1>4, <1>5, <1>6 DEF Shifts
  <1>8. /\ IsInjective(r)
        /\ Range(r) = (Range(q) \ {q[1]}) \cup Range(z)
    BY <1>7, QueueShifts
  <1> QED BY <1>3, <1>4, <1>8

\* The first of the queue is taken, and what it clears goes behind.
Moves(H, d, q, x, d1, q1) ==
  /\ q # <<>> /\ x = Head(q)
  /\ d1 = [y \in DOMAIN d |-> d[y] - Times(y, H[x])]
  /\ \E z : Clears(z, d, H[x]) /\ q1 = Tail(q) \o z

\* A count that gets to 0 is of an edge of the list, and one that is 0 stays.
Lowers(d, d1, N, s) ==
  \A y \in N : /\ d1[y] = 0 => d[y] = 0 \/ y \in Range(s)
               /\ d[y] = 0 => d1[y] = 0 /\ y \notin Range(s)

\* Take keeps the counts, and takes nothing but the first of the queue.
LEMMA TakeCounts ==
  ASSUME NEW n \in Nat, NEW M \in Nat, n <= M, NEW H, Descends(H, n), NEW d, NEW q, NEW x, NEW d1, NEW q1,
         Queued(0..n - 1, d, q), CountsLeft(H, 0..n - 1, M, d, q), Moves(H, d, q, x, d1, q1)
  PROVE  /\ Queued(0..n - 1, d1, q1) /\ CountsLeft(H, 0..n - 1, M, d1, q1)
         /\ x \in 0..n - 1 /\ d[x] = 0 /\ x \notin Taken(0..n - 1, d, q)
         /\ Taken(0..n - 1, d1, q1) = Taken(0..n - 1, d, q) \cup {x}
         /\ Lowers(d, d1, 0..n - 1, H[x])
  <1> DEFINE N == 0..n - 1
             T == Taken(N, d, q)
  <1>1. H \in [N -> Seq(N)] /\ \A b \in N : H[b] \in Seq(N)
    BY DEF Descends
  <1>2. /\ q \in Seq(N) /\ IsInjective(q) /\ q # <<>> /\ x = Head(q)
        /\ \A c \in Range(q) : d[c] = 0
    BY DEF Queued, Moves
  <1>3. x \in N /\ x \in Range(q) /\ d[x] = 0 /\ x \notin T
    <2>1. Head(q) \in N /\ Head(q) \in Range(q)
      <3> PICK l \in Nat : l = Len(q) /\ l # 0
        BY <1>2, LenProperties, EmptySeq
      <3>1. 1 \in DOMAIN q /\ Head(q) = q[1] /\ Head(q) \in N
        BY <1>2, LenProperties, HeadTailProperties
      <3> QED BY <3>1 DEF Range
    <2> QED BY <1>2, <2>1 DEF Taken
  <1> PICK s \in Seq(N) : s = H[x]
    BY <1>1, <1>3
  <1> PICK z : Clears(z, d, s) /\ q1 = Tail(q) \o z
    BY DEF Moves
  <1>4. /\ d \in [0..M - 1 -> Nat] /\ N \subseteq 0..M - 1
        /\ \A c \in 0..M - 1 : d[c] = Cardinality(Into(H, N \ T, c))
        /\ DOMAIN d1 = 0..M - 1 /\ \A c \in 0..M - 1 : d1[c] = d[c] - Times(c, s)
    <2>1. N \subseteq 0..M - 1
      OBVIOUS
    <2>2. d \in [0..M - 1 -> Nat] /\ \A c \in 0..M - 1 : d[c] = Cardinality(Into(H, N \ T, c))
      BY DEF CountsLeft
    <2>3. d1 = [y \in DOMAIN d |-> d[y] - Times(y, s)]
      BY DEF Moves
    <2>4. DOMAIN d = 0..M - 1
      BY <2>2
    <2> HIDE DEF N, T
    <2> QED BY <2>1, <2>2, <2>3, <2>4
  <1>5. N \ T \subseteq N /\ x \in N \ T
    BY <1>3
  <1>6. ASSUME NEW c \in 0..M - 1
        PROVE  /\ d[c] = Cardinality(Into(H, (N \ T) \ {x}, c)) + Times(c, s)
               /\ d1[c] = Cardinality(Into(H, (N \ T) \ {x}, c)) /\ d1[c] \in Nat
               /\ Times(c, s) \in Nat /\ d[c] \in Nat /\ Times(c, s) <= d[c]
    <2> PICK L : L = N \ T
      OBVIOUS
    <2>0. L \subseteq 0..n - 1 /\ x \in L
      BY <1>5
    <2> HIDE DEF N, T
    <2> PICK K : K = L \ {x}
      OBVIOUS
    <2>1. Cardinality(Into(H, L, c)) = Cardinality(Into(H, K, c)) + Times(c, s)
      <3>1. CountedApart(H, L, K, c, s)
        BY <2>0, IntoOneLess
      <3> QED BY <3>1 DEF CountedApart
    <2>2. K \subseteq 0..n - 1
      BY <2>0
    <2>3. Cardinality(Into(H, K, c)) \in Nat
      BY <2>2, IntoCounted
    <2>4. Times(c, s) \in Nat
      BY PlacesCount
    <2>5. d[c] = Cardinality(Into(H, L, c)) /\ d1[c] = d[c] - Times(c, s)
      BY <1>4
    <2>6. /\ d[c] = Cardinality(Into(H, K, c)) + Times(c, s) /\ d1[c] = Cardinality(Into(H, K, c))
          /\ d1[c] \in Nat /\ Times(c, s) \in Nat /\ d[c] \in Nat /\ Times(c, s) <= d[c]
      BY <2>1, <2>3, <2>4, <2>5
    <2>7. Into(H, K, c) = Into(H, (N \ T) \ {x}, c)
      OBVIOUS
    <2> QED BY <2>6, <2>7
  <1> HIDE DEF T
  <1>7. Enough(d, N, s)
    BY <1>4, <1>6 DEF Enough
  <1>8. z \in Seq(N) /\ IsInjective(z) /\ \A y \in N : y \in Range(z) <=> d[y] # 0 /\ d1[y] = 0
    <2>1. z \in Seq(N) /\ IsInjective(z) /\ \A y \in N : y \in Range(z) <=> d[y] # 0 /\ d[y] = Times(y, s)
      BY <1>7, ClearedOnce
    <2> QED BY <1>4, <1>6, <2>1
  <1>9. Range(z) \subseteq N
    BY <1>8 DEF Range
  <1>10. Range(z) \cap Range(q) = {}
    BY <1>2, <1>8, <1>9
  <1>11. q1 \in Seq(N) /\ IsInjective(q1) /\ Range(q1) = (Range(q) \ {x}) \cup Range(z)
    <2> HIDE DEF N
    <2> QED BY <1>2, <1>8, <1>10, QueueMoves
  <1>12. \A y \in N : /\ d1[y] = 0 => d[y] = 0 \/ y \in Range(s)
                      /\ d[y] = 0 => d1[y] = 0 /\ y \notin Range(s)
    <2> SUFFICES ASSUME NEW y \in N
                 PROVE  /\ d1[y] = 0 => d[y] = 0 \/ y \in Range(s)
                        /\ d[y] = 0 => d1[y] = 0 /\ y \notin Range(s)
      OBVIOUS
    <2>1. Times(y, s) = 0 <=> y \notin Range(s)
      BY PlacesCount
    <2>2. y \in 0..M - 1
      BY <1>4
    <2>3. d1[y] = d[y] - Times(y, s) /\ d1[y] \in Nat /\ Times(y, s) \in Nat /\ d[y] \in Nat
      BY <1>4, <1>6, <2>2
    <2> QED BY <2>1, <2>3
  <1>13. Range(q) \subseteq N
    BY <1>2 DEF Range
  <1>14. Queued(N, d1, q1)
    <2>1. \A c \in Range(q1) : d1[c] = 0
      BY <1>2, <1>8, <1>9, <1>11, <1>12, <1>13
    <2> QED BY <1>11, <2>1 DEF Queued
  <1>15. Taken(N, d1, q1) = T \cup {x}
    <2>1. \A c : c \in Taken(N, d1, q1) <=> c \in N /\ d1[c] = 0 /\ c \notin Range(q1)
      BY DEF Taken
    <2>2. \A c : c \in T <=> c \in N /\ d[c] = 0 /\ c \notin Range(q)
      BY DEF Taken, T
    <2>3. ASSUME NEW c \in N PROVE c \in Taken(N, d1, q1) <=> c \in T \cup {x}
      <3>1. CASE d[c] = 0
        <4>1. d1[c] = 0 /\ c \notin Range(z)
          BY <1>8, <1>12, <3>1
        <4> QED BY <1>11, <2>1, <2>2, <3>1, <4>1
      <3>2. CASE d[c] # 0
        BY <1>3, <1>8, <1>11, <2>1, <2>2, <3>2
      <3> QED BY <3>1, <3>2
    <2> QED BY <1>3, <2>1, <2>2, <2>3
  <1>16. N \ (T \cup {x}) = (N \ T) \ {x}
    OBVIOUS
  <1>17. CountsLeft(H, N, M, d1, q1)
    <2>1. d1 = [y \in 0..M - 1 |-> d[y] - Times(y, H[x])]
      BY <1>4 DEF Moves
    <2>2. d1 \in [0..M - 1 -> Nat]
      BY <1>4, <1>6, <2>1
    <2> QED BY <1>6, <1>15, <1>16, <2>2 DEF CountsLeft
  <1>18. Lowers(d, d1, N, s)
    BY <1>12 DEF Lowers
  <1> QED BY <1>3, <1>14, <1>15, <1>17, <1>18 DEF T

\* The level an edge of x raises y to.
RaisedBy(t, x, y) == IF t[y] > t[x] + 1 THEN t[y] ELSE t[x] + 1

\* The levels are right for what was taken when they are for what was before it.
LEMMA TakePlaces ==
  ASSUME NEW N, NEW H, NEW d, NEW q, NEW t, Placed(H, N, d, q, t),
         NEW x \in N, d[x] = 0, NEW d1, NEW q1, Range(H[x]) \subseteq N,
         Taken(N, d1, q1) = Taken(N, d, q) \cup {x},
         Lowers(d, d1, N, H[x]),
         NEW t1, t1 = [y \in N |-> IF y \in Range(H[x]) THEN RaisedBy(t, x, y) ELSE t[y]]
  PROVE  Placed(H, N, d1, q1, t1)
  <1> DEFINE T == Taken(N, d, q)
  <1>0. \A y \in N : /\ d1[y] = 0 => d[y] = 0 \/ y \in Range(H[x])
                     /\ d[y] = 0 => d1[y] = 0 /\ y \notin Range(H[x])
    BY DEF Lowers
  <1>1. /\ t \in [N -> Nat] /\ \A c \in N : t[c] \in Nat /\ (d[c] = 0 => t[c] > 0)
        /\ \A b \in T, c \in N : c \in Range(H[b]) => t[b] < t[c]
        /\ \A c \in N :
             \/ (t[c] = 0 /\ d[c] # 0) \/ (t[c] = 1 /\ d[c] = 0)
             \/ \E b \in T : c \in Range(H[b]) /\ t[c] = t[b] + 1
    BY DEF Placed
  <1>2. \A c \in T : c \in N /\ d[c] = 0
    BY DEF Taken
  <1>3. \A y \in N : t1[y] = IF y \in Range(H[x]) THEN RaisedBy(t, x, y) ELSE t[y]
    OBVIOUS
  <1>4. ASSUME NEW y \in Range(H[x])
        PROVE  /\ t1[y] \in Nat /\ t1[y] >= t[y] /\ t1[y] > t[x]
               /\ t1[y] = t[y] \/ t1[y] = t[x] + 1
    <2>1. y \in N /\ t[y] \in Nat /\ t[x] \in Nat
      BY <1>1
    <2>2. t1[y] = IF t[y] > t[x] + 1 THEN t[y] ELSE t[x] + 1
      BY <1>3, <2>1 DEF RaisedBy
    <2> QED BY <2>1, <2>2
  <1>5. \A y \in N : y \notin Range(H[x]) => t1[y] = t[y]
    BY <1>3
  <1>6. \A y \in N : d[y] = 0 => t1[y] = t[y]
    BY <1>0, <1>5
  <1>7. ASSUME NEW y \in N PROVE t1[y] \in Nat /\ t1[y] >= t[y]
    <2>1. CASE y \in Range(H[x])
      BY <1>4, <2>1
    <2>2. CASE y \notin Range(H[x])
      <3>1. t1[y] = t[y] /\ t[y] \in Nat
        BY <1>1, <1>5, <2>2
      <3> QED BY <3>1
    <2> QED BY <2>1, <2>2
  <1>8. t1 \in [N -> Nat]
    BY <1>7
  <1>9. \A b \in T \cup {x} : b \in N /\ t1[b] = t[b]
    BY <1>2, <1>6
  <1> HIDE DEF T
  <1>10. ASSUME NEW c \in N, d1[c] = 0 PROVE t1[c] > 0
    <2>1. CASE d[c] = 0
      BY <1>1, <1>6, <2>1
    <2>2. CASE c \in Range(H[x])
      <3>1. t[x] \in Nat /\ t1[c] \in Nat /\ t1[c] > t[x]
        BY <1>1, <1>4, <2>2
      <3> QED BY <3>1
    <2> QED BY <1>0, <1>10, <2>1, <2>2
  <1>11. ASSUME NEW b \in T \cup {x}, NEW c \in Range(H[b]), c \in N PROVE t1[b] < t1[c]
    <2>1. CASE b = x
      BY <1>4, <1>9, <2>1
    <2>2. CASE b \in T
      <3>1. t[b] < t[c] /\ t1[b] = t[b] /\ t1[c] >= t[c] /\ t[b] \in Nat /\ t[c] \in Nat /\ t1[c] \in Nat
        BY <1>1, <1>2, <1>7, <1>9, <1>11, <2>2
      <3> QED BY <3>1
    <2> QED BY <2>1, <2>2
  <1>12. ASSUME NEW c \in N
         PROVE  \/ (t1[c] = 0 /\ d1[c] # 0) \/ (t1[c] = 1 /\ d1[c] = 0)
                \/ \E b \in T \cup {x} : c \in Range(H[b]) /\ t1[c] = t1[b] + 1
    <2>1. CASE c \in Range(H[x]) /\ t1[c] = t[x] + 1
      BY <1>9, <2>1
    <2>2. CASE t1[c] = t[c] /\ \E b \in T : c \in Range(H[b]) /\ t[c] = t[b] + 1
      BY <1>9, <2>2
    <2>3. CASE t1[c] = t[c] /\ d[c] = 0 /\ t[c] = 1
      BY <1>0, <2>3
    <2>4. CASE t1[c] = t[c] /\ d[c] # 0 /\ t[c] = 0
      <3>1. c \notin Range(H[x])
        <4> SUFFICES ASSUME c \in Range(H[x]) PROVE FALSE
          OBVIOUS
        <4>1. t1[c] \in Nat /\ t[x] \in Nat /\ t1[c] > t[x] /\ t1[c] = 0
          BY <1>1, <1>4, <2>4
        <4> QED BY <4>1
      <3>2. d1[c] # 0
        BY <1>0, <2>4, <3>1, Zenon
      <3> QED BY <2>4, <3>2
    <2> QED BY <1>1, <1>4, <1>5, <2>1, <2>2, <2>3, <2>4
  <1>13. \A b \in T \cup {x}, c \in N : c \in Range(H[b]) => t1[b] < t1[c]
    BY <1>11
  <1> QED BY <1>8, <1>10, <1>12, <1>13 DEF Placed, T

\* A list of components leads to lower numbers, each place of it for an edge
\* that leaves the component, and each such edge has one.
LEMMA BetweenLists ==
  ASSUME SearchInv, Numbering, frames = <<>>, root \notin Nodes, NEW c \in Components
  PROVE  /\ Between(c) \in Seq(Components) /\ \A y \in Range(Between(c)) : y < c
         /\ \A u \in Nodes : \A k \in DOMAIN GG[u] :
              sccno[u] = c + 1 /\ sccno[GG[u][k]] # c + 1 => sccno[GG[u][k]] - 1 \in Range(Between(c))
  <1> DEFINE ends == UNION {{u} \X DOMAIN GG[u] : u \in Nodes}
             leaving == {e \in ends : sccno[e[1]] = c + 1 /\ sccno[GG[e[1]][e[2]]] # c + 1}
             before == {p \in leaving \X leaving :
                          p[1][1] < p[2][1] \/ (p[1][1] = p[2][1] /\ p[1][2] < p[2][2])}
             out == InOrder(leaving, before)
             n == Cardinality(leaving)
  <1>1. /\ \A u \in Nodes : GG[u] \in Seq(Nodes) /\ u \in Int
        /\ \A u \in Nodes : \A k \in DOMAIN GG[u] : k \in Int
        /\ scc_cnt \in Nat /\ c \in Nat /\ Components = 0..scc_cnt - 1
    <2>1. \A u \in Nodes : u \in Int
      BY DEF Numbering
    <2>2. \A u \in Nodes : GG[u] \in Seq(Nodes)
      BY DEF SearchInv, SearchTypes
    <2>3. scc_cnt \in Nat
      BY DEF SearchInv, SearchTypes
    <2> QED BY <2>1, <2>2, <2>3 DEF Components
  <1>2. \A e \in ends : \E u \in Nodes : \E k \in DOMAIN GG[u] : e = <<u, k>>
    OBVIOUS
  <1>3. IsFiniteSet(ends)
    <2> DEFINE own(u) == {u} \X DOMAIN GG[u]
               all == {own(u) : u \in Nodes}
    <2>1. IsFiniteSet(all)
      <3>1. PICK m \in Nat : Nodes = 0..m - 1
        BY DEF Numbering
      <3>2. IsFiniteSet(Nodes)
        BY <3>1, FS_Interval
      <3> HIDE DEF own
      <3> DEFINE f == [u \in Nodes |-> own(u)]
      <3>3. f \in [Nodes -> all] /\ \A t \in all : \E u \in Nodes : f[u] = t
        OBVIOUS
      <3> HIDE DEF f, all
      <3>4. f \in Surjection(Nodes, all)
        BY <3>3, Fun_IsSurj
      <3> QED BY <3>2, <3>4, FS_Surjection
    <2>2. ASSUME NEW u \in Nodes PROVE IsFiniteSet(own(u))
      <3>1. IsFiniteSet(DOMAIN GG[u])
        <4> PICK l \in Nat : l = Len(GG[u])
          BY <1>1, LenProperties
        <4>1. DOMAIN GG[u] = 1..l
          BY <1>1, LenProperties
        <4>2. IsFiniteSet(1..l)
          BY UpTo
        <4> QED BY <4>1, <4>2
      <3>2. IsFiniteSet({u})
        BY FS_Singleton
      <3> QED BY <3>1, <3>2, FS_Product
    <2>3. \A t \in all : IsFiniteSet(t)
      <3> HIDE DEF own
      <3> QED BY <2>2
    <2>4. ends = UNION all
      OBVIOUS
    <2> HIDE DEF all, ends
    <2> QED BY <2>1, <2>3, <2>4, FS_UNION
  <1>4. IsFiniteSet(leaving)
    <2>1. leaving \subseteq ends
      OBVIOUS
    <2> HIDE DEF ends, leaving
    <2> QED BY <1>3, <2>1, FS_Subset
  <1>5. \A e \in leaving : \E u \in Nodes : \E k \in DOMAIN GG[u] :
          e = <<u, k>> /\ sccno[u] = c + 1 /\ sccno[GG[u][k]] # c + 1
    <2> HIDE DEF ends
    <2> SUFFICES ASSUME NEW e \in leaving
                 PROVE  \E u \in Nodes : \E k \in DOMAIN GG[u] :
                          e = <<u, k>> /\ sccno[u] = c + 1 /\ sccno[GG[u][k]] # c + 1
      OBVIOUS
    <2>1. e \in ends /\ sccno[e[1]] = c + 1 /\ sccno[GG[e[1]][e[2]]] # c + 1
      OBVIOUS
    <2> QED BY <1>2, <2>1
  <1>6. \A u \in Nodes : \A k \in DOMAIN GG[u] :
           sccno[u] = c + 1 /\ sccno[GG[u][k]] # c + 1 => <<u, k>> \in leaving
    <2> SUFFICES ASSUME NEW u \in Nodes, NEW k \in DOMAIN GG[u], sccno[u] = c + 1, sccno[GG[u][k]] # c + 1
                 PROVE  <<u, k>> \in leaving
      OBVIOUS
    <2>1. <<u, k>> \in ends
      OBVIOUS
    <2> HIDE DEF ends
    <2> QED BY <2>1
  <1> HIDE DEF ends, leaving
  <1>7. Orders(before, leaving)
    <2>1. \A e \in leaving : e[1] \in Int /\ e[2] \in Int /\ e = <<e[1], e[2]>>
      BY <1>1, <1>5
    <2>2. \A x, y \in leaving : <<x, y>> \in before <=> x[1] < y[1] \/ (x[1] = y[1] /\ x[2] < y[2])
      OBVIOUS
    <2> HIDE DEF before
    <2>3. ASSUME NEW x \in leaving, NEW y \in leaving, x # y
          PROVE  <<x, y>> \in before \/ <<y, x>> \in before
      <3>1. x[1] # y[1] \/ x[2] # y[2]
        BY <2>1, <2>3
      <3>2. x[1] \in Int /\ x[2] \in Int /\ y[1] \in Int /\ y[2] \in Int
        BY <2>1
      <3> QED BY <2>2, <3>1, <3>2
    <2>4. \A x \in leaving : <<x, x>> \notin before
      BY <2>1, <2>2
    <2>5. ASSUME NEW x \in leaving, NEW y \in leaving, NEW z \in leaving, <<x, y>> \in before, <<y, z>> \in before
          PROVE  <<x, z>> \in before
      <3>1. /\ x[1] \in Int /\ x[2] \in Int /\ y[1] \in Int /\ y[2] \in Int /\ z[1] \in Int /\ z[2] \in Int
        BY <2>1
      <3>2. /\ x[1] < y[1] \/ (x[1] = y[1] /\ x[2] < y[2])
            /\ y[1] < z[1] \/ (y[1] = z[1] /\ y[2] < z[2])
        BY <2>2, <2>5
      <3>3. x[1] < z[1] \/ (x[1] = z[1] /\ x[2] < z[2])
        BY <3>1, <3>2
      <3> QED BY <2>2, <3>3
    <2> QED BY <2>3, <2>4, <2>5 DEF Orders
  <1> HIDE DEF before
  <1>8. /\ n \in Nat /\ out \in [1..n -> leaving] /\ DOMAIN out = 1..n
        /\ \A e \in leaving : \E i \in 1..n : out[i] = e
    BY <1>4, <1>7, ListedInOrder
  <1>9. Between(c) = [i \in DOMAIN out |-> sccno[GG[out[i][1]][out[i][2]]] - 1]
    BY DEF Between, out, before, leaving, ends
  <1> HIDE DEF out, n
  <1>10. ASSUME NEW i \in 1..n
        PROVE  sccno[GG[out[i][1]][out[i][2]]] - 1 \in Components /\ sccno[GG[out[i][1]][out[i][2]]] - 1 < c
    <2> PICK e \in leaving : e = out[i]
      BY <1>8
    <2>1. PICK u \in Nodes : \E k \in DOMAIN GG[u] :
            e = <<u, k>> /\ sccno[u] = c + 1 /\ sccno[GG[u][k]] # c + 1
      BY <1>5
    <2>2. PICK k \in DOMAIN GG[u] : e = <<u, k>> /\ sccno[u] = c + 1 /\ sccno[GG[u][k]] # c + 1
      BY <2>1
    <2>3. sccno[GG[u][k]] \in 1..c + 1
      <3>1. sccno[u] # 0
        BY <1>1, <2>2
      <3>2. sccno[GG[u][k]] \in 1..sccno[u]
        BY <3>1 DEF SearchInv, NumberedClosed
      <3> QED BY <2>2, <3>2
    <2>4. sccno[GG[u][k]] - 1 \in 0..scc_cnt - 1 /\ sccno[GG[u][k]] - 1 < c
      <3> PICK p \in 1..c + 1 : p = sccno[GG[u][k]]
        BY <2>3
      <3>1. p # c + 1
        BY <2>2
      <3>2. c \in Nat /\ scc_cnt \in Nat /\ c \in 0..scc_cnt - 1
        BY <1>1
      <3>3. \A s, d \in Nat : d \in 0..s - 1 =>
              \A m \in 1..d + 1 : m # d + 1 => m - 1 \in 0..s - 1 /\ m - 1 < d
        OBVIOUS
      <3> QED BY <3>1, <3>2, <3>3
    <2> QED BY <1>1, <2>2, <2>4
  <1>11. DOMAIN Between(c) = 1..n /\ \A i \in 1..n : Between(c)[i] \in Components /\ Between(c)[i] < c
    BY <1>8, <1>9, <1>10
  <1>12. Between(c) \in Seq(Components)
    <2>1. Between(c) = [i \in 1..n |-> sccno[GG[out[i][1]][out[i][2]]] - 1]
      BY <1>8, <1>9
    <2> QED BY <1>8, <1>10, <2>1
  <1>13. ASSUME NEW u \in Nodes, NEW k \in DOMAIN GG[u], sccno[u] = c + 1, sccno[GG[u][k]] # c + 1
         PROVE  sccno[GG[u][k]] - 1 \in Range(Between(c))
    <2>1. PICK i \in 1..n : out[i] = <<u, k>>
      BY <1>8, <1>13, <1>6
    <2>2. Between(c)[i] = sccno[GG[u][k]] - 1
      BY <1>8, <1>9, <2>1
    <2> QED BY <1>11, <2>2 DEF Range
  <1>14. \A y \in Range(Between(c)) : y < c
    BY <1>11 DEF Range
  <1> QED BY <1>12, <1>13, <1>14

\* How far the search is: its counts are of nodes, and a file has no more than MaxTot.
Counting ==
  /\ Cardinality(Nodes) <= MaxTot /\ root <= Cardinality(Nodes)
  /\ dfs_clock = Cardinality({u \in Nodes : pre[u] # 0})
  /\ scc_cnt <= Cardinality({u \in Nodes : sccno[u] # 0})
  /\ \A u \in Nodes : lowlink[u] <= dfs_clock

\* The nodes are the numbers below their count.
LEMMA NodesCounted ==
  ASSUME Numbering
  PROVE  /\ IsFiniteSet(Nodes) /\ Cardinality(Nodes) \in Nat /\ Nodes = 0..Cardinality(Nodes) - 1
         /\ \A S \in SUBSET Nodes : /\ IsFiniteSet(S) /\ Cardinality(S) \in Nat
                                    /\ Cardinality(S) <= Cardinality(Nodes)
  <1>1. PICK c \in Nat : Nodes = 0..c - 1
    BY DEF Numbering
  <1>2. IsFiniteSet(Nodes) /\ Cardinality(Nodes) = c
    <2>1. IsFiniteSet(0..c - 1) /\ Cardinality(0..c - 1) = IF 0 > c - 1 THEN 0 ELSE c - 1 - 0 + 1
      BY FS_Interval
    <2> QED BY <1>1, <2>1
  <1>3. \A S \in SUBSET Nodes : IsFiniteSet(S) /\ Cardinality(S) \in Nat /\ Cardinality(S) <= Cardinality(Nodes)
    BY <1>2, FS_Subset, FS_CardinalityType
  <1> QED BY <1>1, <1>2, <1>3

\* No object has read a file: nothing is counted.
LEMMA CountingStarts == Init => Counting
  <1> SUFFICES ASSUME Init PROVE Counting
    OBVIOUS
  <1>1. Nodes = {} /\ root = 0 /\ dfs_clock = 0 /\ scc_cnt = 0
    BY DEF Init, Nodes
  <1>2. {u \in Nodes : pre[u] # 0} = {} /\ {u \in Nodes : sccno[u] # 0} = {}
    BY <1>1
  <1>3. Cardinality({}) = 0 /\ MaxTot \in Nat
    BY FS_EmptySet, FilesAssumption
  <1> QED BY <1>1, <1>2, <1>3 DEF Counting

\* A visit counts one node more.
LEMMA VisitCounts ==
  ASSUME SearchInv, Numbering, Counting, NEW v \in Nodes, pre[v] = 0, Visit(v), GG' = GG,
         root' <= Cardinality(Nodes)
  PROVE  Counting'
  <1> DEFINE P == {u \in Nodes : pre[u] # 0}
  <1>1. /\ Nodes' = Nodes /\ dfs_clock' = dfs_clock + 1 /\ sccno' = sccno /\ scc_cnt' = scc_cnt
        /\ pre' = [pre EXCEPT ![v] = dfs_clock + 1]
        /\ lowlink' = [lowlink EXCEPT ![v] = dfs_clock + 1]
    BY DEF Visit, Nodes
  <1>2. dfs_clock \in Nat /\ pre \in [Nodes -> Nat] /\ lowlink \in [Nodes -> Nat]
    BY DEF SearchInv, SearchTypes
  <1>3. {u \in Nodes : pre'[u] # 0} = P \cup {v} /\ v \notin P
    BY <1>1, <1>2
  <1>4. IsFiniteSet(P) /\ dfs_clock = Cardinality(P)
    BY NodesCounted DEF Counting
  <1> HIDE DEF P
  <1>5. Cardinality(P \cup {v}) = Cardinality(P) + 1
    BY <1>3, <1>4, FS_AddElement
  <1>6. \A u \in Nodes : lowlink'[u] <= dfs_clock'
    <2> TAKE u \in Nodes
    <2>1. lowlink[u] <= dfs_clock /\ lowlink[u] \in Nat
      BY <1>2 DEF Counting
    <2>2. lowlink'[u] = lowlink[u] \/ lowlink'[u] = dfs_clock + 1
      BY <1>1, <1>2
    <2> QED BY <1>1, <1>2, <2>1, <2>2
  <1> QED BY <1>1, <1>3, <1>4, <1>5, <1>6 DEF Counting

\* A component more has its nodes among those numbered.
LEMMA PopCounts ==
  ASSUME SearchInv, Numbering, Counting, NEW u \in Range(stack), u \in Nodes, PopComponent(u)
  PROVE  scc_cnt' <= Cardinality({x \in Nodes : sccno'[x] # 0})
  <1> DEFINE P == {x \in Nodes : sccno[x] # 0}
             Q == {x \in Nodes : sccno'[x] # 0}
  <1>1. /\ scc_cnt' = scc_cnt + 1 /\ scc_cnt \in Nat
        /\ \A x \in Nodes : sccno'[x] = IF x \in Range(stack) /\ pre[u] <= pre[x]
                                          THEN scc_cnt + 1 ELSE sccno[x]
    BY PopCuts DEF SearchInv, SearchTypes
  <1>2. pre[u] \in Nat /\ sccno[u] = 0 /\ \A x \in Nodes : sccno[x] \in Nat
    BY CallFacts
  <1>3. sccno'[u] # 0 /\ \A x \in Nodes : sccno[x] # 0 => sccno'[x] # 0
    BY <1>1, <1>2
  <1>4. P \cup {u} \subseteq Q /\ u \notin P
    BY <1>2, <1>3
  <1>5. /\ IsFiniteSet(P) /\ IsFiniteSet(Q) /\ Cardinality(P) \in Nat /\ Cardinality(Q) \in Nat
        /\ scc_cnt <= Cardinality(P)
    BY NodesCounted DEF Counting
  <1> HIDE DEF P, Q
  <1>6. IsFiniteSet(P \cup {u}) /\ Cardinality(P \cup {u}) = Cardinality(P) + 1
    BY <1>4, <1>5, FS_AddElement
  <1>7. Cardinality(P \cup {u}) <= Cardinality(Q)
    BY <1>4, <1>5, FS_Subset
  <1>8. scc_cnt' <= Cardinality(Q)
    BY <1>1, <1>5, <1>6, <1>7
  <1> QED BY <1>8 DEF Q

\* Every step keeps the counts.
LEMMA CountingStep == SearchInv /\ Numbering /\ Counting /\ [Next]_vars => Counting'
  <1> SUFFICES ASSUME SearchInv, Numbering, Counting, [Next]_vars PROVE Counting'
    OBVIOUS
  <1>0. PICK c \in Nat : c = Cardinality(Nodes) /\ Nodes = 0..c - 1
    BY NodesCounted
  <1>1. /\ root \in Nat /\ root <= c /\ lowlink \in [Nodes -> Nat] /\ pre \in [Nodes -> Nat] /\ dfs_clock \in Nat
        /\ \A u \in Nodes : lowlink[u] <= dfs_clock /\ lowlink[u] \in Nat /\ pre[u] \in Nat
    BY <1>0 DEF SearchInv, SearchTypes, Counting
  <1>2. CASE TryRoot
    <2>1. root' = root + 1 /\ GG' = GG /\ root \in Nodes /\ root' <= c /\ Nodes' = Nodes
      <3>1. root' = root + 1 /\ GG' = GG /\ root \in Nodes /\ Nodes' = Nodes
        BY <1>2 DEF TryRoot, Nodes
      <3>2. root \in 0..c - 1
        BY <1>0, <3>1, Zenon
      <3>3. root + 1 <= c
        BY <3>2
      <3> QED BY <3>1, <3>3
    <2>2. CASE pre[root] = 0
      BY <1>0, <1>2, <2>1, <2>2, VisitCounts DEF TryRoot
    <2>3. CASE pre[root] # 0
      <3>1. /\ pre' = pre /\ lowlink' = lowlink /\ sccno' = sccno /\ dfs_clock' = dfs_clock /\ scc_cnt' = scc_cnt
        BY <1>2, <2>3 DEF TryRoot
      <3> QED BY <1>0, <2>1, <3>1 DEF Counting
    <2> QED BY <2>2, <2>3
  <1>3. ASSUME stage = "scc", frames # <<>> PROVE u0 \in Nodes /\ u0 \in Range(stack)
    <2>1. Last(frames) = frames[Len(frames)]
      BY DEF Last
    <2>2. Len(frames) \in 1..Len(frames)
      BY <1>3 DEF SearchInv, SearchTypes
    <2> QED BY <2>1, <2>2, CallFacts DEF u0
  <1>4. CASE Descend
    <2>1. Looking /\ pre[v0] = 0 /\ Visit(v0) /\ GG' = GG /\ root' = root
      BY <1>4 DEF Descend
    <2>2. v0 \in Nodes
      BY <2>1, <1>3, CallFacts DEF v0, Looking
    <2> QED BY <1>0, <1>1, <2>1, <2>2, VisitCounts
  <1>5. CASE Seen
    <2>1. /\ Looking /\ lowlink' = [lowlink EXCEPT ![u0] = SeenLow] /\ root' = root
          /\ pre' = pre /\ sccno' = sccno /\ dfs_clock' = dfs_clock /\ scc_cnt' = scc_cnt /\ Nodes' = Nodes
      BY <1>5 DEF Seen, Nodes
    <2>2. u0 \in Nodes /\ v0 \in Nodes
      BY <2>1, <1>3, CallFacts DEF v0, Looking
    <2>3. SeenLow <= lowlink[u0]
      BY <1>1, <2>2 DEF SeenLow, Least
    <2>4. SeenLow \in Nat
      BY <1>1, <2>2 DEF SeenLow, Least
    <2>5. \A u \in Nodes : lowlink'[u] <= dfs_clock
      <3> TAKE u \in Nodes
      <3>1. lowlink[u0] <= dfs_clock /\ lowlink[u] <= dfs_clock /\ lowlink[u0] \in Nat /\ lowlink[u] \in Nat
        BY <1>1, <2>2
      <3>2. lowlink'[u] = lowlink[u] \/ lowlink'[u] = SeenLow
        BY <1>1, <2>1
      <3> QED BY <1>1, <2>3, <2>4, <3>1, <3>2
    <2> QED BY <2>1, <2>5 DEF Counting
  <1>6. CASE Return
    <2>1. /\ u0 \in Nodes /\ u0 \in Range(stack) /\ Nodes' = Nodes /\ pre' = pre /\ root' = root
          /\ dfs_clock' = dfs_clock /\ DOMAIN frames = 1..Len(frames) /\ Len(frames) \in Nat
      BY <1>6, ReturnedFrames
    <2>2. scc_cnt' <= Cardinality({x \in Nodes : sccno'[x] # 0})
      <3>1. CASE lowlink[u0] = pre[u0]
        BY <1>6, <2>1, <3>1, PopCounts DEF Return
      <3>2. CASE lowlink[u0] # pre[u0]
        BY <1>6, <3>2 DEF Return, Counting
      <3> QED BY <3>1, <3>2
    <2>3. \A u \in Nodes : lowlink'[u] <= dfs_clock
      <3> TAKE u \in Nodes
      <3> PICK l : l = Last(Front(frames)).node
        OBVIOUS
      <3>1. lowlink' = lowlink \/ lowlink' = [lowlink EXCEPT ![l] = Least(@, lowlink[u0])]
        BY <1>6 DEF Return
      <3>2. lowlink[u0] <= dfs_clock /\ lowlink[u] <= dfs_clock /\ lowlink[u0] \in Nat /\ lowlink[u] \in Nat
        BY <1>1, <2>1
      <3>3. lowlink'[u] = lowlink[u] \/ lowlink'[u] = Least(lowlink[u], lowlink[u0])
        BY <1>1, <3>1
      <3> QED BY <1>1, <3>2, <3>3 DEF Least
    <2> QED BY <2>1, <2>2, <2>3 DEF Counting
  <1>7. CASE Condense \/ Seed \/ Take \/ FinishLevels \/ UNCHANGED vars
    <2>1. UNCHANGED <<GG, search>>
      BY <1>7 DEF Condense, Seed, Take, FinishLevels, vars
    <2> QED BY <2>1 DEF search, Counting, Nodes
  <1>8. CASE Begin
    <2>1. PICK file \in Files : Read(file)
      BY <1>8, FilesAssumption DEF Begin
    <2>2. /\ Nodes' = 0..Cardinality(ids(file)) - 1 /\ root' = 0 /\ dfs_clock' = 0 /\ scc_cnt' = 0
          /\ \A u \in Nodes' : pre'[u] = 0 /\ lowlink'[u] = 0 /\ sccno'[u] = 0
      BY <2>1 DEF Read, Nodes, Adjacency
    <2>3. PICK m \in Nat : m = Cardinality(ids(file)) /\ m <= MaxTot
      BY IdsFinite, FilesAssumption
    <2>4. Cardinality(Nodes') = m
      <3>1. Cardinality(0..m - 1) = IF 0 > m - 1 THEN 0 ELSE m - 1 - 0 + 1
        BY FS_Interval
      <3> QED BY <2>2, <2>3, <3>1
    <2>5. {u \in Nodes' : pre'[u] # 0} = {} /\ {u \in Nodes' : sccno'[u] # 0} = {}
      BY <2>2
    <2>6. Cardinality({}) = 0
      BY FS_EmptySet
    <2>7. \A u \in Nodes' : lowlink'[u] <= dfs_clock'
      BY <2>2
    <2>8. Cardinality(Nodes') <= MaxTot /\ root' <= Cardinality(Nodes')
      BY <2>2, <2>3, <2>4
    <2>9. /\ dfs_clock' = Cardinality({u \in Nodes' : pre'[u] # 0})
          /\ scc_cnt' <= Cardinality({u \in Nodes' : sccno'[u] # 0})
      BY <2>2, <2>5, <2>6
    <2> QED BY <2>7, <2>8, <2>9 DEF Counting
  <1> QED BY <1>2, <1>4, <1>5, <1>6, <1>7, <1>8 DEF Next, Work

\* Where toposort() is: between two objects nothing is counted, within one the
\* counts, the queue and the levels are those of what was taken so far.
Leveling ==
  /\ stage \in {"new", "scc", "sort", "levels", "done"}
  /\ stage \in {"new", "scc"} => G = <<>>
  /\ stage \in {"sort", "levels", "done"} => Descends(G, scc_cnt)
  /\ deg \in [0..MaxTot - 1 -> Nat]
  /\ stage # "levels" => queue = <<>> /\ \A c \in 0..MaxTot - 1 : deg[c] = 0
  /\ stage = "levels" => Queued(Components, deg, queue) /\ CountsLeft(G, Components, MaxTot, deg, queue)
  /\ stage \in {"levels", "done"} => Placed(G, Components, deg, queue, tln)

\* Without a queue everything is taken: of what is left none could be the highest.
LEMMA AllTaken ==
  ASSUME NEW n \in Nat, NEW M \in Nat, n <= M, NEW H, Descends(H, n), NEW d,
         CountsLeft(H, 0..n - 1, M, d, <<>>)
  PROVE  \A c \in 0..M - 1 : d[c] = 0
  <1> DEFINE N == 0..n - 1
             T == Taken(N, d, <<>>)
  <1>1. /\ d \in [0..M - 1 -> Nat] /\ N \subseteq 0..M - 1 /\ N \ T \subseteq N
        /\ \A c \in 0..M - 1 : d[c] = Cardinality(Into(H, N \ T, c))
    <2>1. N \subseteq 0..M - 1
      OBVIOUS
    <2>2. d \in [0..M - 1 -> Nat] /\ \A c \in 0..M - 1 : d[c] = Cardinality(Into(H, N \ T, c))
      BY DEF CountsLeft
    <2> HIDE DEF N, T
    <2> QED BY <2>1, <2>2
  <1>2. \A c \in N : c \in T <=> d[c] = 0
    BY DEF Taken, Range
  <1>3. ASSUME NEW c \in 0..M - 1, d[c] # 0
        PROVE  \E b \in N : d[b] # 0 /\ c \in Range(H[b])
    <2> DEFINE R == N \ T
    <2>1. Cardinality(Into(H, R, c)) # 0 /\ R \subseteq 0..n - 1
      BY <1>1, <1>3
    <2>2. \E b \in R : c \in Range(H[b])
      <3> HIDE DEF R, N, T
      <3>1. (\A b \in R : c \notin Range(H[b])) => Cardinality(Into(H, R, c)) = 0
        BY <2>1, IntoCounted
      <3> QED BY <2>1, <3>1
    <2> HIDE DEF T
    <2> QED BY <1>2, <2>2
  <1>4. \A b \in N : d[b] = 0
    <2> SUFFICES ASSUME NEW a \in N, d[a] # 0 PROVE FALSE
      OBVIOUS
    <2> DEFINE D == {m \in Nat : \E b \in N : d[b] # 0 /\ m = n - b}
    <2>1. n - a \in D
      <3>1. n - a \in Nat /\ \E b \in N : d[b] # 0 /\ n - a = n - b
        OBVIOUS
      <3> QED BY <3>1
    <2>2. D \subseteq Nat /\ D # {}
      BY <2>1
    <2>3. PICK m \in D : \A k \in D : ~ <<k, m>> \in OpToRel(<, Nat)
      BY <2>2, NatLessThanWellFounded, WFMin
    <2>4. \A k \in D : ~ (k < m)
      BY <2>2, <2>3 DEF OpToRel
    <2>5. PICK b \in N : d[b] # 0 /\ m = n - b
      OBVIOUS
    <2>6. b \in 0..M - 1
      BY <1>1
    <2>7. PICK e \in N : d[e] # 0 /\ b \in Range(H[e])
      BY <1>3, <2>5, <2>6
    <2>8. b < e
      BY <2>7 DEF Descends
    <2>9. n - e \in D
      <3>1. n - e \in Nat /\ \E f \in N : d[f] # 0 /\ n - e = n - f
        BY <2>7
      <3> QED BY <3>1
    <2>10. n - e < n - b
      BY <2>8
    <2> QED BY <2>4, <2>5, <2>9, <2>10
  <1> QED BY <1>3, <1>4

\* The highest of a set that has one.
LEMMA MostIs ==
  ASSUME NEW S, S \subseteq Int, NEW m \in S, \A y \in S : y <= m
  PROVE  Most(S) = m
  <1>1. \A x \in S : (\A y \in S : y <= x) => x = m
    OBVIOUS
  <1>2. Most(S) \in S /\ \A y \in S : y <= Most(S)
    BY DEF Most
  <1> QED BY <1>1, <1>2

\* When everything is taken, every level is exact.
LEMMA PlacedExactly ==
  ASSUME NEW N, NEW H, NEW d, NEW t, Placed(H, N, d, <<>>, t), \A c \in N : d[c] = 0, NEW c \in N
  PROVE  t[c] = 1 + Most({0} \cup {t[b] : b \in {b \in N : c \in Range(H[b])}})
  <1> DEFINE S == {0} \cup {t[b] : b \in {b \in N : c \in Range(H[b])}}
             T == Taken(N, d, <<>>)
  <1>1. T = N
    BY DEF Taken, Range
  <1>2. /\ \A a \in N : t[a] \in Nat /\ t[a] > 0
        /\ \A b \in N : c \in Range(H[b]) => t[b] < t[c]
        /\ t[c] = 1 \/ \E b \in N : c \in Range(H[b]) /\ t[c] = t[b] + 1
    <2> HIDE DEF T
    <2>1. /\ t \in [N -> Nat] /\ \A a \in N : d[a] = 0 => t[a] > 0
          /\ \A b \in T, a \in N : a \in Range(H[b]) => t[b] < t[a]
          /\ \A a \in N :
               \/ (t[a] = 0 /\ d[a] # 0) \/ (t[a] = 1 /\ d[a] = 0)
               \/ \E b \in T : a \in Range(H[b]) /\ t[a] = t[b] + 1
      BY DEF Placed, T
    <2> QED BY <1>1, <2>1
  <1> HIDE DEF T
  <1>3. S \subseteq Int /\ \A y \in S : y = 0 \/ \E b \in N : c \in Range(H[b]) /\ y = t[b]
    BY <1>2
  <1>4. t[c] - 1 \in S
    <2>1. CASE t[c] = 1
      BY <2>1
    <2>2. CASE \E b \in N : c \in Range(H[b]) /\ t[c] = t[b] + 1
      <3>1. PICK b \in N : c \in Range(H[b]) /\ t[c] = t[b] + 1
        BY <2>2
      <3>2. t[b] \in S /\ t[c] - 1 = t[b]
        BY <1>2, <3>1
      <3> QED BY <3>2
    <2> QED BY <1>2, <2>1, <2>2
  <1>5. \A y \in S : y <= t[c] - 1
    <2> SUFFICES ASSUME NEW y \in S PROVE y <= t[c] - 1
      OBVIOUS
    <2>1. t[c] \in Nat /\ t[c] > 0
      BY <1>2
    <2>2. CASE y = 0
      BY <2>1, <2>2
    <2>3. CASE \E b \in N : c \in Range(H[b]) /\ y = t[b]
      <3>1. PICK b \in N : c \in Range(H[b]) /\ y = t[b]
        BY <2>3
      <3>2. t[b] \in Nat /\ t[b] < t[c]
        BY <1>2, <3>1
      <3> QED BY <2>1, <3>1, <3>2
    <2> QED BY <1>3, <2>2, <2>3
  <1> PICK m \in S : m = t[c] - 1
    BY <1>4
  <1> HIDE DEF S
  <1>6. Most(S) = m
    BY <1>3, <1>5, MostIs
  <1>7. t[c] = 1 + m
    BY <1>2
  <1> QED BY <1>6, <1>7 DEF S

\* Ascending(S) is a list of S, each of it once.
LEMMA AscendingLists ==
  ASSUME NEW S, S \subseteq Int, IsFiniteSet(S)
  PROVE  Ascending(S) \in Seq(S) /\ IsInjective(Ascending(S)) /\ Range(Ascending(S)) = S
  <1> DEFINE q == Ascending(S)
  <1>1. PICK l \in Nat : /\ q \in [1..l -> S] /\ DOMAIN q = 1..l
                         /\ \A i, j \in 1..l : q[i] = q[j] => i = j
                         /\ \A x \in S : \E i \in 1..l : q[i] = x
    BY ListedAscending
  <1> HIDE DEF q
  <1>2. q \in Seq(S)
    BY <1>1
  <1>3. IsInjective(q)
    BY <1>1 DEF IsInjective
  <1>4. Range(q) = S
    <2>1. \A x \in Range(q) : x \in S
      BY <1>1 DEF Range
    <2>2. \A x \in S : x \in Range(q)
      BY <1>1 DEF Range
    <2> QED BY <2>1, <2>2, Zenon
  <1> QED BY <1>2, <1>3, <1>4 DEF q

\* What Seed leaves: the components with a count of zero in the queue, each at level one.
Seeds(n, d, q, t) ==
  q = Ascending({c \in 0..n - 1 : d[c] = 0}) /\ t = [c \in 0..n - 1 |-> IF d[c] = 0 THEN 1 ELSE 0]

\* What toposort() begins with: the counts of all edges, and those with none.
LEMMA SeedPlaces ==
  ASSUME NEW n \in Nat, NEW M \in Nat, n <= M, NEW H, Descends(H, n),
         NEW d, d \in [0..M - 1 -> Nat],
         \A c \in 0..M - 1 : d[c] = Cardinality(Into(H, 0..n - 1, c)),
         NEW q, NEW t, Seeds(n, d, q, t)
  PROVE  /\ Queued(0..n - 1, d, q) /\ CountsLeft(H, 0..n - 1, M, d, q)
         /\ Placed(H, 0..n - 1, d, q, t)
  <1> DEFINE N == 0..n - 1
             S == {c \in N : d[c] = 0}
  <1>1. S \subseteq N /\ S \subseteq Int /\ \A c : c \in S <=> c \in N /\ d[c] = 0
    OBVIOUS
  <1>2. IsFiniteSet(S)
    <2>1. IsFiniteSet(N)
      BY FS_Interval
    <2> HIDE DEF N, S
    <2> QED BY <1>1, <2>1, FS_Subset
  <1> HIDE DEF S
  <1>3. q = Ascending(S)
    BY DEF S, Seeds
  <1>4. q \in Seq(N) /\ IsInjective(q) /\ Range(q) = S
    <2>1. q \in Seq(S) /\ IsInjective(q) /\ Range(q) = S
      BY <1>1, <1>2, <1>3, AscendingLists
    <2>2. q \in Seq(N)
      BY <1>1, <2>1
    <2> QED BY <2>1, <2>2
  <1>5. Queued(N, d, q)
    BY <1>1, <1>4 DEF Queued
  <1>6. Taken(N, d, q) = {}
    BY <1>1, <1>4 DEF Taken
  <1>7. CountsLeft(H, N, M, d, q)
    <2>1. N \ Taken(N, d, q) = N
      BY <1>6
    <2> QED BY <2>1 DEF CountsLeft
  <1>8. Placed(H, N, d, q, t)
    <2>1. t \in [N -> Nat] /\ \A c \in N : t[c] = IF d[c] = 0 THEN 1 ELSE 0
      BY DEF Seeds
    <2> HIDE DEF N
    <2> QED BY <1>6, <2>1 DEF Placed
  <1> QED BY <1>5, <1>7, <1>8

\* There are no more components than nodes.
LEMMA ComponentsFit == ASSUME SearchInv, Numbering, Counting PROVE scc_cnt <= MaxTot
  <1>1. scc_cnt \in Nat
    BY DEF SearchInv, SearchTypes
  <1>2. /\ Cardinality({u \in Nodes : sccno[u] # 0}) \in Nat
        /\ Cardinality({u \in Nodes : sccno[u] # 0}) <= Cardinality(Nodes)
        /\ Cardinality(Nodes) \in Nat
    BY NodesCounted
  <1> QED BY <1>1, <1>2, FilesAssumption DEF Counting

\* Every step keeps it.
LEMMA LevelingStep ==
  SearchInv /\ Numbering /\ Counting /\ Leveling /\ [Next]_vars => Leveling'
  <1> SUFFICES ASSUME SearchInv, Numbering, Counting, Leveling, [Next]_vars PROVE Leveling'
    OBVIOUS
  <1>0. PICK n \in Nat : n = scc_cnt /\ n <= MaxTot /\ Components = 0..n - 1
    <2>1. scc_cnt \in Nat
      BY DEF SearchInv, SearchTypes
    <2>2. scc_cnt <= MaxTot
      BY ComponentsFit
    <2> QED BY <2>1, <2>2 DEF Components
  <1>M. MaxTot \in Nat
    BY FilesAssumption
  <1>1. CASE TryRoot \/ Descend \/ Seen \/ Return
    <2>1. stage = "scc" /\ stage' = "scc" /\ G' = G /\ UNCHANGED sorting
      BY <1>1 DEF TryRoot, Descend, Looking, Seen, Return
    <2> QED BY <2>1 DEF sorting, Leveling
  <1>2. CASE Condense
    <2>1. /\ stage = "scc" /\ stage' = "sort" /\ frames = <<>> /\ root \notin Nodes
          /\ G' = [c \in Components |-> Between(c)] /\ UNCHANGED sorting /\ scc_cnt' = scc_cnt
      BY <1>2 DEF Condense, search
    <2>2. Descends(G', scc_cnt')
      <3>1. \A c \in Components : Between(c) \in Seq(Components) /\ \A y \in Range(Between(c)) : y < c
        BY <2>1, BetweenLists
      <3> HIDE DEF Components
      <3> QED BY <1>0, <2>1, <3>1 DEF Descends
    <2> QED BY <2>1, <2>2 DEF sorting, Leveling
  <1>3. CASE Seed
    <2>1. /\ stage = "sort" /\ stage' = "levels" /\ G' = G /\ scc_cnt' = scc_cnt /\ Components' = Components
          /\ deg' = [c \in DOMAIN deg |-> deg[c] + EdgesInto(c)]
      BY <1>3 DEF Seed, search, Components
    <2>2. /\ Descends(G, n) /\ deg \in [0..MaxTot - 1 -> Nat] /\ \A c \in 0..MaxTot - 1 : deg[c] = 0
      BY <1>0, <2>1 DEF Leveling
    <2>3. ASSUME NEW c \in 0..MaxTot - 1
          PROVE  deg'[c] = Cardinality(Into(G, 0..n - 1, c)) /\ deg'[c] \in Nat
      <3>1. EdgesInto(c) = Cardinality(Into(G, 0..n - 1, c))
        BY <1>0 DEF EdgesInto, Into
      <3>2. EdgesInto(c) \in Nat
        BY <2>2, <3>1, IntoCounted
      <3>3. deg'[c] = deg[c] + EdgesInto(c) /\ deg[c] = 0
        BY <2>1, <2>2
      <3> QED BY <3>1, <3>2, <3>3
    <2>4. deg' \in [0..MaxTot - 1 -> Nat]
      <3>1. deg' = [c \in 0..MaxTot - 1 |-> deg[c] + EdgesInto(c)]
        BY <2>1, <2>2
      <3>2. \A c \in 0..MaxTot - 1 : deg[c] + EdgesInto(c) \in Nat
        BY <2>3, <3>1
      <3> QED BY <3>1, <3>2
    <2>5. Components \subseteq 0..MaxTot - 1
      BY <1>0, <1>M
    <2>6. Seeds(n, deg', queue', tln')
      BY <1>0, <1>3 DEF Seed, Seeds
    <2>7. /\ Queued(0..n - 1, deg', queue') /\ CountsLeft(G, 0..n - 1, MaxTot, deg', queue')
          /\ Placed(G, 0..n - 1, deg', queue', tln')
      BY <1>0, <1>M, <2>2, <2>3, <2>4, <2>6, SeedPlaces
    <2> QED BY <1>0, <2>1, <2>2, <2>4, <2>7 DEF Leveling
  <1>4. CASE Take
    <2> PICK x : x = Head(queue)
      OBVIOUS
    <2>1. /\ stage = "levels" /\ stage' = "levels" /\ queue # <<>> /\ G' = G /\ scc_cnt' = scc_cnt
          /\ Components' = Components
          /\ deg' = [y \in DOMAIN deg |-> deg[y] - Times(y, G[x])]
      BY <1>4 DEF Take, search, Components
    <2>2. /\ Descends(G, n) /\ Queued(0..n - 1, deg, queue) /\ CountsLeft(G, 0..n - 1, MaxTot, deg, queue)
          /\ Placed(G, 0..n - 1, deg, queue, tln)
      BY <1>0, <2>1 DEF Leveling
    <2>3. Moves(G, deg, queue, x, deg', queue')
      <3> DEFINE cleared == Ascending({i \in DOMAIN G[x] : deg[G[x][i]] = Times(G[x][i], SubSeq(G[x], 1, i))})
                 z == [i \in DOMAIN cleared |-> G[x][cleared[i]]]
      <3>1. queue' = Tail(queue) \o z
        BY <1>4 DEF Take
      <3>2. Clears(z, deg, G[x])
        BY DEF Clears
      <3> HIDE DEF z
      <3> QED BY <2>1, <3>1, <3>2 DEF Moves
    <2>4. /\ Queued(0..n - 1, deg', queue') /\ CountsLeft(G, 0..n - 1, MaxTot, deg', queue')
          /\ x \in 0..n - 1 /\ deg[x] = 0
          /\ Taken(0..n - 1, deg', queue') = Taken(0..n - 1, deg, queue) \cup {x}
          /\ Lowers(deg, deg', 0..n - 1, G[x])
      BY <1>0, <1>M, <2>2, <2>3, TakeCounts
    <2>5. tln' = [y \in 0..n - 1 |-> IF y \in Range(G[x]) THEN RaisedBy(tln, x, y) ELSE tln[y]]
      BY <1>0, <1>4 DEF Take, Raised, RaisedBy
    <2>6. Range(G[x]) \subseteq 0..n - 1
      <3>1. G[x] \in Seq(0..n - 1)
        BY <2>2, <2>4 DEF Descends
      <3> QED BY <3>1 DEF Range
    <2>7. Placed(G, 0..n - 1, deg', queue', tln')
      BY <2>2, <2>4, <2>5, <2>6, TakePlaces
    <2>8. deg' \in [0..MaxTot - 1 -> Nat]
      BY <2>4 DEF CountsLeft
    <2> QED BY <1>0, <2>1, <2>2, <2>4, <2>7, <2>8 DEF Leveling
  <1>5. CASE FinishLevels
    <2>1. /\ stage = "levels" /\ stage' = "done" /\ queue = <<>> /\ queue' = <<>> /\ G' = G /\ deg' = deg
          /\ tln' = tln /\ scc_cnt' = scc_cnt /\ Components' = Components
      BY <1>5 DEF FinishLevels, search, Components
    <2>2. \A c \in 0..MaxTot - 1 : deg[c] = 0
      <3>1. Descends(G, n) /\ CountsLeft(G, 0..n - 1, MaxTot, deg, <<>>)
        BY <1>0, <2>1 DEF Leveling
      <3> QED BY <1>0, <1>M, <3>1, AllTaken
    <2> QED BY <2>1, <2>2 DEF Leveling
  <1>6. CASE Begin
    <2>1. PICK file \in Files : Read(file) /\ stage \in {"new", "done"}
      BY <1>6, FilesAssumption DEF Begin
    <2> QED BY <2>1 DEF Read, Leveling
  <1>7. CASE UNCHANGED vars
    BY <1>7 DEF vars, search, sorting, Components, Leveling
  <1> QED BY <1>1, <1>2, <1>3, <1>4, <1>5, <1>6, <1>7 DEF Next, Work

\* No object is there yet.
LEMMA LevelingStarts == Init => Leveling
  <1> SUFFICES ASSUME Init PROVE Leveling
    OBVIOUS
  <1>1. /\ stage = "new" /\ G = <<>> /\ queue = <<>> /\ deg = [c \in 0..MaxTot - 1 |-> 0]
    BY DEF Init
  <1> QED BY <1>1 DEF Leveling

\* The inductive invariant of read() and toposort().
LEMMA LevelsAlways == Spec => [](SearchInv /\ Numbering /\ Counting /\ Leveling)
  <1> DEFINE I == SearchInv /\ Numbering /\ Counting /\ Leveling
  <1>1. Init => I
    BY SearchStarts, NumberingStarts, CountingStarts, LevelingStarts
  <1>2. I /\ [Next]_vars => I'
    BY SearchStep, NumberingStep, CountingStep, LevelingStep
  <1> HIDE DEF I
  <1>3. Spec => []I
    BY <1>1, <1>2, PTL DEF Spec
  <1> QED BY <1>3 DEF I

\* It makes the levels exact.
LEMMA LevelingIsExact == SearchInv /\ Numbering /\ Counting /\ Leveling => LevelsExact
  <1> SUFFICES ASSUME SearchInv, Numbering, Counting, Leveling, stage = "done" PROVE
        /\ \A c \in DOMAIN deg : deg[c] = 0
        /\ \A c \in Components :
             tln[c] = 1 + Most({0} \cup {tln[b] : b \in {b \in Components : c \in Range(G[b])}})
    BY DEF LevelsExact
  <1>1. /\ \A c \in DOMAIN deg : deg[c] = 0
        /\ Placed(G, Components, deg, <<>>, tln) /\ Components \subseteq DOMAIN deg
    <2>1. scc_cnt \in Nat
      BY DEF SearchInv, SearchTypes
    <2>2. scc_cnt <= MaxTot /\ MaxTot \in Nat
      BY <2>1, ComponentsFit, FilesAssumption
    <2>3. Components \subseteq 0..MaxTot - 1
      BY <2>1, <2>2 DEF Components
    <2> QED BY <2>3 DEF Leveling
  <1>2. \A c \in Components : deg[c] = 0
    BY <1>1
  <1> QED BY <1>1, <1>2, PlacedExactly

\* And the types right.
LEMMA InvTypes == SearchInv /\ Numbering /\ Counting /\ Leveling => TypeOK
  <1> SUFFICES ASSUME SearchInv, Numbering, Counting, Leveling PROVE TypeOK
    OBVIOUS
  <1>1. /\ \A u \in Nodes : GG[u] \in Seq(Nodes)
        /\ pre \in [Nodes -> Nat] /\ lowlink \in [Nodes -> Nat] /\ sccno \in [Nodes -> Nat]
        /\ stack \in Seq(Nodes) /\ frames \in Seq([node : Nodes, next : Nat \ {0}])
        /\ root \in Nat /\ dfs_clock \in Nat /\ scc_cnt \in Nat
        /\ \A u \in Nodes : pre[u] <= dfs_clock /\ sccno[u] <= scc_cnt
    BY DEF SearchInv, SearchTypes, Numbered
  <1>2. MaxTot \in Nat /\ scc_cnt <= MaxTot
    BY ComponentsFit, FilesAssumption
  <1>3. root <= MaxTot /\ dfs_clock <= MaxTot
    <2>1. /\ Cardinality({u \in Nodes : pre[u] # 0}) \in Nat
          /\ Cardinality({u \in Nodes : pre[u] # 0}) <= Cardinality(Nodes)
          /\ Cardinality(Nodes) \in Nat
      BY NodesCounted
    <2> QED BY <1>1, <1>2, <2>1 DEF Counting
  <1>4. \A u \in Nodes : lowlink[u] <= dfs_clock
    BY DEF Counting
  <1>5. ASSUME NEW f \in {pre, lowlink, sccno} PROVE f \in [Nodes -> 0..MaxTot]
    <2>1. ASSUME NEW u \in Nodes PROVE f[u] \in 0..MaxTot
      <3>1. /\ pre[u] \in Nat /\ lowlink[u] \in Nat /\ sccno[u] \in Nat
            /\ pre[u] <= dfs_clock /\ lowlink[u] <= dfs_clock /\ sccno[u] <= scc_cnt
        BY <1>1, <1>4
      <3>2. \A a \in Nat : a <= dfs_clock \/ a <= scc_cnt => a \in 0..MaxTot
        BY <1>1, <1>2, <1>3
      <3>3. pre[u] \in 0..MaxTot /\ lowlink[u] \in 0..MaxTot /\ sccno[u] \in 0..MaxTot
        BY <3>1, <3>2
      <3> QED BY <3>3
    <2>2. f \in [Nodes -> Nat]
      BY <1>1
    <2> QED BY <2>1, <2>2
  <1>6. \A u \in Nodes : Range(GG[u]) \subseteq Nodes
    BY <1>1 DEF Range
  <1>7. \A i \in DOMAIN frames : frames[i].node \in Nodes
    BY CallFacts
  <1>8. G # <<>> => \A c \in Components : Range(G[c]) \subseteq Components
    <2> SUFFICES ASSUME G # <<>>, NEW c \in Components PROVE Range(G[c]) \subseteq Components
      OBVIOUS
    <2>1. Descends(G, scc_cnt)
      BY DEF Leveling
    <2>2. G[c] \in Seq(Components)
      BY <2>1 DEF Descends, Components
    <2> QED BY <2>2 DEF Range
  <1>9. Range(queue) \subseteq Components
    <2>1. CASE stage = "levels"
      <3>1. queue \in Seq(Components)
        BY <2>1 DEF Leveling, Queued
      <3> QED BY <3>1 DEF Range
    <2>2. CASE stage # "levels"
      <3>1. queue = <<>>
        BY <2>2 DEF Leveling
      <3> QED BY <3>1 DEF Range
    <2> QED BY <2>1, <2>2
  <1>10. root \in 0..MaxTot /\ dfs_clock \in 0..MaxTot /\ scc_cnt \in 0..MaxTot
    BY <1>1, <1>2, <1>3
  <1>11. stage \in {"new", "scc", "sort", "levels", "done"} /\ deg \in [0..MaxTot - 1 -> Nat]
    BY DEF Leveling
  <1> QED BY <1>1, <1>5, <1>6, <1>7, <1>8, <1>9, <1>10, <1>11 DEF TypeOK

-----------------------------------------------------------------------------
(* Powers of two, and the least of a set of numbers                          *)

\* The subsets of a set with one more element are twice as many.
LEMMA PowerDoubles == ASSUME NEW k \in Nat PROVE 2^k \in Nat /\ 2^(k + 1) = 2 * 2^k
  <1> DEFINE S == 1..k
             new == k + 1
             T == SUBSET S
             f == [X \in T |-> X \cup {new}]
             U == {f[X] : X \in T}
  <1>1. IsFiniteSet(S) /\ Cardinality(S) = k /\ new \notin S
    BY UpTo
  <1> HIDE DEF S
  <1>2. IsFiniteSet(T) /\ Cardinality(T) = 2^k
    BY <1>1, FS_SUBSET
  <1>3. Cardinality(T) \in Nat
    BY <1>2, FS_CardinalityType
  <1>4. f \in Bijection(T, U)
    <2>1. f \in [T -> U]
      OBVIOUS
    <2>2. \A X, Y \in T : f[X] = f[Y] => X = Y
      <3> SUFFICES ASSUME NEW X \in T, NEW Y \in T, X \cup {new} = Y \cup {new} PROVE X = Y
        OBVIOUS
      <3>1. X \subseteq S /\ Y \subseteq S
        OBVIOUS
      <3>2. new \notin X /\ new \notin Y
        BY <1>1, <3>1
      <3> QED BY <3>2
    <2>3. \A y \in U : \E X \in T : f[X] = y
      OBVIOUS
    <2> HIDE DEF f, T, U
    <2> QED BY <2>1, <2>2, <2>3, Fun_IsBij
  <1>5. IsFiniteSet(U) /\ Cardinality(U) = Cardinality(T)
    <2> HIDE DEF f, T, U
    <2> QED BY <1>2, <1>4, FS_Bijection DEF ExistsBijection
  <1>6. T \cap U = {} /\ T \cup U = SUBSET (S \cup {new})
    <2>1. \A X \in T : new \notin X
      BY <1>1
    <2>2. \A Y \in U : new \in Y /\ Y \subseteq S \cup {new}
      OBVIOUS
    <2>3. ASSUME NEW Y, Y \subseteq S \cup {new} PROVE Y \in T \cup U
      <3>1. CASE new \in Y
        <4>1. Y \ {new} \in T
          BY <2>3
        <4>2. f[Y \ {new}] = Y
          BY <3>1, <4>1
        <4> QED BY <4>1, <4>2
      <3>2. CASE new \notin Y
        BY <2>3, <3>2
      <3> QED BY <3>1, <3>2
    <2>4. \A X \in T : X \subseteq S \cup {new}
      OBVIOUS
    <2> HIDE DEF U, T
    <2> QED BY <2>1, <2>2, <2>3, <2>4
  <1>7. Cardinality(T \cup U) = 2^k + 2^k
    <2>1. Cardinality(T \cup U) = Cardinality(T) + Cardinality(U) - Cardinality(T \cap U)
      BY <1>2, <1>5, FS_Union
    <2>2. Cardinality(T \cap U) = 0
      BY <1>6, FS_EmptySet
    <2> QED BY <1>2, <1>3, <1>5, <2>1, <2>2
  <1>8. /\ IsFiniteSet(S \cup {new}) /\ Cardinality(S \cup {new}) = k + 1
    BY <1>1, FS_AddElement
  <1>9. Cardinality(SUBSET (S \cup {new})) = 2^(k + 1)
    BY <1>8, FS_SUBSET
  <1>10. 2^k \in Nat
    BY <1>2, <1>3
  <1>11. 2^(k + 1) = 2^k + 2^k
    BY <1>6, <1>7, <1>9
  <1> HIDE DEF T, U, f, new
  <1> QED BY <1>10, <1>11

\* A set of numbers has a least one.
LEMMA HasLeast ==
  ASSUME NEW D, D \subseteq Nat, D # {}
  PROVE  \E d \in D : \A m \in D : d <= m
  <1>1. PICK d \in D : \A m \in D : ~ <<m, d>> \in OpToRel(<, Nat)
    BY NatLessThanWellFounded, WFMin
  <1>2. \A m \in D : ~ (m < d)
    BY <1>1 DEF OpToRel
  <1> QED BY <1>2

\* A power of two is larger than its exponent.
LEMMA PowerLarge == \A k \in Nat : k < 2^k
  <1> DEFINE D == {k \in Nat : ~ (k < 2^k)}
  <1> SUFFICES ASSUME D # {} PROVE FALSE
    OBVIOUS
  <1>1. PICK k \in D : \A m \in D : k <= m
    <2>1. D \subseteq Nat
      OBVIOUS
    <2> HIDE DEF D
    <2> QED BY <2>1, HasLeast
  <1>2. k \in Nat /\ ~ (k < 2^k)
    OBVIOUS
  <1>3. 0 < 2^0
    <2>1. 2^0 = 1
      OBVIOUS
    <2> QED BY <2>1
  <1>4. k # 0
    BY <1>2, <1>3, Zenon
  <1>5. k - 1 \in Nat /\ k - 1 \notin D
    BY <1>1, <1>2, <1>4
  <1>6. k - 1 < 2^(k - 1)
    BY <1>5
  <1>7. 2^(k - 1) \in Nat /\ 2^k = 2 * 2^(k - 1)
    <2>1. k - 1 + 1 = k
      BY <1>2
    <2>2. 2^(k - 1) \in Nat /\ 2^(k - 1 + 1) = 2 * 2^(k - 1)
      BY <1>5, PowerDoubles
    <2> QED BY <2>1, <2>2
  <1>8. PICK p \in Nat, q \in Nat : p = 2^(k - 1) /\ q = 2^k
    <2>1. 2^(k - 1) \in Nat /\ 2^k \in Nat
      BY <1>2, <1>7, PowerDoubles
    <2> QED BY <2>1
  <1>9. q = 2 * p /\ k - 1 < p /\ ~ (k < q)
    BY <1>2, <1>6, <1>7, <1>8
  <1> HIDE DEF D
  <1> QED BY <1>2, <1>4, <1>9

\* The logarithm toposort() takes exists where an edge joins two components.
LEMMA RoundsEnough ==
  ASSUME maxx \in Nat, maxx # 0, TF = Rounds
  PROVE  TF \in Nat /\ TF >= 1 /\ maxx < 2^TF
  <1> DEFINE D == {k \in Nat : maxx < 2^(k + 1)}
             log(k) == k \in 0..maxx /\ 2^k <= maxx /\ maxx < 2^(k + 1)
  <1>1. maxx \in D
    <2>1. maxx < 2^maxx /\ 2^maxx \in Nat /\ 2^(maxx + 1) = 2 * 2^maxx
      BY PowerLarge, PowerDoubles
    <2> QED BY <2>1
  <1>2. PICK k \in D : \A m \in D : k <= m
    <2>1. D \subseteq Nat /\ D # {}
      BY <1>1
    <2> HIDE DEF D
    <2> QED BY <2>1, HasLeast
  <1>3. k \in Nat /\ maxx < 2^(k + 1) /\ 2^k \in Nat
    BY PowerDoubles
  <1>4. k <= maxx
    BY <1>1, <1>2
  <1>5. 2^k <= maxx
    <2>1. CASE k = 0
      <3>1. 2^0 = 1
        OBVIOUS
      <3> QED BY <2>1, <3>1
    <2>2. CASE k # 0
      <3>1. k - 1 \in Nat /\ k - 1 \notin D /\ k - 1 + 1 = k
        BY <1>2, <1>3, <2>2
      <3>2. ~ (maxx < 2^k)
        BY <3>1
      <3> QED BY <1>3, <3>2
    <2> QED BY <2>1, <2>2
  <1>6. log(k)
    BY <1>3, <1>4, <1>5
  <1>7. TF = 1 + CHOOSE j \in 0..maxx : 2^j <= maxx /\ maxx < 2^(j + 1)
    BY DEF Rounds
  <1>8. PICK j : j = CHOOSE i \in 0..maxx : 2^i <= maxx /\ maxx < 2^(i + 1)
    OBVIOUS
  <1>9. j \in 0..maxx /\ 2^j <= maxx /\ maxx < 2^(j + 1)
    BY <1>6, <1>8
  <1>10. TF = j + 1 /\ j \in Nat
    BY <1>7, <1>8, <1>9
  <1> QED BY <1>9, <1>10

\* Where no edge joins two components the cast gives a number below one.
LEMMA RoundsType == ASSUME maxx \in Nat, TF = Rounds PROVE TF \in Int
  <1>1. CASE maxx = 0
    BY <1>1 DEF Rounds, LeastInt
  <1>2. CASE maxx # 0
    BY <1>2, RoundsEnough
  <1> QED BY <1>1, <1>2

-----------------------------------------------------------------------------
(* Levels of the store while construct() changes it: R, E and o are the      *)
(* nodes, the edges and the levels of nodes.                                 *)

\* edges lead to higher levels
Rises(E, o) == \A e \in E : o[e[1]] < o[e[2]]

\* an edge from a node of S of an odd level leads to the next one
FlatOut(E, o, S) == \A e \in E : e[1] \in S /\ IsOdd(o[e[1]]) => o[e[2]] = o[e[1]] + 1

\* an edge to a node of S of an odd level comes from the one before
FlatIn(E, o, S) == \A e \in E : e[2] \in S /\ IsOdd(o[e[2]]) => o[e[2]] = o[e[1]] + 1

\* levels are numbers below 2^k, and edges lead to higher ones
Leveled(R, E, o, k) ==
  o \in [R -> Nat \ {0}] /\ (\A n \in R : o[n] < 2^k) /\ Rises(E, o)

\* o1 are the levels o and that of a new node m
WithLevel(o1, R, o, m, l) ==
  DOMAIN o1 = R \cup {m} /\ o1 = [x \in DOMAIN o1 |-> o1[x]] /\ o1[m] = l /\ \A x \in R : o1[x] = o[x]

\* those that SplitOut, or SplitIn, puts a new node before
FarOut(E, o, n, far) == IsOdd(o[n]) /\ \A y : y \in far <=> <<n, y>> \in E /\ o[y] > o[n] + 1
FarIn(E, o, n, far) == IsOdd(o[n]) /\ \A y : y \in far <=> <<y, n>> \in E /\ o[y] < o[n] - 1 /\ ~ IsOdd(o[y])

\* A number is odd or the next one is.
LEMMA OddNext == ASSUME NEW l \in Nat PROVE IsOdd(l + 1) <=> ~ IsOdd(l)
  BY DEF IsOdd

\* The new node of SplitOut makes the edges from n flat, and no other steep.
LEMMA SplitOutLevels ==
  ASSUME NEW R, NEW E, E \subseteq R \X R, NEW o, NEW k \in Nat, Leveled(R, E, o, k), NEW S, FlatOut(E, o, S),
         NEW n \in R, NEW far, far # {}, FarOut(E, o, n, far), NEW m, m \notin R,
         NEW o1, WithLevel(o1, R, o, m, o[n] + 1)
  PROVE  /\ Leveled(R \cup {m}, Detour(E, {n}, far, m), o1, k)
         /\ FlatOut(Detour(E, {n}, far, m), o1, S \cup {n, m})
  <1> DEFINE E1 == Detour(E, {n}, far, m)
  <1>1. /\ \A x \in R : o[x] \in Nat \ {0} /\ o[x] < 2^k /\ o1[x] = o[x]
        /\ o1[m] = o[n] + 1 /\ DOMAIN o1 = R \cup {m} /\ o1 = [x \in DOMAIN o1 |-> o1[x]]
    BY DEF Leveled, WithLevel
  <1>2. \A e \in E1 : \/ e \in E /\ e[1] \in R /\ e[2] \in R /\ ~ (e[1] = n /\ e[2] \in far)
                      \/ e[1] = n /\ e[2] = m
                      \/ e[1] = m /\ e[2] \in far
    <2> SUFFICES ASSUME NEW e \in E1
                 PROVE  \/ e \in E /\ e[1] \in R /\ e[2] \in R /\ ~ (e[1] = n /\ e[2] \in far)
                        \/ e[1] = n /\ e[2] = m
                        \/ e[1] = m /\ e[2] \in far
      OBVIOUS
    <2>1. CASE e \in E /\ e \notin {n} \X far
      <3>1. e \in R \X R /\ e = <<e[1], e[2]>>
        BY <2>1
      <3> QED BY <2>1, <3>1
    <2>2. CASE e \in {n} \X {m}
      BY <2>2
    <2>3. CASE e \in {m} \X far
      BY <2>3
    <2> QED BY <2>1, <2>2, <2>3 DEF Detour
  <1>3. \A y \in far : y \in R /\ o[y] > o[n] + 1
    <2> SUFFICES ASSUME NEW y \in far PROVE y \in R /\ o[y] > o[n] + 1
      OBVIOUS
    <2>1. <<n, y>> \in E /\ o[y] > o[n] + 1
      BY DEF FarOut
    <2>2. <<n, y>> \in R \X R
      BY <2>1
    <2> QED BY <2>1, <2>2
  <1>4. IsOdd(o[n]) /\ ~ IsOdd(o1[m])
    BY <1>1, OddNext DEF FarOut
  <1>5. \A e \in E : o[e[1]] < o[e[2]]
    BY DEF Leveled, Rises
  <1>6. \A e \in E : e[1] = n /\ e[2] \notin far => o[e[2]] = o[n] + 1
    <2> SUFFICES ASSUME NEW e \in E, e[1] = n, e[2] \notin far PROVE o[e[2]] = o[n] + 1
      OBVIOUS
    <2>1. e = <<n, e[2]>> /\ e[2] \in R
      OBVIOUS
    <2>2. ~ (o[e[2]] > o[n] + 1) /\ o[n] < o[e[2]]
      BY <1>5, <2>1 DEF FarOut
    <2> QED BY <1>1, <2>1, <2>2
  <1>7. \A e \in E : e[1] \in S /\ IsOdd(o[e[1]]) => o[e[2]] = o[e[1]] + 1
    BY DEF FlatOut
  <1>8. o1[m] \in Nat \ {0} /\ o1[m] < 2^k
    <2>1. PICK y \in far : TRUE
      OBVIOUS
    <2>2. y \in R /\ o[y] > o[n] + 1 /\ o[y] < 2^k /\ o[y] \in Nat /\ o[n] \in Nat
      BY <1>1, <1>3, <2>1
    <2>3. PICK p \in Nat : p = 2^k
      BY PowerDoubles
    <2>4. o[n] + 1 < p
      BY <2>2, <2>3
    <2> QED BY <1>1, <2>2, <2>3, <2>4
  <1> HIDE DEF E1
  <1>9. Rises(E1, o1)
    <2> SUFFICES ASSUME NEW e \in E1 PROVE o1[e[1]] < o1[e[2]]
      BY DEF Rises
    <2>1. CASE e \in E /\ e[1] \in R /\ e[2] \in R
      BY <1>1, <1>5, <2>1
    <2>2. CASE e[1] = n /\ e[2] = m
      BY <1>1, <2>2
    <2>3. CASE e[1] = m /\ e[2] \in far
      BY <1>1, <1>3, <2>3
    <2> QED BY <1>2, <2>1, <2>2, <2>3
  <1>10. FlatOut(E1, o1, S \cup {n, m})
    <2> SUFFICES ASSUME NEW e \in E1, e[1] \in S \cup {n, m}, IsOdd(o1[e[1]]) PROVE o1[e[2]] = o1[e[1]] + 1
      BY DEF FlatOut
    <2>1. CASE e \in E /\ e[1] \in R /\ e[2] \in R /\ ~ (e[1] = n /\ e[2] \in far)
      BY <1>1, <1>6, <1>7, <2>1
    <2>2. CASE e[1] = n /\ e[2] = m
      BY <1>1, <2>2
    <2>3. CASE e[1] = m /\ e[2] \in far
      BY <1>4, <2>3
    <2> QED BY <1>2, <2>1, <2>2, <2>3
  <1>11. o1 \in [R \cup {m} -> Nat \ {0}] /\ \A x \in R \cup {m} : o1[x] < 2^k
    BY <1>1, <1>8
  <1> QED BY <1>9, <1>10, <1>11 DEF Leveled, E1

\* Where there is nothing to split, the edges from n are flat already.
LEMMA NoSplitOut ==
  ASSUME NEW R, NEW E, E \subseteq R \X R, NEW o, NEW k \in Nat, Leveled(R, E, o, k), NEW S, FlatOut(E, o, S),
         NEW n \in R, ~ IsOdd(o[n]) \/ FarOut(E, o, n, {})
  PROVE  FlatOut(E, o, S \cup {n})
  <1> SUFFICES ASSUME NEW e \in E, e[1] \in S \cup {n}, IsOdd(o[e[1]]) PROVE o[e[2]] = o[e[1]] + 1
    BY DEF FlatOut
  <1>1. CASE e[1] \in S
    BY <1>1 DEF FlatOut
  <1>2. CASE e[1] = n
    <2>1. e = <<n, e[2]>> /\ e[2] \in R
      BY <1>2
    <2>2. ~ (o[e[2]] > o[n] + 1)
      BY <1>2, <2>1 DEF FarOut
    <2>3. o[n] < o[e[2]] /\ o[n] \in Nat /\ o[e[2]] \in Nat
      BY <1>2, <2>1 DEF Leveled, Rises
    <2> QED BY <1>2, <2>2, <2>3
  <1> QED BY <1>1, <1>2

\* Nor does SplitIn make an edge steep that was flat, and those to n are flat then.
LEMMA SplitInLevels ==
  ASSUME NEW R, NEW E, E \subseteq R \X R, NEW o, NEW k \in Nat, Leveled(R, E, o, k),
         FlatOut(E, o, R), NEW S, FlatIn(E, o, S),
         NEW n \in R, NEW far, far # {}, FarIn(E, o, n, far), NEW m, m \notin R,
         NEW o1, WithLevel(o1, R, o, m, o[n] - 1)
  PROVE  /\ Leveled(R \cup {m}, Detour(E, far, {n}, m), o1, k)
         /\ FlatOut(Detour(E, far, {n}, m), o1, R \cup {m})
         /\ FlatIn(Detour(E, far, {n}, m), o1, S \cup {n, m})
  <1> DEFINE E1 == Detour(E, far, {n}, m)
  <1>1. /\ \A x \in R : o[x] \in Nat \ {0} /\ o[x] < 2^k /\ o1[x] = o[x]
        /\ o1[m] = o[n] - 1 /\ DOMAIN o1 = R \cup {m} /\ o1 = [x \in DOMAIN o1 |-> o1[x]]
    BY DEF Leveled, WithLevel
  <1>2. \A e \in E1 : \/ e \in E /\ e[1] \in R /\ e[2] \in R /\ ~ (e[2] = n /\ e[1] \in far)
                      \/ e[2] = n /\ e[1] = m
                      \/ e[2] = m /\ e[1] \in far
    <2> SUFFICES ASSUME NEW e \in E1
                 PROVE  \/ e \in E /\ e[1] \in R /\ e[2] \in R /\ ~ (e[2] = n /\ e[1] \in far)
                        \/ e[2] = n /\ e[1] = m
                        \/ e[2] = m /\ e[1] \in far
      OBVIOUS
    <2>1. CASE e \in E /\ e \notin far \X {n}
      <3>1. e \in R \X R /\ e = <<e[1], e[2]>>
        BY <2>1
      <3> QED BY <2>1, <3>1
    <2>2. CASE e \in {m} \X {n}
      BY <2>2
    <2>3. CASE e \in far \X {m}
      BY <2>3
    <2> QED BY <2>1, <2>2, <2>3 DEF Detour
  <1>3. \A y \in far : y \in R /\ o[y] < o[n] - 1 /\ ~ IsOdd(o[y])
    <2> SUFFICES ASSUME NEW y \in far PROVE y \in R /\ o[y] < o[n] - 1 /\ ~ IsOdd(o[y])
      OBVIOUS
    <2>1. <<y, n>> \in E /\ o[y] < o[n] - 1 /\ ~ IsOdd(o[y])
      BY DEF FarIn
    <2>2. <<y, n>> \in R \X R
      BY <2>1
    <2> QED BY <2>1, <2>2
  <1>4. o1[m] \in Nat \ {0} /\ o1[m] < 2^k
    <2>1. PICK y \in far : TRUE
      OBVIOUS
    <2>2. y \in R /\ o[y] < o[n] - 1 /\ o[n] < 2^k /\ o[y] \in Nat /\ o[n] \in Nat
      BY <1>1, <1>3, <2>1
    <2>3. PICK p \in Nat : p = 2^k
      BY PowerDoubles
    <2>4. o[n] - 1 < p
      BY <2>2, <2>3
    <2>5. o[n] - 1 \in Nat \ {0}
      BY <2>2
    <2> QED BY <1>1, <2>3, <2>4, <2>5
  <1>5. IsOdd(o[n]) /\ ~ IsOdd(o1[m])
    <2>1. o1[m] \in Nat /\ o[n] = o1[m] + 1
      BY <1>1, <1>4
    <2> QED BY <2>1, OddNext DEF FarIn
  <1>6. \A e \in E : o[e[1]] < o[e[2]]
    BY DEF Leveled, Rises
  <1>7. \A e \in E : e[1] \in R /\ IsOdd(o[e[1]]) => o[e[2]] = o[e[1]] + 1
    BY DEF FlatOut
  <1>8. \A e \in E : e[2] = n /\ e[1] \notin far => o[n] = o[e[1]] + 1
    <2> SUFFICES ASSUME NEW e \in E, e[2] = n, e[1] \notin far PROVE o[n] = o[e[1]] + 1
      OBVIOUS
    <2>1. e = <<e[1], n>> /\ e[1] \in R
      OBVIOUS
    <2>2. CASE IsOdd(o[e[1]])
      BY <1>7, <2>1, <2>2
    <2>3. CASE ~ IsOdd(o[e[1]])
      <3>1. ~ (o[e[1]] < o[n] - 1) /\ o[e[1]] < o[n]
        BY <1>6, <2>1, <2>3 DEF FarIn
      <3> QED BY <1>1, <2>1, <3>1
    <2> QED BY <2>2, <2>3
  <1>9. \A e \in E : e[2] \in S /\ IsOdd(o[e[2]]) => o[e[2]] = o[e[1]] + 1
    BY DEF FlatIn
  <1> HIDE DEF E1
  <1>10. Rises(E1, o1)
    <2> SUFFICES ASSUME NEW e \in E1 PROVE o1[e[1]] < o1[e[2]]
      BY DEF Rises
    <2>1. CASE e \in E /\ e[1] \in R /\ e[2] \in R
      BY <1>1, <1>6, <2>1
    <2>2. CASE e[2] = n /\ e[1] = m
      BY <1>1, <2>2
    <2>3. CASE e[2] = m /\ e[1] \in far
      BY <1>1, <1>3, <2>3
    <2> QED BY <1>2, <2>1, <2>2, <2>3
  <1>11. FlatOut(E1, o1, R \cup {m})
    <2> SUFFICES ASSUME NEW e \in E1, e[1] \in R \cup {m}, IsOdd(o1[e[1]]) PROVE o1[e[2]] = o1[e[1]] + 1
      BY DEF FlatOut
    <2>1. CASE e \in E /\ e[1] \in R /\ e[2] \in R
      BY <1>1, <1>7, <2>1
    <2>2. CASE e[2] = n /\ e[1] = m
      BY <1>5, <2>2
    <2>3. CASE e[2] = m /\ e[1] \in far
      BY <1>1, <1>3, <2>3
    <2> QED BY <1>2, <2>1, <2>2, <2>3
  <1>12. FlatIn(E1, o1, S \cup {n, m})
    <2> SUFFICES ASSUME NEW e \in E1, e[2] \in S \cup {n, m}, IsOdd(o1[e[2]]) PROVE o1[e[2]] = o1[e[1]] + 1
      BY DEF FlatIn
    <2>1. CASE e \in E /\ e[1] \in R /\ e[2] \in R /\ ~ (e[2] = n /\ e[1] \in far)
      BY <1>1, <1>8, <1>9, <2>1
    <2>2. CASE e[2] = n /\ e[1] = m
      BY <1>1, <2>2
    <2>3. CASE e[2] = m /\ e[1] \in far
      BY <1>5, <2>3
    <2> QED BY <1>2, <2>1, <2>2, <2>3
  <1>13. o1 \in [R \cup {m} -> Nat \ {0}] /\ \A x \in R \cup {m} : o1[x] < 2^k
    BY <1>1, <1>4
  <1> QED BY <1>10, <1>11, <1>12, <1>13 DEF Leveled, E1

\* Where there is nothing to split, the edges to n are flat already.
LEMMA NoSplitIn ==
  ASSUME NEW R, NEW E, E \subseteq R \X R, NEW o, NEW k \in Nat, Leveled(R, E, o, k),
         FlatOut(E, o, R), NEW S, FlatIn(E, o, S),
         NEW n \in R, ~ IsOdd(o[n]) \/ FarIn(E, o, n, {})
  PROVE  FlatIn(E, o, S \cup {n})
  <1> SUFFICES ASSUME NEW e \in E, e[2] \in S \cup {n}, IsOdd(o[e[2]]) PROVE o[e[2]] = o[e[1]] + 1
    BY DEF FlatIn
  <1>1. CASE e[2] \in S
    BY <1>1 DEF FlatIn
  <1>2. CASE e[2] = n
    <2>1. e = <<e[1], n>> /\ e[1] \in R
      BY <1>2
    <2>2. CASE IsOdd(o[e[1]])
      BY <2>1, <2>2 DEF FlatOut
    <2>3. CASE ~ IsOdd(o[e[1]])
      <3>1. ~ (o[e[1]] < o[n] - 1)
        BY <1>2, <2>1, <2>3 DEF FarIn
      <3>2. o[e[1]] < o[n] /\ o[n] \in Nat /\ o[e[1]] \in Nat
        BY <1>2, <2>1 DEF Leveled, Rises
      <3> QED BY <1>2, <3>1, <3>2
    <2> QED BY <2>2, <2>3
  <1> QED BY <1>1, <1>2

\* Without a node of an odd level, and with an edge for each way through it,
\* no level is passed over that was not: its neighbours have even levels.
LEMMA FoldLevels ==
  ASSUME NEW R, NEW E, E \subseteq R \X R, NEW o, NEW k \in Nat, Leveled(R, E, o, k),
         FlatOut(E, o, R), FlatIn(E, o, R), NEW n \in R, IsOdd(o[n]),
         NEW o1, DOMAIN o1 = R \ {n}, o1 = [x \in DOMAIN o1 |-> o1[x]], \A x \in R \ {n} : o1[x] = o[x]
  PROVE  /\ Leveled(R \ {n}, Bridged(E, R, n), o1, k)
         /\ FlatOut(Bridged(E, R, n), o1, R \ {n}) /\ FlatIn(Bridged(E, R, n), o1, R \ {n})
  <1> DEFINE E1 == Bridged(E, R, n)
  <1>1. \A x \in R : o[x] \in Nat \ {0} /\ o[x] < 2^k
    BY DEF Leveled
  <1>2. \A e \in E : o[e[1]] < o[e[2]]
    BY DEF Leveled, Rises
  <1>3. /\ \A e \in E : e[1] \in R /\ IsOdd(o[e[1]]) => o[e[2]] = o[e[1]] + 1
        /\ \A e \in E : e[2] \in R /\ IsOdd(o[e[2]]) => o[e[2]] = o[e[1]] + 1
    BY DEF FlatOut, FlatIn
  <1>4. \A a \in R : <<a, n>> \in E => o[n] = o[a] + 1 /\ ~ IsOdd(o[a]) /\ a # n
    <2> SUFFICES ASSUME NEW a \in R, <<a, n>> \in E PROVE o[n] = o[a] + 1 /\ ~ IsOdd(o[a]) /\ a # n
      OBVIOUS
    <2>1. o[n] = o[a] + 1
      BY <1>3
    <2> QED BY <1>1, <2>1, OddNext
  <1>5. \A b \in R : <<n, b>> \in E => o[b] = o[n] + 1 /\ ~ IsOdd(o[b]) /\ b # n
    <2> SUFFICES ASSUME NEW b \in R, <<n, b>> \in E PROVE o[b] = o[n] + 1 /\ ~ IsOdd(o[b]) /\ b # n
      OBVIOUS
    <2>1. o[b] = o[n] + 1
      BY <1>3
    <2> QED BY <1>1, <2>1, OddNext
  <1>6. \A e \in E1 : /\ e[1] \in R \ {n} /\ e[2] \in R \ {n}
                      /\ \/ e \in E
                         \/ o[n] = o[e[1]] + 1 /\ ~ IsOdd(o[e[1]]) /\ o[e[2]] = o[n] + 1 /\ ~ IsOdd(o[e[2]])
    <2> SUFFICES ASSUME NEW e \in E1
                 PROVE  /\ e[1] \in R \ {n} /\ e[2] \in R \ {n}
                        /\ \/ e \in E
                           \/ o[n] = o[e[1]] + 1 /\ ~ IsOdd(o[e[1]]) /\ o[e[2]] = o[n] + 1 /\ ~ IsOdd(o[e[2]])
      OBVIOUS
    <2>1. CASE e \in E /\ n \notin {e[1], e[2]}
      <3>1. e \in R \X R
        BY <2>1
      <3> QED BY <2>1, <3>1
    <2>2. CASE \E a \in R, b \in R : e = <<a, b>> /\ <<a, n>> \in E /\ <<n, b>> \in E
      <3>1. PICK a \in R, b \in R : e = <<a, b>> /\ <<a, n>> \in E /\ <<n, b>> \in E
        BY <2>2
      <3>2. e[1] = a /\ e[2] = b
        BY <3>1
      <3>3. o[n] = o[a] + 1 /\ ~ IsOdd(o[a]) /\ a # n
        BY <1>4, <3>1
      <3>4. o[b] = o[n] + 1 /\ ~ IsOdd(o[b]) /\ b # n
        BY <1>5, <3>1
      <3> QED BY <3>2, <3>3, <3>4
    <2>3. \/ e \in E /\ n \notin {e[1], e[2]}
          \/ \E a \in R, b \in R : e = <<a, b>> /\ <<a, n>> \in E /\ <<n, b>> \in E
      <3>1. CASE e \in {d \in E : n \notin {d[1], d[2]}}
        BY <3>1
      <3>2. CASE e \in {a \in R : <<a, n>> \in E} \X {b \in R : <<n, b>> \in E}
        <4> DEFINE A == {a \in R : <<a, n>> \in E}
                   B == {b \in R : <<n, b>> \in E}
        <4>1. e[1] \in A /\ e[2] \in B /\ e = <<e[1], e[2]>>
          <5>1. e \in A \X B
            BY <3>2
          <5> HIDE DEF A, B
          <5> QED BY <5>1
        <4>2. \A a \in A : a \in R /\ <<a, n>> \in E
          OBVIOUS
        <4>3. \A b \in B : b \in R /\ <<n, b>> \in E
          OBVIOUS
        <4> HIDE DEF A, B
        <4> QED BY <4>1, <4>2, <4>3
      <3> QED BY <3>1, <3>2 DEF Bridged
    <2> QED BY <2>1, <2>2, <2>3, Zenon
  <1> HIDE DEF E1
  <1>7. Rises(E1, o1)
    <2> SUFFICES ASSUME NEW e \in E1 PROVE o1[e[1]] < o1[e[2]]
      BY DEF Rises
    <2>1. e[1] \in R /\ e[2] \in R /\ o1[e[1]] = o[e[1]] /\ o1[e[2]] = o[e[2]]
      BY <1>6
    <2> QED BY <1>1, <1>2, <1>6, <2>1
  <1>8. FlatOut(E1, o1, R \ {n})
    <2> SUFFICES ASSUME NEW e \in E1, IsOdd(o1[e[1]]) PROVE o1[e[2]] = o1[e[1]] + 1
      BY DEF FlatOut
    <2>1. e[1] \in R /\ e[2] \in R /\ o1[e[1]] = o[e[1]] /\ o1[e[2]] = o[e[2]]
      BY <1>6
    <2> QED BY <1>3, <1>6, <2>1
  <1>9. FlatIn(E1, o1, R \ {n})
    <2> SUFFICES ASSUME NEW e \in E1, IsOdd(o1[e[2]]) PROVE o1[e[2]] = o1[e[1]] + 1
      BY DEF FlatIn
    <2>1. e[1] \in R /\ e[2] \in R /\ o1[e[1]] = o[e[1]] /\ o1[e[2]] = o[e[2]]
      BY <1>6
    <2> QED BY <1>3, <1>6, <2>1
  <1>10. o1 \in [R \ {n} -> Nat \ {0}] /\ \A x \in R \ {n} : o1[x] < 2^k
    <2>1. \A x \in R \ {n} : o1[x] \in Nat \ {0} /\ o1[x] < 2^k
      BY <1>1
    <2> QED BY <2>1
  <1> QED BY <1>7, <1>8, <1>9, <1>10 DEF Leveled, E1

-----------------------------------------------------------------------------
(* How high the levels are                                                   *)

\* Where the file leads from one component to another, the list of the one has the other.
LEMMA CrossingListed ==
  ASSUME SearchInv, Numbering, frames = <<>>, root \notin Nodes, NEW e \in Crossing
  PROVE  e[1] \in Components /\ e[2] \in Range(Between(e[1]))
  <1>1. PICK u \in Nodes :
          e \in {sccno[u] - 1} \X ({sccno[v] - 1 : v \in Range(GG[u])} \ {sccno[u] - 1})
    BY DEF Crossing
  <1>2. PICK v \in Range(GG[u]) : e = <<sccno[u] - 1, sccno[v] - 1>> /\ sccno[v] - 1 # sccno[u] - 1
    BY <1>1
  <1>3. sccno[u] \in 1..scc_cnt /\ scc_cnt \in Nat
    BY AllNumbered
  <1>4. PICK k \in DOMAIN GG[u] : GG[u][k] = v
    BY DEF Range
  <1>5. PICK c \in Components : c = sccno[u] - 1
    BY <1>3 DEF Components
  <1>6. sccno[u] = c + 1
    BY <1>3, <1>5
  <1>7. sccno[v] # c + 1
    BY <1>2, <1>6
  <1>8. sccno[v] - 1 \in Range(Between(c))
    BY <1>4, <1>6, <1>7, BetweenLists
  <1> QED BY <1>2, <1>5, <1>8

\* The highest of a finite set of numbers is one of it.
LEMMA MostOf ==
  ASSUME NEW S, S \subseteq Int, IsFiniteSet(S), S # {}
  PROVE  Most(S) \in S /\ \A y \in S : y <= Most(S)
  <1> PICK n : n = Cardinality(S)
    OBVIOUS
  <1> PICK s : s = Ascending(S)
    OBVIOUS
  <1>1. /\ n \in Nat /\ s \in [1..n -> S]
        /\ \A i, j \in 1..n : i < j => s[i] < s[j]
        /\ \A x \in S : \E i \in 1..n : s[i] = x
    BY ListedAscending
  <1>2. n >= 1
    <2>1. PICK x \in S : TRUE
      OBVIOUS
    <2>2. PICK i \in 1..n : s[i] = x
      BY <1>1
    <2> QED BY <1>1, <2>2
  <1>3. s[n] \in S /\ \A y \in S : y <= s[n]
    <2>1. n \in 1..n /\ s[n] \in S
      BY <1>1, <1>2
    <2>2. ASSUME NEW y \in S PROVE y <= s[n]
      <3>1. PICK i \in 1..n : s[i] = y
        BY <1>1
      <3>2. s[i] < s[n] \/ i = n
        BY <1>1, <2>1
      <3>3. s[i] \in Int /\ s[n] \in Int
        BY <1>1, <2>1
      <3> QED BY <3>1, <3>2, <3>3
    <2> QED BY <2>1, <2>2
  <1> QED BY <1>3, MostIs

\* No level is above m but the first, and the highest of m and the levels of s.
Under(t, N, m) == \A c \in N : t[c] <= m \/ t[c] <= 1
Top(m, t, s) == Most({m} \cup {t[y] : y \in Range(s)})

\* The edges of the file between components, and the lists of G.
Listed == \A e \in Crossing : e[1] \in Components /\ e[2] \in Range(G[e[1]])

\* maxx is as high as the levels of components that an edge leads to.
Topping ==
  /\ maxx \in Nat
  /\ stage \in {"new", "scc"} => maxx = 0
  /\ maxx # 0 => Components # {}
  /\ stage \in {"sort", "levels", "done"} => Listed
  /\ stage \in {"levels", "done"} => Under(tln, Components, maxx)
  /\ stage = "done" => TF = Rounds

\* What an element of the queue raises, maxx is raised to.
LEMMA TakeTops ==
  ASSUME NEW N, NEW t, t \in [N -> Nat], NEW s, s \in Seq(N), NEW m \in Nat,
         Under(t, N, m), NEW t1, t1 \in [N -> Nat], \A y \in N : y \notin Range(s) => t1[y] = t[y]
  PROVE  Top(m, t1, s) \in Nat /\ Under(t1, N, Top(m, t1, s))
  <1> PICK m1 : m1 = Top(m, t1, s)
    OBVIOUS
  <1> DEFINE S == {t1[y] : y \in Range(s)}
             T == {m} \cup S
  <1>1. Range(s) \subseteq N /\ Range(s) = {s[i] : i \in 1..Len(s)} /\ Len(s) \in Nat
    <2>1. Len(s) \in Nat /\ DOMAIN s = 1..Len(s)
      OBVIOUS
    <2>2. \A i \in 1..Len(s) : s[i] \in N
      OBVIOUS
    <2>3. Range(s) = {s[i] : i \in 1..Len(s)}
      BY <2>1 DEF Range
    <2> QED BY <2>1, <2>2, <2>3
  <1>2. S \subseteq Nat /\ T \subseteq Nat /\ T \subseteq Int /\ T # {} /\ m \in T
    BY <1>1
  <1>3. IsFiniteSet(S)
    <2> DEFINE f == [i \in 1..Len(s) |-> t1[s[i]]]
    <2>1. f \in [1..Len(s) -> S] /\ \A z \in S : \E i \in 1..Len(s) : f[i] = z
      BY <1>1
    <2>2. IsFiniteSet(1..Len(s))
      BY <1>1, UpTo
    <2> HIDE DEF f, S
    <2>3. f \in Surjection(1..Len(s), S)
      BY <2>1, Fun_IsSurj
    <2> QED BY <2>2, <2>3, FS_Surjection
  <1>4. \A y \in Range(s) : t1[y] \in T
    OBVIOUS
  <1> HIDE DEF S
  <1>5. IsFiniteSet(T)
    <2>1. IsFiniteSet(S \cup {m})
      BY <1>3, FS_AddElement
    <2>2. T = S \cup {m}
      OBVIOUS
    <2> QED BY <2>1, <2>2
  <1>6. m1 = Most(T)
    BY DEF S, Top
  <1> HIDE DEF T
  <1>7. m1 \in T /\ \A y \in T : y <= m1
    BY <1>2, <1>5, <1>6, MostOf
  <1>8. m1 \in Nat /\ m <= m1
    BY <1>2, <1>7
  <1>9. ASSUME NEW c \in N PROVE t1[c] <= m1 \/ t1[c] <= 1
    <2>1. CASE c \in Range(s)
      BY <1>4, <1>7, <2>1
    <2>2. CASE c \notin Range(s)
      <3>1. t1[c] = t[c] /\ t[c] \in Nat
        BY <2>2
      <3>2. t[c] <= m \/ t[c] <= 1
        BY DEF Under
      <3> QED BY <1>8, <3>1, <3>2
    <2> QED BY <2>1, <2>2
  <1> QED BY <1>8, <1>9 DEF Under

\* No object is there yet.
LEMMA ToppingStarts == Init => Topping
  BY DEF Init, Topping

\* Every step keeps it.
LEMMA ToppingStep ==
  SearchInv /\ Numbering /\ Counting /\ Leveling /\ Topping /\ [Next]_vars => Topping'
  <1> SUFFICES ASSUME SearchInv, Numbering, Counting, Leveling, Topping, [Next]_vars PROVE Topping'
    OBVIOUS
  <1>1. CASE TryRoot \/ Descend \/ Seen \/ Return
    <2>1. stage = "scc" /\ stage' = "scc" /\ maxx' = maxx
      BY <1>1 DEF TryRoot, Descend, Looking, Seen, Return, sorting
    <2> QED BY <2>1 DEF Topping
  <1>2. CASE Condense
    <2>1. /\ stage = "scc" /\ stage' = "sort" /\ frames = <<>> /\ root \notin Nodes
          /\ G' = [c \in Components |-> Between(c)] /\ maxx' = maxx
          /\ Components' = Components /\ Crossing' = Crossing
      BY <1>2 DEF Condense, search, sorting, Components, Crossing, Nodes
    <2>2. Listed'
      <3> SUFFICES ASSUME NEW e \in Crossing PROVE e[1] \in Components /\ e[2] \in Range(G'[e[1]])
        BY <2>1 DEF Listed
      <3>1. e[1] \in Components /\ e[2] \in Range(Between(e[1]))
        BY <2>1, CrossingListed
      <3> QED BY <2>1, <3>1
    <2> QED BY <2>1, <2>2 DEF Topping
  <1>3. CASE Seed
    <2>1. /\ stage = "sort" /\ stage' = "levels" /\ G' = G /\ maxx' = maxx
          /\ Components' = Components /\ Crossing' = Crossing
          /\ \A c \in Components : tln'[c] <= 1
      BY <1>3 DEF Seed, search, Components, Crossing, Nodes
    <2> QED BY <2>1 DEF Topping, Listed, Under
  <1>4. CASE Take
    <2> PICK x : x = Head(queue)
      OBVIOUS
    <2>1. /\ stage = "levels" /\ stage' = "levels" /\ queue # <<>> /\ G' = G
          /\ UNCHANGED <<GG, search>>
          /\ tln' = [y \in Components |-> IF y \in Range(G[x]) THEN Raised(x, y) ELSE tln[y]]
      BY <1>4 DEF Take
    <2>11. Components' = Components /\ Crossing' = Crossing
      BY <2>1 DEF search, Components, Crossing, Nodes
    <2>2. maxx' = Most({maxx} \cup {tln'[y] : y \in Range(G[x])})
      <3> DEFINE new == [y \in Components |-> IF y \in Range(G[x]) THEN Raised(x, y) ELSE tln[y]]
      <3>1. maxx' = Most({maxx} \cup {new[y] : y \in Range(G[x])}) /\ tln' = new
        BY <1>4 DEF Take
      <3> HIDE DEF new
      <3> QED BY <3>1
    <2>3. /\ Descends(G, scc_cnt) /\ Queued(Components, deg, queue)
          /\ Placed(G, Components, deg, queue, tln)
      BY <2>1 DEF Leveling
    <2>4. x \in Components
      <3>1. queue \in Seq(Components)
        BY <2>3 DEF Queued
      <3> QED BY <2>1, <3>1
    <2>5. G[x] \in Seq(Components)
      BY <2>3, <2>4 DEF Descends, Components
    <2>6. tln \in [Components -> Nat]
      BY <2>3 DEF Placed
    <2>7. tln' \in [Components -> Nat]
      <3>1. \A y \in Components : Raised(x, y) \in Nat
        BY <2>4, <2>6 DEF Raised
      <3> HIDE DEF Components
      <3> QED BY <2>1, <2>6, <3>1
    <2>8. \A y \in Components : y \notin Range(G[x]) => tln'[y] = tln[y]
      BY <2>1
    <2>9. maxx \in Nat /\ Under(tln, Components, maxx)
      BY <2>1 DEF Topping
    <2>10. maxx' \in Nat /\ Under(tln', Components, maxx')
      <3> PICK t1 : t1 = tln'
        OBVIOUS
      <3> HIDE DEF Components
      <3>1. maxx' = Top(maxx, t1, G[x])
        BY <2>2 DEF Top
      <3>2. t1 \in [Components -> Nat] /\ \A y \in Components : y \notin Range(G[x]) => t1[y] = tln[y]
        BY <2>7, <2>8
      <3>3. Top(maxx, t1, G[x]) \in Nat /\ Under(t1, Components, Top(maxx, t1, G[x]))
        BY <2>5, <2>6, <2>9, <3>2, TakeTops
      <3> QED BY <3>1, <3>3
    <2> QED BY <2>1, <2>4, <2>10, <2>11 DEF Topping, Listed
  <1>5. CASE FinishLevels
    <2>1. /\ stage = "levels" /\ stage' = "done" /\ G' = G /\ maxx' = maxx /\ tln' = tln
          /\ Components' = Components /\ Crossing' = Crossing /\ TF' = Rounds
      BY <1>5 DEF FinishLevels, search, Components, Crossing, Nodes
    <2>2. Rounds' = Rounds
      BY <2>1 DEF Rounds
    <2> QED BY <2>1, <2>2 DEF Topping, Listed
  <1>6. CASE Begin
    <2>1. PICK file \in Files : Read(file)
      BY <1>6, FilesAssumption DEF Begin
    <2> QED BY <2>1 DEF Read, Topping
  <1>7. CASE UNCHANGED vars
    <2>1. /\ stage' = stage /\ G' = G /\ maxx' = maxx /\ tln' = tln /\ TF' = TF
          /\ Components' = Components /\ Crossing' = Crossing /\ Rounds' = Rounds
      BY <1>7 DEF vars, search, sorting, Components, Crossing, Nodes, Rounds
    <2> QED BY <2>1 DEF Topping, Listed
  <1> QED BY <1>1, <1>2, <1>3, <1>4, <1>5, <1>6, <1>7 DEF Next, Work

\* The levels toposort() leaves are those of a store that TF rounds can fold.
LEMMA LevelsRise ==
  ASSUME SearchInv, Numbering, Counting, Leveling, Topping, stage = "done"
  PROVE  /\ tln \in [Components -> Nat \ {0}] /\ Rises(Crossing, tln)
         /\ TF >= 1 => TF \in Nat /\ Leveled(Components, Crossing, tln, TF) /\ Components # {}
  <1>1. /\ \A c \in Components : deg[c] = 0
        /\ Placed(G, Components, deg, <<>>, tln)
    <2>1. scc_cnt \in Nat
      BY DEF SearchInv, SearchTypes
    <2>2. scc_cnt <= MaxTot /\ MaxTot \in Nat
      BY <2>1, ComponentsFit, FilesAssumption
    <2>3. Components \subseteq 0..MaxTot - 1
      BY <2>1, <2>2 DEF Components
    <2> QED BY <2>3 DEF Leveling
  <1>2. \A b \in Components : b \in Taken(Components, deg, <<>>)
    BY <1>1 DEF Taken, Range
  <1>3. /\ tln \in [Components -> Nat] /\ \A c \in Components : tln[c] > 0
        /\ \A b, c \in Components : c \in Range(G[b]) => tln[b] < tln[c]
    <2>1. /\ tln \in [Components -> Nat] /\ \A c \in Components : deg[c] = 0 => tln[c] > 0
          /\ \A b \in Taken(Components, deg, <<>>), c \in Components : c \in Range(G[b]) => tln[b] < tln[c]
      BY <1>1 DEF Placed
    <2> HIDE DEF Components
    <2> QED BY <1>1, <1>2, <2>1
  <1>4. tln \in [Components -> Nat \ {0}]
    <2>1. \A c \in Components : tln[c] \in Nat \ {0}
      BY <1>3
    <2> HIDE DEF Components
    <2> QED BY <1>3, <2>1
  <1>5. Rises(Crossing, tln)
    <2> SUFFICES ASSUME NEW e \in Crossing PROVE tln[e[1]] < tln[e[2]]
      BY DEF Rises
    <2>1. e[1] \in Components /\ e[2] \in Range(G[e[1]])
      BY DEF Topping, Listed
    <2>2. e[2] \in Components
      <3>1. Crossing \in SUBSET (Components \X Components)
        BY CrossingAcyclic
      <3>2. e \in Components \X Components
        BY <3>1
      <3> QED BY <3>2
    <2> QED BY <1>3, <2>1, <2>2
  <1>6. ASSUME TF >= 1 PROVE TF \in Nat /\ Leveled(Components, Crossing, tln, TF) /\ Components # {}
    <2>1. maxx \in Nat /\ TF = Rounds /\ (maxx # 0 => Components # {})
          /\ \A c \in Components : tln[c] <= maxx \/ tln[c] <= 1
      BY DEF Topping, Under
    <2>2. maxx # 0
      <3> SUFFICES ASSUME maxx = 0 PROVE FALSE
        OBVIOUS
      <3>1. TF = LeastInt + 1
        BY <2>1 DEF Rounds
      <3> QED BY <1>6, <3>1 DEF LeastInt
    <2>3. TF \in Nat /\ maxx < 2^TF
      BY <2>1, <2>2, RoundsEnough
    <2>4. PICK p \in Nat : p = 2^TF
      BY <2>3, PowerDoubles
    <2>5. ASSUME NEW c \in Components PROVE tln[c] < 2^TF
      <3>1. tln[c] \in Nat /\ (tln[c] <= maxx \/ tln[c] <= 1)
        BY <1>3, <2>1
      <3>2. maxx < p /\ maxx \in Nat /\ maxx # 0
        BY <2>1, <2>2, <2>3, <2>4
      <3>3. tln[c] < p
        BY <3>1, <3>2
      <3> QED BY <2>4, <3>3
    <2> QED BY <1>4, <1>5, <2>1, <2>2, <2>3, <2>5 DEF Leveled
  <1> QED BY <1>4, <1>5, <1>6

-----------------------------------------------------------------------------
(* The steps of construct()                                                  *)

FoldInv ==
  phase # "off" =>
    /\ stage = "done"
    /\ Kept(Components, Crossing, Records, edges, tot, fa, label_in, label_out)

ConstructInv == SearchInv /\ Numbering /\ FoldInv

\* What read() leaves in the store is where it begins.
LEMMA KeptAtFirst ==
  ASSUME SearchInv, Numbering, StartConstruct
  PROVE  stage = "done" /\ Kept(Components, Crossing, Records', edges', tot', fa', label_in', label_out')
  <1>1. /\ stage = "done" /\ Records' = Components /\ edges' = Crossing /\ tot' = scc_cnt
        /\ fa' = [c \in Components |-> c]
        /\ label_in' = [c \in Components |-> {c}] /\ label_out' = [c \in Components |-> {c}]
    BY DEF StartConstruct, Numbering, Records
  <1>2. scc_cnt \in Nat /\ Components = 0..scc_cnt - 1
    BY <1>1, SearchOver, AllNumbered DEF Components
  <1>3. Crossing \in SUBSET (Components \X Components) /\ Acyclic(Crossing, Components)
    BY <1>1, CrossingAcyclic
  <1>4. \A e \in Crossing : \E a, b \in Components : e = <<a, b>>
    BY <1>3
  <1> HIDE DEF Components
  <1>5. KeptTypes(Components, Records', edges', tot', fa', label_in', label_out')
    BY <1>1, <1>2, <1>3 DEF KeptTypes
  <1>6. KeptJoins(Components, Crossing, Records', edges')
    BY <1>1, <1>3 DEF KeptJoins
  <1>7. KeptEdges(Components, Crossing, edges', fa')
    <2> SUFFICES ASSUME NEW e \in Crossing PROVE Joins(Crossing, Components, fa'[e[1]], fa'[e[2]])
      BY <1>1 DEF KeptEdges
    <2>1. PICK a \in Components, b \in Components : e = <<a, b>>
      BY <1>4
    <2>2. fa'[a] = a /\ fa'[b] = b
      BY <1>1
    <2> QED BY <2>1, <2>2, JoinsByEdge
  <1>8. KeptLabels(Components, Crossing, tot', fa', label_in', label_out')
    BY <1>1, <1>2, JoinsSelf DEF KeptLabels
  <1> QED BY <1>1, <1>5, <1>6, <1>7, <1>8 DEF Kept

\* Nor does a new node disturb it, or none.
LEMMA KeptBySplit ==
  ASSUME NEW C, NEW X, Kept(C, X, Records, edges, tot, fa, label_in, label_out),
         NEW n, NEW far, NEW outwards \in BOOLEAN, NEW l, Split(n, far, l, outwards),
         outwards => far \subseteq OutNodes(n), ~ outwards => far \subseteq InNodes(n)
  PROVE  Kept(C, X, Records', edges', tot', fa', label_in', label_out')
  <1>1. CASE far = {}
    <2>1. level' = level /\ edges' = edges /\ tot' = tot /\ fa' = fa
          /\ label_in' = label_in /\ label_out' = label_out
      BY <1>1 DEF Split
    <2> QED BY <2>1 DEF Records
  <1>2. CASE far # {}
    <2> DEFINE A == IF outwards THEN {n} ELSE far
               B == IF outwards THEN far ELSE {n}
    <2>1. /\ Records' = Records \cup {tot} /\ tot' = tot + 1
          /\ fa' = [x \in 0..tot |-> IF x = tot THEN fa[n] ELSE fa[x]]
          /\ label_in' = [x \in 0..tot |-> IF x = tot THEN {} ELSE label_in[x]]
          /\ label_out' = [x \in 0..tot |-> IF x = tot THEN {} ELSE label_out[x]]
      BY <1>2 DEF Split, Records
    <2>2. edges' = Detour(edges, A, B, tot)
      <3>1. CASE outwards
        BY <1>2, <3>1 DEF Split, Detour
      <3>2. CASE ~ outwards
        BY <1>2, <3>2 DEF Split, Detour
      <3> QED BY <3>1, <3>2
    <2>3. edges \subseteq Records \X Records
      BY DEF Kept, KeptTypes
    <2>4. \A a, b : <<a, b>> \in edges => a \in Records /\ b \in Records
      BY <2>3
    <2>5. \A a \in A, b \in B : <<a, b>> \in edges
      BY DEF OutNodes, InNodes
    <2>6. n \in Records /\ A \in SUBSET Records /\ B \in SUBSET Records
      BY <1>2, <2>4, <2>5
    <2>7. A \X B \subseteq edges /\ (A = {n} \/ B = {n})
      BY <2>5
    <2> HIDE DEF A, B
    <2> QED BY <2>1, <2>2, <2>6, <2>7, KeptWithNode
  <1> QED BY <1>1, <1>2

\* Nor the folding of a node.
LEMMA KeptByFold ==
  ASSUME NEW C, NEW X, Kept(C, X, Records, edges, tot, fa, label_in, label_out), Fold
  PROVE  Kept(C, X, Records', edges', tot', fa', label_in', label_out')
  <1>1. /\ Records' = Records \ {it} /\ tot' = tot /\ fa' = fa
        /\ label_in' = [label_in EXCEPT ![it] = InLabel(it)]
        /\ label_out' = [label_out EXCEPT ![it] = OutLabel(it)]
        /\ edges' = {e \in edges : it \notin {e[1], e[2]}} \cup (InNodes(it) \X OutNodes(it))
    BY DEF Fold, Bridges, Records
  <1>2. edges' = Bridged(edges, Records, it)
    BY <1>1 DEF OutNodes, InNodes, Bridged
  <1>3. DOMAIN label_in = 0..tot - 1 /\ DOMAIN label_out = 0..tot - 1
    BY DEF Kept, KeptTypes
  <1>4. /\ label_in' = [x \in 0..tot - 1 |-> label_in'[x]]
        /\ label_out' = [x \in 0..tot - 1 |-> label_out'[x]]
    BY <1>1, <1>3
  <1>5. \A x \in 0..tot - 1 :
          /\ label_in'[x] = IF x = it THEN InLabel(it) ELSE label_in[x]
          /\ label_out'[x] = IF x = it THEN OutLabel(it) ELSE label_out[x]
    BY <1>1, <1>3
  <1>6. /\ \A y \in InLabel(it) :
             y \in label_in[it] \/ \E m \in Records : <<it, m>> \in edges /\ y \in label_in[m]
        /\ \A y \in OutLabel(it) :
             y \in label_out[it] \/ \E m \in Records : <<m, it>> \in edges /\ y \in label_out[m]
    BY DEF InLabel, OutLabel, OutNodes, InNodes
  <1>7. \A x \in 0..tot - 1 :
          /\ \A y \in label_in'[x] :
               y \in label_in[x] \/ \E m \in Records : x = it /\ <<it, m>> \in edges /\ y \in label_in[m]
          /\ \A y \in label_out'[x] :
               y \in label_out[x] \/ \E m \in Records : x = it /\ <<m, it>> \in edges /\ y \in label_out[m]
    BY <1>5, <1>6
  <1>8. Kept(C, X, Records \ {it}, Bridged(edges, Records, it), tot, fa, label_in', label_out')
    BY <1>4, <1>7, KeptWithoutNode
  <1> QED BY <1>1, <1>2, <1>8

\* Nor the loops over the labels.
LEMMA KeptByClose ==
  ASSUME NEW X, Kept(Components, X, Records, edges, tot, fa, label_in, label_out), Join \/ Close
  PROVE  Kept(Components, X, Records', edges', tot', fa', label_in', label_out')
  <1>1. Records' = Records /\ edges' = edges /\ tot' = tot /\ fa' = fa
    BY DEF Join, Close, Records
  <1>2. CASE Join
    <2>1. PICK i : label_in' = Joined(label_in, i) /\ label_out' = Joined(label_out, i)
      BY <1>2 DEF Join
    <2> QED BY <1>1, <2>1, KeptJoined
  <1>3. CASE Close
    <2>1. /\ label_in' = [x \in DOMAIN label_in |-> IF x \in Components THEN {fa[y] : y \in label_in[x]} ELSE label_in[x]]
          /\ label_out' = [x \in DOMAIN label_out |-> IF x \in Components THEN {fa[y] : y \in label_out[x]} ELSE label_out[x]]
      BY <1>3 DEF Close, Renamed
    <2> QED BY <1>1, <2>1, KeptRenamed
  <1> QED BY <1>2, <1>3

\* Construction changes nothing of the search.
LEMMA ConstructionApart == Construct => UNCHANGED vars
  BY DEF Construct, StartConstruct, SplitOut, SplitIn, Split, Halve, Fold, Join, Close

\* Every step of construct() keeps the invariant.
LEMMA FoldStep == ConstructInv /\ [ConstructNext]_allVars => FoldInv'
  <1> SUFFICES ASSUME ConstructInv, [ConstructNext]_allVars PROVE FoldInv'
    OBVIOUS
  <1>1. CASE Construct
    <2>1. stage' = stage /\ Components' = Components /\ Crossing' = Crossing
      BY <1>1, ConstructionApart DEF vars, search, Components, Crossing, Nodes
    <2>2. ~ StartConstruct => stage = "done"
          /\ Kept(Components, Crossing, Records, edges, tot, fa, label_in, label_out)
      BY <1>1 DEF ConstructInv, FoldInv, Construct, SplitOut, SplitIn, Halve, Fold, Join, Close
    <2>3. CASE StartConstruct
      BY <2>1, <2>3, KeptAtFirst DEF ConstructInv, FoldInv
    <2>4. CASE SplitOut /\ ~ StartConstruct
      <3>1. Split(it, Ahead(it), level[it] + 1, TRUE) /\ Ahead(it) \subseteq OutNodes(it)
        BY <2>4 DEF SplitOut, Ahead
      <3>2. Kept(Components, Crossing, Records', edges', tot', fa', label_in', label_out')
        BY <2>2, <2>4, <3>1, KeptBySplit
      <3> QED BY <2>1, <2>2, <2>4, <3>2 DEF FoldInv
    <2>5. CASE SplitIn /\ ~ StartConstruct
      <3>1. Split(it, Behind(it), level[it] - 1, FALSE) /\ Behind(it) \subseteq InNodes(it)
        BY <2>5 DEF SplitIn, Behind
      <3>2. Kept(Components, Crossing, Records', edges', tot', fa', label_in', label_out')
        BY <2>2, <2>5, <3>1, KeptBySplit
      <3> QED BY <2>1, <2>2, <2>5, <3>2 DEF FoldInv
    <2>6. CASE Halve /\ ~ StartConstruct
      <3>1. Records' = Records /\ edges' = edges /\ tot' = tot /\ fa' = fa
            /\ label_in' = label_in /\ label_out' = label_out
        BY <2>6 DEF Halve, Records
      <3> QED BY <2>1, <2>2, <2>6, <3>1 DEF FoldInv
    <2>7. CASE Fold /\ ~ StartConstruct
      <3>1. Kept(Components, Crossing, Records', edges', tot', fa', label_in', label_out')
        BY <2>2, <2>7, KeptByFold
      <3> QED BY <2>1, <2>2, <2>7, <3>1 DEF FoldInv
    <2>8. CASE (Join \/ Close) /\ ~ StartConstruct
      <3>1. Kept(Components, Crossing, Records', edges', tot', fa', label_in', label_out')
        BY <2>2, <2>8, KeptByClose
      <3> QED BY <2>1, <2>2, <2>8, <3>1 DEF FoldInv
    <2> QED BY <1>1, <2>3, <2>4, <2>5, <2>6, <2>7, <2>8 DEF Construct
  <1>2. CASE Work /\ UNCHANGED folding
    <2>1. phase' = phase /\ stage # "done"
      BY <1>2 DEF folding, Work, TryRoot, Descend, Looking, Seen, Return, Condense, Seed, Take, FinishLevels
    <2> QED BY <2>1 DEF ConstructInv, FoldInv
  <1>3. CASE Begin /\ Renew
    BY <1>3 DEF Renew, FoldInv
  <1>4. CASE UNCHANGED allVars
    <2>1. /\ phase' = phase /\ stage' = stage /\ Records' = Records /\ edges' = edges /\ tot' = tot
          /\ fa' = fa /\ label_in' = label_in /\ label_out' = label_out
          /\ Components' = Components /\ Crossing' = Crossing
      BY <1>4 DEF allVars, vars, search, folding, Components, Crossing, Nodes, Records
    <2> QED BY <2>1 DEF ConstructInv, FoldInv
  <1> QED BY <1>1, <1>2, <1>3, <1>4 DEF ConstructNext

\* The inductive invariant of the object and its index.
LEMMA ConstructAlways == ConstructSpec => []ConstructInv
  <1>1. ConstructInit => ConstructInv
    <2> SUFFICES ASSUME ConstructInit PROVE ConstructInv
      OBVIOUS
    <2>1. Init /\ phase = "off"
      BY DEF ConstructInit
    <2> QED BY <2>1, SearchStarts, NumberingStarts DEF ConstructInv, FoldInv
  <1>2. ConstructInv /\ [ConstructNext]_allVars => ConstructInv'
    <2> SUFFICES ASSUME ConstructInv, [ConstructNext]_allVars PROVE ConstructInv'
      OBVIOUS
    <2>1. [Next]_vars
      BY ConstructionApart DEF ConstructNext, Next, allVars
    <2> QED BY <2>1, SearchStep, NumberingStep, FoldStep DEF ConstructInv
  <1> QED BY <1>1, <1>2, PTL DEF ConstructSpec

-----------------------------------------------------------------------------
(* The rounds of construct(): a walk meets every node it is to meet          *)

\* Of finitely many nodes one has the first key.
LEMMA FirstIs ==
  ASSUME NEW S, S \subseteq Ids, IsFiniteSet(S), S # {}
  PROVE  FirstOf(S) \in S /\ \A m \in S \ {FirstOf(S)} : <<FirstOf(S), m>> \in KeyOrder
  <1>1. Orders(KeyOrder, S)
    <2>1. \A x \in S : x \in Ids
      OBVIOUS
    <2> QED BY <2>1, KeyAssumption DEF Orders
  <1> PICK n : n = Cardinality(S)
    OBVIOUS
  <1> PICK s : s = InOrder(S, KeyOrder)
    OBVIOUS
  <1>2. /\ n \in Nat /\ s \in [1..n -> S]
        /\ \A i, j \in 1..n : i < j => <<s[i], s[j]>> \in KeyOrder
        /\ \A x \in S : \E i \in 1..n : s[i] = x
    BY <1>1, ListedInOrder
  <1>3. 1 \in 1..n /\ s[1] \in S
    <2>1. PICK x \in S : TRUE
      OBVIOUS
    <2>2. PICK i \in 1..n : s[i] = x
      BY <1>2
    <2>3. 1 \in 1..n
      BY <1>2, <2>2
    <2> QED BY <1>2, <2>3
  <1>4. \A m \in S \ {s[1]} : <<s[1], m>> \in KeyOrder
    <2> SUFFICES ASSUME NEW m \in S, m # s[1] PROVE <<s[1], m>> \in KeyOrder
      OBVIOUS
    <2>1. PICK i \in 1..n : s[i] = m
      BY <1>2
    <2>2. 1 < i
      BY <1>2, <2>1
    <2> QED BY <1>2, <1>3, <2>1, <2>2
  <1> QED BY <1>3, <1>4 DEF FirstOf

\* ++ leads to the next node of the store, or there is none behind this one.
LEMMA WalkMoves ==
  ASSUME NEW R, R \subseteq Ids, IsFiniteSet(R), NEW next, it \in R, Walk(R, next)
  PROVE  \/ /\ phase' = phase /\ it' \in R /\ it' # it
            /\ \A m \in R : <<m, it'>> \in KeyOrder <=> m = it \/ <<m, it>> \in KeyOrder
         \/ phase' = next /\ it' = FirstOf(R) /\ \A m \in R : m = it \/ <<m, it>> \in KeyOrder
  <1> DEFINE S == {m \in R : <<it, m>> \in KeyOrder}
  <1>0. /\ \A x, y \in R : x # y => <<x, y>> \in KeyOrder \/ <<y, x>> \in KeyOrder
        /\ \A x \in R : <<x, x>> \notin KeyOrder
        /\ \A x, y, z \in R : <<x, y>> \in KeyOrder /\ <<y, z>> \in KeyOrder => <<x, z>> \in KeyOrder
    <2>1. \A x \in R : x \in Ids
      OBVIOUS
    <2> QED BY <2>1, KeyAssumption
  <1>1. S \subseteq R /\ After(it, R) = FirstOf(S) /\ \A m : m \in S <=> m \in R /\ <<it, m>> \in KeyOrder
    BY DEF After
  <1>2. S \subseteq Ids /\ IsFiniteSet(S)
    <2> HIDE DEF S
    <2> QED BY <1>1, FS_Subset
  <1> HIDE DEF S
  <1>3. CASE S = {}
    <2>1. After(it, R) = End
      BY <1>1, <1>3 DEF FirstOf
    <2>2. phase' = next /\ it' = FirstOf(R)
      BY <2>1 DEF Walk
    <2>3. \A m \in R : m = it \/ <<m, it>> \in KeyOrder
      BY <1>0, <1>1, <1>3
    <2> QED BY <2>2, <2>3
  <1>4. CASE S # {}
    <2>1. PICK l \in S : l = FirstOf(S) /\ \A m \in S \ {l} : <<l, m>> \in KeyOrder
      BY <1>2, <1>4, FirstIs
    <2>2. l \in Nat /\ l \in R /\ <<it, l>> \in KeyOrder
      <3>1. Ids \subseteq Nat
        BY KeyAssumption
      <3> QED BY <1>1, <3>1
    <2>3. After(it, R) # End
      BY <1>1, <2>1, <2>2 DEF End
    <2>4. phase' = phase /\ it' = l
      BY <1>1, <2>1, <2>3 DEF Walk
    <2>5. l # it
      BY <1>0, <2>2
    <2>6. \A m \in R : <<m, l>> \in KeyOrder <=> m = it \/ <<m, it>> \in KeyOrder
      <3> SUFFICES ASSUME NEW m \in R PROVE <<m, l>> \in KeyOrder <=> m = it \/ <<m, it>> \in KeyOrder
        OBVIOUS
      <3>1. CASE m = it \/ <<m, it>> \in KeyOrder
        BY <1>0, <2>2, <3>1
      <3>2. CASE ~ (m = it \/ <<m, it>> \in KeyOrder)
        <4>1. m \in S
          BY <1>0, <1>1, <3>2
        <4>2. m = l \/ <<l, m>> \in KeyOrder
          BY <2>1, <4>1
        <4>3. <<m, l>> \notin KeyOrder
          BY <1>0, <2>2, <4>2
        <4> QED BY <3>2, <4>3
      <3> QED BY <3>1, <3>2
    <2> QED BY <2>2, <2>4, <2>5, <2>6
  <1> QED BY <1>3, <1>4

\* the members of R before n, and their levels before the third loop halved those
Before(R, n) == {m \in R : <<m, n>> \in KeyOrder}
Unhalved(R, o, n) == [m \in R |-> IF <<m, n>> \in KeyOrder THEN 2 * o[m] ELSE o[m]]

\* Before the first node is none.
LEMMA FirstBefore ==
  ASSUME NEW R, R \subseteq Ids, IsFiniteSet(R), R # {}
  PROVE  FirstOf(R) \in R /\ Before(R, FirstOf(R)) = {}
  <1>1. PICK f \in R : f = FirstOf(R) /\ \A m \in R \ {f} : <<f, m>> \in KeyOrder
    BY FirstIs
  <1>2. ASSUME NEW m \in R, <<m, f>> \in KeyOrder PROVE FALSE
    <2>1. f \in Ids /\ m \in Ids
      OBVIOUS
    <2>2. <<f, f>> \notin KeyOrder
      BY <2>1, KeyAssumption
    <2>3. <<f, m>> \in KeyOrder
      BY <1>1, <1>2, <2>2
    <2> QED BY <1>2, <2>1, <2>2, <2>3, KeyAssumption
  <1> QED BY <1>1, <1>2 DEF Before

\* the order has what the store had and has no more, each node once
Ordered(R, t, s) ==
  s \in Seq(0..t - 1) /\ IsInjective(s) /\ \A x \in 0..t - 1 : x \in Range(s) <=> x \notin R

\* Behind the third loop every level is half of what it was.
LEMMA HalvedAll ==
  ASSUME NEW R, NEW E, E \subseteq R \X R, NEW l, l \in [R -> Nat \ {0}], NEW o, NEW k \in Nat,
         Leveled(R, E, o, k + 1), \A x \in R : o[x] = 2 * l[x]
  PROVE  Leveled(R, E, l, k)
  <1>1. PICK p \in Nat, q \in Nat : p = 2^k /\ q = 2^(k + 1)
    BY PowerDoubles
  <1>2. q = 2 * p
    BY <1>1, PowerDoubles
  <1>3. ASSUME NEW x \in R PROVE l[x] < 2^k
    <2>1. 2 * l[x] < q /\ l[x] \in Nat
      BY <1>1 DEF Leveled
    <2>2. l[x] < p
      BY <1>2, <2>1
    <2> QED BY <1>1, <2>2
  <1>4. Rises(E, l)
    <2> SUFFICES ASSUME NEW e \in E PROVE l[e[1]] < l[e[2]]
      BY DEF Rises
    <2>1. e[1] \in R /\ e[2] \in R
      OBVIOUS
    <2>2. 2 * l[e[1]] < 2 * l[e[2]]
      BY <2>1 DEF Leveled, Rises
    <2>3. l[e[1]] \in Nat /\ l[e[2]] \in Nat
      BY <2>1
    <2> QED BY <2>2, <2>3
  <1> QED BY <1>3, <1>4 DEF Leveled

\* A new node is not in the order.
LEMMA OrderedWith ==
  ASSUME NEW R, NEW t \in Nat, NEW s, Ordered(R, t, s)
  PROVE  Ordered(R \cup {t}, t + 1, s)
  <1>1. s \in Seq(0..t - 1) /\ \A x \in Range(s) : x \in 0..t - 1
    BY DEF Ordered, Range
  <1>2. s \in Seq(0..t + 1 - 1)
    BY <1>1
  <1>3. ASSUME NEW x \in 0..t + 1 - 1 PROVE x \in Range(s) <=> x \notin R \cup {t}
    BY <1>1, <1>3 DEF Ordered
  <1> QED BY <1>2, <1>3 DEF Ordered

\* A folded one comes behind the others.
LEMMA OrderedWithout ==
  ASSUME NEW R, NEW t \in Nat, R \subseteq 0..t - 1, NEW s, Ordered(R, t, s), NEW n \in R
  PROVE  Ordered(R \ {n}, t, Append(s, n))
  <1> DEFINE s1 == Append(s, n)
  <1>1. s \in Seq(0..t - 1) /\ n \in 0..t - 1 /\ n \notin Range(s)
    BY DEF Ordered
  <1>2. /\ s1 \in Seq(0..t - 1) /\ Len(s1) = Len(s) + 1 /\ Len(s) \in Nat
        /\ \A i \in 1..Len(s) : s1[i] = s[i]
        /\ s1[Len(s) + 1] = n /\ DOMAIN s = 1..Len(s) /\ DOMAIN s1 = 1..Len(s) + 1
    BY <1>1
  <1> HIDE DEF s1
  <1>3. \A i \in DOMAIN s : s[i] # n
    BY <1>1 DEF Range
  <1>4. IsInjective(s1)
    <2> SUFFICES ASSUME NEW i \in DOMAIN s1, NEW j \in DOMAIN s1, s1[i] = s1[j] PROVE i = j
      BY DEF IsInjective
    <2>1. \A a \in DOMAIN s1 : a \in DOMAIN s \/ a = Len(s) + 1
      BY <1>2
    <2>2. CASE i \in DOMAIN s /\ j \in DOMAIN s
      <3>1. s[i] = s[j]
        BY <1>2, <2>2
      <3> QED BY <2>2, <3>1 DEF Ordered, IsInjective
    <2>3. CASE i \notin DOMAIN s \/ j \notin DOMAIN s
      BY <1>2, <1>3, <2>1, <2>3
    <2> QED BY <2>2, <2>3
  <1>5. \A x : x \in Range(s1) <=> x \in Range(s) \/ x = n
    <2>1. ASSUME NEW x \in Range(s1) PROVE x \in Range(s) \/ x = n
      <3>1. PICK i \in DOMAIN s1 : s1[i] = x
        BY DEF Range
      <3> QED BY <1>2, <3>1 DEF Range
    <2>2. n \in Range(s1)
      BY <1>2 DEF Range
    <2>3. ASSUME NEW x \in Range(s) PROVE x \in Range(s1)
      <3>1. PICK i \in DOMAIN s : s[i] = x
        BY DEF Range
      <3>2. i \in DOMAIN s1 /\ s1[i] = x
        BY <1>2, <3>1
      <3> QED BY <3>2 DEF Range
    <2> QED BY <2>1, <2>2, <2>3
  <1>6. \A x \in 0..t - 1 : x \in Range(s1) <=> x \notin R \ {n}
    BY <1>5 DEF Ordered
  <1> QED BY <1>2, <1>4, <1>6 DEF Ordered, s1

\* When the store is empty, all of its nodes are in the order.
LEMMA OrderedAll ==
  ASSUME NEW t \in Nat, NEW s, Ordered({}, t, s)
  PROVE  Len(s) = t /\ Range(s) = 0..t - 1
  <1>1. s \in Seq(0..t - 1) /\ IsInjective(s) /\ \A x \in 0..t - 1 : x \in Range(s)
    BY DEF Ordered
  <1>2. PICK l \in Nat : l = Len(s) /\ DOMAIN s = 1..l
    BY <1>1
  <1>3. \A x \in Range(s) : x \in 0..t - 1
    BY <1>1 DEF Range
  <1>4. Range(s) = 0..t - 1
    BY <1>1, <1>3
  <1>5. s \in Bijection(1..l, 0..t - 1)
    <2>1. s \in [1..l -> 0..t - 1]
      BY <1>1, <1>2
    <2>2. \A i, j \in 1..l : s[i] = s[j] => i = j
      BY <1>1, <1>2 DEF IsInjective
    <2>3. \A x \in 0..t - 1 : \E i \in 1..l : s[i] = x
      BY <1>1, <1>2 DEF Range
    <2> QED BY <2>1, <2>2, <2>3, Fun_IsBij
  <1>6. Cardinality(1..l) = Cardinality(0..t - 1)
    <2>1. IsFiniteSet(1..l)
      BY UpTo
    <2> QED BY <1>5, <2>1, FS_Bijection DEF ExistsBijection
  <1>7. Cardinality(1..l) = l
    BY UpTo
  <1>8. Cardinality(0..t - 1) = t
    <2>1. Cardinality(0..t - 1) = IF 0 > t - 1 THEN 0 ELSE t - 1 - 0 + 1
      BY FS_Interval
    <2> QED BY <2>1
  <1> QED BY <1>2, <1>4, <1>6, <1>7, <1>8

-----------------------------------------------------------------------------
(* The rounds: what holds in each loop                                       *)

\* edges at a node already met, in the loops that split
FirstLoop(R, E, o, k, n) == n \in R /\ Leveled(R, E, o, k) /\ FlatOut(E, o, Before(R, n))
SecondLoop(R, E, o, k, n) ==
  n \in R /\ Leveled(R, E, o, k) /\ FlatOut(E, o, R) /\ FlatIn(E, o, Before(R, n))

\* and everywhere, in the one that halves levels and folds
ThirdLoop(R, E, o, k, n) == n \in R /\ Leveled(R, E, o, k) /\ FlatOut(E, o, R) /\ FlatIn(E, o, R)

\* Round ii of TF: the levels are below 2^(TF - ii + 1), and half of that behind it.
RoundInv ==
  phase # "off" =>
    /\ phase \in {"a", "b", "c", "close", "finished"}
    /\ Records \subseteq Ids /\ level \in [Records -> Nat \ {0}] /\ Ordered(Records, tot, order)
    /\ phase # "finished" => TF \in Nat /\ ii \in 1..TF
    /\ phase = "a" => FirstLoop(Records, edges, level, TF - ii + 1, it)
    /\ phase = "b" => SecondLoop(Records, edges, level, TF - ii + 1, it)
    /\ phase = "c" => ThirdLoop(Records, edges, Unhalved(Records, level, it), TF - ii + 1, it)
    /\ phase = "close" => Leveled(Records, edges, level, TF - ii)
    /\ phase = "finished" /\ TF >= 1 => Records = {}

\* The store, as the steps of a round find it.
LEMMA StoreFacts ==
  ASSUME FoldInv, phase # "off"
  PROVE  /\ tot \in Nat /\ Records \subseteq 0..tot - 1 /\ IsFiniteSet(Records)
         /\ edges \subseteq Records \X Records
  <1>1. tot \in Nat /\ Records \subseteq 0..tot - 1 /\ edges \subseteq Records \X Records
    BY DEF FoldInv, Kept, KeptTypes
  <1>2. IsFiniteSet(0..tot - 1)
    BY <1>1, FS_Interval
  <1> QED BY <1>1, <1>2, FS_Subset

\* A new node, with its level.
LEMMA NewNode ==
  ASSUME NEW n, NEW far, NEW l, NEW outwards \in BOOLEAN, Split(n, far, l, outwards), far # {},
         tot \notin Records
  PROVE  /\ tot \in Ids /\ Records' = Records \cup {tot} /\ tot' = tot + 1 /\ WithLevel(level', Records, level, tot, l)
         /\ outwards => edges' = Detour(edges, {n}, far, tot)
         /\ ~ outwards => edges' = Detour(edges, far, {n}, tot)
  <1>1. /\ level' = [x \in Records \cup {tot} |-> IF x = tot THEN l ELSE level[x]]
        /\ tot' = tot + 1 /\ tot \in Ids
    BY DEF Split
  <1>2. outwards => edges' = Detour(edges, {n}, far, tot)
    BY DEF Split, Detour
  <1>3. ~ outwards => edges' = Detour(edges, far, {n}, tot)
    BY DEF Split, Detour
  <1>4. Records' = Records \cup {tot} /\ WithLevel(level', Records, level, tot, l)
    BY <1>1 DEF Records, WithLevel
  <1> QED BY <1>1, <1>2, <1>3, <1>4

\* Flat edges of some nodes are flat edges of fewer.
LEMMA FlatFewer ==
  ASSUME NEW E, NEW o, NEW S, NEW T, T \subseteq S
  PROVE  (FlatOut(E, o, S) => FlatOut(E, o, T)) /\ (FlatIn(E, o, S) => FlatIn(E, o, T))
  BY DEF FlatOut, FlatIn

\* The end of the node's body in the first loop.
LEMMA SplitOutKeeps ==
  ASSUME FoldInv, RoundInv, phase = "a", Split(it, Ahead(it), level[it] + 1, TRUE),
         NEW k \in Nat, k = TF - ii + 1
  PROVE  /\ Leveled(Records', edges', level', k)
         /\ FlatOut(edges', level', Before(Records, it) \cup {it} \cup (Records' \ Records))
         /\ Ordered(Records', tot', order) /\ Records \subseteq Records' /\ Records' \subseteq Ids
         /\ IsFiniteSet(Records')
  <1>1. /\ tot \in Nat /\ Records \subseteq 0..tot - 1 /\ edges \subseteq Records \X Records /\ tot \notin Records
        /\ IsFiniteSet(Records) /\ Records \subseteq Ids
    BY StoreFacts DEF RoundInv
  <1>2. /\ it \in Records /\ Leveled(Records, edges, level, k) /\ FlatOut(edges, level, Before(Records, it))
        /\ Ordered(Records, tot, order)
    BY DEF RoundInv, FirstLoop
  <1>3. IsOdd(level[it]) => FarOut(edges, level, it, Ahead(it))
    <2> SUFFICES ASSUME IsOdd(level[it])
                 PROVE  \A y : y \in Ahead(it) <=> <<it, y>> \in edges /\ level[y] > level[it] + 1
      BY DEF FarOut
    <2>1. \A y : <<it, y>> \in edges => y \in Records
      BY <1>1
    <2> QED BY <2>1 DEF Ahead, OutNodes
  <1>4. ~ IsOdd(level[it]) => Ahead(it) = {}
    BY DEF Ahead
  <1>5. CASE Ahead(it) = {}
    <2>1. level' = level /\ edges' = edges /\ tot' = tot /\ Records' = Records
      BY <1>5 DEF Split, Records
    <2>2. ~ IsOdd(level[it]) \/ FarOut(edges, level, it, {})
      BY <1>3, <1>5
    <2>3. FlatOut(edges, level, Before(Records, it) \cup {it})
      BY <1>1, <1>2, <2>2, NoSplitOut
    <2>4. Before(Records, it) \cup {it} \cup (Records' \ Records) = Before(Records, it) \cup {it}
      BY <2>1
    <2> QED BY <1>1, <1>2, <2>1, <2>3, <2>4
  <1>6. CASE Ahead(it) # {}
    <2>1. FarOut(edges, level, it, Ahead(it))
      BY <1>3, <1>4, <1>6
    <2>2. /\ Records' = Records \cup {tot} /\ tot' = tot + 1 /\ tot \in Ids
          /\ WithLevel(level', Records, level, tot, level[it] + 1)
          /\ edges' = Detour(edges, {it}, Ahead(it), tot)
      BY <1>1, <1>6, NewNode
    <2> PICK far : far = Ahead(it)
      OBVIOUS
    <2> PICK o1 : o1 = level'
      OBVIOUS
    <2>3. WithLevel(o1, Records, level, tot, level[it] + 1) /\ FarOut(edges, level, it, far) /\ far # {}
      BY <1>6, <2>1, <2>2
    <2>4. /\ Leveled(Records \cup {tot}, Detour(edges, {it}, far, tot), o1, k)
          /\ FlatOut(Detour(edges, {it}, far, tot), o1, Before(Records, it) \cup {it, tot})
      BY <1>1, <1>2, <2>3, SplitOutLevels
    <2>5. Ordered(Records \cup {tot}, tot + 1, order) /\ IsFiniteSet(Records \cup {tot})
      BY <1>1, <1>2, OrderedWith, FS_AddElement
    <2>6. Before(Records, it) \cup {it} \cup (Records' \ Records) = Before(Records, it) \cup {it, tot}
      BY <1>1, <2>2
    <2> QED BY <1>1, <2>2, <2>4, <2>5, <2>6
  <1> QED BY <1>5, <1>6

\* And in the second.
LEMMA SplitInKeeps ==
  ASSUME FoldInv, RoundInv, phase = "b", Split(it, Behind(it), level[it] - 1, FALSE),
         NEW k \in Nat, k = TF - ii + 1
  PROVE  /\ Leveled(Records', edges', level', k) /\ FlatOut(edges', level', Records')
         /\ FlatIn(edges', level', Before(Records, it) \cup {it} \cup (Records' \ Records))
         /\ Ordered(Records', tot', order) /\ Records \subseteq Records' /\ Records' \subseteq Ids
         /\ IsFiniteSet(Records')
  <1>1. /\ tot \in Nat /\ Records \subseteq 0..tot - 1 /\ edges \subseteq Records \X Records /\ tot \notin Records
        /\ IsFiniteSet(Records) /\ Records \subseteq Ids
    BY StoreFacts DEF RoundInv
  <1>2. /\ it \in Records /\ Leveled(Records, edges, level, k) /\ FlatOut(edges, level, Records)
        /\ FlatIn(edges, level, Before(Records, it)) /\ Ordered(Records, tot, order)
    BY DEF RoundInv, SecondLoop
  <1>3. IsOdd(level[it]) => FarIn(edges, level, it, Behind(it))
    <2> SUFFICES ASSUME IsOdd(level[it])
                 PROVE  \A y : y \in Behind(it) <=>
                               <<y, it>> \in edges /\ level[y] < level[it] - 1 /\ ~ IsOdd(level[y])
      BY DEF FarIn
    <2>1. \A y : <<y, it>> \in edges => y \in Records
      BY <1>1
    <2> QED BY <2>1 DEF Behind, InNodes
  <1>4. ~ IsOdd(level[it]) => Behind(it) = {}
    BY DEF Behind
  <1>5. CASE Behind(it) = {}
    <2>1. level' = level /\ edges' = edges /\ tot' = tot /\ Records' = Records
      BY <1>5 DEF Split, Records
    <2>2. ~ IsOdd(level[it]) \/ FarIn(edges, level, it, {})
      BY <1>3, <1>5
    <2>3. FlatIn(edges, level, Before(Records, it) \cup {it})
      BY <1>1, <1>2, <2>2, NoSplitIn
    <2>4. Before(Records, it) \cup {it} \cup (Records' \ Records) = Before(Records, it) \cup {it}
      BY <2>1
    <2> QED BY <1>1, <1>2, <2>1, <2>3, <2>4
  <1>6. CASE Behind(it) # {}
    <2>1. FarIn(edges, level, it, Behind(it))
      BY <1>3, <1>4, <1>6
    <2>2. /\ Records' = Records \cup {tot} /\ tot' = tot + 1 /\ tot \in Ids
          /\ WithLevel(level', Records, level, tot, level[it] - 1)
          /\ edges' = Detour(edges, Behind(it), {it}, tot)
      BY <1>1, <1>6, NewNode
    <2> PICK far : far = Behind(it)
      OBVIOUS
    <2> PICK o1 : o1 = level'
      OBVIOUS
    <2>3. WithLevel(o1, Records, level, tot, level[it] - 1) /\ FarIn(edges, level, it, far) /\ far # {}
      BY <1>6, <2>1, <2>2
    <2>4. /\ Leveled(Records \cup {tot}, Detour(edges, far, {it}, tot), o1, k)
          /\ FlatOut(Detour(edges, far, {it}, tot), o1, Records \cup {tot})
          /\ FlatIn(Detour(edges, far, {it}, tot), o1, Before(Records, it) \cup {it, tot})
      BY <1>1, <1>2, <2>3, SplitInLevels
    <2>5. Ordered(Records \cup {tot}, tot + 1, order) /\ IsFiniteSet(Records \cup {tot})
      BY <1>1, <1>2, OrderedWith, FS_AddElement
    <2>6. Before(Records, it) \cup {it} \cup (Records' \ Records) = Before(Records, it) \cup {it, tot}
      BY <1>1, <2>2
    <2> QED BY <1>1, <2>2, <2>4, <2>5, <2>6
  <1> QED BY <1>5, <1>6

\* What the walk has met, after ++: all before the next node, or every node there is.
LEMMA WalkMeets ==
  ASSUME NEW R, R \subseteq Ids, IsFiniteSet(R), NEW next, it \in R, Walk(R, next)
  PROVE  \/ phase' = phase /\ it' \in R /\ Before(R, it') \subseteq Before(R, it) \cup {it}
         \/ phase' = next /\ it' \in R /\ Before(R, it') = {} /\ R \subseteq Before(R, it) \cup {it}
  <1>1. CASE /\ phase' = phase /\ it' \in R
             /\ \A m \in R : <<m, it'>> \in KeyOrder <=> m = it \/ <<m, it>> \in KeyOrder
    BY <1>1 DEF Before
  <1>2. CASE phase' = next /\ it' = FirstOf(R) /\ \A m \in R : m = it \/ <<m, it>> \in KeyOrder
    <2>1. it' \in R /\ Before(R, it') = {}
      BY <1>2, FirstBefore
    <2>2. R \subseteq Before(R, it) \cup {it}
      BY <1>2 DEF Before
    <2> QED BY <1>2, <2>1, <2>2
  <1> QED BY <1>1, <1>2, WalkMoves

\* The first loop.
LEMMA SplitOutRound == ASSUME FoldInv, RoundInv, SplitOut PROVE RoundInv'
  <1>1. /\ phase = "a" /\ Split(it, Ahead(it), level[it] + 1, TRUE) /\ Walk(Records', "b")
        /\ UNCHANGED <<vars, ii, order, joined>>
    BY DEF SplitOut, Records
  <1>2. TF \in Nat /\ ii \in 1..TF /\ TF' = TF /\ ii' = ii /\ order' = order
    BY <1>1 DEF RoundInv, vars, sorting
  <1>3. PICK k \in Nat : k = TF - ii + 1
    BY <1>2
  <1>4. /\ Leveled(Records', edges', level', k)
        /\ FlatOut(edges', level', Before(Records, it) \cup {it} \cup (Records' \ Records))
        /\ Ordered(Records', tot', order) /\ Records \subseteq Records' /\ Records' \subseteq Ids
        /\ IsFiniteSet(Records')
    BY <1>1, <1>3, SplitOutKeeps
  <1>5. it \in Records
    BY <1>1 DEF RoundInv, FirstLoop
  <1>6. Before(Records', it) \cup {it} \subseteq Before(Records, it) \cup {it} \cup (Records' \ Records)
    BY DEF Before
  <1>7. \/ phase' = "a" /\ it' \in Records' /\ Before(Records', it') \subseteq Before(Records', it) \cup {it}
        \/ phase' = "b" /\ it' \in Records' /\ Before(Records', it') = {}
           /\ Records' \subseteq Before(Records', it) \cup {it}
    <2> PICK R : R = Records'
      OBVIOUS
    <2>1. R \subseteq Ids /\ IsFiniteSet(R) /\ it \in R
      BY <1>4, <1>5
    <2>2. Walk(R, "b")
      BY <1>1
    <2> QED BY <1>1, <2>1, <2>2, WalkMeets
  <1>8. level' \in [Records' -> Nat \ {0}]
    BY <1>4 DEF Leveled
  <1>9. CASE phase' = "a"
    <2>1. /\ Before(Records', it') \subseteq Before(Records, it) \cup {it} \cup (Records' \ Records)
          /\ it' \in Records'
      BY <1>6, <1>7, <1>9
    <2>2. FlatOut(edges', level', Before(Records', it'))
      BY <1>4, <2>1, FlatFewer
    <2>3. FirstLoop(Records', edges', level', TF' - ii' + 1, it')
      BY <1>2, <1>3, <1>4, <2>1, <2>2 DEF FirstLoop
    <2> QED BY <1>2, <1>4, <1>8, <1>9, <2>3 DEF RoundInv
  <1>10. CASE phase' = "b"
    <2>1. /\ Records' \subseteq Before(Records, it) \cup {it} \cup (Records' \ Records) /\ it' \in Records'
          /\ Before(Records', it') = {}
      BY <1>6, <1>7, <1>10
    <2>2. FlatOut(edges', level', Records')
      BY <1>4, <2>1, FlatFewer
    <2>3. FlatIn(edges', level', Before(Records', it'))
      BY <2>1 DEF FlatIn
    <2>4. SecondLoop(Records', edges', level', TF' - ii' + 1, it')
      BY <1>2, <1>3, <1>4, <2>1, <2>2, <2>3 DEF SecondLoop
    <2> QED BY <1>2, <1>4, <1>8, <1>10, <2>4 DEF RoundInv
  <1> QED BY <1>7, <1>9, <1>10

\* The second.
LEMMA SplitInRound == ASSUME FoldInv, RoundInv, SplitIn PROVE RoundInv'
  <1>1. /\ phase = "b" /\ Split(it, Behind(it), level[it] - 1, FALSE) /\ Walk(Records', "c")
        /\ UNCHANGED <<vars, ii, order, joined>>
    BY DEF SplitIn, Records
  <1>2. TF \in Nat /\ ii \in 1..TF /\ TF' = TF /\ ii' = ii /\ order' = order
    BY <1>1 DEF RoundInv, vars, sorting
  <1>3. PICK k \in Nat : k = TF - ii + 1
    BY <1>2
  <1>4. /\ Leveled(Records', edges', level', k) /\ FlatOut(edges', level', Records')
        /\ FlatIn(edges', level', Before(Records, it) \cup {it} \cup (Records' \ Records))
        /\ Ordered(Records', tot', order) /\ Records \subseteq Records' /\ Records' \subseteq Ids
        /\ IsFiniteSet(Records')
    BY <1>1, <1>3, SplitInKeeps
  <1>5. it \in Records
    BY <1>1 DEF RoundInv, SecondLoop
  <1>6. Before(Records', it) \cup {it} \subseteq Before(Records, it) \cup {it} \cup (Records' \ Records)
    BY DEF Before
  <1>7. \/ phase' = "b" /\ it' \in Records' /\ Before(Records', it') \subseteq Before(Records', it) \cup {it}
        \/ phase' = "c" /\ it' \in Records' /\ Before(Records', it') = {}
           /\ Records' \subseteq Before(Records', it) \cup {it}
    <2> PICK R : R = Records'
      OBVIOUS
    <2>1. R \subseteq Ids /\ IsFiniteSet(R) /\ it \in R
      BY <1>4, <1>5
    <2>2. Walk(R, "c")
      BY <1>1
    <2> QED BY <1>1, <2>1, <2>2, WalkMeets
  <1>8. level' \in [Records' -> Nat \ {0}]
    BY <1>4 DEF Leveled
  <1>9. CASE phase' = "b"
    <2>1. /\ Before(Records', it') \subseteq Before(Records, it) \cup {it} \cup (Records' \ Records)
          /\ it' \in Records'
      BY <1>6, <1>7, <1>9
    <2>2. FlatIn(edges', level', Before(Records', it'))
      BY <1>4, <2>1, FlatFewer
    <2>3. SecondLoop(Records', edges', level', TF' - ii' + 1, it')
      BY <1>2, <1>3, <1>4, <2>1, <2>2 DEF SecondLoop
    <2> QED BY <1>2, <1>4, <1>8, <1>9, <2>3 DEF RoundInv
  <1>10. CASE phase' = "c"
    <2>1. /\ Records' \subseteq Before(Records, it) \cup {it} \cup (Records' \ Records) /\ it' \in Records'
          /\ Before(Records', it') = {}
      BY <1>6, <1>7, <1>10
    <2>2. FlatIn(edges', level', Records')
      BY <1>4, <2>1, FlatFewer
    <2>3. Unhalved(Records', level', it') = level'
      <3>1. \A m \in Records' : <<m, it'>> \notin KeyOrder
        BY <2>1 DEF Before
      <3>2. Unhalved(Records', level', it') = [m \in Records' |-> level'[m]]
        BY <3>1 DEF Unhalved
      <3> QED BY <1>8, <3>2
    <2>4. ThirdLoop(Records', edges', Unhalved(Records', level', it'), TF' - ii' + 1, it')
      BY <1>2, <1>3, <1>4, <2>1, <2>2, <2>3 DEF ThirdLoop
    <2> QED BY <1>2, <1>4, <1>8, <1>10, <2>4 DEF RoundInv
  <1> QED BY <1>7, <1>9, <1>10

\* o are levels, and l the same with those up to n halved
HalvedUpTo(S, o, l, n) ==
  \A x \in S : o[x] = IF x = n \/ <<x, n>> \in KeyOrder THEN 2 * l[x] ELSE l[x]

\* The third loop, before ++: an even level is half of what it was.
LEMMA HalveLevels ==
  ASSUME NEW R, R \subseteq Ids, NEW l, l \in [R -> Nat \ {0}], NEW n \in R, ~ IsOdd(l[n])
  PROVE  /\ [l EXCEPT ![n] = @ \div 2] \in [R -> Nat \ {0}]
         /\ HalvedUpTo(R, Unhalved(R, l, n), [l EXCEPT ![n] = @ \div 2], n)
  <1> PICK l1 : l1 = [l EXCEPT ![n] = @ \div 2]
    OBVIOUS
  <1>1. l[n] \in Nat \ {0} /\ l1[n] = l[n] \div 2 /\ \A x \in R : x # n => l1[x] = l[x]
    OBVIOUS
  <1>2. l1[n] \in Nat \ {0} /\ 2 * l1[n] = l[n]
    <2>1. l[n] % 2 = 0
      BY <1>1 DEF IsOdd
    <2> QED BY <1>1, <2>1
  <1>3. l1 \in [R -> Nat \ {0}]
    BY <1>1, <1>2
  <1>4. ASSUME NEW x \in R
        PROVE  Unhalved(R, l, n)[x] = IF x = n \/ <<x, n>> \in KeyOrder THEN 2 * l1[x] ELSE l1[x]
    <2>1. Unhalved(R, l, n)[x] = IF <<x, n>> \in KeyOrder THEN 2 * l[x] ELSE l[x]
      BY DEF Unhalved
    <2>2. CASE x = n
      <3>1. n \in Ids
        OBVIOUS
      <3>2. <<x, n>> \notin KeyOrder
        BY <2>2, <3>1, KeyAssumption
      <3> QED BY <1>2, <2>1, <2>2, <3>2
    <2>3. CASE x # n
      <3>1. l1[x] = l[x]
        BY <1>1, <2>3
      <3> QED BY <2>1, <2>3, <3>1
    <2> QED BY <2>2, <2>3
  <1> QED BY <1>3, <1>4 DEF HalvedUpTo

\* ++ behind a node whose level was halved, or that was folded: o are the levels
\* of the nodes S that are left before any was halved.
LEMMA ThirdLoopMoves ==
  ASSUME NEW R, R \subseteq Ids, IsFiniteSet(R), it \in R, NEW next, Walk(R, next),
         NEW S, S \subseteq R, R \subseteq S \cup {it}, NEW E, E \subseteq S \X S,
         NEW l, l \in [S -> Nat \ {0}], NEW o, NEW k \in Nat,
         Leveled(S, E, o, k + 1), FlatOut(E, o, S), FlatIn(E, o, S), HalvedUpTo(S, o, l, it)
  PROVE  \/ phase' = phase /\ ThirdLoop(S, E, Unhalved(S, l, it'), k + 1, it')
         \/ phase' = next /\ Leveled(S, E, l, k)
  <1>1. \A x \in S : o[x] = IF x = it \/ <<x, it>> \in KeyOrder THEN 2 * l[x] ELSE l[x]
    BY DEF HalvedUpTo
  <1>2. CASE /\ phase' = phase /\ it' \in R /\ it' # it
             /\ \A m \in R : <<m, it'>> \in KeyOrder <=> m = it \/ <<m, it>> \in KeyOrder
    <2>1. it' \in S
      BY <1>2
    <2>2. \A x \in S : o[x] = IF <<x, it'>> \in KeyOrder THEN 2 * l[x] ELSE l[x]
      BY <1>1, <1>2
    <2>3. Unhalved(S, l, it') = o
      <3>1. o = [x \in S |-> o[x]]
        BY DEF Leveled
      <3>2. Unhalved(S, l, it') = [x \in S |-> o[x]]
        BY <2>2 DEF Unhalved
      <3> QED BY <3>1, <3>2
    <2> QED BY <1>2, <2>1, <2>3 DEF ThirdLoop
  <1>3. CASE phase' = next /\ \A m \in R : m = it \/ <<m, it>> \in KeyOrder
    <2>1. \A x \in S : o[x] = 2 * l[x]
      BY <1>1, <1>3
    <2>2. Leveled(S, E, l, k)
      BY <2>1, HalvedAll
    <2> QED BY <1>3, <2>2
  <1> QED BY <1>2, <1>3, WalkMoves

\* A node of an even level in the third loop.
LEMMA HalveRound == ASSUME FoldInv, RoundInv, Halve PROVE RoundInv'
  <1>1. /\ phase = "c" /\ ~ IsOdd(level[it]) /\ Walk(Records, "close")
        /\ level' = [level EXCEPT ![it] = @ \div 2]
        /\ TF' = TF /\ ii' = ii /\ order' = order /\ edges' = edges /\ tot' = tot /\ Records' = Records
    BY DEF Halve, vars, sorting, Records
  <1>2. TF \in Nat /\ ii \in 1..TF /\ level \in [Records -> Nat \ {0}] /\ Ordered(Records, tot, order)
    BY <1>1 DEF RoundInv
  <1>3. PICK k \in Nat : k = TF - ii /\ k + 1 = TF - ii + 1
    BY <1>2
  <1> PICK o : o = Unhalved(Records, level, it)
    OBVIOUS
  <1>4. it \in Records /\ Leveled(Records, edges, o, k + 1) /\ FlatOut(edges, o, Records) /\ FlatIn(edges, o, Records)
    <2>1. ThirdLoop(Records, edges, o, k + 1, it)
      BY <1>1, <1>3 DEF RoundInv
    <2> QED BY <2>1 DEF ThirdLoop
  <1>5. Records \subseteq Ids /\ IsFiniteSet(Records) /\ edges \subseteq Records \X Records
    BY <1>1, StoreFacts DEF RoundInv
  <1> PICK l1 : l1 = level'
    OBVIOUS
  <1>6. l1 \in [Records -> Nat \ {0}] /\ HalvedUpTo(Records, o, l1, it)
    BY <1>1, <1>2, <1>4, <1>5, HalveLevels
  <1>7. \/ phase' = "c" /\ ThirdLoop(Records, edges, Unhalved(Records, l1, it'), k + 1, it')
        \/ phase' = "close" /\ Leveled(Records, edges, l1, k)
    <2> PICK R : R = Records
      OBVIOUS
    <2> QED BY <1>1, <1>4, <1>5, <1>6, ThirdLoopMoves
  <1>8. CASE phase' = "c" /\ ThirdLoop(Records, edges, Unhalved(Records, l1, it'), k + 1, it')
    BY <1>1, <1>2, <1>3, <1>5, <1>6, <1>8 DEF RoundInv
  <1>9. CASE phase' = "close" /\ Leveled(Records, edges, l1, k)
    BY <1>1, <1>2, <1>3, <1>5, <1>6, <1>9 DEF RoundInv
  <1> QED BY <1>7, <1>8, <1>9

\* A node of an odd level there.
LEMMA FoldRound == ASSUME FoldInv, RoundInv, Fold PROVE RoundInv'
  <1>1. /\ phase = "c" /\ IsOdd(level[it]) /\ Walk(Records, "close")
        /\ level' = [x \in Records \ {it} |-> level[x]]
        /\ TF' = TF /\ ii' = ii /\ order' = Append(order, it) /\ tot' = tot /\ Records' = Records \ {it}
    BY DEF Fold, vars, sorting, Records
  <1>2. edges' = Bridged(edges, Records, it)
    BY DEF Fold, Bridges, OutNodes, InNodes, Bridged
  <1>3. TF \in Nat /\ ii \in 1..TF /\ level \in [Records -> Nat \ {0}] /\ Ordered(Records, tot, order)
    BY <1>1 DEF RoundInv
  <1>4. PICK k \in Nat : k = TF - ii /\ k + 1 = TF - ii + 1
    BY <1>3
  <1> PICK o : o = Unhalved(Records, level, it)
    OBVIOUS
  <1>5. it \in Records /\ Leveled(Records, edges, o, k + 1) /\ FlatOut(edges, o, Records) /\ FlatIn(edges, o, Records)
    <2>1. ThirdLoop(Records, edges, o, k + 1, it)
      BY <1>1, <1>4 DEF RoundInv
    <2> QED BY <2>1 DEF ThirdLoop
  <1>6. /\ Records \subseteq Ids /\ IsFiniteSet(Records) /\ edges \subseteq Records \X Records
        /\ tot \in Nat /\ Records \subseteq 0..tot - 1
    BY <1>1, StoreFacts DEF RoundInv
  <1> DEFINE S == Records \ {it}
  <1> PICK E1 : E1 = Bridged(edges, Records, it)
    OBVIOUS
  <1> PICK l1 : l1 = level'
    OBVIOUS
  <1> PICK o1 : o1 = [x \in S |-> o[x]]
    OBVIOUS
  <1>7. /\ \A x \in Records : o[x] = IF <<x, it>> \in KeyOrder THEN 2 * level[x] ELSE level[x]
        /\ <<it, it>> \notin KeyOrder
    <2>1. it \in Ids
      BY <1>5, <1>6
    <2> QED BY <2>1, KeyAssumption DEF Unhalved
  <1>8. o[it] = level[it] /\ IsOdd(o[it])
    BY <1>1, <1>5, <1>7
  <1>9. /\ DOMAIN o1 = S /\ o1 = [x \in DOMAIN o1 |-> o1[x]] /\ \A x \in S : o1[x] = o[x]
    OBVIOUS
  <1>10. Leveled(S, E1, o1, k + 1) /\ FlatOut(E1, o1, S) /\ FlatIn(E1, o1, S)
    <2>1. k + 1 \in Nat
      BY <1>4
    <2> QED BY <1>5, <1>6, <1>8, <1>9, <2>1, FoldLevels
  <1>11. E1 \subseteq S \X S
    <2>1. \A e \in edges : e \in Records \X Records /\ e = <<e[1], e[2]>>
      BY <1>6
    <2>2. ASSUME <<it, it>> \in edges PROVE FALSE
      <3>1. o[it] < o[it] /\ o[it] \in Nat
        BY <1>5, <2>2 DEF Leveled, Rises
      <3> QED BY <3>1
    <2>3. ASSUME NEW e \in E1 PROVE e \in S \X S
      <3>1. CASE e \in edges /\ it \notin {e[1], e[2]}
        BY <2>1, <3>1
      <3>2. CASE e \in {a \in Records : <<a, it>> \in edges} \X {b \in Records : <<it, b>> \in edges}
        BY <2>2, <3>2
      <3> QED BY <3>1, <3>2 DEF Bridged
    <2> QED BY <2>3
  <1>12. l1 \in [S -> Nat \ {0}] /\ \A x \in S : l1[x] = level[x]
    BY <1>1, <1>3
  <1>13. HalvedUpTo(S, o1, l1, it)
    BY <1>7, <1>9, <1>12 DEF HalvedUpTo
  <1>14. Ordered(S, tot, order')
    BY <1>1, <1>3, <1>5, <1>6, OrderedWithout
  <1> HIDE DEF S
  <1>15. \/ phase' = "c" /\ ThirdLoop(S, E1, Unhalved(S, l1, it'), k + 1, it')
         \/ phase' = "close" /\ Leveled(S, E1, l1, k)
    <2>1. S \subseteq Records /\ Records \subseteq S \cup {it}
      BY DEF S
    <2> QED BY <1>1, <1>5, <1>6, <1>10, <1>11, <1>12, <1>13, <2>1, ThirdLoopMoves
  <1>16. Records' = S /\ edges' = E1 /\ level' = l1 /\ S \subseteq Ids
    BY <1>1, <1>2, <1>6 DEF S
  <1>17. CASE phase' = "c" /\ ThirdLoop(S, E1, Unhalved(S, l1, it'), k + 1, it')
    BY <1>1, <1>3, <1>4, <1>12, <1>14, <1>16, <1>17 DEF RoundInv
  <1>18. CASE phase' = "close" /\ Leveled(S, E1, l1, k)
    BY <1>1, <1>3, <1>4, <1>12, <1>14, <1>16, <1>18 DEF RoundInv
  <1> QED BY <1>15, <1>17, <1>18

\* The loops over the labels leave the store as it is, and the next round begins.
LEMMA JoinRound == ASSUME RoundInv, Join PROVE RoundInv'
  <1>1. /\ phase = "close" /\ phase' = "close" /\ TF' = TF /\ ii' = ii /\ order' = order /\ tot' = tot
        /\ level' = level /\ edges' = edges /\ Records' = Records
    BY DEF Join, vars, sorting, Records
  <1> QED BY <1>1 DEF RoundInv

\* After the last round every level would be below one: no node is left.
LEMMA CloseRound == ASSUME FoldInv, RoundInv, Close PROVE RoundInv'
  <1>1. /\ phase = "close" /\ TF' = TF /\ ii' = ii + 1 /\ order' = order /\ tot' = tot
        /\ level' = level /\ edges' = edges /\ Records' = Records
    BY DEF Close, vars, sorting, Records
  <1>2. /\ TF \in Nat /\ ii \in 1..TF /\ level \in [Records -> Nat \ {0}] /\ Ordered(Records, tot, order)
        /\ Leveled(Records, edges, level, TF - ii)
    BY <1>1 DEF RoundInv
  <1>3. Records \subseteq Ids /\ IsFiniteSet(Records) /\ edges \subseteq Records \X Records
    BY <1>1, StoreFacts DEF RoundInv
  <1>4. CASE ii + 1 > TF
    <2>1. phase' = "finished"
      BY <1>1, <1>4 DEF Close
    <2>2. Records = {}
      <3> SUFFICES ASSUME NEW n \in Records PROVE FALSE
        OBVIOUS
      <3>1. TF - ii = 0
        BY <1>2, <1>4
      <3>2. level[n] < 2^0
        BY <1>2, <3>1 DEF Leveled
      <3>3. level[n] < 1 /\ level[n] \in Nat \ {0}
        BY <1>2, <3>2
      <3> QED BY <3>3
    <2> QED BY <1>1, <1>2, <1>3, <2>1, <2>2 DEF RoundInv
  <1>5. CASE ~ (ii + 1 > TF)
    <2>1. ii' \in 1..TF /\ TF' - ii' + 1 = TF - ii
      BY <1>1, <1>2, <1>5
    <2>2. phase' = (IF Records = {} THEN "close" ELSE "a") /\ it' = FirstOf(Records)
      BY <1>1, <1>5 DEF Close
    <2>3. CASE Records = {}
      <3>1. edges = {}
        BY <1>3, <2>3
      <3>2. Leveled(Records, edges, level, TF' - ii')
        BY <1>2, <2>3, <3>1 DEF Leveled, Rises
      <3> QED BY <1>1, <1>2, <1>3, <2>1, <2>2, <2>3, <3>2 DEF RoundInv
    <2>4. CASE Records # {}
      <3>1. it' \in Records /\ Before(Records, it') = {}
        BY <1>3, <2>2, <2>4, FirstBefore
      <3>2. FlatOut(edges, level, Before(Records, it'))
        BY <3>1 DEF FlatOut
      <3>3. FirstLoop(Records', edges', level', TF' - ii' + 1, it')
        BY <1>1, <1>2, <2>1, <3>1, <3>2 DEF FirstLoop
      <3> QED BY <1>1, <1>2, <1>3, <2>1, <2>2, <2>4, <3>3 DEF RoundInv
    <2> QED BY <2>3, <2>4
  <1> QED BY <1>4, <1>5

\* The store begins with the components, at their levels.
LEMMA StartRound ==
  ASSUME SearchInv, Numbering, Counting, Leveling, Topping, StartConstruct
  PROVE  RoundInv'
  <1>1. /\ stage = "done" /\ level' = tln /\ edges' = Crossing /\ tot' = scc_cnt /\ order' = <<>> /\ ii' = 1
        /\ TF' = TF
    BY DEF StartConstruct, vars, sorting
  <1>2. /\ tln \in [Components -> Nat \ {0}]
        /\ TF >= 1 => TF \in Nat /\ Leveled(Components, Crossing, tln, TF) /\ Components # {}
    BY <1>1, LevelsRise
  <1>3. /\ Records' = Components /\ scc_cnt \in Nat /\ Components = 0..scc_cnt - 1
        /\ Components \subseteq Ids /\ IsFiniteSet(Components)
    <2>1. scc_cnt \in Nat /\ scc_cnt <= MaxTot /\ MaxTot \in Nat
      BY ComponentsFit, FilesAssumption DEF SearchInv, SearchTypes
    <2>2. Components \subseteq 0..MaxTot - 1
      BY <2>1 DEF Components
    <2>3. IsFiniteSet(0..scc_cnt - 1)
      BY <2>1, FS_Interval
    <2> QED BY <1>1, <1>2, <2>1, <2>2, <2>3, KeyAssumption DEF Records, Components
  <1>4. Ordered(Records', tot', order')
    <2>1. <<>> \in Seq(0..scc_cnt - 1) /\ IsInjective(<<>>) /\ Range(<<>>) = {}
      BY DEF IsInjective, Range
    <2> QED BY <1>1, <1>3, <2>1 DEF Ordered
  <1>5. CASE TF < 1
    <2>1. phase' = "finished" /\ ~ (TF' >= 1)
      <3>1. phase' = "finished"
        BY <1>5 DEF StartConstruct
      <3>2. TF \in Int
        BY <1>5, RoundsType, <1>1 DEF Topping
      <3> QED BY <1>1, <1>5, <3>1, <3>2
    <2> QED BY <1>1, <1>2, <1>3, <1>4, <2>1 DEF RoundInv
  <1>6. CASE ~ (TF < 1)
    <2>1. phase' = "a" /\ it' = FirstOf(Components)
      BY <1>6 DEF StartConstruct
    <2>2. TF \in Int
      BY <1>1, RoundsType DEF Topping
    <2>3. TF \in Nat /\ TF >= 1 /\ Leveled(Components, Crossing, tln, TF) /\ Components # {}
      BY <1>2, <1>6, <2>2
    <2>4. it' \in Components /\ Before(Components, it') = {}
      BY <1>3, <2>1, <2>3, FirstBefore
    <2>5. TF' - ii' + 1 = TF /\ ii' \in 1..TF'
      BY <1>1, <2>3
    <2>6. FlatOut(edges', level', Before(Components, it'))
      BY <2>4 DEF FlatOut
    <2>7. FirstLoop(Records', edges', level', TF' - ii' + 1, it')
      BY <1>1, <1>3, <2>1, <2>3, <2>4, <2>5, <2>6 DEF FirstLoop
    <2> QED BY <1>1, <1>2, <1>3, <1>4, <2>1, <2>3, <2>5, <2>7 DEF RoundInv
  <1> QED BY <1>5, <1>6

\* Every step of a round keeps it.
LEMMA RoundStep ==
  /\ SearchInv /\ Numbering /\ Counting /\ Leveling /\ Topping
  /\ FoldInv /\ RoundInv /\ [ConstructNext]_allVars
  => RoundInv'
  <1> SUFFICES ASSUME SearchInv, Numbering, Counting, Leveling, Topping, FoldInv, RoundInv, [ConstructNext]_allVars
               PROVE  RoundInv'
    OBVIOUS
  <1>1. CASE Construct
    BY <1>1, StartRound, SplitOutRound, SplitInRound, HalveRound, FoldRound, JoinRound, CloseRound DEF Construct
  <1>2. CASE Work /\ UNCHANGED folding
    <2>1. phase' = phase /\ stage # "done"
      BY <1>2 DEF folding, Work, TryRoot, Descend, Looking, Seen, Return, Condense, Seed, Take, FinishLevels
    <2> QED BY <2>1 DEF FoldInv, RoundInv
  <1>3. CASE Begin /\ Renew
    BY <1>3 DEF Renew, RoundInv
  <1>4. CASE UNCHANGED allVars
    BY <1>4 DEF allVars, vars, sorting, folding, RoundInv, Records
  <1> QED BY <1>1, <1>2, <1>3, <1>4 DEF ConstructNext

-----------------------------------------------------------------------------
(* Labels where no node is new.  C are the components, M says which lead to  *)
(* which, r in which round each is folded, R which are stored yet, and l are *)
(* the labels of one side; for the other side M is turned around.            *)

\* M is reflexive and transitive
Ways(C, M) ==
  /\ M \subseteq C \X C /\ \A x \in C : <<x, x>> \in M
  /\ \A x, y, z \in C : <<x, y>> \in M /\ <<y, z>> \in M => <<x, z>> \in M

Back(M) == {<<p[2], p[1]>> : p \in M}

\* a label has its node, and others that it leads to
Labelled(C, M, l) == \A x \in C : x \in l[x] /\ l[x] \subseteq C /\ \A y \in l[x] : <<x, y>> \in M

\* a folded node that leads to one of a later round has a step there in its label
Climbs(C, M, r, R, l) ==
  \A x \in C \ R, w \in C :
    <<x, w>> \in M /\ r[x] < r[w] => \E a \in l[x] : r[x] < r[a] /\ <<a, w>> \in M

\* between two nodes of one round is one of a later round
Parted(C, M, r, R) ==
  \A x, y \in C :
    <<x, y>> \in M /\ x # y /\ r[x] = r[y] /\ (x \notin R \/ y \notin R) =>
      \E z \in C : r[x] < r[z] /\ <<x, z>> \in M /\ <<z, y>> \in M

\* w is of the last round between x and w
Summit(C, M, r, x, w) ==
  <<x, w>> \in M /\ \A z \in C : <<x, z>> \in M /\ <<z, w>> \in M => r[z] <= r[w]

\* the labels of D have every such node
Topped(C, M, r, l, D) == \A x \in D, w \in C : Summit(C, M, r, x, w) => w \in l[x]

\* l2 has what the labels have that x has in its label, and that label
Joining(l, x, l2) == l[x] \subseteq l2 /\ \A a \in l[x] : l[a] \subseteq l2

\* turned around, it is the same
LEMMA BackIs == ASSUME NEW C, NEW M, M \subseteq C \X C
                PROVE  Back(M) \subseteq C \X C /\ \A x, y : <<x, y>> \in Back(M) <=> <<y, x>> \in M
  <1>1. \A p \in M : \E a, b \in C : p = <<a, b>>
    OBVIOUS
  <1>2. ASSUME NEW x, NEW y PROVE <<x, y>> \in Back(M) <=> <<y, x>> \in M
    <2>1. ASSUME <<x, y>> \in Back(M) PROVE <<y, x>> \in M
      <3>1. PICK p \in M : <<x, y>> = <<p[2], p[1]>>
        BY <2>1 DEF Back
      <3>2. p = <<p[1], p[2]>>
        BY <1>1
      <3> QED BY <3>1, <3>2
    <2>2. ASSUME <<y, x>> \in M PROVE <<x, y>> \in Back(M)
      <3>1. PICK p \in M : p = <<y, x>>
        BY <2>2
      <3>2. p[2] = x /\ p[1] = y
        BY <3>1
      <3> QED BY <3>2 DEF Back
    <2> QED BY <2>1, <2>2
  <1>3. Back(M) \subseteq C \X C
    <2> SUFFICES ASSUME NEW p \in M PROVE <<p[2], p[1]>> \in C \X C
      BY DEF Back
    <2> QED BY <1>1
  <1> QED BY <1>2, <1>3

\* turned around they still are
LEMMA BackWays == ASSUME NEW C, NEW M, Ways(C, M) PROVE Ways(C, Back(M))
  <1>1. M \subseteq C \X C
    BY DEF Ways
  <1>2. Back(M) \subseteq C \X C /\ \A x, y : <<x, y>> \in Back(M) <=> <<y, x>> \in M
    BY <1>1, BackIs
  <1> QED BY <1>2 DEF Ways

\* and part as before
LEMMA BackParted ==
  ASSUME NEW C, NEW M, Ways(C, M), NEW r, NEW R, Parted(C, M, r, R) PROVE Parted(C, Back(M), r, R)
  <1>1. \A x, y : <<x, y>> \in Back(M) <=> <<y, x>> \in M
    BY BackIs DEF Ways
  <1> SUFFICES ASSUME NEW x \in C, NEW y \in C, <<y, x>> \in M, x # y, r[x] = r[y], x \notin R \/ y \notin R
               PROVE  \E z \in C : r[x] < r[z] /\ <<z, x>> \in M /\ <<y, z>> \in M
    BY <1>1 DEF Parted
  <1>2. \E z \in C : r[y] < r[z] /\ <<y, z>> \in M /\ <<z, x>> \in M
    BY DEF Parted
  <1> QED BY <1>2

\* A label that grows has what it had.
LEMMA GrownKeeps ==
  ASSUME NEW C, NEW M, NEW r, NEW R, NEW l, NEW l2, NEW D, D \subseteq C, \A x \in C : l[x] \subseteq l2[x]
  PROVE  /\ Climbs(C, M, r, R, l) => Climbs(C, M, r, R, l2)
         /\ Topped(C, M, r, l, D) => Topped(C, M, r, l2, D)
  <1>1. ASSUME Climbs(C, M, r, R, l) PROVE Climbs(C, M, r, R, l2)
    <2> SUFFICES ASSUME NEW x \in C \ R, NEW w \in C, <<x, w>> \in M, r[x] < r[w]
                 PROVE  \E a \in l2[x] : r[x] < r[a] /\ <<a, w>> \in M
      BY DEF Climbs
    <2>1. PICK a \in l[x] : r[x] < r[a] /\ <<a, w>> \in M
      BY <1>1 DEF Climbs
    <2> QED BY <2>1
  <1>2. ASSUME Topped(C, M, r, l, D) PROVE Topped(C, M, r, l2, D)
    BY <1>2 DEF Topped
  <1> QED BY <1>1, <1>2

\* With three rounds, one step of Join reaches every summit.
LEMMA JoinTops ==
  ASSUME NEW C, NEW M, Ways(C, M), NEW r \in [C -> 1..3], NEW l, NEW l2, NEW x \in C,
         Climbs(C, M, r, {}, l), Parted(C, M, r, {}), Labelled(C, M, l),
         Joining(l, x, l2), NEW w \in C, Summit(C, M, r, x, w)
  PROVE  w \in l2
  <1>0. /\ \A c \in C : r[c] \in {1, 2, 3}
        /\ l[x] \subseteq l2 /\ \A a \in l[x] : l[a] \subseteq l2
    BY DEF Joining
  <1>1. /\ <<x, x>> \in M /\ <<x, w>> \in M /\ <<w, w>> \in M
        /\ \A z \in C : <<x, z>> \in M /\ <<z, w>> \in M => r[z] <= r[w]
    BY DEF Summit, Ways
  <1>2. \A a, b, c \in C : <<a, b>> \in M /\ <<b, c>> \in M => <<a, c>> \in M
    BY DEF Ways
  <1>3. ASSUME NEW a \in C, <<x, a>> \in M, <<a, w>> \in M, a # w PROVE r[a] < r[w]
    <2>1. r[a] <= r[w]
      BY <1>1, <1>3
    <2>2. ASSUME r[a] = r[w] PROVE FALSE
      <3>1. PICK z \in C : r[a] < r[z] /\ <<a, z>> \in M /\ <<z, w>> \in M
        BY <1>3, <2>2 DEF Parted
      <3>2. r[z] <= r[w]
        BY <1>1, <1>2, <1>3, <3>1
      <3>3. r[a] \in {1, 2, 3} /\ r[z] \in {1, 2, 3}
        BY <1>0
      <3> QED BY <2>2, <3>1, <3>2, <3>3
    <2>3. r[a] \in {1, 2, 3} /\ r[w] \in {1, 2, 3}
      BY <1>0
    <2> QED BY <2>1, <2>2, <2>3
  <1>4. CASE x = w
    BY <1>0, <1>4 DEF Labelled
  <1>5. CASE x # w
    <2>1. r[x] < r[w]
      BY <1>1, <1>3, <1>5
    <2>2. PICK a \in l[x] : r[x] < r[a] /\ <<a, w>> \in M
      BY <1>1, <2>1 DEF Climbs
    <2>3. a \in C /\ <<x, a>> \in M
      BY DEF Labelled
    <2>4. CASE a = w
      BY <1>0, <2>4
    <2>5. CASE a # w
      <3>1. r[a] < r[w]
        BY <1>3, <2>2, <2>3, <2>5
      <3>2. PICK b \in l[a] : r[a] < r[b] /\ <<b, w>> \in M
        BY <2>2, <2>3, <3>1 DEF Climbs
      <3>3. b \in C /\ <<a, b>> \in M
        BY <2>3 DEF Labelled
      <3>4. <<x, b>> \in M
        BY <1>2, <2>3, <3>3
      <3>5. r[x] \in {1, 2, 3} /\ r[a] \in {1, 2, 3} /\ r[b] \in {1, 2, 3} /\ r[w] \in {1, 2, 3}
        BY <1>0, <2>3, <3>3
      <3>6. r[b] = 3
        BY <2>2, <3>2, <3>5
      <3>7. b = w
        <4>1. ASSUME b # w PROVE FALSE
          <5>1. r[b] < r[w]
            BY <1>3, <3>2, <3>3, <3>4, <4>1
          <5> QED BY <3>5, <3>6, <5>1
        <4> QED BY <4>1
      <3> QED BY <1>0, <3>2, <3>7
    <2> QED BY <2>4, <2>5
  <1> QED BY <1>4, <1>5

\* Where labels have every summit, those of two nodes meet if one leads to the other.
LEMMA LabelsMeet ==
  ASSUME NEW C, NEW M, Ways(C, M), NEW r \in [C -> 1..3], NEW li, NEW lo,
         Topped(C, M, r, li, C), Topped(C, Back(M), r, lo, C), NEW x \in C, NEW y \in C, <<x, y>> \in M
  PROVE  li[x] \cap lo[y] # {}
  <1> DEFINE Z == {z \in C : <<x, z>> \in M /\ <<z, y>> \in M}
  <1>1. x \in Z /\ \A z \in Z : r[z] \in {1, 2, 3}
    BY DEF Ways
  <1>2. PICK w \in Z : \A z \in Z : r[z] <= r[w]
    <2> HIDE DEF Z
    <2>1. CASE \E z \in Z : r[z] = 3
      BY <1>1, <2>1
    <2>2. CASE (\A z \in Z : r[z] # 3) /\ \E z \in Z : r[z] = 2
      BY <1>1, <2>2
    <2>3. CASE \A z \in Z : r[z] # 3 /\ r[z] # 2
      BY <1>1, <2>3
    <2> QED BY <2>1, <2>2, <2>3
  <1>3. Summit(C, M, r, x, w)
    <2>1. ASSUME NEW z \in C, <<x, z>> \in M, <<z, w>> \in M PROVE z \in Z
      BY <1>2, <2>1 DEF Ways
    <2> QED BY <1>2, <2>1 DEF Summit
  <1>4. \A a, b : <<a, b>> \in Back(M) <=> <<b, a>> \in M
    BY BackIs DEF Ways
  <1>5. Summit(C, Back(M), r, y, w)
    <2>1. ASSUME NEW z \in C, <<z, y>> \in M, <<w, z>> \in M PROVE z \in Z
      BY <1>2, <2>1 DEF Ways
    <2> QED BY <1>2, <1>4, <2>1 DEF Summit
  <1> QED BY <1>2, <1>3, <1>5 DEF Topped

\* A path to another node begins with an edge.
LEMMA FirstEdge ==
  ASSUME NEW N, NEW E, E \subseteq N \X N, NEW x \in N, NEW y, y # x, Joins(E, N, x, y)
  PROVE  \E m \in N : <<x, m>> \in E /\ Joins(E, N, m, y)
  <1> DEFINE S == {x} \cup {z \in N : \E m \in N : <<x, m>> \in E /\ Joins(E, N, m, z)}
  <1>1. S \in SUBSET N /\ x \in S
    OBVIOUS
  <1>2. ASSUME NEW e \in E, e[1] \in S PROVE e[2] \in S
    <2>1. PICK a \in N, b \in N : e = <<a, b>>
      OBVIOUS
    <2>2. CASE a = x
      <3>1. <<x, b>> \in E /\ Joins(E, N, b, b)
        BY <2>1, <2>2, JoinsSelf
      <3> QED BY <2>1, <3>1
    <2>3. ASSUME NEW m \in N, <<x, m>> \in E, Joins(E, N, m, a) PROVE e[2] \in S
      <3>1. Joins(E, N, a, b)
        BY <2>1, JoinsByEdge
      <3>2. Joins(E, N, m, b)
        BY <2>3, <3>1, JoinsOn
      <3> QED BY <2>1, <2>3, <3>2
    <2> QED BY <1>2, <2>1, <2>2, <2>3
  <1>3. y \in S
    <2> HIDE DEF S
    <2> QED BY <1>1, <1>2, JoinsStays
  <1> QED BY <1>3

\* ... and its last edge ends there.
LEMMA LastEdge ==
  ASSUME NEW N, NEW E, E \subseteq N \X N, NEW x \in N, NEW y, y # x, Joins(E, N, x, y)
  PROVE  \E m \in N : <<m, y>> \in E /\ Joins(E, N, x, m)
  <1> DEFINE S == {x} \cup {z \in N : \E m \in N : <<m, z>> \in E /\ Joins(E, N, x, m)}
  <1>1. S \in SUBSET N /\ x \in S
    OBVIOUS
  <1>2. ASSUME NEW e \in E, e[1] \in S PROVE e[2] \in S
    <2>1. PICK a \in N, b \in N : e = <<a, b>>
      OBVIOUS
    <2>2. Joins(E, N, x, a)
      <3>1. CASE a = x
        BY <3>1, JoinsSelf
      <3>2. ASSUME NEW m \in N, <<m, a>> \in E, Joins(E, N, x, m) PROVE Joins(E, N, x, a)
        BY <3>2, JoinsByEdge, JoinsOn
      <3> QED BY <1>2, <2>1, <3>1, <3>2
    <2> QED BY <2>1, <2>2
  <1>3. y \in S
    <2> HIDE DEF S
    <2> QED BY <1>1, <1>2, JoinsStays
  <1> QED BY <1>3

\* What folding n leaves: the ways from n lead through A to later rounds,
\* and those to n come through B from there.
LEMMA FoldClimbs ==
  ASSUME NEW C, NEW M, Ways(C, M), NEW r \in [C -> 1..3], NEW R, R \subseteq C, NEW n \in R, NEW A, A \subseteq C,
         \A x \in C \ R : r[x] <= r[n],
         \A w \in R \ {n} : <<n, w>> \in M => \E m \in A : r[n] < r[m] /\ <<m, w>> \in M,
         NEW l, NEW l2, Labelled(C, M, l), Climbs(C, M, r, R, l),
         \A x \in C : l[x] \subseteq l2[x], \A m \in A : l[m] \subseteq l2[n]
  PROVE  Climbs(C, M, r, R \ {n}, l2)
  <1> SUFFICES ASSUME NEW x \in C, x \notin R \ {n}, NEW w \in C, <<x, w>> \in M, r[x] < r[w]
               PROVE  \E a \in l2[x] : r[x] < r[a] /\ <<a, w>> \in M
    BY DEF Climbs
  <1>1. CASE x \in R
    <2>1. x = n /\ r[w] \in Int /\ r[n] \in Int
      BY <1>1
    <2>2. w \in R \ {n}
      BY <2>1
    <2>3. PICK m \in A : r[n] < r[m] /\ <<m, w>> \in M
      BY <2>1, <2>2
    <2>4. m \in l[m]
      BY DEF Labelled
    <2> QED BY <2>1, <2>3, <2>4
  <1>2. CASE x \notin R
    <2>1. PICK a \in l[x] : r[x] < r[a] /\ <<a, w>> \in M
      BY <1>2 DEF Climbs
    <2> QED BY <2>1
  <1> QED BY <1>1, <1>2

\* Two nodes of one round with n folded have a way through A or B.
LEMMA FoldParts ==
  ASSUME NEW C, NEW M, NEW r, NEW R, R \subseteq C, NEW n \in R, NEW A, A \subseteq C, NEW B, B \subseteq C,
         \A w \in R \ {n} : <<n, w>> \in M => \E m \in A : r[n] < r[m] /\ <<m, w>> \in M,
         \A w \in R \ {n} : <<w, n>> \in M => \E m \in B : r[n] < r[m] /\ <<w, m>> \in M,
         \A m \in A : <<n, m>> \in M, \A m \in B : <<m, n>> \in M,
         Parted(C, M, r, R)
  PROVE  Parted(C, M, r, R \ {n})
  <1> SUFFICES ASSUME NEW x \in C, NEW y \in C, <<x, y>> \in M, x # y, r[x] = r[y],
                      x \notin R \ {n} \/ y \notin R \ {n}
               PROVE  \E z \in C : r[x] < r[z] /\ <<x, z>> \in M /\ <<z, y>> \in M
    BY DEF Parted
  <1>1. CASE x \notin R \/ y \notin R
    BY <1>1 DEF Parted
  <1>2. CASE x \in R /\ y \in R /\ x = n
    <2>1. PICK m \in A : r[n] < r[m] /\ <<m, y>> \in M
      BY <1>2
    <2> QED BY <1>2, <2>1
  <1>3. CASE x \in R /\ y \in R /\ y = n
    <2>1. PICK m \in B : r[n] < r[m] /\ <<x, m>> \in M
      BY <1>3
    <2>2. r[x] < r[m] /\ <<m, y>> \in M
      BY <1>3, <2>1
    <2> QED BY <2>1, <2>2
  <1> QED BY <1>1, <1>2, <1>3

-----------------------------------------------------------------------------
(* ... and in construct(), for components below level 8                      *)

\* the round that folds a node of a level
Turn(l) == IF IsOdd(l) THEN 1 ELSE IF IsOdd(l \div 2) THEN 2 ELSE 3
\* what is halved away before round k
Scale(k) == IF k = 1 THEN 1 ELSE IF k = 2 THEN 2 ELSE IF k = 3 THEN 4 ELSE 8

\* the rounds of the components
Turns == [c \in Components |-> Turn(tln[c])]
\* which component leads to which
Way == {p \in Components \X Components : Precedes(p[1], p[2])}

\* o are the levels t before round k
Scaled(R, t, o, k) == \A x \in R : t[x] = Scale(k) * o[x]
\* what is not stored was folded by round n
FoldedBy(C, R, r, n) == \A x \in C \ R : r[x] <= n

\* the case of the theorem
Short == phase # "off" /\ TF \in 1..3 /\ tot = scc_cnt

\* levels are halved in step with the rounds, and a round folds what is its turn
TurnInv ==
  /\ \A c \in Components : tln[c] \in 1..7
  /\ phase \in {"a", "b"} => Scaled(Records, tln, level, ii) /\ FoldedBy(Components, Records, Turns, ii - 1)
  /\ phase = "c" =>
       Scaled(Records, tln, Unhalved(Records, level, it), ii) /\ FoldedBy(Components, Records, Turns, ii)
  /\ phase = "close" => Scaled(Records, tln, level, ii + 1) /\ FoldedBy(Components, Records, Turns, ii)

\* a label has its node
Owned(C, li, lo) == \A x \in C : x \in li[x] /\ x \in lo[x]

\* both sides, while nodes are folded
LabelsAt(C, M, r, R, li, lo) ==
  Owned(C, li, lo) /\ Climbs(C, M, r, R, li) /\ Climbs(C, Back(M), r, R, lo) /\ Parted(C, M, r, R)

\* both sides, where Join has been
ToppedAt(C, M, r, li, lo, D) == Topped(C, M, r, li, D) /\ Topped(C, Back(M), r, lo, D)

\* the last pass of Join tops the components from the last one down
TopInv ==
  /\ joined \in Nat /\ (phase \in {"a", "b", "c"} => joined = 0)
  /\ phase = "close" /\ Records = {} =>
       ToppedAt(Components, Way, Turns, label_in, label_out, {x \in Components : x >= Len(order) - joined})
  /\ phase = "finished" => ToppedAt(Components, Way, Turns, label_in, label_out, Components)

\* the invariant of the labels
LabelInv ==
  Short => TurnInv /\ LabelsAt(Components, Way, Turns, Records, label_in, label_out) /\ TopInv

\* Each round halves the levels once more.
LEMMA ScaleIs == ASSUME NEW k \in 1..3 PROVE Scale(k) \in Nat \ {0} /\ Scale(k + 1) = 2 * Scale(k)
  BY DEF Scale

\* A level below 8 divided by what was halved away is odd in its round.
LEMMA TurnIs ==
  ASSUME NEW l \in 1..7, NEW k \in 1..3, NEW o \in Nat \ {0}, l = Scale(k) * o
  PROVE  k <= Turn(l) /\ (IsOdd(o) <=> Turn(l) = k)
  <1>1. CASE k = 1
    <2>1. l = o
      BY <1>1 DEF Scale
    <2> QED BY <1>1, <2>1 DEF Turn
  <1>2. CASE k = 2
    <2>1. l = 2 * o
      BY <1>2 DEF Scale
    <2>2. l % 2 = 0 /\ l \div 2 = o
      BY <2>1
    <2> QED BY <1>2, <2>2 DEF Turn, IsOdd
  <1>3. CASE k = 3
    <2>1. l = 4 * o
      BY <1>3 DEF Scale
    <2>2. o = 1 /\ l = 4
      BY <2>1
    <2> QED BY <1>3, <2>2 DEF Turn, IsOdd
  <1> QED BY <1>1, <1>2, <1>3

\* the rounds of components are the first three
LEMMA TurnsType == Turns \in [Components -> 1..3]
  BY DEF Turns, Turn

\* the ways between components
LEMMA WayIs == Ways(Components, Way) /\ \A x, y \in Components : <<x, y>> \in Way <=> Precedes(x, y)
  <1>1. \A x, y \in Components : <<x, y>> \in Way <=> Precedes(x, y)
    BY DEF Way
  <1>2. Way \subseteq Components \X Components
    BY DEF Way
  <1>3. \A x \in Components : <<x, x>> \in Way
    BY <1>1, JoinsSelf DEF Precedes
  <1>4. \A x, y, z \in Components : <<x, y>> \in Way /\ <<y, z>> \in Way => <<x, z>> \in Way
    BY <1>1, JoinsOn DEF Precedes
  <1> QED BY <1>1, <1>2, <1>3, <1>4 DEF Ways

\* What the store and the labels are where no node is new.
LEMMA ShortStore ==
  ASSUME FoldInv, Short
  PROVE  /\ tot \in Nat /\ Components = 0..tot - 1 /\ Records \subseteq Components /\ edges \subseteq Records \X Records
         /\ \A x, y \in Records : Joins(edges, Records, x, y) <=> <<x, y>> \in Way
         /\ label_in \in [Components -> SUBSET Components] /\ label_out \in [Components -> SUBSET Components]
         /\ \A c \in Components : fa[c] = c
  <1>1. Kept(Components, Crossing, Records, edges, tot, fa, label_in, label_out)
    BY DEF FoldInv, Short
  <1>2. Components = 0..tot - 1
    BY DEF Short, Components
  <1>3. /\ tot \in Nat /\ Records \subseteq Components /\ edges \subseteq Records \X Records
        /\ label_in \in [Components -> SUBSET Components] /\ label_out \in [Components -> SUBSET Components]
        /\ \A c \in Components : fa[c] = c
    BY <1>1, <1>2 DEF Kept, KeptTypes
  <1>4. \A x, y \in Records \cap Components : Joins(edges, Records, x, y) <=> Precedes(x, y)
    BY <1>1 DEF Kept, KeptJoins, Precedes
  <1> QED BY <1>2, <1>3, <1>4, WayIs

\* Labels that have their own node name what their nodes lead to.
LEMMA ShortLabels ==
  ASSUME FoldInv, Short, Owned(Components, label_in, label_out)
  PROVE  Labelled(Components, Way, label_in) /\ Labelled(Components, Back(Way), label_out)
  <1>1. Kept(Components, Crossing, Records, edges, tot, fa, label_in, label_out)
    BY DEF FoldInv, Short
  <1>2. \A x \in Components :
          /\ \A y \in label_in[x] : Precedes(fa[x], fa[y])
          /\ \A y \in label_out[x] : Precedes(fa[y], fa[x])
    BY <1>1, ShortStore DEF Kept, KeptLabels, Precedes
  <1>3. \A x \in Components :
          /\ label_in[x] \subseteq Components /\ label_out[x] \subseteq Components
          /\ \A y \in label_in[x] : <<x, y>> \in Way
          /\ \A y \in label_out[x] : <<y, x>> \in Way
    BY <1>2, ShortStore, WayIs
  <1>4. \A x, y : <<x, y>> \in Back(Way) <=> <<y, x>> \in Way
    BY WayIs, BackIs DEF Ways
  <1> QED BY <1>3, <1>4 DEF Labelled, Owned

\* What the steps of construct() leave as it is.
LEMMA SearchStays ==
  ASSUME Construct
  PROVE  /\ Components' = Components /\ Way' = Way /\ Turns' = Turns
         /\ tln' = tln /\ TF' = TF /\ scc_cnt' = scc_cnt /\ stage' = stage
  <1>1. /\ tln' = tln /\ TF' = TF /\ scc_cnt' = scc_cnt /\ stage' = stage /\ GG' = GG /\ sccno' = sccno
    BY ConstructionApart DEF vars, sorting, search
  <1>2. Components' = Components /\ Nodes' = Nodes
    BY <1>1 DEF Components, Nodes
  <1>3. Crossing' = Crossing
    BY <1>1, <1>2 DEF Crossing
  <1>4. Way' = Way
    BY <1>2, <1>3 DEF Way, Precedes, Joins
  <1> QED BY <1>1, <1>2, <1>4 DEF Turns

\* The beginning: every component is stored, and has a label of its own.
LEMMA StartLabels ==
  ASSUME SearchInv, Numbering, Counting, Leveling, Topping, StartConstruct, FoldInv', Short' PROVE LabelInv'
  <1>0. /\ Components' = Components /\ Way' = Way /\ Turns' = Turns
        /\ tln' = tln /\ TF' = TF /\ scc_cnt' = scc_cnt
    BY SearchStays DEF Construct
  <1>1. /\ stage = "done" /\ level' = tln /\ ii' = 1 /\ joined' = 0 /\ TF \in 1..3
        /\ label_in' = [c \in Components |-> {c}] /\ label_out' = [c \in Components |-> {c}]
    BY <1>0 DEF StartConstruct, Short
  <1>2. phase' = "a"
    BY <1>1 DEF StartConstruct
  <1>3. tln \in [Components -> Nat \ {0}] /\ Leveled(Components, Crossing, tln, TF)
    BY <1>1, LevelsRise
  <1>4. Records' = Components
    BY <1>1, <1>3 DEF Records
  <1>5. 2^TF <= 8 /\ 2^TF \in Nat
    <2>1. 2^0 = 1 /\ 2^1 = 2 * 2^0 /\ 2^2 = 2 * 2^1 /\ 2^3 = 2 * 2^2
      <3>1. 2^0 = 1
        OBVIOUS
      <3>2. 2^(0 + 1) = 2 * 2^0 /\ 2^(1 + 1) = 2 * 2^1 /\ 2^(2 + 1) = 2 * 2^2
        BY PowerDoubles
      <3> QED BY <3>1, <3>2
    <2>2. 2^1 = 2 /\ 2^2 = 4 /\ 2^3 = 8
      BY <2>1
    <2>3. CASE TF = 1
      <3>1. 2^TF = 2
        BY <2>2, <2>3
      <3> QED BY <3>1
    <2>4. CASE TF = 2
      <3>1. 2^TF = 4
        BY <2>2, <2>4
      <3> QED BY <3>1
    <2>5. CASE TF = 3
      <3>1. 2^TF = 8
        BY <2>2, <2>5
      <3> QED BY <3>1
    <2> QED BY <1>1, <2>3, <2>4, <2>5
  <1>6. \A c \in Components : tln[c] \in 1..7
    BY <1>3, <1>5 DEF Leveled
  <1>7. Scaled(Records', tln', level', ii') /\ FoldedBy(Components', Records', Turns', ii' - 1)
    BY <1>0, <1>1, <1>3, <1>4, <1>6 DEF Scaled, FoldedBy, Scale
  <1>8. TurnInv'
    BY <1>0, <1>2, <1>6, <1>7 DEF TurnInv
  <1>9. LabelsAt(Components, Way, Turns, Components, label_in', label_out')
    BY <1>1 DEF LabelsAt, Owned, Climbs, Parted
  <1>10. TopInv'
    BY <1>1, <1>2 DEF TopInv
  <1> QED BY <1>0, <1>4, <1>8, <1>9, <1>10 DEF LabelInv

\* A split that makes no new node changes nothing.
LEMMA ShortSplit ==
  ASSUME FoldInv, Short', TF' = TF, scc_cnt' = scc_cnt, phase # "off",
         NEW n, NEW far, NEW l, NEW outwards, Split(n, far, l, outwards)
  PROVE  /\ Short /\ Records' = Records /\ level' = level
         /\ UNCHANGED <<label_in, label_out>>
  <1>1. tot \in Nat /\ scc_cnt <= tot
    <2>1. tot \in Nat /\ Components \subseteq 0..tot - 1
      BY DEF FoldInv, Kept, KeptTypes
    <2>2. scc_cnt = tot \/ scc_cnt = tot + 1
      BY <2>1 DEF Short, Split
    <2>3. ASSUME scc_cnt = tot + 1 PROVE FALSE
      <3>1. tot \in Components
        BY <2>1, <2>3 DEF Components
      <3> QED BY <2>1, <3>1
    <2> QED BY <2>1, <2>2, <2>3
  <1>2. far = {}
    <2>1. ASSUME far # {} PROVE FALSE
      <3>1. tot' = tot + 1
        BY <2>1 DEF Split
      <3> QED BY <1>1, <3>1 DEF Short
    <2> QED BY <2>1
  <1> QED BY <1>2 DEF Split, Short, Records

\* The loops that split.
LEMMA SplitLabels ==
  ASSUME FoldInv, RoundInv, LabelInv, SplitOut \/ SplitIn, Short' PROVE LabelInv'
  <1>0. /\ Components' = Components /\ Way' = Way /\ Turns' = Turns
        /\ tln' = tln /\ TF' = TF /\ scc_cnt' = scc_cnt
    BY SearchStays DEF Construct
  <1>1. phase \in {"a", "b"} /\ UNCHANGED <<ii, order, joined>>
    BY DEF SplitOut, SplitIn
  <1>2. /\ Short /\ Records' = Records /\ level' = level /\ UNCHANGED <<label_in, label_out>>
    <2>1. CASE SplitOut
      BY <1>0, <1>1, <2>1, ShortSplit DEF SplitOut
    <2>2. CASE SplitIn
      BY <1>0, <1>1, <2>2, ShortSplit DEF SplitIn
    <2> QED BY <2>1, <2>2
  <1>3. TurnInv /\ LabelsAt(Components, Way, Turns, Records, label_in, label_out) /\ TopInv
    BY <1>2 DEF LabelInv
  <1>4. Records \subseteq Ids /\ IsFiniteSet(Records) /\ it \in Records /\ ii \in 1..TF
        /\ level \in [Records -> Nat \ {0}]
    BY <1>1, StoreFacts DEF RoundInv, FirstLoop, SecondLoop
  <1>5. \/ phase' \in {"a", "b"}
        \/ phase' = "c" /\ Before(Records, it') = {}
    <2>1. \/ phase' = phase
          \/ phase = "a" /\ phase' = "b"
          \/ phase = "b" /\ phase' = "c" /\ it' = FirstOf(Records)
      BY <1>1, <1>2 DEF SplitOut, SplitIn, Walk, Records
    <2>2. Before(Records, FirstOf(Records)) = {}
      BY <1>4, FirstBefore
    <2> QED BY <1>1, <2>1, <2>2
  <1>6. TurnInv'
    <2>1. Scaled(Records, tln, level, ii) /\ FoldedBy(Components, Records, Turns, ii - 1)
      BY <1>1, <1>3 DEF TurnInv
    <2>2. CASE phase' \in {"a", "b"}
      BY <1>0, <1>1, <1>2, <1>3, <2>1, <2>2 DEF TurnInv
    <2>3. CASE phase' = "c" /\ Before(Records, it') = {}
      <3>1. Unhalved(Records, level, it') = level
        BY <1>4, <2>3 DEF Unhalved, Before
      <3>2. FoldedBy(Components, Records, Turns, ii)
        BY <1>4, <2>1, TurnsType DEF FoldedBy
      <3> QED BY <1>0, <1>1, <1>2, <1>3, <2>1, <2>3, <3>1, <3>2 DEF TurnInv
    <2> QED BY <1>5, <2>2, <2>3
  <1>7. TopInv'
    BY <1>1, <1>3, <1>5 DEF TopInv
  <1> QED BY <1>0, <1>2, <1>3, <1>6, <1>7 DEF LabelInv

\* ++ in the third loop: the levels of what is left are unhalved up to the next
\* node, or all of them are half of what they were.
LEMMA HalvedOn ==
  ASSUME NEW R, R \subseteq Ids, IsFiniteSet(R), it \in R, NEW next, Walk(R, next),
         NEW S, S \subseteq R, R \subseteq S \cup {it}, NEW o, NEW l, HalvedUpTo(S, o, l, it),
         NEW t, NEW k \in 1..3, l \in [S -> Nat \ {0}], Scaled(S, t, o, k)
  PROVE  \/ phase' = phase /\ Scaled(S, t, Unhalved(S, l, it'), k)
         \/ phase' = next /\ Scaled(S, t, l, k + 1)
  <1>1. \A x \in S : o[x] = IF x = it \/ <<x, it>> \in KeyOrder THEN 2 * l[x] ELSE l[x]
    BY DEF HalvedUpTo
  <1>2. CASE /\ phase' = phase
             /\ \A m \in R : <<m, it'>> \in KeyOrder <=> m = it \/ <<m, it>> \in KeyOrder
    <2>1. \A x \in S : Unhalved(S, l, it')[x] = o[x]
      BY <1>1, <1>2 DEF Unhalved
    <2> QED BY <1>2, <2>1 DEF Scaled
  <1>3. CASE phase' = next /\ \A m \in R : m = it \/ <<m, it>> \in KeyOrder
    <2>1. PICK a \in Nat, b \in Nat : a = Scale(k) /\ b = Scale(k + 1) /\ b = 2 * a
      BY ScaleIs
    <2>2. ASSUME NEW x \in S PROVE t[x] = b * l[x]
      <3>1. t[x] = a * o[x] /\ o[x] = 2 * l[x] /\ l[x] \in Nat
        BY <1>1, <1>3, <2>1 DEF Scaled
      <3>2. PICK m \in Nat : m = l[x]
        BY <3>1
      <3>3. a * (2 * m) = (2 * a) * m
        BY <2>1
      <3> QED BY <2>1, <3>1, <3>2, <3>3
    <2> QED BY <1>3, <2>1, <2>2 DEF Scaled
  <1> QED BY <1>2, <1>3, WalkMoves

\* What the third loop knows of the node it is at.
LEMMA ThirdLoopAt ==
  ASSUME FoldInv, RoundInv, LabelInv, Short, phase = "c"
  PROVE  /\ Records \subseteq Ids /\ IsFiniteSet(Records) /\ it \in Records /\ ii \in 1..3
         /\ level \in [Records -> Nat \ {0}] /\ joined = 0
         /\ Unhalved(Records, level, it) \in [Records -> Nat \ {0}]
         /\ Unhalved(Records, level, it)[it] = level[it]
         /\ FlatOut(edges, Unhalved(Records, level, it), Records)
         /\ FlatIn(edges, Unhalved(Records, level, it), Records)
         /\ Scaled(Records, tln, Unhalved(Records, level, it), ii)
         /\ FoldedBy(Components, Records, Turns, ii)
         /\ \A c \in Components : tln[c] \in 1..7
  <1>1. /\ Records \subseteq Ids /\ IsFiniteSet(Records) /\ level \in [Records -> Nat \ {0}] /\ ii \in 1..3
    BY StoreFacts DEF RoundInv, Short
  <1>2. /\ it \in Records /\ FlatOut(edges, Unhalved(Records, level, it), Records)
        /\ FlatIn(edges, Unhalved(Records, level, it), Records)
        /\ Unhalved(Records, level, it) \in [Records -> Nat \ {0}]
    BY DEF RoundInv, ThirdLoop, Leveled
  <1>3. Unhalved(Records, level, it)[it] = level[it]
    <2>1. it \in Ids
      BY <1>1, <1>2
    <2>2. <<it, it>> \notin KeyOrder
      BY <2>1, KeyAssumption
    <2> QED BY <1>2, <2>2 DEF Unhalved
  <1>4. /\ Scaled(Records, tln, Unhalved(Records, level, it), ii)
        /\ FoldedBy(Components, Records, Turns, ii) /\ joined = 0
        /\ \A c \in Components : tln[c] \in 1..7
    BY DEF LabelInv, TurnInv, TopInv
  <1> QED BY <1>1, <1>2, <1>3, <1>4

\* The third loop, at a node of an even level.
LEMMA HalveLabels ==
  ASSUME FoldInv, RoundInv, LabelInv, Halve, Short' PROVE LabelInv'
  <1>0. /\ Components' = Components /\ Way' = Way /\ Turns' = Turns
        /\ tln' = tln /\ TF' = TF /\ scc_cnt' = scc_cnt
    BY SearchStays DEF Construct
  <1>1. /\ phase = "c" /\ ~ IsOdd(level[it]) /\ Walk(Records, "close")
        /\ level' = [level EXCEPT ![it] = @ \div 2] /\ Records' = Records
        /\ UNCHANGED <<ii, tot, label_in, label_out, order, joined>>
    BY DEF Halve, Records
  <1>2. Short
    BY <1>0, <1>1 DEF Short
  <1> PICK o : o = Unhalved(Records, level, it)
    OBVIOUS
  <1> PICK l1 : l1 = level'
    OBVIOUS
  <1>3. /\ Records \subseteq Ids /\ IsFiniteSet(Records) /\ it \in Records /\ ii \in 1..3
        /\ level \in [Records -> Nat \ {0}] /\ joined = 0
        /\ Scaled(Records, tln, o, ii) /\ FoldedBy(Components, Records, Turns, ii)
        /\ \A c \in Components : tln[c] \in 1..7
    BY <1>1, <1>2, ThirdLoopAt
  <1>4. l1 \in [Records -> Nat \ {0}] /\ HalvedUpTo(Records, o, l1, it)
    BY <1>1, <1>3, HalveLevels
  <1>5. \/ phase' = "c" /\ Scaled(Records, tln, Unhalved(Records, l1, it'), ii)
        \/ phase' = "close" /\ Scaled(Records, tln, l1, ii + 1)
    <2> PICK R : R = Records
      OBVIOUS
    <2>1. /\ R \subseteq Ids /\ IsFiniteSet(R) /\ it \in R /\ Records \subseteq R /\ R \subseteq Records \cup {it}
          /\ Walk(R, "close")
      BY <1>1, <1>3
    <2>2. l1 \in [Records -> Nat \ {0}] /\ HalvedUpTo(Records, o, l1, it) /\ Scaled(Records, tln, o, ii) /\ ii \in 1..3
      BY <1>3, <1>4
    <2>3. \/ phase' = phase /\ Scaled(Records, tln, Unhalved(Records, l1, it'), ii)
          \/ phase' = "close" /\ Scaled(Records, tln, l1, ii + 1)
      BY <2>1, <2>2, HalvedOn
    <2> QED BY <1>1, <2>3
  <1>6. TurnInv'
    BY <1>0, <1>1, <1>3, <1>5 DEF TurnInv
  <1>7. LabelsAt(Components, Way, Turns, Records, label_in, label_out)
    BY <1>2 DEF LabelInv
  <1>8. TopInv'
    BY <1>1, <1>3, <1>5 DEF TopInv
  <1> QED BY <1>0, <1>1, <1>6, <1>7, <1>8 DEF LabelInv

\* A node that is folded has its round, its neighbours have later ones.
LEMMA FoldTurns ==
  ASSUME FoldInv, RoundInv, LabelInv, Short, phase = "c", IsOdd(level[it])
  PROVE  /\ Turns[it] = ii /\ it \in Records
         /\ \A m \in OutNodes(it) \cup InNodes(it) : m \in Records /\ ii < Turns[m]
         /\ \A x \in Components \ Records : Turns[x] <= ii
  <1> PICK o : o = Unhalved(Records, level, it)
    OBVIOUS
  <1>1. /\ it \in Records /\ ii \in 1..3 /\ o \in [Records -> Nat \ {0}] /\ o[it] = level[it]
        /\ FlatOut(edges, o, Records) /\ FlatIn(edges, o, Records)
        /\ Scaled(Records, tln, o, ii) /\ FoldedBy(Components, Records, Turns, ii)
        /\ \A c \in Components : tln[c] \in 1..7
    BY ThirdLoopAt
  <1>2. Records \subseteq Components
    BY ShortStore
  <1>3. ASSUME NEW x \in Records PROVE ii <= Turns[x] /\ (IsOdd(o[x]) <=> Turns[x] = ii) /\ Turns[x] \in Nat
    <2>1. tln[x] \in 1..7 /\ o[x] \in Nat \ {0} /\ tln[x] = Scale(ii) * o[x] /\ Turns[x] = Turn(tln[x])
      BY <1>1, <1>2 DEF Scaled, Turns
    <2>2. ii <= Turn(tln[x]) /\ (IsOdd(o[x]) <=> Turn(tln[x]) = ii)
      BY <1>1, <2>1, TurnIs
    <2>3. Turns[x] \in Nat
      BY <1>2, TurnsType
    <2> QED BY <2>1, <2>2, <2>3
  <1>4. ASSUME NEW m \in Records, o[m] = o[it] + 1 \/ o[it] = o[m] + 1 PROVE ii < Turns[m]
    <2>1. PICK a \in Nat, b \in Nat : a = o[m] /\ b = o[it]
      BY <1>1
    <2>2. IsOdd(b)
      BY <1>1, <2>1
    <2>3. ~ IsOdd(a)
      BY <1>4, <2>1, <2>2, OddNext
    <2>4. Turns[m] # ii /\ ii <= Turns[m] /\ Turns[m] \in Nat
      BY <1>3, <2>1, <2>3
    <2> QED BY <1>1, <2>4
  <1>5. ASSUME NEW m \in OutNodes(it) PROVE m \in Records /\ ii < Turns[m]
    <2>1. m \in Records /\ <<it, m>> \in edges
      BY DEF OutNodes
    <2>2. PICK e \in edges : e = <<it, m>>
      BY <2>1
    <2>3. o[m] = o[it] + 1
      BY <1>1, <2>2 DEF FlatOut
    <2> QED BY <1>4, <2>1, <2>3
  <1>6. ASSUME NEW m \in InNodes(it) PROVE m \in Records /\ ii < Turns[m]
    <2>1. m \in Records /\ <<m, it>> \in edges
      BY DEF InNodes
    <2>2. PICK e \in edges : e = <<m, it>>
      BY <2>1
    <2>3. o[it] = o[m] + 1
      BY <1>1, <2>2 DEF FlatIn
    <2> QED BY <1>4, <2>1, <2>3
  <1>7. Turns[it] = ii
    BY <1>1, <1>3
  <1> QED BY <1>1, <1>5, <1>6, <1>7 DEF FoldedBy

\* From it the ways go through its neighbours, and so do those to it.
LEMMA FoldWays ==
  ASSUME FoldInv, Short, it \in Records
  PROVE  /\ \A w \in Records \ {it} : <<it, w>> \in Way => \E m \in OutNodes(it) : <<m, w>> \in Way
         /\ \A w \in Records \ {it} : <<w, it>> \in Way => \E m \in InNodes(it) : <<w, m>> \in Way
         /\ \A m \in OutNodes(it) : <<it, m>> \in Way
         /\ \A m \in InNodes(it) : <<m, it>> \in Way
  <1>1. /\ edges \subseteq Records \X Records
        /\ \A x, y \in Records : Joins(edges, Records, x, y) <=> <<x, y>> \in Way
    BY ShortStore
  <1>2. ASSUME NEW w \in Records, w # it, <<it, w>> \in Way PROVE \E m \in OutNodes(it) : <<m, w>> \in Way
    <2>1. PICK m \in Records : <<it, m>> \in edges /\ Joins(edges, Records, m, w)
      BY <1>1, <1>2, FirstEdge
    <2> QED BY <1>1, <2>1 DEF OutNodes
  <1>3. ASSUME NEW w \in Records, w # it, <<w, it>> \in Way PROVE \E m \in InNodes(it) : <<w, m>> \in Way
    <2>1. PICK m \in Records : <<m, it>> \in edges /\ Joins(edges, Records, w, m)
      BY <1>1, <1>3, LastEdge
    <2> QED BY <1>1, <2>1 DEF InNodes
  <1>4. ASSUME NEW m \in OutNodes(it) PROVE <<it, m>> \in Way
    <2>1. m \in Records /\ Joins(edges, Records, it, m)
      BY JoinsByEdge DEF OutNodes
    <2> QED BY <1>1, <2>1
  <1>5. ASSUME NEW m \in InNodes(it) PROVE <<m, it>> \in Way
    <2>1. m \in Records /\ Joins(edges, Records, m, it)
      BY JoinsByEdge DEF InNodes
    <2> QED BY <1>1, <2>1
  <1> QED BY <1>2, <1>3, <1>4, <1>5

\* The labels of the third loop, at a node of an odd level.
LEMMA FoldLabelsMeet ==
  ASSUME FoldInv, RoundInv, LabelInv, Fold, Short
  PROVE  LabelsAt(Components, Way, Turns, Records \ {it}, label_in', label_out')
  <1> DEFINE C == Components
             A == OutNodes(it)
             B == InNodes(it)
  <1>1. phase = "c" /\ IsOdd(level[it])
    BY DEF Fold
  <1>2. /\ Turns[it] = ii /\ it \in Records /\ Records \subseteq C
        /\ \A m \in A : ii < Turns[m] /\ m \in C
        /\ \A m \in B : ii < Turns[m] /\ m \in C
        /\ \A x \in C \ Records : Turns[x] <= ii
    BY <1>1, FoldTurns, ShortStore
  <1>3. LabelsAt(C, Way, Turns, Records, label_in, label_out)
    BY <1>1 DEF LabelInv
  <1>4. Labelled(C, Way, label_in) /\ Labelled(C, Back(Way), label_out)
    BY <1>3, ShortLabels DEF LabelsAt
  <1>5. /\ \A x \in C : label_in[x] \subseteq label_in'[x] /\ label_out[x] \subseteq label_out'[x]
        /\ \A m \in A : label_in[m] \subseteq label_in'[it]
        /\ \A m \in B : label_out[m] \subseteq label_out'[it]
    <2>1. /\ DOMAIN label_in = C /\ DOMAIN label_out = C
      BY ShortStore
    <2>2. /\ label_in' = [label_in EXCEPT ![it] = InLabel(it)]
          /\ label_out' = [label_out EXCEPT ![it] = OutLabel(it)]
      BY DEF Fold
    <2>3. /\ label_in[it] \subseteq InLabel(it) /\ \A m \in A : label_in[m] \subseteq InLabel(it)
          /\ label_out[it] \subseteq OutLabel(it) /\ \A m \in B : label_out[m] \subseteq OutLabel(it)
      BY DEF InLabel, OutLabel
    <2>4. /\ label_in'[it] = InLabel(it) /\ label_out'[it] = OutLabel(it)
          /\ \A x \in C : x # it => label_in'[x] = label_in[x] /\ label_out'[x] = label_out[x]
      BY <1>2, <2>1, <2>2
    <2> QED BY <1>2, <2>3, <2>4
  <1>6. /\ \A w \in Records \ {it} : <<it, w>> \in Way => \E m \in A : <<m, w>> \in Way
        /\ \A w \in Records \ {it} : <<w, it>> \in Way => \E m \in B : <<w, m>> \in Way
        /\ \A m \in A : <<it, m>> \in Way
        /\ \A m \in B : <<m, it>> \in Way
    BY <1>2, FoldWays
  <1> PICK r : r = Turns
    OBVIOUS
  <1>7. r \in [C -> 1..3] /\ \A x \in C \ Records : r[x] <= r[it]
    BY <1>2, TurnsType
  <1> HIDE DEF A, B
  <1>8. /\ \A w \in Records \ {it} : <<it, w>> \in Way => \E m \in A : r[it] < r[m] /\ <<m, w>> \in Way
        /\ \A w \in Records \ {it} : <<w, it>> \in Way => \E m \in B : r[it] < r[m] /\ <<w, m>> \in Way
    BY <1>2, <1>6
  <1>9. Ways(C, Way) /\ Ways(C, Back(Way)) /\ \A x, y : <<x, y>> \in Back(Way) <=> <<y, x>> \in Way
    BY WayIs, BackWays, BackIs DEF Ways
  <1> PICK W : W = Way
    OBVIOUS
  <1> PICK V : V = Back(Way)
    OBVIOUS
  <1> HIDE DEF C
  <1>10. A \subseteq C /\ B \subseteq C
    BY <1>2
  <1>11. Climbs(C, W, r, Records, label_in) /\ Climbs(C, V, r, Records, label_out) /\ Parted(C, W, r, Records)
    BY <1>3 DEF LabelsAt
  <1>12. Climbs(C, W, r, Records \ {it}, label_in')
    BY <1>2, <1>4, <1>5, <1>7, <1>8, <1>9, <1>10, <1>11, FoldClimbs
  <1>13. Climbs(C, V, r, Records \ {it}, label_out')
    <2>1. \A w \in Records \ {it} : <<it, w>> \in V => \E m \in B : r[it] < r[m] /\ <<m, w>> \in V
      BY <1>8, <1>9
    <2> QED BY <1>2, <1>4, <1>5, <1>7, <1>9, <1>10, <1>11, <2>1, FoldClimbs
  <1>14. Parted(C, W, r, Records \ {it})
    BY <1>2, <1>6, <1>8, <1>10, <1>11, FoldParts
  <1>15. Owned(C, label_in', label_out')
    BY <1>3, <1>5 DEF LabelsAt, Owned
  <1> QED BY <1>12, <1>13, <1>14, <1>15 DEF LabelsAt, C

\* When the store is empty, the positions of order are the nodes.
LEMMA EmptyStore ==
  ASSUME FoldInv, RoundInv, Short, Records = {}
  PROVE  Len(order) = tot /\ Components = 0..tot - 1 /\ tot \in Nat
  <1>1. tot \in Nat /\ Components = 0..tot - 1
    BY ShortStore
  <1>2. Ordered({}, tot, order)
    BY DEF RoundInv, Short
  <1> QED BY <1>1, <1>2, OrderedAll

\* The third loop, at a node of an odd level.
LEMMA FoldLabels ==
  ASSUME FoldInv, RoundInv, LabelInv, Fold, RoundInv', Short' PROVE LabelInv'
  <1>0. /\ Components' = Components /\ Way' = Way /\ Turns' = Turns
        /\ tln' = tln /\ TF' = TF /\ scc_cnt' = scc_cnt
    BY SearchStays DEF Construct
  <1>1. /\ phase = "c" /\ IsOdd(level[it]) /\ Walk(Records, "close")
        /\ level' = [x \in Records \ {it} |-> level[x]] /\ Records' = Records \ {it}
        /\ UNCHANGED <<ii, tot, joined>> /\ order' = Append(order, it)
    BY DEF Fold, Records
  <1>2. Short
    BY <1>0, <1>1 DEF Short
  <1> PICK o : o = Unhalved(Records, level, it)
    OBVIOUS
  <1> PICK l1 : l1 = level'
    OBVIOUS
  <1> PICK S : S = Records \ {it}
    OBVIOUS
  <1>3. /\ Records \subseteq Ids /\ IsFiniteSet(Records) /\ it \in Records /\ ii \in 1..3
        /\ level \in [Records -> Nat \ {0}] /\ joined = 0
        /\ Scaled(Records, tln, o, ii) /\ FoldedBy(Components, Records, Turns, ii)
        /\ \A c \in Components : tln[c] \in 1..7
    BY <1>1, <1>2, ThirdLoopAt
  <1>4. l1 \in [S -> Nat \ {0}] /\ \A x \in S : l1[x] = level[x]
    BY <1>1, <1>3
  <1>5. HalvedUpTo(S, o, l1, it) /\ Scaled(S, tln, o, ii)
    BY <1>3, <1>4 DEF HalvedUpTo, Unhalved, Scaled
  <1>6. \/ phase' = "c" /\ Scaled(S, tln, Unhalved(S, l1, it'), ii)
        \/ phase' = "close" /\ Scaled(S, tln, l1, ii + 1)
    <2> PICK R : R = Records
      OBVIOUS
    <2>1. /\ R \subseteq Ids /\ IsFiniteSet(R) /\ it \in R /\ S \subseteq R /\ R \subseteq S \cup {it}
          /\ Walk(R, "close")
      BY <1>1, <1>3
    <2>2. \/ phase' = phase /\ Scaled(S, tln, Unhalved(S, l1, it'), ii)
          \/ phase' = "close" /\ Scaled(S, tln, l1, ii + 1)
      BY <1>3, <1>4, <1>5, <2>1, HalvedOn
    <2> QED BY <1>1, <2>2
  <1>7. FoldedBy(Components, S, Turns, ii)
    <2>1. Turns[it] = ii
      BY <1>1, <1>2, FoldTurns
    <2> QED BY <1>3, <2>1 DEF FoldedBy
  <1>8. TurnInv'
    BY <1>0, <1>1, <1>3, <1>6, <1>7 DEF TurnInv
  <1>9. LabelsAt(Components, Way, Turns, S, label_in', label_out')
    BY <1>2, FoldLabelsMeet
  <1>10. TopInv'
    <2>1. CASE phase' = "c"
      BY <1>1, <1>3, <2>1 DEF TopInv
    <2>2. CASE phase' = "close"
      <3>1. ASSUME Records' = {}
            PROVE  {x \in Components : x >= Len(order') - joined'} = {}
        <4>1. Components = 0..tot - 1 /\ tot \in Nat
          BY <1>2, ShortStore
        <4>2. Ordered({}, tot, order')
          BY <1>0, <1>1, <2>2, <3>1 DEF RoundInv
        <4>3. Len(order') = tot
          BY <4>1, <4>2, OrderedAll
        <4> QED BY <1>0, <1>1, <1>3, <4>1, <4>3
      <3> QED BY <1>0, <1>1, <1>3, <2>2, <3>1 DEF TopInv, ToppedAt, Topped
    <2> QED BY <1>6, <2>1, <2>2
  <1> QED BY <1>0, <1>1, <1>8, <1>9, <1>10 DEF LabelInv

\* The loop over the labels: the node at the place has every summit from now on.
LEMMA JoinLabels ==
  ASSUME FoldInv, RoundInv, LabelInv, Join, Short' PROVE LabelInv'
  <1>0. /\ Components' = Components /\ Way' = Way /\ Turns' = Turns
        /\ tln' = tln /\ TF' = TF /\ scc_cnt' = scc_cnt
    BY SearchStays DEF Construct
  <1> PICK i : i = Len(order) - 1 - joined
    OBVIOUS
  <1>1. /\ phase = "close" /\ i >= 0 /\ phase' = phase /\ joined' = joined + 1
        /\ label_in' = Joined(label_in, i) /\ label_out' = Joined(label_out, i)
        /\ UNCHANGED <<ii, it, level, edges, tot, order>> /\ Records' = Records
    BY DEF Join, Records
  <1>2. Short
    BY <1>0, <1>1 DEF Short
  <1>3. TurnInv /\ LabelsAt(Components, Way, Turns, Records, label_in, label_out) /\ TopInv
    BY <1>2 DEF LabelInv
  <1>4. TurnInv'
    BY <1>0, <1>1, <1>3 DEF TurnInv
  <1> DEFINE C == Components
  <1>5. /\ label_in \in [C -> SUBSET C] /\ label_out \in [C -> SUBSET C]
    BY <1>2, ShortStore
  <1>6. Labelled(C, Way, label_in) /\ Labelled(C, Back(Way), label_out)
    BY <1>2, <1>3, ShortLabels DEF LabelsAt
  <1> HIDE DEF C
  <1>7. \A x \in C : label_in[x] \subseteq label_in'[x] /\ label_out[x] \subseteq label_out'[x]
    BY <1>1, <1>5 DEF Joined
  <1>8. LabelsAt(C, Way, Turns, Records, label_in', label_out')
    <2>1. /\ Owned(C, label_in, label_out) /\ Climbs(C, Way, Turns, Records, label_in)
          /\ Climbs(C, Back(Way), Turns, Records, label_out) /\ Parted(C, Way, Turns, Records)
      BY <1>3 DEF LabelsAt, C
    <2>2. Climbs(C, Way, Turns, Records, label_in') /\ Climbs(C, Back(Way), Turns, Records, label_out')
      BY <1>7, <2>1, GrownKeeps
    <2> QED BY <1>7, <2>1, <2>2 DEF LabelsAt, Owned
  <1>9. ASSUME Records = {}
        PROVE  ToppedAt(C, Way, Turns, label_in', label_out', {x \in C : x >= Len(order) - (joined + 1)})
    <2> DEFINE D == {x \in C : x >= Len(order) - joined}
               D2 == {x \in C : x >= Len(order) - (joined + 1)}
    <2>1. Len(order) = tot /\ C = 0..tot - 1 /\ tot \in Nat /\ joined \in Nat
      BY <1>2, <1>3, <1>9, EmptyStore DEF C, TopInv
    <2>2. D \subseteq C /\ i \in C /\ \A x \in D2 : x \in D \/ x = i
      BY <1>1, <2>1
    <2>3. /\ label_in'[i] = label_in[i] \cup UNION {label_in[x] : x \in label_in[i]}
          /\ label_out'[i] = label_out[i] \cup UNION {label_out[x] : x \in label_out[i]}
      BY <1>1, <1>5, <2>2 DEF Joined
    <2>4. Joining(label_in, i, label_in'[i]) /\ Joining(label_out, i, label_out'[i])
      BY <2>3 DEF Joining
    <2>5. Topped(C, Way, Turns, label_in, D) /\ Topped(C, Back(Way), Turns, label_out, D)
      BY <1>1, <1>3, <1>9 DEF TopInv, ToppedAt, C
    <2>6. Topped(C, Way, Turns, label_in', D) /\ Topped(C, Back(Way), Turns, label_out', D)
      <3> HIDE DEF D
      <3> QED BY <1>7, <2>2, <2>5, GrownKeeps
    <2>7. /\ Ways(C, Way) /\ Ways(C, Back(Way)) /\ Turns \in [C -> 1..3]
          /\ Climbs(C, Way, Turns, {}, label_in) /\ Climbs(C, Back(Way), Turns, {}, label_out)
          /\ Parted(C, Way, Turns, {}) /\ Parted(C, Back(Way), Turns, {})
      BY <1>3, <1>9, WayIs, BackWays, BackParted, TurnsType DEF LabelsAt, C
    <2>8. /\ \A w \in C : Summit(C, Way, Turns, i, w) => w \in label_in'[i]
          /\ \A w \in C : Summit(C, Back(Way), Turns, i, w) => w \in label_out'[i]
      <3> PICK W : W = Way
        OBVIOUS
      <3> PICK V : V = Back(Way)
        OBVIOUS
      <3> PICK r : r = Turns
        OBVIOUS
      <3> PICK li : li = label_in'[i]
        OBVIOUS
      <3> PICK lo : lo = label_out'[i]
        OBVIOUS
      <3>1. /\ Ways(C, W) /\ r \in [C -> 1..3] /\ Climbs(C, W, r, {}, label_in) /\ Parted(C, W, r, {})
            /\ Labelled(C, W, label_in) /\ Joining(label_in, i, li)
        BY <1>6, <2>4, <2>7
      <3>2. /\ Ways(C, V) /\ Climbs(C, V, r, {}, label_out) /\ Parted(C, V, r, {})
            /\ Labelled(C, V, label_out) /\ Joining(label_out, i, lo)
        BY <1>6, <2>4, <2>7
      <3>3. ASSUME NEW w \in C, Summit(C, W, r, i, w) PROVE w \in li
        BY <2>2, <3>1, <3>3, JoinTops
      <3>4. ASSUME NEW w \in C, Summit(C, V, r, i, w) PROVE w \in lo
        BY <2>2, <3>1, <3>2, <3>4, JoinTops
      <3> QED BY <3>3, <3>4
    <2> HIDE DEF D, D2
    <2>9. ToppedAt(C, Way, Turns, label_in', label_out', D2)
      BY <2>2, <2>6, <2>8 DEF ToppedAt, Topped
    <2> QED BY <2>9 DEF D2
  <1>10. TopInv'
    <2>1. joined' \in Nat
      BY <1>1, <1>3 DEF TopInv
    <2> QED BY <1>0, <1>1, <1>9, <2>1 DEF TopInv, C
  <1> QED BY <1>0, <1>1, <1>4, <1>8, <1>10 DEF LabelInv, C

\* The renaming changes nothing where no node is new, and the round ends.
LEMMA CloseLabels ==
  ASSUME FoldInv, RoundInv, LabelInv, Close, RoundInv', Short' PROVE LabelInv'
  <1>0. /\ Components' = Components /\ Way' = Way /\ Turns' = Turns
        /\ tln' = tln /\ TF' = TF /\ scc_cnt' = scc_cnt
    BY SearchStays DEF Construct
  <1>1. /\ phase = "close" /\ joined = Len(order) /\ joined' = 0 /\ ii' = ii + 1
        /\ label_in' = Renamed(label_in) /\ label_out' = Renamed(label_out)
        /\ UNCHANGED <<level, edges, tot, order>> /\ Records' = Records
    BY DEF Close, Records
  <1>2. Short
    BY <1>0, <1>1 DEF Short
  <1>3. TurnInv /\ LabelsAt(Components, Way, Turns, Records, label_in, label_out) /\ TopInv
    BY <1>2 DEF LabelInv
  <1>4. label_in' = label_in /\ label_out' = label_out
    <2>1. /\ label_in \in [Components -> SUBSET Components] /\ label_out \in [Components -> SUBSET Components]
          /\ \A c \in Components : fa[c] = c
      BY <1>2, ShortStore
    <2>2. ASSUME NEW l \in [Components -> SUBSET Components] PROVE Renamed(l) = l
      <3>1. \A x \in Components : {fa[y] : y \in l[x]} = l[x]
        BY <2>1
      <3> QED BY <3>1 DEF Renamed
    <2> QED BY <1>1, <2>1, <2>2
  <1>5. /\ phase' \in {"a", "close", "finished"} /\ ii \in Int
        /\ phase' = "close" \/ phase' = "finished" => Records = {}
    <2>1. phase' = "finished" => Records' = {}
      BY DEF RoundInv, Short
    <2>2. ii \in Int
      BY <1>1 DEF RoundInv
    <2>3. \/ phase' = "finished" \/ (phase' = "close" /\ Records = {}) \/ phase' = "a"
      BY DEF Close
    <2> QED BY <1>1, <2>1, <2>2, <2>3
  <1>6. TurnInv'
    <2>1. Scaled(Records, tln, level, ii + 1) /\ FoldedBy(Components, Records, Turns, ii)
      BY <1>1, <1>3 DEF TurnInv
    <2>2. ii' - 1 = ii
      BY <1>1, <1>5
    <2>3. CASE phase' = "close"
      <3>1. \A x \in Components : Turns[x] <= ii + 1
        BY <1>5, <2>1, <2>3, TurnsType DEF FoldedBy
      <3>2. Records' = {}
        BY <1>1, <1>5, <2>3
      <3> QED BY <1>0, <1>1, <1>3, <2>3, <3>1, <3>2 DEF TurnInv, Scaled, FoldedBy
    <2>4. CASE phase' # "close"
      BY <1>0, <1>1, <1>3, <1>5, <2>1, <2>2, <2>4 DEF TurnInv
    <2> QED BY <2>3, <2>4
  <1>7. TopInv'
    <2>1. ASSUME Records = {} PROVE Len(order) = tot /\ Components = 0..tot - 1 /\ tot \in Nat
      BY <1>2, <2>1, EmptyStore
    <2>2. CASE phase' = "a"
      BY <1>1, <2>2 DEF TopInv
    <2>3. CASE phase' = "close"
      <3>1. {x \in Components : x >= Len(order) - 0} = {} /\ Records = {}
        BY <1>5, <2>1, <2>3
      <3> QED BY <1>0, <1>1, <2>3, <3>1 DEF TopInv, ToppedAt, Topped
    <2>4. CASE phase' = "finished"
      <3>1. {x \in Components : x >= Len(order) - joined} = Components /\ Records = {}
        BY <1>1, <1>5, <2>1, <2>4
      <3>2. ToppedAt(Components, Way, Turns, label_in, label_out, Components)
        BY <1>1, <1>3, <3>1 DEF TopInv
      <3> QED BY <1>0, <1>1, <1>4, <2>4, <3>2 DEF TopInv
    <2> QED BY <1>5, <2>2, <2>3, <2>4
  <1> QED BY <1>0, <1>1, <1>3, <1>4, <1>6, <1>7 DEF LabelInv

\* Every step of construct() keeps the labels as they are to be.
LEMMA LabelStep ==
  /\ SearchInv /\ Numbering /\ Counting /\ Leveling /\ Topping
  /\ FoldInv /\ RoundInv /\ FoldInv' /\ RoundInv' /\ LabelInv /\ [ConstructNext]_allVars
  => LabelInv'
  <1> SUFFICES ASSUME SearchInv, Numbering, Counting, Leveling, Topping, FoldInv, RoundInv, FoldInv', RoundInv',
                      LabelInv, [ConstructNext]_allVars, Short'
               PROVE  LabelInv'
    BY DEF LabelInv
  <1>1. CASE Construct
    BY <1>1, StartLabels, SplitLabels, HalveLabels, FoldLabels, JoinLabels, CloseLabels DEF Construct
  <1>2. CASE Work /\ UNCHANGED folding
    <2>1. phase' = phase /\ stage # "done"
      BY <1>2 DEF folding, Work, TryRoot, Descend, Looking, Seen, Return, Condense, Seed, Take, FinishLevels
    <2> QED BY <2>1 DEF FoldInv, Short
  <1>3. CASE Begin /\ Renew
    BY <1>3 DEF Renew, Short
  <1>4. CASE UNCHANGED allVars
    <2>1. Components' = Components /\ Way' = Way /\ Turns' = Turns
      <3>1. /\ tln' = tln /\ scc_cnt' = scc_cnt /\ GG' = GG /\ sccno' = sccno
        BY <1>4 DEF allVars, vars, sorting, search
      <3>2. Components' = Components /\ Nodes' = Nodes
        BY <3>1 DEF Components, Nodes
      <3>3. Crossing' = Crossing
        BY <3>1, <3>2 DEF Crossing
      <3>4. Way' = Way
        BY <3>2, <3>3 DEF Way, Precedes, Joins
      <3> QED BY <3>1, <3>2, <3>4 DEF Turns
    <2>2. /\ Records' = Records /\ Short
          /\ UNCHANGED <<phase, ii, it, level, label_in, label_out, order, joined, tln>>
      BY <1>4 DEF allVars, vars, sorting, search, folding, Records, Short
    <2>3. TurnInv /\ LabelsAt(Components, Way, Turns, Records, label_in, label_out) /\ TopInv
      BY <2>2 DEF LabelInv
    <2>4. TurnInv'
      BY <2>1, <2>2, <2>3 DEF TurnInv
    <2>5. TopInv'
      BY <2>1, <2>2, <2>3 DEF TopInv
    <2> QED BY <2>1, <2>2, <2>3, <2>4, <2>5 DEF LabelInv
  <1> QED BY <1>1, <1>2, <1>3, <1>4 DEF ConstructNext

\* What it comes to when the rounds are over.
LEMMA LabelsAnswer == FoldInv /\ LabelInv => LabelsComplete
  <1> SUFFICES ASSUME FoldInv, LabelInv, phase = "finished", TF \in 1..3, tot = scc_cnt
               PROVE  \A x, y \in Components : Precedes(x, y) <=> label_in[x] \cap label_out[y] # {}
    BY DEF LabelsComplete
  <1>1. Short
    BY DEF Short
  <1>2. /\ Owned(Components, label_in, label_out)
        /\ Topped(Components, Way, Turns, label_in, Components)
        /\ Topped(Components, Back(Way), Turns, label_out, Components)
    BY <1>1 DEF LabelInv, LabelsAt, TopInv, ToppedAt
  <1>3. /\ Labelled(Components, Way, label_in) /\ Labelled(Components, Back(Way), label_out)
        /\ \A x, y : <<x, y>> \in Back(Way) <=> <<y, x>> \in Way
    BY <1>1, <1>2, ShortLabels, WayIs, BackIs DEF Ways
  <1> SUFFICES ASSUME NEW x \in Components, NEW y \in Components
               PROVE  <<x, y>> \in Way <=> label_in[x] \cap label_out[y] # {}
    BY WayIs
  <1>4. ASSUME <<x, y>> \in Way PROVE label_in[x] \cap label_out[y] # {}
    BY <1>2, <1>4, WayIs, TurnsType, LabelsMeet
  <1>5. ASSUME NEW w \in label_in[x] \cap label_out[y] PROVE <<x, y>> \in Way
    <2>1. w \in Components /\ <<x, w>> \in Way /\ <<w, y>> \in Way
      BY <1>3 DEF Labelled
    <2> QED BY <2>1, WayIs DEF Ways
  <1> QED BY <1>4, <1>5

-----------------------------------------------------------------------------

(* dfs() keeps exactly the open nodes on its stack, in the order of their    *)
(* visit, in every graph (tflabel.hpp:121-147).                             *)
THEOREM OpenNodesOnStack == Spec => []StackIsOpen
  <1>1. SearchInv => StackIsOpen
    BY DEF SearchInv
  <1> QED BY <1>1, SearchAlways, PTL

(* find_scc() numbers the classes of mutual reachability, and an edge leads  *)
(* to a component with a number that is no higher (tflabel.hpp:117-158).     *)
THEOREM ComponentsAreClosed == Spec => []ComponentsClosed
  <1> QED BY InvCloses, SearchAlways, PTL

(* For every file: after toposort() a component's level is one more than the *)
(* highest level with an edge to it, no component is left without a level,  *)
(* and every count of edges is 0 again for the next object                  *)
(* (tflabel.hpp:238-280).                                                    *)
THEOREM LevelsAlwaysExact == Spec => []LevelsExact
  <1> QED BY LevelsAlways, LevelingIsExact, PTL

(* For every file: node and component numbers fit their arrays, and no count *)
(* of edges falls below zero (tflabel.hpp:57-68, 239-272).                   *)
THEOREM TypeCorrect == Spec => []TypeOK
  <1> QED BY LevelsAlways, InvTypes, PTL

(* The index that construct() builds on the components takes nothing back:   *)
(* what holds of every read() holds with preprocess() behind it              *)
(* (tflabel.hpp:312-320).                                                    *)
THEOREM ConstructionFollows == ConstructSpec => Spec
  <1>1. ConstructNext => [Next]_vars
    BY ConstructionApart DEF ConstructNext, Next
  <1>2. UNCHANGED allVars => UNCHANGED vars
    BY DEF allVars, vars
  <1>3. ConstructInit => Init
    BY DEF ConstructInit
  <1> QED BY <1>1, <1>2, <1>3, PTL DEF ConstructSpec, Spec

(* For every file: nodes put on the edges, nodes folded and labels joined    *)
(* never make a label name a component that is not reached from its node,   *)
(* or does not reach it (tflabel.hpp:345-377, 396-427, 449-515).            *)
THEOREM LabelsAlwaysSound == ConstructSpec => []LabelsSound
  <1>1. ConstructInv => LabelsSound
    BY DEF ConstructInv, FoldInv, Kept, KeptLabels, LabelsSound, Folding, Precedes
  <1> QED BY <1>1, ConstructAlways, PTL

(* For every file: the store joins the components it still holds exactly as  *)
(* the file does, after every change (tflabel.hpp:345-377, 396-427,         *)
(* 465-478).                                                                *)
THEOREM ReachabilityAlwaysKept == ConstructSpec => []ReachabilityKept
  <1>1. ConstructInv => ReachabilityKept
    BY DEF ConstructInv, FoldInv, Kept, KeptJoins, ReachabilityKept, Folding, Precedes
  <1> QED BY <1>1, ConstructAlways, PTL

\* The rounds, of every object.
LEMMA RoundsAlways == ConstructSpec => [](FoldInv /\ RoundInv)
  <1> DEFINE I == SearchInv /\ Numbering /\ Counting /\ Leveling
  <1>1. ConstructSpec => []I
    BY LevelsAlways, ConstructionFollows, PTL
  <1>2. ConstructSpec => []FoldInv
    <2>1. ConstructInv => FoldInv
      BY DEF ConstructInv
    <2> QED BY <2>1, ConstructAlways, PTL
  <1>3. ConstructInit => Topping /\ RoundInv
    BY ToppingStarts DEF ConstructInit, RoundInv
  <1>4. I /\ FoldInv /\ Topping /\ RoundInv /\ [ConstructNext]_allVars => Topping' /\ RoundInv'
    <2> SUFFICES ASSUME I, FoldInv, Topping, RoundInv, [ConstructNext]_allVars PROVE Topping' /\ RoundInv'
      OBVIOUS
    <2>1. [Next]_vars
      BY ConstructionApart DEF ConstructNext, Next, allVars
    <2> QED BY <2>1, ToppingStep, RoundStep
  <1> HIDE DEF I
  <1> QED BY <1>1, <1>2, <1>3, <1>4, PTL DEF ConstructSpec

(* For every file: when the third loop of a round begins, the levels at the  *)
(* ends of an edge differ by one if either of them is odd, so that no two   *)
(* nodes folded in a round are neighbours (tflabel.hpp:337-429).             *)
THEOREM FoldedAlwaysApart == ConstructSpec => []FoldedApart
  <1>1. FoldInv /\ RoundInv => FoldedApart
    <2> SUFFICES ASSUME FoldInv, RoundInv, phase = "c", it = FirstOf(Records), NEW e \in edges,
                        IsOdd(level[e[1]]) \/ IsOdd(level[e[2]])
                 PROVE  level[e[2]] = level[e[1]] + 1
      BY DEF FoldedApart
    <2>1. Records \subseteq Ids /\ IsFiniteSet(Records) /\ edges \subseteq Records \X Records
      BY StoreFacts DEF RoundInv
    <2>2. /\ it \in Records /\ FlatOut(edges, Unhalved(Records, level, it), Records)
          /\ FlatIn(edges, Unhalved(Records, level, it), Records)
      BY DEF RoundInv, ThirdLoop
    <2>3. \A m \in Records : Unhalved(Records, level, it)[m] = level[m]
      <3>1. Before(Records, it) = {}
        BY <2>1, <2>2, FirstBefore
      <3> QED BY <3>1 DEF Before, Unhalved
    <2>4. e[1] \in Records /\ e[2] \in Records
      BY <2>1
    <2> QED BY <2>2, <2>3, <2>4 DEF FlatOut, FlatIn
  <1> QED BY <1>1, RoundsAlways, PTL

(* For every file: TF rounds fold every node of the store, those made on the *)
(* way as well, each once: a level below 2^TF has at most TF binary digits,  *)
(* and the walk misses no node although nodes come and go under it           *)
(* (tflabel.hpp:281, 335-482).                                               *)
THEOREM EveryNodeAlwaysFolded == ConstructSpec => []EveryNodeFolded
  <1>1. FoldInv /\ RoundInv => EveryNodeFolded
    <2> SUFFICES ASSUME FoldInv, RoundInv, phase = "finished", TF >= 1
                 PROVE  Records = {} /\ Len(order) = tot /\ Range(order) = 0..tot - 1
      BY DEF EveryNodeFolded
    <2>1. Records = {} /\ Ordered({}, tot, order)
      BY DEF RoundInv
    <2>2. tot \in Nat
      BY StoreFacts
    <2> QED BY <2>1, <2>2, OrderedAll
  <1> QED BY <1>1, RoundsAlways, PTL

(* For every file whose components stay below level 8 and have no edge over  *)
(* more than a level: when the rounds are over, one component leads to       *)
(* another exactly when their labels have a component in common, in however  *)
(* many of them and in whatever order the walk meets them                    *)
(* (tflabel.hpp:89, 449-498).                                                *)
THEOREM LabelsAlwaysComplete == ConstructSpec => []LabelsComplete
  <1> DEFINE I == SearchInv /\ Numbering /\ Counting /\ Leveling
  <1>1. ConstructSpec => []I
    BY LevelsAlways, ConstructionFollows, PTL
  <1>2. ConstructInit => Topping /\ LabelInv
    BY ToppingStarts DEF ConstructInit, LabelInv, Short
  <1>3. I /\ Topping /\ [ConstructNext]_allVars => Topping'
    <2> SUFFICES ASSUME I, Topping, [ConstructNext]_allVars PROVE Topping'
      OBVIOUS
    <2>1. [Next]_vars
      BY ConstructionApart DEF ConstructNext, Next, allVars
    <2> QED BY <2>1, ToppingStep
  <1>4. /\ I /\ Topping /\ FoldInv /\ RoundInv /\ FoldInv' /\ RoundInv' /\ LabelInv /\ [ConstructNext]_allVars
        => LabelInv'
    BY LabelStep
  <1> HIDE DEF I
  <1> QED BY <1>1, <1>2, <1>3, <1>4, RoundsAlways, LabelsAnswer, PTL DEF ConstructSpec
=============================================================================
