---------------------------- MODULE QueryIterator ----------------------------
(***************************************************************************)
(* LevelDbGraphIterator over a directed graph                              *)
(* (include/backend/leveldbgraph_iterator.inc). The planner runs first.    *)
(* The constructor (searchPossible) then binds the elements of the pattern *)
(* in the order of the plan and stops at the first result; ++              *)
(* (findNextPossible) moves the last element on and backtracks. Both are   *)
(* recursive on the position in the plan: calling on is entering the next  *)
(* step, returning without a result is retrying the step before.           *)
(***************************************************************************)
EXTENDS Deduction, FiniteSetsExt

CONSTANTS
  Id,         \* ids of nodes and edges; their order is that of keys and sets
  NoId,       \* the empty string
  Cases,      \* a graph, and the pattern asked for
  FallOff,    \* what findNextPossible() may return where it ends without a return
  MayRemove   \* whether the client removes nodes and edges between two results

IsNode(id) == id % 2 = 0

ASSUME IteratorAssumption ==
  /\ Id \subseteq Nat
  /\ NoId \in Nat \ Id
  /\ \A g \in {c.graph : c \in Cases} :
       /\ g.nodes \subseteq Id
       /\ DOMAIN g.ends \subseteq Id
       /\ g.ends \in [DOMAIN g.ends -> [from : Id, to : Id]]
       /\ g.linked \subseteq DOMAIN g.ends
  /\ \A q \in {c.query : c \in Cases} :
       /\ q.nodesCnt \in 1..MaxNodes
       /\ q.given \in [DOMAIN q.given -> Id]
       /\ DOMAIN q.given \subseteq Elements(q.nodesCnt)
       /\ q.accepts \in [Elements(q.nodesCnt) -> SUBSET Id]
       /\ q.direction \in [{id \in Elements(q.nodesCnt) : ~ IsNode(id)} -> {"next", "prev", "both"}]
  /\ FallOff \subseteq {"true", "false", "endless"}

VARIABLES
  graph,     \* the records of nodes, and of edges with their ends, and the
             \* edges in the sets of their ends, when the query was made
  stored,    \* the nodes that still have a record
  outs, ins, \* the edges that still are in the out set of their source, and
             \* in the in set of their target
  query,     \* direction of each edge, id of each element acquired directly,
             \* and the ids whose records fit the properties of each element
  bound,     \* nodesId and edgesId
  at,        \* the position in the plan, from 1
  mode,      \* what is done there; ready is a result, end is isEnd
  building,  \* the constructor runs, not ++
  returned,  \* auxiliary: the results so far
  disturbed  \* auxiliary: a part of a result was removed while the iterator
             \* stood on it, or FallOff was not true

searchVars == <<bound, at, mode, building, returned>>
askedVars == <<graph, query>>
storeVars == <<stored, outs, ins>>
queryVars == <<vars, searchVars, askedVars, storeVars, disturbed>>

QueryInit ==
  /\ \E c \in Cases : graph = c.graph /\ query = c.query
  /\ stored = graph.nodes /\ outs = graph.linked /\ ins = graph.linked
  /\ Init
  /\ nodesCnt = query.nodesCnt
  /\ acquired = DOMAIN query.given
  /\ bound = [id \in Elements(nodesCnt) |-> NoId]
  /\ at = 1
  /\ mode = "enter"
  /\ building = TRUE
  /\ returned = {}
  /\ disturbed = FALSE

\* generateDeductionSteps(), in the iterator's member initialisers
Planning == Next /\ UNCHANGED <<searchVars, askedVars, storeVars, disturbed>>

(***************************************************************************)
(* Moving through the plan                                                 *)
(***************************************************************************)
step == steps[at]

Searching == pc = "done" /\ mode \in {"enter", "retry"}

\* the step has its element: the next one is entered, or a result is found
GoOn ==
  /\ IF at = Len(steps)
     THEN mode' = "ready" /\ at' = at /\ returned' = returned \cup {bound'}
     ELSE mode' = "enter" /\ at' = at + 1 /\ UNCHANGED returned
  /\ UNCHANGED <<vars, askedVars, storeVars, building>>

Leave(how) ==
  /\ mode' = how
  /\ UNCHANGED <<vars, askedVars, storeVars, at, building, returned>>

\* a mutation of GoBack: there is no first step
GoBackTooFar ==
  /\ mode' = "retry" /\ at' = at - 1
  /\ UNCHANGED <<vars, askedVars, storeVars, building, returned>>

\* the step has no element (any more); what bound has left is not read again
GoBack ==
  /\ IF at = 1 THEN mode' = "end" /\ at' = at ELSE mode' = "retry" /\ at' = at - 1
  /\ UNCHANGED <<vars, askedVars, storeVars, building, returned>>

(***************************************************************************)
(* Elements acquired directly: the first steps, so that the search is over *)
(* when one does not fit or is retried                                     *)
(***************************************************************************)
OutEdges(n) == {e \in outs : graph.ends[e].from = n}
InEdges(n) == {e \in ins : graph.ends[e].to = n}

\* the set of the neighbour on one side that leads to the edge at id
EdgesOf(side, id) ==
  IF side = "left"
  THEN IF query.direction[id] = "prev" THEN InEdges(bound[id - 1]) ELSE OutEdges(bound[id - 1])
  ELSE IF query.direction[id] = "next" THEN InEdges(bound[id + 1]) ELSE OutEdges(bound[id + 1])

HasRecord(id, x) == IF IsNode(id) THEN x \in stored ELSE x \in DOMAIN graph.ends

\* isSelfConstrained()
Fits(id, x) == HasRecord(id, x) /\ x \in query.accepts[id]

EnterGiven ==
  /\ Searching
  /\ mode = "enter"
  /\ step.direct
  /\ bound' = [bound EXCEPT ![step.id] = query.given[step.id]]

GivenFits == Fits(step.id, query.given[step.id])
Checked == "left" \in step.constraint
CanCheck == ~ IsNode(step.id) /\ query.direction[step.id] # "both"

\* a mutation of GivenLinked: the given edge is not looked for
GivenLinkedAlways == TRUE

\* checkLeftConstrained() of an edge
GivenLinked == query.given[step.id] \in EdgesOf("left", step.id)

BindGiven ==
  /\ EnterGiven
  /\ GivenFits
  /\ Checked => CanCheck /\ GivenLinked
  /\ GoOn

GivenDoesNotFit ==
  /\ EnterGiven
  /\ IsNode(step.id) => HasRecord(step.id, query.given[step.id])
  /\ GivenFits => Checked /\ CanCheck /\ ~ GivenLinked
  /\ Leave("end")

\* getNode() asserts that there is a record; checkLeftConstrained() of a
\* node asks for the direction of the edge at the position of the node, and
\* getEdgeIndex() asserts that it is an edge's
GivenAborts ==
  /\ EnterGiven
  /\ IsNode(step.id)
  /\ HasRecord(step.id, query.given[step.id]) => GivenFits /\ Checked
  /\ Leave("aborted")

GivenThrows ==
  /\ EnterGiven
  /\ ~ IsNode(step.id)
  /\ GivenFits
  /\ Checked
  /\ query.direction[step.id] = "both"
  /\ Leave("thrown")

GivenRetried ==
  /\ Searching
  /\ mode = "retry"
  /\ step.direct
  /\ UNCHANGED bound
  /\ Leave("end")

(***************************************************************************)
(* Elements with candidates: an edge is looked for in the sets of the      *)
(* neighbours bound before it, a node without such a neighbour among all   *)
(* node records. The sets are read again at every step. (An edge without a *)
(* neighbour does not occur: ScansOnlyEndNodes.)                           *)
(***************************************************************************)
Choosing ==
  /\ Searching
  /\ ~ step.direct
  /\ IsNode(step.id) => step.constraint = {}

Offered ==
  IF IsNode(step.id) THEN stored
  ELSE {e \in graph.linked : \A side \in step.constraint : e \in EdgesOf(side, step.id)}

\* ids with a set of edges, or the record of one, between the node records
EdgeKeys == UNION {{e, graph.ends[e].from, graph.ends[e].to} : e \in DOMAIN graph.ends}
KeysBehind(n) == {x \in stored \cup EdgeKeys : x > n}

\* Seek() finds the record of node n or, when it was removed, the key behind
\* it; Next() then goes on to the one after that
NodesBehind(n) ==
  {x \in stored : x > n /\ (n \notin stored => x > Min(KeysBehind(n)) \/ x \in EdgeKeys)}

\* Next() where Seek() has found no key
SeekFails == mode = "retry" /\ IsNode(step.id) /\ KeysBehind(bound[step.id]) = {}
               /\ bound[step.id] \notin stored

\* a mutation of Remaining: the last choice is offered once more
RemainingWithLast ==
  IF mode = "enter" THEN Offered
  ELSE IF IsNode(step.id) THEN {c \in stored : c >= bound[step.id]}
  ELSE {c \in Offered : bound[step.id] \in Offered /\ c >= bound[step.id]}

\* a mutation of Remaining: one choice is skipped
RemainingSkipping ==
  IF mode = "enter" THEN Offered
  ELSE IF IsNode(step.id) THEN NodesBehind(bound[step.id])
  ELSE {c \in Offered : bound[step.id] \in Offered /\ c > bound[step.id] + 1}

\* all of them, or those after the last one; an edge has to be among them still
Remaining ==
  IF mode = "enter" THEN Offered
  ELSE IF IsNode(step.id) THEN NodesBehind(bound[step.id])
  ELSE {c \in Offered : bound[step.id] \in Offered /\ c > bound[step.id]}

Fitting == {c \in Remaining : Fits(step.id, c)}

Choose ==
  /\ Choosing
  /\ Fitting # {}
  /\ bound' = [bound EXCEPT ![step.id] = Min(Fitting)]
  /\ GoOn

NoChoice ==
  /\ Choosing
  /\ ~ SeekFails
  /\ Fitting = {}
  /\ UNCHANGED bound
  /\ GoBack

SeekAborts ==
  /\ Choosing
  /\ SeekFails
  /\ UNCHANGED bound
  /\ Leave("aborted")

(***************************************************************************)
(* Nodes at the end of an edge bound before them: one candidate            *)
(***************************************************************************)
EndOf(edge, dir) == IF dir = "next" THEN graph.ends[edge].to ELSE graph.ends[edge].from

\* getNodeIdFromLeftEdge(), getNodeIdFromRightEdge()
FromLeft(id) == EndOf(bound[id - 1], query.direction[id - 1])
FromRight(id) == EndOf(bound[id + 1], query.direction[id + 1])

\* checkRightConstrained()
LeadsRight(id, n) ==
  IF query.direction[id + 1] = "prev" THEN graph.ends[bound[id + 1]].to = n
                                      ELSE graph.ends[bound[id + 1]].from = n

Following ==
  /\ Searching
  /\ mode = "enter"
  /\ ~ step.direct
  /\ IsNode(step.id)
  /\ step.constraint # {}

FollowsBothWays == \E side \in step.constraint :
  query.direction[IF side = "left" THEN step.id - 1 ELSE step.id + 1] = "both"

Reached == IF "left" \in step.constraint THEN FromLeft(step.id) ELSE FromRight(step.id)

\* a node between two edges: the constructor compares both ends, ++ checks
\* the right edge
Agrees ==
  step.constraint = {"left", "right"} =>
    IF building THEN Reached = FromRight(step.id) ELSE LeadsRight(step.id, Reached)

Reach ==
  /\ Following
  /\ ~ FollowsBothWays
  /\ bound' = [bound EXCEPT ![step.id] = Reached]

ReachedFits == Fits(step.id, Reached) /\ Agrees

\* In the constructor the search goes on. In ++ the function ends without a
\* return: the caller is told true or false, or the compiler has made the
\* loop endless, so that the next candidate is tried.
Follow ==
  /\ Reach
  /\ ReachedFits
  /\ building \/ "true" \in FallOff
  /\ GoOn

FallsOffFalse ==
  /\ Reach
  /\ ReachedFits
  /\ ~ building
  /\ disturbed' = TRUE
  /\ "false" \in FallOff
  /\ Leave("end")

FallsOffEndless ==
  /\ Reach
  /\ ReachedFits
  /\ ~ building
  /\ disturbed' = TRUE
  /\ "endless" \in FallOff
  /\ GoBack

DoesNotFit ==
  /\ Reach
  /\ HasRecord(step.id, Reached) \/ (building /\ ~ Agrees)
  /\ ~ ReachedFits
  /\ GoBack

\* the assertion of getNode(), which the constructor calls after comparing
FollowAborts ==
  /\ Reach
  /\ building => Agrees
  /\ ~ HasRecord(step.id, Reached)
  /\ Leave("aborted")

FollowThrows ==
  /\ Following
  /\ FollowsBothWays
  /\ UNCHANGED bound
  /\ Leave("thrown")

FollowedRetried ==
  /\ Searching
  /\ mode = "retry"
  /\ ~ step.direct
  /\ IsNode(step.id)
  /\ step.constraint # {}
  /\ UNCHANGED bound
  /\ GoBack

(***************************************************************************)
(* The client                                                              *)
(***************************************************************************)
\* operator++ on a result
Increment ==
  /\ mode = "ready"
  /\ mode' = "retry"
  /\ building' = FALSE
  /\ UNCHANGED <<vars, askedVars, storeVars, bound, at, returned, disturbed>>

\* removeEdge() between two results: the record stays
RemoveEdge(e) ==
  /\ MayRemove
  /\ mode = "ready"
  /\ outs' = outs \ {e} /\ ins' = ins \ {e}
  /\ disturbed' = (disturbed \/ \E id \in Elements(nodesCnt) : ~ IsNode(id) /\ bound[id] = e)
  /\ UNCHANGED <<vars, askedVars, searchVars, stored>>

\* removeNode() between two results: its edges go from the sets of the nodes
\* at their other ends, a loop from the out set; its own sets stay
RemoveNode(n) ==
  /\ MayRemove
  /\ mode = "ready"
  /\ stored' = stored \ {n}
  /\ outs' = outs \ InEdges(n)
  /\ ins' = ins \ {e \in outs' : graph.ends[e].from = n}
  /\ disturbed' = (disturbed \/ \E id \in Elements(nodesCnt) : IsNode(id) /\ bound[id] = n)
  /\ UNCHANGED <<vars, askedVars, searchVars>>

(***************************************************************************)
(* The specification                                                       *)
(***************************************************************************)
Search ==
  \/ BindGiven \/ GivenDoesNotFit \/ GivenAborts \/ GivenThrows \/ GivenRetried
  \/ Choose \/ NoChoice \/ SeekAborts
  \/ Follow \/ DoesNotFit \/ FollowAborts \/ FollowThrows \/ FollowedRetried

FallingOff == FallsOffFalse \/ FallsOffEndless

Running == Planning \/ (Search /\ UNCHANGED disturbed) \/ FallingOff

QueryNext ==
  \/ Running
  \/ Increment
  \/ \E e \in outs \cup ins : RemoveEdge(e)
  \/ \E n \in stored : RemoveNode(n)

QuerySpec == QueryInit /\ [][QueryNext]_queryVars

\* The iterator runs in the caller's thread and waits for nothing.
FairQuerySpec == QuerySpec /\ WF_queryVars(Running)

(***************************************************************************)
(* Properties                                                              *)
(***************************************************************************)
\* The type invariant of the iterator.
QueryTypeOK ==
  /\ TypeOK
  /\ stored \subseteq graph.nodes /\ outs \cup ins \subseteq graph.linked
  /\ bound \in [Elements(nodesCnt) -> Id \cup {NoId}]
  /\ at \in Nat \ {0} /\ (pc = "done" => at \in DOMAIN steps)
  /\ mode \in {"enter", "retry", "ready", "end", "thrown", "aborted"}
  /\ building \in BOOLEAN
  /\ disturbed \in BOOLEAN
  /\ returned \subseteq [Elements(nodesCnt) -> Id \cup {NoId}]

\* b gives every element a record that fits, in the given places the given
\* one, and the edges at the positions of the pattern join their neighbours
\* in its directions
IsMatch(b, nodes, edges) ==
  \A id \in Elements(nodesCnt) :
    /\ b[id] \in query.accepts[id]
    /\ IsNode(id) => b[id] \in nodes
    /\ id \in acquired => b[id] = query.given[id]
    /\ ~ IsNode(id) =>
         LET from == IF query.direction[id] = "prev" THEN b[id + 1] ELSE b[id - 1]
             to == IF query.direction[id] = "prev" THEN b[id - 1] ELSE b[id + 1]
         IN  b[id] \in edges /\ graph.ends[b[id]] = [from |-> from, to |-> to]

Matches(nodes, edges) == {b \in [Elements(nodesCnt) -> Id] : IsMatch(b, nodes, edges)}

Directed == \A id \in DOMAIN query.direction : query.direction[id] # "both"

\* no node is reached from the edge on its right
NoneFromRight ==
  \A p \in DOMAIN steps : IsNode(steps[p].id) => "right" \notin steps[p].constraint

\* What the iterator stands on is a match of the pattern, when no node of it
\* has to be found from the right: whatever ++ backtracked over, and
\* whatever nodes and edges were removed since, the elements still belong together in
\* the graph that was asked.
ResultsMatch ==
  mode = "ready" /\ Directed /\ NoneFromRight => IsMatch(bound, graph.nodes, graph.linked)

\* The same for every pattern, which the code does not achieve: a node found
\* from the edge on its right is taken from the wrong end of that edge.
EveryResultMatches == mode = "ready" /\ Directed => IsMatch(bound, graph.nodes, graph.linked)

\* ++ never comes back to a result.
NoneTwice == [][mode # "ready" /\ mode' = "ready" => bound' \notin returned]_queryVars

\* At the end every match that is left has been a result, when the client
\* never removed a part of the result it stood on, no return is missing that
\* matters, and no node of the pattern has to be found from the right.
Complete ==
  mode = "end" /\ ~ disturbed /\ Directed /\ NoneFromRight =>
    Matches(stored, outs \cap ins) \subseteq returned

\* The same whatever findNextPossible() returns where it has no return.
EveryMatchReturned ==
  mode = "end" /\ Directed /\ NoneFromRight => Matches(stored, outs \cap ins) \subseteq returned

\* The assertion of getEdgeIndex(): a query whose nodes all exist does not
\* ask for the edge at the position of a node.
NeverAborts ==
  mode = "aborted" =>
    \/ \E id \in acquired : IsNode(id) /\ query.given[id] \notin graph.nodes
    \/ \E e \in graph.linked : ~ {graph.ends[e].from, graph.ends[e].to} \subseteq graph.nodes

\* The constructor and every ++ return, with a result, at the end, or with
\* an exception.
EveryCallReturns == [](mode \in {"enter", "retry"} => <>(mode \notin {"enter", "retry"}))
=============================================================================
