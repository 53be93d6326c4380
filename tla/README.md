# network_algo: specifications and proofs

The library keeps a directed or undirected graph of protobuf nodes and edges in
LevelDB, answers pattern queries on it (`select (a)-[e]->(b) return a,b`) and
runs algorithms over it. Everything is single-threaded. What makes it hard is
not concurrency but state kept in several places: sets of edge ids in a cache
and in the database, recency in two index maps, batches that reads do not see,
iterators over a store that changes, and operations of several writes that a
process stop or an eviction may cut.

## Components

| Component | Code | State | Operations | Hard parts | Modules |
|---|---|---|---|---|---|
| TypedMRUMap | `include/typedmrumap.hpp` | map, key -> time, time -> key, clock, `objectSize` | insert, find, `operator[]`, clearNotUsedCache | three maps in step when an allocation throws; a count that never decreases; clearing the entry just inserted | `TypedMRUMap`, `RecencyCache`, `CacheSpec`, `TypedMRUMapProofs` |
| Directed store | `include/backend/leveldbgraph.hpp` | node and edge records, out and in sets, two caches | set, set bundle, remove, destroy, reads | reads through a cache in the middle of a batch; process stops; ids used again | `DirectedStore`, `DirectedClient`, `StoreRecords`, `StoreLemmas`, `DirectedStoreProofs` |
| Undirected store | the same file | records, one set per node, one cache | the same, no query | both ends of an edge in one cache | `UndirectedStore`, `UndirectedClient`, `UndirectedStoreProofs` |
| GraphInterface | `include/graph_interface.hpp` | nodes and edges | the virtual operations | what a caller may rely on | `GraphSpec` |
| Query planner | `include/backend/leveldbgraph_deduction.inc` | the list of steps | generateDeductionSteps | index arithmetic at the ends of a pattern | `Deduction`, `DeductionProofs` |
| Query iterator | `include/backend/leveldbgraph_iterator.inc` | bound ids, positions in sets and keys | construct, ++ | backtracking over sets; nodes and edges removed while iterating | `QueryIterator`, `QueryIteratorProofs` |
| Query language | `src/graphdsl.cpp` | token queue, the sentence so far; sentences by text address | parse | pushing names back; the end of the queue; signs of numbers | `GraphDsl`, `GraphDslProofs`, `Literals` |
| Reflection | `include/reflection.hpp` | none | reflectedCompare, from_string | widths and signs of integers | `Literals`, `GraphDslProofs` |
| TFLabel | `include/algorithm/tflabel.hpp` | components, levels, labels, scratch store | read, preprocess | depth-first search, static state, folding a graph while walking it | `TFLabel`, `TFLabelConstruct`, `TFLabelProofs` |
| DiskSet, Lazymap, Graph, logging, demo, build | `include/diskset.hpp`, `include/lazycache.hpp`, `include/graph.hpp`, `src/debug.cpp`, `src/test.cpp`, `CMakeLists.txt` | | | | see "Not modelled" |

The client calls a store through GraphInterface. A store keeps its sets of edge
ids in LevelDB and in one (undirected) or two (directed) TypedMRUMaps. A query
parses a sentence, plans the order in which its elements are bound, and an
iterator then walks the sets of the directed store, comparing fields of records
with the literals of the sentence. TFLabel reads a file, keeps the graph of its
components in a directed store and folds it there. `doc/Arch.md` describes a
MySQLReader that does not exist in the code.

## What makes each component correct

* TypedMRUMap: the index maps never contradict the map, also after an
  exception; it stays within its limit; the oldest keys go first.
* Stores: cache and database (with the open batch) agree; every id in a set has
  a record; every call takes effect completely or not at all, also when the
  process stops; for a careful client the sets of a node list exactly its
  edges and the ends of edges exist.
* Planner: every element is bound once, every link is checked once and only
  when both its ends are bound.
* Iterator: it returns exactly the matches, each once, and every call returns,
  also when the client removes nodes and edges in between.
* Query language: every sentence is accepted as what it says, nothing else is
  (finding 6 says what is), and the parser ends; a chain has one node more than
  edges; a number in a sentence compares as the number it is.
* TFLabel: components are those of mutual reachability, levels are longest
  paths, one object leaves nothing behind for the next; folding keeps what is
  reachable, misses no node, and labels say nothing false and, where they can,
  everything.

## Modules

`RecencyCache` holds the operators of a recency cache: a map, its keys in the
order of use, and the number of insertions counted up to one past the limit.
`CacheSpec` is the state machine over them. `TypedMRUMap` is the class itself:
one variable per field (`map`, `lastUsedTime`, `lastUsedTimeRev`, `timestamp`,
`objectSize`) and `result`, what the call handed out: an entry, `end`, an entry
it had already erased, or an exception. `Unwound` is the pair of catch blocks in
`insert()`, `FindThrows` a failing allocation in `find()`. It is shown to
implement `CacheSpec`, and the stores use `RecencyCache` for their caches.

`StoreRecords` has what the stores keep and the helpers on it. A record is keyed
by the id in its key; the four suffixes of `addSuffix()` are four functions.
`DirectedStore` and `UndirectedStore` have one action per operation, and one per
iteration where an operation loops, so that `Restart` (the process stops and the
database is opened again) can come between any two writes. `batch` is the open
WriteBatch, applied by `Write` as a whole. `Link` is the body of the loop of
`setEdgesBundle()`; `setEdge()` is a bundle of one. `RemoveEdge` is
`removeEdgeImpl()` with its own batch, `UnlinkIn`/`UnlinkOut` (`Unlink`) its
calls from `removeNode()`. `ReadOut` and `ReadIn` are set reads, which only move
cache entries. getNode and getEdge change nothing and are in the properties.

`DirectedClient` and `UndirectedClient` restrict the caller: edges join nodes
that exist, and an id that still is in a set keeps its ends. They add two
auxiliary variables (`shown`, the nodes as of the last completed call, and
`removed`) and are shown to implement `GraphSpec`, a plain set of nodes and
function from edge ids to ends with atomic calls. An edge counts as present
when its record and the sets of both ends have it.

`Deduction` is the planner: `AcquireDirectly` per element, then one gap per step
(`Between`, which `addToDeductionSteps()` appends). A constraint is a set of
sides, so that `bothConstrained` is `{"left", "right"}`.

`QueryIterator` extends the planner: `Planning` runs it, then the iterator binds
one element of the plan per step. The two recursive functions become two modes:
`enter` is the call on the next position, `retry` the return to the position
before, whose loop goes on; `building` tells the constructor (searchPossible)
from `++` (findNextPossible). `BindGiven` and the other `Given...` actions are
elements with an id, `Choose`/`NoChoice` the loops over sets and node records,
`Follow` and its alternatives a node at the end of an edge. `FallOff` is what the
missing return of findNextPossible may give: true, false, or (when the compiler
takes the end of the function for unreachable) a loop that only ends with false.
The graph is what the store's records and sets show: `stored` are the nodes with
a record, `outs` and `ins` the edges in the sets of their ends. Between two
results `RemoveEdge` and `RemoveNode` change them as the store's calls do.
Node records are looked for by their place among the keys: `NodesBehind` and
`SeekFails` are `Seek()` on the record of a node that may be gone, which finds
the next key, whatever it belongs to, followed by `Next()`. A node's record is
the last of the keys that begin with its id. A literal of the query is
abstracted to the set of ids whose record it fits (`accepts`), and ids that are
given are not empty.

`Literals` is the way of such a literal from the text to the field:
`GetToken` is getToken() with getNumber(), `FromString` and
`ReflectedCompare` are reflection.hpp's. A number is its signs, its digits
before a dot, its dots, and one digit behind (0 or 5, so values are counted in
halves); the widths of int and long are constants. `EndingOf` begins with the
assertion of getFDPandRP() that the field is a required one, as the fields in
the README's message types and in the tests are.

`GraphDsl` is the parser after tokenising, one place (`at`) per point where a
function looks at the front of the queue. The queue is not fixed beforehand:
`ahead` is its front, and the token behind it is chosen when the parser takes
one, so a run covers all texts at once. `front()` of an empty queue
leads to the outcome `undefined`. The pushed-back name of getId() stays in
`held`, where getProperty() would take it again at once. `MCGraphDsl` lists the
sentences of the language from its grammar, each with what it stands for; the
invariants compare the parser with that list. The grammar is that of the comments
and messages of `graphdsl.cpp`: an edge is `--[>]` or `-[props]-[>]` (`:370`), and
only the ids of nodes and edges are returned (`:479`). The parser takes more, any
first name and a single dash: `AcceptsOnlySentences` is violated, in a run of its
own, and `UnderstandsSentences`, which holds, names these two liberties and says
that they are all. `TextSpec` puts the parser and a literal of `Literals` into one
run, one or the other per behaviour.

`TFLabel` is read() and toposort(): a stack of `frames` for the calls of dfs(),
one action per edge looked at, per return, and per element of the queue. `stack`
and `deg` are static in the code and survive from one object to the next.
`Reaches` is defined by closed sets, with no search of its own.

`TFLabelConstruct` adds construct(). `level` and `edges` are its scratch store,
which is taken as `GraphSpec` promises it. The theorems show that of the
directed store with `Roomy` caches (see "Proofs"), room for 1,048,576 nodes.
The arrays of `tflabel.hpp` have 3 million elements (`maxn`, `:33`), and a
comment (`:114-115`) speaks of data with 22,309,488 nodes. Past the room each
new node of the store, construct()'s own ones included, costs a cache ten
entries for the one it adds, so that after some 117,000 more the caches clear
what they are given (finding 2) and the store loses edges: for files of that
size what is shown of TFLabel does not carry over to the program. `it` is the
node an iterator over the node records stands on, and `After` finds the next
one in the store as it then is, in the order of the keys. That order is the
constant `KeyOrder`: keys are numbers in decimal, where 10 comes before 2, so a
new node may come before or behind the node the walk is at. `Ids` bounds the
numbers of nodes. Each action is the body of a loop at one node: `SplitOut` and
`SplitIn` put a new node on the edges that span more than a level, `Halve` and
`Fold` are the even and the odd nodes of the third loop, `Join` is one position
of the loop over `order`, and `Close` gives labels the names of components and
begins the next round.
`ConstructNext` composes it with `TFLabel`, object after object.

The `MC...` modules give the constants their small values. Operators introduced
by a comment "a mutation of X" are not part of any specification: each is a
plausible error in X that a property of the runs detects.

## Runs

| Run | Bounds | Shows |
|---|---|---|
| `mru_map` | 3 keys, 2 values, room for 2, 2 cleared at once, 7 clock ticks, any allocation may fail | `IndexesAgree` and `SizeBounded`, also when `find()` throws; `OldestGoFirst`; `ShrinksOnceFull`; `ImplementsCache` until it does |
| `directed_graph` | 2 nodes, 2 edge ids, room for 1, three bundles, careful client, stops between calls and while linking | `CacheCoherent`, `IdsHaveRecords`, `ImplementsGraph`, `SetsAreExact` |
| `directed_crash` | room for 2, stops in `removeNode()` | a violation of `EndsExist` |
| `directed_saturated` | room for 1, 2 cleared at once | a violation of `EndsExist` without any stop |
| `undirected_graph` | 3 interchangeable nodes, 2 edge ids, room for 2, careful client | as `directed_graph`; the theorems cover any client, and any point to stop, for both stores |
| `query` | every pattern of 1 or 2 nodes on every graph of 2 nodes with up to 2 edge records, some unlinked, on graphs with a missing node, and on four graphs of 3 nodes and 3 edges; patterns of 3 nodes on those four; all of `FallOff`; removals of nodes and edges (746,280 states) | `ResultsMatch`, `NoneTwice`, `Complete`, `EveryCallReturns`; of the plans `ConstraintsExact`, `BindsEachOnce`, `ScansOnlyEndNodes`, which the theorems have for patterns of any length |
| `query_chain` | the patterns of 3 nodes | a violation of `EveryResultMatches` |
| `query_falls_off` | the query of `leveldbgraphtest.cpp:103` | a violation of `EveryMatchReturned` |
| `query_given_pair` | the patterns of 1 or 2 nodes | a violation of `NeverAborts` |
| `query_language` | every text of up to 14 tokens, with one id, one label and one constant; numbers of one digit with up to three signs and two dots, strings, words; int of 3 bits, long of 4; a required field of every type, and two that are not required (867,498 states) | of the parser `UnderstandsSentences`, `RefusesNoSentence`, `OneNodeMore`, `EveryParseEnds`; of the literals `AnswersExact`, `NumbersAreAnswered` |
| `query_language_more` | texts of up to 8 tokens | a violation of `AcceptsOnlySentences` |
| `tflabel` | every graph on four nodes without loops, every list of up to 3 edges on three nodes, three graphs of eight nodes and seven levels, a second object after each (137,126 states) | `ComponentsClosed`, `StackIsOpen`, `LevelsExact`; of construct() `EveryNodeFolded`, `FoldedApart`, `ReachabilityKept`, `LabelsSound`, `LabelsComplete` |

The type invariants are checked along with the others.

Why the bounds are enough. Room for two of three keys makes the map evict, and
clearing two at once reaches its last entry; seven ticks fill it, clear it and
fill it again. Two nodes and two edge ids
give loops, parallel and opposite edges, ids that move to other ends, and nodes
that are removed and stored again; bundles name one node or one id twice. Room
for one entry makes every second read evict; the code clears ten of a million,
and the two regimes that matter are scaled down: clearing fewer than are held
(1 of 1 or 2) and clearing the new entry itself (2 of 1). The bundles of the
undirected run are closed under renaming of nodes, which makes its symmetry
sound. For the iterator two
nodes and two edges have loops, parallel and opposite edges and edges that share
one end; three edges add a triangle and positions in the middle of a set; a
pattern of three nodes has every kind of step of the planner. The first of the
ids a pattern of two nodes gives is 1, which leaves out only names. Fourteen tokens
are enough for an edge with a name and an arrow, chains of three nodes, lists of
properties and three returned names. One digit goes
past an int of 3 bits and a long of 4 on both sides. Four nodes
have two components of two nodes, a cycle with a chord, every way to enter
and leave a component, levels that need three rounds, and edges over two and
three levels, which need new nodes, and never as many as ten of them, so the
bound on numbers (0 to 9, whose keys are in the order of the numbers) stops no
run. For `LabelsComplete`, up to three levels make labels that are complete
before `Join` comes to them, and seven are the most it speaks of: three graphs have
chains of seven, with two ends, with two beginnings and numbered backwards, and
with a fork that closes again. A second object starts from one of two
graphs, since what the first one leaves is always the same.

Deadlock is checked for the stores and `tflabel`; the map's clock is bounded, and
iterator, parser and literals come to an end, so those runs turn it off. Fairness is that of the
program's own steps: `WF(ParseNext)` in `GraphDsl`, and for
`EveryCallReturns`: a call of the iterator, once begun, keeps running
(`WF(Running)`), since it runs in the caller's thread and waits for
nothing; the client need not call `++` again. The parser's holds for the same
reason.

## Findings

1. `removeNode()` deletes the node record on its own (`leveldbgraph.hpp:601`)
   before the batch at `:612`. A stop in between leaves edges without an end,
   and `getNode()` on that end fails its assertion (`:329`). Run
   `directed_crash`, seven states.
2. `objectSize` only grows, so after a million insertions a cache drops ten
   entries at every new one, including the new one when it holds fewer. From
   then on an operation that rewrites one set twice in a batch reads the stored
   set the second time and undoes its first change. Run `directed_saturated`:
   two edges between the same nodes, `removeNode()`, one of them survives.
3. `getNodeIdFromRightEdge()` takes the wrong end of the edge, so that patterns
   with a node that is approached from the right (chains of two edges without
   given nodes, a single edge given by id) have wrong results. Run
   `query_chain`. `ResultsMatch` and `Complete` exclude exactly these patterns
   (`NoneFromRight`).
4. `findNextPossible()` has no return for nodes bound from an edge. Only if the
   caller happens to read true does iteration go on. Run `query_falls_off`.
5. `checkLeftConstrained()` of a node fails an assertion. Run
   `query_given_pair`.
6. The parser takes the first returned name unseen, and only checks the others
   (`graphdsl.cpp:464-481`), so that `select () return a` is accepted although
   "Only node or edge id could appear in return sentence" (`:479`). Run
   `query_language_more`. With `ReturnsWhatIsNamed` put in front of it, the property
   is violated by the other liberty, a single dash for an edge, as in `(a)-(b)` or
   `<-`, which the comments at `:370` and `:374` do not list.

### Also seen

Seen while modelling, without a statement in the repository they contradict:

* `destroy()` leaves the caches filled (the models allow it only with empty
  caches unless `WarmDestroy`); `find()` can orphan a key.
* The state of finding 2 in `setEdgesBundle()`: the second edge of a node is
  added to the stored set, and the first is lost from it. It still is in the in
  set of its end, and outlives its beginning, whose removal does not meet it. (To
  see it, give `directed_saturated` a third node and as its only bundle
  `<<MCEdge(1, n1, n2), MCEdge(2, n1, n3)>>`, and check `SetsAreExact`: ten
  states.) The bundles of `directed_graph` do not come back to an evicted set.
* `setEdge()` on an id with other ends leaves the id in the old sets, and
  `removeNode()`, which follows the record, leaves it there when the new ends
  go. The careful client avoids it. (With `Careful` reduced to nodes that exist
  `SetsAreExact` is violated, without evictions and stops.)
* `removeEdge()` leaves the record and `removeNode()` the node's own two sets: a
  node stored again under its id lists the former edges, whose other ends may be
  gone. `SetsAreExact` and the theorems speak of nodes that were never removed.
* A client that removes the edge the iterator is at makes it lose its place in
  the set and the matches behind it: `Complete` needs `~ disturbed`. (The
  README's loop removes all edges of `a`, and so misses nothing.) When it
  removes the node the iterator is at, `Seek()` finds the key behind it and
  `Next()` goes past that one too: the next node is skipped when it has no
  edges, and behind the last key `Next()` is called on an invalid iterator,
  which LevelDB asserts. The sets of a node that was removed still give results
  for edges bound from it.
* `(a)--(b)` is refused in a directed graph only where a node is found from that
  edge or a given edge is checked; otherwise it finds the edges in both out
  sets, with both nodes bound to the tail.
* A text that is empty, or ends behind `select` or `return`, behind a bracket that
  opens, or behind a first name in brackets, reads the front of an empty queue
  (`graphdsl.cpp:438`, `:328`, `:464`, `:332`, `:383`, `:317`). The exception for
  "Unexpected eof" (`:287`) comes too late for it.
  `NodeNotFoundException` and `EdgeNotFoundException` derive privately (`:25`),
  so a caller that catches GraphSqlParseException does not catch the first.
* Parsed sentences are cached by the address of their text (`graphdsl.cpp:50`):
  a buffer used for a second sentence gets the first one. The repository only
  passes literals of the program.
* A literal `0.5` against an integer field is read as `0`; a `uint64` above the
  highest long throws; a bool can never be compared, since no literal spells
  one; a string field against a number fails an assertion
  (`reflection.hpp:154`).
* `log(maxx)` without an edge between components is minus infinity
  (`tflabel.hpp:281`); the least int then gives no rounds at all. In toposort()
  the maximum at `:273` is never needed: a first-in-first-out queue has levels in
  ascending order, so the last predecessor has the highest.
* New nodes of construct() begin with empty labels, the two insertions at
  `tflabel.hpp:447-448` being comments. TLC finds graphs where a pair is then
  missing from the labels, so `LabelsComplete` speaks of graphs without new
  nodes. The loop at `:483` counts down positions in `order` and uses them as
  nodes (`label_in[i]`, never `label_in[order[i]]`), so it takes the nodes from
  the highest number down, whatever the order in which they were folded. With
  three rounds one pass is enough in any order, which is proved; with four it is
  not. The chain 1-2-3-4-5-6-7 with 7-8 and 7-9 has nine components, eight
  levels and no new node, and in the end `label_in[8]` is {5, 7, 8}: components 0 and
  1, which component 8 leads to, are missing, and both are apart from it by
  their labels. (To see it, add this file to `deep`, set `MaxTot` to 9, and
  drop `TF \in 1..3` from `LabelsComplete`.) Nothing in the repository says
  what the labels promise, since the query is a TODO (`:89`).
* The README's example prints `K K` first, not `N K`: nodes are scanned in the
  order of their keys, and nothing keeps the elements of a match distinct.

## Proofs

Proved for every value of the constants, under the named assumptions next to
their declarations:

* `TypedMRUMapProofs`, the maps: `TypeCorrect`, `IndexesAlwaysAgree`,
  `SizeAlwaysBounded`.
  `IndexesAgree` is inductive with `TypeOK`: the reverse index only ever holds
  current times. The limit needs a strengthening, since orphans are
  entries that cannot be cleared: the map never has more entries than
  `objectSize` (`CountCovers`), so below the limit there is room, and past it
  an insertion clears at least as many entries as it adds, because the new
  entry itself is in the order (`ClearingErases`).
* `TypedMRUMapProofs`, the order of use: `OldestAlwaysGoFirst`,
  `AlwaysShrinksOnceFull`, `ImplementsTheCache`, without hypotheses. The
  cache of `CacheSpec` has a list of keys where the class has times, so the
  refinement mapping takes the keys by the rank of their times (`RanksArePlaces`,
  `ListedIsNth`: that is a list of the keys, each once, older ones first). The
  clock is ahead of every time in use (`ClockLeads`), so a hit or a new key is the
  last of the list (`OrderAppends`), taking its old time away takes it out of
  its place (`OrderLoses`), and the victims of a clearing are the front of the
  list (`VictimsAreFirst`, `OrderDrops`).
* `DirectedStoreProofs`, any client: `TypeCorrect`; `CacheAlwaysCoherent` and
  `IdsAlwaysHaveRecords`, assuming
  `~ WarmDestroy`. The inductive invariant is `StoreInv`: the domains are what
  they should be, caches agree with the pending sets, stored ids have stored
  records, ids in the batch have stored or pending ones, and an edge still to be
  linked has its record in the batch. The last is what makes `Link` safe, and
  the absence of an open batch between calls what makes `RemoveEdge` safe.
  `StoreLemmas` has the facts on caches and bundles they rest on: no cache
  operation changes a value it keeps, a key that is found is the newest of the
  order and the rest keep theirs, and a bundle's records cover its ids
  (the last position of an id exists by well-foundedness).
* `DirectedStoreProofs`, the careful client of `DirectedClient`:
  `StoreImplementsGraph`, `SetsAlwaysExact`, `EndsAlwaysExist`, from three
  hypotheses. `Roomy`: the caches have room for every node. The constant is
  1048576 in the code, where more nodes than that end in the state of finding 2,
  because ten entries are cleared for one that is inserted; the scratch store of
  TFLabel may have more (see `TFLabelConstruct` above), and its theorems take the
  graph for granted. No stop inside `removeNode()`: finding 1. No `destroy()` on
  warm caches. The runs `directed_crash` and `directed_saturated` show that without the first two the
  conclusion is false; the run `directed_graph` complements the theorems with
  caches that do evict, where no bundle returns to a set evicted behind it.
  `GraphInv` adds to `StoreInv` that a set holds edges of its own node
  (`SetsOfEnds`), that the two sets of an edge agree except those of a removed
  node (`EndsAgree`), that the ends of live edges are nodes shown
  (`LiveEndsShown`), that a set with a change in the batch is in its cache
  (`Cached`, where the room is needed), what of a bundle is in the batch and what
  is still to be linked (`LinkPart`), and which ids a `removeNode()` has taken
  from the sets of its neighbours (`UnlinkPart`). A call
  is a stutter until its batch is written; then the whole of it appears
  (`CommitStep`, `UnlinkDoneParts`).
* `UndirectedStoreProofs`: the same theorems by the same invariants. Here an
  edge rewrites two sets of one cache, or one set twice when it is a loop, so
  the step needs the second read to see the first write (`RewrittenTwice`,
  `SecondGetHasRecords`).
* `DeductionProofs`: `TypeCorrect`, `ConstraintsAlwaysExact`, `AllBoundOnce`,
  `NeverScansEdges`, for patterns of any length. The alternating walk through one
  gap is arithmetic (`VisitedOnce`, `VisitedAll`, `LeftOfVisited`,
  `RightOfVisited`: a neighbour was visited before exactly when the step is
  approached from its side). `GapFilled` lifts it to lists: filling a gap between
  two bounds keeps a correct list correct and places exactly the gap's elements.
  The invariant `PlanInv` adds what the loops rely on: the elements with an id
  are in ascending order, and everything left of the next gap is placed.
* `GraphDslProofs`, the parser: `ParserTypeCorrect`, `AlwaysOneNodeMore`. The invariant
  `ParseInv` says at each place whether a node or an edge is due (`Balance`), that
  the name getId() holds is an identifier, and that a token ahead leaves room for
  itself. `Onward` puts the parts together; `Moves` covers all steps that
  leave the sentence alone.
* `GraphDslProofs`, the literals: `AnswersAlwaysExact`, `NumbersAlwaysAnswered`,
  for integers of every width (an int no wider than a long) and numbers with any
  signs and digits; `LiteralAssumption` says what a text is. `LiteralInv` is
  that what was answered follows from the token, and the token from the text.
  The argument is about the two conversions. getToken() drops a leading plus, which
  changes no sign because strtod() and stol() take one sign at most
  (`PlusDropped`, `KeptNumber`), and a long that becomes a narrower integer, by a
  remainder, is the same number when it is one of the type (`NarrowedIsSame`,
  from `OwnRemainder` and `PowerOfTwo`).
* `QueryIteratorProofs`, each result: `PlansInside`, `QueryTypeCorrect`, `ResultsAlwaysMatch`.
  The planner inside the iterator behaves as the planner alone (`PlansInside`),
  so its invariants carry over. `SearchInv` adds that every settled position of
  the plan holds what its step checked (`Held`), in the graph as it was asked:
  a removal only takes records and ids away (`LoseOnly`, `FittedThen`). That
  relates an element only to ones bound before it, which a later binding does not
  touch (`PrefixHeld`, `Moved`). Where no node is approached from the right, the
  left node of every edge is bound before the edge, so each edge of a finished
  match had both of its ends checked (`MatchHeld`).
* `QueryIteratorProofs`, the results together: `NoResultTwice`, for every graph
  and pattern, and `AlwaysComplete`, for those in which no node is approached
  from the right. Both compare elements in the order of the plan (`Before`). `PastInv` says that
  every result so far comes before what is bound, or agrees with it as far as
  it is bound: the first element a retried step chooses is larger than what it
  had (`ChosenLarger`), so the next result comes after all the others.
  `AheadInv` is the other half: every match that is left is a result, agrees
  with what is bound, or comes after it. A match that agrees with all the steps
  before has its element among the candidates of the step that is tried
  (`AheadOffered`; `MatchReached` for a node at the end of an edge), and the
  smallest is taken (`Onward`). For a retried step that needs what it had to be
  among the candidates still (`Still`), which holds as long as the client takes
  nothing from the result the iterator stands on: the ends of a bound edge are
  bound as well, so removing another node spares it (`ClientAhead`). A step with
  a given id that fails ends the search whatever came before, which loses
  nothing because everything before it was given too (`DirectFirst`,
  `NoneBeforeDirect`).
* `TFLabelProofs`, the search: `OpenNodesOnStack`, `ComponentsAreClosed`, for
  every graph. `SearchInv` is Tarjan's argument. The stack holds
  the open nodes in the order of their visit (`StackIsOpen`) and every call's
  node is on it (`CallsOnStack`, `Calling`); `lowlink` is the number of an open
  node the call leads to (`LowLeads`) and a lower bound for what the edges seen
  so far lead to (`LowBounds`); a call leads to what is above it on the stack
  (`LeadsUp`) and everything there leads back to its call (`LeadsBack`). A call
  whose lowlink is its own number therefore pops one class of mutual
  reachability (`NumberedMutual`), and no edge leaves what is numbered
  (`NumberedClosed`). `MergeKeeps` and `PopKeeps` are the two ways to return.
  The adjacency lists of a file are its edges in order, which the model says by
  a choice (`InOrder`); that a finite set of numbers or of pairs has such a
  list, and that edges therefore lead to nodes, is proved (`ListedInOrder`,
  `EdgesLeadToNodes`).
* `TFLabelProofs`, the levels: `LevelsAlwaysExact`, `TypeCorrect`. An edge between
  components leads to a lower number (`Descends`, from `ComponentsClosed`), and
  there are no more components than nodes (`Counting`, `ComponentsFit`).
  `Leveling` is the argument for toposort(): with T the components that were
  taken from the queue, a count is the number of edges from components outside
  T (`CountsLeft`), the queue has those outside T with a count of 0, each once
  (`Queued`), and a level is one more than the highest of the predecessors in T
  (`Placed`). A step lowers the counts by the edges of what it takes, and an
  edge is the one that clears a count exactly once, parallel edges included
  (`TakeCounts`, `ClearedOnce`). When the queue is empty nothing is left: the
  highest number outside T would have a count of 0 (`AllTaken`). That also gives
  the next object its zeros.
* `TFLabelProofs`, the labels: `ConstructionFollows` (construct() leaves what
  read() computed alone), `ReachabilityAlwaysKept`, `LabelsAlwaysSound`. Every
  node is in a component when the search is over (`Numbering`, `AllNumbered`),
  and an edge between components leads to a lower number, so the
  graph has no cycle (`CrossingAcyclic`). `FoldInv` says that the
  store has none either and joins the components left in it as the file does,
  that an edge of the store is a path between the components of its ends, and
  that labels are sound. Two lemmas on graphs carry it: putting a node on the
  edges between two sets (`DetourJoins`, `DetourAcyclic`), and taking one out
  with an edge for each way through it (`BridgedJoins`, `BridgedAcyclic`; a loop
  at the node would break it, hence acyclicity), keep who is joined with whom.
  `KeptWithNode`, `KeptWithoutNode`, `KeptJoined` and `KeptRenamed` are the
  steps. None of it depends on levels or on the order of the walk.
* `TFLabelProofs`, the rounds: `FoldedAlwaysApart`, `EveryNodeAlwaysFolded`, for
  every file and any order of the keys (`KeyAssumption`: a strict linear order,
  which the decimal one is; with `Ids` all of Nat there is no bound on the
  numbers). No level toposort() leaves on an edge is above `maxx` (`Topping`), so
  all are below 2^TF (`RoundsEnough`; `PowerDoubles` counts subsets for it).
  `RoundInv` says that in round ii they are below 2^(TF - ii + 1) and that edges
  rise. In the first loop the edges out of the odd nodes met so far lead up one
  level (`FirstLoop`, `FlatOut`), in the second those into them come from one
  level below as well (`SecondLoop`, `FlatIn`). Iterator and store are walked
  together: a new node has an even level, so it is the same whether the walk
  still meets it (`WalkMoves`, `WalkMeets`). In the third loop the nodes met are
  halved already, so `ThirdLoop` speaks of the levels as they were (`Unhalved`);
  folding a node joins two nodes of even level, two apart (`FoldLevels`), so
  behind it edges rise also in the halves (`HalvedAll`). After TF rounds a level
  would be below 1, and none is, so no node is left; `Ordered` has each of them
  in `order` once. `FoldInv` supplies that edges end at nodes.

* `TFLabelProofs`, complete labels: `LabelsAlwaysComplete`, for every file
  whose components are below level 8 and that needs no new node, however many
  components it has. `Turn` is the round that folds a node of a level: the first
  for odd levels, the second for twice an odd one, the third for 4. `TurnInv` ties it to the
  halved levels of the store. `LabelsAt` holds while nodes are folded: a folded
  node that leads to one of a later round has, in its label, a step there that
  is of a later round itself (`Climbs`; the edge it had when it was folded leads to a
  neighbour, `FirstEdge`, and neighbours are never of its own round,
  `FoldedApart`), and between two nodes of one round is one of a later round
  (`Parted`). Of the nodes on the way from x to y one of the last round is a
  summit, and labels that have all their summits meet (`LabelsMeet`). A climb of
  three rounds has at most two steps, so adding the labels of what a label has, once,
  reaches every summit, whether or not those labels were added to before
  (`JoinTops`, `GrownKeeps`): this is why the order of the loop at `:483` does
  not matter, and why eight levels are too many. The other side is the same
  with the ways turned around (`BackWays`, `BackParted`).

Model-checked only:

* the language the parser accepts: `UnderstandsSentences` and
  `RefusesNoSentence` compare it with an enumeration of the sentences, which
  recursive operators make from the grammar; for texts of any length it would
  need induction over sentences;
* liveness: `EveryCallReturns`, `EveryParseEnds`;
* what the theorems leave out by hypothesis: caches that evict in the
  middle of a bundle of the careful client (`directed_graph`).

Out of the prover's reach are liveness, ENABLED, recursive operators and
induction over data.

## Not modelled

* DiskSet: `clear()` advances and deletes one cursor it holds under two names,
  which is undefined on every set that is not empty, and only its own test uses
  the class. There is no sequence of calls with an outcome to specify.
* Lazymap: a memory map over a SQLite table that nothing uses; its test is
  commented out of the build (`CMakeLists.txt:85-86`).
* The in-memory Graph: two standard maps with one-line accessors.
* Of the query: `operator*`, which copies the records of the bound ids; the
  undirected iterator, since the undirected `query()` throws
  (`leveldbgraph.hpp:770`); an element with two ids (`getId()`,
  `leveldbgraph_deduction.inc:87`); the cache of parsed sentences; the tokens of
  getToken() that are one character or a word.
* `destroy()` on warm caches is in the models, but `WarmDestroy` is FALSE in the
  runs and the theorems (see "Also seen").
* Of TFLabel: an empty file, which reads `v[0]` of an empty vector
  (`tflabel.hpp:184`); numbers that are negative or not below `maxN`, for which
  `pre_to_new_NUM` has no element (`:34`, `:185-190`); more nodes than the array
  `fa` holds (`maxn`). `FilesAssumption` excludes all three (`MaxNum` is
  `maxN - 1`). `query()` is a TODO.
* Of reflection: the null descriptor of a field that does not exist, and
  `omni_cast`, which nothing calls.
* Protobuf and cereal encoding, LevelDB's own recovery (an applied batch is
  durable, the code uses it so), failing LevelDB calls (the code asserts and
  stops, which is a process stop), logging, the demo program and the build
  scripts.
