------------------------------ MODULE GraphDsl ------------------------------
(* parseGraphSqlImpl(): the recursive descent over the queue of tokens, one *)
(* action per function and branch (src/src/graphdsl.cpp:247-483).  A token  *)
(* stands for itself; the text is chosen token by token, as the parser      *)
(* comes to it.                                                             *)
EXTENDS Integers, Sequences

CONSTANTS
  Id,        \* identifiers
  Label,     \* identifiers that begin with ':'
  Constant,  \* numbers and strings
  End,       \* no token: the queue is empty
  NoName,    \* the id ""
  MaxTokens  \* bound on the length of a text

Op == {"<", "=", ">"}
Name == Id \cup Label
Token == Name \cup Constant \cup Op \cup {"select", "return", "(", ")", "[", "]", "-", ","}

ASSUME ParserAssumption ==
  /\ MaxTokens \in Nat
  /\ NoName \notin Name
  /\ End \notin Token
  /\ \A S \in {Id, Label, Constant} :
       S \cap (Op \cup {"select", "return", "(", ")", "[", "]", "-", ","}) = {}
  /\ Id \cap Label = {} /\ Name \cap Constant = {}

VARIABLES
  read,        \* the tokens taken from the queue
  ahead,       \* the token at its front, or End
  at,          \* the place in the code
  inside,      \* the kind of element between the brackets
  element,     \* its id and properties
  held,        \* the name and operator of the property being read
  leftDir,     \* the edge began with "<"
  nodes, edges, returnName

parseVars == <<read, ahead, at, inside, element, held, leftDir, nodes, edges, returnName>>
\* the locals of the functions, and the result
locals == <<inside, element, held, leftDir>>
sentence == <<nodes, edges, returnName>>

Closer == [node |-> ")", edge |-> "]"]
NoElement == [id |-> NoName, properties |-> <<>>]
Outcome == {"accepted", "rejected", "undefined"}

Upcoming(taken) == IF taken < MaxTokens THEN Token \cup {End} ELSE {End}

\* pop_front()
Take == read' = Append(read, ahead) /\ ahead' \in Upcoming(Len(read) + 1)

GoTo(place) == at' = place
Stay == UNCHANGED <<read, ahead>>

\* an exception that leaves the parser
Reject == GoTo("rejected") /\ Stay /\ UNCHANGED <<locals, sentence>>
\* front() of an empty queue
ReadPastEnd ==
  /\ ahead = End
  /\ GoTo("undefined")
  /\ Stay /\ UNCHANGED <<locals, sentence>>
RejectUnless(tokens) == ahead \notin tokens /\ Reject

ParseInit ==
  /\ read = <<>> /\ ahead \in Upcoming(0) /\ at = "select"
  /\ inside = "node" /\ element = NoElement /\ held = <<>> /\ leftDir = FALSE
  /\ nodes = <<>> /\ edges = <<>> /\ returnName = <<>>

SelectKeyword ==
  /\ at = "select"
  /\ \/ ReadPastEnd
     \/ RejectUnless({End, "select"})
     \/ ahead = "select" /\ Take /\ GoTo("node")
        /\ UNCHANGED <<locals, sentence>>

\* getNode(): the parenthesis
OpenNode ==
  /\ at = "node"
  /\ \/ ReadPastEnd
     \/ RejectUnless({End, "("})
     \/ /\ ahead = "(" /\ Take /\ GoTo("body")
        /\ inside' = "node" /\ element' = NoElement
        /\ UNCHANGED <<held, leftDir, sentence>>

\* the closing bracket: a node is complete, an edge lacks its end
Close ==
  /\ ahead = Closer[inside] /\ Take
  /\ IF inside = "node"
       THEN GoTo("edge") /\ nodes' = Append(nodes, element)
       ELSE GoTo("trailing") /\ UNCHANGED nodes
  /\ UNCHANGED <<locals, edges, returnName>>

\* a mutation of TakeName: the type of the token is not checked
TakeAnyName(place) ==
  /\ ahead \notin {End, Closer[inside]} /\ Take /\ GoTo(place) /\ held' = <<ahead>>
  /\ UNCHANGED <<inside, element, leftDir, sentence>>

\* a name that may be the id or that of the first property
TakeName(place) ==
  /\ ahead \in Name /\ Take /\ GoTo(place) /\ held' = <<ahead>>
  /\ UNCHANGED <<inside, element, leftDir, sentence>>

Body ==
  /\ at = "body"
  /\ \/ ReadPastEnd
     \/ RejectUnless(Name \cup {End, Closer[inside]})
     \/ Close
     \/ TakeName("named")

\* a mutation of IsId: the token behind the name is not looked at
IsIdAlone == held[1] \notin Label

IsId == held[1] \notin Label /\ ahead \notin Op

\* getId(): the name was the id; pushed back, it is the name of a property
Named ==
  /\ at = "named"
  /\ \/ held[1] \notin Label /\ ReadPastEnd
     \/ /\ IsId /\ ahead # End
        /\ GoTo("list") /\ element' = [element EXCEPT !.id = held[1]] /\ Stay
        /\ UNCHANGED <<inside, held, leftDir, sentence>>
     \/ /\ ~ IsId
        /\ GoTo("op") /\ Stay
        /\ UNCHANGED <<locals, sentence>>

\* getPropertyList() and getProperty()
List ==
  /\ at = "list"
  /\ Close \/ TakeName("op") \/ RejectUnless(Name \cup {Closer[inside]})

Operator ==
  /\ at = "op"
  /\ \/ RejectUnless(Op)
     \/ /\ ahead \in Op /\ Take /\ GoTo("value") /\ held' = Append(held, ahead)
        /\ UNCHANGED <<inside, element, leftDir, sentence>>

Value ==
  /\ at = "value"
  /\ \/ RejectUnless(Constant)
     \/ /\ ahead \in Constant /\ Take /\ GoTo("list")
        /\ element' = [element EXCEPT !.properties = Append(@, Append(held, ahead))]
        /\ UNCHANGED <<inside, held, leftDir, sentence>>

\* a mutation of OpenEdge: the handler goes on with the loop instead of leaving it
OpenEdgeAgain ==
  /\ at = "edge"
  /\ \/ ahead = End /\ Reject
     \/ ahead = "<" /\ Take /\ GoTo("dash") /\ leftDir' = TRUE
        /\ UNCHANGED <<inside, element, held, sentence>>
     \/ ahead = "-" /\ Stay /\ GoTo("dash") /\ leftDir' = FALSE
        /\ UNCHANGED <<inside, element, held, sentence>>
     \/ ahead \notin {End, "<", "-"} /\ UNCHANGED parseVars

\* getEdge(): its beginning, or EdgeNotFoundException, which ends the chain
OpenEdge ==
  /\ at = "edge"
  /\ \/ ahead = End /\ Reject
     \/ ahead = "<" /\ Take /\ GoTo("dash") /\ leftDir' = TRUE
        /\ UNCHANGED <<inside, element, held, sentence>>
     \/ ahead = "-" /\ Stay /\ GoTo("dash") /\ leftDir' = FALSE
        /\ UNCHANGED <<inside, element, held, sentence>>
     \/ ahead \notin {End, "<", "-"} /\ Stay /\ GoTo("return")
        /\ UNCHANGED <<locals, sentence>>

FirstDash ==
  /\ at = "dash"
  /\ \/ RejectUnless({"-"})
     \/ ahead = "-" /\ Take /\ GoTo("middle") /\ inside' = "edge" /\ element' = NoElement
        /\ UNCHANGED <<held, leftDir, sentence>>

\* a mutation of Direction: the two are swapped
DirectionSwapped(rightDir) ==
  IF leftDir THEN "next" ELSE IF rightDir THEN "prev" ELSE "bidirection"

Direction(rightDir) ==
  IF leftDir THEN "prev" ELSE IF rightDir THEN "next" ELSE "bidirection"

\* a mutation of AddEdge: another edge may follow without a node
AddEdgeOnly(rightDir) ==
  IF leftDir /\ rightDir
    THEN GoTo("rejected") /\ UNCHANGED edges
    ELSE /\ GoTo("edge")
         /\ edges' = Append(edges, [id |-> element.id, properties |-> element.properties,
                                    direction |-> Direction(rightDir)])

\* the end of getEdge(): <--> is refused
AddEdge(rightDir) ==
  IF leftDir /\ rightDir
    THEN GoTo("rejected") /\ UNCHANGED edges
    ELSE /\ GoTo("node")
         /\ edges' = Append(edges, [id |-> element.id, properties |-> element.properties,
                                    direction |-> Direction(rightDir)])

\* neither a dash nor a bracket: the edge was a single dash
Middle ==
  /\ at = "middle"
  /\ UNCHANGED <<locals, nodes, returnName>>
  /\ \/ ahead = "-" /\ Stay /\ GoTo("trailing") /\ UNCHANGED edges
     \/ ahead = "[" /\ Take /\ GoTo("body") /\ UNCHANGED edges
     \/ ahead = End /\ Stay /\ GoTo("rejected") /\ UNCHANGED edges
     \/ ahead \notin {"-", "[", End} /\ Stay /\ AddEdge(FALSE)

\* edgeTrailingDir()
LastDash ==
  /\ at = "trailing"
  /\ \/ RejectUnless({"-"})
     \/ ahead = "-" /\ Take /\ GoTo("arrow")
        /\ UNCHANGED <<locals, sentence>>

Arrow ==
  /\ at = "arrow"
  /\ IF ahead = ">" THEN Take ELSE Stay
  /\ AddEdge(ahead = ">")
  /\ UNCHANGED <<locals, nodes, returnName>>

ReturnKeyword ==
  /\ at = "return"
  /\ \/ RejectUnless({"return"})
     \/ ahead = "return" /\ Take /\ GoTo("first")
        /\ UNCHANGED <<locals, sentence>>

ReturnName(valid) ==
  /\ ahead \in valid /\ Take /\ GoTo("more") /\ returnName' = Append(returnName, ahead)
  /\ UNCHANGED <<locals, nodes, edges>>

\* the first name may be any identifier
FirstName ==
  /\ at = "first"
  /\ ReadPastEnd \/ RejectUnless(Name \cup {End}) \/ ReturnName(Name)

\* what isValidIdentifier() accepts
ElementIds ==
  {x.id : x \in {nodes[i] : i \in DOMAIN nodes} \cup {edges[i] : i \in DOMAIN edges}} \ {NoName}

More ==
  /\ at = "more"
  /\ \/ ahead = End /\ GoTo("accepted") /\ Stay
        /\ UNCHANGED <<locals, sentence>>
     \/ RejectUnless({End, ","})
     \/ ahead = "," /\ Take /\ GoTo("next name")
        /\ UNCHANGED <<locals, sentence>>

NextName ==
  /\ at = "next name"
  /\ RejectUnless(ElementIds) \/ ReturnName(ElementIds)

ParseNext ==
  \/ SelectKeyword \/ OpenNode \/ Body \/ Named \/ List \/ Operator \/ Value
  \/ OpenEdge \/ FirstDash \/ Middle \/ LastDash \/ Arrow
  \/ ReturnKeyword \/ FirstName \/ More \/ NextName

ParseSpec == ParseInit /\ [][ParseNext]_parseVars
\* the parser runs in its caller's thread and waits for nothing
FairParseSpec == ParseSpec /\ WF_parseVars(ParseNext)

Place == {"select", "node", "body", "named", "list", "op", "value", "edge", "dash", "middle",
          "trailing", "arrow", "return", "first", "more", "next name"}
Property == Seq(Name \cup Op \cup Constant)
NodeType == [id : Id \cup {NoName}, properties : Seq(Property)]
EdgeType == [id : Id \cup {NoName}, properties : Seq(Property),
             direction : {"prev", "next", "bidirection"}]

(* Types; the front of the queue is always the token after those taken,    *)
(* and only identifiers become ids, property names or returned names        *)
(* (graphdsl.cpp:247-483).                                                  *)
ParseTypeOK ==
  /\ read \in Seq(Token) /\ Len(read) <= MaxTokens
  /\ ahead \in Token \cup {End}
  /\ at \in Place \cup Outcome
  /\ inside \in {"node", "edge"} /\ element \in NodeType
  /\ held \in Seq(Name \cup Op) /\ leftDir \in BOOLEAN
  /\ nodes \in Seq(NodeType) /\ edges \in Seq(EdgeType)
  /\ returnName \in Seq(Name)

(* getEdge() and getNode() take turns, so when the chain has ended there is *)
(* one node more than edges, and at least one: the planner subtracts from   *)
(* twice the number of nodes without a sign (graphdsl.cpp:444-456;          *)
(* leveldbgraph_deduction.inc:151).                                         *)
OneNodeMore ==
  at \in {"return", "first", "more", "next name", "accepted"} => Len(nodes) = Len(edges) + 1

(* A parse ends, whatever the text (graphdsl.cpp:421-483).                  *)
EveryParseEnds == <>(at \in Outcome)
=============================================================================
