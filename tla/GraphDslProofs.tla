--------------------------- MODULE GraphDslProofs ---------------------------
(* The parser's types, and the balance of nodes and edges, for every set of *)
(* tokens and texts of any length.  Below: that numbers are compared as     *)
(* they are written, for integers of every width.                           *)
EXTENDS GraphDsl, Literals, FiniteSetTheorems, SequenceTheorems, TLAPS

InElement == {"body", "named", "list", "op", "value"}
BehindNode == {"edge", "dash", "middle", "trailing", "arrow",
               "return", "first", "more", "next name", "accepted"}

\* a node is due, an edge is due, or a chain may end
Balance ==
  /\ at \in {"select", "node"} => Len(nodes) = Len(edges)
  /\ at \in InElement /\ inside = "node" => Len(nodes) = Len(edges)
  /\ at \in InElement /\ inside = "edge" => Len(nodes) = Len(edges) + 1
  /\ at \in BehindNode => Len(nodes) = Len(edges) + 1
  /\ at = "middle" => inside = "edge"

\* the name getId() has taken
NameHeld == at = "named" => Len(held) = 1 /\ held[1] \in Name

\* there is room for the token ahead
Room == ahead # End => Len(read) < MaxTokens

ParseInv == ParseTypeOK /\ Room /\ NameHeld /\ Balance

-----------------------------------------------------------------------------

\* pop_front() keeps the text within its bound and what is ahead a token
LEMMA Taken ==
  ASSUME ParseTypeOK, Room, Take, ahead # End
  PROVE  /\ read' \in Seq(Token) /\ Len(read') <= MaxTokens
         /\ ahead' \in Token \cup {End} /\ Room'
  <1>1. ahead \in Token /\ read \in Seq(Token) /\ MaxTokens \in Nat /\ Len(read) < MaxTokens
    BY ParserAssumption DEF ParseTypeOK, Room
  <1>2. read' \in Seq(Token) /\ Len(read') = Len(read) + 1 /\ ahead' \in Upcoming(Len(read) + 1)
    BY <1>1 DEF Take
  <1> QED BY <1>1, <1>2 DEF Upcoming, Room

\* what is typed and does not depend on the text
LocalTypes ==
  /\ at \in Place \cup Outcome
  /\ inside \in {"node", "edge"} /\ element \in NodeType
  /\ held \in Seq(Name \cup Op) /\ leftDir \in BOOLEAN
SentenceTypes == nodes \in Seq(NodeType) /\ edges \in Seq(EdgeType) /\ returnName \in Seq(Name)

\* the text is as it should be
TextTypes == read \in Seq(Token) /\ Len(read) <= MaxTokens /\ ahead \in Token \cup {End}

\* the type invariant by what it speaks of
LEMMA Parts == ParseTypeOK <=> TextTypes /\ LocalTypes /\ SentenceTypes
  BY DEF ParseTypeOK, TextTypes, LocalTypes, SentenceTypes

\* taking a token keeps the text as it should be
LEMMA TextTaken ==
  ASSUME ParseTypeOK, Room, Take, ahead # End PROVE TextTypes' /\ Room'
  BY Taken DEF TextTypes

\* so does looking at it only
LEMMA TextKept ==
  ASSUME ParseTypeOK, Room, Stay PROVE TextTypes' /\ Room'
  BY DEF ParseTypeOK, TextTypes, Room, Stay

\* an end without acceptance changes nothing else
LEMMA Ended ==
  ASSUME ParseInv, Reject \/ ReadPastEnd PROVE ParseInv'
  <1>1. TextTypes' /\ Room'
    BY TextKept DEF ParseInv, Reject, ReadPastEnd
  <1>2. LocalTypes' /\ SentenceTypes'
    BY DEF ParseInv, Reject, ReadPastEnd, GoTo, ParseTypeOK, LocalTypes, SentenceTypes, Outcome, locals, sentence
  <1>3. NameHeld' /\ Balance'
    BY DEF Reject, ReadPastEnd, GoTo, NameHeld, Balance, InElement, BehindNode
  <1> QED BY <1>1, <1>2, <1>3, Parts DEF ParseInv, ParseTypeOK, TextTypes, LocalTypes, SentenceTypes

\* where every step but the last in an element or in the sentence leads
LEMMA Onward ==
  ASSUME ParseInv, TextTypes', Room', LocalTypes', SentenceTypes', NameHeld', Balance'
  PROVE  ParseInv'
  BY DEF ParseInv, ParseTypeOK, TextTypes, LocalTypes, SentenceTypes

\* what a sequence holds
LEMMA ElementsOf ==
  ASSUME NEW S, NEW s \in Seq(S) PROVE \A i \in DOMAIN s : s[i] \in S
  OBVIOUS

\* sequences of one more element, and of one
LEMMA Extended ==
  ASSUME NEW S, NEW s \in Seq(S), NEW e \in S
  PROVE  Append(s, e) \in Seq(S) /\ Len(Append(s, e)) = Len(s) + 1 /\ <<e>> \in Seq(S)
  OBVIOUS

\* the kinds of tokens, none of which is the end of the text
LEMMA TokenOf ==
  /\ Name \cup Constant \cup Op \cup {"select", "return", "(", ")", "[", "]", "-", ","} = Token
  /\ End \notin Name /\ End \notin Constant /\ End \notin Op
  /\ End \notin {"select", "return", "(", ")", "[", "]", "-", ",", "<", ">"}
  BY ParserAssumption DEF Token, Op

-----------------------------------------------------------------------------
(* getId(), getPropertyList(), getProperty()                                *)

\* Close: a node joins the chain, or an edge goes on with its end
LEMMA CloseKeeps ==
  ASSUME ParseInv, at \in InElement, Close PROVE ParseInv'
  <1>1. ahead # End
    <2>1. Closer[inside] \in {")", "]"}
      BY DEF Closer, ParseInv, ParseTypeOK
    <2> QED BY <2>1, TokenOf DEF Close
  <1>2. TextTypes' /\ Room'
    BY <1>1, TextTaken DEF Close, ParseInv
  <1>3. LocalTypes'
    BY DEF Close, GoTo, locals, ParseInv, ParseTypeOK, LocalTypes, Place
  <1>4. SentenceTypes' /\ Balance' /\ NameHeld'
    <2>1. CASE inside = "node"
      <3>1. at' = "edge" /\ nodes' = Append(nodes, element) /\ UNCHANGED <<edges, returnName>>
        BY <2>1 DEF Close, GoTo
      <3>2. nodes' \in Seq(NodeType) /\ Len(nodes') = Len(nodes) + 1
        BY <3>1, Extended DEF ParseInv, ParseTypeOK
      <3>3. Len(nodes) = Len(edges)
        BY <2>1 DEF ParseInv, Balance
      <3> QED BY <3>1, <3>2, <3>3 DEF ParseInv, ParseTypeOK, SentenceTypes, Balance, NameHeld, InElement
    <2>2. CASE inside = "edge"
      BY <2>2 DEF Close, GoTo, locals, ParseInv, ParseTypeOK, SentenceTypes, Balance, NameHeld,
                  InElement, BehindNode
    <2> QED BY <2>1, <2>2 DEF ParseInv, ParseTypeOK
  <1> QED BY <1>2, <1>3, <1>4, Onward

\* TakeName: the name is an identifier and waits in held
LEMMA TakeNameKeeps ==
  ASSUME ParseInv, at \in InElement, NEW place \in {"named", "op"}, TakeName(place)
  PROVE  ParseInv'
  <1>1. TextTypes' /\ Room'
    BY TokenOf, TextTaken DEF TakeName, ParseInv
  <1>2. LocalTypes' /\ NameHeld'
    <2>1. held' = <<ahead>> /\ ahead \in Name /\ at' = place /\ UNCHANGED <<inside, element, leftDir>>
      BY DEF TakeName, GoTo
    <2>2. held' \in Seq(Name \cup Op)
      BY <2>1, Extended
    <2>3. Len(held') = 1 /\ held'[1] \in Name
      BY <2>1
    <2> QED BY <2>1, <2>2, <2>3 DEF ParseInv, ParseTypeOK, LocalTypes, Place, NameHeld
  <1>3. SentenceTypes' /\ Balance'
    BY DEF TakeName, GoTo, sentence, ParseInv, ParseTypeOK, SentenceTypes, Balance, InElement,
           BehindNode
  <1> QED BY <1>1, <1>2, <1>3, Onward

\* Body: one of the two, or the end
LEMMA BodyKeeps == ParseInv /\ Body => ParseInv'
  BY Ended, CloseKeeps, TakeNameKeeps DEF Body, RejectUnless, InElement

\* Named: what becomes an id is an identifier and no label
LEMMA NamedKeeps == ParseInv /\ Named => ParseInv'
  <1> SUFFICES ASSUME ParseInv, Named PROVE ParseInv'
    OBVIOUS
  <1>1. CASE ReadPastEnd
    BY <1>1, Ended
  <1>2. CASE IsId /\ Named /\ ~ ReadPastEnd
    <2>1. TextTypes' /\ Room'
      BY <1>2, TextKept DEF Named, ParseInv
    <2>2. held[1] \in Id
      BY <1>2 DEF Named, ParseInv, NameHeld, IsId, Name
    <2>3. at' = "list" /\ element' = [element EXCEPT !.id = held[1]]
          /\ UNCHANGED <<inside, held, leftDir, sentence>>
      BY <1>2 DEF Named, GoTo
    <2>4. element' \in NodeType
      BY <2>2, <2>3 DEF ParseInv, ParseTypeOK, NodeType
    <2>5. LocalTypes' /\ NameHeld'
      BY <2>3, <2>4 DEF ParseInv, ParseTypeOK, LocalTypes, NameHeld, Place
    <2>6. SentenceTypes' /\ Balance'
      BY <1>2, <2>3 DEF Named, sentence, ParseInv, ParseTypeOK, SentenceTypes, Balance, InElement,
                   BehindNode
    <2> QED BY <2>1, <2>5, <2>6, Onward
  <1>3. CASE ~ IsId /\ Named /\ ~ ReadPastEnd
    <2>1. TextTypes' /\ Room'
      BY <1>3, TextKept DEF Named, ParseInv
    <2>2. at' = "op" /\ UNCHANGED <<locals, sentence>>
      BY <1>3 DEF Named, GoTo
    <2>3. LocalTypes' /\ NameHeld'
      BY <2>2 DEF ParseInv, ParseTypeOK, LocalTypes, NameHeld, Place, locals
    <2>4. SentenceTypes' /\ Balance'
      BY <1>3, <2>2 DEF Named, locals, sentence, ParseInv, ParseTypeOK, SentenceTypes, Balance,
                        InElement, BehindNode
    <2> QED BY <2>1, <2>3, <2>4, Onward
  <1> QED BY <1>1, <1>2, <1>3

\* List: as Body
LEMMA ListKeeps == ParseInv /\ List => ParseInv'
  BY Ended, CloseKeeps, TakeNameKeeps DEF List, RejectUnless, InElement

\* Operator: the operator joins the name
LEMMA OperatorKeeps == ParseInv /\ Operator => ParseInv'
  <1> SUFFICES ASSUME ParseInv, Operator, ahead \in Op PROVE ParseInv'
    BY Ended DEF Operator, RejectUnless
  <1>1. TextTypes' /\ Room'
    BY TokenOf, TextTaken DEF Operator, RejectUnless, ParseInv
  <1>2. at' = "value" /\ held' = Append(held, ahead) /\ UNCHANGED <<inside, element, leftDir, sentence>>
    BY DEF Operator, RejectUnless, GoTo
  <1>3. LocalTypes' /\ NameHeld'
    <2>1. held' \in Seq(Name \cup Op)
      BY <1>2, Extended DEF ParseInv, ParseTypeOK
    <2> QED BY <1>2, <2>1 DEF ParseInv, ParseTypeOK, LocalTypes, NameHeld, Place
  <1>4. SentenceTypes' /\ Balance'
    BY <1>2 DEF Operator, sentence, ParseInv, ParseTypeOK, SentenceTypes, Balance, InElement,
                BehindNode
  <1> QED BY <1>1, <1>3, <1>4, Onward

\* Value: the property is complete
LEMMA ValueKeeps == ParseInv /\ Value => ParseInv'
  <1> SUFFICES ASSUME ParseInv, Value, ahead \in Constant PROVE ParseInv'
    BY Ended DEF Value, RejectUnless
  <1>1. TextTypes' /\ Room'
    BY TokenOf, TextTaken DEF Value, RejectUnless, ParseInv
  <1>2. /\ at' = "list" /\ element' = [element EXCEPT !.properties = Append(@, Append(held, ahead))]
        /\ UNCHANGED <<inside, held, leftDir, sentence>>
    BY DEF Value, RejectUnless, GoTo
  <1>3. Append(held, ahead) \in Property
    <2>1. held \in Seq(Name \cup Op \cup Constant)
      BY DEF ParseInv, ParseTypeOK
    <2> QED BY <2>1 DEF Property
  <1>4. element' \in NodeType
    <2>1. Append(element.properties, Append(held, ahead)) \in Seq(Property)
      BY <1>3 DEF ParseInv, ParseTypeOK, NodeType
    <2> QED BY <1>2, <2>1 DEF ParseInv, ParseTypeOK, NodeType
  <1>5. LocalTypes' /\ NameHeld'
    BY <1>2, <1>4 DEF ParseInv, ParseTypeOK, LocalTypes, NameHeld, Place
  <1>6. SentenceTypes' /\ Balance'
    BY <1>2 DEF Value, sentence, ParseInv, ParseTypeOK, SentenceTypes, Balance, InElement, BehindNode
  <1> QED BY <1>1, <1>5, <1>6, Onward

-----------------------------------------------------------------------------
(* getEdge()                                                                *)

\* steps that take a token, or none, and leave the sentence alone
LEMMA Moves ==
  ASSUME ParseInv, at \in {"select", "node"} \cup BehindNode,
         NEW place \in {"node", "dash", "middle", "body", "trailing", "arrow",
                        "return", "first", "more", "next name", "accepted"},
         GoTo(place), Stay \/ (ahead # End /\ Take),
         inside' \in {"node", "edge"}, element' \in NodeType, leftDir' \in BOOLEAN,
         UNCHANGED <<held, sentence>>,
         place = "node" => at = "select",
         place = "middle" => inside' = "edge",
         place = "body" => inside' = (IF at = "node" THEN "node" ELSE "edge"),
         place \notin {"node", "body"} => at \in BehindNode,
         at = "select" => place = "node"
  PROVE  ParseInv'
  <1>1. TextTypes' /\ Room'
    BY TextTaken, TextKept DEF ParseInv
  <1>2. LocalTypes' /\ NameHeld'
    BY DEF GoTo, ParseInv, ParseTypeOK, LocalTypes, NameHeld, Place, Outcome
  <1>3. SentenceTypes' /\ Balance'
    BY DEF GoTo, sentence, ParseInv, ParseTypeOK, SentenceTypes, Balance, InElement, BehindNode
  <1> QED BY <1>1, <1>2, <1>3, Onward

\* an element without id and properties
LEMMA NoElementTyped == NoElement \in NodeType
  BY DEF NoElement, NodeType

\* SelectKeyword: the first node is due
LEMMA SelectKeeps == ParseInv /\ SelectKeyword => ParseInv'
  <1> SUFFICES ASSUME ParseInv, SelectKeyword, ahead = "select" PROVE ParseInv'
    BY Ended DEF SelectKeyword, RejectUnless
  <1>1. at = "select" /\ Take /\ GoTo("node") /\ UNCHANGED <<locals, sentence>>
    BY TokenOf DEF SelectKeyword, RejectUnless, ReadPastEnd
  <1> QED BY <1>1, Moves, TokenOf DEF locals, ParseInv, ParseTypeOK

\* OpenNode: a node begins
LEMMA OpenNodeKeeps == ParseInv /\ OpenNode => ParseInv'
  <1> SUFFICES ASSUME ParseInv, OpenNode, ahead = "(" PROVE ParseInv'
    BY Ended DEF OpenNode, RejectUnless
  <1>1. /\ at = "node" /\ Take /\ GoTo("body") /\ inside' = "node" /\ element' = NoElement
        /\ UNCHANGED <<held, leftDir, sentence>>
    BY TokenOf DEF OpenNode, RejectUnless, ReadPastEnd
  <1> QED BY <1>1, Moves, TokenOf, NoElementTyped DEF ParseInv, ParseTypeOK

\* OpenEdge: an edge begins, or the chain has ended
LEMMA OpenEdgeKeeps == ParseInv /\ OpenEdge => ParseInv'
  <1> SUFFICES ASSUME ParseInv, OpenEdge, ahead # End PROVE ParseInv'
    BY Ended, TokenOf DEF OpenEdge
  <1>1. at \in BehindNode /\ at # "select" /\ at # "node"
    BY DEF OpenEdge, BehindNode
  <1>2. CASE ahead = "<"
    BY <1>1, <1>2, Moves DEF OpenEdge, ParseInv, ParseTypeOK
  <1>3. CASE ahead = "-"
    BY <1>1, <1>3, Moves DEF OpenEdge, ParseInv, ParseTypeOK
  <1>4. CASE ahead \notin {"<", "-"}
    BY <1>1, <1>4, Moves DEF OpenEdge, ParseInv, ParseTypeOK, locals
  <1> QED BY <1>2, <1>3, <1>4

\* FirstDash: the edge has no id yet
LEMMA FirstDashKeeps == ParseInv /\ FirstDash => ParseInv'
  <1> SUFFICES ASSUME ParseInv, FirstDash, ahead = "-" PROVE ParseInv'
    BY Ended DEF FirstDash, RejectUnless
  <1>1. at \in BehindNode /\ at # "select" /\ at # "node"
    BY DEF FirstDash, BehindNode
  <1> QED BY <1>1, Moves, TokenOf, NoElementTyped DEF FirstDash, RejectUnless, ParseInv, ParseTypeOK

\* the edge is added to the chain, or <--> refused
LEMMA AddEdgeKeeps ==
  ASSUME ParseInv, at \in BehindNode, NEW right \in BOOLEAN, AddEdge(right),
         Stay \/ (ahead # End /\ Take), UNCHANGED <<locals, nodes, returnName>>
  PROVE  ParseInv'
  <1>1. TextTypes' /\ Room'
    BY TextTaken, TextKept DEF ParseInv
  <1>2. LocalTypes' /\ NameHeld'
    BY DEF AddEdge, GoTo, ParseInv, ParseTypeOK, LocalTypes, NameHeld, Place, Outcome, locals
  <1>3. Len(nodes) = Len(edges) + 1
    BY DEF ParseInv, Balance
  <1>4. SentenceTypes' /\ Balance'
    <2>1. CASE leftDir /\ right
      BY <2>1, <1>3 DEF AddEdge, GoTo, ParseInv, ParseTypeOK, SentenceTypes, Balance, InElement, BehindNode
    <2>2. CASE ~ (leftDir /\ right)
      <3> DEFINE e == [id |-> element.id, properties |-> element.properties,
                       direction |-> Direction(right)]
      <3>1. at' = "node" /\ edges' = Append(edges, e)
        BY <2>2 DEF AddEdge, GoTo
      <3>2. e \in EdgeType
        <4>1. Direction(right) \in {"prev", "next", "bidirection"}
          BY DEF Direction
        <4> QED BY <4>1 DEF EdgeType, NodeType, ParseInv, ParseTypeOK
      <3>3. edges' \in Seq(EdgeType) /\ Len(edges') = Len(edges) + 1
        <4> HIDE DEF e
        <4> QED BY <3>1, <3>2, Extended DEF ParseInv, ParseTypeOK
      <3> QED BY <3>1, <3>3, <1>3 DEF ParseInv, ParseTypeOK, SentenceTypes, Balance, InElement, BehindNode
    <2> QED BY <2>1, <2>2
  <1> QED BY <1>1, <1>2, <1>4, Onward

\* Middle: on to the end of the edge, to its brackets, or done
LEMMA MiddleKeeps == ParseInv /\ Middle => ParseInv'
  <1> SUFFICES ASSUME ParseInv, Middle PROVE ParseInv'
    OBVIOUS
  <1>1. at \in BehindNode /\ at # "select" /\ at # "node"
    BY DEF Middle, BehindNode
  <1>2. CASE ahead = "-"
    BY <1>1, <1>2, Moves, TokenOf DEF Middle, ParseInv, ParseTypeOK, locals, sentence
  <1>3. CASE ahead = "["
    <2>1. GoTo("body") /\ Take /\ UNCHANGED <<locals, sentence>>
      BY <1>3, TokenOf DEF Middle, sentence
    <2>2. ParseInv /\ inside \in {"node", "edge"}
      BY DEF ParseInv, ParseTypeOK
    <2>3. inside' = "edge"
      BY <2>1 DEF Middle, ParseInv, Balance, locals
    <2> QED BY <1>1, <1>3, <2>1, <2>2, <2>3, Moves, TokenOf DEF ParseInv, ParseTypeOK, locals
  <1>4. CASE ahead = End
    BY <1>4, TokenOf, Ended DEF Middle, Reject, sentence
  <1>5. CASE ahead \notin {"-", "[", End}
    BY <1>1, <1>5, AddEdgeKeeps DEF Middle
  <1> QED BY <1>2, <1>3, <1>4, <1>5

\* LastDash: only the arrowhead is left
LEMMA LastDashKeeps == ParseInv /\ LastDash => ParseInv'
  <1> SUFFICES ASSUME ParseInv, LastDash, ahead = "-" PROVE ParseInv'
    BY Ended DEF LastDash, RejectUnless
  <1>1. at \in BehindNode /\ at # "select" /\ at # "node"
    BY DEF LastDash, BehindNode
  <1> QED BY <1>1, Moves, TokenOf DEF LastDash, RejectUnless, ParseInv, ParseTypeOK, locals

\* Arrow: the edge is done
LEMMA ArrowKeeps == ParseInv /\ Arrow => ParseInv'
  <1> SUFFICES ASSUME ParseInv, Arrow PROVE ParseInv'
    OBVIOUS
  <1>1. at \in BehindNode
    BY DEF Arrow, BehindNode
  <1>2. Stay \/ (ahead # End /\ Take)
    BY TokenOf DEF Arrow
  <1> QED BY <1>1, <1>2, AddEdgeKeeps DEF Arrow

-----------------------------------------------------------------------------
(* the names after return                                                   *)

\* ReturnKeyword: names follow
LEMMA ReturnKeywordKeeps == ParseInv /\ ReturnKeyword => ParseInv'
  <1> SUFFICES ASSUME ParseInv, ReturnKeyword, ahead = "return" PROVE ParseInv'
    BY Ended DEF ReturnKeyword, RejectUnless
  <1>1. at \in BehindNode /\ at # "select" /\ at # "node"
    BY DEF ReturnKeyword, BehindNode
  <1> QED BY <1>1, Moves, TokenOf DEF ReturnKeyword, RejectUnless, ParseInv, ParseTypeOK, locals

\* ReturnName: the ids of the elements are identifiers
LEMMA ReturnNameKeeps ==
  ASSUME ParseInv, at \in BehindNode, ReturnName(Name) \/ ReturnName(ElementIds)
  PROVE  ParseInv'
  <1>1. ElementIds \subseteq Name
    <2>1. /\ \A i \in DOMAIN nodes : nodes[i] \in NodeType
          /\ \A i \in DOMAIN edges : edges[i] \in EdgeType
      BY ElementsOf DEF ParseInv, ParseTypeOK
    <2>2. \A x \in NodeType \cup EdgeType : x.id \in Id \cup {NoName}
      BY DEF NodeType, EdgeType
    <2>3. \A id \in ElementIds : id \in Id
      BY <2>1, <2>2 DEF ElementIds
    <2> QED BY <2>3 DEF Name
  <1>2. /\ ahead \in Name /\ Take /\ at' = "more" /\ returnName' = Append(returnName, ahead)
        /\ UNCHANGED <<locals, nodes, edges>>
    BY <1>1 DEF ReturnName, GoTo
  <1>3. TextTypes' /\ Room'
    BY <1>2, TokenOf, TextTaken DEF ParseInv
  <1>4. LocalTypes' /\ NameHeld'
    BY <1>2 DEF ParseInv, ParseTypeOK, LocalTypes, NameHeld, Place, locals
  <1>5. returnName' \in Seq(Name)
    BY <1>2, Extended DEF ParseInv, ParseTypeOK
  <1>6. SentenceTypes' /\ Balance'
    BY <1>2, <1>5 DEF ParseInv, ParseTypeOK, SentenceTypes, Balance, InElement, BehindNode
  <1> QED BY <1>3, <1>4, <1>6, Onward

\* FirstName: any identifier
LEMMA FirstNameKeeps == ParseInv /\ FirstName => ParseInv'
  <1> SUFFICES ASSUME ParseInv, FirstName, ReturnName(Name) PROVE ParseInv'
    BY Ended DEF FirstName, RejectUnless
  <1> QED BY ReturnNameKeeps DEF FirstName, BehindNode

\* More: a comma, or acceptance
LEMMA MoreKeeps == ParseInv /\ More => ParseInv'
  <1> SUFFICES ASSUME ParseInv, More, ahead \in {End, ","} PROVE ParseInv'
    BY Ended DEF More, RejectUnless
  <1>1. at \in BehindNode /\ at # "select" /\ at # "node"
    BY DEF More, BehindNode
  <1>2. CASE ahead = End
    BY <1>1, <1>2, Moves, TokenOf DEF More, RejectUnless, ParseInv, ParseTypeOK, locals
  <1>3. CASE ahead = ","
    BY <1>1, <1>3, Moves, TokenOf DEF More, RejectUnless, ParseInv, ParseTypeOK, locals
  <1> QED BY <1>2, <1>3

\* NextName: the id of an element
LEMMA NextNameKeeps == ParseInv /\ NextName => ParseInv'
  <1> SUFFICES ASSUME ParseInv, NextName, ReturnName(ElementIds) PROVE ParseInv'
    BY Ended DEF NextName, RejectUnless
  <1> QED BY ReturnNameKeeps DEF NextName, BehindNode

-----------------------------------------------------------------------------

\* the invariant holds before the first token
LEMMA ParseInvInit == ParseInit => ParseInv
  <1> SUFFICES ASSUME ParseInit PROVE ParseInv
    OBVIOUS
  <1>1. ahead \in Token \cup {End} /\ Room
    BY ParserAssumption DEF ParseInit, Upcoming, Room
  <1>2. ParseTypeOK
    <2>1. \A S : <<>> \in Seq(S)
      OBVIOUS
    <2>2. read \in Seq(Token) /\ Len(read) <= MaxTokens
      <3>1. <<>> \in Seq(Token) /\ Len(<<>>) = 0
        OBVIOUS
      <3>2. read = <<>> /\ MaxTokens \in Nat
        BY ParserAssumption DEF ParseInit
      <3> QED BY <3>1, <3>2
    <2>3. SentenceTypes
      BY <2>1 DEF ParseInit, SentenceTypes
    <2>4. LocalTypes
      BY <2>1, NoElementTyped DEF ParseInit, LocalTypes, Place
    <2> QED BY <1>1, <2>2, <2>3, <2>4 DEF ParseTypeOK, SentenceTypes, LocalTypes
  <1>3. NameHeld /\ Balance
    BY DEF ParseInit, NameHeld, Balance, InElement, BehindNode
  <1> QED BY <1>1, <1>2, <1>3 DEF ParseInv

\* every step keeps it
LEMMA ParseInvStep == ParseInv /\ [ParseNext]_parseVars => ParseInv'
  <1> SUFFICES ASSUME ParseInv, [ParseNext]_parseVars PROVE ParseInv'
    OBVIOUS
  <1>1. CASE UNCHANGED parseVars
    <2>1. TextTypes' /\ Room'
      BY <1>1, TextKept DEF parseVars, Stay, ParseInv
    <2>2. LocalTypes' /\ SentenceTypes'
      BY <1>1 DEF parseVars, ParseInv, ParseTypeOK, LocalTypes, SentenceTypes
    <2>3. NameHeld' /\ Balance'
      BY <1>1 DEF parseVars, ParseInv, NameHeld, Balance
    <2> QED BY <2>1, <2>2, <2>3, Onward
  <1>2. CASE ParseNext
    BY <1>2, SelectKeeps, OpenNodeKeeps, BodyKeeps, NamedKeeps, ListKeeps, OperatorKeeps, ValueKeeps,
       OpenEdgeKeeps, FirstDashKeeps, MiddleKeeps, LastDashKeeps, ArrowKeeps, ReturnKeywordKeeps,
       FirstNameKeeps, MoreKeeps, NextNameKeeps DEF ParseNext
  <1> QED BY <1>1, <1>2

\* the invariant always holds
LEMMA ParseInvAlways == ParseSpec => []ParseInv
  BY ParseInvInit, ParseInvStep, PTL DEF ParseSpec

(* The parser's variables keep their types: ids and returned names are      *)
(* identifiers, and every token is taken at most once                       *)
(* (graphdsl.cpp:247-483).                                                  *)
THEOREM ParserTypeCorrect == ParseSpec => []ParseTypeOK
  <1>1. ParseInv => ParseTypeOK
    BY DEF ParseInv
  <1> QED BY <1>1, ParseInvAlways, PTL

(* Whatever the text, a chain that has ended has one node more than edges,  *)
(* as the planner assumes (graphdsl.cpp:444-456).                           *)
THEOREM AlwaysOneNodeMore == ParseSpec => []OneNodeMore
  <1>1. ParseInv => OneNodeMore
    BY DEF ParseInv, Balance, BehindNode, OneNodeMore
  <1> QED BY <1>1, ParseInvAlways, PTL
-----------------------------------------------------------------------------
(* Literals                                                                  *)

Digit == Nat \cup {NoDigits}
Number == [kind : {"number"}, signs : Seq({"+", "-"}), dots : 0..2, whole : Digit, behind : {NoDigits, 0, 1}]

\* the last comparison, and what it ended with
Asked(f, r) ==
  /\ asked = [field |-> f, relation |-> r]
  /\ token = GetToken /\ token # Refused
  /\ answer = IF EndingOf(f, token) # "answered" THEN EndingOf(f, token)
              ELSE IF Compare(r, f.value, FromString(f.type, token)) THEN "yes" ELSE "no"

LiteralInv ==
  /\ text \in Texts
  /\ token \in {Unread, GetToken}
  /\ \/ asked = <<>> /\ answer = "none"
     \/ \E f \in Fields, r \in Relation : Asked(f, r)

\* a comparison has a field, before it there is none
LEMMA AskedIsThere == ASSUME NEW f, NEW r PROVE [field |-> f, relation |-> r] # <<>>
  <1>1. "field" \in DOMAIN [field |-> f, relation |-> r] /\ DOMAIN <<>> = {}
    OBVIOUS
  <1> QED BY <1>1

\* a number that is text is one
LEMMA TextIsNumber ==
  ASSUME text \in Texts, text.kind = "number"
  PROVE  text \in Number /\ (text.dots = 0 => text.behind = NoDigits)
  BY LiteralAssumption DEF Number, Digit

\* the dashes of one sign
LEMMA OneSign ==
  ASSUME NEW s \in {"+", "-"}
  PROVE  Dashes(<<s>>) = IF s = "-" THEN 1 ELSE 0
  <1>1. {i \in DOMAIN <<s>> : <<s>>[i] = "-"} = IF s = "-" THEN {1} ELSE {}
    OBVIOUS
  <1> QED BY <1>1, FS_EmptySet, FS_Singleton DEF Dashes

\* a plus in front of it adds none
LEMMA PlusSign ==
  ASSUME NEW s \in {"+", "-"}
  PROVE  Dashes(<<"+", s>>) = Dashes(<<s>>)
  <1>1. {i \in DOMAIN <<"+", s>> : <<"+", s>>[i] = "-"} = IF s = "-" THEN {2} ELSE {}
    OBVIOUS
  <1>2. Cardinality(IF s = "-" THEN {2} ELSE {}) = IF s = "-" THEN 1 ELSE 0
    BY FS_EmptySet, FS_Singleton
  <1> QED BY <1>1, <1>2, OneSign DEF Dashes

\* no sign is no dash
LEMMA NoSign == Dashes(<<>>) = 0
  BY FS_EmptySet DEF Dashes

\* the plus getToken() drops in front of at most one sign changes no dash
LEMMA PlusDropped ==
  ASSUME NEW s \in Seq({"+", "-"}), s # <<>>, Head(s) = "+", Len(s) <= 2
  PROVE  Dashes(Tail(s)) = Dashes(s)
  <1>1. Len(s) \in {1, 2} /\ s[1] = "+"
    <2>1. Len(s) \in Nat /\ Len(s) # 0
      BY EmptySeq
    <2>2. PICK n \in Nat \ {0} : n = Len(s) /\ n <= 2
      BY <2>1
    <2>3. n \in {1, 2}
      BY <2>2
    <2>4. Head(s) = s[1]
      OBVIOUS
    <2> QED BY <2>2, <2>3, <2>4
  <1>2. CASE Len(s) = 1
    <2>1. s = <<"+">>
      BY <1>1, <1>2
    <2>2. Tail(<<"+">>) = <<>>
      OBVIOUS
    <2>3. Dashes(<<"+">>) = 0
      BY OneSign
    <2> QED BY <2>1, <2>2, <2>3, NoSign
  <1>3. CASE Len(s) = 2
    <2>1. PICK c \in {"+", "-"} : s[2] = c
      BY <1>3, ElementsOf, LenProperties
    <2>2. s = <<"+", c>>
      BY <1>1, <1>3, <2>1
    <2>3. Tail(<<"+", c>>) = <<c>>
      OBVIOUS
    <2> QED BY <2>2, <2>3, PlusSign
  <1> QED BY <1>1, <1>2, <1>3

\* what getToken() keeps of a number that it takes for a constant
LEMMA KeptNumber ==
  ASSUME NEW t \in Number
  PROVE  /\ Kept(t).kind = "number" /\ Kept(t).whole = t.whole /\ Kept(t).behind = t.behind
         /\ Kept(t).signs \in Seq({"+", "-"})
         /\ Len(t.signs) <= 1 => Len(Kept(t).signs) <= 1
         /\ Len(Kept(t).signs) <= 1 => Sign(Kept(t)) = Sign(t)
  <1>1. CASE t.signs # <<>> /\ Head(t.signs) = "+"
    <2>1. Kept(t) = [t EXCEPT !.signs = Tail(@)]
      BY <1>1 DEF Kept
    <2>2. t.signs \in Seq({"+", "-"}) /\ Kept(t).signs = Tail(t.signs)
      BY <2>1 DEF Number
    <2>3. Kept(t).kind = "number" /\ Kept(t).whole = t.whole /\ Kept(t).behind = t.behind
      BY <2>1 DEF Number
    <2>4. Tail(t.signs) \in Seq({"+", "-"}) /\ Len(Tail(t.signs)) = Len(t.signs) - 1
      BY <1>1, <2>2
    <2>5. Len(Tail(t.signs)) <= 1 => Dashes(Tail(t.signs)) = Dashes(t.signs)
      BY <1>1, <2>2, <2>4, PlusDropped
    <2> QED BY <2>2, <2>3, <2>4, <2>5 DEF Sign
  <1>2. CASE ~ (t.signs # <<>> /\ Head(t.signs) = "+")
    <2>1. Kept(t) = t
      BY <1>2 DEF Kept
    <2> QED BY <2>1 DEF Number
  <1> QED BY <1>1, <1>2
\* what is read is not what was there before
LEMMA TokenIsRead == ASSUME text \in Texts PROVE GetToken # Unread
  <1>1. CASE text.kind = "number"
    <2>1. Kept(text).kind = "number"
      BY <1>1, TextIsNumber, KeptNumber
    <2> QED BY <1>1, <2>1 DEF GetToken, Unread, Refused
  <1>2. CASE text.kind # "number"
    BY <1>2 DEF GetToken, Unread, Refused
  <1> QED BY <1>1, <1>2

\* it is what the steps keep
LEMMA LiteralInvAlways == LiteralSpec => []LiteralInv
  <1>1. LiteralInit => LiteralInv
    BY DEF LiteralInit, LiteralInv
  <1>2. ASSUME LiteralInv, [LiteralNext]_literalVars PROVE LiteralInv'
    <2>1. CASE Read
      <3>1. asked = <<>> /\ answer = "none"
        BY <1>2, <2>1, TokenIsRead DEF LiteralInv, Asked, Read
      <3>2. GetToken' = GetToken
        BY <2>1 DEF Read, GetToken, Kept, BeginsNumber
      <3> QED BY <1>2, <2>1, <3>1, <3>2 DEF Read, LiteralInv
    <2>2. CASE ReflectedCompare
      <3>1. GetToken' = GetToken
        BY <2>2 DEF ReflectedCompare, GetToken, Kept, BeginsNumber
      <3>2. token = GetToken /\ token # Refused /\ UNCHANGED <<text, token>>
        BY <1>2, <2>2 DEF LiteralInv, ReflectedCompare
      <3>3. PICK f \in Fields, r \in Relation :
              /\ asked' = [field |-> f, relation |-> r]
              /\ answer' = IF EndingOf(f, token) # "answered" THEN EndingOf(f, token)
                           ELSE IF Compare(r, f.value, FromString(f.type, token)) THEN "yes" ELSE "no"
        BY <2>2 DEF ReflectedCompare
      <3>4. Asked(f, r)'
        BY <3>1, <3>2, <3>3 DEF Asked
      <3> QED BY <1>2, <3>1, <3>2, <3>4 DEF LiteralInv
    <2>3. CASE UNCHANGED literalVars
      BY <1>2, <2>3 DEF literalVars, LiteralInv, Asked, GetToken, Kept, BeginsNumber
    <2> QED BY <1>2, <2>1, <2>2, <2>3 DEF LiteralNext
  <1> QED BY <1>1, <1>2, PTL DEF LiteralSpec

\* powers of two are positive
LEMMA PowerOfTwo == ASSUME NEW k \in Nat PROVE 2^k \in Nat \ {0}
  <1> DEFINE S == 1..k
  <1>1. IsFiniteSet(S) /\ Cardinality(S) = k
    <2>1. IsFiniteSet(1..k) /\ Cardinality(1..k) = IF 1 > k THEN 0 ELSE k - 1 + 1
      BY FS_Interval
    <2> QED BY <2>1
  <1> HIDE DEF S
  <1>2. IsFiniteSet(SUBSET S) /\ Cardinality(SUBSET S) = 2^k
    BY <1>1, FS_SUBSET
  <1>3. SUBSET S # {}
    OBVIOUS
  <1>4. Cardinality(SUBSET S) \in Nat /\ Cardinality(SUBSET S) # 0
    BY <1>2, <1>3, FS_CardinalityType, FS_EmptySet
  <1> QED BY <1>2, <1>4

\* a number below the modulus is its own remainder
LEMMA OwnRemainder == ASSUME NEW m \in Nat \ {0}, NEW x \in 0..m - 1 PROVE x % m = x
  OBVIOUS

\* a value of the type survives its conversion from long
LEMMA NarrowedIsSame ==
  ASSUME NEW type \in IntegerType, NEW x \in RangeOf(type)
  PROVE  Narrowed(type, x) = x /\ x \in Int
  <1>0. IntBits \in Nat \ {0} /\ LongBits \in Nat \ {0} /\ IntBits - 1 \in Nat /\ LongBits - 1 \in Nat
    BY LiteralAssumption
  <1>1. CASE type = "int64"
    <2>1. PICK h \in Nat \ {0} : h = 2^(LongBits - 1)
      BY <1>0, PowerOfTwo
    <2>2. x \in -h..h - 1
      BY <1>1, <2>1 DEF RangeOf
    <2> QED BY <1>1, <2>2 DEF Narrowed
  <1>2. CASE type = "uint64"
    <2>1. PICK m \in Nat \ {0} : m = 2^LongBits
      BY <1>0, PowerOfTwo
    <2>2. x \in 0..m - 1
      BY <1>2, <2>1 DEF RangeOf
    <2>3. Narrowed(type, x) = x % m
      BY <1>2, <2>1 DEF Narrowed
    <2> QED BY <2>2, <2>3, OwnRemainder
  <1>3. CASE type = "uint32"
    <2>1. PICK m \in Nat \ {0} : m = 2^IntBits
      BY <1>0, PowerOfTwo
    <2>2. x \in 0..m - 1
      BY <1>3, <2>1 DEF RangeOf
    <2>3. Narrowed(type, x) = x % m
      BY <1>3, <2>1 DEF Narrowed
    <2> QED BY <2>2, <2>3, OwnRemainder
  <1>4. CASE type = "int32"
    <2>1. PICK h \in Nat \ {0} : h = IntHalf
      BY <1>0, PowerOfTwo DEF IntHalf
    <2>2. x \in -h..h - 1
      BY <1>4, <2>1 DEF RangeOf, IntHalf
    <2>3. Narrowed(type, x) = ((x + h) % (2 * h)) - h
      BY <1>4, <2>1 DEF Narrowed
    <2>4. 2 * h \in Nat \ {0} /\ x + h \in 0..2 * h - 1
      BY <2>2
    <2>5. (x + h) % (2 * h) = x + h
      BY <2>4, OwnRemainder
    <2> QED BY <2>2, <2>3, <2>5
  <1> QED BY <1>1, <1>2, <1>3, <1>4 DEF IntegerType

\* what stands for no digits counts as none
LEMMA DigitsCount ==
  ASSUME NEW t \in Number
  PROVE  /\ Digits(t.whole) \in Nat /\ Digits(t.behind) \in {0, 1}
         /\ t.behind # 1 => Digits(t.behind) = 0
         /\ Sign(t) \in {1, -1}
  BY DEF Number, Digit, Digits, Sign

\* a comparison with an answer has the number that was written
LEMMA NumberAnswered ==
  ASSUME text \in Texts, text.kind = "number",
         NEW f \in Fields, NEW r \in Relation, Asked(f, r),
         answer \in {"yes", "no"}, IsOf(text, f.type)
  PROVE  answer = "yes" <=> Compare(r, f.value, Halves(text))
  <1>1. text \in Number
    BY TextIsNumber
  <1>2. token = Kept(text)
    BY DEF Asked, GetToken
  <1> DEFINE ended == EndingOf(f, token)
  <1>3. ended = "answered"
    <2>1. ended \in {"answered", "aborted", "thrown"}
      BY DEF EndingOf, Ending
    <2> HIDE DEF ended
    <2>2. ended # "answered" => answer = ended
      BY DEF Asked, ended
    <2> QED BY <2>1, <2>2
  <1>4. f.type \in IntegerType \cup RealType /\ f.type # "string" /\ Readable(f.type, token)
    BY <1>3 DEF EndingOf, Ending, IsOf, IntegerType, RealType
  <1>5. /\ token.whole = text.whole /\ token.behind = text.behind
        /\ Len(token.signs) <= 1
    BY <1>1, <1>2, <1>4, KeptNumber DEF Readable
  <1>6. Sign(token) = Sign(text)
    BY <1>1, <1>2, <1>5, KeptNumber
  <1>7. Whole(token) = Whole(text) /\ Halves(token) = Halves(text)
    BY <1>5, <1>6 DEF Whole, Halves
  <1>8. FromString(f.type, token) = Halves(text)
    <2>1. CASE f.type \in RealType
      BY <1>4, <1>7, <2>1 DEF FromString
    <2>2. CASE f.type \notin RealType
      <3>1. f.type \in IntegerType /\ text.behind # 1 /\ Whole(text) \in RangeOf(f.type)
        BY <2>2 DEF IsOf
      <3>2. FromString(f.type, token) = 2 * Narrowed(f.type, Whole(text))
        BY <1>4, <1>7, <2>2 DEF FromString
      <3>3. Narrowed(f.type, Whole(text)) = Whole(text)
        BY <3>1, NarrowedIsSame
      <3>4. Halves(text) = Sign(text) * (2 * Digits(text.whole) + 0)
        BY <1>1, <3>1, DigitsCount DEF Halves
      <3>5. Digits(text.whole) \in Nat /\ Sign(text) \in {1, -1}
        BY <1>1, DigitsCount
      <3>6. 2 * Whole(text) = Halves(text)
        BY <3>4, <3>5 DEF Whole
      <3> QED BY <3>2, <3>3, <3>6
    <2> QED BY <2>1, <2>2
  <1>9. answer = IF Compare(r, f.value, FromString(f.type, token)) THEN "yes" ELSE "no"
    BY <1>3 DEF Asked
  <1>10. answer = IF Compare(r, f.value, Halves(text)) THEN "yes" ELSE "no"
    BY <1>8, <1>9
  <1> QED BY <1>10, Zenon

(* For integers of every width and for every text: a comparison that ends   *)
(* with an answer has the right one, if the number is a value of the        *)
(* field's type (graphdsl.cpp:113-186, reflection.hpp:81-199).              *)
THEOREM AnswersAlwaysExact == LiteralSpec => []AnswersExact
  <1>1. ASSUME LiteralInv PROVE AnswersExact
    <2> SUFFICES ASSUME answer \in {"yes", "no"}, text.kind = "number", IsOf(text, asked.field.type)
                 PROVE  answer = "yes" <=> Compare(asked.relation, asked.field.value, Halves(text))
      BY DEF AnswersExact
    <2>1. text \in Texts
      BY <1>1 DEF LiteralInv
    <2>2. PICK f \in Fields, r \in Relation : Asked(f, r)
      BY <1>1 DEF LiteralInv
    <2>3. asked.field = f /\ asked.relation = r
      BY <2>2 DEF Asked
    <2> QED BY <2>1, <2>2, <2>3, NumberAnswered
  <1> QED BY <1>1, LiteralInvAlways, PTL

\* a number with one dot and one sign at most is taken for a constant
LEMMA NumberIsTaken ==
  ASSUME text \in Texts, text.kind = "number", text.whole # NoDigits, text.dots < 2, Len(text.signs) < 2
  PROVE  /\ GetToken = Kept(text) /\ GetToken # Refused
         /\ GetToken.kind = "number" /\ GetToken.whole = text.whole
         /\ Len(GetToken.signs) <= 1 /\ Sign(GetToken) = Sign(text)
  <1>1. text \in Number
    BY TextIsNumber
  <1>2. Len(text.signs) \in Nat /\ ~ (Len(text.signs) > 1) /\ Len(text.signs) <= 1
    BY <1>1 DEF Number
  <1>3. BeginsNumber(text)
    BY <1>2 DEF BeginsNumber
  <1>4. GetToken = Kept(text)
    BY <1>3 DEF GetToken
  <1>5. /\ Kept(text).kind = "number" /\ Kept(text).whole = text.whole
        /\ Len(Kept(text).signs) <= 1
    BY <1>1, <1>2, KeptNumber
  <1>6. Sign(Kept(text)) = Sign(text)
    BY <1>1, <1>5, KeptNumber
  <1>7. Kept(text) # Refused
    BY <1>5 DEF Refused
  <1> QED BY <1>4, <1>5, <1>6, <1>7

(* A number with digits before a dot, at most one dot and at most one sign  *)
(* is never refused, and a comparison with a required field that could hold *)
(* it, and that long can, ends with an answer, for integers of every width  *)
(* (graphdsl.cpp:113-186, reflection.hpp:24-36, 127-199).                   *)
THEOREM NumbersAlwaysAnswered == LiteralSpec => []NumbersAreAnswered
  <1>1. ASSUME LiteralInv PROVE NumbersAreAnswered
    <2> SUFFICES ASSUME text.kind = "number", text.whole # NoDigits, text.dots < 2, Len(text.signs) < 2
                 PROVE  /\ token # Refused
                        /\ (asked # <<>> /\ asked.field.required /\ IsOf(text, asked.field.type)
                              /\ (asked.field.type \in IntegerType => InLong(Whole(text)))) =>
                             answer \in {"yes", "no"}
      BY DEF NumbersAreAnswered
    <2>1. text \in Texts /\ token \in {Unread, GetToken}
      BY <1>1 DEF LiteralInv
    <2>2. token # Refused
      BY <2>1, NumberIsTaken DEF Unread, Refused
    <2> SUFFICES ASSUME asked # <<>>, asked.field.required, IsOf(text, asked.field.type),
                        asked.field.type \in IntegerType => InLong(Whole(text))
                 PROVE  answer \in {"yes", "no"}
      BY <2>2
    <2>3. PICK f \in Fields, r \in Relation : Asked(f, r)
      BY <1>1 DEF LiteralInv
    <2>4. asked.field = f /\ token = GetToken
      BY <2>3 DEF Asked
    <2>5. /\ token.kind = "number" /\ token.whole # NoDigits
          /\ Len(token.signs) <= 1 /\ Whole(token) = Whole(text)
      BY <2>1, <2>4, NumberIsTaken DEF Whole
    <2>6. f.type \in IntegerType \cup RealType /\ f.type # "string"
      BY <2>4 DEF IsOf, IntegerType, RealType
    <2>7. Readable(f.type, token)
      BY <2>4, <2>5, <2>6 DEF Readable
    <2>8. EndingOf(f, token) = "answered"
      BY <2>4, <2>5, <2>6, <2>7 DEF EndingOf, Ending
    <2> QED BY <2>3, <2>8 DEF Asked
  <1> QED BY <1>1, LiteralInvAlways, PTL
=============================================================================
