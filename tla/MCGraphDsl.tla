----------------------------- MODULE MCGraphDsl -----------------------------
(* The sentences of the query language, as the comments and the messages of *)
(* the parser describe them, to compare it with.                            *)
EXTENDS GraphDsl, MCLiterals, SequencesExt

\* what is written, and what it stands for
Piece(t, v) == [text |-> t, value |-> v]
Short(pieces, n) == {p \in pieces : Len(p.text) <= n}
Joined(P, Q) ==
  UNION {{Piece(p.text \o q.text, p.value \o q.value) :
            q \in {r \in Q : Len(p.text) + Len(r.text) <= MaxTokens}} : p \in P}

Nothing == {Piece(<<>>, <<>>)}
PropertyText ==
  {Piece(<<name, op, c>>, <<<<name, op, c>>>>) : name \in Name, op \in Op, c \in Constant}
RECURSIVE UpTo(_)
UpTo(n) == IF n = 0 THEN Nothing ELSE Nothing \cup Joined(PropertyText, UpTo(n - 1))
Properties == UpTo(MaxTokens \div 3)

\* what stands between brackets: an id, properties, both or nothing
Contents ==
  {Piece(p.text, [id |-> NoName, properties |-> p.value]) : p \in Properties}
    \cup {Piece(<<id>> \o p.text, [id |-> id, properties |-> p.value]) : id \in Id, p \in Properties}

NodeText == {Piece(<<"(">> \o c.text \o <<")">>, <<c.value>>) : c \in Contents}

\* --[>] or -[props]-[>] (graphdsl.cpp:370), or with the arrowhead on the left
EdgeText ==
  LET bodies == {Piece(<<"-", "-">>, NoElement)}
                  \cup {Piece(<<"-", "[">> \o c.text \o <<"]", "-">>, c.value) : c \in Contents}
      With(c, direction) ==
        <<[id |-> c.id, properties |-> c.properties, direction |-> direction]>>
  IN  {Piece(b.text, With(b.value, "bidirection")) : b \in bodies}
        \cup {Piece(<<"<">> \o b.text, With(b.value, "prev")) : b \in bodies}
        \cup {Piece(b.text \o <<">">>, With(b.value, "next")) : b \in bodies}

\* node, edge, node, ...; their values alternate in one sequence
RECURSIVE Chains(_)
Chains(n) ==
  IF n = 1 THEN Short(NodeText, MaxTokens - 3)
  ELSE Short(Joined(Joined(Chains(n - 1), EdgeText), NodeText), MaxTokens - 3)

Odd(s) == [i \in 1..(Len(s) + 1) \div 2 |-> s[2 * i - 1]]
Even(s) == [i \in 1..Len(s) \div 2 |-> s[2 * i]]

\* "Only node or edge id could appear in return sentence" (graphdsl.cpp:479)
RECURSIVE MoreNames(_, _)
MoreNames(ids, n) ==
  IF n < 2 THEN Nothing
  ELSE Nothing \cup {Piece(<<",", id>> \o p.text, <<id>> \o p.value) : id \in ids, p \in MoreNames(ids, n - 2)}

Sentences ==
  UNION {LET ids == {c.value[i].id : i \in DOMAIN c.value} \ {NoName}
         IN  {[text |-> <<"select">> \o c.text \o <<"return", name>> \o p.text,
               nodes |-> Odd(c.value), edges |-> Even(c.value), returnName |-> <<name>> \o p.value] :
                name \in ids, p \in MoreNames(ids, MaxTokens - 3 - Len(c.text))} :
         c \in UNION {Chains(n) : n \in 1..(MaxTokens - 2) \div 3}}

SentenceTexts == {s.text : s \in Sentences}
Beginnings == UNION {{SubSeq(t, 1, n) : n \in 0..Len(t)} : t \in SentenceTexts}

\* what has been read, as it was understood
Understood == [text |-> read, nodes |-> nodes, edges |-> edges, returnName |-> returnName]

(* The parser accepts only sentences of the language.  The run              *)
(* query_language_more violates it: the first returned name is not looked   *)
(* up (graphdsl.cpp:464-470), whatever the message at :479 says, and a      *)
(* single dash is taken for an edge (:377-394), which the comments at :370  *)
(* and :374 do not list.                                                    *)
AcceptsOnlySentences == at = "accepted" => Understood \in Sentences

\* the two liberties of the parser
ReturnsWhatIsNamed == \A i \in DOMAIN returnName : returnName[i] \in ElementIds
TwoDashesAnEdge == Len(SelectSeq(read, LAMBDA t : t = "-")) = 2 * Len(edges)

(* These two are all that the parser accepts beyond the language, and a     *)
(* sentence is understood as what it says: pushing names back, falling      *)
(* through and the pieces it drops lose or invent nothing                   *)
(* (graphdsl.cpp:308-407, 421-483).                                         *)
UnderstandsSentences ==
  (at = "accepted" /\ ReturnsWhatIsNamed /\ TwoDashesAnEdge) => Understood \in Sentences

(* The parser refuses a text, or reads the front of an empty queue, only at *)
(* a token with which no sentence goes on: no sentence is refused, whatever *)
(* name, arrow or bracket has to be told apart by the token behind it, and  *)
(* none meets undefined behaviour (graphdsl.cpp:308-464).                   *)
RefusesNoSentence ==
  at \in {"rejected", "undefined"} =>
    IF ahead = End THEN read \notin SentenceTexts ELSE Append(read, ahead) \notin Beginnings
-----------------------------------------------------------------------------
(* One run for the parser and for the literals of module Literals.  The two  *)
(* share nothing: a behaviour has a text that is parsed or a literal that is *)
(* compared, and the other one is over from the beginning.                   *)
NoParse ==
  /\ read = <<>> /\ ahead = End /\ at = "rejected"
  /\ inside = "node" /\ element = NoElement /\ held = <<>> /\ leftDir = FALSE
  /\ nodes = <<>> /\ edges = <<>> /\ returnName = <<>>
NoLiteral == text = [kind |-> "word"] /\ token = Refused /\ asked = <<>> /\ answer = "none"

TextInit == (ParseInit /\ NoLiteral) \/ (LiteralInit /\ NoParse)
Parsing == ParseNext /\ UNCHANGED literalVars
Comparing == LiteralNext /\ UNCHANGED parseVars

TextSpec == TextInit /\ [][Parsing \/ Comparing]_<<parseVars, literalVars>> /\ WF_parseVars(Parsing)
=============================================================================
