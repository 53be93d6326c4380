------------------------------ MODULE Literals ------------------------------
(* A literal of a query on its way from the text (getToken() and           *)
(* getNumber(), src/src/graphdsl.cpp:96-245) to the comparison with a field *)
(* of a record (reflectedCompare(), src/include/reflection.hpp).  A number  *)
(* is its signs, its digits before a dot, its dots and what is behind one:  *)
(* nothing, 0 or 5; values are counted in halves.                           *)
EXTENDS Integers, Sequences, FiniteSets

CONSTANTS
  Texts,     \* what may stand behind a relation
  Fields,    \* the fields it is compared with: type, value, label
  IntBits,   \* 32
  LongBits,  \* 64
  NoDigits

Relation == {"equal", "smaller", "greater"}
IntegerType == {"int32", "uint32", "int64", "uint64"}
RealType == {"float", "double"}
Type == IntegerType \cup RealType \cup {"bool", "string", "message", "enum"}

ASSUME LiteralAssumption ==
  /\ {IntBits, LongBits} \subseteq Nat \ {0} /\ IntBits <= LongBits
  /\ \A t \in Texts :
       \/ /\ t \in [kind : {"number"}, signs : Seq({"+", "-"}), dots : 0..2,
                   whole : Nat \cup {NoDigits}, behind : {NoDigits, 0, 1}]
          /\ t.dots = 0 => t.behind = NoDigits
       \/ t.kind = "string" /\ t.closed \in BOOLEAN
       \/ t.kind = "word"
  /\ \A f \in Fields : f.type \in Type /\ f.required \in BOOLEAN

VARIABLES
  text,    \* the characters of the literal
  token,   \* what getToken() makes of them
  asked,   \* the last comparison
  answer   \* its result, or how it ended

literalVars == <<text, token, asked, answer>>

Unread == [kind |-> "unread"]
Refused == [kind |-> "refused"]  \* by an exception, here or from the parser
Digits(n) == IF n = NoDigits THEN 0 ELSE n

LiteralInit == text \in Texts /\ token = Unread /\ asked = <<>> /\ answer = "none"

-----------------------------------------------------------------------------
(* getToken()                                                                *)

\* its cases for the first character, or the first two of them
BeginsNumber(t) ==
  IF t.signs = <<>> THEN t.whole # NoDigits
  ELSE IF Head(t.signs) = "+" THEN TRUE
  ELSE IF Len(t.signs) > 1 THEN t.signs[2] = "+"
  ELSE t.whole # NoDigits \/ t.dots > 0

\* a leading + is taken before getNumber() and not given back
Kept(t) == IF t.signs # <<>> /\ Head(t.signs) = "+" THEN [t EXCEPT !.signs = Tail(@)] ELSE t

\* a mutation of GetToken: a sign has to be followed by a digit
GetTokenStrictly ==
  IF text.kind = "number" /\ text.whole # NoDigits /\ text.signs = <<>> /\ text.dots < 2 THEN Kept(text)
  ELSE IF text.kind = "string" /\ text.closed THEN text
  ELSE Refused

\* a dash, a word and a third character are no constants; a string without
\* an end takes the rest of the sentence
GetToken ==
  IF text.kind = "number" /\ BeginsNumber(text) /\ text.dots < 2 THEN Kept(text)
  ELSE IF text.kind = "string" /\ text.closed THEN text
  ELSE Refused

Read ==
  /\ token = Unread
  /\ token' = GetToken
  /\ UNCHANGED <<text, asked, answer>>

-----------------------------------------------------------------------------
(* reflectedCompare()                                                        *)

Dashes(signs) == Cardinality({i \in DOMAIN signs : signs[i] = "-"})
Sign(n) == IF Dashes(n.signs) % 2 = 1 THEN -1 ELSE 1
Whole(n) == Sign(n) * Digits(n.whole)
Halves(n) == Sign(n) * (2 * Digits(n.whole) + Digits(n.behind))

LongMax == 2^(LongBits - 1) - 1
InLong(x) == x \in -LongMax - 1..LongMax

\* strtod() and stol() read one sign; what they have not read is ignored
Readable(type, n) ==
  /\ Len(n.signs) <= 1
  /\ IF type \in RealType THEN n.whole # NoDigits \/ n.behind # NoDigits
     ELSE n.whole # NoDigits /\ InLong(Whole(n))

\* how from_string() ends: no constant spells a bool, since a string keeps
\* its quotes, which from_string<string>() asserts
Ending(type, constant) ==
  IF type = "string" THEN IF constant.kind = "string" THEN "answered" ELSE "aborted"
  ELSE IF /\ type \in IntegerType \cup RealType
          /\ constant.kind = "number" /\ Readable(type, constant) THEN "answered"
  ELSE "thrown"

\* getFDPandRP() asserts that the field is a required one, before anything
\* is read
EndingOf(f, constant) == IF f.required THEN Ending(f.type, constant) ELSE "aborted"

\* a mutation of Narrowed: the sign of an int32 is lost
NarrowedUnsigned(type, x) == IF type = "int64" THEN x ELSE x % 2^(IF type = "uint64" THEN LongBits ELSE IntBits)

IntHalf == 2^(IntBits - 1)

\* stol() returns a long, which becomes what the field is
Narrowed(type, x) ==
  CASE type = "int64" -> x
    [] type = "uint64" -> x % 2^LongBits
    [] type = "uint32" -> x % 2^IntBits
    [] type = "int32" -> ((x + IntHalf) % (2 * IntHalf)) - IntHalf

FromString(type, constant) ==
  IF type = "string" THEN constant.content
  ELSE IF type \in RealType THEN Halves(constant)
  ELSE 2 * Narrowed(type, Whole(constant))

Compare(relation, x, y) ==
  CASE relation = "equal" -> x = y
    [] relation = "smaller" -> x < y
    [] relation = "greater" -> x > y

\* with the field of a record; nothing is kept from one record to the next
ReflectedCompare ==
  /\ token \notin {Unread, Refused}
  /\ answer = "none"
  /\ \E f \in Fields, r \in Relation :
       /\ asked' = [field |-> f, relation |-> r]
       /\ answer' = IF EndingOf(f, token) # "answered" THEN EndingOf(f, token)
                    ELSE IF Compare(r, f.value, FromString(f.type, token)) THEN "yes" ELSE "no"
  /\ UNCHANGED <<text, token>>

LiteralNext == Read \/ ReflectedCompare

LiteralSpec == LiteralInit /\ [][LiteralNext]_literalVars

-----------------------------------------------------------------------------
RangeOf(type) ==
  CASE type = "int32" -> -(2^(IntBits - 1))..2^(IntBits - 1) - 1
    [] type = "uint32" -> 0..2^IntBits - 1
    [] type = "int64" -> -(2^(LongBits - 1))..2^(LongBits - 1) - 1
    [] type = "uint64" -> 0..2^LongBits - 1

\* the literal is a value of the type
IsOf(n, type) ==
  type \in RealType \/ (type \in IntegerType /\ n.behind # 1 /\ Whole(n) \in RangeOf(type))

(* A comparison that ends with an answer has the right one, however the     *)
(* number was written and narrowed, if the number is a value of the field's *)
(* type (graphdsl.cpp:113-186, reflection.hpp:81-199).                      *)
AnswersExact ==
  (answer \in {"yes", "no"} /\ text.kind = "number" /\ IsOf(text, asked.field.type)) =>
    (answer = "yes" <=> Compare(asked.relation, asked.field.value, Halves(text)))

(* A number with digits before a dot, at most one dot and at most one sign  *)
(* is never refused, and a comparison with a required field that could hold *)
(* it, and that long can, ends with an answer (graphdsl.cpp:113-186;        *)
(* reflection.hpp:24-36, 127-199).                                          *)
NumbersAreAnswered ==
  (/\ text.kind = "number" /\ text.whole # NoDigits /\ text.dots < 2 /\ Len(text.signs) < 2) =>
    /\ token # Refused
    /\ (asked # <<>> /\ asked.field.required /\ IsOf(text, asked.field.type)
          /\ (asked.field.type \in IntegerType => InLong(Whole(text)))) => answer \in {"yes", "no"}
=============================================================================
