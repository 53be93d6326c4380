----------------------------- MODULE MCLiterals -----------------------------
(* Literals of up to three signs and two dots, and fields of every type.     *)
EXTENDS Literals

None == -1

digits == {None} \cup 0..9
numbers ==
  {[kind |-> "number", signs |-> s, whole |-> w, dots |-> d, behind |-> b] :
     s \in UNION {[1..n -> {"+", "-"}] : n \in 0..3}, w \in digits, d \in 0..2, b \in {None, 0, 1}}
allTexts ==
  {n \in numbers : n.dots = 0 => n.behind = None}
    \cup {[kind |-> "string", closed |-> c, content |-> x] : c \in BOOLEAN, x \in 0..1}
    \cup {[kind |-> "word"]}

Of(type, values) == {[type |-> type, value |-> v, required |-> TRUE] : v \in values}

allFields ==
  UNION {Of(type, {2 * x : x \in RangeOf(type)}) : type \in IntegerType}
    \cup Of("double", -5..5) \cup Of("float", {-1, 0, 2, 3})
    \cup Of("string", 0..2) \cup Of("bool", 0..1) \cup Of("message", {0}) \cup Of("enum", {0})
    \cup [type : {"int32", "string"}, value : {0}, required : {FALSE}]
=============================================================================
