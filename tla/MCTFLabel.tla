------------------------------ MODULE MCTFLabel ------------------------------
(* The graphs TFLabel is checked with.                                     *)
EXTENDS TFLabelConstruct

\* lists of up to three edges, with loops and parallel ones, in any order
lists == UNION {[1..n -> {2, 5, 9} \X {2, 5, 9}] : n \in 1..3}

\* every graph on four nodes without them
pairs == SelectSeq([i \in 1..16 |-> <<(i - 1) \div 4, (i - 1) % 4>>], LAMBDA e : e[1] # e[2])
simple == {SelectSeq(pairs, LAMBDA e : e \in E) : E \in SUBSET Range(pairs) \ {{}}}

\* a cycle with a way out, and a chain with a shortcut
laterFiles == {<<<<0, 1>>, <<1, 0>>, <<1, 2>>, <<2, 3>>>>, <<<<0, 1>>, <<0, 2>>, <<1, 2>>, <<2, 3>>>>}

\* seven levels: a chain with two ends, with two beginnings and numbered
\* backwards, and one that forks and closes again
chain == [i \in 1..6 |-> <<i, i + 1>>]
deep == {chain \o <<<<4, 8>>>>, [i \in 1..6 |-> <<8 - i, 7 - i>>] \o <<<<8, 3>>>>,
         chain \o <<<<2, 8>>, <<8, 4>>>>}

allFiles == lists \cup simple \cup deep

\* the order of the keys of numbers of one digit
digits == 0..9
digitOrder == {p \in digits \X digits : p[1] < p[2]}
=============================================================================
