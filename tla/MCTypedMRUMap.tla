--------------------------- MODULE MCTypedMRUMap ----------------------------
(* A small instance of TypedMRUMap. *)
EXTENDS TypedMRUMap

CONSTANTS k1, k2, k3, v1, v2

ThreeKeys == {k1, k2, k3}
TwoValues == {v1, v2}
=============================================================================
