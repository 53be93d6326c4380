----------------------------- MODULE CacheSpec ------------------------------
(***************************************************************************)
(* The recency cache as a state machine: the specification that module     *)
(* TypedMRUMap implements.                                                 *)
(***************************************************************************)
EXTENDS RecencyCache

CONSTANTS Key, Value

VARIABLE cache

Init == cache = EmptyCache

Next ==
  \/ \E k \in Key : cache' = Find(cache, k)
  \/ \E k \in Key, v \in Value : cache' = Insert(cache, k, v)
  \/ \E k \in Key, v \in Value : cache' = Assign(cache, k, v)
=============================================================================
