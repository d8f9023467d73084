----------------------------- MODULE MCStorage -----------------------------
(* Instances of the storage small enough for TLC.                          *)
EXTENDS MapBasedGlobalLockImpl, TLC

MCKeySize == [k \in Key |-> 1]

(* "a" and "b" are two short values, "c" a long one that still fits and "d"  *)
(* one that is larger than the storage.                                      *)
MCValueSize ==
  [v \in Value |-> CASE v \in {"a", "b"} -> 1 [] v = "c" -> 3 [] v = "d" -> 9]

(* Low enough for every drift that two overwrites of each key can cause.    *)
MCCounterFloor == -4

Symmetry == Permutations(Key)
=============================================================================
