----------------------------- MODULE MCCommands -----------------------------
(* Instances of Commands for TLC. *)
EXTENDS Commands, TLC

CONSTANTS a, b, k1, k2

Tags(n) == UNION {[1..i -> {a, b}] : i \in 0..n}

MCValue == Tags(MaxSize)
MCValueSize == [v \in MCValue |-> Len(v)]
MCKeySize == [k \in Key |-> 1]
MCCounterFloor == -4
MCArgs == {<<a>>, <<b>>}
MCArg == {<<a>>}
MCGetKeys == {<<k2, k1>>}

Symmetry == Permutations(Client)
=============================================================================
