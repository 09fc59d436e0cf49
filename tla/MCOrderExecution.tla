-------------------------- MODULE MCOrderExecution --------------------------
(* Small instances of OrderExecution for TLC. *)
EXTENDS OrderExecution, TLC

CONSTANTS k1, k2

\* k1 can be partly filled, k2 cannot; together they exceed the cap of 2.
MCNotional == [k \in Keys |-> IF k = k1 THEN 2 ELSE 1]

TaskSymmetry == Permutations(Tasks)
=============================================================================
