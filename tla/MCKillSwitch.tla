----------------------------- MODULE MCKillSwitch -----------------------------
(* Small instances of KillSwitch for TLC. *)
EXTENDS KillSwitch

CONSTANTS b1, s1, s2

\* The order of the other client is of a symbol of its own.
MCSymbolOf == [o \in Orders |-> IF o = b1 THEN s2 ELSE s1]
=============================================================================
