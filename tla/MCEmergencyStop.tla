--------------------------- MODULE MCEmergencyStop ---------------------------
(* A small instance of EmergencyStop for TLC. *)
EXTENDS EmergencyStop

CONSTANT s1

\* The orders of other clients share a symbol.
MCSymbolOf == [o \in Orders |-> s1]
=============================================================================
