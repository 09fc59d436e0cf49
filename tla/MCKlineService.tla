--------------------------- MODULE MCKlineService ---------------------------
(* A small instance of KlineService for TLC. *)
EXTENDS KlineService
=============================================================================
