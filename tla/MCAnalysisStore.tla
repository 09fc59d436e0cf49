--------------------------- MODULE MCAnalysisStore ---------------------------
(* A small instance of AnalysisStore for TLC. *)
EXTENDS AnalysisStore

MCMinBar == [s \in Symbols |-> 2]
=============================================================================
