-------------------------- MODULE MCAdapterLauncher --------------------------
(* A small instance of AdapterLauncher for TLC. *)
EXTENDS AdapterLauncher
=============================================================================
