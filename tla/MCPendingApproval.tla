-------------------------- MODULE MCPendingApproval --------------------------
(* A small instance of PendingApproval for TLC. *)
EXTENDS PendingApproval, TLC

MCCooldown == [a \in Alerts |-> 2]

\* Evaluators and approvers are interchangeable; no liveness is checked.
MCSymmetry == Permutations(Evaluators) \cup Permutations(Approvers)
=============================================================================
