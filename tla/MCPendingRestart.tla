-------------------------- MODULE MCPendingRestart --------------------------
(* Constants for model-checking PendingRestart. *)
EXTENDS PendingRestart

CONSTANTS s1, s2, a1, a2

\* What the violation needs.
RestartOps == {"save", "restart"}

NoFault == {}
AllFaults == {"error", "timeout", "crash"}
=============================================================================
