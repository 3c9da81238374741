---------------------------- MODULE MCMailboxes ----------------------------
(* Constants for model-checking Mailboxes. *)
EXTENDS Mailboxes, TLC

CONSTANTS s1, s2, a1, a2, p1, p2, q1, q2

Symmetry == Permutations(Slots) \cup Permutations(Addrs) \cup
            Permutations(Passwords) \cup Permutations(Quotas)

NoFault == {}
=============================================================================
