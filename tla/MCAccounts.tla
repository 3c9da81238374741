----------------------------- MODULE MCAccounts -----------------------------
(* Constants for model-checking Accounts. *)
EXTENDS Accounts, TLC

CONSTANTS s1, s2

\* Requests in different slots differ only in the slot's name.
SlotSymmetry == Permutations(Slots)

\* Operations that make and unmake what an account owns.
OwnerOps == {"create_user", "delete_user", "create_group", "add_members",
             "create_pat", "oidc_sign_in", "seed"}

\* The shortest set that makes two administrators and removes them.
DemoteOps == {"seed", "create_user", "create_group", "add_members",
              "deactivate"}

AdminOnly == {"admin"}
AnyRole == {"guest", "admin"}
=============================================================================
