---------------------------- MODULE MCConfigDir ----------------------------
(***************************************************************************)
(* Two services that keep their data in files of docker-mailserver's       *)
(* config directory, each on its own: a behaviour is one of the mailboxes  *)
(* or one of the DKIM keys.  They share no file.                           *)
(***************************************************************************)
EXTENDS Mailboxes, Dkim, TLC

CONSTANTS s1, a1, a2, p1, p2, q1, q2, m1, m2

Symmetry == Permutations(Addrs) \cup Permutations(Passwords) \cup
            Permutations(Quotas) \cup Permutations(Migrations)

AllFaults == {"error", "timeout"}

\* Two domains with a selector each.
OneEach == (1 :> "d1") @@ (2 :> "d2")

\* What a behaviour of the mailboxes says of the keys.
NoKeys ==
    /\ signer = "none" /\ open = {} /\ conf = NoConf /\ abandoned = {}
    /\ private = [k \in Keys |-> "none"] /\ public = private
    /\ job = [m \in Migrations |-> NoJob]

OnKeys == signer # "none"

MCInit == Init /\ (NoKeys \/ DkimInit)

MCNext ==
    \/ OnKeys /\ DkimNext /\ UNCHANGED vars
    \/ ~OnKeys /\ Next /\ UNCHANGED dkimVars

MCSpec == MCInit /\ [][MCNext]_<<vars, dkimVars>>

\* The types of the part that runs.
TypesOK == TypeOK /\ (OnKeys => DkimTypeOK)
=============================================================================
