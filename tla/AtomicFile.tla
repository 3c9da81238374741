----------------------------- MODULE AtomicFile -----------------------------
(***************************************************************************)
(* What the services that edit docker-mailserver's configuration assume of *)
(* a file: a call reads, replaces or deletes it at one instant between its *)
(* start and its answer.                                                   *)
(***************************************************************************)
CONSTANTS
    Calls,   \* calls that can be in progress together
    Docs,    \* documents
    NoDoc    \* the file is absent

VARIABLES
    value,   \* the document in the file
    call     \* each call: what it asks, whether it happened, what it saw

vars == <<value, call>>

Unused == [op |-> "none", doc |-> NoDoc, at |-> "idle", saw |-> NoDoc]

Begin(c) ==
    /\ call[c].at # "called"
    /\ \E op \in {"read", "write", "delete"}, d \in Docs \cup {NoDoc} :
         /\ (op = "write") = (d # NoDoc)
         /\ call' = [call EXCEPT ![c] = [op |-> op, doc |-> d, at |-> "called",
                                         saw |-> NoDoc]]
    /\ UNCHANGED value

Happen(c) ==
    /\ call[c].at = "called"
    /\ value' = CASE call[c].op = "read"   -> value
                  [] call[c].op = "write"  -> call[c].doc
                  [] call[c].op = "delete" -> NoDoc
    /\ call' = [call EXCEPT ![c].at = "done",
                  ![c].saw = IF call[c].op = "read" THEN value ELSE NoDoc]

\* The client of a read stops waiting for it.
Forget(c) ==
    /\ call[c].op = "read"
    /\ call' = [call EXCEPT ![c] = Unused]
    /\ UNCHANGED value

Init ==
    /\ value = NoDoc
    /\ call = [c \in Calls |-> Unused]

Next == \E c \in Calls : Begin(c) \/ Happen(c) \/ Forget(c)

Spec == Init /\ [][Next]_vars
=============================================================================
