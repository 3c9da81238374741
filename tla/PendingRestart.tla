-------------------------- MODULE PendingRestart --------------------------
(***************************************************************************)
(* The settings that docker-mailserver reads only when its container       *)
(* starts, the pendingaction table that lists those changed since, and the *)
(* restart that applies them.                                              *)
(*                                                                         *)
(* Saving is a command in the container followed by two awaited SQL        *)
(* statements; restarting is a command that blocks a thread for as long as *)
(* the container takes, followed by a SELECT and a transaction.  Requests  *)
(* interleave at each of these points.                                     *)
(***************************************************************************)
EXTENDS Integers, FiniteSets

CONSTANTS
    Slots,    \* requests that can be in flight together
    Areas,    \* the keys of pending actions: "postfix-main", "sieve-before"...
    NoArea,   \* no area
    MaxId,    \* bound on pendingaction.id
    Ops,      \* the operations clients call
    Faults    \* what can go wrong: "error", "timeout", "crash"

AllOps == {"save", "set_sieve", "restart", "dismiss", "dismiss_all"}

ASSUME ConstantsOK ==
    /\ MaxId \in Nat /\ IsFiniteSet(Slots)
    /\ NoArea \notin Areas
    /\ Ops \subseteq AllOps
    /\ Faults \subseteq {"error", "timeout", "crash"}

Ids == 1 .. MaxId

VARIABLES
    stale,      \* areas saved since the container last started
    rows,       \* the pendingaction table: id -> key, NoArea for no row
    req         \* the request each slot serves

vars == <<stale, rows, req>>

Stages == {"idle", "write", "find", "mark", "reboot", "list", "clear"}

Request == [op : AllOps \cup {"none"}, at : Stages,
            area : Areas \cup {NoArea},
            seen : SUBSET Ids,     \* rows its SELECT returned
            ok : BOOLEAN,          \* once answered, whether it succeeded
            met : SUBSET AllOps]   \* history: the operations that overlapped it

Idle == [op |-> "none", at |-> "idle", area |-> NoArea, seen |-> {},
         ok |-> FALSE, met |-> {}]

TypeOK ==
    /\ stale \subseteq Areas
    /\ rows \in [Ids -> Areas \cup {NoArea}]
    /\ req \in [Slots -> Request]

-----------------------------------------------------------------------------

Rows == {i \in Ids : rows[i] # NoArea}
Listed == {rows[i] : i \in Rows}

\* SQLite gives a new row the largest id in use plus one.
NewId(i) == (\A j \in Rows : j < i) /\ (i = 1 \/ i - 1 \in Rows)

Go(s, r) == req' = [req EXCEPT ![s] = r]
Answer(s, ok) == Go(s, [Idle EXCEPT !.ok = ok])

\* A request is admitted: it overlaps those in flight, and they overlap it.
Admit(s, r) ==
    LET active == {t \in Slots : req[t].op # "none"}
    IN  req' = [t \in Slots |->
                  IF t = s
                  THEN [r EXCEPT !.met = {req[u].op : u \in active}]
                  ELSE IF t \in active
                       THEN [req[t] EXCEPT !.met = @ \cup {r.op}]
                       ELSE req[t]]

\* require_admin has let the caller in.
Arrive(s) ==
    /\ req[s].op = "none"
    /\ \/ /\ \A i \in Rows : i + Cardinality(Slots) <= MaxId   \* the bound
          /\ \E op \in Ops \cap {"save", "set_sieve"}, a \in Areas :
               Admit(s, [Idle EXCEPT !.op = op, !.at = "write", !.area = a])
       \/ /\ "restart" \in Ops
          /\ Admit(s, [Idle EXCEPT !.op = "restart", !.at = "reboot"])
       \/ /\ "dismiss" \in Ops
          /\ \E a \in Areas : Admit(s, [Idle EXCEPT !.op = "dismiss",
                                         !.at = "list", !.area = a])
       \/ /\ "dismiss_all" \in Ops
          /\ Admit(s, [Idle EXCEPT !.op = "dismiss_all", !.at = "list"])
    /\ UNCHANGED <<stale, rows>>

-----------------------------------------------------------------------------
(* Saving *)

\* The file is written.  A command that times out answers 502 although the
\* container runs it to its end.  The Sieve filter of a mailbox is saved by a
\* route of its own, which ends here.
Write(s) ==
    LET r == req[s]
    IN  /\ r.at = "write"
        /\ stale' = stale \cup {r.area}
        /\ \/ IF r.op = "save" THEN Go(s, [r EXCEPT !.at = "find"])
                               ELSE Answer(s, TRUE)
           \/ "timeout" \in Faults /\ Answer(s, FALSE)
        /\ UNCHANGED rows

\* Mutant: the keys of the rows are kept, not the rows.
FindRowKeys(s) ==
    LET r == req[s]
    IN  /\ r.at = "find"
        /\ Go(s, [r EXCEPT !.at = "mark", !.seen = Listed])
        /\ UNCHANGED <<stale, rows>>

\* mark_restart_required: SELECT.
FindRow(s) ==
    LET r == req[s]
    IN  /\ r.at = "find"
        /\ Go(s, [r EXCEPT !.at = "mark",
                           !.seen = {i \in Ids : rows[i] = r.area}])
        /\ UNCHANGED <<stale, rows>>

\* Mutant: an area that is pending already is inserted a second time.
MarkTwice(s) ==
    LET r == req[s]
    IN  /\ r.at = "mark"
        /\ \E i \in Ids : NewId(i) /\ rows' = [rows EXCEPT ![i] = r.area]
        /\ Answer(s, TRUE)
        /\ UNCHANGED stale

\* Mutant: the row is never written.
MarkNever(s) ==
    /\ req[s].at = "mark"
    /\ Answer(s, TRUE)
    /\ UNCHANGED <<stale, rows>>

\* The row found is refreshed: its key stays, and when it has gone meanwhile
\* the UPDATE fails.  Otherwise a row is inserted, which the unique index
\* refuses if another request was first.  Failures are swallowed.
Mark(s) ==
    LET r == req[s]
    IN  /\ r.at = "mark"
        /\ IF r.seen # {} \/ r.area \in Listed
           THEN UNCHANGED rows
           ELSE \E i \in Ids : NewId(i) /\ rows' = [rows EXCEPT ![i] = r.area]
        /\ Answer(s, TRUE)
        /\ UNCHANGED stale

-----------------------------------------------------------------------------
(* Restarting and dismissing *)

\* Mutant: the pending actions are cleared whether the restart worked or not.
RebootAnyway(s) ==
    /\ req[s].at = "reboot"
    /\ stale' \in {stale, {}}
    /\ Go(s, [req[s] EXCEPT !.at = "list"])
    /\ UNCHANGED rows

\* The container starts with the files as they are now.  A restart that times
\* out happens all the same and clears nothing.
Reboot(s) ==
    /\ req[s].at = "reboot"
    /\ stale' = {}
    /\ \/ Go(s, [req[s] EXCEPT !.at = "list"])
       \/ "timeout" \in Faults /\ Answer(s, FALSE)
    /\ UNCHANGED rows

\* clear_all selects every row, clear the row of its key.
ListRows(s) ==
    LET r == req[s]
        found == IF r.op = "dismiss" THEN {i \in Ids : rows[i] = r.area}
                                     ELSE Rows
    IN  /\ r.at = "list"
        /\ Go(s, [r EXCEPT !.at = "clear", !.seen = found])
        /\ UNCHANGED <<stale, rows>>

\* The rows are deleted by id.
Clear(s) ==
    LET r == req[s]
    IN  /\ r.at = "clear"
        /\ rows' = [i \in Ids |-> IF i \in r.seen THEN NoArea ELSE rows[i]]
        /\ Answer(s, TRUE)
        /\ UNCHANGED stale

-----------------------------------------------------------------------------
(* Failures *)

\* The command fails and nothing happens in the container.
Fail(s) ==
    /\ "error" \in Faults /\ req[s].at \in {"write", "reboot"}
    /\ Answer(s, FALSE)
    /\ UNCHANGED <<stale, rows>>

\* The worker stops: the request is lost.
Crash(s) ==
    /\ "crash" \in Faults /\ req[s].op # "none"
    /\ Go(s, Idle)
    /\ UNCHANGED <<stale, rows>>

\* The container is restarted by someone else, who clears nothing.
RestartOutside ==
    /\ "restart" \in Ops
    /\ stale' = {}
    /\ UNCHANGED <<rows, req>>

-----------------------------------------------------------------------------

Init ==
    /\ stale = {}
    /\ rows = [i \in Ids |-> NoArea]
    /\ req = [s \in Slots |-> Idle]

Step(s) ==
    \/ Arrive(s) \/ Write(s) \/ FindRow(s) \/ Mark(s)
    \/ Reboot(s) \/ ListRows(s) \/ Clear(s)
    \/ Fail(s) \/ Crash(s)

Next == RestartOutside \/ \E s \in Slots : Step(s)

Spec == Init /\ [][Next]_vars

-----------------------------------------------------------------------------

\* "repeating the same edit does not pile up duplicate entries"
\* (pending_action_models.py): one row per area, although the row is looked up
\* in one statement and inserted in another.
OneRowPerArea ==
    \A i, j \in Rows : rows[i] = rows[j] => i = j

\* "Each save registers (or refreshes) one row here" (pending_action_models.py):
\* a save is answered 200 with its area listed, whatever other saves do between
\* its SELECT and its INSERT.
SaveRegisters ==
    [][\A s \in Slots :
         /\ req[s].op = "save" /\ req'[s].ok
         /\ req[s].met \subseteq {"save", "set_sieve"}
         => req[s].area \in Listed']_vars

\* The restart takes no area off the list that the container has not read.
ClearsApplied(s) ==
    req[s].op = "restart" /\ req'[s] # req[s]
        => stale \cap (Listed \ Listed') = {}

\* A restart that no save overlaps clears what it applied and nothing else,
\* whatever other restarts and dismissals go on and whatever earlier saves left
\* unlisted (restart_mailserver).
RestartClearsAlone ==
    [][\A s \in Slots :
         req[s].met \cap {"save", "set_sieve"} = {} => ClearsApplied(s)]_vars

\* "a successful restart already applies every one of them"
\* (pending-actions.service.ts).  It does not hold when a save overlaps the
\* restart.
RestartClearsApplied == [][\A s \in Slots : ClearsApplied(s)]_vars
=============================================================================
