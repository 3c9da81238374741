------------------------------- MODULE Startup -------------------------------
(***************************************************************************)
(* database.py, the lifespan of main.py and ensure_default_admin: what     *)
(* each worker does to the shared database before it serves requests.      *)
(*                                                                         *)
(* Both workers start at once.  DDL commits statement by statement, so one *)
(* action is one statement; what a worker has found out about the schema   *)
(* may have changed when it acts on it.  A worker that fails exits and is  *)
(* started again by uvicorn.  The database is new, or one that an older    *)
(* version of the program has left.                                        *)
(***************************************************************************)
EXTENDS Integers, Sequences

CONSTANTS
    Workers,      \* the processes of uvicorn
    CreateOrder,  \* the tables of the models, as create_all sorts them
    Groups,       \* names of OIDC groups
    NoGroup,      \* no group configured
    RetentionDays, \* audit entries are kept forever unless it is positive
    MaxCrashes    \* bound on the workers killed during a behaviour

Tables == {CreateOrder[i] : i \in 1 .. Len(CreateOrder)}

ASSUME ConstantsOK ==
    /\ CreateOrder \in Seq(STRING)
    /\ \A i, j \in 1 .. Len(CreateOrder) :
         CreateOrder[i] = CreateOrder[j] => i = j
    /\ {"auditlog", "oidcsettings", "user"} \subseteq Tables
    /\ "api_key" \notin Tables
    /\ RetentionDays \in Int
    /\ NoGroup \notin Groups
    /\ Workers # {}
    /\ MaxCrashes \in Nat

AllTables == Tables \cup {"api_key"}

\* _ADDED_COLUMNS, the columns later versions have added to tables, and
\* _RENAMED_COLUMNS: user_group has become manager_group (its claim alike).
Added == {<<"group", "role">>, <<"oidcsettings", "manager_group">>,
          <<"user", "is_active">>}
Renamed == <<"oidcsettings", "user_group">>

Columns == Added \cup {Renamed}
ColumnsOf(t) == {c \in Columns : c[1] = t}
Current(t) == {c \in Added : c[1] = t}

VARIABLES
    tables,    \* table -> absent, bare (no unique index yet) or whole
    columns,   \* which of Columns the tables have
    mapping,   \* the two columns of the settings row: user_group, manager_group
    admins,    \* how many accounts have the default administrator's name
    worker,    \* each process
    crashes    \* how many were killed

vars == <<tables, columns, mapping, admins, worker, crashes>>
database == <<tables, columns, mapping, admins>>

Stages == {"check", "create", "index", "names", "columns", "add", "admin",
           "seed", "purge", "ready", "down"}

Process == [at : Stages,
            next : 1 .. Len(CreateOrder),  \* place of the table it looks for
            missing : SUBSET Tables,     \* tables create_all has to create
            unread : SUBSET AllTables,   \* tables to be inspected
            names : SUBSET AllTables,    \* tables there were
            seen : SUBSET Columns]       \* columns they had

Fresh == [at |-> "check", next |-> 1, missing |-> {}, unread |-> {},
          names |-> {}, seen |-> {}]

TypeOK ==
    /\ tables \in [AllTables -> {"absent", "bare", "whole"}]
    /\ columns \subseteq Columns
    /\ mapping \in [old : Groups \cup {NoGroup}, new : Groups \cup {NoGroup}]
    /\ admins \in Nat
    /\ worker \in [Workers -> Process]
    /\ crashes \in 0 .. MaxCrashes

-----------------------------------------------------------------------------

Present(t) == tables[t] # "absent"
\* A SELECT of the model's columns works.
Readable(t) == Present(t) /\ Current(t) \subseteq columns

Go(w, r) == worker' = [worker EXCEPT ![w] = r]
At(w, at) == Go(w, [worker[w] EXCEPT !.at = at])
\* An exception nobody catches: the worker stops.
Exit(w) == Go(w, [Fresh EXCEPT !.at = "down"])

\* Mutant: a database with a table in it is taken for a complete one.
LookUpEmpty(w) ==
    LET p == worker[w]
        t == CreateOrder[p.next]
        more == p.next < Len(CreateOrder)
        new == \A u \in Tables : ~Present(u)
    IN  /\ p.at = "check"
        /\ Go(w, [p EXCEPT !.at = IF more THEN "check" ELSE "create",
                           !.next = IF more THEN @ + 1 ELSE 1,
                           !.missing = IF new THEN @ \cup {t} ELSE @])
        /\ UNCHANGED <<database, crashes>>

\* Mutant: the walk does not end at the last table.
LookUpPast(w) ==
    LET p == worker[w]
        t == CreateOrder[p.next]
        more == p.next <= Len(CreateOrder)
    IN  /\ p.at = "check"
        /\ Go(w, [p EXCEPT !.at = IF more THEN "check" ELSE "create",
                           !.next = IF more THEN @ + 1 ELSE 1,
                           !.missing = IF Present(t) THEN @ ELSE @ \cup {t}])
        /\ UNCHANGED <<database, crashes>>

\* create_all looks for each table before it creates any.
LookUp(w) ==
    LET p == worker[w]
        t == CreateOrder[p.next]
        more == p.next < Len(CreateOrder)
    IN  /\ p.at = "check"
        /\ Go(w, [p EXCEPT !.at = IF more THEN "check" ELSE "create",
                           !.next = IF more THEN @ + 1 ELSE 1,
                           !.missing = IF Present(t) THEN @ ELSE @ \cup {t}])
        /\ UNCHANGED <<database, crashes>>

\* The first of the tables a worker still has to create.
IsFirst(t, missing) ==
    \E i \in 1 .. Len(CreateOrder) :
        /\ CreateOrder[i] = t /\ t \in missing
        /\ \A j \in 1 .. i - 1 : CreateOrder[j] \notin missing

\* Mutant: after losing the race the worker goes on without the migration.
CreateTableReturn(w) ==
    LET p == worker[w]
    IN  /\ p.at = "create"
        /\ \E t \in p.missing :
             /\ IsFirst(t, p.missing)
             /\ IF Present(t)
                THEN At(w, "admin") /\ UNCHANGED <<tables, columns>>
                ELSE /\ tables' = [tables EXCEPT ![t] = "bare"]
                     /\ columns' = columns \cup Current(t)
                     /\ At(w, "index")
        /\ UNCHANGED <<mapping, admins, crashes>>

\* CREATE TABLE.  "already exists" ends create_all and is caught.
CreateTable(w) ==
    LET p == worker[w]
    IN  /\ p.at = "create"
        /\ \E t \in p.missing :
             /\ IsFirst(t, p.missing)
             /\ IF Present(t)
                THEN At(w, "names") /\ UNCHANGED <<tables, columns>>
                ELSE /\ tables' = [tables EXCEPT ![t] = "bare"]
                     /\ columns' = columns \cup Current(t)
                     /\ At(w, "index")
        /\ UNCHANGED <<mapping, admins, crashes>>

\* Mutant: the unique indexes are left out.
CreateIndexNone(w) ==
    LET p == worker[w]
    IN  /\ p.at = "index"
        /\ \E t \in p.missing :
             /\ IsFirst(t, p.missing)
             /\ Go(w, [p EXCEPT !.at = "create", !.missing = @ \ {t}])
        /\ UNCHANGED <<database, crashes>>

\* The indexes of a table follow it.  A unique one on rows that already repeat
\* a value is an error that is not caught.
CreateIndex(w) ==
    LET p == worker[w]
    IN  /\ p.at = "index"
        /\ \E t \in p.missing :
             /\ IsFirst(t, p.missing)
             /\ IF t = "user" /\ admins > 1
                THEN Exit(w) /\ UNCHANGED tables
                ELSE /\ tables' = [tables EXCEPT ![t] = "whole"]
                     /\ Go(w, [p EXCEPT !.at = "create", !.missing = @ \ {t}])
        /\ UNCHANGED <<columns, mapping, admins, crashes>>

-----------------------------------------------------------------------------
(* _migrate_schema *)

\* get_table_names.
ReadNames(w) ==
    LET p == worker[w]
        present == {t \in AllTables : Present(t)}
    IN  /\ p.at = "names" \/ (p.at = "create" /\ p.missing = {})
        /\ Go(w, [p EXCEPT !.at = "columns", !.names = present,
                           !.unread = present, !.missing = {}])
        /\ UNCHANGED <<database, crashes>>

\* get_columns, in the order of a Python set.  A table that is not there any
\* more is an error.
ReadColumns(w) ==
    LET p == worker[w]
    IN  /\ p.at = "columns"
        /\ \E t \in p.unread :
             IF ~Present(t)
             THEN Exit(w)
             ELSE Go(w, [p EXCEPT
                    !.at = IF p.unread = {t} THEN "add" ELSE "columns",
                    !.unread = @ \ {t},
                    !.seen = @ \cup (columns \cap ColumnsOf(t))])
        /\ UNCHANGED <<database, crashes>>

\* Mutant: columns are added whether or not the table has them.
ToAddAll(p) == {c \in Added : c[1] \in p.names}

\* The columns that were missing from the tables there were.
ToAdd(p) == {c \in Added : c[1] \in p.names /\ c \notin p.seen}

\* ALTER TABLE ADD COLUMN; a column that is there by now is an error.
AddColumn(w) ==
    LET p == worker[w]
    IN  /\ p.at = "add"
        /\ \E c \in ToAdd(p) :
             IF c \in columns
             THEN Exit(w) /\ UNCHANGED columns
             ELSE /\ columns' = columns \cup {c}
                  /\ Go(w, [p EXCEPT !.seen = @ \cup {c}])
        /\ UNCHANGED <<tables, mapping, admins, crashes>>

\* Mutant: the old column is dropped before its value is copied.
MigrateDropFirst(w) ==
    LET p == worker[w]
        rename == Renamed \in p.seen
        drop == "api_key" \in p.names
    IN  /\ p.at = "add" /\ ToAdd(p) = {}
        /\ IF \/ rename /\ Renamed \notin columns
              \/ drop /\ ~Present("api_key")
           THEN Exit(w) /\ UNCHANGED <<tables, columns, mapping>>
           ELSE /\ columns' = columns \ (IF rename THEN {Renamed} ELSE {})
                /\ mapping' = IF rename
                              THEN [mapping EXCEPT !.old = NoGroup] ELSE mapping
                /\ tables' = IF drop THEN [tables EXCEPT !["api_key"] = "absent"]
                                     ELSE tables
                /\ At(w, "admin")
        /\ UNCHANGED <<admins, crashes>>

\* The UPDATE that copies the renamed column opens a transaction, in which the
\* column and then the obsolete table are dropped: all of it or nothing.
Migrate(w) ==
    LET p == worker[w]
        rename == Renamed \in p.seen
        drop == "api_key" \in p.names
    IN  /\ p.at = "add" /\ ToAdd(p) = {}
        /\ IF \/ rename /\ Renamed \notin columns
              \/ drop /\ ~Present("api_key")
           THEN Exit(w) /\ UNCHANGED <<tables, columns, mapping>>
           ELSE /\ columns' = columns \ (IF rename THEN {Renamed} ELSE {})
                /\ mapping' = IF rename
                              THEN [old |-> NoGroup, new |-> mapping.old]
                              ELSE mapping
                /\ tables' = IF drop THEN [tables EXCEPT !["api_key"] = "absent"]
                                     ELSE tables
                /\ At(w, "admin")
        /\ UNCHANGED <<admins, crashes>>

-----------------------------------------------------------------------------
(* ensure_default_admin and purge *)

FindAdmin(w) ==
    /\ worker[w].at = "admin"
    /\ IF ~Readable("user")
       THEN Exit(w)
       ELSE At(w, IF admins > 0 THEN "purge" ELSE "seed")
    /\ UNCHANGED <<database, crashes>>

\* The unique index refuses a second one, which is caught.
Seed(w) ==
    /\ worker[w].at = "seed"
    /\ admins' = IF tables["user"] = "whole" /\ admins > 0
                 THEN admins ELSE admins + 1
    /\ At(w, "purge")
    /\ UNCHANGED <<tables, columns, mapping, crashes>>

\* Looks for stale entries only where a retention is set.
Purge(w) ==
    /\ worker[w].at = "purge"
    /\ IF RetentionDays <= 0 \/ Present("auditlog") THEN At(w, "ready") ELSE Exit(w)
    /\ UNCHANGED <<database, crashes>>

-----------------------------------------------------------------------------

\* Once ready, a worker serves requests: one sets the OIDC manager group.
Edit(w) ==
    /\ worker[w].at = "ready" /\ Readable("oidcsettings")
    /\ \E g \in Groups : mapping' = [mapping EXCEPT !.new = g]
    /\ UNCHANGED <<tables, columns, admins, worker, crashes>>

\* uvicorn starts a worker in the place of one that is gone.
Restart(w) ==
    /\ worker[w].at = "down"
    /\ Go(w, Fresh)
    /\ UNCHANGED <<database, crashes>>

\* A worker is killed, or finds the database locked for too long.
Crash(w) ==
    /\ worker[w].at # "down" /\ crashes < MaxCrashes
    /\ crashes' = crashes + 1
    /\ Exit(w)
    /\ UNCHANGED database

\* A new database, or one of a version before columns were added and renamed.
Init ==
    /\ \/ /\ tables = [t \in AllTables |-> "absent"]
          /\ columns = {}
          /\ mapping = [old |-> NoGroup, new |-> NoGroup]
          /\ admins = 0
       \/ /\ tables = [t \in AllTables |->
                         IF t = "pat" THEN "absent" ELSE "whole"]
          /\ columns = {Renamed}
          /\ \E g \in Groups : mapping = [old |-> g, new |-> NoGroup]
          /\ admins \in {0, 1}
    /\ worker = [w \in Workers |-> Fresh]
    /\ crashes = 0

\* What a worker does until it is ready.
Start(w) ==
    \/ LookUp(w) \/ CreateTable(w) \/ CreateIndex(w)
    \/ ReadNames(w) \/ ReadColumns(w) \/ AddColumn(w) \/ Migrate(w)
    \/ FindAdmin(w) \/ Seed(w) \/ Purge(w)
    \/ Restart(w)

Next == \E w \in Workers : Start(w) \/ Edit(w) \/ Crash(w)

\* A worker goes on, and uvicorn restarts one that is gone.
Spec == Init /\ [][Next]_vars /\ \A w \in Workers : WF_vars(Start(w))

-----------------------------------------------------------------------------

Ready(w) == worker[w].at = "ready"

\* However the two starts interleave, and whoever is killed, every worker ends
\* up serving requests: a start fails only because the other got further.
AllStart == <>[](\A w \in Workers : Ready(w))

\* A worker that serves requests does so on tables in the shape of the models:
\* nothing the migration has to do is left to a slower worker.
ReadyMigrated ==
    \A w \in Workers : Ready(w) =>
        /\ \A t \in Tables : Present(t) => Current(t) \subseteq columns
        /\ Renamed \notin columns /\ ~Present("api_key")

\* When every worker is ready no table is missing, although create_all is cut
\* short in one of them or in both.
SchemaComplete ==
    (\A w \in Workers : Ready(w)) => \A t \in Tables : Present(t)

\* "The value is carried over before the old column is dropped, so a deployment
\* that had configured an OIDC user group keeps its mapping" (database.py): the
\* group in force changes only by an edit, whatever a late migration does.
Mapped == IF Renamed \in columns THEN mapping.old ELSE mapping.new
MappingKept ==
    [][Mapped' # Mapped => \E w \in Workers : Ready(w) /\ UNCHANGED worker]_vars

\* Two workers that both find no administrator seed one (ensure_default_admin),
\* unless one was killed between a table and its unique index, which no later
\* start creates.
OneDefaultAdmin == crashes = 0 => admins <= 1
=============================================================================
