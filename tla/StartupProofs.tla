---------------------------- MODULE StartupProofs ----------------------------
(***************************************************************************)
(* What the starts of any number of workers leave behind, whoever is       *)
(* killed, for any tables in any order.                                    *)
(*                                                                         *)
(* The database only moves towards the models' shape (Monotone), so what a *)
(* worker has read of it errs on one side: Informed says that nothing it   *)
(* does not know of is left to migrate, Leading that somebody's list still *)
(* has every missing table on it and will not be cut short.                *)
(***************************************************************************)
EXTENDS Startup, TLAPS

\* A step of one worker.
Step(w) == Start(w) \/ Edit(w) \/ Crash(w)

\* The indexes a worker creates next are those of a table that is there.
Indexed(w) ==
    worker[w].at = "index" =>
        \A t : IsFirst(t, worker[w].missing) => Present(t)

\* Nothing is left for _migrate_schema to do.
Migrated ==
    /\ \A t \in Tables : Present(t) => Current(t) \subseteq columns
    /\ Renamed \notin columns /\ ~Present("api_key")

\* What a worker that migrates does not know of is in shape.
Informed(w) ==
    LET p == worker[w]
    IN  /\ p.seen \cap Added \subseteq columns
        /\ p.at \in {"columns", "add"} =>
             /\ \A t \in Tables :
                  Present(t) => t \in p.names \/ Current(t) \subseteq columns
             /\ Present("api_key") => "api_key" \in p.names
             /\ Renamed \in columns =>
                  Renamed \in p.seen \/ "oidcsettings" \in p.unread
        /\ p.at = "add" => p.unread = {}
        /\ p.at \in {"admin", "seed", "purge", "ready"} => Migrated

MigrationInv ==
    /\ \A w \in Workers : Indexed(w)
    /\ Renamed \in columns => Present("oidcsettings")
    /\ \A w \in Workers : Informed(w)

-----------------------------------------------------------------------------
(* Types *)

\* The tables of the models are among those there may be, api_key is not.
LEMMA TableNames ==
    /\ Tables \subseteq AllTables
    /\ "api_key" \in AllTables /\ "api_key" \notin Tables
    /\ \A i \in 1 .. Len(CreateOrder) : CreateOrder[i] \in Tables
    /\ \A t \in Tables : \E i \in 1 .. Len(CreateOrder) : CreateOrder[i] = t
    /\ Len(CreateOrder) \in Nat \ {0}
    /\ {"auditlog", "oidcsettings", "user"} \subseteq Tables
<1>1. Tables \subseteq AllTables /\ "api_key" \in AllTables /\ "api_key" \notin Tables
  BY ConstantsOK DEF AllTables
<1>2. /\ \A i \in 1 .. Len(CreateOrder) : CreateOrder[i] \in Tables
      /\ \A t \in Tables : \E i \in 1 .. Len(CreateOrder) : CreateOrder[i] = t
  BY DEF Tables
<1>3. Len(CreateOrder) \in Nat
  BY ConstantsOK
<1>4. {"auditlog", "oidcsettings", "user"} \subseteq Tables
  BY ConstantsOK
<1>5. Len(CreateOrder) # 0
  BY <1>2, <1>3, <1>4
<1> QED BY <1>1, <1>2, <1>3, <1>4, <1>5

\* The old column is none of the added ones.
LEMMA ColumnNames ==
    /\ Renamed \notin Added /\ Added \subseteq Columns /\ Renamed \in Columns
    /\ Renamed[1] = "oidcsettings"
    /\ \A t : Current(t) \subseteq Added
    /\ \A t : ColumnsOf(t) \subseteq Columns
BY DEF Renamed, Added, Columns, Current, ColumnsOf

\* A worker about to start is in a possible state.
LEMMA FreshOK == Fresh \in Process
BY TableNames DEF Fresh, Process, Stages

LEMMA TypeInit == Init => TypeOK
<1> SUFFICES ASSUME Init PROVE TypeOK
  OBVIOUS
<1>1. worker \in [Workers -> Process]
  BY FreshOK DEF Init
<1>2. tables \in [AllTables -> {"absent", "bare", "whole"}]
  BY DEF Init
<1>3. columns \subseteq Columns
  BY ColumnNames DEF Init
<1>4. mapping \in [old : Groups \cup {NoGroup}, new : Groups \cup {NoGroup}]
  BY DEF Init
<1>5. admins \in Nat /\ crashes \in 0 .. MaxCrashes
  BY ConstantsOK DEF Init
<1> QED BY <1>1, <1>2, <1>3, <1>4, <1>5 DEF TypeOK

\* A worker's step replaces its own record only.
LEMMA OwnRecord ==
    ASSUME TypeOK, NEW w \in Workers, Step(w)
    PROVE  \E r \in Process : worker' = [worker EXCEPT ![w] = r]
<1> DEFINE p == worker[w]
<1>1. p \in Process
  BY DEF TypeOK
<1>2. /\ Fresh \in Process
      /\ \A at \in Stages : [p EXCEPT !.at = at] \in Process
      /\ [Fresh EXCEPT !.at = "down"] \in Process
  BY <1>1, FreshOK DEF Process, Stages
<1>3. CASE LookUp(w)
  <2> DEFINE t == CreateOrder[p.next]
             more == p.next < Len(CreateOrder)
             r == [p EXCEPT !.at = IF more THEN "check" ELSE "create",
                            !.next = IF more THEN @ + 1 ELSE 1,
                            !.missing = IF Present(t) THEN @ ELSE @ \cup {t}]
  <2>1. worker' = [worker EXCEPT ![w] = r]
    BY <1>3 DEF LookUp, Go
  <2>2. /\ p.next \in 1 .. Len(CreateOrder) /\ t \in Tables
        /\ p.missing \in SUBSET Tables
    BY <1>1, TableNames DEF Process
  <2>3. (IF more THEN p.next + 1 ELSE 1) \in 1 .. Len(CreateOrder)
    BY <2>2, TableNames
  <2>4. (IF Present(t) THEN p.missing ELSE p.missing \cup {t}) \in SUBSET Tables
    BY <2>2
  <2>5. (IF more THEN "check" ELSE "create") \in Stages
    BY DEF Stages
  <2>6. \A at \in Stages, n \in 1 .. Len(CreateOrder), m \in SUBSET Tables :
          [p EXCEPT !.at = at, !.next = n, !.missing = m] \in Process
    BY <1>1 DEF Process
  <2>7. r \in Process
    BY <2>3, <2>4, <2>5, <2>6
  <2> QED BY <2>1, <2>7
<1>4. CASE CreateTable(w)
  BY <1>2, <1>4 DEF CreateTable, At, Go, Stages
<1>5. CASE CreateIndex(w)
  <2>1. \A t : [p EXCEPT !.at = "create", !.missing = @ \ {t}] \in Process
    BY <1>1 DEF Process, Stages
  <2> QED BY <1>2, <1>5, <2>1 DEF CreateIndex, Exit, Go
<1>6. CASE ReadNames(w)
  BY <1>1, <1>6 DEF ReadNames, Go, Process, Stages
<1>7. CASE ReadColumns(w)
  <2>1. \A t, at : at \in Stages =>
          [p EXCEPT !.at = at, !.unread = @ \ {t},
                    !.seen = @ \cup (columns \cap ColumnsOf(t))] \in Process
    BY <1>1, ColumnNames DEF Process
  <2>2. \A t : (IF p.unread = {t} THEN "add" ELSE "columns") \in Stages
    BY DEF Stages
  <2> QED BY <1>2, <1>7, <2>1, <2>2 DEF ReadColumns, Exit, Go
<1>8. CASE AddColumn(w)
  <2>1. \A c \in ToAdd(p) : [p EXCEPT !.seen = @ \cup {c}] \in Process
    BY <1>1, ColumnNames DEF Process, ToAdd
  <2> QED BY <1>2, <1>8, <2>1 DEF AddColumn, Exit, Go
<1>9. CASE Migrate(w) \/ FindAdmin(w) \/ Seed(w) \/ Purge(w)
  BY <1>2, <1>9 DEF Migrate, FindAdmin, Seed, Purge, Exit, At, Go, Stages
<1>10. CASE Restart(w) \/ Crash(w)
  BY <1>2, <1>10 DEF Restart, Crash, Exit, Go
<1>11. CASE Edit(w)
  <2>1. worker' = [worker EXCEPT ![w] = worker[w]]
    BY <1>11 DEF Edit, TypeOK
  <2> QED BY <1>1, <2>1
<1> QED BY <1>3, <1>4, <1>5, <1>6, <1>7, <1>8, <1>9, <1>10, <1>11 DEF Step, Start

\* The stages that follow one another.
LEMMA Moves ==
    ASSUME TypeOK, NEW w \in Workers
    PROVE  LET at == worker'[w].at
           IN  /\ LookUp(w) => at \in {"check", "create"}
               /\ CreateTable(w) => at \in {"index", "names"}
               /\ CreateIndex(w) => at \in {"create", "down"}
               /\ ReadNames(w) => at = "columns"
               /\ ReadColumns(w) => at \in {"columns", "add", "down"}
               /\ AddColumn(w) => at \in {"add", "down"}
               /\ Migrate(w) => at \in {"admin", "down"}
               /\ FindAdmin(w) => at \in {"seed", "purge", "down"}
               /\ Seed(w) => at = "purge"
               /\ Purge(w) => at \in {"ready", "down"}
               /\ Restart(w) => at = "check"
               /\ Edit(w) => at = worker[w].at
               /\ Crash(w) => at = "down"
<1>1. worker \in [Workers -> Process] /\ worker[w] \in Process
  BY DEF TypeOK
<1>2. LookUp(w) => worker'[w].at \in {"check", "create"}
  BY <1>1 DEF LookUp, Go, Process
<1>3. CreateTable(w) => worker'[w].at \in {"index", "names"}
  BY <1>1 DEF CreateTable, At, Go, Process
<1>4. CreateIndex(w) => worker'[w].at \in {"create", "down"}
  BY <1>1 DEF CreateIndex, Exit, Go, Process, Fresh
<1>5. ReadNames(w) => worker'[w].at = "columns"
  BY <1>1 DEF ReadNames, Go, Process
<1>6. ReadColumns(w) => worker'[w].at \in {"columns", "add", "down"}
  <2>1. ASSUME NEW t, NEW at \in {"columns", "add"},
               Go(w, [worker[w] EXCEPT
                        !.at = at, !.unread = @ \ {t},
                        !.seen = @ \cup (columns \cap ColumnsOf(t))])
        PROVE  worker'[w].at = at
    BY <1>1, <2>1 DEF Go, Process
  <2>2. Exit(w) => worker'[w].at = "down"
    BY <1>1 DEF Exit, Go, Fresh
  <2> QED BY <2>1, <2>2 DEF ReadColumns
<1>7. AddColumn(w) => worker'[w].at \in {"add", "down"}
  BY <1>1 DEF AddColumn, Exit, Go, Process, Fresh
<1>8. Migrate(w) => worker'[w].at \in {"admin", "down"}
  BY <1>1 DEF Migrate, Exit, At, Go, Process, Fresh
<1>9. FindAdmin(w) => worker'[w].at \in {"seed", "purge", "down"}
  BY <1>1 DEF FindAdmin, Exit, At, Go, Process, Fresh
<1>10. /\ Seed(w) => worker'[w].at = "purge"
       /\ Purge(w) => worker'[w].at \in {"ready", "down"}
  BY <1>1 DEF Seed, Purge, Exit, At, Go, Process, Fresh
<1>11. /\ Restart(w) => worker'[w].at = "check"
       /\ Edit(w) => worker'[w].at = worker[w].at
       /\ Crash(w) => worker'[w].at = "down"
  BY <1>1 DEF Restart, Edit, Crash, Exit, Go, Process, Fresh
<1> QED BY <1>2, <1>3, <1>4, <1>5, <1>6, <1>7, <1>8, <1>9, <1>10, <1>11

LEMMA TypeNext == TypeOK /\ [Next]_vars => TypeOK'
<1> SUFFICES ASSUME TypeOK, [Next]_vars PROVE TypeOK'
  OBVIOUS
<1>1. CASE UNCHANGED vars
  BY <1>1 DEF TypeOK, vars, Process, Present
<1>2. ASSUME NEW w \in Workers, Step(w) PROVE TypeOK'
  <2>1. worker' \in [Workers -> Process]
    BY <1>2, OwnRecord DEF TypeOK
  <2>2. tables' \in [AllTables -> {"absent", "bare", "whole"}]
    <3>1. \A t : tables' = [tables EXCEPT ![t] = "bare"] =>
            tables' \in [AllTables -> {"absent", "bare", "whole"}]
      BY DEF TypeOK
    <3>2. \A t : tables' = [tables EXCEPT ![t] = "whole"] =>
            tables' \in [AllTables -> {"absent", "bare", "whole"}]
      BY DEF TypeOK
    <3>3. \A t : tables' = [tables EXCEPT ![t] = "absent"] =>
            tables' \in [AllTables -> {"absent", "bare", "whole"}]
      BY DEF TypeOK
    <3> QED BY <1>2, <3>1, <3>2, <3>3
          DEF Step, Start, LookUp, CreateTable, CreateIndex, ReadNames,
              ReadColumns, AddColumn, Migrate, FindAdmin, Seed, Purge, Restart,
              Edit, Crash, database, TypeOK
  <2>3. columns' \subseteq Columns
    BY <1>2, ColumnNames
    DEF Step, Start, LookUp, CreateTable, CreateIndex, ReadNames, ReadColumns,
        AddColumn, Migrate, FindAdmin, Seed, Purge, Restart, Edit, Crash,
        database, TypeOK, ToAdd
  <2>4. mapping' \in [old : Groups \cup {NoGroup}, new : Groups \cup {NoGroup}]
    <3>1. CASE Migrate(w)
      BY <3>1 DEF Migrate, TypeOK
    <3>2. CASE Edit(w)
      BY <3>2 DEF Edit, TypeOK
    <3>3. CASE UNCHANGED mapping
      BY <3>3 DEF TypeOK
    <3> QED BY <1>2, <3>1, <3>2, <3>3
          DEF Step, Start, LookUp, CreateTable, CreateIndex, ReadNames,
              ReadColumns, AddColumn, FindAdmin, Seed, Purge, Restart, Crash,
              database
  <2>5. admins' \in Nat
    <3>1. CASE Seed(w)
      BY <3>1 DEF Seed, TypeOK
    <3>2. CASE UNCHANGED admins
      BY <3>2 DEF TypeOK
    <3> QED BY <1>2, <3>1, <3>2
          DEF Step, Start, LookUp, CreateTable, CreateIndex, ReadNames,
              ReadColumns, AddColumn, Migrate, FindAdmin, Purge, Restart, Edit,
              Crash, database
  <2>6. crashes' \in 0 .. MaxCrashes
    <3>1. CASE Crash(w)
      BY <3>1, ConstantsOK DEF Crash, TypeOK
    <3>2. CASE UNCHANGED crashes
      BY <3>2 DEF TypeOK
    <3> QED BY <1>2, <3>1, <3>2
          DEF Step, Start, LookUp, CreateTable, CreateIndex, ReadNames,
              ReadColumns, AddColumn, Migrate, FindAdmin, Seed, Purge, Restart,
              Edit
  <2> QED BY <2>1, <2>2, <2>3, <2>4, <2>5, <2>6 DEF TypeOK
<1> QED BY <1>1, <1>2 DEF Next, Step

\* Tables, columns, mapping, administrators and workers keep their types, for
\* any tables in any order and any number of workers.
THEOREM Types == Spec => []TypeOK
BY TypeInit, TypeNext, PTL DEF Spec

-----------------------------------------------------------------------------
(* The migration *)

\* Whatever a step of a worker does, the tables of the models and the columns
\* added to them stay, what is to be dropped does not come back, and a table
\* that appears is in shape.
LEMMA Monotone ==
    ASSUME TypeOK, NEW w \in Workers, Indexed(w), Step(w)
    PROVE  /\ \A t \in Tables : Present(t) => Present(t)'
           /\ columns \cap Added \subseteq columns'
           /\ Renamed \in columns' => Renamed \in columns
           /\ Present("api_key")' => Present("api_key")
           /\ \A t \in Tables :
                Present(t)' => Present(t) \/ Current(t) \subseteq columns'
<1> USE TableNames, ColumnNames
<1>1. CASE CreateTable(w)
  <2> DEFINE p == worker[w]
  <2>1. p.missing \subseteq Tables
    BY DEF TypeOK, Process
  <2>2. CASE UNCHANGED <<tables, columns>>
    BY <2>2 DEF Present
  <2>3. CASE \E t \in p.missing : /\ tables' = [tables EXCEPT ![t] = "bare"]
                                  /\ columns' = columns \cup Current(t)
    BY <2>1, <2>3 DEF Present, TypeOK
  <2> QED BY <1>1, <2>2, <2>3 DEF CreateTable
<1>2. CASE CreateIndex(w)
  <2>1. CASE UNCHANGED <<tables, columns>>
    BY <2>1 DEF Present
  <2>2. ASSUME NEW t \in worker[w].missing, Present(t),
               tables' = [tables EXCEPT ![t] = "whole"], UNCHANGED columns
        PROVE  /\ \A u \in Tables : Present(u)' <=> Present(u)
               /\ Present("api_key")' <=> Present("api_key")
    <3>1. t \in Tables
      BY DEF TypeOK, Process
    <3> QED BY <2>2, <3>1 DEF TypeOK, Present
  <2>3. CASE \E t \in worker[w].missing :
                 /\ IsFirst(t, worker[w].missing)
                 /\ tables' = [tables EXCEPT ![t] = "whole"]
                 /\ UNCHANGED columns
    BY <1>2, <2>2, <2>3 DEF Indexed, CreateIndex
  <2> QED BY <1>2, <2>1, <2>3 DEF CreateIndex
<1>3. CASE AddColumn(w)
  BY <1>3 DEF AddColumn, ToAdd, Present
<1>4. CASE Migrate(w)
  BY <1>4 DEF Migrate, Present, TypeOK
<1>5. CASE UNCHANGED <<tables, columns>>
  BY <1>5 DEF Present
<1> QED BY <1>1, <1>2, <1>3, <1>4, <1>5
      DEF Step, Start, LookUp, ReadNames, ReadColumns, FindAdmin, Seed, Purge,
          Restart, Edit, Crash, database

\* Only one table comes first.
LEMMA OneFirst ==
    ASSUME NEW m, NEW t, NEW u, IsFirst(t, m), IsFirst(u, m)
    PROVE  t = u
<1>1. PICK i \in 1 .. Len(CreateOrder) :
          CreateOrder[i] = t /\ \A j \in 1 .. i - 1 : CreateOrder[j] \notin m
  BY DEF IsFirst
<1>2. PICK k \in 1 .. Len(CreateOrder) :
          CreateOrder[k] = u /\ \A j \in 1 .. k - 1 : CreateOrder[j] \notin m
  BY DEF IsFirst
<1>3. t \in m /\ u \in m
  BY DEF IsFirst
<1>4. i = k
  BY <1>1, <1>2, <1>3, TableNames
<1> QED BY <1>1, <1>2, <1>4

\* A worker comes to an index only by creating its table.
LEMMA StaysIndexed ==
    ASSUME TypeOK, \A v \in Workers : Indexed(v), NEW w \in Workers, Step(w)
    PROVE  \A v \in Workers : Indexed(v)'
<1> SUFFICES ASSUME NEW v \in Workers, worker'[v].at = "index",
                    NEW t, IsFirst(t, worker'[v].missing)
             PROVE  Present(t)'
  BY DEF Indexed, IsFirst
<1>1. CASE worker'[v] = worker[v]
  <2>1. Present(t)
    BY <1>1 DEF Indexed
  <2>2. t \in Tables
    BY TableNames DEF IsFirst
  <2> QED BY <2>1, <2>2, Monotone
<1>2. CASE worker'[v] # worker[v]
  <2>1. w = v /\ worker'[w] # worker[w]
    BY <1>2, OwnRecord DEF TypeOK
  <2> DEFINE p == worker[w]
  <2>2. p \in Process /\ worker \in [Workers -> Process]
    BY DEF TypeOK
  <2>3. CreateTable(w)
    <3>1. ~Edit(w)
      BY <2>1 DEF Edit
    <3> QED BY <2>1, <3>1, Moves DEF Step, Start
  <2>4. PICK u \in p.missing : /\ IsFirst(u, p.missing)
                               /\ tables' = [tables EXCEPT ![u] = "bare"]
                               /\ worker' = [worker EXCEPT ![w].at = "index"]
    BY <2>1, <2>2, <2>3 DEF CreateTable, At, Go, Process
  <2>5. worker'[v].missing = p.missing
    BY <2>1, <2>2, <2>4 DEF Process
  <2>6. t = u
    BY <2>4, <2>5, OneFirst
  <2>7. u \in AllTables
    BY <2>2, <2>4, TableNames DEF Process
  <2> QED BY <2>4, <2>6, <2>7 DEF TypeOK, Present
<1> QED BY <1>1, <1>2

\* What a worker has migrated stays so.
LEMMA StaysMigrated ==
    ASSUME TypeOK, NEW w \in Workers, Indexed(w), Step(w), Migrated
    PROVE  Migrated'
<1>1. \A t \in Tables : Present(t)' => Current(t)' \subseteq columns'
  BY Monotone, ColumnNames DEF Migrated, Current
<1>2. Renamed' \notin columns' /\ ~Present("api_key")'
  BY Monotone DEF Migrated, Renamed
<1> QED BY <1>1, <1>2 DEF Migrated

\* A worker that is gone or starts afresh knows of nothing.
LEMMA FreshInformed ==
    ASSUME NEW v \in Workers,
           worker'[v] \in {Fresh, [Fresh EXCEPT !.at = "down"]}
    PROVE  Informed(v)'
<1>1. worker'[v].at \in {"check", "down"} /\ worker'[v].seen = {}
  BY DEF Fresh
<1> QED BY <1>1 DEF Informed

\* What a worker that stays where it is knows remains right.
LEMMA OthersInformed ==
    ASSUME TypeOK, NEW w \in Workers, Indexed(w), Step(w),
           NEW v \in Workers, Informed(v), worker'[v] = worker[v]
    PROVE  Informed(v)'
<1>1. /\ worker'[v].seen \cap Added \subseteq columns'
      /\ worker'[v].at = "add" => worker'[v].unread = {}
  BY Monotone DEF Informed
<1>2. worker'[v].at \in {"admin", "seed", "purge", "ready"} => Migrated'
  BY StaysMigrated DEF Informed
<1>3. worker'[v].at \in {"columns", "add"} =>
        /\ \A t \in Tables :
             Present(t)' => t \in worker'[v].names \/ Current(t) \subseteq columns'
        /\ Present("api_key")' => "api_key" \in worker'[v].names
        /\ Renamed \in columns' =>
             Renamed \in worker'[v].seen \/ "oidcsettings" \in worker'[v].unread
  BY Monotone, ColumnNames DEF Informed
<1> QED BY <1>1, <1>2, <1>3 DEF Informed, Renamed, Added, Current

\* A worker learns of all that there is to migrate before it starts to.
LEMMA OwnInformed ==
    ASSUME TypeOK, MigrationInv, NEW w \in Workers, Step(w)
    PROVE  Informed(w)'
<1> DEFINE p == worker[w]
           q == worker'[w]
<1>1. p \in Process /\ worker \in [Workers -> Process] /\ Informed(w) /\ Indexed(w)
  BY DEF TypeOK, MigrationInv
<1>2. p.seen \cap Added \subseteq columns'
  BY <1>1, Monotone DEF Informed
<1>3. CASE ReadNames(w)
  <2> DEFINE present == {t \in AllTables : Present(t)}
  <2>1. /\ q.at = "columns" /\ q.names = present /\ q.unread = present
        /\ q.seen = p.seen /\ UNCHANGED <<tables, columns>>
    BY <1>1, <1>3 DEF ReadNames, Go, Process, database
  <2>2. \A t \in Tables : Present(t)' => t \in q.names
    BY <2>1, TableNames DEF Present
  <2>3. Present("api_key")' => "api_key" \in q.names
    BY <2>1, TableNames DEF Present
  <2>4. Renamed \in columns' => "oidcsettings" \in q.unread
    BY <2>1, TableNames DEF MigrationInv
  <2> QED BY <1>2, <2>1, <2>2, <2>3, <2>4 DEF Informed, Renamed, Added, Current
<1>4. CASE ReadColumns(w)
  <2>1. CASE Exit(w)
    BY <1>1, <2>1, FreshInformed DEF Exit, Go
  <2>2. CASE ~Exit(w)
    <3>1. PICK t \in p.unread :
            q = [p EXCEPT !.at = IF p.unread = {t} THEN "add" ELSE "columns",
                          !.unread = @ \ {t},
                          !.seen = @ \cup (columns \cap ColumnsOf(t))]
      BY <1>1, <1>4, <2>2 DEF ReadColumns, Go
    <3>2. /\ q.names = p.names /\ q.unread = p.unread \ {t}
          /\ q.seen = p.seen \cup (columns \cap ColumnsOf(t))
          /\ q.at = IF p.unread = {t} THEN "add" ELSE "columns"
      BY <1>1, <3>1 DEF Process
    <3>3. UNCHANGED <<tables, columns>> /\ p.at = "columns"
      BY <1>4 DEF ReadColumns, database
    <3>4. Renamed \in columns => Renamed \in q.seen \/ "oidcsettings" \in q.unread
      BY <1>1, <3>2, <3>3, ColumnNames DEF Informed, ColumnsOf
    <3>5. q.seen \cap Added \subseteq columns
      BY <1>1, <3>2 DEF Informed
    <3>6. q.at = "add" => q.unread = {}
      BY <3>2
    <3> QED BY <1>1, <3>2, <3>3, <3>4, <3>5, <3>6
          DEF Informed, Present, Renamed, Added, Current
  <2> QED BY <2>1, <2>2
<1>5. CASE AddColumn(w)
  <2>1. CASE Exit(w)
    BY <1>1, <2>1, FreshInformed DEF Exit, Go
  <2>2. CASE ~Exit(w)
    <3>1. PICK c \in ToAdd(p) : /\ columns' = columns \cup {c}
                                /\ q = [p EXCEPT !.seen = @ \cup {c}]
      BY <1>1, <1>5, <2>2 DEF AddColumn, Go
    <3>2. /\ q.names = p.names /\ q.unread = p.unread /\ q.at = p.at
          /\ q.seen = p.seen \cup {c} /\ p.at = "add"
      BY <1>1, <1>5, <3>1 DEF Process, AddColumn
    <3>3. UNCHANGED tables /\ c # Renamed
      BY <1>5, ColumnNames DEF AddColumn, ToAdd
    <3> QED BY <1>1, <3>1, <3>2, <3>3 DEF Informed, Present, Renamed, Added, Current
  <2> QED BY <2>1, <2>2
<1>6. CASE Migrate(w)
  <2>1. CASE Exit(w)
    BY <1>1, <2>1, FreshInformed DEF Exit, Go
  <2>2. CASE ~Exit(w)
    <3>1. q = [p EXCEPT !.at = "admin"] /\ p.at = "add" /\ ToAdd(p) = {}
      BY <1>1, <1>6, <2>2 DEF Migrate, At, Go
    <3>2. /\ columns' = columns \ (IF Renamed \in p.seen THEN {Renamed} ELSE {})
          /\ tables' = IF "api_key" \in p.names
                       THEN [tables EXCEPT !["api_key"] = "absent"] ELSE tables
      BY <1>1, <1>6, <2>2 DEF Migrate, At, Go
    <3>3. \A t \in Tables : Present(t)' => Current(t) \subseteq columns'
      <4> SUFFICES ASSUME NEW t \in Tables, Present(t)', NEW c \in Current(t)
                   PROVE  c \in columns'
        OBVIOUS
      <4>1. Present(t)
        BY <3>2, TableNames DEF Present, TypeOK
      <4>2. t \in p.names => c \in p.seen
        BY <3>1 DEF ToAdd, Current
      <4>3. c \in columns
        BY <1>1, <3>1, <4>1, <4>2, ColumnNames DEF Informed
      <4> QED BY <3>2, <4>3, ColumnNames
    <3>4. Renamed \notin columns'
      BY <1>1, <3>1, <3>2 DEF Informed
    <3>5. ~Present("api_key")'
      BY <1>1, <3>1, <3>2, TableNames DEF Informed, Present, TypeOK
    <3>6. Migrated'
      BY <3>3, <3>4, <3>5 DEF Migrated, Renamed, Current, Added
    <3>7. q.at = "admin" /\ q.seen = p.seen
      BY <1>1, <3>1 DEF Process
    <3> QED BY <1>2, <3>6, <3>7 DEF Informed, Added, Renamed
  <2> QED BY <2>1, <2>2
<1>7. CASE FindAdmin(w) \/ Seed(w) \/ Purge(w)
  <2>1. q.seen = p.seen \/ q.seen = {}
    BY <1>1, <1>7 DEF FindAdmin, Seed, Purge, Exit, At, Go, Fresh, Process
  <2>2. q.at \notin {"columns", "add"}
    BY <1>7, Moves
  <2>3. Migrated'
    BY <1>1, <1>7, StaysMigrated DEF Informed, FindAdmin, Seed, Purge
  <2> QED BY <1>2, <2>1, <2>2, <2>3 DEF Informed, Added
<1>8. CASE Edit(w)
  BY <1>1, <1>8, OthersInformed DEF Edit
<1>9. CASE Restart(w) \/ Crash(w)
  BY <1>1, <1>9, FreshInformed DEF Restart, Crash, Exit, Go
<1>10. CASE LookUp(w) \/ CreateTable(w) \/ CreateIndex(w)
  <2>1. CASE Exit(w)
    BY <1>1, <2>1, FreshInformed DEF Exit, Go
  <2>2. CASE ~Exit(w)
    <3>1. q.seen = p.seen
      <4>1. CASE LookUp(w)
        BY <1>1, <4>1 DEF LookUp, Go, Process
      <4>2. CASE CreateTable(w)
        BY <1>1, <4>2 DEF CreateTable, At, Go, Process
      <4>3. CASE CreateIndex(w)
        <5>1. \A t : [p EXCEPT !.at = "create", !.missing = @ \ {t}].seen = p.seen
          BY <1>1 DEF Process
        <5> QED BY <1>1, <2>2, <4>3, <5>1 DEF CreateIndex, Go
      <4> QED BY <1>10, <4>1, <4>2, <4>3
    <3>2. q.at \in {"check", "create", "index", "names", "down"}
      BY <1>10, Moves
    <3> QED BY <1>2, <3>1, <3>2 DEF Informed, Added
  <2> QED BY <2>1, <2>2
<1> QED BY <1>3, <1>4, <1>5, <1>6, <1>7, <1>8, <1>9, <1>10 DEF Step, Start

LEMMA MigrationInit == Init => MigrationInv
<1> SUFFICES ASSUME Init PROVE MigrationInv
  OBVIOUS
<1>1. \A w \in Workers : worker[w] = Fresh
  BY DEF Init
<1>2. \A w \in Workers : Indexed(w) /\ Informed(w)
  <2>1. Fresh.at = "check" /\ Fresh.seen = {}
    BY DEF Fresh
  <2> QED BY <1>1, <2>1 DEF Indexed, Informed
<1>3. Renamed \in columns => Present("oidcsettings")
  BY TableNames DEF Init, Present
<1> QED BY <1>2, <1>3 DEF MigrationInv

LEMMA MigrationNext == TypeOK /\ MigrationInv /\ [Next]_vars => MigrationInv'
<1> SUFFICES ASSUME TypeOK, MigrationInv, [Next]_vars PROVE MigrationInv'
  OBVIOUS
<1>1. CASE UNCHANGED vars
  BY <1>1 DEF MigrationInv, Indexed, Informed, Migrated, IsFirst, Present, vars
<1>2. ASSUME NEW w \in Workers, Step(w) PROVE MigrationInv'
  <2>1. \A v \in Workers : Indexed(v)'
    BY <1>2, StaysIndexed DEF MigrationInv
  <2>2. \A v \in Workers : Informed(v)'
    BY <1>2, OwnInformed, OthersInformed, OwnRecord DEF MigrationInv, TypeOK
  <2>3. (Renamed \in columns => Present("oidcsettings"))'
    BY <1>2, Monotone, TableNames DEF MigrationInv, Renamed
  <2> QED BY <2>1, <2>2, <2>3 DEF MigrationInv
<1> QED BY <1>1, <1>2 DEF Next, Step

\* A worker that serves requests does so on tables in the shape of the models:
\* _migrate_schema of each worker has seen to what it found, and found all.
THEOREM ServesMigrated == Spec => []ReadyMigrated
<1>1. TypeOK /\ MigrationInv => ReadyMigrated
  BY DEF MigrationInv, Informed, Migrated, ReadyMigrated, Ready
<1> QED BY <1>1, TypeInit, TypeNext, MigrationInit, MigrationNext, PTL DEF Spec

-----------------------------------------------------------------------------
(* The mapping of the OIDC group *)

\* The group in force changes only by an edit: the copy that Migrate makes is
\* of the column it drops, and a late Migrate fails.
THEOREM KeepsMapping == Spec => MappingKept
<1>1. ASSUME TypeOK, NEW w \in Workers, Step(w)
      PROVE  Mapped' # Mapped => Ready(w) /\ UNCHANGED worker
  <2>1. CASE Edit(w)
    BY <2>1 DEF Edit, Ready
  <2>2. CASE Migrate(w)
    BY <2>2 DEF Migrate, Mapped, TypeOK
  <2>3. CASE AddColumn(w)
    <3>1. Renamed \in columns' <=> Renamed \in columns
      BY <2>3, ColumnNames DEF AddColumn, ToAdd
    <3> QED BY <2>3, <3>1 DEF AddColumn, Mapped, Renamed
  <2>4. CASE CreateTable(w)
    <3>1. Renamed \in columns' <=> Renamed \in columns
      BY <2>4, ColumnNames DEF CreateTable
    <3> QED BY <2>4, <3>1 DEF CreateTable, Mapped, Renamed
  <2>5. CASE UNCHANGED <<columns, mapping>>
    BY <2>5 DEF Mapped, Renamed
  <2> QED BY <1>1, <2>1, <2>2, <2>3, <2>4, <2>5
        DEF Step, Start, LookUp, CreateIndex, ReadNames, ReadColumns, FindAdmin,
            Seed, Purge, Restart, Crash, database
<1>2. TypeOK /\ [Next]_vars =>
        [Mapped' # Mapped => \E w \in Workers : Ready(w) /\ UNCHANGED worker]_vars
  BY <1>1 DEF Next, Step
<1> QED BY <1>2, Types, PTL DEF Spec, MappingKept

-----------------------------------------------------------------------------
(* The tables *)

\* A table of the set m is there only if those before it are.
Ordered(there, m) ==
    \A i, j \in 1 .. Len(CreateOrder) :
        /\ i < j /\ CreateOrder[i] \in m /\ CreateOrder[j] \in m
        /\ there[CreateOrder[j]] # "absent"
        => there[CreateOrder[i]] # "absent"

\* What create_all has found missing: every table that is, and the first of
\* them have been created since.
Listed(w) ==
    LET p == worker[w]
    IN  /\ p.at = "check" => \A i \in 1 .. Len(CreateOrder) :
             IF i < p.next THEN Present(CreateOrder[i]) \/ CreateOrder[i] \in p.missing
                           ELSE CreateOrder[i] \notin p.missing
        /\ p.at \in {"create", "index"} =>
             \A t \in Tables : Present(t) \/ t \in p.missing
        /\ Ordered(tables, p.missing)

\* Nobody has created a table that the worker has on its list.
Leading(w) ==
    LET p == worker[w]
    IN  \/ p.at = "down"
        \/ p.at \in {"check", "create"} /\ \A t \in p.missing : ~Present(t)
        \/ p.at = "index" /\ \A t \in p.missing : Present(t) => IsFirst(t, p.missing)

SchemaInv ==
    /\ \A w \in Workers : Indexed(w) /\ Listed(w)
    /\ (\E t \in Tables : ~Present(t)) => \E w \in Workers : Leading(w)

\* Only the first table on a list comes into being.
LEMMA NewTable ==
    ASSUME TypeOK, NEW w \in Workers, Indexed(w), Step(w),
           NEW t \in Tables, Present(t)', ~Present(t)
    PROVE  /\ CreateTable(w) /\ IsFirst(t, worker[w].missing)
           /\ worker' = [worker EXCEPT ![w].at = "index"]
           /\ \A u \in Tables : Present(u)' => Present(u) \/ u = t
<1> DEFINE p == worker[w]
<1>1. p.missing \subseteq Tables /\ Tables \subseteq AllTables
  BY TableNames DEF TypeOK, Process
<1>2. CASE CreateTable(w)
  <2>1. tables' # tables
    BY DEF Present
  <2>2. PICK u \in p.missing : /\ IsFirst(u, p.missing)
                               /\ tables' = [tables EXCEPT ![u] = "bare"]
                               /\ worker' = [worker EXCEPT ![w].at = "index"]
    BY <1>2, <2>1 DEF CreateTable, At, Go
  <2>3. \A v \in Tables : v # u => tables'[v] = tables[v]
    BY <2>2 DEF TypeOK
  <2>4. t = u
    BY <2>3 DEF Present
  <2> QED BY <1>2, <2>2, <2>3, <2>4 DEF Present
<1>3. CASE CreateIndex(w)
  <2>1. tables' # tables
    BY DEF Present
  <2>2. PICK u \in p.missing : /\ IsFirst(u, p.missing)
                               /\ tables' = [tables EXCEPT ![u] = "whole"]
    BY <1>3, <2>1 DEF CreateIndex
  <2>3. Present(u)
    BY <1>3, <2>2 DEF Indexed, CreateIndex
  <2> QED BY <1>1, <2>2, <2>3 DEF Present, TypeOK
<1>4. CASE Migrate(w)
  BY <1>4, TableNames DEF Migrate, Present, TypeOK
<1>5. CASE UNCHANGED tables
  BY <1>5 DEF Present
<1> QED BY <1>2, <1>3, <1>4, <1>5
      DEF Step, Start, LookUp, ReadNames, ReadColumns, AddColumn, FindAdmin,
          Seed, Purge, Restart, Edit, Crash, database

\* Tables are created in their order: the creator of a table has every missing
\* one on its list, and this one first.
LEMMA StaysOrdered ==
    ASSUME TypeOK, NEW w \in Workers, Indexed(w), Listed(w), Step(w),
           NEW m, Ordered(tables, m)
    PROVE  Ordered(tables', m)
<1> SUFFICES ASSUME NEW i \in 1 .. Len(CreateOrder), NEW j \in 1 .. Len(CreateOrder),
                    i < j, CreateOrder[i] \in m, CreateOrder[j] \in m,
                    Present(CreateOrder[j])'
             PROVE  Present(CreateOrder[i])'
  BY DEF Ordered, Present
<1>1. CreateOrder[i] \in Tables /\ CreateOrder[j] \in Tables
  BY TableNames
<1>2. CASE Present(CreateOrder[j])
  <2>1. Present(CreateOrder[i])
    BY <1>2 DEF Ordered, Present
  <2> QED BY <1>1, <2>1, Monotone
<1>3. CASE ~Present(CreateOrder[j])
  <2> DEFINE p == worker[w]
  <2>1. CreateTable(w) /\ IsFirst(CreateOrder[j], p.missing)
    BY <1>1, <1>3, NewTable
  <2>2. PICK k \in 1 .. Len(CreateOrder) :
            /\ CreateOrder[k] = CreateOrder[j]
            /\ \A l \in 1 .. k - 1 : CreateOrder[l] \notin p.missing
    BY <2>1 DEF IsFirst
  <2>3. k = j
    BY <2>2, ConstantsOK
  <2>4. CreateOrder[i] \notin p.missing
    BY <2>2, <2>3, TableNames
  <2>5. Present(CreateOrder[i])
    BY <1>1, <2>1, <2>4 DEF Listed, CreateTable
  <2> QED BY <1>1, <2>5, Monotone
<1> QED BY <1>2, <1>3

\* A worker whose record stays as it is has its list.
LEMMA OthersListed ==
    ASSUME TypeOK, NEW w \in Workers, Indexed(w), Listed(w), Step(w),
           NEW v \in Workers, Listed(v), worker'[v] = worker[v]
    PROVE  Listed(v)'
<1>1. Ordered(tables', worker'[v].missing)
  BY StaysOrdered DEF Listed
<1>2. worker'[v].at = "check" => \A i \in 1 .. Len(CreateOrder) :
        IF i < worker'[v].next
        THEN Present(CreateOrder[i])' \/ CreateOrder[i] \in worker'[v].missing
        ELSE CreateOrder[i] \notin worker'[v].missing
  BY Monotone, TableNames DEF Listed
<1>3. worker'[v].at \in {"create", "index"} =>
        \A t \in Tables : Present(t)' \/ t \in worker'[v].missing
  BY Monotone DEF Listed
<1> QED BY <1>1, <1>2, <1>3 DEF Listed, Present

\* The list of a worker that leaves create_all, or starts afresh, may be any
\* that is in order.
LEMMA DoneListed ==
    ASSUME NEW w \in Workers, Ordered(tables', worker'[w].missing),
           worker'[w].at \notin {"check", "create", "index"}
    PROVE  Listed(w)'
BY DEF Listed

LEMMA FreshListed ==
    ASSUME NEW w \in Workers, worker'[w] \in {Fresh, [Fresh EXCEPT !.at = "down"]}
    PROVE  Listed(w)'
<1>1. /\ worker'[w].at \in {"check", "down"} /\ worker'[w].missing = {}
      /\ worker'[w].next = 1
  BY DEF Fresh
<1> QED BY <1>1 DEF Listed, Ordered

\* A worker's own step keeps its list.
LEMMA OwnListed ==
    ASSUME TypeOK, NEW w \in Workers, Indexed(w), Listed(w), Step(w)
    PROVE  Listed(w)'
<1> DEFINE p == worker[w]
           q == worker'[w]
<1>1. p \in Process /\ worker \in [Workers -> Process]
  BY DEF TypeOK
<1>2. Ordered(tables', p.missing)
  BY StaysOrdered DEF Listed
<1>3. CASE LookUp(w)
  <2> DEFINE n == p.next
             t == CreateOrder[n]
             more == n < Len(CreateOrder)
             m == IF Present(t) THEN p.missing ELSE p.missing \cup {t}
  <2>1. /\ q.at = IF more THEN "check" ELSE "create"
        /\ q.next = IF more THEN n + 1 ELSE 1
        /\ q.missing = m
    BY <1>1, <1>3 DEF LookUp, Go, Process
  <2>2. UNCHANGED tables /\ p.at = "check" /\ n \in 1 .. Len(CreateOrder)
    BY <1>1, <1>3 DEF LookUp, database, Process
  <2>3. \A i \in 1 .. Len(CreateOrder) :
          IF i < n + 1 THEN Present(CreateOrder[i]) \/ CreateOrder[i] \in m
                       ELSE CreateOrder[i] \notin m
    <3> SUFFICES ASSUME NEW i \in 1 .. Len(CreateOrder)
                 PROVE  IF i < n + 1 THEN Present(CreateOrder[i]) \/ CreateOrder[i] \in m
                                     ELSE CreateOrder[i] \notin m
      OBVIOUS
    <3>1. CASE i < n
      BY <2>2, <3>1 DEF Listed
    <3>2. CASE i = n
      BY <2>2, <3>2
    <3>3. CASE i > n
      <4>1. CreateOrder[i] # t
        BY <2>2, <3>3, ConstantsOK
      <4> QED BY <2>2, <3>3, <4>1 DEF Listed
    <3> QED BY <2>2, <3>1, <3>2, <3>3, TableNames
  <2>4. Ordered(tables, m)
    <3> SUFFICES ASSUME NEW i \in 1 .. Len(CreateOrder),
                        NEW j \in 1 .. Len(CreateOrder),
                        i < j, CreateOrder[i] \in m, CreateOrder[j] \in m,
                        Present(CreateOrder[j]), ~Present(t)
                 PROVE  Present(CreateOrder[i])
      BY DEF Listed, Ordered, Present
    <3>1. CreateOrder[j] \in p.missing
      OBVIOUS
    <3>2. j < n
      BY <2>2, <3>1, TableNames DEF Listed
    <3>3. CreateOrder[i] \in p.missing
      <4>1. i # n
        BY <2>2, <3>2, TableNames
      <4>2. CreateOrder[i] # t
        BY <2>2, <4>1, ConstantsOK
      <4> QED BY <4>2
    <3> QED BY <3>1, <3>3 DEF Listed, Ordered, Present
  <2>5. CASE more
    <3>1. q.at = "check" /\ q.next = n + 1
      BY <2>1, <2>5
    <3> QED BY <2>1, <2>2, <2>3, <2>4, <3>1 DEF Listed, Present
  <2>6. CASE ~more
    <3>1. q.at = "create" /\ n = Len(CreateOrder)
      BY <2>1, <2>2, <2>6, TableNames
    <3>2. \A u \in Tables : Present(u) \/ u \in m
      BY <2>3, <3>1, TableNames
    <3> QED BY <2>1, <2>2, <2>4, <3>1, <3>2 DEF Listed, Present
  <2> QED BY <2>5, <2>6
<1>4. CASE CreateTable(w)
  <2>1. q.missing = p.missing /\ p.at = "create"
    BY <1>1, <1>4 DEF CreateTable, At, Go, Process
  <2>2. q.at \in {"index", "names"}
    BY <1>4, Moves
  <2>3. \A t \in Tables : Present(t)' \/ t \in p.missing
    BY <2>1, Monotone DEF Listed
  <2> QED BY <1>2, <2>1, <2>2, <2>3 DEF Listed, Present
<1>5. CASE CreateIndex(w)
  <2>1. CASE Exit(w)
    BY <1>1, <2>1, FreshListed DEF Exit, Go
  <2>2. CASE ~Exit(w)
    <3>1. PICK t \in p.missing :
              /\ IsFirst(t, p.missing)
              /\ q = [p EXCEPT !.at = "create", !.missing = @ \ {t}]
      BY <1>1, <1>5, <2>2 DEF CreateIndex, Go
    <3>2. q.at = "create" /\ q.missing = p.missing \ {t} /\ p.at = "index"
      BY <1>1, <1>5, <3>1 DEF CreateIndex, Process
    <3>3. Present(t) /\ t \in Tables
      BY <1>1, <3>1, <3>2 DEF Indexed, Process
    <3>4. \A u \in Tables : Present(u)' \/ u \in q.missing
      BY <3>2, <3>3, Monotone DEF Listed
    <3>5. Ordered(tables', q.missing)
      BY <1>2, <3>2 DEF Ordered
    <3> QED BY <3>2, <3>4, <3>5 DEF Listed, Present
  <2> QED BY <2>1, <2>2
<1>6. CASE ReadNames(w)
  <2>1. q.missing = {} /\ q.at = "columns"
    BY <1>1, <1>6 DEF ReadNames, Go, Process
  <2>2. Ordered(tables', q.missing)
    BY <2>1 DEF Ordered
  <2> QED BY <2>1, <2>2, DoneListed
<1>7. CASE Restart(w) \/ Crash(w)
  BY <1>1, <1>7, FreshListed DEF Restart, Crash, Exit, Go
<1>8. CASE Edit(w)
  BY <1>8, OthersListed DEF Edit
<1>9. CASE \/ ReadColumns(w) \/ AddColumn(w) \/ Migrate(w)
           \/ FindAdmin(w) \/ Seed(w) \/ Purge(w)
  <2>1. CASE Exit(w)
    BY <1>1, <2>1, FreshListed DEF Exit, Go
  <2>2. CASE ~Exit(w)
    <3>1. q.missing = p.missing
      <4>1. CASE ReadColumns(w)
        <5>1. \A t, at : [p EXCEPT !.at = at, !.unread = @ \ {t},
                            !.seen = @ \cup (columns \cap ColumnsOf(t))].missing
                         = p.missing
          BY <1>1 DEF Process
        <5>2. PICK t, at :
                Go(w, [p EXCEPT !.at = at, !.unread = @ \ {t},
                                !.seen = @ \cup (columns \cap ColumnsOf(t))])
          BY <2>2, <4>1 DEF ReadColumns
        <5>3. q = [p EXCEPT !.at = at, !.unread = @ \ {t},
                            !.seen = @ \cup (columns \cap ColumnsOf(t))]
          BY <1>1, <5>2 DEF Go
        <5> QED BY <5>1, <5>3
      <4>2. CASE AddColumn(w)
        <5>1. \A c : [p EXCEPT !.seen = @ \cup {c}].missing = p.missing
          BY <1>1 DEF Process
        <5> QED BY <1>1, <2>2, <4>2, <5>1 DEF AddColumn, Go
      <4>3. CASE Migrate(w) \/ FindAdmin(w) \/ Seed(w) \/ Purge(w)
        BY <1>1, <2>2, <4>3 DEF Migrate, FindAdmin, Seed, Purge, At, Go, Process
      <4> QED BY <1>9, <4>1, <4>2, <4>3
    <3>2. q.at \notin {"check", "create", "index"}
      BY <1>9, Moves
    <3>3. Ordered(tables', q.missing)
      BY <1>2, <3>1 DEF Ordered
    <3> QED BY <3>2, <3>3, DoneListed
  <2> QED BY <2>1, <2>2
<1> QED BY <1>3, <1>4, <1>5, <1>6, <1>7, <1>8, <1>9 DEF Step, Start

\* Whoever creates a table takes the lead.
LEMMA CreatorLeads ==
    ASSUME TypeOK, NEW w \in Workers, Indexed(w), Listed(w), Step(w),
           NEW t \in Tables, Present(t)', ~Present(t)
    PROVE  Leading(w)'
<1> DEFINE p == worker[w]
<1>1. p \in Process /\ worker \in [Workers -> Process]
  BY DEF TypeOK
<1>2. /\ IsFirst(t, p.missing) /\ p.at = "create"
      /\ worker'[w] = [p EXCEPT !.at = "index"]
      /\ \A u \in Tables : Present(u)' => Present(u) \/ u = t
  BY <1>1, NewTable DEF CreateTable
<1>3. worker'[w].at = "index" /\ worker'[w].missing = p.missing
  BY <1>1, <1>2 DEF Process
<1>4. PICK k \in 1 .. Len(CreateOrder) :
          CreateOrder[k] = t /\ \A i \in 1 .. k - 1 : CreateOrder[i] \notin p.missing
  BY <1>2 DEF IsFirst
<1>5. ASSUME NEW u \in p.missing, Present(u), u # t PROVE FALSE
  <2>1. u \in Tables
    BY <1>1 DEF Process
  <2>2. PICK j \in 1 .. Len(CreateOrder) : CreateOrder[j] = u
    BY <2>1, TableNames
  <2>3. k < j
    BY <1>4, <1>5, <2>2, TableNames
  <2>4. t \in p.missing
    BY <1>2 DEF IsFirst
  <2> QED BY <1>4, <1>5, <2>2, <2>3, <2>4 DEF Listed, Ordered, Present
<1>6. \A u \in p.missing : Present(u)' => u = t
  BY <1>1, <1>2, <1>5 DEF Process
<1> QED BY <1>2, <1>3, <1>6 DEF Leading, IsFirst

\* A worker in the lead keeps it until it or another creates a table; it does
\* not run out of tables to create while one is missing.
LEMMA LeaderStays ==
    ASSUME TypeOK, NEW w \in Workers, Indexed(w), Listed(w), Step(w),
           \A t \in Tables : Present(t)' => Present(t),
           \E t \in Tables : ~Present(t)',
           NEW v \in Workers, Leading(v)
    PROVE  Leading(v)'
<1> DEFINE p == worker[w]
           q == worker'[w]
<1>1. p \in Process /\ worker \in [Workers -> Process]
  BY DEF TypeOK
<1>2. \A x \in Workers : worker[x].missing \subseteq Tables
  BY DEF TypeOK, Process
<1>3. CASE worker'[v] = worker[v]
  <2>1. \A t \in worker'[v].missing : Present(t)' => Present(t)
    BY <1>2, <1>3
  <2> QED BY <1>3, <2>1 DEF Leading, IsFirst
<1>4. CASE worker'[v] # worker[v]
  <2>1. v = w
    BY <1>1, <1>4, OwnRecord
  <2>2. CASE q.at = "down"
    BY <2>1, <2>2 DEF Leading
  <2>3. CASE LookUp(w)
    <3>1. /\ q.at \in {"check", "create"}
          /\ \/ q.missing = p.missing
             \/ /\ ~Present(CreateOrder[p.next])
                /\ q.missing = p.missing \cup {CreateOrder[p.next]}
      BY <1>1, <2>3 DEF LookUp, Go, Process
    <3>2. \A t \in q.missing : ~Present(t)
      BY <2>1, <2>3, <3>1 DEF Leading, LookUp
    <3>3. UNCHANGED tables
      BY <2>3 DEF LookUp, database
    <3> QED BY <2>1, <3>1, <3>2, <3>3 DEF Leading, Present
  <2>4. CASE CreateTable(w)
    <3>1. PICK t \in p.missing :
              \/ Present(t)
              \/ tables' = [tables EXCEPT ![t] = "bare"]
      BY <2>4 DEF CreateTable
    <3>2. ~Present(t)
      BY <2>1, <2>4 DEF Leading, CreateTable
    <3>3. t \in Tables /\ t \in AllTables
      BY <1>2, TableNames
    <3>4. Present(t)'
      BY <3>1, <3>2, <3>3 DEF Present, TypeOK
    <3> QED BY <3>2, <3>3, <3>4
  <2>5. CASE CreateIndex(w) /\ q.at # "down"
    <3>1. ~Exit(w)
      BY <1>1, <2>5 DEF Exit, Go, Fresh
    <3>2. PICK t \in p.missing :
              /\ IsFirst(t, p.missing)
              /\ q = [p EXCEPT !.at = "create", !.missing = @ \ {t}]
      BY <1>1, <2>5, <3>1 DEF CreateIndex, Go
    <3>3. q.at = "create" /\ q.missing = p.missing \ {t} /\ p.at = "index"
      BY <1>1, <2>5, <3>2 DEF CreateIndex, Process
    <3>4. \A u \in p.missing : Present(u) => u = t
      BY <2>1, <3>2, <3>3, OneFirst DEF Leading
    <3>5. \A u \in q.missing : ~Present(u)'
      BY <1>2, <3>3, <3>4
    <3> QED BY <2>1, <3>3, <3>5 DEF Leading
  <2>6. CASE ReadNames(w)
    <3>1. p.at = "create" /\ p.missing = {}
      BY <2>1, <2>6 DEF Leading, ReadNames
    <3>2. \A t \in Tables : Present(t)
      BY <3>1 DEF Listed
    <3> QED BY <3>2, Monotone
  <2>7. CASE Restart(w)
    <3>1. q.at = "check" /\ q.missing = {}
      BY <1>1, <2>7 DEF Restart, Go, Fresh
    <3> QED BY <2>1, <3>1 DEF Leading
  <2>8. p.at \in {"down", "check", "create", "index"}
    BY <2>1 DEF Leading
  <2>9. ~Edit(w) /\ (Crash(w) => q.at = "down")
    BY <1>4, Moves DEF Edit
  <2> QED BY <2>2, <2>3, <2>4, <2>5, <2>6, <2>7, <2>8, <2>9
        DEF Step, Start, ReadColumns, AddColumn, Migrate, FindAdmin, Seed, Purge
<1> QED BY <1>3, <1>4

LEMMA SchemaInit == Init => SchemaInv
<1> SUFFICES ASSUME Init PROVE SchemaInv
  OBVIOUS
<1>1. \A w \in Workers : worker[w] = Fresh
  BY DEF Init
<1>2. Fresh.at = "check" /\ Fresh.next = 1 /\ Fresh.missing = {}
  BY DEF Fresh
<1>3. \A w \in Workers : Indexed(w) /\ Leading(w)
  BY <1>1, <1>2 DEF Indexed, Leading
<1>4. \A w \in Workers : Listed(w)
  <2>1. \A i \in 1 .. Len(CreateOrder) : ~(i < 1)
    BY TableNames
  <2> QED BY <1>1, <1>2, <2>1 DEF Listed, Ordered
<1>5. Workers # {}
  BY ConstantsOK
<1> QED BY <1>3, <1>4, <1>5 DEF SchemaInv

LEMMA SchemaNext == TypeOK /\ SchemaInv /\ [Next]_vars => SchemaInv'
<1> SUFFICES ASSUME TypeOK, SchemaInv, [Next]_vars PROVE SchemaInv'
  OBVIOUS
<1>1. CASE UNCHANGED vars
  BY <1>1 DEF SchemaInv, Indexed, Listed, Leading, IsFirst, Present, vars
<1>2. ASSUME NEW w \in Workers, Step(w) PROVE SchemaInv'
  <2>1. \A v \in Workers : Indexed(v)'
    BY <1>2, StaysIndexed DEF SchemaInv
  <2>2. \A v \in Workers : Listed(v)'
    BY <1>2, OwnListed, OthersListed, OwnRecord DEF SchemaInv, TypeOK
  <2>3. ASSUME \E t \in Tables : ~Present(t)'
        PROVE  \E v \in Workers : Leading(v)'
    <3>1. CASE \E t \in Tables : Present(t)' /\ ~Present(t)
      BY <1>2, <3>1, CreatorLeads DEF SchemaInv
    <3>2. CASE \A t \in Tables : Present(t)' => Present(t)
      <4>1. \E t \in Tables : ~Present(t)
        BY <1>2, <2>3, Monotone DEF SchemaInv
      <4>2. PICK v \in Workers : Leading(v)
        BY <4>1 DEF SchemaInv
      <4> QED BY <1>2, <2>3, <3>2, <4>2, LeaderStays DEF SchemaInv
    <3> QED BY <3>1, <3>2
  <2> QED BY <2>1, <2>2, <2>3 DEF SchemaInv
<1> QED BY <1>1, <1>2 DEF Next, Step

\* When every worker is ready no table is missing, though create_all ends at
\* the first table another worker has created: while one is missing somebody
\* leads, and a worker that is ready does not.
THEOREM CompletesSchema == Spec => []SchemaComplete
<1>1. SchemaInv => SchemaComplete
  BY ConstantsOK DEF SchemaInv, SchemaComplete, Ready, Leading
<1> QED BY <1>1, TypeInit, TypeNext, SchemaInit, SchemaNext, PTL DEF Spec

-----------------------------------------------------------------------------
(* The default administrator *)

\* The image starts uvicorn with two workers.
TwoWorkers == \A u, v, w \in Workers : u = v \/ v = w \/ u = w

\* Until somebody is killed, the table of accounts is without its unique index
\* only while its creator is on the way there, and of the others one at most is
\* about to seed.
AdminInv ==
    crashes = 0 =>
        /\ admins <= 1
        /\ tables["user"] = "absent" => admins = 0
        /\ \A w \in Workers : worker[w].at = "seed" => Present("user")
        /\ tables["user"] = "bare" =>
             /\ \E w \in Workers : /\ worker[w].at = "index"
                                   /\ IsFirst("user", worker[w].missing)
             /\ \A w \in Workers : worker[w].at = "seed" => admins = 0

LEMMA AdminInit == Init => AdminInv
<1> SUFFICES ASSUME Init PROVE AdminInv
  OBVIOUS
<1>1. \A w \in Workers : worker[w].at = "check"
  BY DEF Init, Fresh
<1>2. "user" \in AllTables /\ "user" # "pat"
  BY TableNames
<1>3. admins <= 1 /\ tables["user"] # "bare"
  BY <1>2 DEF Init
<1>4. tables["user"] = "absent" => admins = 0
  BY <1>2 DEF Init
<1> QED BY <1>1, <1>3, <1>4 DEF AdminInv

\* What becomes of the table of accounts in a step that adds no account.
LEMMA UserTable ==
    ASSUME TypeOK, NEW w \in Workers, Indexed(w), Step(w)
    PROVE  \/ tables'["user"] = tables["user"]
           \/ /\ CreateTable(w) /\ tables["user"] = "absent"
              /\ tables'["user"] = "bare"
              /\ IsFirst("user", worker[w].missing)
              /\ worker' = [worker EXCEPT ![w].at = "index"]
           \/ tables'["user"] = "whole"
<1>1. "user" \in AllTables /\ "user" \in Tables /\ "user" # "api_key"
  BY TableNames
<1>2. CASE CreateTable(w)
  <2>1. CASE UNCHANGED tables
    BY <2>1
  <2>2. CASE ~UNCHANGED tables
    <3>1. PICK t \in worker[w].missing :
              /\ IsFirst(t, worker[w].missing) /\ ~Present(t)
              /\ tables' = [tables EXCEPT ![t] = "bare"]
              /\ worker' = [worker EXCEPT ![w].at = "index"]
      BY <1>2, <2>2 DEF CreateTable, At, Go
    <3> QED BY <1>1, <1>2, <3>1 DEF TypeOK, Present
  <2> QED BY <2>1, <2>2
<1>3. CASE CreateIndex(w)
  <2>1. \A t : tables' = [tables EXCEPT ![t] = "whole"] =>
          tables'["user"] \in {tables["user"], "whole"}
    BY <1>1 DEF TypeOK
  <2> QED BY <1>3, <2>1 DEF CreateIndex
<1>4. CASE Migrate(w)
  BY <1>1, <1>4 DEF Migrate, TypeOK
<1>5. CASE UNCHANGED tables
  BY <1>5
<1> QED BY <1>2, <1>3, <1>4, <1>5
      DEF Step, Start, LookUp, ReadNames, ReadColumns, AddColumn, FindAdmin,
          Seed, Purge, Restart, Edit, Crash, database

\* The creator of the table of accounts stays on its way to the index.
LEMMA CreatorStays ==
    ASSUME TypeOK, AdminInv, NEW w \in Workers, Indexed(w), Step(w),
           crashes = 0, ~Crash(w),
           tables["user"] = "bare", tables'["user"] = "bare",
           NEW v \in Workers, worker[v].at = "index",
           IsFirst("user", worker[v].missing)
    PROVE  worker'[v] = worker[v]
<1>1. CASE v # w
  BY <1>1, OwnRecord DEF TypeOK
<1>2. CASE v = w
  <2>1. CreateIndex(w) \/ Edit(w)
    BY <1>2
    DEF Step, Start, LookUp, CreateTable, ReadNames, ReadColumns, AddColumn,
        Migrate, FindAdmin, Seed, Purge, Restart
  <2>2. ~CreateIndex(w)
    <3> SUFFICES ASSUME CreateIndex(w) PROVE FALSE
      OBVIOUS
    <3>1. PICK t \in worker[w].missing :
              /\ IsFirst(t, worker[w].missing)
              /\ IF t = "user" /\ admins > 1
                 THEN Exit(w) /\ UNCHANGED tables
                 ELSE tables' = [tables EXCEPT ![t] = "whole"]
      BY DEF CreateIndex
    <3>2. t = "user"
      BY <1>2, <3>1, OneFirst
    <3>3. ~(admins > 1)
      BY DEF AdminInv, TypeOK
    <3>4. tables' = [tables EXCEPT !["user"] = "whole"]
      BY <3>1, <3>2, <3>3
    <3>5. tables'["user"] = "whole"
      BY <3>4, TableNames DEF TypeOK
    <3> QED BY <3>5
  <2> QED BY <1>2, <2>1, <2>2 DEF Edit
<1> QED BY <1>1, <1>2

LEMMA AdminNext ==
    ASSUME TwoWorkers
    PROVE  TypeOK /\ SchemaInv /\ AdminInv /\ [Next]_vars => AdminInv'
<1> SUFFICES ASSUME TypeOK, SchemaInv, AdminInv, [Next]_vars PROVE AdminInv'
  OBVIOUS
<1>1. CASE UNCHANGED vars
  BY <1>1 DEF AdminInv, IsFirst, Present, vars
<1>2. ASSUME NEW w \in Workers, Step(w), crashes' = 0 PROVE AdminInv'
  <2>1. ~Crash(w) /\ crashes = 0
    <3>1. ~Crash(w)
      BY <1>2, ConstantsOK DEF TypeOK, Crash
    <3>2. UNCHANGED crashes
      BY <1>2, <3>1
      DEF Step, Start, LookUp, CreateTable, CreateIndex, ReadNames, ReadColumns,
          AddColumn, Migrate, FindAdmin, Seed, Purge, Restart, Edit, database
    <3> QED BY <1>2, <3>1, <3>2
  <2>2. "user" \in Tables /\ "user" \in AllTables /\ Indexed(w)
    BY TableNames DEF SchemaInv
  <2>3. worker \in [Workers -> Process] /\ admins \in Nat
    BY DEF TypeOK
  <2>4. \A v \in Workers : v # w => worker'[v] = worker[v]
    BY <1>2, <2>3, OwnRecord
  <2>5. Present("user") => Present("user")'
    BY <1>2, <2>2, Monotone
  <2>6. ASSUME NEW v \in Workers, worker'[v].at = "seed", worker[v].at # "seed"
        PROVE  Present("user") /\ admins = 0 /\ UNCHANGED database
    <3>1. v = w
      BY <2>4, <2>6
    <3>2. FindAdmin(w)
      <4>1. ~Edit(w)
        BY <2>6 DEF Edit
      <4> QED BY <1>2, <2>6, <3>1, <4>1, Moves DEF Step, Start
    <3>3. ~Exit(w)
      BY <2>3, <2>6, <3>1 DEF Exit, Go, Fresh
    <3>4. Readable("user") /\ At(w, IF admins > 0 THEN "purge" ELSE "seed")
      BY <3>2, <3>3 DEF FindAdmin
    <3>5. ~(admins > 0)
      BY <2>3, <2>6, <3>1, <3>4 DEF At, Go, Process
    <3> QED BY <2>3, <3>2, <3>4, <3>5 DEF FindAdmin, Readable
  <2>7. \A v \in Workers : worker'[v].at = "seed" => Present("user")'
    BY <2>1, <2>5, <2>6 DEF AdminInv
  <2>8. CASE Seed(w)
    <3>1. worker[w].at = "seed" /\ Present("user") /\ UNCHANGED tables
      BY <2>1, <2>8 DEF Seed, AdminInv
    <3>2. worker'[w].at = "purge"
      BY <2>8, Moves
    <3>3. admins' <= 1
      BY <2>1, <2>2, <2>3, <2>8, <3>1 DEF Seed, AdminInv, Present, TypeOK
    <3>4. tables'["user"] # "absent"
      BY <3>1 DEF Present
    <3>5. ASSUME tables'["user"] = "bare"
          PROVE  /\ \E v \in Workers : /\ worker'[v].at = "index"
                                       /\ IsFirst("user", worker'[v].missing)
                 /\ \A v \in Workers : worker'[v].at # "seed"
      <4>1. PICK a \in Workers : /\ worker[a].at = "index"
                                 /\ IsFirst("user", worker[a].missing)
        BY <2>1, <3>1, <3>5 DEF AdminInv
      <4>2. a # w
        BY <3>1, <4>1
      <4>3. \A v \in Workers : v = a \/ v = w
        BY <4>2 DEF TwoWorkers
      <4> QED BY <2>4, <3>2, <4>1, <4>2, <4>3
    <3> QED BY <2>7, <3>3, <3>4, <3>5 DEF AdminInv, IsFirst
  <2>9. CASE ~Seed(w)
    <3>1. admins' = admins
      BY <1>2, <2>9
      DEF Step, Start, LookUp, CreateTable, CreateIndex, ReadNames, ReadColumns,
          AddColumn, Migrate, FindAdmin, Purge, Restart, Edit, Crash, database
    <3>2. tables'["user"] = "absent" => admins' = 0
      BY <2>1, <2>5, <3>1 DEF AdminInv, Present
    <3>3. ASSUME tables'["user"] = "bare"
          PROVE  /\ \E v \in Workers : /\ worker'[v].at = "index"
                                       /\ IsFirst("user", worker'[v].missing)
                 /\ \A v \in Workers : worker'[v].at = "seed" => admins' = 0
      <4>1. CASE tables["user"] = "bare"
        <5>1. PICK a \in Workers : /\ worker[a].at = "index"
                                   /\ IsFirst("user", worker[a].missing)
          BY <2>1, <4>1 DEF AdminInv
        <5>2. worker'[a] = worker[a]
          BY <1>2, <2>1, <2>2, <3>3, <4>1, <5>1, CreatorStays
        <5>3. \A v \in Workers : worker'[v].at = "seed" => admins' = 0
          BY <2>1, <2>6, <3>1, <4>1 DEF AdminInv
        <5> QED BY <5>1, <5>2, <5>3
      <4>2. CASE tables["user"] # "bare"
        <5>1. /\ CreateTable(w) /\ tables["user"] = "absent"
              /\ IsFirst("user", worker[w].missing)
              /\ worker' = [worker EXCEPT ![w].at = "index"]
          BY <1>2, <2>2, <3>3, <4>2, UserTable
        <5>2. worker'[w].at = "index" /\ worker'[w].missing = worker[w].missing
          BY <2>3, <5>1 DEF Process
        <5>3. admins' = 0
          BY <2>1, <3>1, <5>1 DEF AdminInv
        <5> QED BY <5>1, <5>2, <5>3
      <4> QED BY <4>1, <4>2
    <3> QED BY <2>1, <2>7, <3>1, <3>2, <3>3 DEF AdminInv, IsFirst
  <2> QED BY <2>8, <2>9
<1>3. (crashes' # 0) => AdminInv'
  BY DEF AdminInv
<1> QED BY <1>1, <1>2, <1>3 DEF Next, Step

\* Two workers that both find no administrator seed one, unless one is killed:
\* while the unique index is missing, its creator is busy creating it, and only
\* the other can seed.  A third worker would break this.
THEOREM SeedsOnce ==
    ASSUME TwoWorkers
    PROVE  Spec => []OneDefaultAdmin
<1>1. AdminInv => OneDefaultAdmin
  BY DEF AdminInv, OneDefaultAdmin
<1>2. TypeOK /\ SchemaInv /\ AdminInv /\ [Next]_vars => AdminInv'
  BY AdminNext
<1> QED BY <1>1, <1>2, TypeInit, TypeNext, SchemaInit, SchemaNext, AdminInit, PTL
      DEF Spec
=============================================================================
