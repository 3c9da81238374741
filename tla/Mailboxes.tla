----------------------------- MODULE Mailboxes -----------------------------
(***************************************************************************)
(* mailbox_service: the mail accounts of docker-mailserver, kept in files  *)
(* of its config directory.                                                *)
(*                                                                         *)
(* No file is locked and no operation spans one command: a request reads a *)
(* file with one `docker exec`, rewrites the whole of it with another, and *)
(* goes on to the next file.  One action is one such command.  A worker    *)
(* serves one of these requests at a time (they block its event loop) and  *)
(* any number of Sieve requests, which run in threads; there are two       *)
(* workers.  A rewrite is atomic here; ConfigStore refines it.             *)
(*                                                                         *)
(* A command can fail, and one that times out is only abandoned: what it   *)
(* does inside the container may still happen later.                       *)
(***************************************************************************)
EXTENDS Naturals, FiniteSets

CONSTANTS
    Slots,          \* requests that can be in flight together
    Addrs,          \* mail addresses
    NoAddr,         \* no address
    Passwords,      \* password hashes
    Quotas,         \* quotas
    NoValue,        \* no password, no quota
    Script,         \* the content of a Sieve filter
    AccountsFile,   \* postfix-accounts.cf: lines <<address, hash>>
    QuotasFile,     \* dovecot-quotas.cf: lines <<address, quota>>
    VirtualFile,    \* postfix-virtual.cf: lines <<alias, target>>
    Ops,            \* the operations clients call
    Faults,         \* what can happen to a command: "error", "timeout"
    MaxLate         \* bound on abandoned commands still running

AllOps == {"create", "delete", "set_password", "set_quota", "add_alias",
           "delete_alias", "set_sieve", "delete_sieve"}

ASSUME ConstantsOK ==
    /\ Ops \subseteq AllOps
    /\ Faults \subseteq {"error", "timeout"}
    /\ MaxLate \in Nat
    /\ {AccountsFile, QuotasFile, VirtualFile} \cap Addrs = {}
    /\ AccountsFile # QuotasFile /\ VirtualFile \notin {AccountsFile, QuotasFile}
    /\ NoAddr \notin Addrs /\ NoValue \notin Passwords \cup Quotas

\* The Sieve filter of an address is a file of its own, named after it.
Files == {AccountsFile, QuotasFile, VirtualFile} \cup Addrs
Lines == Addrs \X (Addrs \cup Passwords \cup Quotas \cup {Script})

VARIABLES
    disk,   \* file -> the set of its lines, {} when absent
    late,   \* abandoned commands that may still take effect
    req     \* the request each slot serves

vars == <<disk, late, req>>

Stages == {"idle", "accounts", "write_accounts", "source", "quotas",
           "write_quotas", "virtual", "write_virtual", "write_sieve"}

\* What a request holds: its parameters, the file it read last and, once it is
\* answered, whether the client was told it succeeded.
Request == [op : AllOps \cup {"none"}, at : Stages,
            addr : Addrs \cup {NoAddr}, alias : Addrs \cup {NoAddr},
            pw : Passwords \cup {NoValue}, quota : Quotas \cup {NoValue},
            read : SUBSET Lines, ok : BOOLEAN,
            alone : BOOLEAN]   \* history: nothing else went on since it arrived

Idle == [op |-> "none", at |-> "idle", addr |-> NoAddr, alias |-> NoAddr,
         pw |-> NoValue, quota |-> NoValue, read |-> {}, ok |-> FALSE,
         alone |-> FALSE]

Command == [file : Files, lines : SUBSET Lines]

TypeOK ==
    /\ disk \in [Files -> SUBSET Lines]
    /\ late \subseteq Command
    /\ req \in [Slots -> Request]

-----------------------------------------------------------------------------

\* Lines of accounts, quotas and filters that are about an address.
About(lines, a) == {l \in lines : l[1] = a}
\* Alias lines that forward to it.
To(lines, a) == {l \in lines : l[2] = a}

IsMailbox(a) == About(disk[AccountsFile], a) # {}

Continue(s, r) == req' = [req EXCEPT ![s] = r]
Answer(s, ok) == Continue(s, [Idle EXCEPT !.ok = ok])

\* Read a file, remember it, go to a stage.
Read(s, f, at) ==
    Continue(s, [req[s] EXCEPT !.at = at, !.read = disk[f]])

\* Go to a stage with nothing read.
Skip(s, at) == Continue(s, [req[s] EXCEPT !.at = at, !.read = {}])

\* Run a command that replaces the content of a file.
Execute(s, f, lines, next) ==
    \/ /\ disk' = [disk EXCEPT ![f] = lines]
       /\ IF next = "idle"
          THEN Answer(s, TRUE)
          ELSE Skip(s, next)
       /\ UNCHANGED late
    \/ /\ "error" \in Faults
       /\ Answer(s, FALSE)
       /\ UNCHANGED <<disk, late>>
    \/ /\ "timeout" \in Faults /\ Cardinality(late) < MaxLate
       /\ Answer(s, FALSE)
       /\ late' = late \cup {[file |-> f, lines |-> lines]}
       /\ UNCHANGED disk

\* A read that fails ends the request.
Abort(s) ==
    /\ "error" \in Faults
    /\ req[s].at \in {"accounts", "source", "quotas", "virtual"}
    /\ Answer(s, FALSE)
    /\ UNCHANGED <<disk, late>>

\* An abandoned command takes effect.
Land ==
    \E c \in late : /\ disk' = [disk EXCEPT ![c.file] = c.lines]
                    /\ late' = late \ {c}
                    /\ UNCHANGED req

-----------------------------------------------------------------------------

\* A request is admitted: those in flight are not alone any more, and it is not
\* if there are some or if an abandoned command may still take effect.
Admit(s, r) ==
    req' = [t \in Slots |->
              IF t = s
              THEN [r EXCEPT !.alone = /\ late = {}
                                       /\ \A u \in Slots : req[u].op = "none"]
              ELSE [req[t] EXCEPT !.alone = FALSE]]

Arrive(s) ==
    /\ req[s].op = "none"
    /\ \E op \in Ops, a \in Addrs :
         LET r == [Idle EXCEPT !.op = op, !.at = "accounts", !.addr = a]
         IN  \/ /\ op = "create"
                /\ \E p \in Passwords, q \in Quotas \cup {NoValue} :
                     Admit(s, [r EXCEPT !.pw = p, !.quota = q])
             \/ /\ op = "set_password"
                /\ \E p \in Passwords : Admit(s, [r EXCEPT !.pw = p])
             \/ /\ op = "set_quota"
                /\ \E q \in Quotas \cup {NoValue} :
                     Admit(s, [r EXCEPT !.quota = q])
             \/ /\ op \in {"add_alias", "delete_alias"}
                /\ \E b \in Addrs : Admit(s, [r EXCEPT !.alias = b])
             \/ /\ op \in {"delete", "set_sieve", "delete_sieve"}
                /\ Admit(s, r)
    /\ UNCHANGED <<disk, late>>

\* Mutant: creation does not look for an existing account.
ReadAccountsNoConflict(s) ==
    LET r == req[s]
    IN  /\ r.at = "accounts"
        /\ IF r.op # "create" /\ ~IsMailbox(r.addr)
           THEN Answer(s, FALSE)
           ELSE Read(s, AccountsFile, "write_accounts")
        /\ UNCHANGED <<disk, late>>

\* Mutant: deletion strips the quota and the aliases only.
ReadAccountsKeep(s) ==
    LET r == req[s]
    IN  /\ r.at = "accounts"
        /\ IF (r.op = "create") = IsMailbox(r.addr)
           THEN Answer(s, FALSE)
           ELSE IF r.op = "create" THEN Read(s, AccountsFile, "write_accounts")
                                   ELSE Skip(s, "quotas")
        /\ UNCHANGED <<disk, late>>

\* Creation refuses an existing account; everything else needs one.
ReadAccounts(s) ==
    LET r == req[s]
    IN  /\ r.at = "accounts"
        /\ IF \/ (r.op = "create") = IsMailbox(r.addr)
              \/ r.op = "add_alias" /\ r.alias = r.addr
           THEN Answer(s, FALSE)
           ELSE CASE r.op \in {"create", "delete", "set_password"} ->
                       Read(s, AccountsFile, "write_accounts")
                  [] r.op = "set_quota" -> Skip(s, "quotas")
                  [] r.op = "add_alias" -> Skip(s, "source")
                  [] r.op = "delete_alias" -> Skip(s, "virtual")
                  [] r.op \in {"set_sieve", "delete_sieve"} ->
                       Skip(s, "write_sieve")
        /\ UNCHANGED <<disk, late>>

\* Mutant: a password change writes the account's line alone.
AccountLinesAlone(r) ==
    CASE r.op = "create"       -> r.read \cup {<<r.addr, r.pw>>}
      [] r.op = "delete"       -> r.read \ About(r.read, r.addr)
      [] r.op = "set_password" -> {<<r.addr, r.pw>>}

\* The accounts file a request writes: creation appends a line to those it
\* read, the others rewrite them.
AccountLines(r) ==
    CASE r.op = "create"       -> r.read \cup {<<r.addr, r.pw>>}
      [] r.op = "delete"       -> r.read \ About(r.read, r.addr)
      [] r.op = "set_password" -> (r.read \ About(r.read, r.addr))
                                    \cup {<<r.addr, r.pw>>}

WriteAccounts(s) ==
    LET r == req[s]
    IN  /\ r.at = "write_accounts"
        /\ Execute(s, AccountsFile, AccountLines(r),
                   IF r.op = "delete" \/ (r.op = "create" /\ r.quota # NoValue)
                   THEN "quotas" ELSE "idle")

\* Mutant: a mailbox without a quota is taken for one with nothing to remove.
ReadQuotasReturn(s) ==
    LET r == req[s]
    IN  /\ r.at = "quotas"
        /\ IF r.quota # NoValue \/ About(disk[QuotasFile], r.addr) # {}
           THEN Read(s, QuotasFile, "write_quotas")
           ELSE Answer(s, TRUE)
        /\ UNCHANGED <<disk, late>>

\* Nothing is written when there is no quota to remove.
ReadQuotas(s) ==
    LET r == req[s]
    IN  /\ r.at = "quotas"
        /\ IF r.quota # NoValue \/ About(disk[QuotasFile], r.addr) # {}
           THEN Read(s, QuotasFile, "write_quotas")
           ELSE IF r.op = "delete"
                THEN Skip(s, "virtual")
                ELSE Answer(s, TRUE)
        /\ UNCHANGED <<disk, late>>

\* Mutant: a cleared quota is written as a line without a value.
QuotaLinesEmpty(r) ==
    (r.read \ About(r.read, r.addr)) \cup {<<r.addr, r.quota>>}

QuotaLines(r) ==
    (r.read \ About(r.read, r.addr))
        \cup (IF r.quota = NoValue THEN {} ELSE {<<r.addr, r.quota>>})

WriteQuotas(s) ==
    LET r == req[s]
    IN  /\ r.at = "write_quotas"
        /\ Execute(s, QuotasFile, QuotaLines(r),
                   IF r.op = "delete" THEN "virtual" ELSE "idle")

\* add_alias looks at the accounts again: an alias must not be a mailbox.
CheckSource(s) ==
    /\ req[s].at = "source"
    /\ IF IsMailbox(req[s].alias)
       THEN Answer(s, FALSE)
       ELSE Skip(s, "virtual")
    /\ UNCHANGED <<disk, late>>

\* An alias is added once, and removed only if it is there.
ReadVirtual(s) ==
    LET r == req[s]
        known == <<r.alias, r.addr>> \in disk[VirtualFile]
    IN  /\ r.at = "virtual"
        /\ \/ /\ r.op = "delete" /\ To(disk[VirtualFile], r.addr) = {}
              /\ Skip(s, "write_sieve")
           \/ /\ r.op # "delete" /\ known = (r.op = "add_alias")
              /\ Answer(s, FALSE)
           \/ /\ IF r.op = "delete" THEN To(disk[VirtualFile], r.addr) # {}
                                    ELSE known = (r.op = "delete_alias")
              /\ Read(s, VirtualFile, "write_virtual")
        /\ UNCHANGED <<disk, late>>

AliasLines(r) ==
    CASE r.op = "delete"       -> r.read \ To(r.read, r.addr)
      [] r.op = "add_alias"    -> r.read \cup {<<r.alias, r.addr>>}
      [] r.op = "delete_alias" -> r.read \ {<<r.alias, r.addr>>}

WriteVirtual(s) ==
    LET r == req[s]
    IN  /\ r.at = "write_virtual"
        /\ Execute(s, VirtualFile, AliasLines(r),
                   IF r.op = "delete" THEN "write_sieve" ELSE "idle")

WriteSieve(s) ==
    LET r == req[s]
    IN  /\ r.at = "write_sieve"
        /\ Execute(s, r.addr,
                   IF r.op = "set_sieve" THEN {<<r.addr, Script>>} ELSE {},
                   "idle")

-----------------------------------------------------------------------------

Init ==
    /\ disk = [f \in Files |-> {}]
    /\ late = {}
    /\ req = [s \in Slots |-> Idle]

Step(s) ==
    \/ Arrive(s) \/ Abort(s)
    \/ ReadAccounts(s) \/ WriteAccounts(s) \/ CheckSource(s)
    \/ ReadQuotas(s) \/ WriteQuotas(s)
    \/ ReadVirtual(s) \/ WriteVirtual(s) \/ WriteSieve(s)

Next == Land \/ \E s \in Slots : Step(s)

Spec == Init /\ [][Next]_vars

-----------------------------------------------------------------------------
(* What holds whatever overlaps, fails or lands late *)

\* Dovecot takes the first line of an address: neither the accounts nor the
\* quotas ever hold two lines for one mailbox, although whole files are rewritten
\* from copies read earlier (create_mailbox appends a line, set_password and
\* set_quota replace it).
OneLinePerMailbox ==
    \A f \in {AccountsFile, QuotasFile} :
        \A l, m \in disk[f] : l[1] = m[1] => l = m

-----------------------------------------------------------------------------
(* What a request that nothing else disturbs does, in whatever state earlier *)
(* races have left the files                                                 *)

Leftovers(a) ==
    \/ About(disk[QuotasFile], a) # {}
    \/ To(disk[VirtualFile], a) # {}
    \/ disk[a] # {}

Deleting(s, a) == req[s].op = "delete" /\ req[s].addr = a /\ req[s].alone

\* delete_mailbox: "Remove a mail account along with its quota, aliases and
\* Sieve filter".  When the client is told so, nothing is left.
DeleteRemovesAll ==
    [][\A s \in Slots, a \in Addrs :
         Deleting(s, a) /\ req'[s].ok =>
             ~IsMailbox(a)' /\ ~Leftovers(a)']_vars

\* A deletion cut short by a failing command leaves a mailbox that works or no
\* mailbox: the account line goes first, so no quota, alias or filter is taken
\* from an account that stays.
NoHalfMailbox ==
    [][\A s \in Slots, a \in Addrs :
         Deleting(s, a) /\ IsMailbox(a)' =>
             UNCHANGED <<disk[QuotasFile], disk[VirtualFile], disk[a]>>]_vars

\* The request changes no line of another mailbox.
KeepsOthers(s) ==
    \A a \in Addrs \ {req[s].addr} :
        /\ About(disk[AccountsFile], a)' = About(disk[AccountsFile], a)
        /\ About(disk[QuotasFile], a)' = About(disk[QuotasFile], a)
        /\ To(disk[VirtualFile], a)' = To(disk[VirtualFile], a)
        /\ disk'[a] = disk[a]

\* A rewrite leaves the lines of the other mailboxes as they were.
OwnLinesAlone ==
    [][\A s \in Slots :
         req[s].alone /\ req'[s] # req[s] => KeepsOthers(s)]_vars

-----------------------------------------------------------------------------
(* What does not hold when requests overlap *)

\* "Only the mapping to this mailbox is removed: any other targets on the same
\* alias line are preserved" (delete_alias), and so for the other files: a
\* request leaves the lines of the other mailboxes as they were.
OwnLinesOnly ==
    [][\A s \in Slots :
         req[s].op # "none" /\ req'[s] # req[s] => KeepsOthers(s)]_vars
=============================================================================
