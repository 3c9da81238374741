--------------------------- MODULE MailboxesProofs ---------------------------
(***************************************************************************)
(* The accounts and the quotas keep one line per address, and a request    *)
(* that is alone does what it says, for any number of requests and         *)
(* abandoned commands.                                                     *)
(*                                                                         *)
(* Whole files are written back from copies read earlier, so it is not     *)
(* enough that a change keeps the file in order: every copy a request      *)
(* holds and every content an abandoned command may still write must have  *)
(* one line per address, and a creation's copy none for its own address.   *)
(* The creation checks that on the very content it appends to.             *)
(***************************************************************************)
EXTENDS Mailboxes, TLAPS

Single(lines) == \A l, m \in lines : l[1] = m[1] => l = m

OneLineFiles == {AccountsFile, QuotasFile}

\* The record of a request: its parameters fit its operation, its stage is one
\* of its operation's, and what it is about to write back was read in order.
RequestOK(r) ==
    /\ r \in Request
    /\ r.at # "idle" => r.op # "none" /\ r.addr \in Addrs
    /\ r.op \in {"create", "set_password"} => r.pw \in Passwords
    /\ r.op \in {"add_alias", "delete_alias"} => r.alias \in Addrs
    /\ r.at = "write_accounts" =>
         /\ r.op \in {"create", "delete", "set_password"}
         /\ Single(r.read)
         /\ r.op = "create" => About(r.read, r.addr) = {}
    /\ r.at = "source" => r.op = "add_alias"
    /\ r.at = "write_quotas" => Single(r.read)
    /\ r.at \in {"virtual", "write_virtual"} =>
         r.op \in {"delete", "add_alias", "delete_alias"}

CommandOK(c) ==
    /\ c \in Command
    /\ c.file \in OneLineFiles => Single(c.lines)

Inv ==
    /\ disk \in [Files -> SUBSET Lines]
    /\ \A f \in OneLineFiles : Single(disk[f])
    /\ \A c \in late : CommandOK(c)
    /\ req \in [Slots -> Request]
    /\ \A s \in Slots : RequestOK(req[s])

-----------------------------------------------------------------------------
(* Lines and records *)

\* Lines stay single when some are taken out.
LEMMA SingleMinus ==
    ASSUME NEW L, NEW M, Single(L)
    PROVE  Single(L \ M)
BY DEF Single

\* They stay single when the lines of an address are replaced by one.
LEMMA SingleReplace ==
    ASSUME NEW L, NEW a, NEW v, Single(L)
    PROVE  Single((L \ About(L, a)) \cup {<<a, v>>})
<1>1. <<a, v>>[1] = a
  OBVIOUS
<1>2. \A l \in L \ About(L, a) : l[1] # a
  BY DEF About
<1> QED BY <1>1, <1>2 DEF Single

\* They stay single when a line is added for an address that had none.
LEMMA SingleAdd ==
    ASSUME NEW L, NEW a, NEW v, Single(L), About(L, a) = {}
    PROVE  Single(L \cup {<<a, v>>})
<1>1. L \ About(L, a) = L
  OBVIOUS
<1> QED BY <1>1, SingleReplace

\* An answered request is in order.
LEMMA AnswerOK ==
    ASSUME NEW ok \in BOOLEAN
    PROVE  RequestOK([Idle EXCEPT !.ok = ok])
<1> DEFINE r == [Idle EXCEPT !.ok = ok]
<1>1. r \in Request
  BY DEF Idle, Request, Stages
<1>2. r.at = "idle" /\ r.op = "none"
  BY DEF Idle
<1> QED BY <1>1, <1>2 DEF RequestOK

\* A request that goes to a stage with nothing read is in order there.
LEMMA SkipOK ==
    ASSUME NEW r, RequestOK(r), r.at # "idle",
           NEW at \in {"source", "quotas", "virtual", "write_sieve"},
           at = "source" => r.op = "add_alias",
           at = "virtual" => r.op \in {"delete", "add_alias", "delete_alias"}
    PROVE  RequestOK([r EXCEPT !.at = at, !.read = {}])
<1> DEFINE n == [r EXCEPT !.at = at, !.read = {}]
<1>1. r \in Request
  BY DEF RequestOK
<1>2. n \in Request /\ n.at = at
  BY <1>1 DEF Request, Stages
<1>3. n.op = r.op /\ n.addr = r.addr /\ n.pw = r.pw /\ n.alias = r.alias
  BY <1>1 DEF Request
<1> HIDE DEF n
<1>4. RequestOK(n)
  BY <1>2, <1>3 DEF RequestOK
<1> QED BY <1>4 DEF n

\* So is a request that has read a file it is going to write back.
LEMMA ReadOK ==
    ASSUME NEW r, RequestOK(r), r.at # "idle", NEW L \in SUBSET Lines,
           NEW at \in {"write_accounts", "write_quotas", "write_virtual"},
           at = "write_accounts" =>
               /\ r.op \in {"create", "delete", "set_password"}
               /\ Single(L)
               /\ r.op = "create" => About(L, r.addr) = {},
           at = "write_quotas" => Single(L),
           at = "write_virtual" => r.op \in {"delete", "add_alias", "delete_alias"}
    PROVE  RequestOK([r EXCEPT !.at = at, !.read = L])
<1> DEFINE n == [r EXCEPT !.at = at, !.read = L]
<1>1. r \in Request
  BY DEF RequestOK
<1>2. n \in Request /\ n.at = at /\ n.read = L
  BY <1>1 DEF Request, Stages
<1>3. n.op = r.op /\ n.addr = r.addr /\ n.pw = r.pw /\ n.alias = r.alias
  BY <1>1 DEF Request
<1> HIDE DEF n
<1>4. RequestOK(n)
  BY <1>2, <1>3 DEF RequestOK
<1> QED BY <1>4 DEF n

-----------------------------------------------------------------------------
(* Steps *)

\* Init: the files are empty and nobody is at work.
LEMMA InitInv == Init => Inv
<1> SUFFICES ASSUME Init PROVE Inv
  OBVIOUS
<1>1. RequestOK(Idle)
  <2>1. Idle \in Request /\ Idle.at = "idle" /\ Idle.op = "none"
    BY DEF Idle, Request, Stages
  <2> QED BY <2>1 DEF RequestOK
<1>2. Idle \in Request
  BY <1>1 DEF RequestOK
<1>3. \A f \in OneLineFiles : f \in Files
  BY DEF OneLineFiles, Files
<1> QED BY <1>1, <1>2, <1>3 DEF Init, Inv, Single

\* A request goes on, or is answered, without a command that writes.
LEMMA ContinueInv ==
    ASSUME Inv, NEW s \in Slots, NEW r, RequestOK(r), Continue(s, r),
           UNCHANGED <<disk, late>>
    PROVE  Inv'
<1>1. r \in Request
  BY DEF RequestOK
<1>2. req' = [req EXCEPT ![s] = r]
  BY DEF Continue
<1>3. req' \in [Slots -> Request] /\ \A t \in Slots : RequestOK(req'[t])
  BY <1>1, <1>2 DEF Inv
<1> QED BY <1>3 DEF Inv

\* A file is replaced, by a request or by an abandoned command.
LEMMA FileInv ==
    ASSUME Inv, NEW f \in Files, NEW lines \in SUBSET Lines,
           f \in OneLineFiles => Single(lines),
           disk' = [disk EXCEPT ![f] = lines]
    PROVE  /\ disk' \in [Files -> SUBSET Lines]
           /\ \A g \in OneLineFiles : Single(disk'[g])
<1>1. OneLineFiles \subseteq Files
  BY DEF OneLineFiles, Files
<1> QED BY <1>1 DEF Inv

\* A command writes, fails, or is abandoned.
LEMMA ExecuteInv ==
    ASSUME Inv, NEW s \in Slots, NEW f \in Files, NEW lines \in SUBSET Lines,
           f \in OneLineFiles => Single(lines), NEW next,
           next # "idle" => RequestOK([req[s] EXCEPT !.at = next, !.read = {}]),
           Execute(s, f, lines, next)
    PROVE  Inv'
<1>1. CASE /\ disk' = [disk EXCEPT ![f] = lines]
           /\ IF next = "idle" THEN Answer(s, TRUE) ELSE Skip(s, next)
           /\ UNCHANGED late
  <2>1. PICK r : RequestOK(r) /\ Continue(s, r)
    BY <1>1, AnswerOK DEF Answer, Skip
  <2>2. r \in Request /\ req' = [req EXCEPT ![s] = r]
    BY <2>1 DEF RequestOK, Continue
  <2>3. req' \in [Slots -> Request] /\ \A t \in Slots : RequestOK(req'[t])
    BY <2>1, <2>2 DEF Inv
  <2>4. /\ disk' \in [Files -> SUBSET Lines]
        /\ \A g \in OneLineFiles : Single(disk'[g])
    BY <1>1, FileInv
  <2> QED BY <1>1, <2>3, <2>4 DEF Inv
<1>2. CASE Answer(s, FALSE) /\ UNCHANGED <<disk, late>>
  BY <1>2, AnswerOK, ContinueInv DEF Answer
<1>3. CASE /\ Answer(s, FALSE)
           /\ late' = late \cup {[file |-> f, lines |-> lines]}
           /\ UNCHANGED disk
  <2>1. CommandOK([file |-> f, lines |-> lines])
    BY DEF CommandOK, Command
  <2>2. RequestOK([Idle EXCEPT !.ok = FALSE])
    BY AnswerOK
  <2>3. /\ [Idle EXCEPT !.ok = FALSE] \in Request
        /\ req' = [req EXCEPT ![s] = [Idle EXCEPT !.ok = FALSE]]
    BY <1>3, <2>2 DEF RequestOK, Answer, Continue
  <2>4. req' \in [Slots -> Request] /\ \A t \in Slots : RequestOK(req'[t])
    BY <2>2, <2>3 DEF Inv
  <2> QED BY <1>3, <2>1, <2>4 DEF Inv
<1> QED BY <1>1, <1>2, <1>3 DEF Execute

\* An abandoned command takes effect.
LEMMA LandInv == Inv /\ Land => Inv'
<1> SUFFICES ASSUME Inv, NEW c \in late, disk' = [disk EXCEPT ![c.file] = c.lines],
                    late' = late \ {c}, UNCHANGED req
             PROVE  Inv'
  BY DEF Land
<1>1. CommandOK(c)
  BY DEF Inv
<1>2. c.file \in Files /\ c.lines \in SUBSET Lines
  BY <1>1 DEF CommandOK, Command
<1>3. /\ disk' \in [Files -> SUBSET Lines]
      /\ \A g \in OneLineFiles : Single(disk'[g])
  BY <1>1, <1>2, FileInv DEF CommandOK
<1> QED BY <1>3 DEF Inv

\* A request arrives with the parameters of its operation.
LEMMA ArriveInv ==
    ASSUME Inv, NEW s \in Slots, Arrive(s)
    PROVE  Inv'
<1> USE DEF Inv
<1>1. PICK op \in Ops, a \in Addrs :
        LET r == [Idle EXCEPT !.op = op, !.at = "accounts", !.addr = a]
        IN  \/ /\ op = "create"
               /\ \E p \in Passwords, q \in Quotas \cup {NoValue} :
                    Admit(s, [r EXCEPT !.pw = p, !.quota = q])
            \/ /\ op = "set_password"
               /\ \E p \in Passwords : Admit(s, [r EXCEPT !.pw = p])
            \/ /\ op = "set_quota"
               /\ \E q \in Quotas \cup {NoValue} :
                    Admit(s, [r EXCEPT !.quota = q])
            \/ /\ op \in {"add_alias", "delete_alias"}
               /\ \E b \in Addrs : Admit(s, [r EXCEPT !.alias = b])
            \/ /\ op \in {"delete", "set_sieve", "delete_sieve"}
               /\ Admit(s, r)
  BY DEF Arrive
<1>2. op \in AllOps
  BY ConstantsOK
<1> DEFINE Fresh(r) == /\ r \in Request /\ r.at = "accounts" /\ r.op = op
                       /\ r.addr = a
                       /\ op \in {"create", "set_password"} => r.pw \in Passwords
                       /\ op \in {"add_alias", "delete_alias"} => r.alias \in Addrs
           base == [Idle EXCEPT !.op = op, !.at = "accounts", !.addr = a]
<1>3. /\ base \in Request /\ base.at = "accounts" /\ base.op = op /\ base.addr = a
  BY <1>2 DEF Idle, Request, Stages
<1> HIDE DEF base
<1>4. PICK r : Fresh(r) /\ Admit(s, r)
  <2>1. ASSUME op = "create", NEW p \in Passwords, NEW q \in Quotas \cup {NoValue},
               Admit(s, [base EXCEPT !.pw = p, !.quota = q])
        PROVE  \E r : Fresh(r) /\ Admit(s, r)
    <3>1. Fresh([base EXCEPT !.pw = p, !.quota = q])
      BY <1>3, <2>1 DEF Request
    <3> QED BY <2>1, <3>1
  <2>2. ASSUME op = "set_password", NEW p \in Passwords,
               Admit(s, [base EXCEPT !.pw = p])
        PROVE  \E r : Fresh(r) /\ Admit(s, r)
    <3>1. Fresh([base EXCEPT !.pw = p])
      BY <1>3, <2>2 DEF Request
    <3> QED BY <2>2, <3>1
  <2>3. ASSUME op = "set_quota", NEW q \in Quotas \cup {NoValue},
               Admit(s, [base EXCEPT !.quota = q])
        PROVE  \E r : Fresh(r) /\ Admit(s, r)
    <3>1. Fresh([base EXCEPT !.quota = q])
      BY <1>3, <2>3 DEF Request
    <3> QED BY <2>3, <3>1
  <2>4. ASSUME op \in {"add_alias", "delete_alias"}, NEW b \in Addrs,
               Admit(s, [base EXCEPT !.alias = b])
        PROVE  \E r : Fresh(r) /\ Admit(s, r)
    <3>1. Fresh([base EXCEPT !.alias = b])
      BY <1>3, <2>4 DEF Request
    <3> QED BY <2>4, <3>1
  <2>5. ASSUME op \in {"delete", "set_sieve", "delete_sieve"}, Admit(s, base)
        PROVE  \E r : Fresh(r) /\ Admit(s, r)
    <3>1. Fresh(base)
      BY <1>3, <2>5
    <3> QED BY <2>5, <3>1
  <2> HIDE DEF Fresh
  <2> QED BY <1>1, <2>1, <2>2, <2>3, <2>4, <2>5 DEF base
<1>5. ASSUME NEW b \in BOOLEAN
      PROVE  RequestOK([r EXCEPT !.alone = b])
  <2> DEFINE n == [r EXCEPT !.alone = b]
  <2>1. /\ n \in Request /\ n.at = "accounts" /\ n.op = op /\ n.addr = a
        /\ n.pw = r.pw /\ n.alias = r.alias
    BY <1>4 DEF Request
  <2> HIDE DEF n
  <2>2. RequestOK(n)
    BY <1>2, <1>4, <2>1 DEF RequestOK, AllOps
  <2> QED BY <2>2 DEF n
<1>6. ASSUME NEW t \in Slots
      PROVE  RequestOK([req[t] EXCEPT !.alone = FALSE])
  <2> DEFINE n == [req[t] EXCEPT !.alone = FALSE]
  <2>1. /\ n \in Request /\ n.at = req[t].at /\ n.op = req[t].op
        /\ n.addr = req[t].addr /\ n.pw = req[t].pw /\ n.alias = req[t].alias
        /\ n.read = req[t].read
    BY DEF Request
  <2>2. RequestOK(req[t])
    OBVIOUS
  <2> HIDE DEF n
  <2>3. RequestOK(n)
    BY <2>1, <2>2 DEF RequestOK
  <2> QED BY <2>3 DEF n
<1>7. \A t \in Slots : RequestOK(req'[t])
  <2> SUFFICES ASSUME NEW t \in Slots PROVE RequestOK(req'[t])
    OBVIOUS
  <2>1. CASE t = s
    <3> DEFINE free == late = {} /\ \A u \in Slots : req[u].op = "none"
    <3>1. req'[t] = [r EXCEPT !.alone = free]
      BY <1>4, <2>1 DEF Admit
    <3>2. free \in BOOLEAN
      OBVIOUS
    <3> HIDE DEF free
    <3> QED BY <1>5, <3>1, <3>2
  <2>2. CASE t # s
    <3>1. req'[t] = [req[t] EXCEPT !.alone = FALSE]
      BY <1>4, <2>2 DEF Admit
    <3> QED BY <1>6, <3>1
  <2> QED BY <2>1, <2>2
<1>8. req' \in [Slots -> Request]
  <2>1. req' = [t \in Slots |-> req'[t]]
    BY <1>4 DEF Admit
  <2> QED BY <1>7, <2>1 DEF RequestOK
<1>9. UNCHANGED <<disk, late>>
  BY DEF Arrive
<1> QED BY <1>7, <1>8, <1>9

\* A request that gives up or reads goes on in order.
LEMMA ReadsInv ==
    ASSUME Inv, NEW s \in Slots,
           \/ Abort(s) \/ ReadAccounts(s) \/ CheckSource(s)
           \/ ReadQuotas(s) \/ ReadVirtual(s)
    PROVE  Inv'
<1>1. RequestOK(req[s])
  BY DEF Inv
<1>2. AccountsFile \in Files /\ QuotasFile \in Files /\ VirtualFile \in Files
  BY DEF Files
<1>3. ASSUME NEW f \in Files PROVE disk[f] \in SUBSET Lines
  BY DEF Inv
<1>4. Single(disk[AccountsFile]) /\ Single(disk[QuotasFile])
  BY DEF Inv, OneLineFiles
<1>5. ASSUME Answer(s, FALSE) \/ Answer(s, TRUE), UNCHANGED <<disk, late>>
      PROVE  Inv'
  BY <1>5, AnswerOK, ContinueInv DEF Answer
<1>6. CASE Abort(s)
  BY <1>5, <1>6 DEF Abort
<1>7. CASE ReadAccounts(s)
  <2> DEFINE r == req[s]
  <2>1. r.at = "accounts" /\ UNCHANGED <<disk, late>>
    BY <1>7 DEF ReadAccounts
  <2>2. CASE \/ (r.op = "create") = IsMailbox(r.addr)
             \/ r.op = "add_alias" /\ r.alias = r.addr
    BY <1>5, <1>7, <2>2 DEF ReadAccounts
  <2>3. CASE ~ \/ (r.op = "create") = IsMailbox(r.addr)
               \/ r.op = "add_alias" /\ r.alias = r.addr
    <3>1. r.op \in AllOps
      BY <1>1, <2>1 DEF RequestOK, Request
    <3>2. CASE r.op \in {"create", "delete", "set_password"}
      <4>1. Read(s, AccountsFile, "write_accounts")
        BY <1>7, <2>3, <3>2 DEF ReadAccounts
      <4>2. r.op = "create" => About(disk[AccountsFile], r.addr) = {}
        BY <2>3 DEF IsMailbox
      <4>3. RequestOK([r EXCEPT !.at = "write_accounts", !.read = disk[AccountsFile]])
        BY <1>1, <1>2, <1>3, <1>4, <2>1, <3>2, <4>2, ReadOK
      <4> QED BY <2>1, <4>1, <4>3, ContinueInv DEF Read
    <3>3. CASE r.op \notin {"create", "delete", "set_password"}
      <4>1. PICK at \in {"source", "quotas", "virtual", "write_sieve"} :
              /\ Skip(s, at)
              /\ at = "source" => r.op = "add_alias"
              /\ at = "virtual" => r.op = "delete_alias"
        BY <1>7, <2>3, <3>1, <3>3 DEF ReadAccounts, AllOps
      <4>2. RequestOK([r EXCEPT !.at = at, !.read = {}])
        BY <1>1, <2>1, <4>1, SkipOK
      <4> QED BY <2>1, <4>1, <4>2, ContinueInv DEF Skip
    <3> QED BY <3>2, <3>3
  <2> QED BY <2>2, <2>3
<1>8. CASE CheckSource(s)
  <2>1. req[s].at = "source" /\ UNCHANGED <<disk, late>>
    BY <1>8 DEF CheckSource
  <2>2. RequestOK([req[s] EXCEPT !.at = "virtual", !.read = {}])
    BY <1>1, <2>1, SkipOK DEF RequestOK
  <2> QED BY <1>5, <1>8, <2>1, <2>2, ContinueInv DEF CheckSource, Skip
<1>9. CASE ReadQuotas(s)
  <2>1. req[s].at = "quotas" /\ UNCHANGED <<disk, late>>
    BY <1>9 DEF ReadQuotas
  <2>2. RequestOK([req[s] EXCEPT !.at = "write_quotas", !.read = disk[QuotasFile]])
    BY <1>1, <1>2, <1>3, <1>4, <2>1, ReadOK
  <2>3. ASSUME req[s].op = "delete"
        PROVE  RequestOK([req[s] EXCEPT !.at = "virtual", !.read = {}])
    BY <1>1, <2>1, <2>3, SkipOK
  <2> QED BY <1>5, <1>9, <2>1, <2>2, <2>3, ContinueInv DEF ReadQuotas, Read, Skip
<1>10. CASE ReadVirtual(s)
  <2>1. req[s].at = "virtual" /\ UNCHANGED <<disk, late>>
    BY <1>10 DEF ReadVirtual
  <2>2. RequestOK([req[s] EXCEPT !.at = "write_virtual", !.read = disk[VirtualFile]])
    BY <1>1, <1>2, <1>3, <2>1, ReadOK DEF RequestOK
  <2>3. RequestOK([req[s] EXCEPT !.at = "write_sieve", !.read = {}])
    BY <1>1, <2>1, SkipOK
  <2> QED BY <1>5, <1>10, <2>1, <2>2, <2>3, ContinueInv DEF ReadVirtual, Read, Skip
<1> QED BY <1>6, <1>7, <1>8, <1>9, <1>10

\* A line of a request is a line.
LEMMA LineOK ==
    ASSUME NEW a \in Addrs, NEW v \in Addrs \cup Passwords \cup Quotas \cup {Script}
    PROVE  <<a, v>> \in Lines
BY DEF Lines

\* Accounts: creation appends to a copy that had no line of its address.
LEMMA WriteAccountsInv ==
    ASSUME Inv, NEW s \in Slots, WriteAccounts(s)
    PROVE  Inv'
<1> DEFINE r == req[s]
           next == IF r.op = "delete" \/ (r.op = "create" /\ r.quota # NoValue)
                   THEN "quotas" ELSE "idle"
<1>1. RequestOK(r) /\ r \in Request
  BY DEF Inv
<1>2. r.at = "write_accounts" /\ Execute(s, AccountsFile, AccountLines(r), next)
  BY DEF WriteAccounts
<1>3. /\ r.op \in {"create", "delete", "set_password"} /\ r.addr \in Addrs
      /\ Single(r.read) /\ r.read \in SUBSET Lines
      /\ r.op = "create" => About(r.read, r.addr) = {}
      /\ r.op \in {"create", "set_password"} => r.pw \in Passwords
  BY <1>1, <1>2 DEF RequestOK, Request
<1> HIDE DEF r
<1>4. AccountLines(r) \in SUBSET Lines /\ Single(AccountLines(r))
  <2>1. CASE r.op = "create"
    <3>1. AccountLines(r) = r.read \cup {<<r.addr, r.pw>>}
      BY <2>1 DEF AccountLines
    <3>2. <<r.addr, r.pw>> \in Lines
      BY <1>3, <2>1, LineOK
    <3>3. Single(r.read \cup {<<r.addr, r.pw>>})
      BY <1>3, <2>1, SingleAdd
    <3> QED BY <1>3, <3>1, <3>2, <3>3
  <2>2. CASE r.op = "delete"
    <3>1. AccountLines(r) = r.read \ About(r.read, r.addr)
      BY <2>2 DEF AccountLines
    <3> QED BY <1>3, <3>1, SingleMinus
  <2>3. CASE r.op = "set_password"
    <3>1. AccountLines(r) = (r.read \ About(r.read, r.addr)) \cup {<<r.addr, r.pw>>}
      BY <2>3 DEF AccountLines
    <3>2. <<r.addr, r.pw>> \in Lines
      BY <1>3, <2>3, LineOK
    <3>3. Single((r.read \ About(r.read, r.addr)) \cup {<<r.addr, r.pw>>})
      BY <1>3, SingleReplace
    <3> QED BY <1>3, <3>1, <3>2, <3>3
  <2> QED BY <1>3, <2>1, <2>2, <2>3
<1>5. next # "idle" => RequestOK([r EXCEPT !.at = next, !.read = {}])
  BY <1>1, <1>2, SkipOK
<1>6. AccountsFile \in Files
  BY DEF Files
<1> HIDE DEF next
<1> QED BY <1>2, <1>4, <1>5, <1>6, ExecuteInv DEF r

\* Quotas: the line of the address is replaced or removed.
LEMMA WriteQuotasInv ==
    ASSUME Inv, NEW s \in Slots, WriteQuotas(s)
    PROVE  Inv'
<1> DEFINE r == req[s]
           next == IF r.op = "delete" THEN "virtual" ELSE "idle"
<1>1. RequestOK(r) /\ r \in Request
  BY DEF Inv
<1>2. r.at = "write_quotas" /\ Execute(s, QuotasFile, QuotaLines(r), next)
  BY DEF WriteQuotas
<1>3. /\ r.addr \in Addrs /\ r.quota \in Quotas \cup {NoValue}
      /\ Single(r.read) /\ r.read \in SUBSET Lines
  BY <1>1, <1>2 DEF RequestOK, Request
<1> HIDE DEF r
<1>4. QuotaLines(r) \in SUBSET Lines /\ Single(QuotaLines(r))
  <2>1. CASE r.quota = NoValue
    <3>1. QuotaLines(r) = r.read \ About(r.read, r.addr)
      BY <2>1 DEF QuotaLines
    <3> QED BY <1>3, <3>1, SingleMinus
  <2>2. CASE r.quota # NoValue
    <3>1. QuotaLines(r) = (r.read \ About(r.read, r.addr)) \cup {<<r.addr, r.quota>>}
      BY <2>2 DEF QuotaLines
    <3>2. <<r.addr, r.quota>> \in Lines
      BY <1>3, <2>2, LineOK
    <3>3. Single((r.read \ About(r.read, r.addr)) \cup {<<r.addr, r.quota>>})
      BY <1>3, SingleReplace
    <3> QED BY <1>3, <3>1, <3>2, <3>3
  <2> QED BY <2>1, <2>2
<1>5. next # "idle" => RequestOK([r EXCEPT !.at = next, !.read = {}])
  BY <1>1, <1>2, SkipOK
<1>6. QuotasFile \in Files
  BY DEF Files
<1> HIDE DEF next
<1> QED BY <1>2, <1>4, <1>5, <1>6, ExecuteInv DEF r

\* The aliases and the filters do not touch the other two files.
LEMMA WriteVirtualInv ==
    ASSUME Inv, NEW s \in Slots, WriteVirtual(s)
    PROVE  Inv'
<1> DEFINE r == req[s]
           next == IF r.op = "delete" THEN "write_sieve" ELSE "idle"
<1>1. RequestOK(r) /\ r \in Request
  BY DEF Inv
<1>2. r.at = "write_virtual" /\ Execute(s, VirtualFile, AliasLines(r), next)
  BY DEF WriteVirtual
<1>3. /\ r.addr \in Addrs /\ r.op \in {"delete", "add_alias", "delete_alias"}
      /\ r.read \in SUBSET Lines
      /\ r.op = "add_alias" => r.alias \in Addrs
  BY <1>1, <1>2 DEF RequestOK, Request
<1> HIDE DEF r
<1>4. AliasLines(r) \in SUBSET Lines
  BY <1>3, LineOK DEF AliasLines
<1>5. next # "idle" => RequestOK([r EXCEPT !.at = next, !.read = {}])
  BY <1>1, <1>2, SkipOK
<1>6. VirtualFile \in Files /\ VirtualFile \notin OneLineFiles
  BY ConstantsOK DEF Files, OneLineFiles
<1> HIDE DEF next
<1> QED BY <1>2, <1>4, <1>5, <1>6, ExecuteInv DEF r

LEMMA WriteSieveInv ==
    ASSUME Inv, NEW s \in Slots, WriteSieve(s)
    PROVE  Inv'
<1> DEFINE r == req[s]
           lines == IF r.op = "set_sieve" THEN {<<r.addr, Script>>} ELSE {}
<1>1. RequestOK(r) /\ r.at = "write_sieve" /\ Execute(s, r.addr, lines, "idle")
  BY DEF Inv, WriteSieve
<1>2. r.addr \in Addrs
  BY <1>1 DEF RequestOK
<1>3. lines \in SUBSET Lines
  BY <1>2, LineOK
<1>4. r.addr \in Files /\ r.addr \notin OneLineFiles
  BY <1>2, ConstantsOK DEF Files, OneLineFiles
<1> HIDE DEF r, lines
<1> QED BY <1>1, <1>3, <1>4, ExecuteInv

\* Every step preserves the invariant.
LEMMA NextInv == Inv /\ [Next]_vars => Inv'
<1> SUFFICES ASSUME Inv, [Next]_vars PROVE Inv'
  OBVIOUS
<1>1. CASE Land
  BY <1>1, LandInv
<1>2. ASSUME NEW s \in Slots, Step(s) PROVE Inv'
  <2>1. CASE Arrive(s)
    BY <2>1, ArriveInv
  <2>2. CASE \/ Abort(s) \/ ReadAccounts(s) \/ CheckSource(s)
             \/ ReadQuotas(s) \/ ReadVirtual(s)
    BY <2>2, ReadsInv
  <2>3. CASE WriteAccounts(s)
    BY <2>3, WriteAccountsInv
  <2>4. CASE WriteQuotas(s)
    BY <2>4, WriteQuotasInv
  <2>5. CASE WriteVirtual(s)
    BY <2>5, WriteVirtualInv
  <2>6. CASE WriteSieve(s)
    BY <2>6, WriteSieveInv
  <2> QED BY <1>2, <2>1, <2>2, <2>3, <2>4, <2>5, <2>6 DEF Step
<1>3. CASE UNCHANGED vars
  BY <1>3 DEF vars, Inv
<1> QED BY <1>1, <1>2, <1>3 DEF Next

LEMMA Invariance == Spec => []Inv
BY InitInv, NextInv, PTL DEF Spec

\* What mailbox_service's files, commands and requests hold.
THEOREM TypeCorrect == Spec => []TypeOK
<1>1. Inv => TypeOK
  BY DEF Inv, TypeOK, CommandOK
<1> QED BY <1>1, Invariance, PTL

\* create_mailbox, set_password and set_quota: however many requests overlap and
\* whatever abandoned commands still do, no address has two accounts or two
\* quotas.
THEOREM OneLineHolds == Spec => []OneLinePerMailbox
<1>1. Inv => OneLinePerMailbox
  BY DEF Inv, OneLineFiles, Single, OneLinePerMailbox
<1> QED BY <1>1, Invariance, PTL

-----------------------------------------------------------------------------
(* Requests that nothing else disturbs *)

\* What a request has read is what the file holds, and a deletion finds what it
\* has removed still removed.
InSync(s) ==
    LET r == req[s]
    IN  /\ r.at = "write_accounts" => r.read = disk[AccountsFile]
        /\ r.at = "write_quotas" => r.read = disk[QuotasFile]
        /\ r.at = "write_virtual" => r.read = disk[VirtualFile]
        /\ r.op = "delete" =>
             /\ r.quota = NoValue
             /\ r.at \in {"quotas", "write_quotas", "virtual", "write_virtual",
                          "write_sieve"} =>
                  About(disk[AccountsFile], r.addr) = {}
             /\ r.at \in {"virtual", "write_virtual", "write_sieve"} =>
                  About(disk[QuotasFile], r.addr) = {}
             /\ r.at = "write_sieve" => To(disk[VirtualFile], r.addr) = {}

\* So it is while the other slots serve nobody and no abandoned command is left.
Undisturbed(s) ==
    /\ late = {}
    /\ \A t \in Slots \ {s} : req[t].at = "idle" /\ req[t].op = "none"
    /\ req[s].op # "none" /\ req[s].ok = FALSE
    /\ InSync(s)

AloneInv == \A s \in Slots : req[s].alone => Undisturbed(s)

\* The files are different files.
LEMMA FilesApart ==
    /\ AccountsFile \in Files /\ QuotasFile \in Files /\ VirtualFile \in Files
    /\ AccountsFile # QuotasFile /\ AccountsFile # VirtualFile
    /\ QuotasFile # VirtualFile
    /\ \A a \in Addrs : /\ a \in Files /\ a # AccountsFile
                        /\ a # QuotasFile /\ a # VirtualFile
BY ConstantsOK DEF Files

\* A request after its arrival.
Work(s) ==
    \/ Abort(s)
    \/ ReadAccounts(s) \/ WriteAccounts(s) \/ CheckSource(s)
    \/ ReadQuotas(s) \/ WriteQuotas(s)
    \/ ReadVirtual(s) \/ WriteVirtual(s) \/ WriteSieve(s)

\* Beside a request that is alone nothing happens but an arrival, which ends
\* that.
LEMMA OnlyActor ==
    ASSUME Inv, AloneInv, NEW s \in Slots, req[s].alone, [Next]_vars
    PROVE  \/ UNCHANGED vars
           \/ Work(s)
           \/ /\ UNCHANGED <<disk, late>>
              /\ req'[s] = [req[s] EXCEPT !.alone = FALSE]
<1>1. Undisturbed(s)
  BY DEF AloneInv
<1>2. CASE Land
  BY <1>1, <1>2 DEF Land, Undisturbed
<1>3. ASSUME NEW t \in Slots, t # s, Step(t)
      PROVE  /\ UNCHANGED <<disk, late>>
             /\ req'[s] = [req[s] EXCEPT !.alone = FALSE]
  <2>1. req[t].at = "idle"
    BY <1>1, <1>3 DEF Undisturbed
  <2>2. ~Work(t)
    BY <2>1 DEF Work, Abort, ReadAccounts, WriteAccounts, CheckSource,
         ReadQuotas, WriteQuotas, ReadVirtual, WriteVirtual, WriteSieve
  <2>3. Arrive(t)
    BY <1>3, <2>2 DEF Step, Work
  <2>4. \E r : Admit(t, r)
    BY <2>3 DEF Arrive
  <2> QED BY <1>3, <2>3, <2>4 DEF Arrive, Admit
<1>4. CASE Step(s)
  <2>1. ~Arrive(s)
    BY <1>1 DEF Undisturbed, Arrive
  <2> QED BY <1>4, <2>1 DEF Step, Work
<1> QED BY <1>2, <1>3, <1>4 DEF Next

\* What a command that writes leaves: the next stage with the file replaced, an
\* answer that it is done, or an answer that it failed.
LEMMA ExecuteCases ==
    ASSUME NEW s \in Slots, NEW f, NEW lines, NEW next,
           Execute(s, f, lines, next)
    PROVE  \/ /\ disk' = [disk EXCEPT ![f] = lines] /\ late' = late
              /\ next # "idle"
              /\ Continue(s, [req[s] EXCEPT !.at = next, !.read = {}])
           \/ /\ disk' = [disk EXCEPT ![f] = lines]
              /\ next = "idle"
              /\ Continue(s, [Idle EXCEPT !.ok = TRUE])
           \/ /\ UNCHANGED disk
              /\ Continue(s, [Idle EXCEPT !.ok = FALSE])
BY DEF Execute, Answer, Skip

\* A request ends with an answer, or goes on to a stage with something read.
Ends(s) == \E ok \in BOOLEAN : Continue(s, [Idle EXCEPT !.ok = ok])

GoesOn(s) ==
    /\ UNCHANGED late
    /\ \E at \in Stages : \E lines :
         Continue(s, [req[s] EXCEPT !.at = at, !.read = lines])

\* Every step of a request does one of the two.
LEMMA WorkCases ==
    ASSUME Inv, NEW s \in Slots, Work(s)
    PROVE  Ends(s) \/ GoesOn(s)
<1>1. Answer(s, TRUE) \/ Answer(s, FALSE) => Ends(s)
  BY DEF Answer, Ends
<1>2. ASSUME NEW f, NEW at \in Stages, UNCHANGED late,
             Read(s, f, at) \/ Skip(s, at)
      PROVE  GoesOn(s)
  BY <1>2 DEF Read, Skip, GoesOn
<1>3. ASSUME NEW f, NEW lines, NEW next \in Stages, Execute(s, f, lines, next)
      PROVE  Ends(s) \/ GoesOn(s)
  BY <1>3 DEF Execute, Answer, Skip, Ends, GoesOn
<1>4. {"idle", "write_accounts", "source", "quotas", "write_quotas", "virtual",
       "write_virtual", "write_sieve"} \subseteq Stages
  BY DEF Stages
<1>5. CASE Abort(s)
  BY <1>1, <1>5 DEF Abort
<1>6. CASE ReadAccounts(s)
  <2>1. req[s].op \in AllOps
    BY <1>6 DEF Inv, RequestOK, Request, ReadAccounts
  <2>2. UNCHANGED late
    BY <1>6 DEF ReadAccounts
  <2>3. \/ Answer(s, FALSE)
        \/ Read(s, AccountsFile, "write_accounts")
        \/ Skip(s, "quotas") \/ Skip(s, "source") \/ Skip(s, "virtual")
        \/ Skip(s, "write_sieve")
    BY <1>6, <2>1 DEF ReadAccounts, AllOps
  <2> QED BY <1>1, <1>2, <1>4, <2>2, <2>3
<1>7. CASE CheckSource(s)
  BY <1>1, <1>2, <1>4, <1>7 DEF CheckSource
<1>8. CASE ReadQuotas(s)
  BY <1>1, <1>2, <1>4, <1>8 DEF ReadQuotas
<1>9. CASE ReadVirtual(s)
  <2>1. UNCHANGED late
    BY <1>9 DEF ReadVirtual
  <2>2. \/ Answer(s, FALSE) \/ Skip(s, "write_sieve")
        \/ Read(s, VirtualFile, "write_virtual")
    BY <1>9 DEF ReadVirtual
  <2> QED BY <1>1, <1>2, <1>4, <2>1, <2>2
<1>10. CASE WriteAccounts(s)
  BY <1>3, <1>4, <1>10 DEF WriteAccounts
<1>11. CASE WriteQuotas(s)
  BY <1>3, <1>4, <1>11 DEF WriteQuotas
<1>12. CASE WriteVirtual(s)
  BY <1>3, <1>4, <1>12 DEF WriteVirtual
<1>13. CASE WriteSieve(s)
  BY <1>3, <1>4, <1>13 DEF WriteSieve
<1> QED BY <1>5, <1>6, <1>7, <1>8, <1>9, <1>10, <1>11, <1>12, <1>13 DEF Work

\* Requests arrive alone when there is nothing else.
LEMMA ArriveAlone ==
    ASSUME Inv, NEW s \in Slots, Arrive(s)
    PROVE  AloneInv'
<1>1. PICK r : /\ Admit(s, r) /\ r \in Request
               /\ r.op # "none" /\ r.at = "accounts" /\ r.ok = FALSE
               /\ r.op = "delete" => r.quota = NoValue
  <2>1. PICK op \in Ops, a \in Addrs :
          LET r == [Idle EXCEPT !.op = op, !.at = "accounts", !.addr = a]
          IN  \/ /\ op = "create"
                 /\ \E p \in Passwords, q \in Quotas \cup {NoValue} :
                      Admit(s, [r EXCEPT !.pw = p, !.quota = q])
              \/ /\ op = "set_password"
                 /\ \E p \in Passwords : Admit(s, [r EXCEPT !.pw = p])
              \/ /\ op = "set_quota"
                 /\ \E q \in Quotas \cup {NoValue} :
                      Admit(s, [r EXCEPT !.quota = q])
              \/ /\ op \in {"add_alias", "delete_alias"}
                 /\ \E b \in Addrs : Admit(s, [r EXCEPT !.alias = b])
              \/ /\ op \in {"delete", "set_sieve", "delete_sieve"}
                 /\ Admit(s, r)
    BY DEF Arrive
  <2> DEFINE base == [Idle EXCEPT !.op = op, !.at = "accounts", !.addr = a]
  <2>2. op \in AllOps /\ op # "none"
    BY ConstantsOK DEF AllOps
  <2>3. /\ base \in Request /\ base.op = op /\ base.at = "accounts"
        /\ base.ok = FALSE /\ base.quota = NoValue
    BY <2>2 DEF Idle, Request, Stages
  <2> HIDE DEF base
  <2>4. CASE op = "create"
    <3>1. PICK p \in Passwords, q \in Quotas \cup {NoValue} :
            Admit(s, [base EXCEPT !.pw = p, !.quota = q])
      BY <2>1, <2>4 DEF base
    <3> DEFINE r == [base EXCEPT !.pw = p, !.quota = q]
    <3>2. /\ r \in Request /\ r.op = "create" /\ r.at = "accounts"
          /\ r.ok = FALSE
      BY <2>3, <2>4 DEF Request
    <3> HIDE DEF r
    <3>3. Admit(s, r)
      BY <3>1 DEF r
    <3> QED BY <3>2, <3>3
  <2>5. CASE op = "set_password"
    <3>1. PICK p \in Passwords : Admit(s, [base EXCEPT !.pw = p])
      BY <2>1, <2>5 DEF base
    <3> DEFINE r == [base EXCEPT !.pw = p]
    <3>2. /\ r \in Request /\ r.op = op /\ r.at = "accounts" /\ r.ok = FALSE
      BY <2>3 DEF Request
    <3> HIDE DEF r
    <3>3. Admit(s, r)
      BY <3>1 DEF r
    <3> QED BY <2>5, <2>2, <3>2, <3>3
  <2>6. CASE op = "set_quota"
    <3>1. PICK q \in Quotas \cup {NoValue} : Admit(s, [base EXCEPT !.quota = q])
      BY <2>1, <2>6 DEF base
    <3> DEFINE r == [base EXCEPT !.quota = q]
    <3>2. /\ r \in Request /\ r.op = op /\ r.at = "accounts" /\ r.ok = FALSE
      BY <2>3 DEF Request
    <3> HIDE DEF r
    <3>3. Admit(s, r)
      BY <3>1 DEF r
    <3> QED BY <2>6, <2>2, <3>2, <3>3
  <2>7. CASE op \in {"add_alias", "delete_alias"}
    <3>1. PICK b \in Addrs : Admit(s, [base EXCEPT !.alias = b])
      BY <2>1, <2>7 DEF base
    <3> DEFINE r == [base EXCEPT !.alias = b]
    <3>2. /\ r \in Request /\ r.op = op /\ r.at = "accounts" /\ r.ok = FALSE
      BY <2>3 DEF Request
    <3> HIDE DEF r
    <3>3. Admit(s, r)
      BY <3>1 DEF r
    <3> QED BY <2>7, <2>2, <3>2, <3>3
  <2>8. CASE op \in {"delete", "set_sieve", "delete_sieve"}
    <3>1. Admit(s, base)
      BY <2>1, <2>8 DEF base
    <3> QED BY <2>2, <2>3, <3>1
  <2> QED BY <2>1, <2>4, <2>5, <2>6, <2>7, <2>8
<1>2. UNCHANGED <<disk, late>>
  BY DEF Arrive
<1> SUFFICES ASSUME NEW t \in Slots, req'[t].alone
             PROVE  Undisturbed(t)'
  BY DEF AloneInv
<1> DEFINE free == late = {} /\ \A u \in Slots : req[u].op = "none"
<1>3. /\ req'[s] = [r EXCEPT !.alone = free]
      /\ \A u \in Slots \ {s} : req'[u] = [req[u] EXCEPT !.alone = FALSE]
  BY <1>1 DEF Admit
<1>4. \A u \in Slots : req[u] \in Request /\ RequestOK(req[u])
  BY DEF Inv
<1>5. t = s
  <2> SUFFICES ASSUME t # s PROVE FALSE
    OBVIOUS
  <2>1. req'[t] = [req[t] EXCEPT !.alone = FALSE] /\ req[t] \in Request
    BY <1>3, <1>4
  <2> QED BY <2>1 DEF Request
<1>6. free
  <2>1. [r EXCEPT !.alone = free].alone = free
    BY <1>1 DEF Request
  <2> QED BY <1>3, <1>5, <2>1
<1> DEFINE n == req'[s]
<1>7. /\ n.op = r.op /\ n.at = "accounts" /\ n.ok = FALSE /\ n.quota = r.quota
  BY <1>1, <1>3 DEF Request
<1>8. \A u \in Slots \ {s} : req'[u].at = "idle" /\ req'[u].op = "none"
  <2> SUFFICES ASSUME NEW u \in Slots \ {s}
               PROVE  req'[u].at = "idle" /\ req'[u].op = "none"
    OBVIOUS
  <2>1. req[u].op = "none" /\ req[u].at = "idle"
    BY <1>4, <1>6 DEF RequestOK
  <2>2. req'[u] = [req[u] EXCEPT !.alone = FALSE]
    BY <1>3
  <2> QED BY <1>4, <2>1, <2>2 DEF Request
<1>9. InSync(s)'
  BY <1>1, <1>7 DEF InSync
<1> QED BY <1>1, <1>2, <1>5, <1>6, <1>7, <1>8, <1>9 DEF Undisturbed

\* A command that writes replaces the file by what it was given, and goes on.
LEMMA ExecuteGoesOn ==
    ASSUME Inv, NEW s \in Slots, NEW f \in Files, NEW lines, NEW next,
           Execute(s, f, lines, next), req'[s].alone
    PROVE  /\ next # "idle"
           /\ req'[s].at = next
           /\ disk' = [disk EXCEPT ![f] = lines]
<1>1. req[s] \in Request /\ req \in [Slots -> Request]
  BY DEF Inv
<1>2. ASSUME NEW ok \in BOOLEAN, Continue(s, [Idle EXCEPT !.ok = ok])
      PROVE  FALSE
  BY <1>1, <1>2 DEF Continue, Idle
<1>3. /\ disk' = [disk EXCEPT ![f] = lines]
      /\ next # "idle"
      /\ Continue(s, [req[s] EXCEPT !.at = next, !.read = {}])
  BY <1>2, ExecuteCases
<1> QED BY <1>1, <1>3 DEF Continue, Request

\* What is read is what the file holds, and what a deletion removes stays so.
LEMMA WorkInSync ==
    ASSUME Inv, NEW s \in Slots, InSync(s), Work(s), req'[s].alone,
           req'[s].op = req[s].op, req'[s].addr = req[s].addr,
           req'[s].quota = req[s].quota
    PROVE  InSync(s)'
<1> DEFINE r == req[s]
           n == req'[s]
<1>1. r \in Request /\ RequestOK(r) /\ req \in [Slots -> Request]
  BY DEF Inv
<1>2. disk \in [Files -> SUBSET Lines]
  BY DEF Inv
<1>3. ~Answer(s, TRUE) /\ ~Answer(s, FALSE)
  BY <1>1 DEF Answer, Continue, Idle
<1>4. ASSUME NEW f, NEW at, Read(s, f, at)
      PROVE  n.at = at /\ n.read = disk[f]
  BY <1>1, <1>4 DEF Read, Continue, Request
<1>5. ASSUME NEW at, Skip(s, at)
      PROVE  n.at = at
  BY <1>1, <1>5 DEF Skip, Continue, Request
<1>6. CASE ReadAccounts(s)
  <2>1. UNCHANGED disk /\ r.op \in AllOps
    BY <1>1, <1>6 DEF ReadAccounts, RequestOK, Request
  <2>2. \/ Read(s, AccountsFile, "write_accounts")
        \/ /\ r.op # "delete"
           /\ \E at \in {"quotas", "source", "virtual", "write_sieve"} : Skip(s, at)
    BY <1>3, <1>6, <2>1 DEF ReadAccounts, AllOps
  <2>3. CASE Read(s, AccountsFile, "write_accounts")
    <3>1. n.at = "write_accounts" /\ n.read = disk[AccountsFile]
      BY <1>4, <2>3
    <3> QED BY <2>1, <3>1 DEF InSync
  <2>4. CASE /\ r.op # "delete"
             /\ \E at \in {"quotas", "source", "virtual", "write_sieve"} : Skip(s, at)
    <3>1. n.at \in {"quotas", "source", "virtual", "write_sieve"}
      BY <1>5, <2>4
    <3> QED BY <2>4, <3>1 DEF InSync
  <2> QED BY <2>2, <2>3, <2>4
<1>7. CASE WriteAccounts(s)
  <2>1. PICK next \in {"quotas", "idle"} :
          Execute(s, AccountsFile, AccountLines(r), next)
    BY <1>7 DEF WriteAccounts
  <2>2. n.at = "quotas" /\ disk' = [disk EXCEPT ![AccountsFile] = AccountLines(r)]
    BY <2>1, FilesApart, ExecuteGoesOn
  <2>3. ASSUME r.op = "delete" PROVE About(disk'[AccountsFile], r.addr) = {}
    <3>1. disk'[AccountsFile] = r.read \ About(r.read, r.addr)
      BY <1>2, <2>2, <2>3, FilesApart DEF AccountLines
    <3> QED BY <3>1 DEF About
  <2> QED BY <2>2, <2>3 DEF InSync
<1>8. CASE CheckSource(s)
  <2>1. n.at = "virtual" /\ r.op # "delete"
    BY <1>1, <1>3, <1>5, <1>8 DEF CheckSource, RequestOK
  <2> QED BY <2>1 DEF InSync
<1>9. CASE ReadQuotas(s)
  <2>1. UNCHANGED disk /\ r.at = "quotas"
    BY <1>9 DEF ReadQuotas
  <2>2. \/ Read(s, QuotasFile, "write_quotas")
        \/ /\ r.op = "delete" /\ About(disk[QuotasFile], r.addr) = {}
           /\ Skip(s, "virtual")
    BY <1>3, <1>9 DEF ReadQuotas
  <2>3. CASE Read(s, QuotasFile, "write_quotas")
    <3>1. n.at = "write_quotas" /\ n.read = disk[QuotasFile]
      BY <1>4, <2>3
    <3> QED BY <2>1, <3>1 DEF InSync
  <2>4. CASE /\ r.op = "delete" /\ About(disk[QuotasFile], r.addr) = {}
             /\ Skip(s, "virtual")
    <3>1. n.at = "virtual"
      BY <1>5, <2>4
    <3> QED BY <2>1, <2>4, <3>1 DEF InSync
  <2> QED BY <2>2, <2>3, <2>4
<1>10. CASE WriteQuotas(s)
  <2>1. PICK next \in {"virtual", "idle"} :
          /\ Execute(s, QuotasFile, QuotaLines(r), next)
          /\ r.at = "write_quotas"
    BY <1>10 DEF WriteQuotas
  <2>2. n.at = "virtual" /\ disk' = [disk EXCEPT ![QuotasFile] = QuotaLines(r)]
    BY <2>1, FilesApart, ExecuteGoesOn
  <2>3. ASSUME r.op = "delete" PROVE About(disk'[QuotasFile], r.addr) = {}
    <3>1. r.quota = NoValue
      BY <2>3 DEF InSync
    <3>2. disk'[QuotasFile] = r.read \ About(r.read, r.addr)
      BY <1>2, <2>2, <3>1, FilesApart DEF QuotaLines
    <3> QED BY <3>2 DEF About
  <2>4. disk'[AccountsFile] = disk[AccountsFile]
    BY <1>2, <2>2, FilesApart
  <2> QED BY <2>1, <2>2, <2>3, <2>4 DEF InSync
<1>11. CASE ReadVirtual(s)
  <2>1. UNCHANGED disk /\ r.at = "virtual"
    BY <1>11 DEF ReadVirtual
  <2>2. \/ Read(s, VirtualFile, "write_virtual")
        \/ /\ r.op = "delete" /\ To(disk[VirtualFile], r.addr) = {}
           /\ Skip(s, "write_sieve")
    BY <1>3, <1>11 DEF ReadVirtual
  <2>3. CASE Read(s, VirtualFile, "write_virtual")
    <3>1. n.at = "write_virtual" /\ n.read = disk[VirtualFile]
      BY <1>4, <2>3
    <3> QED BY <2>1, <3>1 DEF InSync
  <2>4. CASE /\ r.op = "delete" /\ To(disk[VirtualFile], r.addr) = {}
             /\ Skip(s, "write_sieve")
    <3>1. n.at = "write_sieve"
      BY <1>5, <2>4
    <3> QED BY <2>1, <2>4, <3>1 DEF InSync
  <2> QED BY <2>2, <2>3, <2>4
<1>12. CASE WriteVirtual(s)
  <2>1. PICK next \in {"write_sieve", "idle"} :
          /\ Execute(s, VirtualFile, AliasLines(r), next)
          /\ r.at = "write_virtual"
    BY <1>12 DEF WriteVirtual
  <2>2. n.at = "write_sieve" /\ disk' = [disk EXCEPT ![VirtualFile] = AliasLines(r)]
    BY <2>1, FilesApart, ExecuteGoesOn
  <2>3. ASSUME r.op = "delete" PROVE To(disk'[VirtualFile], r.addr) = {}
    <3>1. disk'[VirtualFile] = r.read \ To(r.read, r.addr)
      BY <1>2, <2>2, <2>3, FilesApart DEF AliasLines
    <3> QED BY <3>1 DEF To
  <2>4. /\ disk'[AccountsFile] = disk[AccountsFile]
        /\ disk'[QuotasFile] = disk[QuotasFile]
    BY <1>2, <2>2, FilesApart
  <2> QED BY <2>1, <2>2, <2>3, <2>4 DEF InSync
<1>13. ~WriteSieve(s) /\ ~Abort(s)
  <2>1. ~Abort(s)
    BY <1>3 DEF Abort
  <2>2. ASSUME WriteSieve(s) PROVE FALSE
    <3>1. r.addr \in Files
      BY <1>1, <2>2, FilesApart DEF WriteSieve, RequestOK
    <3>2. PICK lines : Execute(s, r.addr, lines, "idle")
      BY <2>2 DEF WriteSieve
    <3> QED BY <3>1, <3>2, ExecuteGoesOn
  <2> QED BY <2>1, <2>2
<1> QED BY <1>6, <1>7, <1>8, <1>9, <1>10, <1>11, <1>12, <1>13 DEF Work

\* A step of a request leaves those that are alone undisturbed.
LEMMA WorkAlone ==
    ASSUME Inv, AloneInv, NEW s \in Slots, Work(s)
    PROVE  AloneInv'
<1> SUFFICES ASSUME NEW t \in Slots, req'[t].alone
             PROVE  Undisturbed(t)'
  BY DEF AloneInv
<1>1. req \in [Slots -> Request]
  BY DEF Inv
<1>2. req[s].at # "idle"
  BY DEF Work, Abort, ReadAccounts, WriteAccounts, CheckSource,
     ReadQuotas, WriteQuotas, ReadVirtual, WriteVirtual, WriteSieve
<1>3. \A u \in Slots \ {s} : req'[u] = req[u]
  BY <1>1, WorkCases DEF Ends, GoesOn, Continue
<1>4. t = s
  BY <1>2, <1>3 DEF AloneInv, Undisturbed
<1>5. GoesOn(s)
  <2>1. ~Ends(s)
    BY <1>1, <1>4 DEF Ends, Continue, Idle
  <2> QED BY <2>1, WorkCases
<1>6. PICK at \in Stages : \E lines :
        Continue(s, [req[s] EXCEPT !.at = at, !.read = lines])
  BY <1>5 DEF GoesOn
<1>7. /\ req'[s].op = req[s].op /\ req'[s].addr = req[s].addr
      /\ req'[s].quota = req[s].quota /\ req'[s].ok = req[s].ok
      /\ req'[s].alone = req[s].alone
  BY <1>1, <1>6 DEF Continue, Request
<1>8. Undisturbed(s)
  BY <1>4, <1>7 DEF AloneInv
<1>9. InSync(s)'
  BY <1>4, <1>7, <1>8, WorkInSync DEF Undisturbed
<1>10. late' = {}
  BY <1>5, <1>8 DEF GoesOn, Undisturbed
<1> QED BY <1>3, <1>4, <1>7, <1>8, <1>9, <1>10 DEF Undisturbed

\* A request that is alone stays undisturbed until it is answered or another
\* one arrives.
LEMMA AloneInvariance == Spec => [](Inv /\ AloneInv)
<1>1. Init => AloneInv
  BY DEF Init, AloneInv, Idle
<1>2. Inv /\ AloneInv /\ [Next]_vars => AloneInv'
  <2> SUFFICES ASSUME Inv, AloneInv, [Next]_vars PROVE AloneInv'
    OBVIOUS
  <2>1. CASE Land
    <3>1. \A s \in Slots : ~req[s].alone
      BY <2>1 DEF Land, AloneInv, Undisturbed
    <3> QED BY <2>1, <3>1 DEF Land, AloneInv
  <2>2. ASSUME NEW s \in Slots, Step(s) PROVE AloneInv'
    <3>1. Arrive(s) \/ Work(s)
      BY <2>2 DEF Step, Work
    <3> QED BY <3>1, ArriveAlone, WorkAlone
  <2>3. CASE UNCHANGED vars
    BY <2>3 DEF vars, AloneInv, Undisturbed, InSync
  <2> QED BY <2>1, <2>2, <2>3 DEF Next
<1> QED BY <1>1, <1>2, Invariance, PTL DEF Spec

-----------------------------------------------------------------------------
(* What a request that is alone does *)

\* What a command of a request that is alone changes: one file, of which it
\* rewrites what it last read.
LEMMA WriteCases ==
    ASSUME Inv, NEW s \in Slots, Undisturbed(s), Work(s)
    PROVE  \/ UNCHANGED disk
           \/ /\ req[s].at = "write_accounts"
              /\ disk' = [disk EXCEPT ![AccountsFile] = AccountLines(req[s])]
           \/ /\ req[s].at = "write_quotas"
              /\ disk' = [disk EXCEPT ![QuotasFile] = QuotaLines(req[s])]
           \/ /\ req[s].at = "write_virtual"
              /\ disk' = [disk EXCEPT ![VirtualFile] = AliasLines(req[s])]
           \/ /\ req[s].at = "write_sieve"
              /\ disk' = [disk EXCEPT ![req[s].addr] =
                            IF req[s].op = "set_sieve"
                            THEN {<<req[s].addr, Script>>} ELSE {}]
<1>1. ASSUME NEW f, NEW lines, NEW next, Execute(s, f, lines, next)
      PROVE  UNCHANGED disk \/ disk' = [disk EXCEPT ![f] = lines]
  BY <1>1, ExecuteCases
<1>2. CASE WriteAccounts(s)
  BY <1>1, <1>2 DEF WriteAccounts
<1>3. CASE WriteQuotas(s)
  BY <1>1, <1>3 DEF WriteQuotas
<1>4. CASE WriteVirtual(s)
  BY <1>1, <1>4 DEF WriteVirtual
<1>5. CASE WriteSieve(s)
  BY <1>1, <1>5 DEF WriteSieve
<1>6. CASE Abort(s) \/ ReadAccounts(s) \/ CheckSource(s)
           \/ ReadQuotas(s) \/ ReadVirtual(s)
  BY <1>6 DEF Abort, ReadAccounts, CheckSource, ReadQuotas, ReadVirtual
<1> QED BY <1>2, <1>3, <1>4, <1>5, <1>6 DEF Work

\* It leaves the lines of the other mailboxes.
LEMMA WorkKeepsOthers ==
    ASSUME Inv, NEW s \in Slots, Undisturbed(s), Work(s)
    PROVE  KeepsOthers(s)
<1> DEFINE r == req[s]
<1>1. r \in Request /\ RequestOK(r)
  BY DEF Inv
<1>2. disk \in [Files -> SUBSET Lines]
  BY DEF Inv
<1> SUFFICES ASSUME NEW a \in Addrs \ {r.addr}
             PROVE  /\ About(disk'[AccountsFile], a) = About(disk[AccountsFile], a)
                    /\ About(disk'[QuotasFile], a) = About(disk[QuotasFile], a)
                    /\ To(disk'[VirtualFile], a) = To(disk[VirtualFile], a)
                    /\ disk'[a] = disk[a]
  BY DEF KeepsOthers
<1>3. /\ a \in Files /\ a # AccountsFile /\ a # QuotasFile /\ a # VirtualFile
  BY FilesApart
<1>4. CASE UNCHANGED disk
  BY <1>4
<1>5. CASE /\ r.at = "write_accounts"
           /\ disk' = [disk EXCEPT ![AccountsFile] = AccountLines(r)]
  <2>1. r.read = disk[AccountsFile] /\ r.op \in {"create", "delete", "set_password"}
    BY <1>1, <1>5 DEF RequestOK, Undisturbed, InSync
  <2>2. About(AccountLines(r), a) = About(r.read, a)
    <3>1. AccountLines(r) \in {r.read \cup {<<r.addr, r.pw>>},
                               r.read \ About(r.read, r.addr),
                               (r.read \ About(r.read, r.addr)) \cup {<<r.addr, r.pw>>}}
      BY <2>1 DEF AccountLines
    <3>2. <<r.addr, r.pw>>[1] = r.addr
      OBVIOUS
    <3> QED BY <3>1, <3>2 DEF About
  <2>3. disk'[AccountsFile] = AccountLines(r)
    BY <1>2, <1>5, FilesApart
  <2> QED BY <1>2, <1>3, <1>5, <2>1, <2>2, <2>3, FilesApart
<1>6. CASE /\ r.at = "write_quotas"
           /\ disk' = [disk EXCEPT ![QuotasFile] = QuotaLines(r)]
  <2>1. r.read = disk[QuotasFile]
    BY <1>6 DEF Undisturbed, InSync
  <2>2. About(QuotaLines(r), a) = About(r.read, a)
    <3>1. QuotaLines(r) \in {r.read \ About(r.read, r.addr),
                             (r.read \ About(r.read, r.addr)) \cup {<<r.addr, r.quota>>}}
      BY DEF QuotaLines
    <3>2. <<r.addr, r.quota>>[1] = r.addr
      OBVIOUS
    <3> QED BY <3>1, <3>2 DEF About
  <2>3. disk'[QuotasFile] = QuotaLines(r)
    BY <1>2, <1>6, FilesApart
  <2> QED BY <1>2, <1>3, <1>6, <2>1, <2>2, <2>3, FilesApart
<1>7. CASE /\ r.at = "write_virtual"
           /\ disk' = [disk EXCEPT ![VirtualFile] = AliasLines(r)]
  <2>1. r.read = disk[VirtualFile] /\ r.op \in {"delete", "add_alias", "delete_alias"}
    BY <1>1, <1>7 DEF RequestOK, Undisturbed, InSync
  <2>2. To(AliasLines(r), a) = To(r.read, a)
    <3>1. AliasLines(r) \in {r.read \ To(r.read, r.addr),
                             r.read \cup {<<r.alias, r.addr>>},
                             r.read \ {<<r.alias, r.addr>>}}
      BY <2>1 DEF AliasLines
    <3>2. <<r.alias, r.addr>>[2] = r.addr
      OBVIOUS
    <3> QED BY <3>1, <3>2 DEF To
  <2>3. disk'[VirtualFile] = AliasLines(r)
    BY <1>2, <1>7, FilesApart
  <2> QED BY <1>2, <1>3, <1>7, <2>1, <2>2, <2>3, FilesApart
<1>8. CASE /\ r.at = "write_sieve"
           /\ disk' = [disk EXCEPT ![r.addr] =
                         IF r.op = "set_sieve" THEN {<<r.addr, Script>>} ELSE {}]
  <2>1. r.addr \in Addrs
    BY <1>1, <1>8 DEF RequestOK
  <2>2. \A f \in Files \ {r.addr} : disk'[f] = disk[f]
    BY <1>2, <1>8
  <2> QED BY <1>3, <2>1, <2>2, FilesApart
<1> QED BY <1>4, <1>5, <1>6, <1>7, <1>8, WriteCases

\* No line of another mailbox is changed by a request that nothing disturbs, in
\* whatever order earlier ones have left the files.
THEOREM OwnLines == Spec => OwnLinesAlone
<1>1. ASSUME Inv, AloneInv, [Next]_vars
      PROVE  \A s \in Slots :
               req[s].alone /\ req'[s] # req[s] => KeepsOthers(s)
  <2> SUFFICES ASSUME NEW s \in Slots, req[s].alone
               PROVE  KeepsOthers(s)
    OBVIOUS
  <2>1. Undisturbed(s)
    BY <1>1 DEF AloneInv
  <2>2. CASE Work(s)
    BY <1>1, <2>1, <2>2, WorkKeepsOthers
  <2>3. CASE UNCHANGED disk
    BY <2>3 DEF KeepsOthers
  <2> QED BY <1>1, <2>2, <2>3, OnlyActor DEF vars
<1> QED BY <1>1, AloneInvariance, PTL DEF Spec, OwnLinesAlone

\* delete_mailbox takes quota, aliases and filter only once the account line is
\* gone: when a command fails the mailbox still works or is no mailbox.
THEOREM WholeOrNone == Spec => NoHalfMailbox
<1>1. ASSUME Inv, AloneInv, [Next]_vars
      PROVE  \A s \in Slots, a \in Addrs :
               Deleting(s, a) /\ IsMailbox(a)' =>
                 UNCHANGED <<disk[QuotasFile], disk[VirtualFile], disk[a]>>
  <2> SUFFICES ASSUME NEW s \in Slots, NEW a \in Addrs, Deleting(s, a),
                      IsMailbox(a)'
               PROVE  UNCHANGED <<disk[QuotasFile], disk[VirtualFile], disk[a]>>
    OBVIOUS
  <2>1. /\ req[s].op = "delete" /\ req[s].addr = a /\ req[s].alone
        /\ Undisturbed(s)
    BY <1>1 DEF Deleting, AloneInv
  <2>2. disk \in [Files -> SUBSET Lines]
    BY <1>1 DEF Inv
  <2>3. CASE UNCHANGED disk
    BY <2>3
  <2>4. CASE disk' = [disk EXCEPT ![AccountsFile] = AccountLines(req[s])]
    BY <2>2, <2>4, FilesApart
  <2>5. CASE /\ req[s].at \in {"write_quotas", "write_virtual", "write_sieve"}
             /\ disk'[AccountsFile] = disk[AccountsFile]
    BY <2>1, <2>5 DEF Undisturbed, InSync, IsMailbox
  <2>6. CASE Work(s)
    BY <1>1, <2>1, <2>2, <2>3, <2>4, <2>5, <2>6, FilesApart, WriteCases
  <2> QED BY <1>1, <2>1, <2>3, <2>6, OnlyActor DEF vars
<1> QED BY <1>1, AloneInvariance, PTL DEF Spec, NoHalfMailbox

\* delete_mailbox answers that it is done when quota, aliases and filter are
\* gone with the account.
THEOREM DeletionWhole == Spec => DeleteRemovesAll
<1>1. ASSUME Inv, AloneInv, [Next]_vars
      PROVE  \A s \in Slots, a \in Addrs :
               Deleting(s, a) /\ req'[s].ok => ~IsMailbox(a)' /\ ~Leftovers(a)'
  <2> SUFFICES ASSUME NEW s \in Slots, NEW a \in Addrs, Deleting(s, a),
                      req'[s].ok
               PROVE  ~IsMailbox(a)' /\ ~Leftovers(a)'
    OBVIOUS
  <2>1. /\ req[s].op = "delete" /\ req[s].addr = a /\ req[s].alone
        /\ Undisturbed(s)
    BY <1>1 DEF Deleting, AloneInv
  <2>2. disk \in [Files -> SUBSET Lines] /\ req \in [Slots -> Request]
    BY <1>1 DEF Inv
  <2>3. req[s].ok = FALSE
    BY <2>1 DEF Undisturbed
  <2>4. Work(s)
    BY <1>1, <2>1, <2>2, <2>3, OnlyActor DEF Request, vars
  <2>5. ~Answer(s, FALSE) /\ \A f, at : ~Read(s, f, at) /\ ~Skip(s, at)
    BY <2>2, <2>3 DEF Answer, Read, Skip, Continue, Request, Idle
  <2>6. ASSUME NEW f, NEW lines, NEW next, Execute(s, f, lines, next)
        PROVE  next = "idle" /\ disk' = [disk EXCEPT ![f] = lines]
    BY <2>2, <2>5, <2>6 DEF Execute, Answer
  <2>7. ~Abort(s) /\ ~CheckSource(s) /\ ~ReadVirtual(s)
    BY <2>5 DEF Abort, CheckSource, ReadVirtual
  <2>8. ~ReadAccounts(s)
    BY <2>1, <2>5 DEF ReadAccounts
  <2>9. ~ReadQuotas(s)
    BY <2>1, <2>5 DEF ReadQuotas
  <2>10. ~WriteAccounts(s) /\ ~WriteQuotas(s) /\ ~WriteVirtual(s)
    BY <2>1, <2>6 DEF WriteAccounts, WriteQuotas, WriteVirtual
  <2>11. WriteSieve(s)
    BY <2>4, <2>7, <2>8, <2>9, <2>10 DEF Work
  <2>12. disk' = [disk EXCEPT ![a] = {}] /\ req[s].at = "write_sieve"
    BY <2>1, <2>6, <2>11 DEF WriteSieve
  <2>13. /\ About(disk[AccountsFile], a) = {} /\ About(disk[QuotasFile], a) = {}
         /\ To(disk[VirtualFile], a) = {}
    BY <2>1, <2>12 DEF Undisturbed, InSync
  <2> QED BY <2>2, <2>12, <2>13, FilesApart DEF IsMailbox, Leftovers
<1> QED BY <1>1, AloneInvariance, PTL DEF Spec, DeleteRemovesAll
=============================================================================
