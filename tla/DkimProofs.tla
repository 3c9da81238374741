------------------------------ MODULE DkimProofs ------------------------------
(***************************************************************************)
(* Theorems about Dkim, for any number of migrations in flight, any keys   *)
(* and every fault: what a configuration names is there, and a migration   *)
(* that nothing disturbs leaves no key out; and about MCConfigDir, where a *)
(* behaviour is one of the keys or one of the mailboxes.                   *)
(***************************************************************************)
EXTENDS MCConfigDir, MailboxesProofs

\* What a migration says it has copied is there: the key whose public file is
\* next, and those it has a block of.
JobOK(r) ==
    /\ r.at = "public" => \A k \in Keys : First(k, r.left) => private[k] # "none"
    /\ \A k \in r.blocks : private[k] # "none"

\* And so for a configuration that an abandoned command may still write.
WriteOK(w) ==
    w.file = "conf" => \A k \in w.names : private[k] # "none"

KeysInv ==
    /\ DkimTypeOK
    /\ \A m \in Migrations : JobOK(job[m])
    /\ \A w \in abandoned : WriteOK(w)
    /\ SigningNamesKeys

-----------------------------------------------------------------------------
(* Files and records *)

\* A write leaves files of the right kind, and takes no private file away.
LEMMA ApplyFiles ==
    ASSUME DkimTypeOK, NEW w \in Writes, Apply(w)
    PROVE  /\ private' \in [Keys -> Contents] /\ public' \in [Keys -> Contents]
           /\ conf' \in Confs
           /\ \A k \in Keys : private[k] # "none" => private'[k] # "none"
<1> USE DEF DkimTypeOK, Apply, Contents
<1>1. CASE w.file = "conf"
  <2>1. w.names \in SUBSET Keys
    BY <1>1 DEF Writes
  <2> QED BY <1>1, <2>1 DEF Confs
<1>2. CASE w.file \in {"private", "public"}
  <2>1. w.key \in Keys
    BY <1>2 DEF Writes
  <2> QED BY <1>2, <2>1
<1>3. w.file \in {"private", "public", "conf"}
  BY DEF Writes
<1> QED BY <1>1, <1>2, <1>3

\* What has been said of private files stays true while they stay.
LEMMA StaysOK ==
    ASSUME \A k \in Keys : private[k] # "none" => private'[k] # "none"
    PROVE  /\ \A r \in Jobs : JobOK(r) => JobOK(r)'
           /\ \A w \in Writes : WriteOK(w) => WriteOK(w)'
<1>1. \A r \in Jobs : r.blocks \subseteq Keys
  BY DEF Jobs
<1>2. \A w \in Writes : w.file = "conf" => w.names \subseteq Keys
  BY DEF Writes
<1> QED BY <1>1, <1>2 DEF JobOK, WriteOK, First

\* An answered migration says nothing.
LEMMA NoJobOK ==
    ASSUME NEW ok \in BOOLEAN
    PROVE  /\ [NoJob EXCEPT !.ok = ok] \in Jobs
           /\ JobOK([NoJob EXCEPT !.ok = ok])
           /\ JobOK([NoJob EXCEPT !.ok = ok])'
BY DEF NoJob, Jobs, JobOK

\* A migration goes on with files as they are.
LEMMA UpdateInv ==
    ASSUME KeysInv, NEW m \in Migrations, NEW r \in Jobs, JobOK(r), Update(m, r),
           UNCHANGED <<signer, open, private, public, conf, abandoned>>
    PROVE  KeysInv'
<1>1. job' = [job EXCEPT ![m] = r] /\ job \in [Migrations -> Jobs]
  BY DEF Update, KeysInv, DkimTypeOK
<1>2. job' \in [Migrations -> Jobs]
  BY <1>1
<1>3. \A n \in Migrations : JobOK(job'[n])
  BY <1>1 DEF KeysInv
<1> QED BY <1>2, <1>3 DEF KeysInv, DkimTypeOK, JobOK, WriteOK, SigningNamesKeys

\* A write succeeds, fails, or is given up.
LEMMA WriteInv ==
    ASSUME KeysInv, NEW m \in Migrations, NEW w \in Writes, WriteOK(w),
           NEW r \in Jobs, Apply(w) => JobOK(r)', Write(m, w, r)
    PROVE  KeysInv'
<1> USE DEF KeysInv, DkimTypeOK
<1>1. CASE Apply(w) /\ Update(m, r) /\ UNCHANGED abandoned
  <2>1. /\ private' \in [Keys -> Contents] /\ public' \in [Keys -> Contents]
        /\ conf' \in Confs
        /\ \A k \in Keys : private[k] # "none" => private'[k] # "none"
    BY <1>1, ApplyFiles
  <2>2. job' = [job EXCEPT ![m] = r] /\ job' \in [Migrations -> Jobs]
    BY <1>1 DEF Update
  <2>3. \A n \in Migrations : JobOK(job[n])'
    BY <1>1, <2>1, <2>2, StaysOK
  <2>4. \A v \in abandoned' : WriteOK(v)'
    BY <1>1, <2>1, StaysOK
  <2>5. SigningNamesKeys'
    <3>1. CASE w.file = "conf"
      <4>1. conf'.names = w.names
        BY <1>1, <3>1 DEF Apply
      <4>2. WriteOK(w)'
        BY <2>1, StaysOK
      <4> QED BY <3>1, <4>1, <4>2 DEF WriteOK, SigningNamesKeys
    <3>2. CASE w.file # "conf"
      <4>1. conf' = conf /\ conf.names \subseteq Keys
        BY <1>1, <3>2 DEF Apply, Confs
      <4> QED BY <2>1, <4>1 DEF SigningNamesKeys
    <3> QED BY <3>1, <3>2
  <2> QED BY <2>1, <2>2, <2>3, <2>4, <2>5 DEF Write
<1>2. CASE /\ Report(m, FALSE)
           /\ UNCHANGED <<private, public, conf>>
           /\ abandoned' \in {abandoned, abandoned \cup {w}}
  <2> DEFINE n == [NoJob EXCEPT !.ok = FALSE]
  <2>1. n \in Jobs /\ JobOK(n)
    BY NoJobOK
  <2>2. job' = [job EXCEPT ![m] = n]
    BY <1>2 DEF Report, Update
  <2> HIDE DEF n
  <2>3. job' \in [Migrations -> Jobs] /\ \A i \in Migrations : JobOK(job'[i])
    BY <2>1, <2>2
  <2>4. \A i \in Migrations : JobOK(job[i])'
    BY <1>2, <2>3 DEF JobOK
  <2>5. abandoned' \subseteq Writes /\ \A v \in abandoned' : WriteOK(v)'
    BY <1>2 DEF WriteOK
  <2> QED BY <1>2, <2>3, <2>4, <2>5 DEF Write, SigningNamesKeys
<1> QED BY <1>1, <1>2 DEF Write

\* A step that leaves the private files, the configuration and the abandoned
\* commands alone, and what the migrations say.
LEMMA QuietInv ==
    ASSUME KeysInv, DkimTypeOK', UNCHANGED <<private, conf, abandoned>>,
           \A m \in Migrations : JobOK(job[m])'
    PROVE  KeysInv'
BY DEF KeysInv, WriteOK, SigningNamesKeys

-----------------------------------------------------------------------------
(* Steps of a migration *)

LEMMA RecordOK ==
    ASSUME NEW r \in Jobs, JobOK(r),
           NEW at \in {"rspamd", "opendkim", "conf", "keys", "private", "write_conf",
                       "listing"},
           NEW seen \in SUBSET Domains, NEW domains \in SUBSET Domains,
           NEW left \in SUBSET Keys
    PROVE  LET q == [r EXCEPT !.at = at, !.seen = seen, !.domains = domains,
                              !.left = left]
           IN  q \in Jobs /\ JobOK(q)
BY DEF Jobs, JobOK

LEMMA MigrateInv ==
    ASSUME KeysInv, NEW m \in Migrations, Migrate(m)
    PROVE  KeysInv'
<1> DEFINE quiet == /\ abandoned = {}
                    /\ \A n \in Migrations : job[n].at = "idle"
                    /\ \A k \in Keys : public[k] # "copied"
           r(n) == IF n = m THEN [NoJob EXCEPT !.at = "rspamd", !.fresh = quiet]
                            ELSE [job[n] EXCEPT !.fresh = FALSE]
<1>1. quiet \in BOOLEAN
  OBVIOUS
<1>2. job' = [n \in Migrations |-> r(n)]
  BY DEF Migrate
<1> HIDE DEF quiet
<1>3. \A n \in Migrations : r(n) \in Jobs /\ JobOK(r(n))
  <2> TAKE n \in Migrations
  <2>1. CASE n = m
    <3>1. r(n) = [NoJob EXCEPT !.at = "rspamd", !.fresh = quiet]
      BY <2>1
    <3> QED BY <1>1, <3>1 DEF Jobs, NoJob, JobOK
  <2>2. CASE n # m
    <3>1. r(n) = [job[n] EXCEPT !.fresh = FALSE]
      BY <2>2
    <3>2. job[n] \in Jobs /\ JobOK(job[n])
      BY DEF KeysInv, DkimTypeOK
    <3> HIDE DEF r
    <3> QED BY <3>1, <3>2 DEF Jobs, JobOK
  <2> QED BY <2>1, <2>2
<1> HIDE DEF r
<1>4. job' \in [Migrations -> Jobs] /\ \A n \in Migrations : JobOK(job'[n])
  BY <1>2, <1>3
<1>5. \A n \in Migrations : JobOK(job[n])'
  BY <1>4 DEF JobOK, Migrate
<1> QED BY <1>4, <1>5, QuietInv DEF Migrate, KeysInv, DkimTypeOK

LEMMA ReportInv ==
    ASSUME KeysInv, NEW m \in Migrations, NEW ok \in BOOLEAN, Report(m, ok),
           UNCHANGED <<signer, open, private, public, conf, abandoned>>
    PROVE  KeysInv'
BY NoJobOK, UpdateInv DEF Report

LEMMA KeyReadsInv ==
    ASSUME KeysInv, NEW m \in Migrations,
           ListRspamd(m) \/ ListOpendkim(m) \/ CheckConf(m) \/ ListResult(m) \/ GiveUp(m)
    PROVE  KeysInv'
<1>1. job[m] \in Jobs /\ JobOK(job[m]) /\ DomainOf \in [Keys -> Domains] /\ open \subseteq Keys
  BY DkimConstantsOK DEF KeysInv, DkimTypeOK
<1>2. CASE ListRspamd(m)
  <2> DEFINE seen == {DomainOf[k] : k \in {l \in Keys : public[l] # "none"}}
             q == [job[m] EXCEPT !.at = "opendkim", !.seen = seen]
  <2>1. seen \subseteq Domains
    BY <1>1
  <2>2. Report(m, FALSE) \/ Update(m, q)
    BY <1>2 DEF ListRspamd
  <2> HIDE DEF seen
  <2>3. q \in Jobs /\ JobOK(q)
    BY <1>1, <2>1 DEF Jobs, JobOK
  <2> HIDE DEF q
  <2> QED BY <1>2, <2>2, <2>3, ReportInv, UpdateInv DEF ListRspamd
<1>3. CASE ListOpendkim(m)
  <2> DEFINE candidates == {DomainOf[k] : k \in open} \ job[m].seen
             q == [job[m] EXCEPT !.at = "conf", !.domains = candidates]
  <2>1. candidates \subseteq Domains
    BY <1>1
  <2>2. Report(m, FALSE) \/ Update(m, q)
    BY <1>3 DEF ListOpendkim
  <2> HIDE DEF candidates
  <2>3. q \in Jobs /\ JobOK(q)
    BY <1>1, <2>1 DEF Jobs, JobOK
  <2> HIDE DEF q
  <2> QED BY <1>3, <2>2, <2>3, ReportInv, UpdateInv DEF ListOpendkim
<1>4. CASE CheckConf(m)
  <2> DEFINE q == [job[m] EXCEPT !.at = "keys"]
  <2>1. Report(m, FALSE) \/ Update(m, q)
    BY <1>4 DEF CheckConf
  <2>2. q \in Jobs /\ JobOK(q)
    BY <1>1 DEF Jobs, JobOK
  <2> HIDE DEF q
  <2> QED BY <1>4, <2>1, <2>2, ReportInv, UpdateInv DEF CheckConf
<1>5. CASE ListResult(m)
  BY <1>5, ReportInv DEF ListResult
<1>6. CASE GiveUp(m)
  BY <1>6, ReportInv DEF GiveUp
<1> QED BY <1>2, <1>3, <1>4, <1>5, <1>6

LEMMA ListKeysInv ==
    ASSUME KeysInv, NEW m \in Migrations, ListKeys(m)
    PROVE  KeysInv'
<1> DEFINE left == {k \in open : DomainOf[k] \in job[m].domains}
           at == IF left = {} THEN "write_conf" ELSE "private"
           q == [job[m] EXCEPT !.left = left, !.at = at]
<1>1. job[m] \in Jobs /\ JobOK(job[m]) /\ left \subseteq Keys
  BY DEF KeysInv, DkimTypeOK
<1>2. Update(m, q)
  BY DEF ListKeys
<1>3. at \in {"write_conf", "private"}
  OBVIOUS
<1> HIDE DEF left, at
<1>4. q \in Jobs /\ JobOK(q)
  BY <1>1, <1>3 DEF Jobs, JobOK
<1> HIDE DEF q
<1> QED BY <1>2, <1>4, UpdateInv DEF ListKeys

\* The key of a private file is the only one that comes first.
LEMMA WritePrivateInv ==
    ASSUME KeysInv, NEW m \in Migrations, WritePrivate(m)
    PROVE  KeysInv'
<1>1. PICK k \in Keys : /\ First(k, job[m].left)
                        /\ Write(m, [file |-> "private", key |-> k],
                                 [job[m] EXCEPT !.at = "public"])
  BY DEF WritePrivate
<1> DEFINE w == [file |-> "private", key |-> k]
<1>2. w \in Writes /\ WriteOK(w)
  BY DEF Writes, WriteOK
<1>3. job[m] \in Jobs /\ JobOK(job[m]) /\ private \in [Keys -> Contents]
  BY DEF KeysInv, DkimTypeOK
<1>4. PICK q \in Jobs : q = [job[m] EXCEPT !.at = "public"]
  BY <1>3 DEF Jobs
<1>5. q.at = "public" /\ q.left = job[m].left /\ q.blocks = job[m].blocks
  BY <1>3, <1>4 DEF Jobs
<1>6. \A l \in Keys : First(l, q.left) => l = k
  BY <1>1, <1>5, DkimConstantsOK DEF First
<1>7. ASSUME Apply(w) PROVE JobOK(q)'
  <2>1. private' = [private EXCEPT ![k] = "copied"]
    BY <1>7 DEF Apply
  <2>2. private'[k] # "none" /\ \A l \in Keys : private[l] # "none" => private'[l] # "none"
    BY <1>3, <2>1
  <2>3. q.blocks \subseteq Keys
    BY <1>4 DEF Jobs
  <2>4. \A l \in q.blocks : private'[l] # "none"
    BY <1>3, <1>5, <2>2, <2>3 DEF JobOK
  <2>5. \A l \in Keys : First(l, q.left) => private'[l] # "none"
    BY <1>6, <2>2
  <2> QED BY <2>4, <2>5 DEF JobOK, First
<1>8. Write(m, w, q)
  BY <1>1, <1>4
<1> HIDE DEF w
<1> QED BY <1>2, <1>7, <1>8, WriteInv

\* Its private file is there when it gets its block.
LEMMA WritePublicInv ==
    ASSUME KeysInv, NEW m \in Migrations, WritePublic(m)
    PROVE  KeysInv'
<1>1. PICK k \in Keys : /\ First(k, job[m].left)
                        /\ Write(m, [file |-> "public", key |-> k], WithBlock(job[m], k))
  BY DEF WritePublic
<1> DEFINE w == [file |-> "public", key |-> k]
<1>2. w \in Writes /\ WriteOK(w)
  BY DEF Writes, WriteOK
<1>3. /\ job[m] \in Jobs /\ JobOK(job[m]) /\ private \in [Keys -> Contents]
      /\ job[m].at = "public"
  BY DEF KeysInv, DkimTypeOK, WritePublic
<1>4. PICK q \in Jobs : q = WithBlock(job[m], k)
  BY <1>3 DEF Jobs, WithBlock
<1>5. q.at \in {"private", "write_conf"} /\ q.blocks = job[m].blocks \cup {k}
  BY <1>3, <1>4 DEF Jobs, WithBlock
<1>6. \A l \in q.blocks : private[l] # "none"
  BY <1>1, <1>3, <1>5 DEF JobOK
<1>7. ASSUME Apply(w) PROVE JobOK(q)'
  <2>1. private' = private
    BY <1>7 DEF Apply
  <2> QED BY <1>5, <1>6, <2>1 DEF JobOK
<1>8. Write(m, w, q)
  BY <1>1, <1>4
<1> HIDE DEF w
<1> QED BY <1>2, <1>7, <1>8, WriteInv

LEMMA WriteConfInv ==
    ASSUME KeysInv, NEW m \in Migrations, WriteConf(m)
    PROVE  KeysInv'
<1>1. job[m] \in Jobs /\ JobOK(job[m])
  BY DEF KeysInv, DkimTypeOK
<1>2. PICK w \in Writes : w = [file |-> "conf", names |-> job[m].blocks]
  BY <1>1 DEF Jobs, Writes
<1>3. PICK q \in Jobs : q = [job[m] EXCEPT !.at = "listing"]
  BY <1>1 DEF Jobs
<1>4. q.at = "listing" /\ q.blocks = job[m].blocks
  BY <1>1, <1>3 DEF Jobs
<1>5. WriteOK(w)
  BY <1>1, <1>2 DEF WriteOK, JobOK
<1>6. ASSUME Apply(w) PROVE JobOK(q)'
  <2>1. private' = private
    BY <1>2, <1>6 DEF Apply
  <2> QED BY <1>1, <1>4, <2>1 DEF JobOK
<1>7. Write(m, w, q)
  BY <1>2, <1>3 DEF WriteConf
<1> QED BY <1>2, <1>3, <1>5, <1>6, <1>7, WriteInv

-----------------------------------------------------------------------------
(* What goes on beside *)

LEMMA TakeEffectInv ==
    ASSUME KeysInv, TakeEffect
    PROVE  KeysInv'
<1>1. PICK w \in abandoned : Apply(w) /\ abandoned' = abandoned \ {w}
  BY DEF TakeEffect
<1>2. w \in Writes /\ WriteOK(w) /\ abandoned' \subseteq Writes
  BY <1>1 DEF KeysInv, DkimTypeOK
<1>3. /\ private' \in [Keys -> Contents] /\ public' \in [Keys -> Contents]
      /\ conf' \in Confs
      /\ \A k \in Keys : private[k] # "none" => private'[k] # "none"
  BY <1>1, <1>2, ApplyFiles DEF KeysInv
<1>4. \A m \in Migrations : JobOK(job[m])'
  BY <1>3, StaysOK DEF TakeEffect, KeysInv, DkimTypeOK
<1>5. \A v \in abandoned' : WriteOK(v)'
  BY <1>1, <1>3, StaysOK DEF KeysInv, DkimTypeOK
<1>6. SigningNamesKeys'
  BY <1>1, <1>2, <1>3 DEF KeysInv, DkimTypeOK, Apply, Confs, SigningNamesKeys, WriteOK, Writes
<1> QED BY <1>2, <1>3, <1>4, <1>5, <1>6 DEF TakeEffect, KeysInv, DkimTypeOK

\* Nothing is said differently of a migration that something has disturbed.
LEMMA DisturbOK ==
    ASSUME KeysInv, Disturb,
           \A k \in Keys : private[k] # "none" => private'[k] # "none"
    PROVE  job' \in [Migrations -> Jobs] /\ \A m \in Migrations : JobOK(job[m])'
<1> DEFINE r(n) == [job[n] EXCEPT !.fresh = FALSE]
<1>1. \A n \in Migrations : r(n) \in Jobs /\ JobOK(r(n))
  BY DEF KeysInv, DkimTypeOK, Jobs, JobOK
<1>2. job' = [n \in Migrations |-> r(n)]
  BY DEF Disturb
<1> HIDE DEF r
<1>3. \A n \in Migrations : job'[n] \in Jobs /\ JobOK(job'[n])
  BY <1>1, <1>2
<1>4. \A n \in Migrations : JobOK(job[n])'
  BY <1>3 DEF JobOK, Jobs, First
<1> QED BY <1>2, <1>3, <1>4

LEMMA OthersInv ==
    ASSUME KeysInv, (\E k \in Keys : Generate(k)) \/ Override \/ Reconfigure
    PROVE  KeysInv'
<1> USE DEF KeysInv, DkimTypeOK
<1>1. /\ \A k \in Keys : private[k] # "none" => private'[k] # "none"
      /\ private' \in [Keys -> Contents] /\ public' \in [Keys -> Contents]
  BY DEF Generate, Override, Reconfigure, Contents
<1>2. job' \in [Migrations -> Jobs] /\ \A m \in Migrations : JobOK(job[m])'
  BY <1>1, DisturbOK DEF Generate, Override, Reconfigure
<1>3. /\ conf' \in Confs
      /\ conf' = conf \/ conf'.by # "migration"
  BY DEF Generate, Override, Reconfigure, Confs, NoConf
<1>4. UNCHANGED abandoned
  BY DEF Generate, Override, Reconfigure
<1>5. \A v \in abandoned' : WriteOK(v)'
  BY <1>1, <1>4, StaysOK
<1>6. SigningNamesKeys'
  BY <1>1, <1>3 DEF SigningNamesKeys, Confs
<1>7. signer' \in {"opendkim", "rspamd"} /\ open' \subseteq Keys
  BY DEF Generate, Override, Reconfigure
<1> QED BY <1>1, <1>2, <1>3, <1>4, <1>5, <1>6, <1>7

LEMMA MigrationStepInv ==
    ASSUME KeysInv, NEW m \in Migrations, MigrationStep(m)
    PROVE  KeysInv'
BY MigrateInv, KeyReadsInv, ListKeysInv, WritePrivateInv, WritePublicInv, WriteConfInv
   DEF MigrationStep

LEMMA KeysInvStep ==
    ASSUME KeysInv, [DkimNext]_dkimVars
    PROVE  KeysInv'
<1>1. CASE DkimNext
  BY <1>1, MigrationStepInv, TakeEffectInv, OthersInv DEF DkimNext
<1>2. CASE UNCHANGED dkimVars
  BY <1>2 DEF dkimVars, KeysInv, DkimTypeOK, JobOK, WriteOK, SigningNamesKeys
<1> QED BY <1>1, <1>2

LEMMA KeysInvInit ==
    ASSUME DkimInit
    PROVE  KeysInv
BY DEF DkimInit, KeysInv, DkimTypeOK, NoJob, Jobs, NoConf, Confs, Contents, JobOK,
       SigningNamesKeys

LEMMA KeysInvariant == DkimSpec => []KeysInv
BY KeysInvInit, KeysInvStep, PTL DEF DkimSpec

\* The state stays well-typed: files hold what the code writes, and what a
\* migration remembers are keys and domains.
THEOREM KeysTyped == DkimSpec => []DkimTypeOK
<1>1. KeysInv => DkimTypeOK
  BY DEF KeysInv
<1> QED BY <1>1, KeysInvariant, PTL

\* Whatever overlaps, fails, is given up and lands late, the dkim_signing.conf a
\* migration wrote names private keys that Rspamd has.
THEOREM NamedKeysThere == DkimSpec => []SigningNamesKeys
<1>1. KeysInv => SigningNamesKeys
  BY DEF KeysInv
<1> QED BY <1>1, KeysInvariant, PTL

-----------------------------------------------------------------------------
(* A migration that nothing disturbs *)

HasOwn(d) == \E l \in Keys : DomainOf[l] = d /\ public[l] = "own"

\* What such a migration knows: domains Rspamd has keys of have one of its own, and
\* no key of another domain is forgotten on the way to the configuration.
FreshJob(r) ==
    /\ r.at # "idle" /\ ~r.ok
    /\ r.at \in {"rspamd", "opendkim", "conf", "keys"} =>
           \A k \in Keys : public[k] # "copied"
    /\ \A d \in r.seen : HasOwn(d)
    /\ r.domains \cap r.seen = {}
    /\ r.at \in {"rspamd", "opendkim"} => r.domains = {}
    /\ r.at \in {"conf", "keys"} =>
           \A k \in open : DomainOf[k] \in r.domains \cup r.seen
    /\ \A k \in r.left : DomainOf[k] \in r.domains
    /\ r.at \in {"private", "public"} =>
           \A k \in open : k \in r.left \cup r.blocks \/ DomainOf[k] \in r.seen
    /\ r.at = "write_conf" =>
           \A k \in open : k \in r.blocks \/ DomainOf[k] \in r.seen
    /\ r.at = "listing" =>
           \A k \in open : k \in conf.names \/ DomainOf[k] \in r.seen

Alone(m) ==
    /\ abandoned = {}
    /\ \A n \in Migrations \ {m} : job[n].at = "idle"

FreshInv ==
    \A m \in Migrations : job[m].fresh => Alone(m) /\ FreshJob(job[m])

\* A migration under way goes on: no other is undisturbed.
LEMMA GoOn ==
    ASSUME KeysInv, FreshInv, NEW m \in Migrations, job[m].at # "idle",
           NEW r \in Jobs, Update(m, r),
           r.fresh => job[m].fresh /\ UNCHANGED abandoned /\ FreshJob(r)'
    PROVE  FreshInv'
<1>1. job' = [job EXCEPT ![m] = r] /\ job \in [Migrations -> Jobs]
  BY DEF Update, KeysInv, DkimTypeOK
<1>2. SUFFICES ASSUME NEW n \in Migrations, job'[n].fresh
               PROVE  Alone(n)' /\ FreshJob(job[n])'
  BY DEF FreshInv
<1>3. n = m
  BY <1>1, <1>2 DEF FreshInv, Alone
<1>4. job'[n] = r /\ job[m].fresh /\ UNCHANGED abandoned /\ FreshJob(r)'
  BY <1>1, <1>2, <1>3
<1>5. Alone(n)'
  BY <1>1, <1>3, <1>4 DEF FreshInv, Alone
<1>6. FreshJob(job[n])'
  BY <1>4 DEF FreshJob, HasOwn
<1> QED BY <1>5, <1>6

\* It ends.
LEMMA ReportFresh ==
    ASSUME KeysInv, FreshInv, NEW m \in Migrations, job[m].at # "idle",
           NEW ok \in BOOLEAN, Report(m, ok)
    PROVE  FreshInv'
<1>1. PICK r \in Jobs : r = [NoJob EXCEPT !.ok = ok]
  BY NoJobOK
<1>2. ~r.fresh /\ Update(m, r)
  BY <1>1 DEF Report, NoJob
<1> QED BY <1>2, GoOn

LEMMA MigrateFresh ==
    ASSUME KeysInv, FreshInv, NEW m \in Migrations, Migrate(m)
    PROVE  FreshInv'
<1> DEFINE quiet == /\ abandoned = {}
                    /\ \A n \in Migrations : job[n].at = "idle"
                    /\ \A k \in Keys : public[k] # "copied"
<1>1. PICK q \in BOOLEAN : q = quiet
  OBVIOUS
<1>2. job' = [n \in Migrations |->
                IF n = m THEN [NoJob EXCEPT !.at = "rspamd", !.fresh = q]
                         ELSE [job[n] EXCEPT !.fresh = FALSE]]
  BY <1>1 DEF Migrate
<1>3. job \in [Migrations -> Jobs] /\ UNCHANGED <<abandoned, public>>
  BY DEF Migrate, KeysInv, DkimTypeOK
<1>4. SUFFICES ASSUME NEW n \in Migrations, job'[n].fresh
               PROVE  Alone(n)' /\ FreshJob(job[n])'
  BY DEF FreshInv
<1>5. n = m /\ q /\ job'[n] = [NoJob EXCEPT !.at = "rspamd", !.fresh = q]
  <2>1. \A i \in Migrations \ {m} : job'[i] = [job[i] EXCEPT !.fresh = FALSE]
    BY <1>2
  <2>2. \A i \in Migrations \ {m} : ~job'[i].fresh
    BY <1>3, <2>1 DEF Jobs
  <2>3. n = m
    BY <1>4, <2>2
  <2> QED BY <1>2, <1>4, <2>3 DEF NoJob
<1>6. \A i \in Migrations \ {m} : job'[i].at = job[i].at
  <2> TAKE i \in Migrations \ {m}
  <2>1. job'[i] = [job[i] EXCEPT !.fresh = FALSE]
    BY <1>2
  <2>2. job[i] \in Jobs
    BY <1>3
  <2> QED BY <2>1, <2>2 DEF Jobs
<1>7. Alone(n)'
  BY <1>1, <1>3, <1>5, <1>6 DEF Alone
<1>8. FreshJob(job[n])'
  BY <1>1, <1>3, <1>5 DEF FreshJob, NoJob
<1> QED BY <1>7, <1>8

LEMMA ListRspamdFresh ==
    ASSUME KeysInv, FreshInv, NEW m \in Migrations, ListRspamd(m)
    PROVE  FreshInv'
<1>1. job[m] \in Jobs /\ job[m].at = "rspamd" /\ public \in [Keys -> Contents]
  BY DEF KeysInv, DkimTypeOK, ListRspamd
<1> DEFINE seen == {DomainOf[k] : k \in {l \in Keys : public[l] # "none"}}
<1>2. seen \subseteq Domains
  BY DkimConstantsOK
<1>3. CASE Update(m, [job[m] EXCEPT !.at = "opendkim", !.seen = seen])
  <2>1. PICK r \in Jobs : r = [job[m] EXCEPT !.at = "opendkim", !.seen = seen]
    BY <1>1, <1>2 DEF Jobs
  <2>2. /\ r.at = "opendkim" /\ r.seen = seen /\ r.fresh = job[m].fresh
        /\ r.domains = job[m].domains /\ r.left = job[m].left /\ r.ok = job[m].ok
    BY <1>1, <2>1 DEF Jobs
  <2>3. ASSUME r.fresh PROVE FreshJob(r)'
    <3>1. FreshJob(job[m])
      BY <2>2, <2>3 DEF FreshInv
    <3>2. \A d \in seen : HasOwn(d)
      BY <1>1, <3>1 DEF FreshJob, HasOwn, Contents
    <3>3. job[m].domains = {}
      BY <1>1, <3>1 DEF FreshJob
    <3> QED BY <1>1, <2>2, <3>1, <3>2, <3>3 DEF FreshJob, HasOwn, ListRspamd
  <2> QED BY <1>1, <1>3, <2>1, <2>2, <2>3, GoOn DEF ListRspamd
<1>4. CASE Report(m, FALSE)
  BY <1>1, <1>4, ReportFresh
<1> QED BY <1>3, <1>4 DEF ListRspamd

LEMMA ListOpendkimFresh ==
    ASSUME KeysInv, FreshInv, NEW m \in Migrations, ListOpendkim(m)
    PROVE  FreshInv'
<1>1. job[m] \in Jobs /\ job[m].at = "opendkim" /\ open \subseteq Keys
  BY DEF KeysInv, DkimTypeOK, ListOpendkim
<1> DEFINE candidates == {DomainOf[k] : k \in open} \ job[m].seen
<1>2. candidates \subseteq Domains
  BY <1>1, DkimConstantsOK
<1>3. CASE Update(m, [job[m] EXCEPT !.at = "conf", !.domains = candidates])
  <2>1. PICK r \in Jobs : r = [job[m] EXCEPT !.at = "conf", !.domains = candidates]
    BY <1>1, <1>2 DEF Jobs
  <2>2. /\ r.at = "conf" /\ r.domains = candidates /\ r.fresh = job[m].fresh
        /\ r.seen = job[m].seen /\ r.left = job[m].left /\ r.ok = job[m].ok
    BY <1>1, <2>1 DEF Jobs
  <2>3. ASSUME r.fresh PROVE FreshJob(r)'
    <3>1. FreshJob(job[m])
      BY <2>2, <2>3 DEF FreshInv
    <3>2. \A k \in job[m].left : FALSE
      BY <1>1, <3>1 DEF FreshJob
    <3> QED BY <1>1, <2>2, <3>1, <3>2 DEF FreshJob, HasOwn, ListOpendkim
  <2> QED BY <1>1, <1>3, <2>1, <2>2, <2>3, GoOn DEF ListOpendkim
<1>4. CASE Report(m, FALSE)
  BY <1>1, <1>4, ReportFresh
<1> QED BY <1>3, <1>4 DEF ListOpendkim

LEMMA CheckConfFresh ==
    ASSUME KeysInv, FreshInv, NEW m \in Migrations, CheckConf(m)
    PROVE  FreshInv'
<1>1. job[m] \in Jobs /\ job[m].at = "conf"
  BY DEF KeysInv, DkimTypeOK, CheckConf
<1>2. CASE Update(m, [job[m] EXCEPT !.at = "keys"])
  <2>1. PICK r \in Jobs : r = [job[m] EXCEPT !.at = "keys"]
    BY <1>1 DEF Jobs
  <2>2. /\ r.at = "keys" /\ r.domains = job[m].domains /\ r.fresh = job[m].fresh
        /\ r.seen = job[m].seen /\ r.left = job[m].left /\ r.ok = job[m].ok
    BY <1>1, <2>1 DEF Jobs
  <2>3. ASSUME r.fresh PROVE FreshJob(r)'
    <3>1. FreshJob(job[m])
      BY <2>2, <2>3 DEF FreshInv
    <3>2. UNCHANGED <<open, public, conf>>
      BY DEF CheckConf
    <3> QED BY <1>1, <2>2, <3>1, <3>2 DEF FreshJob, HasOwn
  <2> QED BY <1>1, <1>2, <2>1, <2>2, <2>3, GoOn DEF CheckConf
<1>3. CASE Report(m, FALSE)
  BY <1>1, <1>3, ReportFresh
<1> QED BY <1>2, <1>3 DEF CheckConf

LEMMA ListKeysFresh ==
    ASSUME KeysInv, FreshInv, NEW m \in Migrations, ListKeys(m)
    PROVE  FreshInv'
<1> DEFINE left == {k \in open : DomainOf[k] \in job[m].domains}
           at == IF left = {} THEN "write_conf" ELSE "private"
<1>1. job[m] \in Jobs /\ job[m].at = "keys" /\ left \subseteq Keys
  BY DEF KeysInv, DkimTypeOK, ListKeys
<1>2. Update(m, [job[m] EXCEPT !.left = left, !.at = at])
  BY DEF ListKeys
<1>3. PICK r \in Jobs : r = [job[m] EXCEPT !.left = left, !.at = at]
  BY <1>1 DEF Jobs
<1>4. /\ r.at = at /\ r.left = left /\ r.fresh = job[m].fresh
      /\ r.seen = job[m].seen /\ r.domains = job[m].domains /\ r.ok = job[m].ok
  BY <1>1, <1>3 DEF Jobs
<1>5. ASSUME r.fresh PROVE FreshJob(r)'
  <2>1. FreshJob(job[m])
    BY <1>4, <1>5 DEF FreshInv
  <2>2. \A k \in open : k \in left \/ DomainOf[k] \in job[m].seen
    BY <1>1, <2>1 DEF FreshJob
  <2> QED BY <1>4, <2>1, <2>2 DEF FreshJob, HasOwn, ListKeys
<1> QED BY <1>1, <1>2, <1>3, <1>4, <1>5, GoOn DEF ListKeys

\* A write that fails ends the migration; one that succeeds goes on as it says.
LEMMA WriteFresh ==
    ASSUME KeysInv, FreshInv, NEW m \in Migrations, job[m].at # "idle",
           NEW w, NEW r \in Jobs, Write(m, w, r),
           r.fresh /\ Apply(w) => job[m].fresh /\ FreshJob(r)'
    PROVE  FreshInv'
<1>1. CASE Report(m, FALSE)
  BY <1>1, ReportFresh
<1>2. CASE Apply(w) /\ Update(m, r) /\ UNCHANGED abandoned
  BY <1>2, GoOn
<1> QED BY <1>1, <1>2 DEF Write

LEMMA WritePrivateFresh ==
    ASSUME KeysInv, FreshInv, NEW m \in Migrations, WritePrivate(m)
    PROVE  FreshInv'
<1>1. PICK k \in Keys : Write(m, [file |-> "private", key |-> k],
                              [job[m] EXCEPT !.at = "public"])
  BY DEF WritePrivate
<1> DEFINE w == [file |-> "private", key |-> k]
<1>2. job[m] \in Jobs /\ job[m].at = "private"
  BY DEF KeysInv, DkimTypeOK, WritePrivate
<1>3. PICK r \in Jobs : r = [job[m] EXCEPT !.at = "public"]
  BY <1>2 DEF Jobs
<1>4. /\ r.at = "public" /\ r.left = job[m].left /\ r.fresh = job[m].fresh
      /\ r.seen = job[m].seen /\ r.domains = job[m].domains /\ r.ok = job[m].ok
      /\ r.blocks = job[m].blocks
  BY <1>2, <1>3 DEF Jobs
<1>5. ASSUME r.fresh, Apply(w) PROVE FreshJob(r)'
  <2>1. FreshJob(job[m])
    BY <1>4, <1>5 DEF FreshInv
  <2>2. UNCHANGED <<open, public, conf>>
    BY <1>1, <1>5 DEF Apply, Write
  <2> QED BY <1>2, <1>4, <2>1, <2>2 DEF FreshJob, HasOwn
<1>6. Write(m, w, r)
  BY <1>1, <1>3
<1> HIDE DEF w
<1> QED BY <1>2, <1>4, <1>5, <1>6, WriteFresh

\* The public file is of a domain that Rspamd had no key of.
LEMMA WritePublicFresh ==
    ASSUME KeysInv, FreshInv, NEW m \in Migrations, WritePublic(m)
    PROVE  FreshInv'
<1>1. PICK k \in Keys : /\ First(k, job[m].left)
                        /\ Write(m, [file |-> "public", key |-> k], WithBlock(job[m], k))
  BY DEF WritePublic
<1> DEFINE w == [file |-> "public", key |-> k]
<1>2. job[m] \in Jobs /\ job[m].at = "public" /\ k \in job[m].left
  BY <1>1 DEF KeysInv, DkimTypeOK, WritePublic, First
<1>3. PICK r \in Jobs : r = WithBlock(job[m], k)
  BY <1>2 DEF Jobs, WithBlock
<1>4. /\ r.left = job[m].left \ {k} /\ r.fresh = job[m].fresh
      /\ r.seen = job[m].seen /\ r.domains = job[m].domains /\ r.ok = job[m].ok
      /\ r.blocks = job[m].blocks \cup {k}
      /\ r.at = IF r.left = {} THEN "write_conf" ELSE "private"
  <2>1. /\ r.left = job[m].left \ {k} /\ r.fresh = job[m].fresh
        /\ r.seen = job[m].seen /\ r.domains = job[m].domains /\ r.ok = job[m].ok
    BY <1>2, <1>3 DEF Jobs, WithBlock
  <2>2. r.blocks = job[m].blocks \cup {k}
    BY <1>2, <1>3 DEF Jobs, WithBlock
  <2>3. r.at = IF job[m].left = {k} THEN "write_conf" ELSE "private"
    BY <1>2, <1>3 DEF Jobs, WithBlock
  <2>4. job[m].left = {k} <=> r.left = {}
    BY <1>2, <2>1
  <2> QED BY <2>1, <2>2, <2>3, <2>4
<1>5. ASSUME r.fresh, Apply(w) PROVE FreshJob(r)'
  <2>1. FreshJob(job[m])
    BY <1>4, <1>5 DEF FreshInv
  <2>2. UNCHANGED <<open, conf>> /\ public' = [public EXCEPT ![k] = "copied"]
    BY <1>1, <1>5 DEF Apply, Write
  <2>3. public \in [Keys -> Contents] /\ DomainOf[k] \notin r.seen
    BY <1>2, <1>4, <2>1 DEF KeysInv, DkimTypeOK, FreshJob
  <2>4. \A d \in r.seen : HasOwn(d)'
    BY <1>4, <2>1, <2>2, <2>3 DEF FreshJob, HasOwn
  <2>5. \A i \in open : i \in r.left \cup r.blocks \/ DomainOf[i] \in r.seen
    BY <1>2, <1>4, <2>1 DEF FreshJob
  <2>6. r.at = "write_conf" => \A i \in open : i \in r.blocks \/ DomainOf[i] \in r.seen
    BY <1>4, <2>5
  <2>7. r.at \in {"private", "write_conf"}
    BY <1>4
  <2> QED BY <1>4, <2>1, <2>2, <2>4, <2>5, <2>6, <2>7 DEF FreshJob
<1>6. Write(m, w, r)
  BY <1>1, <1>3
<1> HIDE DEF w
<1> QED BY <1>2, <1>4, <1>5, <1>6, WriteFresh

LEMMA WriteConfFresh ==
    ASSUME KeysInv, FreshInv, NEW m \in Migrations, WriteConf(m)
    PROVE  FreshInv'
<1>1. job[m] \in Jobs /\ job[m].at = "write_conf"
  BY DEF KeysInv, DkimTypeOK, WriteConf
<1>2. PICK w : w = [file |-> "conf", names |-> job[m].blocks]
  OBVIOUS
<1>3. PICK r \in Jobs : r = [job[m] EXCEPT !.at = "listing"]
  BY <1>1 DEF Jobs
<1>4. /\ r.at = "listing" /\ r.left = job[m].left /\ r.fresh = job[m].fresh
      /\ r.seen = job[m].seen /\ r.domains = job[m].domains /\ r.ok = job[m].ok
  BY <1>1, <1>3 DEF Jobs
<1>5. Write(m, w, r)
  BY <1>2, <1>3 DEF WriteConf
<1>6. ASSUME r.fresh, Apply(w) PROVE FreshJob(r)'
  <2>1. FreshJob(job[m])
    BY <1>4, <1>6 DEF FreshInv
  <2>2. UNCHANGED <<open, public>> /\ conf'.names = job[m].blocks
    BY <1>2, <1>5, <1>6 DEF Apply, Write
  <2> QED BY <1>1, <1>4, <2>1, <2>2 DEF FreshJob, HasOwn
<1> QED BY <1>1, <1>4, <1>5, <1>6, WriteFresh

LEMMA MigrationStepFresh ==
    ASSUME KeysInv, FreshInv, NEW m \in Migrations, MigrationStep(m)
    PROVE  FreshInv'
<1>1. CASE ListResult(m)
  BY <1>1, ReportFresh DEF ListResult
<1>2. CASE GiveUp(m)
  BY <1>2, ReportFresh DEF GiveUp
<1> QED BY <1>1, <1>2, MigrateFresh, ListRspamdFresh, ListOpendkimFresh, CheckConfFresh,
           ListKeysFresh, WritePrivateFresh, WritePublicFresh, WriteConfFresh
        DEF MigrationStep

\* What happens beside makes no migration undisturbed.
LEMMA OthersFresh ==
    ASSUME KeysInv, FreshInv,
           TakeEffect \/ (\E k \in Keys : Generate(k)) \/ Override \/ Reconfigure
    PROVE  FreshInv'
<1>1. CASE TakeEffect
  <2>1. abandoned # {} /\ UNCHANGED job
    BY <1>1 DEF TakeEffect
  <2> QED BY <2>1 DEF FreshInv, Alone
<1>2. CASE Disturb
  <2>1. job' = [n \in Migrations |-> [job[n] EXCEPT !.fresh = FALSE]]
    BY <1>2 DEF Disturb
  <2>2. \A n \in Migrations : ~job'[n].fresh
    BY <2>1 DEF KeysInv, DkimTypeOK, Jobs
  <2> QED BY <2>2 DEF FreshInv
<1> QED BY <1>1, <1>2 DEF Generate, Override, Reconfigure

LEMMA FreshInvStep ==
    ASSUME KeysInv, FreshInv, [DkimNext]_dkimVars
    PROVE  FreshInv'
<1>1. CASE DkimNext
  BY <1>1, MigrationStepFresh, OthersFresh DEF DkimNext
<1>2. CASE UNCHANGED dkimVars
  BY <1>2 DEF dkimVars, FreshInv, Alone, FreshJob, HasOwn
<1> QED BY <1>1, <1>2

LEMMA FreshInvariant == DkimSpec => [](KeysInv /\ FreshInv)
<1>1. DkimInit => FreshInv
  BY DEF DkimInit, FreshInv, NoJob
<1> QED BY <1>1, KeysInvInit, KeysInvStep, FreshInvStep, PTL DEF DkimSpec

\* Only the last step reports success, and by then every key is accounted for.
LEMMA SignsStep ==
    ASSUME KeysInv, FreshInv, [DkimNext]_dkimVars,
           NEW m \in Migrations, job[m].fresh, job'[m].ok
    PROVE  \A k \in open : k \in conf'.names \/ OwnKey(k)'
<1>1. FreshJob(job[m]) /\ Alone(m) /\ job \in [Migrations -> Jobs]
  BY DEF FreshInv, KeysInv, DkimTypeOK
<1>2. job[m] \in Jobs /\ ~job[m].ok /\ job[m].at # "idle"
  BY <1>1 DEF FreshJob
<1>3. CASE ListResult(m)
  <2>1. UNCHANGED <<open, public, conf>> /\ job[m].at = "listing"
    BY <1>3 DEF ListResult
  <2> QED BY <1>1, <2>1 DEF FreshJob, HasOwn, OwnKey
<1>4. CASE MigrationStep(m) /\ ~ListResult(m)
  <2>1. ~Report(m, FALSE)
    BY <1>1 DEF Report, Update, NoJob
  <2>2. \A r : Update(m, r) => r.ok
    BY <1>1 DEF Update
  <2>3. \A w, r : Write(m, w, r) => r.ok
    BY <2>1, <2>2 DEF Write
  <2>4. \A at : ~[job[m] EXCEPT !.at = at].ok
    BY <1>2 DEF Jobs
  <2>5. \A at, seen : ~[job[m] EXCEPT !.at = at, !.seen = seen].ok
    BY <1>2 DEF Jobs
  <2>6. \A at, domains : ~[job[m] EXCEPT !.at = at, !.domains = domains].ok
    BY <1>2 DEF Jobs
  <2>7. \A at, left : ~[job[m] EXCEPT !.left = left, !.at = at].ok
    BY <1>2 DEF Jobs
  <2>8. \A k : ~WithBlock(job[m], k).ok
    BY <1>2 DEF Jobs, WithBlock
  <2>9. ~ListRspamd(m)
    BY <2>1, <2>2, <2>5, Zenon DEF ListRspamd
  <2>10. ~ListOpendkim(m)
    BY <2>1, <2>2, <2>6, Zenon DEF ListOpendkim
  <2>11. ~CheckConf(m)
    BY <2>1, <2>2, <2>4, Zenon DEF CheckConf
  <2>12. ~ListKeys(m)
    BY <2>2, <2>7, Zenon DEF ListKeys
  <2>13. ~WritePrivate(m)
    BY <2>3, <2>4, Zenon DEF WritePrivate
  <2>14. ~WritePublic(m)
    BY <2>3, <2>8, Zenon DEF WritePublic
  <2>15. ~WriteConf(m)
    BY <2>3, <2>4, Zenon DEF WriteConf
  <2>16. ~Migrate(m) /\ ~GiveUp(m)
    BY <1>2, <2>1 DEF Migrate, GiveUp
  <2> QED BY <1>4, <2>9, <2>10, <2>11, <2>12, <2>13, <2>14, <2>15, <2>16 DEF MigrationStep
<1>5. CASE \E n \in Migrations \ {m} : MigrationStep(n)
  <2>1. PICK n \in Migrations \ {m} : MigrationStep(n)
    BY <1>5
  <2>2. Migrate(n)
    BY <1>1, <2>1 DEF Alone, MigrationStep, ListRspamd, ListOpendkim, CheckConf, ListKeys,
                      WritePrivate, WritePublic, WriteConf, ListResult, GiveUp
  <2>3. job'[m] = [job[m] EXCEPT !.fresh = FALSE]
    BY <2>1, <2>2 DEF Migrate
  <2> QED BY <1>2, <2>3 DEF Jobs
<1>6. CASE TakeEffect \/ UNCHANGED dkimVars
  BY <1>2, <1>6 DEF TakeEffect, dkimVars
<1>7. CASE Disturb
  <2>1. job'[m] = [job[m] EXCEPT !.fresh = FALSE]
    BY <1>7 DEF Disturb
  <2> QED BY <1>2, <2>1 DEF Jobs
<1> QED BY <1>3, <1>4, <1>5, <1>6, <1>7
        DEF DkimNext, Generate, Override, Reconfigure

\* A migration that nothing disturbs, and that finds no copy an earlier one has
\* left, reports success only when the configuration names every key OpenDKIM had,
\* or the domain of the key has one that Rspamd's own tool made.
THEOREM NoKeyForgotten == DkimSpec => MigrationSigns
<1>1. KeysInv /\ FreshInv /\ [DkimNext]_dkimVars =>
        [\A m \in Migrations :
           job[m].fresh /\ job'[m].ok =>
             \A k \in open : k \in conf'.names \/ OwnKey(k)']_dkimVars
  BY SignsStep
<1> QED BY <1>1, FreshInvariant, PTL DEF DkimSpec, MigrationSigns

-----------------------------------------------------------------------------
(* The specification that is model-checked (MCConfigDir)                   *)

\* While the keys run the mailboxes stutter, and the other way round.
LEMMA MailboxesRun == MCSpec => Spec
<1>1. MCInit => Init
  BY DEF MCInit
<1>2. [MCNext]_<<vars, dkimVars>> => [Next]_vars
  BY DEF MCNext
<1> QED BY <1>1, <1>2, PTL DEF MCSpec, Spec

\* The keys run as Dkim says, or nothing is ever said of them.
KeysRun == IF OnKeys THEN KeysInv /\ FreshInv ELSE SigningNamesKeys

LEMMA KeysRunInit == MCInit => KeysRun
<1>1. NoKeys => ~OnKeys /\ SigningNamesKeys
  BY DEF NoKeys, OnKeys, SigningNamesKeys, NoConf
<1>2. DkimInit => KeysInv /\ FreshInv /\ OnKeys
  BY KeysInvInit DEF DkimInit, FreshInv, NoJob, OnKeys
<1> QED BY <1>1, <1>2 DEF MCInit, KeysRun

\* No step of the keys hands over to the mailboxes, since what signs stays known.
LEMMA KeysRunStep == KeysRun /\ [MCNext]_<<vars, dkimVars>> => KeysRun'
<1> SUFFICES ASSUME KeysRun, [MCNext]_<<vars, dkimVars>>
             PROVE  KeysRun'
  OBVIOUS
<1>1. CASE OnKeys
  <2>1. [DkimNext]_dkimVars
    BY <1>1 DEF MCNext
  <2>2. KeysInv' /\ FreshInv'
    BY <1>1, <2>1, KeysInvStep, FreshInvStep DEF KeysRun
  <2>3. OnKeys'
    BY <2>2 DEF KeysInv, DkimTypeOK, OnKeys
  <2> QED BY <2>2, <2>3 DEF KeysRun
<1>2. CASE ~OnKeys
  <2>1. UNCHANGED dkimVars
    BY <1>2 DEF MCNext
  <2> QED BY <1>2, <2>1 DEF dkimVars, KeysRun, OnKeys, SigningNamesKeys
<1> QED BY <1>1, <1>2

LEMMA KeysRunInvariant == MCSpec => []KeysRun
BY KeysRunInit, KeysRunStep, PTL DEF MCSpec

\* The files of config_files.py keep what mailbox_service and the DKIM migration
\* write, whichever of the two runs.
THEOREM ServicesTyped == MCSpec => []TypesOK
<1>1. KeysRun /\ TypeOK => TypesOK
  BY DEF KeysRun, KeysInv, TypesOK
<1> QED BY <1>1, KeysRunInvariant, MailboxesRun, TypeCorrect, PTL

\* Every promise proved of Dkim and of Mailboxes (no line twice, no key named that is
\* not there, deletions and migrations whole) holds of the specification checked.
THEOREM ServicesKeepPromises ==
    MCSpec => /\ []OneLinePerMailbox /\ []SigningNamesKeys
              /\ DeleteRemovesAll /\ OwnLinesAlone /\ NoHalfMailbox
              /\ MigrationSigns
<1>1. KeysRun => SigningNamesKeys
  BY DEF KeysRun, KeysInv
<1>2. KeysRun /\ [MCNext]_<<vars, dkimVars>> =>
        [\A m \in Migrations :
           job[m].fresh /\ job'[m].ok =>
             \A k \in open : k \in conf'.names \/ OwnKey(k)']_dkimVars
  <2> SUFFICES ASSUME KeysRun, [MCNext]_<<vars, dkimVars>>
               PROVE  [\A m \in Migrations :
                         job[m].fresh /\ job'[m].ok =>
                           \A k \in open : k \in conf'.names \/ OwnKey(k)']_dkimVars
    OBVIOUS
  <2>1. CASE OnKeys
    <3>1. [DkimNext]_dkimVars
      BY <2>1 DEF MCNext
    <3> QED BY <2>1, <3>1, SignsStep DEF KeysRun
  <2>2. CASE ~OnKeys
    BY <2>2 DEF MCNext
  <2> QED BY <2>1, <2>2
<1>3. MCSpec => []SigningNamesKeys /\ MigrationSigns
  BY <1>1, <1>2, KeysRunInvariant, PTL DEF MCSpec, MigrationSigns
<1> QED
  BY <1>3, MailboxesRun, OneLineHolds, DeletionWhole, OwnLines, WholeOrNone, PTL

=============================================================================
