--------------------------------- MODULE Dkim ---------------------------------
(***************************************************************************)
(* The DKIM part of mailserver_service.  OpenDKIM and Rspamd keep their    *)
(* keys in two directories; when Rspamd signs, migrate_dkim_to_rspamd      *)
(* copies the keys of the domains it cannot see and writes                 *)
(* dkim_signing.conf, which names them, at the end.                        *)
(*                                                                         *)
(* Each file is read and written by a command of its own, in a thread, so  *)
(* requests overlap between any two; a command can fail, and one that      *)
(* times out is abandoned and may still take effect.  A later migration    *)
(* takes a domain with one public file for migrated.  A listing and the    *)
(* reading of what it lists are one step, since no key is ever removed,    *)
(* and so are the reading of a key and the writing of its private file,    *)
(* since what OpenDKIM has of it does not change.                          *)
(*                                                                         *)
(* External: `setup config dkim`, and the ENABLE_RSPAMD of the container.  *)
(***************************************************************************)
EXTENDS Naturals, FiniteSets

CONSTANTS
    Migrations,    \* migrations that can be in flight together
    Keys,          \* pairs of a domain and a selector, numbered in file order
    Domains,
    DomainOf,      \* the domain of each
    KeyFaults,     \* what can happen to a command: "error", "timeout"
    MaxAbandoned   \* bound on abandoned commands still running

ASSUME DkimConstantsOK ==
    /\ Keys \subseteq Nat
    /\ DomainOf \in [Keys -> Domains]
    /\ MaxAbandoned \in Nat

VARIABLES
    signer,      \* what signs outgoing mail
    open,        \* the keys OpenDKIM has
    private,     \* what Rspamd's private file of each key holds
    public,      \* what its public file holds
    conf,        \* dkim_signing.conf: who wrote it, and the keys it names
    abandoned,   \* abandoned writes that may still take effect
    job          \* the migration each slot serves

dkimVars == <<signer, open, private, public, conf, abandoned, job>>

\* A key copied from OpenDKIM, or one that Rspamd's own tool has made.
Contents == {"none", "copied", "own"}
NoConf == [by |-> "nobody", names |-> {}]
Confs == [by : {"nobody", "migration", "others"}, names : SUBSET Keys]

NoJob == [at |-> "idle", seen |-> {}, domains |-> {}, left |-> {}, blocks |-> {},
          ok |-> FALSE, fresh |-> FALSE]

Jobs == [at : {"idle", "rspamd", "opendkim", "conf", "keys", "private", "public",
               "write_conf", "listing"},
         seen : SUBSET Domains, domains : SUBSET Domains,
         left : SUBSET Keys, blocks : SUBSET Keys, ok : BOOLEAN,
         fresh : BOOLEAN]   \* history: nothing else since it began, nor left before

Writes == [file : {"private", "public"}, key : Keys] \cup
          [file : {"conf"}, names : SUBSET Keys]

DkimTypeOK ==
    /\ signer \in {"opendkim", "rspamd"}
    /\ open \subseteq Keys
    /\ private \in [Keys -> Contents] /\ public \in [Keys -> Contents]
    /\ conf \in Confs
    /\ abandoned \subseteq Writes
    /\ job \in [Migrations -> Jobs]

-----------------------------------------------------------------------------

Update(m, r) == job' = [job EXCEPT ![m] = r]
Report(m, ok) == Update(m, [NoJob EXCEPT !.ok = ok])

\* A write takes effect.
Apply(w) ==
    /\ private' = IF w.file = "private" THEN [private EXCEPT ![w.key] = "copied"]
                                        ELSE private
    /\ public' = IF w.file = "public" THEN [public EXCEPT ![w.key] = "copied"]
                                      ELSE public
    /\ conf' = IF w.file = "conf" THEN [by |-> "migration", names |-> w.names]
                                  ELSE conf

\* The command of a write succeeds and the migration goes on, fails, or is given up.
Write(m, w, r) ==
    /\ \/ Apply(w) /\ Update(m, r) /\ UNCHANGED abandoned
       \/ /\ "error" \in KeyFaults
          /\ Report(m, FALSE)
          /\ UNCHANGED <<private, public, conf, abandoned>>
       \/ /\ "timeout" \in KeyFaults /\ Cardinality(abandoned) < MaxAbandoned
          /\ Report(m, FALSE)
          /\ abandoned' = abandoned \cup {w}
          /\ UNCHANGED <<private, public, conf>>
    /\ UNCHANGED <<signer, open>>

\* Something else happens beside the migrations in flight.
Disturb == job' = [m \in Migrations |-> [job[m] EXCEPT !.fresh = FALSE]]

-----------------------------------------------------------------------------
(* migrate_dkim_to_rspamd                                                  *)

\* It is refused when Rspamd does not sign.
Migrate(m) ==
    /\ job[m].at = "idle"
    /\ signer = "rspamd"
    /\ LET quiet == /\ abandoned = {}
                    /\ \A n \in Migrations : job[n].at = "idle"
                    /\ \A k \in Keys : public[k] # "copied"
       IN job' = [n \in Migrations |->
                    IF n = m THEN [NoJob EXCEPT !.at = "rspamd", !.fresh = quiet]
                             ELSE [job[n] EXCEPT !.fresh = FALSE]]
    /\ UNCHANGED <<signer, open, private, public, conf, abandoned>>

\* The domains Rspamd has a public file of; none are migrated when it does not
\* sign any more.
ListRspamd(m) ==
    /\ job[m].at = "rspamd"
    /\ IF signer # "rspamd"
       THEN Report(m, FALSE)
       ELSE Update(m, [job[m] EXCEPT !.at = "opendkim",
                         !.seen = {DomainOf[k] : k \in {l \in Keys : public[l] # "none"}}])
    /\ UNCHANGED <<signer, open, private, public, conf, abandoned>>

\* Those OpenDKIM has keys of; with none left the request is refused.
ListOpendkim(m) ==
    LET candidates == {DomainOf[k] : k \in open} \ job[m].seen
    IN  /\ job[m].at = "opendkim"
        /\ IF candidates = {}
           THEN Report(m, FALSE)
           ELSE Update(m, [job[m] EXCEPT !.at = "conf", !.domains = candidates])
        /\ UNCHANGED <<signer, open, private, public, conf, abandoned>>

\* A configuration that is there is not overwritten.
CheckConf(m) ==
    /\ job[m].at = "conf"
    /\ IF conf.by # "nobody"
       THEN Report(m, FALSE)
       ELSE Update(m, [job[m] EXCEPT !.at = "keys"])
    /\ UNCHANGED <<signer, open, private, public, conf, abandoned>>

\* The keys of these domains, listed again.
ListKeys(m) ==
    LET left == {k \in open : DomainOf[k] \in job[m].domains}
    IN  /\ job[m].at = "keys"
        /\ Update(m, [job[m] EXCEPT !.left = left,
                        !.at = IF left = {} THEN "write_conf" ELSE "private"])
        /\ UNCHANGED <<signer, open, private, public, conf, abandoned>>

\* Mutant: the public file is thought to be enough.
WritePrivateNot(m) ==
    /\ job[m].at = "private"
    /\ Update(m, [job[m] EXCEPT !.at = "public"])
    /\ UNCHANGED <<signer, open, private, public, conf, abandoned>>

\* The first of the keys that are left.
First(k, left) == k \in left /\ \A l \in left : k <= l

\* It is read, and its private file written.
WritePrivate(m) ==
    /\ job[m].at = "private"
    /\ \E k \in Keys : /\ First(k, job[m].left)
                       /\ Write(m, [file |-> "private", key |-> k],
                                [job[m] EXCEPT !.at = "public"])

\* Mutant: the block of each domain replaces those before.
WithBlockOnly(r, k) ==
    [r EXCEPT !.blocks = {k}, !.left = @ \ {k},
              !.at = IF r.left = {k} THEN "write_conf" ELSE "private"]

\* A block names the key, and the next one follows.
WithBlock(r, k) ==
    [r EXCEPT !.blocks = @ \cup {k}, !.left = @ \ {k},
              !.at = IF r.left = {k} THEN "write_conf" ELSE "private"]

WritePublic(m) ==
    /\ job[m].at = "public"
    /\ \E k \in Keys : /\ First(k, job[m].left)
                       /\ Write(m, [file |-> "public", key |-> k],
                                WithBlock(job[m], k))

WriteConf(m) ==
    /\ job[m].at = "write_conf"
    /\ Write(m, [file |-> "conf", names |-> job[m].blocks],
             [job[m] EXCEPT !.at = "listing"])

\* The answer lists the keys there are now.
ListResult(m) ==
    /\ job[m].at = "listing"
    /\ Report(m, TRUE)
    /\ UNCHANGED <<signer, open, private, public, conf, abandoned>>

\* A read fails, before a private file is written those of the key included.
GiveUp(m) ==
    /\ "error" \in KeyFaults
    /\ job[m].at \in {"rspamd", "opendkim", "conf", "keys", "private", "listing"}
    /\ Report(m, FALSE)
    /\ UNCHANGED <<signer, open, private, public, conf, abandoned>>

-----------------------------------------------------------------------------
(* What goes on beside                                                     *)

\* An abandoned write takes effect.
TakeEffect ==
    \E w \in abandoned : /\ Apply(w)
                         /\ abandoned' = abandoned \ {w}
                         /\ UNCHANGED <<signer, open, job>>

\* generate_dkim, a key at a time: the tool of the signer makes one where it
\* keeps them, and that of Rspamd may write a configuration where none is.
Generate(k) ==
    /\ Disturb
    /\ \/ /\ signer = "opendkim"
          /\ open' = open \cup {k}
          /\ UNCHANGED <<private, public, conf>>
       \/ /\ signer = "rspamd"
          /\ private' = [private EXCEPT ![k] = "own"]
          /\ public' = [public EXCEPT ![k] = "own"]
          /\ \/ UNCHANGED conf
             \/ conf = NoConf /\ conf' = [by |-> "others", names |-> {k}]
          /\ UNCHANGED open
    /\ UNCHANGED <<signer, abandoned>>

\* set_rspamd_override_file and delete_rspamd_override_file of dkim_signing.conf.
Override ==
    /\ \/ conf' = [by |-> "others", names |-> {}]
       \/ conf.by # "nobody" /\ conf' = NoConf
    /\ Disturb
    /\ UNCHANGED <<signer, open, private, public, abandoned>>

\* The container is started with the other value of ENABLE_RSPAMD.
Reconfigure ==
    /\ signer' = IF signer = "rspamd" THEN "opendkim" ELSE "rspamd"
    /\ Disturb
    /\ UNCHANGED <<open, private, public, conf, abandoned>>

-----------------------------------------------------------------------------

DkimInit ==
    /\ signer = "opendkim"
    /\ open = {}
    /\ private = [k \in Keys |-> "none"] /\ public = [k \in Keys |-> "none"]
    /\ conf = NoConf
    /\ abandoned = {}
    /\ job = [m \in Migrations |-> NoJob]

MigrationStep(m) ==
    \/ Migrate(m) \/ ListRspamd(m) \/ ListOpendkim(m) \/ CheckConf(m)
    \/ ListKeys(m) \/ WritePrivate(m) \/ WritePublic(m) \/ WriteConf(m)
    \/ ListResult(m) \/ GiveUp(m)

DkimNext ==
    \/ \E m \in Migrations : MigrationStep(m)
    \/ TakeEffect
    \/ \E k \in Keys : Generate(k)
    \/ Override
    \/ Reconfigure

DkimSpec == DkimInit /\ [][DkimNext]_dkimVars

-----------------------------------------------------------------------------
(* Properties                                                              *)

\* Whatever overlaps, fails or lands late, a configuration that a migration wrote
\* never names a private key that is not there: Rspamd would sign with nothing.
SigningNamesKeys ==
    conf.by = "migration" => \A k \in conf.names : private[k] # "none"

\* The domain of the key has one that the tool has made for Rspamd.
OwnKey(k) == \E l \in Keys : DomainOf[l] = DomainOf[k] /\ public[l] = "own"

\* A migration that finds no copy left by an earlier one, and that nothing else
\* disturbs, reports success only when every key OpenDKIM had is named by the
\* configuration, all selectors of a domain included; or its domain has its own.
MigrationSigns ==
    [][\A m \in Migrations :
         job[m].fresh /\ job'[m].ok =>
             \A k \in open : k \in conf'.names \/ OwnKey(k)']_dkimVars

=============================================================================
