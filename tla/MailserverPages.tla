--------------------------- MODULE MailserverPages ---------------------------
(***************************************************************************)
(* The pages under features/mailserver and the fail2ban page, described    *)
(* with the vocabulary of PageOps: one definition per page.                *)
(***************************************************************************)
EXTENDS PageOps

----------------------------------------------------------------------------
(* One file of a family is open at a time, and saved from a text area.     *)

\* sieve.ts, spam.ts, ldap.ts: the scope is read again when each request
\* is sent, and the answer of a save is shown whatever is open by then.
Editor == ScopedPage([load   |-> Load("loading", "error", {"content"}),
                      onSave |-> Save("saving", "error", "content")], "content")

Sieve == Editor
Spam == Editor
Ldap == Editor

----------------------------------------------------------------------------
(* Lists, reloaded after each change.                                      *)

\* restrictions.ts: a row is deleted from the list it was read from, and the
\* list reloaded is that of the kind open by then.
Restrictions ==
  ScopedPage(
    [load     |-> Load("loading", "error", {"restrictions"}),
     onAdd    |-> Submit("adding", "error", {"restrictions"}, {"load"}),
     onDelete |-> [RowChange("deleting", "error", "restrictions", {"restrictions"}, {"load"})
                     EXCEPT !.rowKey = TRUE]], "restrictions")

\* relay.ts: two lists read together; the list of exclusions stays in place
\* while they are read again.
Relay ==
  PageOf(
    [load              |-> Load("loading", "error", {"relays", "exclusions"}),
     onCreateRelay     |-> Submit("creatingRelay", "createRelayError", {"relays"}, {"load"}),
     onDeleteRelay     |-> RowChange("deletingSender", "error", "relays", {"relays"}, {"load"}),
     onAddExclusion    |-> Submit("addingExclusion", "error", {"exclusions"}, {"load"}),
     onDeleteExclusion |-> [RowChange("deletingExclusion", "error", "exclusions",
                                      {"exclusions"}, {"load"}) EXCEPT !.hidden = {}]])

\* aliases.ts: everything is hidden while the two lists are read, and the two
\* deletions share one signal.
Aliases ==
  LET Add(flag, list) ==
        [Submit(flag, "error", {list}, {"load"}) EXCEPT !.hidden = {"loading"}]
      Delete(list) == RowChange("deletingAlias", "error", list, {list}, {"load"})
  IN PageOf([load                |-> Load("loading", "error", {"systemAliases", "regexAliases"}),
             onAddSystemAlias    |-> Add("addingSystemAlias", "systemAliases"),
             onDeleteSystemAlias |-> Delete("systemAliases"),
             onAddRegexAlias     |-> Add("addingRegexAlias", "regexAliases"),
             onDeleteRegexAlias  |-> Delete("regexAliases")])

\* queue.ts: flushing and emptying the queue share one signal.
Queue ==
  LET Whole == [Change("flushing", "error", {"queue"}, {"load"}) EXCEPT !.rowsOf = "queue"]
  IN PageOf([load        |-> Refreshable(Load("loading", "error", {"queue"})),
             onFlush     |-> Whole,
             onDelete    |-> RowChange("deletingQueueId", "error", "queue", {"queue"}, {"load"}),
             onDeleteAll |-> Whole])

\* dovecot.ts: a list reloaded after each change, beside a text area that stays
\* in place, with its button, while both are read.
Dovecot ==
  PageOf(
    [load           |-> Load("loading", "error", {"masters", "config"}),
     onCreateMaster |-> Submit("creatingMaster", "error", {"masters"}, {"load"}),
     onDeleteMaster |-> RowChange("deletingMaster", "error", "masters", {"masters"}, {"load"}),
     onSaveConfig   |-> [Save("savingConfig", "error", "config") EXCEPT !.hidden = {}]])

----------------------------------------------------------------------------
(* Changes whose answer replaces what is shown.                            *)

\* postfix.ts: two editors under one banner, each sent after a check.
Postfix ==
  LET Checked(save) == [save EXCEPT !.checks = TRUE]
  IN PageOf([load         |-> Load("loading", "error", {"overrides", "masterOverrides"}),
             onSave       |-> Checked(Save("saving", "error", "overrides")),
             onSaveMaster |-> Checked(Save("savingMaster", "error", "masterOverrides"))])

\* dkim.ts: the answer of a migration is the new list of keys and empties the
\* candidates; that of a generation is the list of keys only, although the
\* server no longer offers the domain for migration.
Dkim ==
  LET Answered(flag) ==
        [Change(flag, "error", {"keys", "migrationCandidates"}, {}) EXCEPT !.shows = {"keys"}]
  IN PageOf([load       |-> Load("loading", "error", {"keys", "migrationCandidates"}),
             onMigrate  |-> [Answered("migrating") EXCEPT
                               !.rowsOf = "migrationCandidates",
                               !.shows = {"keys", "migrationCandidates"}],
             onGenerate |-> [Answered("generating") EXCEPT !.checks = TRUE]])

\* rspamd.ts: the editor of the commands.  The handlers of the override files
\* share its banner; the list they keep is the subject of module OverrideFiles.
RspamdFile(flag) == RowChange(flag, "error", none, {}, {})

Rspamd ==
  PageOf(
    [load       |-> Load("loading", "error", {"commands"}),
     onSave     |-> [Save("saving", "error", "commands") EXCEPT !.checks = TRUE],
     saveFile   |-> RspamdFile("savingFile"),
     deleteFile |-> RspamdFile("deletingFile"),
     createFile |-> [RspamdFile("creatingFile")
                       EXCEPT !.rowed = FALSE, !.anyRow = TRUE, !.checks = TRUE]])

----------------------------------------------------------------------------
(* Pages that only read.                                                   *)

Report(field) == PageOf([load |-> Load("loading", "error", {field})])
RefreshedReport(field) == PageOf([load |-> Refreshable(Load("loading", "error", {field}))])

Tls == RefreshedReport("certificate")
Dns == Report("records")
Environment == Report("environment")
Logs == RefreshedReport("lines")

----------------------------------------------------------------------------
(* fail2ban.ts: three tabs, each loaded when it is first chosen.           *)

Fail2banLoads == {"statusLoading", "policyLoading", "logLoading"}

\* The load of a tab; its refresh button is disabled while any of them runs.
TabLoad(flag, error, fields, tab) ==
  [Load(flag, error, fields) EXCEPT !.byUser = TRUE, !.at = {tab}, !.hidden = Fail2banLoads]

\* The tab of the jails: their banned addresses are its rows.
OverviewOps ==
  [loadStatus |-> TabLoad("statusLoading", "statusError", {"jails"}, "overview"),
   onBan      |-> [Submit("banning", "actionError", {"jails"}, {"loadStatus"})
                     EXCEPT !.at = {"overview"}],
   onUnban    |-> [RowChange("unbanningIp", "actionError", "jails", {"jails"}, {"loadStatus"})
                     EXCEPT !.at = {"overview"}, !.hidden = {"statusLoading", "statusError"}]]

\* The tabs of the ban policy, beside the daemon's file, and of the log.  The
\* answer of onSavePolicy is not shown (fail2ban.ts:289-291): the form keeps the
\* policy that was sent, unless a refresh has meanwhile put another in its place.
PolicyOps ==
  LET OnPolicy(save) == [save EXCEPT !.at = {"policy"}, !.hidden = {"policyLoading"}]
  IN [loadPolicy   |-> TabLoad("policyLoading", "policyError", {"policy", "daemonConfig"}, "policy"),
      onSavePolicy |-> [OnPolicy(Save("savingPolicy", "policyError", "policy"))
                          EXCEPT !.checks = TRUE, !.keeps = TRUE],
      onSaveConfig |-> OnPolicy(Save("savingConfig", "policyError", "daemonConfig")),
      loadLog      |-> TabLoad("logLoading", "logError", {"logLines"}, "log")]

Fail2ban ==
  [ops |-> [o \in DOMAIN OverviewOps \cup DOMAIN PolicyOps |->
              IF o \in DOMAIN OverviewOps THEN OverviewOps[o] ELSE PolicyOps[o]],
   first |-> {"loadStatus"}, opens |-> "overview", keys |-> Tabs, keyed |-> {},
   tab |-> [jails |-> "overview", policy |-> "policy", daemonConfig |-> "policy",
            logLines |-> "log"],
   choice |-> [Choice EXCEPT !.same = "again", !.lazy = TRUE,
                             !.runs = {"loadPolicy", "loadLog"}]]
=============================================================================
