------------------------------ MODULE AdminPages ------------------------------
(***************************************************************************)
(* The pages of mailboxes, accounts and groups, the audit trail, the       *)
(* settings, the profile and the dashboard, described with the vocabulary  *)
(* of PageOps.                                                             *)
(***************************************************************************)
EXTENDS PageOps

Merge(ops1, ops2) ==
  [o \in DOMAIN ops1 \cup DOMAIN ops2 |-> IF o \in DOMAIN ops1 THEN ops1[o] ELSE ops2[o]]

----------------------------------------------------------------------------
(* mailboxes.ts: a list, hidden while it is read, whose rows open a panel. *)

\* The list of mailboxes: creation, quota and deletion reload it.
MailboxListOps ==
  [loadMailboxes |-> Load("loading", "loadError", {"mailboxes"}),
   onCreate      |-> Submit("creating", "createError", {"mailboxes"}, {"loadMailboxes"}),
   onSaveQuota   |-> [Submit("savingQuota", "quotaError", {"mailboxes"}, {"loadMailboxes"})
                        EXCEPT !.at = Keys, !.hidden = {"loading"}],
   onDelete      |-> [RowChange("deletingEmail", "loadError", "mailboxes", {"mailboxes"},
                                {"loadMailboxes"}) EXCEPT !.closes = TRUE]]

\* The password of the mailbox whose panel is open.
MailboxPasswordOps ==
  [onResetPassword |-> [Submit("saving", "formError", {}, {})
                          EXCEPT !.at = Keys, !.hidden = {"loading"}]]

\* Its aliases: read for the mailbox the panel was opened for, and again after
\* each change for the mailbox that was changed.
MailboxAliasOps ==
  LET OfPanel(change) == [change EXCEPT !.at = Keys, !.sameKey = TRUE]
  IN [loadAliases   |-> [Load("aliasesLoading", "aliasError", {"aliases"})
                           EXCEPT !.at = Keys, !.clears = {}, !.blanks = {"aliases"}],
      onAddAlias    |-> [OfPanel(Submit("addingAlias", "aliasError", {"aliases"}, {"loadAliases"}))
                           EXCEPT !.hidden = {"loading"}],
      onRemoveAlias |-> [OfPanel(RowChange("removingAlias", "aliasError", "aliases", {"aliases"},
                                           {"loadAliases"}))
                           EXCEPT !.hidden = {"loading", "aliasesLoading"}]]

\* Its Sieve filter: saving and removing exclude each other.
MailboxSieveOps ==
  LET OfPanel(save) ==
        [save EXCEPT !.at = Keys,
                     !.hidden = {"loading", "sieveLoading", "savingSieve", "removingSieve"}]
  IN [loadSieve     |-> [Load("sieveLoading", "sieveError", {"sieve"})
                           EXCEPT !.at = Keys, !.clears = {}, !.blanks = {"sieve"}],
      onSaveSieve   |-> OfPanel(Save("savingSieve", "sieveError", "sieve")),
      onRemoveSieve |-> [OfPanel(Save("removingSieve", "sieveError", "sieve"))
                           EXCEPT !.rowsOf = "sieve"]]

\* toggleManage opens the panel of a mailbox, or closes the open one.
Mailboxes ==
  [PageOf(Merge(Merge(MailboxListOps, MailboxPasswordOps), Merge(MailboxAliasOps, MailboxSieveOps)))
     EXCEPT !.first = {"loadMailboxes"}, !.keys = Keys, !.keyed = {"aliases", "sieve"},
            !.choice = [Choice EXCEPT
                          !.same = "close", !.hidden = {"loading"},
                          !.clears = {"formError", "quotaError", "aliasError", "sieveError"},
                          !.runs = {"loadAliases", "loadSieve"}]]

----------------------------------------------------------------------------
(* users.ts: accounts and groups, and the panel of a group's members.  The *)
(* list of accounts also shows the role each one draws from its groups.    *)

\* loadGroups holds up no signal, and neither it nor loadGroupMembers takes a
\* banner down.
UserLoads ==
  [loadUsers        |-> Load("loading", "loadError", {"users", "roles"}),
   loadGroups       |-> [Load(none, "loadError", {"groups"}) EXCEPT !.clears = {}],
   loadGroupMembers |-> [Load("loadingMembers", "membersError", {"members"})
                           EXCEPT !.at = Keys, !.clears = {}, !.loses = {"members"}]]

\* Operations on one account.  While any account is toggled, or deleted, the
\* button of every other is disabled too.
AccountOps ==
  LET EachRow(change) == [change EXCEPT !.anyRow = TRUE]
      OverList(change) == [change EXCEPT !.hidden = {"loading"}]
  IN [createUser   |-> [OverList(Submit("creatingUser", "userCreationError", {"users"},
                                        {"loadUsers"})) EXCEPT !.form = "userForm"],
      deleteUser   |-> [EachRow(RowChange("deletingUserId", "loadError", "users",
                                          {"users", "groups", "members"},
                                          {"loadUsers", "loadGroups"})) EXCEPT !.everyKey = TRUE],
      toggleActive |-> EachRow(RowChange("togglingUserId", "loadError", "users", {"users"},
                                         {"loadUsers"})),
      onSubmit     |-> [OverList(Submit("saving", "formError", {}, {})) EXCEPT !.rowsOf = "users"]]

\* Operations on one group and its members.  deleteGroup raises the signal of
\* the password form, takes no banner down, and closes the form of the group.
GroupOps ==
  LET OfPanel(change) == [change EXCEPT !.at = Keys, !.sameKey = TRUE]
      Membership == {"members", "groups", "roles"}
      Reloads == {"loadGroupMembers", "loadGroups"}
  IN [submitGroup   |-> [Submit("savingGroup", "groupFormError", {"groups", "roles"}, {"loadGroups"})
                           EXCEPT !.hidden = {"loading"}, !.form = "groupForm"],
      deleteGroup   |-> [RowChange("saving", "loadError", "groups", {"groups", "roles"},
                                   {"loadGroups"})
                           EXCEPT !.anyRow = TRUE, !.clears = {}, !.closes = TRUE,
                                  !.mayShut = {"groupForm"}],
      addSelectedUsersToGroup
                    |-> [OfPanel(Change("addingMembers", "membersError", Membership, Reloads))
                           EXCEPT !.hidden = {"loading"}],
      removeMember  |-> [OfPanel(RowChange("removingMemberId", "membersError", "members",
                                           Membership, Reloads))
                           EXCEPT !.anyRow = TRUE, !.hidden = {"loading", "loadingMembers"}]]

\* startEditingGroup opens the panel of a group, or closes the open one.
Users ==
  [PageOf(Merge(UserLoads, Merge(AccountOps, GroupOps)))
     EXCEPT !.first = {"loadUsers", "loadGroups"}, !.keys = Keys, !.keyed = {"members"},
            !.choice = [Choice EXCEPT !.same = "close", !.hidden = {"loading"},
                                      !.clears = {"membersError"}, !.leaves = {"members"},
                                      !.runs = {"loadGroupMembers"}]]

----------------------------------------------------------------------------
(* audit.ts: one page of the trail at a time.  Applying or resetting the   *)
(* filters opens the first page, refreshing the open one, again.           *)
Audit ==
  LET trail == ScopedPage([load |-> Load("loading", "loadError", {"entries"})], "entries")
  IN [trail EXCEPT !.choice.same = "again", !.choice.hidden = {"loading"}]

----------------------------------------------------------------------------
(* settings/oidc.ts, settings/mail.ts: a form under two banners, the one   *)
(* of its load and its own; saving takes down only its own.                *)

SettingsOps ==
  [load     |-> Load("loading", "loadError", {"model"}),
   onSubmit |-> [Save("saving", "formError", "model") EXCEPT !.checks = TRUE]]

Oidc == PageOf(SettingsOps)

\* A test message is sent with the stored settings; its outcome is no banner.
Mail ==
  PageOf(Merge(SettingsOps,
               [onTest |-> [Handler EXCEPT !.flag = "testing", !.hidden = {"loading", "saving"}]]))

----------------------------------------------------------------------------
(* profile.ts: the account, its password, and its access tokens, all of it *)
(* hidden while the account is read.  A token is created in a form that    *)
(* can be cancelled, request and all.                                      *)
Profile ==
  [PageOf(
     [loadProfile |-> Load("loading", "loadError", {"profile"}),
      onSubmit    |-> [Submit("saving", "formError", {}, {})
                         EXCEPT !.hidden = {"loading"}, !.rowsOf = "profile"],
      loadPats    |-> [Load("loadingPats", "patsError", {"pats"}) EXCEPT !.clears = {}],
      createPat   |-> [Submit("creatingPat", "patFormError", {"pats"}, {"loadPats"})
                         EXCEPT !.hidden = {"loading", "loadError"}, !.form = "patForm"],
      revokePat   |-> [RowChange("revokingPatId", "patsError", "pats", {"pats"}, {"loadPats"})
                         EXCEPT !.hidden = {"loading", "loadError", "loadingPats"}]])
     EXCEPT !.first = {"loadProfile", "loadPats"}]

----------------------------------------------------------------------------
(* dashboard.ts: one tile per endpoint, each with its own signal, banner   *)
(* and data, set together; two tiles stand for the ten.  The refresh       *)
(* button waits for every tile, but not for the loads of the constructor.  *)

Tile(loading, error, data) ==
  [Load(loading, error, {data}) EXCEPT !.blanks = {data}, !.loses = {data}, !.heals = TRUE]

Dashboard ==
  LET loads == {"mailboxesTile", "queueTile"}
  IN [PageOf([mailboxesTile |-> Tile("mailboxesLoading", "mailboxesError", "mailboxes"),
              queueTile     |-> Tile("queueLoading", "queueError", "queue"),
              refresh       |-> [Handler EXCEPT !.asks = FALSE, !.flag = "refreshing",
                                                !.hidden = {"refreshing"}, !.reloads = loads]])
        EXCEPT !.first = loads]
=============================================================================
