------------------------------ MODULE Accounts ------------------------------
(***************************************************************************)
(* The accounts of the web UI: the user, group, user_group and pat tables  *)
(* of its SQLite database, and the HTTP handlers that read and write them. *)
(*                                                                         *)
(* A handler is a sequence of awaited SQL statements.  SELECTs run outside *)
(* any transaction and a transaction starts at the first INSERT, UPDATE or *)
(* DELETE and ends at the commit of the same service function, so a        *)
(* handler is modelled as one action per SELECT plus one action for its    *)
(* write transaction.  Between two of them any other handler may run: in   *)
(* the same worker at the await, or in the other uvicorn worker.           *)
(*                                                                         *)
(* A slot of Slots is a request being served.  With a single slot handlers *)
(* run one after the other; with two they overlap.                         *)
(***************************************************************************)
EXTENDS Integers, FiniteSets

CONSTANTS
    Slots,        \* requests that can be in flight together
    Names,        \* usernames
    NoName,       \* no username
    AdminName,    \* settings.admin_username, the seeded account
    MaxUserId,    \* bound on user.id
    MaxGroupId,   \* bound on group.id
    MaxPatId,     \* bound on pat.id
    MaxPats,      \* settings.pat_max_per_user
    GrantRoles,   \* the roles requests may ask for, in groups and claims
    Ops           \* the operations clients call

Roles == {"guest", "mailbox_manager", "admin"}
NoRole == "none"

TargetOps == {"delete_user", "activate", "deactivate"}
GroupOps == {"update_group", "delete_group", "add_members", "remove_member"}
AdminOps == {"create_user", "create_group"} \cup TargetOps \cup GroupOps
PatOps == {"create_pat", "revoke_pat"}
AllOps == AdminOps \cup PatOps \cup {"oidc_sign_in", "seed"}

ASSUME ConstantsOK ==
    /\ MaxUserId \in Nat /\ MaxGroupId \in Nat /\ MaxPatId \in Nat
    /\ MaxPats \in Nat
    /\ IsFiniteSet(Slots) /\ Slots # {}
    /\ AdminName \in Names /\ NoName \notin Names
    /\ GrantRoles \subseteq Roles
    /\ Ops \subseteq AllOps

UserIds  == 1 .. MaxUserId
GroupIds == 1 .. MaxGroupId
PatIds   == 1 .. MaxPatId

UserRow == [name : Names, provider : {"local", "oidc"}, role : Roles,
            active : BOOLEAN]
\* No row under this id.
NoUser  == [name |-> NoName, provider |-> "none", role |-> "guest",
            active |-> FALSE]

VARIABLES
    users,   \* the user table: id -> row
    groups,  \* the group table: id -> the role the group grants
    links,   \* the user_group table: pairs <<user id, group id>>
    pats,    \* the pat table: id -> user_id, 0 when there is no row
    req      \* the request each slot serves

vars == <<users, groups, links, pats, req>>
tables == <<users, groups, links, pats>>

Stages == {"idle", "authorize", "check_name", "insert_user",
           "target", "target_role", "list", "count", "write_user",
           "insert_group", "load_group", "write_group", "members",
           "own_account", "limit", "issue", "find_pat", "revoke",
           "update_oidc"}

\* What a handler holds in its local variables.
Request == [op : AllOps \cup {"none"}, at : Stages,
            caller : Names \cup {NoName},   \* the principal's username
            name : Names \cup {NoName},     \* username in the request
            role : Roles \cup {NoRole},     \* role in the request
            user : UserIds \cup {0},        \* user id in the request
            group : GroupIds \cup {0},      \* group id in the request
            pat : PatIds \cup {0},          \* pat id in the request
            row : UserRow \cup {NoUser},    \* the User object it loaded,
            who : UserIds \cup {0},         \* and that object's id
            had : Roles \cup {NoRole},      \* role of the Group it loaded
            members : SUBSET UserIds,       \* user_ids of a batch
            left : SUBSET UserIds,          \* those not looked up yet
            active : SUBSET UserIds,        \* active users it listed
            admins : SUBSET UserIds]        \* those with their own admin role

Idle == [op |-> "none", at |-> "idle", caller |-> NoName, name |-> NoName,
         role |-> NoRole, user |-> 0, group |-> 0, pat |-> 0, row |-> NoUser,
         who |-> 0, had |-> NoRole, members |-> {}, left |-> {}, active |-> {},
         admins |-> {}]

TypeOK ==
    /\ users \in [UserIds -> UserRow \cup {NoUser}]
    /\ groups \in [GroupIds -> Roles \cup {NoRole}]
    /\ links \subseteq UserIds \X GroupIds
    /\ pats \in [PatIds -> UserIds \cup {0}]
    /\ req \in [Slots -> Request]

-----------------------------------------------------------------------------
(* Roles and rows *)

HighestRole(roles) ==
    IF "admin" \in roles THEN "admin"
    ELSE IF "mailbox_manager" \in roles THEN "mailbox_manager" ELSE "guest"

GrantedRoles(u) ==
    {groups[g] : g \in {h \in GroupIds : <<u, h>> \in links}} \ {NoRole}

\* resolve_role on an object loaded earlier: its own role is the loaded one,
\* the granted ones are read now.
ResolveRole(row, u) == HighestRole({row.role} \cup GrantedRoles(u))

Exists(u) == users[u] # NoUser
EffectiveRole(u) == ResolveRole(users[u], u)
ActiveAdmins ==
    {u \in UserIds : users[u].active /\ EffectiveRole(u) = "admin"}
PatsOf(u) == {p \in PatIds : pats[p] = u}
NameTaken(n) == \E u \in UserIds : users[u].name = n

\* The rowid SQLite gives a new row of a table holding the ids S: the largest
\* plus one.  Ids of deleted rows are used again.
NewRowId(i, S) == (\A j \in S : j < i) /\ (i = 1 \/ i - 1 \in S)

Continue(s, r) == req' = [req EXCEPT ![s] = r]
Respond(s) == req' = [req EXCEPT ![s] = Idle]

-----------------------------------------------------------------------------
(* A request arrives.  current_user_optional re-reads the account behind   *)
(* the cookie, then require_admin looks at its role.                       *)

FirstStage(op) ==
    CASE op = "create_user" -> "check_name"
      [] op \in TargetOps -> "target"
      [] op = "create_group" -> "insert_group"
      [] op \in GroupOps -> "load_group"
      [] op \in PatOps -> "own_account"

\* The caller's account exists and is active; a 401 answers the others.
Admit(s, op, u, r) ==
    /\ users[u].active
    /\ Continue(s, [r EXCEPT !.op = op, !.at = "authorize", !.who = u,
                             !.row = users[u], !.caller = users[u].name])

\* With what the client sends; the ids may name missing rows.
Arrive(s) ==
    /\ req[s] = Idle
    /\ \E op \in Ops, u \in UserIds :
         \/ /\ op = "create_user"
            /\ \E n \in Names : Admit(s, op, u, [Idle EXCEPT !.name = n])
         \/ /\ op \in TargetOps
            /\ \E v \in UserIds : Admit(s, op, u, [Idle EXCEPT !.user = v])
         \/ /\ op = "create_group"
            /\ \E q \in GrantRoles : Admit(s, op, u, [Idle EXCEPT !.role = q])
         \/ /\ op = "update_group"
            /\ \E g \in GroupIds, q \in GrantRoles :
                 Admit(s, op, u, [Idle EXCEPT !.group = g, !.role = q])
         \/ /\ op = "delete_group"
            /\ \E g \in GroupIds : Admit(s, op, u, [Idle EXCEPT !.group = g])
         \/ /\ op = "add_members"
            /\ \E g \in GroupIds, m \in SUBSET UserIds :
                 Admit(s, op, u, [Idle EXCEPT !.group = g, !.members = m,
                                              !.left = m])
         \/ /\ op = "remove_member"
            /\ \E g \in GroupIds, v \in UserIds :
                 Admit(s, op, u, [Idle EXCEPT !.group = g, !.user = v])
         \/ op = "create_pat" /\ Admit(s, op, u, Idle)
         \/ /\ op = "revoke_pat"
            /\ \E p \in PatIds : Admit(s, op, u, [Idle EXCEPT !.pat = p])
    /\ UNCHANGED tables

\* require_admin lets administrators through, the token routes any account.
Authorize(s) ==
    /\ req[s].at = "authorize"
    /\ IF \/ req[s].op \in PatOps
          \/ ResolveRole(req[s].row, req[s].who) = "admin"
       THEN Continue(s, [req[s] EXCEPT !.at = FirstStage(req[s].op),
                                       !.row = NoUser, !.who = 0])
       ELSE Respond(s)
    /\ UNCHANGED tables

-----------------------------------------------------------------------------
(* POST /users *)

CheckName(s) ==
    /\ req[s].at = "check_name"
    /\ IF NameTaken(req[s].name)
       THEN Respond(s)
       ELSE Continue(s, [req[s] EXCEPT !.at = "insert_user"])
    /\ UNCHANGED tables

\* Mutant: a schema without the unique index on the name.
InsertRowAnyName(row) ==
    LET ids == {v \in UserIds : Exists(v)}
    IN  IF MaxUserId \in ids
        THEN UNCHANGED users
        ELSE \E u \in UserIds :
               NewRowId(u, ids) /\ users' = [users EXCEPT ![u] = row]

\* INSERT INTO user.  The unique index on the name makes it fail, and so does
\* the bound MaxUserId.
InsertRow(row) ==
    LET ids == {v \in UserIds : Exists(v)}
    IN  IF NameTaken(row.name) \/ MaxUserId \in ids
        THEN UNCHANGED users
        ELSE \E u \in UserIds :
               /\ NewRowId(u, ids)
               /\ users' = [users EXCEPT ![u] = row]

\* Mutants: the role is left unset; a new account starts one role too high.
NewRowNoRole(r) ==
    [name |-> r.name, provider |-> "local", role |-> NoRole, active |-> TRUE]
NewRowManager(r) ==
    [name |-> r.name,
     provider |-> IF r.op = "oidc_sign_in" THEN "oidc" ELSE "local",
     role |-> IF r.op = "seed" THEN "admin" ELSE "mailbox_manager",
     active |-> TRUE]

\* The row a request inserts: a guest for create_local_user, the claimed role
\* for a first OIDC sign-in, the administrator for ensure_default_admin.
NewRow(r) ==
    [name |-> r.name,
     provider |-> IF r.op = "oidc_sign_in" THEN "oidc" ELSE "local",
     role |-> CASE r.op = "create_user" -> "guest"
                [] r.op = "oidc_sign_in" -> r.role
                [] r.op = "seed" -> "admin",
     active |-> TRUE]

InsertUser(s) ==
    /\ req[s].at = "insert_user"
    /\ InsertRow(NewRow(req[s]))
    /\ Respond(s)
    /\ UNCHANGED <<groups, links, pats>>

-----------------------------------------------------------------------------
(* DELETE /users/{id} and PATCH /users/{id}/status *)

\* get_user, the refusal to remove oneself, and is_last_admin's first test:
\* activation asks nothing more, and an inactive account is not an admin.
LoadTarget(s) ==
    LET r == req[s]
        row == users[r.user]
    IN  /\ r.at = "target"
        /\ IF ~Exists(r.user) \/ (r.op # "activate" /\ row.name = r.caller)
           THEN Respond(s)
           ELSE Continue(s, [r EXCEPT !.row = row, !.who = r.user,
                               !.at = IF r.op = "activate" \/ ~row.active
                                      THEN "write_user" ELSE "target_role"])
        /\ UNCHANGED tables

TargetRole(s) ==
    LET r == req[s]
    IN  /\ r.at = "target_role"
        /\ Continue(s, [r EXCEPT !.at = IF ResolveRole(r.row, r.who) = "admin"
                                        THEN "list" ELSE "write_user"])
        /\ UNCHANGED tables

\* Mutant: deactivated administrators are counted as well.
ListUsersAll(s) ==
    LET on == {u \in UserIds : Exists(u)}
    IN  /\ req[s].at = "list"
        /\ Continue(s, [req[s] EXCEPT !.at = "count", !.active = on,
                          !.admins = {u \in on : users[u].role = "admin"}])
        /\ UNCHANGED tables

\* list_users: the target's object stays as it was loaded, the session's
\* identity map does not refresh it.
ListUsers(s) ==
    LET r == req[s]
        seen == [users EXCEPT ![r.who] =
                   IF Exists(r.who) THEN r.row ELSE NoUser]
        on == {u \in UserIds : seen[u].active}
    IN  /\ r.at = "list"
        /\ Continue(s, [r EXCEPT !.at = "count", !.active = on,
                          !.admins = {u \in on : seen[u].role = "admin"}])
        /\ UNCHANGED tables

\* to_public_many reads the memberships; len(active_admins) <= 1 refuses.
CountAdmins(s) ==
    LET r == req[s]
        found == r.admins \cup
                   {u \in r.active : HighestRole(GrantedRoles(u)) = "admin"}
    IN  /\ r.at = "count"
        /\ IF Cardinality(found) <= 1
           THEN Respond(s)
           ELSE Continue(s, [r EXCEPT !.at = "write_user", !.active = {},
                                      !.admins = {}])
        /\ UNCHANGED tables

\* Mutant: the memberships and the tokens are not removed.
DeleteUserKeepLinks(s) ==
    /\ req[s].at = "write_user" /\ req[s].op = "delete_user"
    /\ users' = [users EXCEPT ![req[s].who] = NoUser]
    /\ Respond(s)
    /\ UNCHANGED <<groups, links, pats>>

\* delete_user: memberships, tokens and account in one transaction.
DeleteUser(s) ==
    LET u == req[s].who
    IN  /\ req[s].at = "write_user" /\ req[s].op = "delete_user"
        /\ users' = [users EXCEPT ![u] = NoUser]
        /\ links' = {l \in links : l[1] # u}
        /\ pats' = [p \in PatIds |-> IF pats[p] = u THEN 0 ELSE pats[p]]
        /\ Respond(s)
        /\ UNCHANGED groups

\* set_active: the UPDATE writes is_active only if it differs from the loaded
\* value, and fails when the row is gone (StaleDataError).
SetActive(s) ==
    LET r == req[s]
        wanted == r.op = "activate"
    IN  /\ r.at = "write_user" /\ r.op \in {"activate", "deactivate"}
        /\ users' = IF Exists(r.who) /\ r.row.active # wanted
                    THEN [users EXCEPT ![r.who].active = wanted]
                    ELSE users
        /\ Respond(s)
        /\ UNCHANGED <<groups, links, pats>>

-----------------------------------------------------------------------------
(* /groups *)

CreateGroup(s) ==
    /\ req[s].at = "insert_group"
    /\ LET ids == {h \in GroupIds : groups[h] # NoRole}
       IN  IF MaxGroupId \in ids      \* the bound
           THEN UNCHANGED groups
           ELSE \E g \in GroupIds :
                  /\ NewRowId(g, ids)
                  /\ groups' = [groups EXCEPT ![g] = req[s].role]
    /\ Respond(s)
    /\ UNCHANGED <<users, links, pats>>

LoadGroup(s) ==
    LET r == req[s]
    IN  /\ r.at = "load_group"
        /\ IF groups[r.group] = NoRole
           THEN Respond(s)
           ELSE Continue(s, [r EXCEPT !.had = groups[r.group],
                               !.at = IF r.op = "add_members"
                                      THEN "members" ELSE "write_group"])
        /\ UNCHANGED tables

\* The role is written only if it differs from the loaded one; a missing row
\* fails the UPDATE.
UpdateGroup(s) ==
    LET r == req[s]
    IN  /\ r.at = "write_group" /\ r.op = "update_group"
        /\ groups' = IF groups[r.group] # NoRole /\ r.had # r.role
                     THEN [groups EXCEPT ![r.group] = r.role]
                     ELSE groups
        /\ Respond(s)
        /\ UNCHANGED <<users, links, pats>>

DeleteGroup(s) ==
    LET g == req[s].group
    IN  /\ req[s].at = "write_group" /\ req[s].op = "delete_group"
        /\ links' = {l \in links : l[2] # g}
        /\ groups' = [groups EXCEPT ![g] = NoRole]
        /\ Respond(s)
        /\ UNCHANGED <<users, pats>>

\* The batch route looks every user up before inserting any; the one-user
\* route is a batch of one.
CheckMember(s) ==
    LET r == req[s]
    IN  /\ r.at = "members"
        /\ \E u \in r.left :
             IF Exists(u)
             THEN Continue(s, [r EXCEPT !.left = @ \ {u}])
             ELSE Respond(s)
        /\ UNCHANGED tables

AddMembers(s) ==
    /\ req[s].at = "members" /\ req[s].left = {}
    /\ links' = links \cup (req[s].members \X {req[s].group})
    /\ Respond(s)
    /\ UNCHANGED <<users, groups, pats>>

RemoveMember(s) ==
    /\ req[s].at = "write_group" /\ req[s].op = "remove_member"
    /\ links' = links \ {<<req[s].user, req[s].group>>}
    /\ Respond(s)
    /\ UNCHANGED <<users, groups, pats>>

-----------------------------------------------------------------------------
(* /users/me/pats *)

OwnAccount(s) ==
    LET r == req[s]
        mine == {u \in UserIds : users[u].name = r.caller}
    IN  /\ r.at = "own_account"
        /\ IF mine = {}
           THEN Respond(s)
           ELSE \E u \in mine :
                  Continue(s, [r EXCEPT !.who = u,
                                 !.at = IF r.op = "create_pat"
                                        THEN "limit" ELSE "find_pat"])
        /\ UNCHANGED tables

\* Mutant: the limit is compared with > instead of >=.
CheckPatLimitLate(s) ==
    /\ req[s].at = "limit"
    /\ IF Cardinality(PatsOf(req[s].who)) > MaxPats
       THEN Respond(s)
       ELSE Continue(s, [req[s] EXCEPT !.at = "issue"])
    /\ UNCHANGED tables

CheckPatLimit(s) ==
    /\ req[s].at = "limit"
    /\ IF Cardinality(PatsOf(req[s].who)) >= MaxPats
       THEN Respond(s)
       ELSE Continue(s, [req[s] EXCEPT !.at = "issue"])
    /\ UNCHANGED tables

IssuePat(s) ==
    /\ req[s].at = "issue"
    /\ LET ids == {q \in PatIds : pats[q] # 0}
       IN  IF MaxPatId \in ids        \* the bound
           THEN UNCHANGED pats
           ELSE \E p \in PatIds :
                  /\ NewRowId(p, ids)
                  /\ pats' = [pats EXCEPT ![p] = req[s].who]
    /\ Respond(s)
    /\ UNCHANGED <<users, groups, links>>

\* Mutant: any existing token is found, whoever owns it.
FindAnyPat(s) ==
    /\ req[s].at = "find_pat"
    /\ IF pats[req[s].pat] = 0
       THEN Respond(s)
       ELSE Continue(s, [req[s] EXCEPT !.at = "revoke"])
    /\ UNCHANGED tables

\* get_for_user: the token, if the caller owns it.
FindPat(s) ==
    /\ req[s].at = "find_pat"
    /\ IF pats[req[s].pat] # req[s].who
       THEN Respond(s)
       ELSE Continue(s, [req[s] EXCEPT !.at = "revoke"])
    /\ UNCHANGED tables

RevokePat(s) ==
    /\ req[s].at = "revoke"
    /\ pats' = [pats EXCEPT ![req[s].pat] = 0]
    /\ Respond(s)
    /\ UNCHANGED <<users, groups, links>>

-----------------------------------------------------------------------------
(* GET /auth/oidc/callback, once the provider has named the user and the   *)
(* claims have been mapped to a role: upsert_oidc_user.                    *)

\* Mutant: the provider of the account found is not looked at.
OidcSignInAnyProvider(s) ==
    /\ req[s] = Idle /\ "oidc_sign_in" \in Ops
    /\ \E n \in Names, q \in GrantRoles, u \in UserIds :
         /\ users[u].name = n /\ users[u].active
         /\ Continue(s, [Idle EXCEPT !.op = "oidc_sign_in", !.name = n,
                           !.role = q, !.at = "update_oidc",
                           !.row = users[u], !.who = u])
    /\ UNCHANGED tables

OidcSignIn(s) ==
    /\ req[s] = Idle /\ "oidc_sign_in" \in Ops
    /\ \E n \in Names, q \in GrantRoles :
         LET r == [Idle EXCEPT !.op = "oidc_sign_in", !.name = n, !.role = q]
         IN  \/ /\ ~NameTaken(n)
                /\ Continue(s, [r EXCEPT !.at = "insert_user"])
             \/ \E u \in UserIds :
                  /\ users[u].name = n /\ users[u].active
                  /\ users[u].provider = "oidc"
                  /\ Continue(s, [r EXCEPT !.at = "update_oidc", !.who = u,
                                           !.row = users[u]])
    /\ UNCHANGED tables

\* The claimed role overwrites the account's own, if it differs from the one
\* loaded; a missing row fails the UPDATE.
UpdateOidc(s) ==
    LET r == req[s]
    IN  /\ r.at = "update_oidc"
        /\ users' = IF Exists(r.who) /\ r.row.role # r.role
                    THEN [users EXCEPT ![r.who].role = r.role]
                    ELSE users
        /\ Respond(s)
        /\ UNCHANGED <<groups, links, pats>>

-----------------------------------------------------------------------------
(* Application startup, in each worker: ensure_default_admin.              *)

Seed(s) ==
    /\ req[s] = Idle /\ "seed" \in Ops
    /\ ~\E u \in UserIds :
          users[u].provider = "local" /\ users[u].role = "admin"
    /\ Continue(s, [Idle EXCEPT !.op = "seed", !.at = "insert_user",
                                !.name = AdminName])
    /\ UNCHANGED tables

-----------------------------------------------------------------------------

Init ==
    /\ users = [u \in UserIds |-> NoUser]
    /\ groups = [g \in GroupIds |-> NoRole]
    /\ links = {}
    /\ pats = [p \in PatIds |-> 0]
    /\ req = [s \in Slots |-> Idle]

Step(s) ==
    \/ Arrive(s) \/ Authorize(s)
    \/ CheckName(s) \/ InsertUser(s)
    \/ LoadTarget(s) \/ TargetRole(s) \/ ListUsers(s) \/ CountAdmins(s)
    \/ DeleteUser(s) \/ SetActive(s)
    \/ CreateGroup(s) \/ LoadGroup(s) \/ UpdateGroup(s) \/ DeleteGroup(s)
    \/ CheckMember(s) \/ AddMembers(s) \/ RemoveMember(s)
    \/ OwnAccount(s) \/ CheckPatLimit(s) \/ IssuePat(s)
    \/ FindPat(s) \/ RevokePat(s)
    \/ OidcSignIn(s) \/ UpdateOidc(s)
    \/ Seed(s)

Next == \E s \in Slots : Step(s)

Spec == Init /\ [][Next]_vars

-----------------------------------------------------------------------------
(* What must hold however the requests overlap *)

\* user.username is unique.  Sessions and the token routes find the caller's
\* account by name (get_by_username), so two rows of one name would make the
\* caller's identity depend on the row order.
UniqueNames ==
    \A u, v \in UserIds :
        Exists(u) /\ users[u].name = users[v].name => u = v

\* delete_user removes an account together with every membership and token it
\* holds (user_service.py:253-261): when the row disappears nothing that names
\* its id is left in the database.
DeletionComplete ==
    [][\A u \in UserIds :
         Exists(u) /\ ~Exists(u)' =>
             PatsOf(u)' = {} /\ \A l \in links' : l[1] # u]_vars

\* However many token requests overlap, an account exceeds the limit by at
\* most one token per other request in flight (pat_service.create counts, then
\* inserts).
PatLimitSlack ==
    \A u \in UserIds :
        Cardinality(PatsOf(u)) + 1 <= MaxPats + Cardinality(Slots)

-----------------------------------------------------------------------------
(* What the documentation promises; it holds when requests do not overlap *)

\* "The last active administrator can neither be deleted nor deactivated"
\* (README.md): a request that deletes or deactivates an active administrator
\* leaves another one (is_last_admin).
LastAdminKept ==
    [][\A u \in ActiveAdmins :
         ~users'[u].active => ActiveAdmins' # {}]_vars

\* Memberships name an existing account and an existing group, tokens an
\* existing account: nothing waits for the next account that gets the id.
NoOrphans ==
    /\ \A l \in links : Exists(l[1]) /\ groups[l[2]] # NoRole
    /\ \A p \in PatIds : pats[p] # 0 => Exists(pats[p])

\* "a new account starts as guest and is promoted solely through membership"
\* (user_models.py): a local account created by a request has no privilege and
\* no token.
NewAccountIsGuest ==
    [][\A s \in Slots, u \in UserIds :
         req[s].op = "create_user" /\ ~Exists(u) /\ Exists(u)' =>
             EffectiveRole(u)' = "guest" /\ PatsOf(u)' = {}]_vars

\* "the two namespaces stay separate" (upsert_oidc_user): while a local account
\* exists no request changes its name, its provider or its own role.
LocalAccountKept ==
    [][\A u \in UserIds :
         users[u].provider = "local" /\ Exists(u)' =>
             users'[u] = [users[u] EXCEPT !.active = users'[u].active]]_vars

\* A token disappears with its account or by a request of its owner: the
\* revoke route refuses "any token it does not own" (users.py:163).
OnlyOwnerRevokes ==
    [][\A p \in PatIds :
         pats[p] # 0 /\ pats'[p] = 0 =>
             \/ users'[pats[p]] = NoUser
             \/ \E s \in Slots : /\ req[s].op = "revoke_pat"
                                 /\ req[s].who = pats[p]
                                 /\ req'[s] # req[s]]_vars

\* pat_max_per_user: "You cannot own more than {n} tokens".
PatLimit == \A u \in UserIds : Cardinality(PatsOf(u)) <= MaxPats
=============================================================================
