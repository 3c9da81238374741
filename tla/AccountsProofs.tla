--------------------------- MODULE AccountsProofs ---------------------------
(***************************************************************************)
(* Theorems about Accounts, for every number of users, groups, tokens and  *)
(* overlapping requests; those after OneSlot, about requests served one    *)
(* after the other.                                                        *)
(***************************************************************************)
EXTENDS Accounts, FiniteSetTheorems, TLAPS

-----------------------------------------------------------------------------
(* Requests *)

InsertingOps == {"create_user", "oidc_sign_in", "seed"}

\* The parameters an operation takes are there.
ParametersOK(r) ==
    /\ r.op \in InsertingOps => r.name \in Names
    /\ r.op \in {"oidc_sign_in", "create_group", "update_group"} =>
           r.role \in Roles
    /\ r.op \in TargetOps \cup {"remove_member"} => r.user \in UserIds
    /\ r.op \in GroupOps => r.group \in GroupIds
    /\ r.op = "revoke_pat" => r.pat \in PatIds

\* A stage belongs to an operation, and what the handler loaded is there.
StageOK(r) ==
    /\ r.at = "authorize" =>
           r.op \in AdminOps \cup PatOps /\ r.who \in UserIds
    /\ r.at = "check_name" => r.op = "create_user"
    /\ r.at = "insert_user" => r.op \in InsertingOps
    /\ r.at \in {"target", "target_role", "list", "count", "write_user"} =>
           r.op \in TargetOps
    /\ r.at \in {"target_role", "list", "count", "write_user"} =>
           r.who \in UserIds /\ r.row \in UserRow
    /\ r.at = "insert_group" => r.op = "create_group"
    /\ r.at \in {"load_group", "write_group", "members"} => r.op \in GroupOps
    /\ r.at = "members" => r.op = "add_members"
    /\ r.at \in {"own_account", "limit", "issue", "find_pat", "revoke"} =>
           r.op \in PatOps
    /\ r.at \in {"limit", "issue", "find_pat", "revoke"} => r.who \in UserIds
    /\ r.at \in {"find_pat", "revoke"} => r.op = "revoke_pat"
    /\ r.at = "update_oidc" => r.op = "oidc_sign_in" /\ r.who \in UserIds

TypeInv ==
    /\ TypeOK
    /\ \A s \in Slots : ParametersOK(req[s]) /\ StageOK(req[s])

LEMMA IdleType == Idle \in Request /\ ParametersOK(Idle) /\ StageOK(Idle)
  BY DEF Idle, Request, Stages, NoUser, NoRole, ParametersOK, StageOK,
         InsertingOps, TargetOps, GroupOps, AdminOps, PatOps

\* Assigning a local variable a value of its type keeps the request's type.
LEMMA AssignType ==
    ASSUME NEW r \in Request
    PROVE  /\ \A a \in Stages : [r EXCEPT !.at = a] \in Request
           /\ \A u \in UserIds \cup {0} : [r EXCEPT !.who = u] \in Request
           /\ \A u \in UserIds \cup {0} : [r EXCEPT !.user = u] \in Request
           /\ \A g \in GroupIds \cup {0} : [r EXCEPT !.group = g] \in Request
           /\ \A n \in Names : [r EXCEPT !.name = n] \in Request
           /\ \A p \in PatIds \cup {0} : [r EXCEPT !.pat = p] \in Request
           /\ \A m \in SUBSET UserIds : [r EXCEPT !.members = m] \in Request
           /\ \A m \in SUBSET UserIds : [r EXCEPT !.left = m] \in Request
           /\ \A q \in Roles \cup {NoRole} : [r EXCEPT !.role = q] \in Request
           /\ \A q \in Roles \cup {NoRole} : [r EXCEPT !.had = q] \in Request
           /\ \A w \in UserRow \cup {NoUser} : [r EXCEPT !.row = w] \in Request
  BY SMTT(60) DEF Request

\* What a client sends carries the parameters of its operation.
Payload(op, r) == r \in Request /\ ParametersOK([r EXCEPT !.op = op])

LEMMA PayloadType ==
    ASSUME ConstantsOK
    PROVE  /\ \A n \in Names : Payload("create_user", [Idle EXCEPT !.name = n])
           /\ \A op \in TargetOps, v \in UserIds :
                Payload(op, [Idle EXCEPT !.user = v])
           /\ \A q \in GrantRoles :
                Payload("create_group", [Idle EXCEPT !.role = q])
           /\ \A g \in GroupIds, q \in GrantRoles :
                Payload("update_group", [Idle EXCEPT !.group = g, !.role = q])
           /\ \A g \in GroupIds :
                Payload("delete_group", [Idle EXCEPT !.group = g])
           /\ \A g \in GroupIds, m \in SUBSET UserIds :
                Payload("add_members", [Idle EXCEPT !.group = g, !.members = m,
                                                    !.left = m])
           /\ \A g \in GroupIds, v \in UserIds :
                Payload("remove_member", [Idle EXCEPT !.group = g, !.user = v])
           /\ Payload("create_pat", Idle)
           /\ \A p \in PatIds : Payload("revoke_pat", [Idle EXCEPT !.pat = p])
  <1>0. /\ Idle \in Request
        /\ \A q \in GrantRoles : q \in Roles
        /\ \A n \in Names : [Idle EXCEPT !.name = n] \in Request
        /\ \A v \in UserIds : [Idle EXCEPT !.user = v] \in Request
        /\ \A q \in Roles : [Idle EXCEPT !.role = q] \in Request
        /\ \A g \in GroupIds : [Idle EXCEPT !.group = g] \in Request
        /\ \A p \in PatIds : [Idle EXCEPT !.pat = p] \in Request
        /\ \A g \in GroupIds, q \in Roles :
             [Idle EXCEPT !.group = g, !.role = q] \in Request
        /\ \A g \in GroupIds, m \in SUBSET UserIds :
             [Idle EXCEPT !.group = g, !.members = m, !.left = m] \in Request
        /\ \A g \in GroupIds, v \in UserIds :
             [Idle EXCEPT !.group = g, !.user = v] \in Request
        /\ \A r \in Request : r.group \in GroupIds =>
             ParametersOK([r EXCEPT !.op = "add_members"])
    <2>1. \A r \in Request : r.group \in GroupIds =>
             ParametersOK([r EXCEPT !.op = "add_members"])
      BY DEF Request, ParametersOK, InsertingOps, TargetOps, GroupOps
    <2>2. QED
      BY <2>1, IdleType, AssignType DEF ConstantsOK
  <1> USE <1>0 DEF Payload, Idle, ParametersOK, InsertingOps, TargetOps,
          GroupOps, NoRole
  <1>1. \A n \in Names : Payload("create_user", [Idle EXCEPT !.name = n])
    OBVIOUS
  <1>2. \A op \in TargetOps, v \in UserIds :
            Payload(op, [Idle EXCEPT !.user = v])
    BY ZenonT(60)
  <1>3. \A q \in GrantRoles : Payload("create_group", [Idle EXCEPT !.role = q])
    OBVIOUS
  <1>4. \A g \in GroupIds, q \in GrantRoles :
            Payload("update_group", [Idle EXCEPT !.group = g, !.role = q])
    <2> SUFFICES ASSUME NEW g \in GroupIds, NEW q \in GrantRoles
                 PROVE  Payload("update_group",
                                [Idle EXCEPT !.group = g, !.role = q])
      OBVIOUS
    <2>1. /\ [Idle EXCEPT !.group = g, !.role = q].group = g
          /\ [Idle EXCEPT !.group = g, !.role = q].role = q
      OBVIOUS
    <2>2. q \in Roles /\ q # "none"
      BY DEF Roles
    <2>3. [Idle EXCEPT !.group = g, !.role = q] \in Request
      BY <2>2
    <2>4. ParametersOK([[Idle EXCEPT !.group = g, !.role = q]
                           EXCEPT !.op = "update_group"])
      BY <2>1, <2>2
    <2> HIDE DEF Idle, ParametersOK
    <2>5. QED
      BY <2>3, <2>4
  <1>5. \A g \in GroupIds : Payload("delete_group", [Idle EXCEPT !.group = g])
    OBVIOUS
  <1>6. \A g \in GroupIds, m \in SUBSET UserIds :
            Payload("add_members", [Idle EXCEPT !.group = g, !.members = m,
                                                !.left = m])
    <2> SUFFICES ASSUME NEW g \in GroupIds, NEW m \in SUBSET UserIds
                 PROVE  Payload("add_members", [Idle EXCEPT !.group = g,
                                                  !.members = m, !.left = m])
      OBVIOUS
    <2>1. [Idle EXCEPT !.group = g, !.members = m, !.left = m].group = g
      OBVIOUS
    <2> HIDE DEF Idle, ParametersOK
    <2>2. QED
      BY <2>1
  <1>7. \A g \in GroupIds, v \in UserIds :
            Payload("remove_member", [Idle EXCEPT !.group = g, !.user = v])
    BY ZenonT(60)
  <1>8. Payload("create_pat", Idle)
    OBVIOUS
  <1>9. \A p \in PatIds : Payload("revoke_pat", [Idle EXCEPT !.pat = p])
    OBVIOUS
  <1> HIDE DEF Payload, Idle
  <1>10. QED
    BY <1>1, <1>2, <1>3, <1>4, <1>5, <1>6, <1>7, <1>8, <1>9, Zenon

Sent(s, op, u) == \E r : Payload(op, r) /\ Admit(s, op, u, r)

LEMMA ArriveSends ==
    ASSUME ConstantsOK, NEW s, Arrive(s)
    PROVE  \E op \in AdminOps \cup PatOps, u \in UserIds : Sent(s, op, u)
  <1>1. PICK op \in Ops, u \in UserIds :
          \/ op = "create_user" /\ \E n \in Names : Admit(s, op, u, [Idle EXCEPT !.name = n])
          \/ op \in TargetOps /\ \E v \in UserIds : Admit(s, op, u, [Idle EXCEPT !.user = v])
          \/ op = "create_group" /\
             \E q \in GrantRoles : Admit(s, op, u, [Idle EXCEPT !.role = q])
          \/ op = "update_group" /\
             \E g \in GroupIds, q \in GrantRoles :
               Admit(s, op, u, [Idle EXCEPT !.group = g, !.role = q])
          \/ op = "delete_group" /\
             \E g \in GroupIds : Admit(s, op, u, [Idle EXCEPT !.group = g])
          \/ op = "add_members" /\
             \E g \in GroupIds, m \in SUBSET UserIds :
               Admit(s, op, u, [Idle EXCEPT !.group = g, !.members = m,
                                            !.left = m])
          \/ op = "remove_member" /\
             \E g \in GroupIds, v \in UserIds :
               Admit(s, op, u, [Idle EXCEPT !.group = g, !.user = v])
          \/ op = "create_pat" /\ Admit(s, op, u, Idle)
          \/ op = "revoke_pat" /\ \E p \in PatIds : Admit(s, op, u, [Idle EXCEPT !.pat = p])
    BY DEF Arrive
  <1>2. Sent(s, op, u)
    BY <1>1, PayloadType, ZenonT(60) DEF Sent
  <1>3. op \in AdminOps \cup PatOps
    BY <1>1 DEF AdminOps, PatOps, TargetOps, GroupOps
  <1>4. QED
    BY <1>2, <1>3

\* A request whose payload is well formed is well formed once admitted.
LEMMA AdmitType ==
    ASSUME TypeOK, NEW op \in AdminOps \cup PatOps, NEW u \in UserIds,
           users[u].active, NEW r \in Request, ParametersOK([r EXCEPT !.op = op])
    PROVE  LET q == [r EXCEPT !.op = op, !.at = "authorize", !.who = u,
                       !.row = users[u], !.caller = users[u].name]
           IN  q \in Request /\ ParametersOK(q) /\ StageOK(q)
  <1> DEFINE row == users[u]
             n == row.name
             q == [r EXCEPT !.op = op, !.at = "authorize", !.who = u,
                     !.row = row, !.caller = n]
  <1>1. row \in UserRow /\ n \in Names
    BY DEF TypeOK, NoUser, UserRow
  <1> HIDE DEF row, n
  <1>2. op \in AllOps
    BY DEF AllOps
  <1>3. q \in Request
    BY <1>1, <1>2, ZenonT(60) DEF Request, Stages
  <1>4. ParametersOK(q)
    BY DEF Request, ParametersOK
  <1>5. StageOK(q)
    BY DEF Request, StageOK
  <1>6. QED
    BY <1>3, <1>4, <1>5 DEF row, n

-----------------------------------------------------------------------------
(* Type correctness *)

\* One slot changes its request: the others keep theirs.
LEMMA ContinueType ==
    ASSUME TypeInv, NEW s \in Slots, NEW r \in Request,
           ParametersOK(r), StageOK(r), Continue(s, r)
    PROVE  /\ req' \in [Slots -> Request]
           /\ \A t \in Slots : ParametersOK(req'[t]) /\ StageOK(req'[t])
  <1>1. req' = [req EXCEPT ![s] = r] /\ req \in [Slots -> Request]
    BY DEF Continue, TypeInv, TypeOK
  <1>2. \A t \in Slots : req'[t] = IF t = s THEN r ELSE req[t]
    BY <1>1
  <1>3. \A t \in Slots : ParametersOK(req[t]) /\ StageOK(req[t])
    BY DEF TypeInv
  <1>4. QED
    BY <1>1, <1>2, <1>3

LEMMA RespondType ==
    ASSUME TypeInv, NEW s \in Slots, Respond(s)
    PROVE  /\ req' \in [Slots -> Request]
           /\ \A t \in Slots : ParametersOK(req'[t]) /\ StageOK(req'[t])
  <1>1. Continue(s, Idle)
    BY DEF Respond, Continue
  <1>2. QED
    BY <1>1, ContinueType, IdleType

\* What each action that touches the tables writes has the tables' types.
LEMMA TablesType ==
    ASSUME ConstantsOK, TypeInv, NEW s \in Slots,
           \/ InsertUser(s) \/ DeleteUser(s) \/ SetActive(s)
           \/ CreateGroup(s) \/ UpdateGroup(s) \/ DeleteGroup(s)
           \/ AddMembers(s) \/ RemoveMember(s)
           \/ IssuePat(s) \/ RevokePat(s) \/ UpdateOidc(s)
    PROVE  TypeOK'
  <1> DEFINE r == req[s]
  <1>0. /\ users \in [UserIds -> UserRow \cup {NoUser}]
        /\ groups \in [GroupIds -> Roles \cup {NoRole}]
        /\ links \subseteq UserIds \X GroupIds
        /\ pats \in [PatIds -> UserIds \cup {0}]
        /\ r \in Request /\ ParametersOK(r) /\ StageOK(r)
    BY DEF TypeInv, TypeOK
  <1>1. CASE InsertUser(s)
    <2>1. NewRow(r) \in UserRow
      BY <1>0, <1>1 DEF InsertUser, NewRow, UserRow, ParametersOK, StageOK,
           InsertingOps, Roles
    <2>2. users' \in [UserIds -> UserRow \cup {NoUser}]
      BY <1>0, <1>1, <2>1 DEF InsertUser, InsertRow
    <2>3. QED
      BY <1>0, <1>1, <2>2, RespondType DEF InsertUser, TypeOK
  <1>2. CASE DeleteUser(s)
    <2>1. users' \in [UserIds -> UserRow \cup {NoUser}]
      BY <1>0, <1>2 DEF DeleteUser
    <2>2. pats' \in [PatIds -> UserIds \cup {0}] /\ links' \subseteq UserIds \X GroupIds
      BY <1>0, <1>2 DEF DeleteUser
    <2>3. QED
      BY <1>0, <1>2, <2>1, <2>2, RespondType DEF DeleteUser, TypeOK
  <1>3. CASE SetActive(s)
    <2>1. users' \in [UserIds -> UserRow \cup {NoUser}]
      BY <1>0, <1>3, ZenonT(60) DEF SetActive, StageOK, Exists, UserRow
    <2>2. QED
      BY <1>0, <1>3, <2>1, RespondType DEF SetActive, TypeOK
  <1>4. CASE CreateGroup(s)
    <2>1. r.role \in Roles
      BY <1>0, <1>4 DEF CreateGroup, ParametersOK, StageOK
    <2>2. groups' \in [GroupIds -> Roles \cup {NoRole}]
      BY <1>0, <1>4, <2>1 DEF CreateGroup
    <2>3. QED
      BY <1>0, <1>4, <2>2, RespondType DEF CreateGroup, TypeOK
  <1>5. CASE UpdateGroup(s)
    <2>1. r.role \in Roles
      BY <1>0, <1>5 DEF UpdateGroup, ParametersOK
    <2>2. groups' \in [GroupIds -> Roles \cup {NoRole}]
      BY <1>0, <1>5, <2>1 DEF UpdateGroup
    <2>3. QED
      BY <1>0, <1>5, <2>2, RespondType DEF UpdateGroup, TypeOK
  <1>6. CASE DeleteGroup(s)
    BY <1>0, <1>6, RespondType DEF DeleteGroup, TypeOK
  <1>7. CASE AddMembers(s)
    <2>1. r.group \in GroupIds /\ r.members \subseteq UserIds
      BY <1>0, <1>7 DEF AddMembers, ParametersOK, StageOK, GroupOps, Request
    <2>2. links' \subseteq UserIds \X GroupIds
      BY <1>0, <1>7, <2>1 DEF AddMembers
    <2>3. QED
      BY <1>0, <1>7, <2>2, RespondType DEF AddMembers, TypeOK
  <1>8. CASE RemoveMember(s)
    BY <1>0, <1>8, RespondType DEF RemoveMember, TypeOK
  <1>9. CASE IssuePat(s)
    <2>1. pats' \in [PatIds -> UserIds \cup {0}]
      BY <1>0, <1>9 DEF IssuePat, StageOK
    <2>2. QED
      BY <1>0, <1>9, <2>1, RespondType DEF IssuePat, TypeOK
  <1>10. CASE RevokePat(s)
    BY <1>0, <1>10, RespondType DEF RevokePat, TypeOK
  <1>11. CASE UpdateOidc(s)
    <2>1. users' \in [UserIds -> UserRow \cup {NoUser}]
      BY <1>0, <1>11 DEF UpdateOidc, StageOK, ParametersOK, InsertingOps, Exists,
           UserRow
    <2>2. QED
      BY <1>0, <1>11, <2>1, RespondType DEF UpdateOidc, TypeOK
  <1>12. QED
    BY <1>1, <1>2, <1>3, <1>4, <1>5, <1>6, <1>7, <1>8, <1>9, <1>10, <1>11

\* Where each operation goes once the caller is authorised.
LEMMA FirstStageOf ==
    /\ FirstStage("create_user") = "check_name"
    /\ \A op \in TargetOps : FirstStage(op) = "target"
    /\ FirstStage("create_group") = "insert_group"
    /\ \A op \in GroupOps : FirstStage(op) = "load_group"
    /\ \A op \in PatOps : FirstStage(op) = "own_account"
  BY DEF FirstStage, TargetOps, GroupOps, PatOps

\* The actions that only move a request from one stage to the next.
LEMMA StagesType ==
    ASSUME ConstantsOK, TypeInv, NEW s \in Slots,
           \/ Authorize(s) \/ CheckName(s)
           \/ LoadTarget(s) \/ TargetRole(s) \/ ListUsers(s) \/ CountAdmins(s)
           \/ LoadGroup(s) \/ CheckMember(s)
           \/ OwnAccount(s) \/ CheckPatLimit(s) \/ FindPat(s)
    PROVE  /\ req' \in [Slots -> Request]
           /\ \A t \in Slots : ParametersOK(req'[t]) /\ StageOK(req'[t])
  <1> DEFINE r == req[s]
  <1>0. r \in Request /\ ParametersOK(r) /\ StageOK(r) /\ TypeOK
    BY DEF TypeInv, TypeOK
  <1>1. CASE Authorize(s)
    <2> DEFINE at == FirstStage(r.op)
               q == [r EXCEPT !.at = at, !.row = NoUser, !.who = 0]
    <2>1. r.op \in AdminOps \cup PatOps
      BY <1>0, <1>1 DEF Authorize, StageOK
    <2>2. \/ at = "check_name" /\ r.op = "create_user"
          \/ at = "target" /\ r.op \in TargetOps
          \/ at = "insert_group" /\ r.op = "create_group"
          \/ at = "load_group" /\ r.op \in GroupOps
          \/ at = "own_account" /\ r.op \in PatOps
      BY <2>1, FirstStageOf DEF AdminOps
    <2> HIDE DEF at
    <2>3. q \in Request
      BY <1>0, <2>2, AssignType DEF Stages
    <2>4. ParametersOK(q)
      BY <1>0 DEF Request, ParametersOK
    <2>5. StageOK(q)
      BY <1>0, <2>2 DEF Request, StageOK
    <2>6. QED
      BY <1>1, <2>3, <2>4, <2>5, ContinueType, RespondType DEF Authorize, at
  <1>2. CASE CheckName(s)
    <2> DEFINE q == [r EXCEPT !.at = "insert_user"]
    <2>1. q \in Request /\ ParametersOK(q) /\ StageOK(q)
      <3>1. q \in Request
        BY <1>0, <1>2 DEF Request, Stages, StageOK, CheckName, InsertingOps
      <3>2. ParametersOK(q)
        BY <1>0, <1>2 DEF Request, ParametersOK, CheckName, InsertingOps
      <3>3. StageOK(q)
        BY <1>0, <1>2 DEF Request, StageOK, CheckName, InsertingOps
      <3>4. QED
        BY <3>1, <3>2, <3>3
    <2>2. QED
      BY <1>2, <2>1, ContinueType, RespondType DEF CheckName
  <1>3. CASE LoadTarget(s)
    <2> DEFINE at == IF r.op = "activate" \/ ~users[r.user].active
                     THEN "write_user" ELSE "target_role"
               row == users[r.user]
               u == r.user
               q == [r EXCEPT !.row = row, !.who = u, !.at = at]
    <2>1. u \in UserIds /\ r.op \in TargetOps
      BY <1>0, <1>3 DEF LoadTarget, ParametersOK, StageOK
    <2>2. at \in {"write_user", "target_role"}
      OBVIOUS
    <2>3. Exists(u) => row \in UserRow
      BY <1>0, <2>1 DEF TypeOK, Exists
    <2> HIDE DEF at, row, u
    <2>4. ASSUME row \in UserRow
          PROVE  q \in Request /\ ParametersOK(q) /\ StageOK(q)
      <3>1. q \in Request
        BY <1>0, <2>1, <2>2, <2>4, AssignType DEF Stages
      <3>2. ParametersOK(q)
        BY <1>0 DEF Request, ParametersOK
      <3>3. StageOK(q)
        BY <1>0, <2>1, <2>2, <2>4 DEF Request, StageOK
      <3>4. QED
        BY <3>1, <3>2, <3>3
    <2>5. QED
      BY <1>3, <2>3, <2>4, ContinueType, RespondType DEF LoadTarget, at, row, u
  <1>4. CASE TargetRole(s)
    <2> DEFINE q == [r EXCEPT !.at = IF ResolveRole(r.row, r.who) = "admin"
                                     THEN "list" ELSE "write_user"]
    <2>1. q \in Request /\ ParametersOK(q) /\ StageOK(q)
      <3>1. q \in Request
        BY <1>0, <1>4 DEF Request, Stages, StageOK, TargetRole
      <3>2. ParametersOK(q)
        BY <1>0, <1>4 DEF Request, ParametersOK, TargetRole
      <3>3. StageOK(q)
        BY <1>0, <1>4 DEF Request, StageOK, TargetRole
      <3>4. QED
        BY <3>1, <3>2, <3>3
    <2>2. QED
      BY <1>4, <2>1, ContinueType DEF TargetRole
  <1>5. CASE ListUsers(s)
    <2>1. PICK on \in SUBSET UserIds, ad \in SUBSET UserIds :
             Continue(s, [r EXCEPT !.at = "count", !.active = on, !.admins = ad])
      BY <1>5 DEF ListUsers
    <2> DEFINE q == [r EXCEPT !.at = "count", !.active = on, !.admins = ad]
    <2>2. q \in Request /\ ParametersOK(q) /\ StageOK(q)
      <3>1. q \in Request
        BY <1>0, <1>5, ZenonT(60) DEF Request, Stages, StageOK, ListUsers
      <3>2. ParametersOK(q)
        BY <1>0, <1>5 DEF Request, ParametersOK, ListUsers
      <3>3. StageOK(q)
        BY <1>0, <1>5 DEF Request, StageOK, ListUsers
      <3>4. QED
        BY <3>1, <3>2, <3>3
    <2>3. QED
      BY <2>1, <2>2, ContinueType
  <1>6. CASE CountAdmins(s)
    <2> DEFINE q == [r EXCEPT !.at = "write_user", !.active = {}, !.admins = {}]
    <2>1. q \in Request /\ ParametersOK(q) /\ StageOK(q)
      <3>1. q \in Request
        BY <1>0, <1>6, ZenonT(60) DEF Request, Stages, StageOK, CountAdmins
      <3>2. ParametersOK(q)
        BY <1>0, <1>6 DEF Request, ParametersOK, CountAdmins
      <3>3. StageOK(q)
        BY <1>0, <1>6 DEF Request, StageOK, CountAdmins
      <3>4. QED
        BY <3>1, <3>2, <3>3
    <2>2. QED
      BY <1>6, <2>1, ContinueType, RespondType DEF CountAdmins
  <1>7. CASE LoadGroup(s)
    <2> DEFINE at == IF r.op = "add_members" THEN "members" ELSE "write_group"
               had == groups[r.group]
               q == [r EXCEPT !.had = had, !.at = at]
    <2>1. r.op \in GroupOps /\ had \in Roles \cup {NoRole}
      BY <1>0, <1>7 DEF LoadGroup, TypeOK, ParametersOK, StageOK
    <2>2. at \in {"members", "write_group"} /\ (at = "members" => r.op = "add_members")
      OBVIOUS
    <2> HIDE DEF at, had
    <2>3. q \in Request
      BY <1>0, <2>1, <2>2, AssignType DEF Stages
    <2>4. ParametersOK(q)
      BY <1>0 DEF Request, ParametersOK
    <2>5. StageOK(q)
      BY <1>0, <2>1, <2>2 DEF Request, StageOK
    <2>6. QED
      BY <1>7, <2>3, <2>4, <2>5, ContinueType, RespondType DEF LoadGroup, at, had
  <1>8. CASE CheckMember(s)
    <2>1. PICK u \in r.left : IF Exists(u)
                              THEN Continue(s, [r EXCEPT !.left = @ \ {u}])
                              ELSE Respond(s)
      BY <1>8 DEF CheckMember
    <2> DEFINE q == [r EXCEPT !.left = @ \ {u}]
    <2>2. q \in Request /\ ParametersOK(q) /\ StageOK(q)
      <3>1. q \in Request
        BY <1>0, <1>8 DEF Request, Stages, StageOK, CheckMember
      <3>2. ParametersOK(q)
        BY <1>0, <1>8 DEF Request, ParametersOK, CheckMember
      <3>3. StageOK(q)
        BY <1>0, <1>8 DEF Request, StageOK, CheckMember
      <3>4. QED
        BY <3>1, <3>2, <3>3
    <2>3. QED
      BY <2>1, <2>2, ContinueType, RespondType
  <1>9. CASE OwnAccount(s)
    <2> DEFINE at == IF r.op = "create_pat" THEN "limit" ELSE "find_pat"
               q(u) == [r EXCEPT !.who = u, !.at = at]
    <2>1. r.op \in PatOps
      BY <1>0, <1>9 DEF OwnAccount, StageOK
    <2>2. at \in {"limit", "find_pat"} /\ (at = "find_pat" => r.op = "revoke_pat")
      BY <2>1 DEF PatOps
    <2> HIDE DEF at
    <2>3. ASSUME NEW u \in UserIds
          PROVE  q(u) \in Request /\ ParametersOK(q(u)) /\ StageOK(q(u))
      <3>1. q(u) \in Request
        BY <1>0, <2>2, AssignType DEF Stages
      <3>2. ParametersOK(q(u))
        BY <1>0 DEF Request, ParametersOK
      <3>3. StageOK(q(u))
        BY <1>0, <2>1, <2>2 DEF Request, StageOK
      <3>4. QED
        BY <3>1, <3>2, <3>3
    <2>4. QED
      BY <1>9, <2>3, ContinueType, RespondType DEF OwnAccount, at
  <1>10. CASE CheckPatLimit(s)
    <2> DEFINE q == [r EXCEPT !.at = "issue"]
    <2>1. q \in Request /\ ParametersOK(q) /\ StageOK(q)
      <3>1. q \in Request
        BY <1>0, <1>10 DEF Request, Stages, StageOK, CheckPatLimit
      <3>2. ParametersOK(q)
        BY <1>0, <1>10 DEF Request, ParametersOK, CheckPatLimit
      <3>3. StageOK(q)
        BY <1>0, <1>10 DEF Request, StageOK, CheckPatLimit
      <3>4. QED
        BY <3>1, <3>2, <3>3
    <2>2. QED
      BY <1>10, <2>1, ContinueType, RespondType DEF CheckPatLimit
  <1>11. CASE FindPat(s)
    <2> DEFINE q == [r EXCEPT !.at = "revoke"]
    <2>1. q \in Request /\ ParametersOK(q) /\ StageOK(q)
      <3>1. q \in Request
        BY <1>0, <1>11 DEF Request, Stages, StageOK, FindPat
      <3>2. ParametersOK(q)
        BY <1>0, <1>11 DEF Request, ParametersOK, FindPat
      <3>3. StageOK(q)
        BY <1>0, <1>11 DEF Request, StageOK, FindPat
      <3>4. QED
        BY <3>1, <3>2, <3>3
    <2>2. QED
      BY <1>11, <2>1, ContinueType, RespondType DEF FindPat
  <1>12. QED
    BY <1>1, <1>2, <1>3, <1>4, <1>5, <1>6, <1>7, <1>8, <1>9, <1>10, <1>11

\* The actions that take a new request in.
LEMMA ArrivalsType ==
    ASSUME ConstantsOK, TypeInv, NEW s \in Slots,
           Arrive(s) \/ OidcSignIn(s) \/ Seed(s)
    PROVE  /\ req' \in [Slots -> Request]
           /\ \A t \in Slots : ParametersOK(req'[t]) /\ StageOK(req'[t])
  <1>0. users \in [UserIds -> UserRow \cup {NoUser}]
    BY DEF TypeInv, TypeOK
  <1>1. CASE Arrive(s)
    <2>1. PICK op \in AdminOps \cup PatOps, u \in UserIds : Sent(s, op, u)
      BY <1>1, ArriveSends
    <2>2. PICK r : Payload(op, r) /\ Admit(s, op, u, r)
      BY <2>1 DEF Sent
    <2>3. QED
      BY <2>2, AdmitType, ContinueType DEF Admit, TypeInv, Payload
  <1>2. CASE OidcSignIn(s)
    <2> DEFINE q(n, k) == [Idle EXCEPT !.op = "oidc_sign_in", !.name = n, !.role = k]
               new(n, k) == [q(n, k) EXCEPT !.at = "insert_user"]
               old(n, k, u) == [q(n, k) EXCEPT !.at = "update_oidc", !.who = u,
                                               !.row = users[u]]
    <2>1. \E n \in Names, k \in Roles :
             \/ Continue(s, new(n, k))
             \/ \E u \in UserIds : Continue(s, old(n, k, u))
      BY <1>2 DEF OidcSignIn, ConstantsOK
    <2>2. ASSUME NEW n \in Names, NEW k \in Roles
          PROVE  q(n, k) \in Request /\ ParametersOK(q(n, k)) /\ q(n, k).op = "oidc_sign_in"
      BY DEF Idle, Request, ParametersOK, Stages, AllOps, NoRole, InsertingOps,
             TargetOps, GroupOps
    <2> HIDE DEF q
    <2>3. ASSUME NEW n \in Names, NEW k \in Roles
          PROVE  new(n, k) \in Request /\ ParametersOK(new(n, k)) /\ StageOK(new(n, k))
      <3>1. new(n, k) \in Request
        BY <2>2 DEF Request, Stages
      <3>2. ParametersOK(new(n, k))
        BY <2>2 DEF Request, ParametersOK
      <3>3. StageOK(new(n, k))
        BY <2>2 DEF Request, StageOK, InsertingOps
      <3>4. QED
        BY <3>1, <3>2, <3>3
    <2>4. ASSUME NEW n \in Names, NEW k \in Roles, NEW u \in UserIds
          PROVE  /\ old(n, k, u) \in Request
                 /\ ParametersOK(old(n, k, u)) /\ StageOK(old(n, k, u))
      <3>1. old(n, k, u) \in Request
        BY <1>0, <2>2, AssignType DEF Stages
      <3>2. ParametersOK(old(n, k, u))
        BY <2>2 DEF Request, ParametersOK
      <3>3. StageOK(old(n, k, u))
        BY <2>2 DEF Request, StageOK
      <3>4. QED
        BY <3>1, <3>2, <3>3
    <2> HIDE DEF new, old
    <2>5. QED
      BY <2>1, <2>3, <2>4, ContinueType
  <1>3. CASE Seed(s)
    <2> DEFINE q == [Idle EXCEPT !.op = "seed", !.at = "insert_user",
                                 !.name = AdminName]
    <2>1. q \in Request /\ ParametersOK(q) /\ StageOK(q)
      <3>1. q \in Request
        BY TRUE DEF Request, Stages, StageOK, Idle, AllOps, NoRole, InsertingOps, TargetOps, GroupOps, ConstantsOK, NoUser
      <3>2. ParametersOK(q)
        BY TRUE DEF Request, ParametersOK, Idle, AllOps, NoRole, InsertingOps, TargetOps, GroupOps, ConstantsOK, NoUser
      <3>3. StageOK(q)
        BY TRUE DEF Request, StageOK, Idle, AllOps, NoRole, InsertingOps, TargetOps, GroupOps, ConstantsOK, NoUser
      <3>4. QED
        BY <3>1, <3>2, <3>3
    <2>2. QED
      BY <1>3, <2>1, ContinueType DEF Seed
  <1>4. QED
    BY <1>1, <1>2, <1>3

TableActions(s) ==
    \/ InsertUser(s) \/ DeleteUser(s) \/ SetActive(s)
    \/ CreateGroup(s) \/ UpdateGroup(s) \/ DeleteGroup(s)
    \/ AddMembers(s) \/ RemoveMember(s)
    \/ IssuePat(s) \/ RevokePat(s) \/ UpdateOidc(s)

\* Every other step leaves the tables as they are.
LEMMA StepKinds ==
    ASSUME NEW s \in Slots, Step(s)
    PROVE  TableActions(s) \/ UNCHANGED tables
  BY DEF Step, TableActions, Arrive, Authorize, CheckName, LoadTarget,
         TargetRole, ListUsers, CountAdmins, LoadGroup, CheckMember,
         OwnAccount, CheckPatLimit, FindPat, OidcSignIn, Seed

LEMMA StepType ==
    ASSUME ConstantsOK, TypeInv, [Next]_vars
    PROVE  TypeInv'
  <1>1. CASE UNCHANGED vars
    BY <1>1 DEF TypeInv, TypeOK, vars
  <1>2. CASE Next
    <2>1. PICK s \in Slots : Step(s)
      BY <1>2 DEF Next
    <2>2. CASE TableActions(s)
      <3>1. TypeOK'
        BY <2>2, TablesType DEF TableActions
      <3>2. Respond(s)
        BY <2>2 DEF TableActions, InsertUser, DeleteUser, SetActive, CreateGroup,
             UpdateGroup, DeleteGroup, AddMembers, RemoveMember, IssuePat,
             RevokePat, UpdateOidc
      <3>3. QED
        BY <3>1, <3>2, RespondType DEF TypeInv
    <2>3. CASE UNCHANGED tables
      <3>1. /\ req' \in [Slots -> Request]
            /\ \A t \in Slots : ParametersOK(req'[t]) /\ StageOK(req'[t])
        <4>1. CASE TableActions(s)
          <5>1. Respond(s)
            BY <4>1 DEF TableActions, InsertUser, DeleteUser, SetActive,
                 CreateGroup, UpdateGroup, DeleteGroup, AddMembers,
                 RemoveMember, IssuePat, RevokePat, UpdateOidc
          <5>2. QED
            BY <5>1, RespondType
        <4>2. CASE ~TableActions(s)
          BY <2>1, <4>2, StagesType, ArrivalsType DEF Step, TableActions
        <4>3. QED
          BY <4>1, <4>2
      <3>2. QED
        BY <2>3, <3>1 DEF TypeInv, TypeOK, tables
    <2>4. QED
      BY <2>1, <2>2, <2>3, StepKinds
  <1>3. QED
    BY <1>1, <1>2

LEMMA InitType ==
    ASSUME ConstantsOK, Init
    PROVE  TypeInv
  BY IdleType DEF Init, TypeInv, TypeOK

LEMMA TypeInvariance == Spec => []TypeInv
  <1>1. Init => TypeInv
    BY InitType, ConstantsOK
  <1>2. TypeInv /\ [Next]_vars => TypeInv'
    BY StepType, ConstantsOK
  <1>3. QED
    BY <1>1, <1>2, PTL DEF Spec

\* Every table keeps well-formed rows and every handler well-formed local
\* variables, however many requests overlap: a handler that reads a row which
\* another request deletes never writes a half-made one back.
THEOREM Typing == Spec => []TypeOK
  BY TypeInvariance, PTL DEF TypeInv

-----------------------------------------------------------------------------
(* Deletion and names, whatever overlaps *)

\* What a write transaction does to a row of the user table.
LEMMA UserRows ==
    ASSUME ConstantsOK, TypeInv, NEW s \in Slots, TableActions(s),
           NEW u \in UserIds
    PROVE  \/ users'[u] = users[u]
           \/ /\ ~Exists(u) /\ Exists(u)' /\ ~NameTaken(users'[u].name)
              /\ \A v \in UserIds : v # u => users'[v] = users[v]
           \/ Exists(u) /\ Exists(u)' /\ users'[u].name = users[u].name
           \/ DeleteUser(s) /\ u = req[s].who /\ users'[u] = NoUser
  <1> DEFINE r == req[s]
  <1>0. /\ users \in [UserIds -> UserRow \cup {NoUser}]
        /\ r \in Request /\ ParametersOK(r) /\ StageOK(r)
        /\ \A w \in UserRow : w # NoUser /\ w.name # NoName
    BY DEF TypeInv, TypeOK, UserRow, NoUser, ConstantsOK
  <1>1. CASE InsertUser(s)
    <2> DEFINE row == NewRow(r)
    <2>1. row \in UserRow
      BY <1>0, <1>1 DEF InsertUser, NewRow, UserRow, ParametersOK, StageOK,
           InsertingOps, Roles
    <2> HIDE DEF row
    <2>2. \/ users' = users
          \/ /\ ~NameTaken(row.name)
             /\ \E v \in UserIds : NewRowId(v, {w \in UserIds : Exists(w)})
                                   /\ users' = [users EXCEPT ![v] = row]
      BY <1>1 DEF InsertUser, InsertRow, row
    <2>3. ASSUME NEW v \in UserIds, NewRowId(v, {w \in UserIds : Exists(w)})
          PROVE  ~Exists(v)
      BY <2>3 DEF NewRowId, UserIds
    <2>4. QED
      BY <1>0, <2>1, <2>2, <2>3 DEF Exists
  <1>2. CASE DeleteUser(s)
    BY <1>0, <1>2 DEF DeleteUser
  <1>3. CASE SetActive(s)
    <2>1. r.who \in UserIds
      BY <1>0, <1>3 DEF SetActive, StageOK
    <2>2. CASE Exists(r.who) /\ users' # users
      <3>1. users[r.who] \in UserRow
        BY <1>0, <2>1, <2>2 DEF Exists
      <3>2. users' = [users EXCEPT ![r.who].active = (r.op = "activate")]
        BY <1>3, <2>2 DEF SetActive
      <3>3. users'[r.who].name = users[r.who].name /\ users'[r.who].name # NoName
        BY <1>0, <2>1, <3>1, <3>2 DEF UserRow
      <3>4. QED
        BY <1>0, <2>1, <2>2, <3>2, <3>3 DEF Exists, NoUser
    <2>3. QED
      BY <1>3, <2>2 DEF SetActive
  <1>4. CASE UpdateOidc(s)
    <2>1. r.who \in UserIds
      BY <1>0, <1>4 DEF UpdateOidc, StageOK
    <2>2. CASE Exists(r.who) /\ users' # users
      <3>1. users[r.who] \in UserRow
        BY <1>0, <2>1, <2>2 DEF Exists
      <3>2. users' = [users EXCEPT ![r.who].role = (r.role)]
        BY <1>4, <2>2 DEF UpdateOidc
      <3>3. users'[r.who].name = users[r.who].name /\ users'[r.who].name # NoName
        BY <1>0, <2>1, <3>1, <3>2 DEF UserRow
      <3>4. QED
        BY <1>0, <2>1, <2>2, <3>2, <3>3 DEF Exists, NoUser
    <2>3. QED
      BY <1>4, <2>2 DEF UpdateOidc
  <1>5. QED
    BY <1>1, <1>2, <1>3, <1>4 DEF TableActions, CreateGroup, UpdateGroup,
       DeleteGroup, AddMembers, RemoveMember, IssuePat, RevokePat

\* The row of an account disappears together with its memberships and its
\* tokens (delete_user), however many requests overlap.
THEOREM Deletion == Spec => DeletionComplete
  <1> DEFINE Erased(u) == PatsOf(u)' = {} /\ \A l \in links' : l[1] # u
  <1>1. ASSUME TypeInv, [Next]_vars, NEW u \in UserIds, Exists(u), ~Exists(u)'
        PROVE  Erased(u)
    <2>1. users'[u] # users[u] /\ Next
      BY <1>1 DEF Exists, vars
    <2>2. PICK s \in Slots : Step(s)
      BY <2>1 DEF Next
    <2>3. TableActions(s)
      BY <2>1, <2>2, StepKinds DEF tables
    <2>4. DeleteUser(s) /\ u = req[s].who
      BY <1>1, <2>1, <2>3, UserRows, ConstantsOK
    <2>5. QED
      BY <2>4 DEF DeleteUser, PatsOf, UserIds
  <1>2. TypeInv /\ [Next]_vars
           => [\A u \in UserIds : Exists(u) /\ ~Exists(u)' => Erased(u)]_vars
    BY <1>1
  <1>3. QED
    BY <1>2, TypeInvariance, PTL DEF Spec, DeletionComplete

\* Two accounts never share a name, although the routes check the name before
\* the transaction that inserts the row (the unique index refuses the second).
THEOREM Naming == Spec => []UniqueNames
  <1>1. ASSUME Init PROVE UniqueNames
    BY <1>1 DEF Init, UniqueNames, Exists
  <1>2. ASSUME TypeInv, UniqueNames, [Next]_vars
        PROVE  UniqueNames'
    <2>1. CASE users' = users
      BY <1>2, <2>1 DEF UniqueNames, Exists
    <2>2. CASE users' # users
      <3>1. PICK s \in Slots : Step(s)
        BY <1>2, <2>2 DEF Next, vars
      <3>2. TableActions(s)
        BY <2>2, <3>1, StepKinds DEF tables
      <3>3. SUFFICES ASSUME NEW u \in UserIds, NEW v \in UserIds, u # v,
                            Exists(u)', users'[u].name = users'[v].name
                     PROVE  FALSE
        BY DEF UniqueNames, Exists
      <3>4. ASSUME NEW w \in UserIds, Exists(w)
            PROVE  users[w].name # NoName
        BY <1>2, <3>4, ConstantsOK DEF TypeInv, TypeOK, Exists, UserRow
      <3>5. CASE ~Exists(u)
        <4>1. ~NameTaken(users'[u].name) /\ users'[v] = users[v]
          BY <1>2, <3>2, <3>3, <3>5, UserRows, ConstantsOK DEF Exists
        <4>2. QED
          BY <3>3, <4>1 DEF NameTaken
      <3>6. CASE Exists(u)
        <4>1. users'[u].name = users[u].name
          BY <1>2, <3>2, <3>3, <3>6, UserRows, ConstantsOK DEF Exists
        <4>2. users'[v].name # NoName
          BY <3>3, <3>4, <3>6, <4>1
        <4>3. \/ users'[v].name = users[v].name
              \/ ~NameTaken(users'[v].name)
          BY <1>2, <3>2, <4>2, UserRows, ConstantsOK DEF NoUser
        <4>4. QED
          BY <1>2, <3>3, <3>6, <4>1, <4>3 DEF UniqueNames, NameTaken
      <3>7. QED
        BY <3>5, <3>6
    <2>3. QED
      BY <2>1, <2>2
  <1>3. QED
    BY <1>1, <1>2, TypeInvariance, PTL DEF Spec

-----------------------------------------------------------------------------
(* The token limit, whatever overlaps *)

\* Requests that have passed the limit check for account u and not inserted.
Issuing(u) == {s \in Slots : req[s].at = "issue" /\ req[s].who = u}

\* Tokens issued and tokens about to be issued are bounded together: alone,
\* PatLimitSlack says nothing of the requests that already passed the check.
Reserved ==
    \A u \in UserIds :
        Cardinality(PatsOf(u)) + Cardinality(Issuing(u)) + 1
            <= MaxPats + Cardinality(Slots)

LEMMA FiniteSides ==
    ASSUME ConstantsOK, NEW u
    PROVE  /\ IsFiniteSet(Slots) /\ Cardinality(Slots) \in Nat
           /\ Cardinality(Slots) > 0
           /\ IsFiniteSet(PatsOf(u)) /\ Cardinality(PatsOf(u)) \in Nat
           /\ IsFiniteSet(Issuing(u)) /\ Cardinality(Issuing(u)) \in Nat
           /\ Cardinality(Issuing(u)) <= Cardinality(Slots)
  <1>1. IsFiniteSet(PatIds)
    BY FS_Interval DEF PatIds, ConstantsOK
  <1>2. PatsOf(u) \subseteq PatIds /\ Issuing(u) \subseteq Slots
    BY DEF PatsOf, Issuing
  <1>3. QED
    BY <1>1, <1>2, FS_Subset, FS_CardinalityType, FS_EmptySet DEF ConstantsOK

LEMMA FiniteSidesNext ==
    ASSUME ConstantsOK, NEW u
    PROVE  /\ IsFiniteSet(PatsOf(u)') /\ Cardinality(PatsOf(u)') \in Nat
           /\ IsFiniteSet(Issuing(u)') /\ Cardinality(Issuing(u)') \in Nat
           /\ Cardinality(Issuing(u)') <= Cardinality(Slots)
  <1>1. IsFiniteSet(PatIds)
    BY FS_Interval DEF PatIds, ConstantsOK
  <1>2. PatsOf(u)' \subseteq PatIds /\ Issuing(u)' \subseteq Slots
    BY DEF PatsOf, Issuing
  <1>3. QED
    BY <1>1, <1>2, FS_Subset, FS_CardinalityType DEF ConstantsOK

\* A request enters stage "issue" only from the limit check.
LEMMA OnlyCheckIssues ==
    ASSUME ConstantsOK, TypeInv, NEW s \in Slots, Step(s), ~CheckPatLimit(s)
    PROVE  /\ req'[s].at # "issue"
           /\ \A t \in Slots : t # s => req'[t] = req[t]
  <1> DEFINE Moves == /\ req'[s].at # "issue"
                      /\ \A t \in Slots : t # s => req'[t] = req[t]
  <1>1. req \in [Slots -> Request] /\ req[s] \in Request
    BY DEF TypeInv, TypeOK
  <1>2. Respond(s) => Moves
    BY <1>1 DEF Respond, Idle
  <1>3. Arrive(s) => Moves
    <2> SUFFICES ASSUME NEW op, NEW u, NEW r \in Request, Admit(s, op, u, r)
                 PROVE  Moves
      BY ArriveSends DEF Sent, Payload
    <2>1. [r EXCEPT !.op = op, !.at = "authorize", !.who = u, !.row = users[u],
                    !.caller = users[u].name].at = "authorize"
      BY DEF Request
    <2>2. QED
      BY <1>1, <2>1 DEF Admit, Continue
  <1>4. Authorize(s) => Moves
    <2>1. req[s].at = "authorize" => req[s].op \in AdminOps \cup PatOps
      BY DEF TypeInv, StageOK
    <2>2. req[s].at = "authorize" => FirstStage(req[s].op) # "issue"
      BY <2>1, FirstStageOf DEF AdminOps
    <2>3. QED
      BY <1>1, <1>2, <2>2, ZenonT(60) DEF Authorize, Continue, Request
  <1>5. CheckName(s) => Moves
    BY <1>1, <1>2 DEF Continue, CheckName, Request
  <1>5b. TargetRole(s) => Moves
    BY <1>1 DEF Continue, TargetRole, Request
  <1>5c. LoadGroup(s) => Moves
    BY <1>1, <1>2, ZenonT(60) DEF Continue, LoadGroup, Request
  <1>5a. LoadTarget(s) => Moves
    BY <1>1, <1>2, ZenonT(60) DEF Continue, LoadTarget, Request
  <1>6. ListUsers(s) => Moves
    BY <1>1 DEF Continue, ListUsers, Request
  <1>6a. CountAdmins(s) => Moves
    BY <1>1, <1>2, ZenonT(60) DEF Continue, CountAdmins, Request
  <1>6b. FindPat(s) => Moves
    BY <1>1, <1>2 DEF Continue, FindPat, Request
  <1>7. CheckMember(s) => Moves
    BY <1>1, <1>2 DEF Continue, CheckMember, Request
  <1>7a. OwnAccount(s) => Moves
    BY <1>1, <1>2, ZenonT(60) DEF Continue, OwnAccount, Request
  <1>8. OidcSignIn(s) => Moves
    <2>1. ASSUME NEW r, Continue(s, r), r.at # "issue"
          PROVE  Moves
      BY <1>1, <2>1 DEF Continue
    <2>2. SUFFICES ASSUME OidcSignIn(s)
                   PROVE  Moves
      OBVIOUS
    <2>3. PICK n, q :
            LET r == [Idle EXCEPT !.op = "oidc_sign_in", !.name = n, !.role = q]
            IN  \/ Continue(s, [r EXCEPT !.at = "insert_user"])
                \/ \E u \in UserIds :
                     Continue(s, [r EXCEPT !.at = "update_oidc", !.who = u,
                                           !.row = users[u]])
      BY <2>2 DEF OidcSignIn
    <2> DEFINE r == [Idle EXCEPT !.op = "oidc_sign_in", !.name = n, !.role = q]
    <2>4. /\ [r EXCEPT !.at = "insert_user"].at # "issue"
          /\ \A u : [r EXCEPT !.at = "update_oidc", !.who = u,
                             !.row = users[u]].at # "issue"
      BY DEF Idle
    <2>5. QED
      BY <2>1, <2>3, <2>4
  <1>8a. Seed(s) => Moves
    BY <1>1 DEF Continue, Seed, Idle
  <1>9. TableActions(s) => Moves
    BY <1>2 DEF TableActions, InsertUser, DeleteUser, SetActive, CreateGroup,
       UpdateGroup, DeleteGroup, AddMembers, RemoveMember, IssuePat, RevokePat,
       UpdateOidc
  <1>10. Moves
    BY <1>3, <1>4, <1>5, <1>5a, <1>5b, <1>5c, <1>6, <1>6a, <1>6b, <1>7, <1>7a,
       <1>8, <1>8a, <1>9 DEF Step, TableActions
  <1>11. QED
    BY <1>10

LEMMA ReservedStep ==
    ASSUME ConstantsOK, TypeInv, Reserved, NEW s \in Slots, Step(s)
    PROVE  Reserved'
  <1>0. /\ req \in [Slots -> Request] /\ StageOK(req[s])
        /\ pats \in [PatIds -> UserIds \cup {0}]
        /\ MaxPats \in Nat
    BY DEF TypeInv, TypeOK, ConstantsOK
  <1> SUFFICES ASSUME NEW u \in UserIds
               PROVE  Cardinality(PatsOf(u)') + Cardinality(Issuing(u)') + 1
                        <= MaxPats + Cardinality(Slots)
    BY DEF Reserved
  <1>1. /\ Cardinality(PatsOf(u)) + Cardinality(Issuing(u)) + 1
             <= MaxPats + Cardinality(Slots)
        /\ Cardinality(PatsOf(u)) \in Nat /\ Cardinality(Issuing(u)) \in Nat
        /\ Cardinality(PatsOf(u)') \in Nat /\ Cardinality(Issuing(u)') \in Nat
        /\ Cardinality(Slots) \in Nat
        /\ IsFiniteSet(PatsOf(u)) /\ IsFiniteSet(Issuing(u))
    BY FiniteSides, FiniteSidesNext DEF Reserved
  <1>2. CASE CheckPatLimit(s)
    <2>1. PatsOf(u)' = PatsOf(u)
      BY <1>2 DEF CheckPatLimit, PatsOf, tables
    <2>2. CASE req[s].who = u /\ req'[s].at = "issue"
      <3>1. Cardinality(PatsOf(u)) < MaxPats
        BY <1>0, <1>1, <1>2, <2>2 DEF CheckPatLimit, Respond, Idle
      <3>2. Cardinality(Issuing(u)') <= Cardinality(Slots)
        BY FiniteSidesNext
      <3>3. QED
        BY <1>0, <1>1, <2>1, <3>1, <3>2
    <2>3. CASE ~(req[s].who = u /\ req'[s].at = "issue")
      <3>1. Issuing(u)' \subseteq Issuing(u)
        <4>1. \A t \in Slots : t # s => req'[t] = req[t]
          BY <1>0, <1>2 DEF CheckPatLimit, Continue, Respond
        <4>2. req'[s].at # "issue" \/ req'[s].who = req[s].who
          <5>1. req[s] \in Request
            BY <1>0
          <5>2. CASE Respond(s)
            BY <1>0, <5>2 DEF Respond, Idle
          <5>3. CASE Continue(s, [req[s] EXCEPT !.at = "issue"])
            BY <1>0, <5>1, <5>3 DEF Continue, Request
          <5>4. QED
            BY <1>2, <5>2, <5>3 DEF CheckPatLimit
        <4>3. QED
          BY <2>3, <4>1, <4>2 DEF Issuing
      <3>2. Cardinality(Issuing(u)') <= Cardinality(Issuing(u))
        BY <1>1, <3>1, FS_Subset
      <3>3. QED
        BY <1>0, <1>1, <2>1, <3>2
    <2>4. QED
      BY <2>2, <2>3
  <1>3. CASE ~CheckPatLimit(s) /\ ~IssuePat(s)
    <2>1. Issuing(u)' \subseteq Issuing(u)
      BY <1>0, <1>3, OnlyCheckIssues DEF Issuing
    <2>2. PatsOf(u)' \subseteq PatsOf(u)
      <3>1. pats' = pats \/ DeleteUser(s) \/ RevokePat(s)
        BY <1>3, StepKinds DEF tables, TableActions, InsertUser, SetActive,
           CreateGroup, UpdateGroup, DeleteGroup, AddMembers, RemoveMember,
           UpdateOidc
      <3>2. QED
        BY <1>0, <3>1 DEF PatsOf, DeleteUser, RevokePat, UserIds
    <2>3. /\ Cardinality(PatsOf(u)') <= Cardinality(PatsOf(u))
          /\ Cardinality(Issuing(u)') <= Cardinality(Issuing(u))
      BY <1>1, <2>1, <2>2, FS_Subset
    <2>4. QED
      BY <1>0, <1>1, <2>3
  <1>4. CASE IssuePat(s)
    <2>1. req'[s].at # "issue" /\ \A t \in Slots : t # s => req'[t] = req[t]
      BY <1>0, <1>4 DEF IssuePat, Respond, Idle
    <2>2. CASE req[s].who # u
      <3>1. PatsOf(u)' \subseteq PatsOf(u)
        BY <1>0, <1>4, <2>2 DEF IssuePat, PatsOf
      <3>2. Issuing(u)' \subseteq Issuing(u)
        BY <1>0, <2>1 DEF Issuing
      <3>3. /\ Cardinality(PatsOf(u)') <= Cardinality(PatsOf(u))
            /\ Cardinality(Issuing(u)') <= Cardinality(Issuing(u))
        BY <1>1, <3>1, <3>2, FS_Subset
      <3>4. QED
        BY <1>0, <1>1, <3>3
    <2>3. CASE req[s].who = u
      <3>1. Issuing(u)' = Issuing(u) \ {s} /\ s \in Issuing(u)
        BY <1>0, <1>4, <2>1, <2>3 DEF Issuing, IssuePat
      <3>2. Cardinality(Issuing(u)') = Cardinality(Issuing(u)) - 1
        BY <1>1, <3>1, FS_RemoveElement
      <3>3. PICK p \in PatIds : PatsOf(u)' \subseteq PatsOf(u) \cup {p}
        BY <1>0, <1>4, ZenonT(60) DEF IssuePat, PatsOf
      <3>4. Cardinality(PatsOf(u)') <= Cardinality(PatsOf(u)) + 1
        <4>1. /\ IsFiniteSet(PatsOf(u) \cup {p})
              /\ Cardinality(PatsOf(u) \cup {p}) =
                   IF p \in PatsOf(u) THEN Cardinality(PatsOf(u))
                                      ELSE Cardinality(PatsOf(u)) + 1
          BY <1>1, FS_AddElement
        <4>2. Cardinality(PatsOf(u)') <= Cardinality(PatsOf(u) \cup {p})
          BY <3>3, <4>1, FS_Subset
        <4>3. QED
          BY <1>1, <4>1, <4>2
      <3>5. QED
        BY <1>0, <1>1, <3>2, <3>4
    <2>4. QED
      BY <2>2, <2>3
  <1>5. QED
    BY <1>2, <1>3, <1>4

\* With n requests in flight an account exceeds pat_max_per_user by at most
\* n - 1 tokens (pat_service.create counts, then inserts).
THEOREM PatBurst == Spec => []PatLimitSlack
  <1>1. ASSUME Init PROVE Reserved
    <2>1. \A u \in UserIds : PatsOf(u) = {} /\ Issuing(u) = {}
      BY <1>1 DEF Init, PatsOf, Issuing, UserIds, Idle
    <2>2. QED
      BY <2>1, FiniteSides, FS_EmptySet, ConstantsOK DEF Reserved, ConstantsOK
  <1>2. ASSUME TypeInv, Reserved, [Next]_vars
        PROVE  Reserved'
    <2>1. CASE UNCHANGED vars
      BY <1>2, <2>1 DEF Reserved, PatsOf, Issuing, vars
    <2>2. CASE Next
      BY <1>2, <2>2, ReservedStep, ConstantsOK DEF Next
    <2>3. QED
      BY <1>2, <2>1, <2>2
  <1>3. ASSUME Reserved PROVE PatLimitSlack
    <2>1. \A u \in UserIds :
             /\ Cardinality(PatsOf(u)) \in Nat /\ Cardinality(Issuing(u)) \in Nat
             /\ Cardinality(Slots) \in Nat /\ MaxPats \in Nat
      BY FiniteSides, ConstantsOK DEF ConstantsOK
    <2>2. QED
      BY <1>3, <2>1 DEF Reserved, PatLimitSlack
  <1>4. QED
    BY <1>1, <1>2, <1>3, TypeInvariance, PTL DEF Spec

-----------------------------------------------------------------------------
(* Requests that are served one after the other *)

OneSlot == \A s, t \in Slots : s = t

\* What a request has found out is still so: nobody else writes.
UpToDate(s) ==
    LET r == req[s]
    IN  /\ r.at \in {"authorize", "own_account"} => r.caller \in Names
        /\ r.at \in {"limit", "issue"} => Exists(r.who)
        /\ r.at = "members" => groups[r.group] # NoRole
        /\ r.at = "revoke" => pats[r.pat] = r.who
        /\ r.at = "update_oidc" => users[r.who].provider = "oidc"
        /\ \A u \in r.members \ r.left : Exists(u)

SerialInv == NoOrphans /\ \A s \in Slots : UpToDate(s)

\* A request that has been answered relies on nothing.
LEMMA AnsweredUpToDate ==
    ASSUME NEW s \in Slots, req'[s] = Idle
    PROVE  UpToDate(s)'
  <1>1. /\ Idle.at = "idle" /\ Idle.members = {}
    BY DEF Idle
  <1>2. QED
    BY <1>1 DEF UpToDate

\* Every stage that writes nothing checks what the next one relies on.
LEMMA ReadsUpToDate ==
    ASSUME ConstantsOK, TypeInv, NEW s \in Slots, UpToDate(s), Step(s),
           UNCHANGED tables
    PROVE  UpToDate(s)'
  <1> DEFINE r == req[s]
             q == req'[s]
             Kept(n) == /\ n.caller = r.caller /\ n.group = r.group
                        /\ n.members = r.members /\ n.left = r.left
  <1>0. /\ req \in [Slots -> Request] /\ r \in Request /\ StageOK(r)
        /\ users \in [UserIds -> UserRow \cup {NoUser}]
    BY DEF TypeInv, TypeOK
  <1>1. \A u : Exists(u)' <=> Exists(u)
    BY DEF Exists, tables
  <1>2. CASE q = Idle
    BY <1>2, AnsweredUpToDate
  <1>3. CASE Arrive(s)
    <2> DEFINE Even(n) == n \in Request /\ n.members = n.left
    <2>1. PICK op \in Ops, u \in UserIds : \E n : Even(n) /\ Admit(s, op, u, n)
      <3>1. /\ Even(Idle)
            /\ \A n \in Names : Even([Idle EXCEPT !.name = n])
            /\ \A v \in UserIds : Even([Idle EXCEPT !.user = v])
            /\ \A x \in GrantRoles : Even([Idle EXCEPT !.role = x])
            /\ \A g \in GroupIds : Even([Idle EXCEPT !.group = g])
            /\ \A p \in PatIds : Even([Idle EXCEPT !.pat = p])
            /\ \A g \in GroupIds, x \in GrantRoles :
                 Even([Idle EXCEPT !.group = g, !.role = x])
            /\ \A g \in GroupIds, m \in SUBSET UserIds :
                 Even([Idle EXCEPT !.group = g, !.members = m, !.left = m])
            /\ \A g \in GroupIds, v \in UserIds :
                 Even([Idle EXCEPT !.group = g, !.user = v])
        <4>1. /\ Idle \in Request
              /\ \A n \in Names : [Idle EXCEPT !.name = n] \in Request
              /\ \A v \in UserIds : [Idle EXCEPT !.user = v] \in Request
              /\ \A x \in GrantRoles : [Idle EXCEPT !.role = x] \in Request
              /\ \A g \in GroupIds : [Idle EXCEPT !.group = g] \in Request
              /\ \A p \in PatIds : [Idle EXCEPT !.pat = p] \in Request
              /\ \A g \in GroupIds, x \in GrantRoles :
                   [Idle EXCEPT !.group = g, !.role = x] \in Request
              /\ \A g \in GroupIds, m \in SUBSET UserIds :
                   [Idle EXCEPT !.group = g, !.members = m, !.left = m] \in Request
              /\ \A g \in GroupIds, v \in UserIds :
                   [Idle EXCEPT !.group = g, !.user = v] \in Request
          BY PayloadType, IdleType DEF Payload, TargetOps
        <4>2. /\ Even(Idle)
              /\ \A n \in Names : Even([Idle EXCEPT !.name = n])
              /\ \A v \in UserIds : Even([Idle EXCEPT !.user = v])
          BY <4>1 DEF Idle
        <4>3. /\ \A x \in GrantRoles : Even([Idle EXCEPT !.role = x])
              /\ \A g \in GroupIds : Even([Idle EXCEPT !.group = g])
              /\ \A p \in PatIds : Even([Idle EXCEPT !.pat = p])
          BY <4>1 DEF Idle
        <4>4. \A g \in GroupIds, x \in GrantRoles :
                 Even([Idle EXCEPT !.group = g, !.role = x])
          BY <4>1 DEF Idle
        <4>5. \A g \in GroupIds, m \in SUBSET UserIds :
                 Even([Idle EXCEPT !.group = g, !.members = m, !.left = m])
          BY <4>1 DEF Idle
        <4>6. \A g \in GroupIds, v \in UserIds :
                 Even([Idle EXCEPT !.group = g, !.user = v])
          BY <4>1 DEF Idle
        <4>7. QED
          BY <4>2, <4>3, <4>4, <4>5, <4>6
      <3>2. PICK op \in Ops, u \in UserIds :
          \/ \E n \in Names : Admit(s, op, u, [Idle EXCEPT !.name = n])
          \/ \E v \in UserIds : Admit(s, op, u, [Idle EXCEPT !.user = v])
          \/ \E x \in GrantRoles : Admit(s, op, u, [Idle EXCEPT !.role = x])
          \/ \E g \in GroupIds, x \in GrantRoles :
               Admit(s, op, u, [Idle EXCEPT !.group = g, !.role = x])
          \/ \E g \in GroupIds : Admit(s, op, u, [Idle EXCEPT !.group = g])
          \/ \E g \in GroupIds, m \in SUBSET UserIds :
               Admit(s, op, u, [Idle EXCEPT !.group = g, !.members = m, !.left = m])
          \/ \E g \in GroupIds, v \in UserIds :
               Admit(s, op, u, [Idle EXCEPT !.group = g, !.user = v])
          \/ Admit(s, op, u, Idle)
          \/ \E p \in PatIds : Admit(s, op, u, [Idle EXCEPT !.pat = p])
        BY <1>3, ZenonT(60) DEF Arrive
      <3> HIDE DEF Even
      <3>3. QED
        BY <3>1, <3>2, ZenonT(60)
    <2>5. PICK n : Even(n) /\ Admit(s, op, u, n)
      BY <2>1
    <2>2. /\ users[u].active /\ users[u] \in UserRow
          /\ q = [n EXCEPT !.op = op, !.at = "authorize", !.who = u,
                           !.row = users[u], !.caller = users[u].name]
      BY <1>0, <2>5 DEF Admit, Continue, NoUser
    <2>3. /\ q.at = "authorize" /\ q.caller \in Names
          /\ q.members = n.members /\ q.left = n.left
      BY <2>2, <2>5 DEF Request, UserRow
    <2>4. QED
      BY <2>3, <2>5 DEF UpToDate
  <1>4. CASE Authorize(s) /\ q # Idle
    <2>1. q = [r EXCEPT !.at = FirstStage(r.op), !.row = NoUser, !.who = 0]
      BY <1>0, <1>4 DEF Authorize, Respond, Continue
    <2>2. q.at = FirstStage(r.op) /\ Kept(q) /\ r.at = "authorize"
      BY <1>0, <1>4, <2>1 DEF Request, Authorize
    <2>3. r.op \in AdminOps \cup PatOps
      BY <1>0, <2>2 DEF StageOK
    <2>4. q.at \in {"check_name", "target", "insert_group", "load_group", "own_account"}
      BY <2>2, <2>3, FirstStageOf DEF AdminOps
    <2>5. QED
      BY <1>1, <2>2, <2>4 DEF UpToDate
  <1>5. CASE LoadGroup(s) /\ q # Idle
    <2>1. /\ groups[r.group] # NoRole
          /\ \E a \in {"members", "write_group"} :
               q = [r EXCEPT !.had = groups[r.group], !.at = a]
      BY <1>0, <1>5 DEF LoadGroup, Respond, Continue
    <2>2. Kept(q) /\ q.at \in {"members", "write_group"}
      BY <1>0, <2>1 DEF Request
    <2>3. QED
      BY <1>1, <2>1, <2>2 DEF UpToDate, tables
  <1>6. CASE CheckMember(s) /\ q # Idle
    <2>1. PICK u \in r.left : Exists(u) /\ q = [r EXCEPT !.left = @ \ {u}]
      BY <1>0, <1>6 DEF CheckMember, Respond, Continue
    <2>2. /\ q.at = "members" /\ r.at = "members" /\ q.group = r.group
          /\ q.members = r.members /\ q.left = r.left \ {u}
      BY <1>0, <1>6, <2>1 DEF Request, CheckMember
    <2>3. QED
      BY <1>1, <2>1, <2>2 DEF UpToDate, tables
  <1>7. CASE OwnAccount(s) /\ q # Idle
    <2>1. PICK u \in UserIds, a \in {"limit", "find_pat"} :
              users[u].name = r.caller /\ q = [r EXCEPT !.who = u, !.at = a]
      BY <1>0, <1>7 DEF OwnAccount, Respond, Continue
    <2>2. Kept(q) /\ q.who = u /\ q.at = a
      BY <1>0, <2>1 DEF Request
    <2>3. Exists(u)
      <3>1. r.caller \in Names
        BY <1>7 DEF UpToDate, OwnAccount
      <3>2. NoUser.name = NoName /\ NoName \notin Names
        BY DEF NoUser, ConstantsOK
      <3>3. QED
        BY <2>1, <3>1, <3>2 DEF Exists
    <2>4. QED
      BY <1>1, <2>2, <2>3 DEF UpToDate
  <1>8. CASE CheckPatLimit(s) /\ q # Idle
    <2>1. q = [r EXCEPT !.at = "issue"] /\ r.at = "limit"
      BY <1>0, <1>8 DEF CheckPatLimit, Respond, Continue
    <2>2. Kept(q) /\ q.who = r.who /\ q.at = "issue"
      BY <1>0, <2>1 DEF Request
    <2>3. QED
      BY <1>1, <2>1, <2>2 DEF UpToDate
  <1>9. CASE OidcSignIn(s) \/ Seed(s)
    <2>1. /\ q.at \in {"insert_user", "update_oidc"} /\ q.members = {}
          /\ q.at = "update_oidc" => users[q.who].provider = "oidc"
      <3>1. CASE Seed(s)
        BY <1>0, <3>1 DEF Seed, Continue, Idle
      <3>2. CASE OidcSignIn(s)
        <4> DEFINE o(n, x) == [Idle EXCEPT !.op = "oidc_sign_in", !.name = n,
                                           !.role = x]
        <4>1. PICK n, x, u :
                \/ Continue(s, [o(n, x) EXCEPT !.at = "insert_user"])
                \/ /\ Continue(s, [o(n, x) EXCEPT !.at = "update_oidc", !.who = u,
                                                  !.row = users[u]])
                   /\ users[u].provider = "oidc"
          BY <3>2, Zenon DEF OidcSignIn
        <4>2. \/ q = [o(n, x) EXCEPT !.at = "insert_user"]
              \/ /\ q = [o(n, x) EXCEPT !.at = "update_oidc", !.who = u,
                                        !.row = users[u]]
                 /\ users[u].provider = "oidc"
          BY <1>0, <4>1 DEF Continue
        <4>3. QED
          BY <4>2 DEF Idle
      <3>3. QED
        BY <1>9, <3>1, <3>2
    <2>2. QED
      BY <2>1 DEF UpToDate, tables
  <1>10. CASE TableActions(s)
    <2>1. q = Idle
      BY <1>0, <1>10 DEF TableActions, InsertUser, DeleteUser, SetActive,
         CreateGroup, UpdateGroup, DeleteGroup, AddMembers, RemoveMember,
         IssuePat, RevokePat, UpdateOidc, Respond
    <2>2. QED
      BY <1>2, <2>1
  <1>11. CASE \/ CheckName(s) \/ LoadTarget(s) \/ TargetRole(s)
              \/ CountAdmins(s)
    <2>1. q # Idle => Kept(q) /\ q.at \in {"insert_user", "target_role", "list",
                                           "write_user"}
      <3>1. CASE CheckName(s)
        BY <1>0, <3>1 DEF CheckName, Respond, Continue, Request
      <3>2. CASE LoadTarget(s)
        <4> DEFINE a == IF r.op = "activate" \/ ~users[r.user].active
                        THEN "write_user" ELSE "target_role"
                   w == users[r.user]
                   n == [r EXCEPT !.row = w, !.who = r.user, !.at = a]
        <4>1. q = Idle \/ q = n
          BY <1>0, <3>2 DEF LoadTarget, Respond, Continue
        <4>2. a \in {"write_user", "target_role"}
          OBVIOUS
        <4> HIDE DEF a, w
        <4>3. Kept(n) /\ n.at = a
          BY <1>0 DEF Request
        <4> HIDE DEF n
        <4>4. QED
          BY <4>1, <4>2, <4>3
      <3>3. CASE TargetRole(s)
        BY <1>0, <3>3 DEF TargetRole, Continue, Request
      <3>4. CASE CountAdmins(s)
        <4>1. q # Idle =>
                q = [r EXCEPT !.at = "write_user", !.active = {}, !.admins = {}]
          BY <1>0, <3>4 DEF CountAdmins, Respond, Continue
        <4>2. QED
          BY <1>0, <4>1 DEF Request
      <3>5. QED
        BY <1>11, <3>1, <3>2, <3>3, <3>4
    <2>2. QED
      BY <1>1, <1>2, <2>1 DEF UpToDate
  <1>12. CASE ListUsers(s)
    <2>1. \E a, b : q = [r EXCEPT !.at = "count", !.active = a, !.admins = b]
      BY <1>0, <1>12 DEF ListUsers, Continue
    <2>2. Kept(q) /\ q.at = "count"
      BY <1>0, <2>1 DEF Request
    <2>3. QED
      BY <1>1, <2>2 DEF UpToDate
  <1>13. CASE FindPat(s) /\ q # Idle
    <2>1. q = [r EXCEPT !.at = "revoke"] /\ pats[r.pat] = r.who
      BY <1>0, <1>13 DEF FindPat, Respond, Continue
    <2>2. Kept(q) /\ q.pat = r.pat /\ q.who = r.who /\ q.at = "revoke"
      BY <1>0, <2>1 DEF Request
    <2>3. QED
      BY <1>1, <2>1, <2>2 DEF UpToDate, tables
  <1>14. QED
    BY <1>2, <1>3, <1>4, <1>5, <1>6, <1>7, <1>8, <1>9, <1>10, <1>11, <1>12, <1>13
       DEF Step, TableActions

\* A transaction leaves no orphan if what its request relies on is so.
LEMMA WritesNoOrphans ==
    ASSUME ConstantsOK, TypeInv, NoOrphans, NEW s \in Slots, UpToDate(s),
           TableActions(s)
    PROVE  NoOrphans'
  <1> DEFINE r == req[s]
  <1>0. /\ r \in Request /\ ParametersOK(r) /\ StageOK(r)
        /\ links \subseteq UserIds \X GroupIds
        /\ pats \in [PatIds -> UserIds \cup {0}]
        /\ groups \in [GroupIds -> Roles \cup {NoRole}]
        /\ NoRole \notin Roles
    BY DEF TypeInv, TypeOK, Roles, NoRole
  <1>1. CASE DeleteUser(s)
    <2>1. \A u \in UserIds : Exists(u) /\ u # r.who => Exists(u)'
      BY <1>1 DEF DeleteUser, Exists
    <2>2. \A l \in links' : l \in links /\ l[1] \in UserIds /\ l[1] # r.who
      BY <1>0, <1>1 DEF DeleteUser
    <2>3. \A p \in PatIds : pats'[p] # 0 =>
            pats'[p] = pats[p] /\ pats[p] \in UserIds /\ pats[p] # r.who
      BY <1>0, <1>1 DEF DeleteUser
    <2>4. QED
      BY <1>1, <2>1, <2>2, <2>3 DEF NoOrphans, DeleteUser
  <1>2. CASE ~DeleteUser(s)
    <2>0. \A u \in UserIds : Exists(u) => Exists(u)'
      BY <1>2, UserRows DEF Exists
    <2>1. CASE InsertUser(s) \/ SetActive(s) \/ UpdateOidc(s)
      <3>1. UNCHANGED <<groups, links, pats>>
        BY <2>1 DEF InsertUser, SetActive, UpdateOidc
      <3>2. \A l \in links : l[1] \in UserIds
        BY <1>0
      <3>3. QED
        BY <1>0, <2>0, <3>1, <3>2 DEF NoOrphans
    <2>2. CASE CreateGroup(s) \/ UpdateGroup(s)
      <3>1. UNCHANGED <<users, links, pats>> /\ r.role \in Roles
        BY <1>0, <2>2 DEF CreateGroup, UpdateGroup, ParametersOK, StageOK
      <3>2. \A g \in GroupIds : groups[g] # NoRole => groups'[g] # NoRole
        BY <1>0, <2>2, <3>1 DEF CreateGroup, UpdateGroup
      <3>3. \A l \in links : l[2] \in GroupIds
        BY <1>0
      <3>4. QED
        BY <3>1, <3>2, <3>3 DEF NoOrphans, Exists
    <2>3. CASE DeleteGroup(s)
      <3>1. \A l \in links' : l \in links /\ l[2] # r.group /\ l[2] \in GroupIds
        BY <1>0, <2>3 DEF DeleteGroup
      <3>2. QED
        BY <1>0, <2>3, <3>1 DEF DeleteGroup, NoOrphans, Exists
    <2>4. CASE AddMembers(s)
      <3>1. /\ UNCHANGED <<users, groups, pats>>
            /\ links' = links \cup (r.members \X {r.group})
            /\ \A u \in r.members : Exists(u)
            /\ groups[r.group] # NoRole
        BY <2>4 DEF AddMembers, UpToDate
      <3>2. \A l \in links' : l \in links \/ (l[1] \in r.members /\ l[2] = r.group)
        BY <3>1
      <3>3. QED
        BY <3>1, <3>2 DEF NoOrphans, Exists
    <2>5. CASE RemoveMember(s)
      BY <2>5 DEF RemoveMember, NoOrphans, Exists
    <2>6. CASE IssuePat(s)
      <3>1. UNCHANGED <<users, groups, links>> /\ Exists(r.who)
        BY <2>6 DEF IssuePat, UpToDate
      <3>2. \A p \in PatIds : pats'[p] = pats[p] \/ pats'[p] = r.who
        BY <1>0, <2>6 DEF IssuePat
      <3>3. QED
        BY <3>1, <3>2 DEF NoOrphans, Exists
    <2>7. CASE RevokePat(s)
      <3>1. UNCHANGED <<users, groups, links>>
        BY <2>7 DEF RevokePat
      <3>2. \A p \in PatIds : pats'[p] = pats[p] \/ pats'[p] = 0
        BY <1>0, <2>7 DEF RevokePat
      <3>3. QED
        BY <3>1, <3>2 DEF NoOrphans, Exists
    <2>8. QED
      BY <1>2, <2>1, <2>2, <2>3, <2>4, <2>5, <2>6, <2>7 DEF TableActions
  <1>3. QED
    BY <1>1, <1>2

LEMMA SerialInvariance ==
    ASSUME OneSlot
    PROVE  Spec => []SerialInv
  <1>1. ASSUME Init PROVE SerialInv
    <2>1. \A s \in Slots : req[s].at = "idle" /\ req[s].members = {}
      BY <1>1 DEF Init, Idle
    <2>2. QED
      BY <1>1, <2>1 DEF Init, SerialInv, NoOrphans, UpToDate
  <1>2. ASSUME TypeInv, SerialInv, [Next]_vars
        PROVE  SerialInv'
    <2>1. CASE UNCHANGED vars
      BY <1>2, <2>1 DEF SerialInv, NoOrphans, UpToDate, Exists, vars
    <2>2. ASSUME NEW s \in Slots, Step(s) PROVE SerialInv'
      <3>1. \A t \in Slots : t = s
        BY DEF OneSlot
      <3>2. CASE TableActions(s)
        <4>1. req'[s] = Idle
          BY <1>2, <3>2 DEF TypeInv, TypeOK, TableActions, InsertUser,
             DeleteUser, SetActive, CreateGroup, UpdateGroup, DeleteGroup,
             AddMembers, RemoveMember, IssuePat, RevokePat, UpdateOidc, Respond
        <4>2. NoOrphans'
          BY <1>2, <3>2, WritesNoOrphans, ConstantsOK DEF SerialInv
        <4>3. QED
          BY <3>1, <4>1, <4>2, AnsweredUpToDate DEF SerialInv
      <3>3. CASE UNCHANGED tables
        <4>1. UpToDate(s)'
          BY <1>2, <2>2, <3>3, ReadsUpToDate, ConstantsOK DEF SerialInv
        <4>2. NoOrphans'
          BY <1>2, <3>3 DEF SerialInv, NoOrphans, Exists, tables
        <4>3. QED
          BY <3>1, <4>1, <4>2 DEF SerialInv
      <3>4. QED
        BY <2>2, <3>2, <3>3, StepKinds
    <2>3. QED
      BY <1>2, <2>1, <2>2 DEF Next
  <1>3. QED
    BY <1>1, <1>2, TypeInvariance, PTL DEF Spec

\* Served one after the other, requests leave no membership and no token that
\* names an account or a group that is gone: what add_members and
\* pat_service.create have looked up is still there when they insert.
THEOREM NothingDangles ==
    ASSUME OneSlot
    PROVE  Spec => []NoOrphans
  <1>1. SerialInv => NoOrphans
    BY DEF SerialInv
  <1>2. QED
    BY <1>1, SerialInvariance, PTL

\* A token disappears with its account or by a request of its owner: get_for_user
\* has found it to be the caller's, and its id cannot have changed hands since.
THEOREM RevokedByOwner ==
    ASSUME OneSlot
    PROVE  Spec => OnlyOwnerRevokes
  <1> DEFINE Allowed(p) ==
               \/ users'[pats[p]] = NoUser
               \/ \E s \in Slots : /\ req[s].op = "revoke_pat"
                                   /\ req[s].who = pats[p]
                                   /\ req'[s] # req[s]
  <1>1. ASSUME TypeInv, SerialInv, [Next]_vars,
               NEW p \in PatIds, pats[p] # 0, pats'[p] = 0
        PROVE  Allowed(p)
    <2>1. PICK s \in Slots : Step(s)
      BY <1>1 DEF Next, vars
    <2>2. TableActions(s)
      BY <1>1, <2>1, StepKinds DEF tables
    <2>3. /\ pats \in [PatIds -> UserIds \cup {0}] /\ StageOK(req[s])
          /\ users \in [UserIds -> UserRow \cup {NoUser}] /\ UpToDate(s)
          /\ req \in [Slots -> Request]
      BY <1>1 DEF TypeInv, TypeOK, SerialInv
    <2>4. CASE DeleteUser(s)
      BY <1>1, <2>3, <2>4 DEF DeleteUser
    <2>5. CASE RevokePat(s)
      <3>1. /\ p = req[s].pat /\ req[s].op = "revoke_pat"
            /\ req[s].who = pats[p]
        BY <1>1, <2>3, <2>5 DEF RevokePat, UpToDate, StageOK
      <3>2. req'[s].at = "idle" /\ req[s].at = "revoke"
        BY <2>3, <2>5 DEF RevokePat, Respond, Idle
      <3>3. QED
        BY <3>1, <3>2
    <2>6. CASE IssuePat(s)
      <3>1. req[s].who # 0
        BY <2>3, <2>6 DEF IssuePat, StageOK, UserIds
      <3>2. QED
        BY <1>1, <2>3, <2>6, <3>1 DEF IssuePat
    <2>7. CASE UNCHANGED pats
      BY <1>1, <2>7
    <2>8. QED
      BY <2>2, <2>4, <2>5, <2>6, <2>7 DEF TableActions, InsertUser, SetActive,
         CreateGroup, UpdateGroup, DeleteGroup, AddMembers, RemoveMember,
         UpdateOidc
  <1>2. TypeInv /\ SerialInv /\ [Next]_vars =>
          [\A p \in PatIds : pats[p] # 0 /\ pats'[p] = 0 => Allowed(p)]_vars
    BY <1>1
  <1>3. QED
    BY <1>2, TypeInvariance, SerialInvariance, PTL DEF Spec, OnlyOwnerRevokes

\* No request changes the name, the provider or the role of a local account:
\* upsert_oidc_user writes to the account it has found to be the provider's.
THEOREM NamespacesApart ==
    ASSUME OneSlot
    PROVE  Spec => LocalAccountKept
  <1> DEFINE Same(u) == users'[u] = [users[u] EXCEPT !.active = users'[u].active]
  <1>1. ASSUME TypeInv, SerialInv, [Next]_vars,
               NEW u \in UserIds, users[u].provider = "local", Exists(u)'
        PROVE  Same(u)
    <2>1. users \in [UserIds -> UserRow \cup {NoUser}] /\ users[u] \in UserRow
      BY <1>1 DEF TypeInv, TypeOK, NoUser
    <2>2. CASE users'[u] = users[u]
      BY <2>1, <2>2 DEF UserRow
    <2>3. CASE users'[u] # users[u]
      <3>1. PICK s \in Slots : Step(s)
        BY <1>1, <2>3 DEF Next, vars
      <3>2. TableActions(s)
        BY <2>3, <3>1, StepKinds DEF tables
      <3>3. StageOK(req[s]) /\ UpToDate(s)
        BY <1>1 DEF TypeInv, SerialInv
      <3>4. ~InsertUser(s)
        <4>1. Exists(u)
          BY <1>1 DEF Exists, NoUser
        <4>2. ASSUME NEW v \in UserIds, NewRowId(v, {w \in UserIds : Exists(w)})
              PROVE  v # u
          BY <4>1, <4>2 DEF NewRowId, UserIds
        <4>3. QED
          BY <2>1, <2>3, <4>2 DEF InsertUser, InsertRow
      <3>5. ~DeleteUser(s)
        BY <1>1, <2>1, <2>3 DEF DeleteUser, Exists
      <3>6. ~UpdateOidc(s)
        <4>1. UpdateOidc(s) => req[s].who # u
          BY <1>1, <3>3 DEF UpdateOidc, UpToDate
        <4>2. QED
          BY <2>1, <2>3, <4>1 DEF UpdateOidc
      <3>7. SetActive(s)
        BY <2>3, <3>2, <3>4, <3>5, <3>6 DEF TableActions, CreateGroup,
           UpdateGroup, DeleteGroup, AddMembers, RemoveMember, IssuePat, RevokePat
      <3>8. PICK a : users' = [users EXCEPT ![req[s].who].active = a]
        BY <2>3, <3>7 DEF SetActive
      <3>9. users'[u] = [users[u] EXCEPT !.active = a]
        BY <2>1, <2>3, <3>8
      <3>10. QED
        BY <2>1, <3>9 DEF UserRow
    <2>4. QED
      BY <2>2, <2>3
  <1>2. TypeInv /\ SerialInv /\ [Next]_vars =>
          [\A u \in UserIds : users[u].provider = "local" /\ Exists(u)' => Same(u)]_vars
    BY <1>1
  <1>3. QED
    BY <1>2, TypeInvariance, SerialInvariance, PTL DEF Spec, LocalAccountKept

\* An account that a request creates has no privilege and no token, although
\* its id may be that of a deleted one: nothing names an id that is free.
THEOREM BornGuest ==
    ASSUME OneSlot
    PROVE  Spec => NewAccountIsGuest
  <1> DEFINE Bare(u) == EffectiveRole(u)' = "guest" /\ PatsOf(u)' = {}
  <1>1. ASSUME TypeInv, SerialInv, [Next]_vars, NEW s \in Slots, NEW u \in UserIds,
               req[s].op = "create_user", ~Exists(u), Exists(u)'
        PROVE  Bare(u)
    <2>1. Step(s)
      BY <1>1 DEF Next, vars, Exists, OneSlot
    <2>2. TableActions(s)
      BY <1>1, <2>1, StepKinds DEF tables, Exists
    <2>3. users \in [UserIds -> UserRow \cup {NoUser}]
      BY <1>1 DEF TypeInv, TypeOK
    <2>4. InsertUser(s)
      BY <1>1, <2>2, <2>3 DEF TableActions, DeleteUser, SetActive, UpdateOidc,
         CreateGroup, UpdateGroup, DeleteGroup, AddMembers, RemoveMember,
         IssuePat, RevokePat, Exists
    <2>5. users'[u] = NewRow(req[s]) /\ UNCHANGED <<groups, links, pats>>
      BY <1>1, <2>3, <2>4 DEF InsertUser, InsertRow, Exists
    <2>6. users'[u].role = "guest"
      BY <1>1, <2>5 DEF NewRow
    <2>7. /\ \A l \in links : l[1] # u
          /\ \A p \in PatIds : pats[p] # u
      BY <1>1 DEF SerialInv, NoOrphans, UserIds
    <2>8. GrantedRoles(u)' = {}
      BY <2>5, <2>7 DEF GrantedRoles
    <2>9. EffectiveRole(u)' = "guest"
      BY <2>6, <2>8 DEF EffectiveRole, ResolveRole, HighestRole
    <2>10. QED
      BY <2>5, <2>7, <2>9 DEF PatsOf
  <1>2. TypeInv /\ SerialInv /\ [Next]_vars =>
          [\A s \in Slots, u \in UserIds :
             req[s].op = "create_user" /\ ~Exists(u) /\ Exists(u)' => Bare(u)]_vars
    BY <1>1
  <1>3. QED
    BY <1>2, TypeInvariance, SerialInvariance, PTL DEF Spec, NewAccountIsGuest

\* Served one after the other, requests never take an account beyond
\* pat_max_per_user.
THEOREM PatLimitSerial ==
    ASSUME OneSlot
    PROVE  Spec => []PatLimit
  <1>1. Cardinality(Slots) = 1
    <2>1. PICK s \in Slots : Slots = {s}
      BY ConstantsOK DEF OneSlot, ConstantsOK
    <2>2. QED
      BY <2>1, FS_Singleton
  <1>2. PatLimitSlack => PatLimit
    <2>1. \A u \in UserIds : Cardinality(PatsOf(u)) \in Nat /\ MaxPats \in Nat
      BY FiniteSides, ConstantsOK DEF ConstantsOK
    <2>2. QED
      BY <1>1, <2>1 DEF PatLimitSlack, PatLimit
  <1>3. QED
    BY <1>2, PatBurst, PTL
=============================================================================
