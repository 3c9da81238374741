------------------------ MODULE PendingRestartProofs ------------------------
(***************************************************************************)
(* What holds of the list of pending restarts for any number of requests   *)
(* and areas: one row per area, saves that end up listed, restarts that    *)
(* take off the list what they applied.                                    *)
(*                                                                         *)
(* The last two rest on MetOK: of two requests in flight each has met the  *)
(* other, whichever came first.  A request that has met no save therefore  *)
(* runs beside none, and what it found out about the files stays true.     *)
(***************************************************************************)
EXTENDS PendingRestart, TLAPS

Saves == {"save", "set_sieve"}
Clearers == {"restart", "dismiss", "dismiss_all"}

\* Each stage belongs to an operation that has it, and only what has been
\* answered is ok.
StageOK(r) ==
    /\ r.op = "none" <=> r.at = "idle"
    /\ r.at \in {"write", "find", "mark"} => r.op \in Saves /\ r.area \in Areas
    /\ r.at = "reboot" => r.op = "restart"
    /\ r.at \in {"list", "clear"} => r.op \in Clearers
    /\ r.op # "none" => ~r.ok

Typed == TypeOK /\ \A s \in Slots : StageOK(req[s])

\* Requests that are in flight together have met.
MetOK ==
    \A s, t \in Slots :
        s # t /\ req[s].op # "none" /\ req[t].op # "none" => req[t].op \in req[s].met

\* A row that a save has found is still there, as long as it meets saves only.
FoundStays ==
    \A s \in Slots :
        req[s].at = "mark" /\ req[s].met \subseteq Saves /\ req[s].seen # {}
            => req[s].area \in Listed

\* Once the container has started again, a restart that meets no save finds
\* every file read.
NothingStale ==
    \A s \in Slots :
        /\ req[s].op = "restart" /\ req[s].at \in {"list", "clear"}
        /\ req[s].met \cap Saves = {}
        => stale = {}

-----------------------------------------------------------------------------
(* Types *)

\* Every step of a request but its arrival replaces its own record, by one of
\* the same operation or by that of an answered request.
LEMMA OwnRecord ==
    ASSUME Typed, NEW s \in Slots, Step(s), ~Arrive(s)
    PROVE  \E r \in Request :
             /\ req' = [req EXCEPT ![s] = r]
             /\ StageOK(r)
             /\ \/ r.op = "none"
                \/ r.op = req[s].op /\ r.met = req[s].met /\ r.area = req[s].area
<1> DEFINE r == req[s]
<1>1. r \in Request /\ StageOK(r)
  BY DEF Typed, TypeOK
<1>2. ASSUME NEW ok \in BOOLEAN, Answer(s, ok)
      PROVE  \E q \in Request : /\ req' = [req EXCEPT ![s] = q] /\ StageOK(q)
                                /\ q.op = "none"
  <2>1. [Idle EXCEPT !.ok = ok] \in Request /\ StageOK([Idle EXCEPT !.ok = ok])
    BY DEF Idle, Request, StageOK, AllOps, Stages
  <2> QED BY <1>2, <2>1 DEF Answer, Go, Idle
<1>3. ASSUME NEW at \in Stages, NEW seen \in SUBSET Ids, Go(s, [r EXCEPT !.at = at, !.seen = seen]),
             StageOK([r EXCEPT !.at = at, !.seen = seen])
      PROVE  \E q \in Request : /\ req' = [req EXCEPT ![s] = q] /\ StageOK(q)
                                /\ q.op = r.op /\ q.met = r.met /\ q.area = r.area
  <2>1. [r EXCEPT !.at = at, !.seen = seen] \in Request
    BY <1>1 DEF Request
  <2> QED BY <1>1, <1>3, <2>1 DEF Go, Request
<1>4. CASE Write(s)
  <2>1. CASE Answer(s, TRUE) \/ Answer(s, FALSE)
    BY <1>2, <2>1
  <2>2. CASE r.op = "save" /\ Go(s, [r EXCEPT !.at = "find"])
    <3>1. [r EXCEPT !.at = "find"] = [r EXCEPT !.at = "find", !.seen = r.seen]
      BY <1>1 DEF Request
    <3>2. StageOK([r EXCEPT !.at = "find"])
      BY <1>1, <1>4 DEF Write, StageOK, Request
    <3> QED BY <1>1, <1>3, <2>2, <3>1, <3>2 DEF Request, Stages
  <2> QED BY <1>4, <2>1, <2>2 DEF Write
<1>5. CASE FindRow(s)
  <2> DEFINE found == {i \in Ids : rows[i] = r.area}
  <2>1. StageOK([r EXCEPT !.at = "mark", !.seen = found])
    BY <1>1, <1>5 DEF FindRow, StageOK, Request
  <2> QED BY <1>3, <1>5, <2>1 DEF FindRow, Stages
<1>6. CASE Mark(s) \/ Clear(s)
  BY <1>2, <1>6 DEF Mark, Clear
<1>7. CASE Reboot(s)
  <2>1. CASE Answer(s, FALSE)
    BY <1>2, <2>1
  <2>2. CASE Go(s, [r EXCEPT !.at = "list"])
    <3>1. [r EXCEPT !.at = "list"] = [r EXCEPT !.at = "list", !.seen = r.seen]
      BY <1>1 DEF Request
    <3>2. StageOK([r EXCEPT !.at = "list"])
      BY <1>1, <1>7 DEF Reboot, StageOK, Request, Clearers
    <3> QED BY <1>1, <1>3, <2>2, <3>1, <3>2 DEF Request, Stages
  <2> QED BY <1>7, <2>1, <2>2 DEF Reboot
<1>8. CASE ListRows(s)
  <2>1. PICK found \in SUBSET Ids : Go(s, [r EXCEPT !.at = "clear", !.seen = found])
    BY <1>8 DEF ListRows, Rows
  <2>2. StageOK([r EXCEPT !.at = "clear", !.seen = found])
    BY <1>1, <1>8 DEF ListRows, StageOK, Request
  <2> QED BY <1>3, <2>1, <2>2 DEF Stages
<1>9. CASE Fail(s)
  BY <1>2, <1>9 DEF Fail
<1>10. CASE Crash(s)
  <2>1. Idle \in Request /\ StageOK(Idle) /\ Idle.op = "none"
    BY DEF Idle, Request, StageOK, AllOps, Stages
  <2> QED BY <1>10, <2>1 DEF Crash, Go
<1> QED
  BY <1>4, <1>5, <1>6, <1>7, <1>8, <1>9, <1>10 DEF Step

\* The record a request arrives with.
Newcomer(r) ==
    /\ r \in Request /\ StageOK(r) /\ r.op # "none"
    /\ r.at \in {"write", "reboot", "list"}
    /\ r.op = "restart" => r.at = "reboot"

\* An arrival is the admission of such a record to an idle slot.
LEMMA Arrival ==
    ASSUME NEW s \in Slots, Arrive(s)
    PROVE  \E r : Newcomer(r) /\ Admit(s, r) /\ req[s].op = "none" /\ UNCHANGED <<stale, rows>>
<1> USE DEF Newcomer, Idle, Request, StageOK, AllOps, Stages, Saves, Clearers
<1>1. CASE \E op \in Ops \cap {"save", "set_sieve"}, a \in Areas :
             Admit(s, [Idle EXCEPT !.op = op, !.at = "write", !.area = a])
  <2>1. PICK op \in {"save", "set_sieve"}, a \in Areas :
          Admit(s, [Idle EXCEPT !.op = op, !.at = "write", !.area = a])
    BY <1>1
  <2>2. Newcomer([Idle EXCEPT !.op = op, !.at = "write", !.area = a])
    OBVIOUS
  <2> QED BY <2>1, <2>2 DEF Arrive
<1>2. CASE Admit(s, [Idle EXCEPT !.op = "restart", !.at = "reboot"])
  <2>1. Newcomer([Idle EXCEPT !.op = "restart", !.at = "reboot"])
    OBVIOUS
  <2> QED BY <1>2, <2>1 DEF Arrive
<1>3. CASE \E a \in Areas : Admit(s, [Idle EXCEPT !.op = "dismiss", !.at = "list", !.area = a])
  <2>1. PICK a \in Areas : Admit(s, [Idle EXCEPT !.op = "dismiss", !.at = "list", !.area = a])
    BY <1>3
  <2>2. Newcomer([Idle EXCEPT !.op = "dismiss", !.at = "list", !.area = a])
    OBVIOUS
  <2> QED BY <2>1, <2>2 DEF Arrive
<1>4. CASE Admit(s, [Idle EXCEPT !.op = "dismiss_all", !.at = "list"])
  <2>1. Newcomer([Idle EXCEPT !.op = "dismiss_all", !.at = "list"])
    OBVIOUS
  <2> QED BY <1>4, <2>1 DEF Arrive
<1> QED BY <1>1, <1>2, <1>3, <1>4 DEF Arrive

\* Two records of a request that differ at most in what it has met.
Alike(q, r) == /\ q.op = r.op /\ q.at = r.at /\ q.area = r.area
               /\ q.seen = r.seen /\ q.ok = r.ok

\* Admission gives the slot its record, leaves every other request where it is,
\* and has them all meet each other.
LEMMA Admission ==
    ASSUME Typed, NEW s \in Slots, NEW r, Newcomer(r), Admit(s, r), req[s].op = "none"
    PROVE  /\ req' \in [Slots -> Request]
           /\ Alike(req'[s], r)
           /\ \A t \in Slots \ {s} : /\ Alike(req'[t], req[t])
                                     /\ req[t].met \subseteq req'[t].met
                                     /\ req[t].op # "none" => /\ r.op \in req'[t].met
                                                              /\ req[t].op \in req'[s].met
<1> DEFINE active == {t \in Slots : req[t].op # "none"}
           now == [r EXCEPT !.met = {req[u].op : u \in active}]
           Then(t) == [req[t] EXCEPT !.met = @ \cup {r.op}]
<1>1. \A t \in Slots : req[t] \in Request
  BY DEF Typed, TypeOK
<1>2. r \in Request /\ r.op \in AllOps
  BY DEF Newcomer, Request
<1>3. \A u \in active : req[u].op \in AllOps
  BY <1>1 DEF Request
<1>4. now \in Request /\ Alike(now, r) /\ now.met = {req[u].op : u \in active}
  <2>1. {req[u].op : u \in active} \in SUBSET AllOps
    BY <1>3
  <2> HIDE DEF active
  <2> QED BY <1>2, <2>1 DEF Request, Alike
<1>5. ASSUME NEW t \in Slots
      PROVE  Then(t) \in Request /\ Alike(Then(t), req[t]) /\ Then(t).met = req[t].met \cup {r.op}
  BY <1>1, <1>2 DEF Request, Alike
<1>6. req' = [t \in Slots |-> IF t = s THEN now ELSE IF t \in active THEN Then(t) ELSE req[t]]
  BY DEF Admit
<1> HIDE DEF now, Then
<1>7. req' \in [Slots -> Request]
  BY <1>1, <1>4, <1>5, <1>6
<1>8. Alike(req'[s], r) /\ req'[s].met = {req[u].op : u \in active}
  BY <1>4, <1>6
<1>9. ASSUME NEW t \in Slots \ {s}
      PROVE  /\ Alike(req'[t], req[t])
             /\ req[t].met \subseteq req'[t].met
             /\ req[t].op # "none" => /\ r.op \in req'[t].met
                                      /\ req[t].op \in req'[s].met
  <2>1. CASE t \in active
    <3>1. req'[t] = Then(t)
      BY <1>6, <2>1
    <3> QED BY <1>5, <1>8, <2>1, <3>1
  <2>2. CASE t \notin active
    <3>1. req'[t] = req[t]
      BY <1>6, <2>2
    <3> QED BY <2>2, <3>1 DEF Alike
  <2> QED BY <2>1, <2>2
<1> QED BY <1>7, <1>8, <1>9

\* A step that is no arrival leaves the other requests alone.
LEMMA OthersKeep ==
    ASSUME Typed, NEW s \in Slots, Step(s), ~Arrive(s), NEW t \in Slots, t # s
    PROVE  req'[t] = req[t]
BY OwnRecord DEF Typed, TypeOK

\* An answered request leaves its slot idle.
LEMMA Answered ==
    ASSUME Typed, NEW s \in Slots
    PROVE  /\ \A ok \in BOOLEAN : Answer(s, ok) => req'[s].at = "idle" /\ req'[s].ok = ok
           /\ Go(s, Idle) => req'[s].at = "idle" /\ ~req'[s].ok
<1>1. ASSUME NEW ok \in BOOLEAN
      PROVE  [Idle EXCEPT !.ok = ok].at = "idle" /\ [Idle EXCEPT !.ok = ok].ok = ok
  BY DEF Idle
<1>2. Idle.at = "idle" /\ ~Idle.ok
  BY DEF Idle
<1> QED BY <1>1, <1>2 DEF Answer, Go, Typed, TypeOK

LEMMA TypedInit == Init => Typed
<1> SUFFICES ASSUME Init PROVE Typed
  OBVIOUS
<1>1. Idle \in Request /\ StageOK(Idle)
  BY DEF Idle, Request, StageOK, AllOps, Stages
<1>2. stale \subseteq Areas /\ rows \in [Ids -> Areas \cup {NoArea}]
  BY DEF Init
<1> QED BY <1>1, <1>2 DEF Init, Typed, TypeOK

\* What the steps do to the files and to the table keeps their types.
LEMMA TypedData ==
    ASSUME Typed, NEW s \in Slots, Step(s)
    PROVE  stale' \subseteq Areas /\ rows' \in [Ids -> Areas \cup {NoArea}]
<1> USE DEF Typed, TypeOK
<1>1. CASE Write(s)
  BY <1>1 DEF Write, StageOK
<1>2. CASE Mark(s)
  <2>1. req[s].area \in Areas
    BY <1>2 DEF Mark, StageOK
  <2> QED BY <1>2, <2>1 DEF Mark
<1>3. CASE Reboot(s)
  BY <1>3 DEF Reboot
<1>4. CASE Clear(s)
  BY <1>4 DEF Clear
<1> QED BY <1>1, <1>2, <1>3, <1>4 DEF Step, Arrive, FindRow, ListRows, Fail, Crash

LEMMA TypedStep == Typed /\ [Next]_vars => Typed'
<1> SUFFICES ASSUME Typed, [Next]_vars PROVE Typed'
  OBVIOUS
<1>1. CASE UNCHANGED <<rows, req>> /\ stale' \subseteq Areas
  BY <1>1 DEF Typed, TypeOK
<1>2. ASSUME NEW s \in Slots, Arrive(s) PROVE Typed'
  <2>1. PICK r : Newcomer(r) /\ Admit(s, r) /\ req[s].op = "none" /\ UNCHANGED <<stale, rows>>
    BY <1>2, Arrival
  <2>2. req' \in [Slots -> Request] /\ Alike(req'[s], r)
    BY <2>1, Admission
  <2>3. \A t \in Slots \ {s} : Alike(req'[t], req[t])
    BY <2>1, Admission
  <2>4. ASSUME NEW t \in Slots PROVE StageOK(req'[t])
    BY <2>1, <2>2, <2>3 DEF Typed, Newcomer, Alike, StageOK
  <2> QED BY <2>1, <2>2, <2>4 DEF Typed, TypeOK
<1>3. ASSUME NEW s \in Slots, Step(s), ~Arrive(s) PROVE Typed'
  <2>1. PICK r \in Request : req' = [req EXCEPT ![s] = r] /\ StageOK(r)
    BY <1>3, OwnRecord
  <2>2. req' \in [Slots -> Request] /\ \A t \in Slots : StageOK(req'[t])
    BY <2>1 DEF Typed, TypeOK
  <2> QED BY <1>3, <2>2, TypedData DEF Typed, TypeOK
<1>4. CASE RestartOutside \/ UNCHANGED vars
  BY <1>1, <1>4 DEF RestartOutside, vars, Typed, TypeOK
<1> QED BY <1>2, <1>3, <1>4 DEF Next

\* TypeOK: `stale` holds areas, the table areas or gaps, and each slot a request
\* at a stage of its operation (mark_restart_required, restart_mailserver,
\* PendingActionService).
THEOREM Types == Spec => []TypeOK
<1>1. Spec => []Typed
  BY TypedInit, TypedStep, PTL DEF Spec
<1>2. Typed => TypeOK
  BY DEF Typed
<1> QED BY <1>1, <1>2, PTL

-----------------------------------------------------------------------------
(* One row per area *)

LEMMA OneRowStep == Typed /\ OneRowPerArea /\ [Next]_vars => OneRowPerArea'
<1> SUFFICES ASSUME Typed, OneRowPerArea, [Next]_vars PROVE OneRowPerArea'
  OBVIOUS
<1>1. CASE UNCHANGED rows
  BY <1>1 DEF OneRowPerArea, Rows
<1>2. ASSUME NEW s \in Slots, Mark(s), ~UNCHANGED rows PROVE OneRowPerArea'
  <2> DEFINE a == req[s].area
  <2>1. a \notin Listed /\ a # NoArea
    BY <1>2, ConstantsOK DEF Mark, Typed, StageOK
  <2>2. PICK i \in Ids : rows' = [rows EXCEPT ![i] = a]
    BY <1>2 DEF Mark
  <2>3. rows \in [Ids -> Areas \cup {NoArea}]
    BY DEF Typed, TypeOK
  <2> HIDE DEF a
  <2> QED BY <2>1, <2>2, <2>3 DEF OneRowPerArea, Rows, Listed
<1>3. ASSUME NEW s \in Slots, Clear(s) PROVE OneRowPerArea'
  BY <1>3 DEF Clear, OneRowPerArea, Rows
<1> QED
  BY <1>1, <1>2, <1>3
  DEF Next, Step, RestartOutside, Arrive, Write, FindRow, Reboot, ListRows, Fail, Crash, vars

\* OneRowPerArea: no two rows of the table are about the same area, whatever
\* requests overlap and fail, although a save looks the row up in one statement
\* and inserts it in another.
THEOREM OneRow == Spec => []OneRowPerArea
<1>1. Init => OneRowPerArea
  BY DEF Init, OneRowPerArea, Rows
<1>2. Spec => []Typed
  BY TypedInit, TypedStep, PTL DEF Spec
<1> QED BY <1>1, <1>2, OneRowStep, PTL DEF Spec

-----------------------------------------------------------------------------
(* Meetings *)

LEMMA MetStep == Typed /\ MetOK /\ [Next]_vars => MetOK'
<1> SUFFICES ASSUME Typed, MetOK, [Next]_vars PROVE MetOK'
  OBVIOUS
<1>1. ASSUME NEW s \in Slots, Arrive(s) PROVE MetOK'
  <2>1. PICK r : Newcomer(r) /\ Admit(s, r) /\ req[s].op = "none"
    BY <1>1, Arrival
  <2>2. /\ Alike(req'[s], r)
        /\ \A t \in Slots \ {s} : /\ Alike(req'[t], req[t])
                                  /\ req[t].met \subseteq req'[t].met
                                  /\ req[t].op # "none" => /\ r.op \in req'[t].met
                                                           /\ req[t].op \in req'[s].met
    BY <2>1, Admission
  <2>3. SUFFICES ASSUME NEW t \in Slots, NEW u \in Slots, t # u,
                        req'[t].op # "none", req'[u].op # "none"
                 PROVE  req'[u].op \in req'[t].met
    BY DEF MetOK
  <2>4. CASE t = s
    BY <2>2, <2>3, <2>4 DEF Alike
  <2>5. CASE u = s
    BY <2>2, <2>3, <2>5 DEF Alike
  <2>6. CASE t # s /\ u # s
    BY <2>2, <2>3, <2>6 DEF Alike, MetOK
  <2> QED BY <2>4, <2>5, <2>6
<1>2. ASSUME NEW s \in Slots, Step(s), ~Arrive(s) PROVE MetOK'
  <2>1. PICK r \in Request : /\ req' = [req EXCEPT ![s] = r]
                             /\ r.op = "none" \/ (r.op = req[s].op /\ r.met = req[s].met)
    BY <1>2, OwnRecord
  <2> QED BY <2>1 DEF MetOK, Typed, TypeOK
<1>3. CASE UNCHANGED req
  BY <1>3 DEF MetOK
<1> QED BY <1>1, <1>2, <1>3 DEF Next, RestartOutside, vars

\* A request that has met only operations of `kinds` runs beside no other.
LEMMA Beside ==
    ASSUME MetOK, NEW s \in Slots, NEW t \in Slots, s # t, NEW kinds,
           req[s].op # "none", req[s].met \subseteq kinds, req[t].op # "none"
    PROVE  req[t].op \in kinds
BY DEF MetOK

-----------------------------------------------------------------------------
(* Saves *)

LEMMA FoundStep == Typed /\ MetOK /\ FoundStays /\ [Next]_vars => FoundStays'
<1> SUFFICES ASSUME Typed, MetOK, FoundStays, [Next]_vars,
                    NEW s \in Slots, req'[s].at = "mark", req'[s].met \subseteq Saves,
                    req'[s].seen # {}
             PROVE  req'[s].area \in Listed'
  BY DEF FoundStays
<1>1. ASSUME NEW t \in Slots, Arrive(t) PROVE req'[s].area \in Listed'
  <2>1. PICK r : Newcomer(r) /\ Admit(t, r) /\ req[t].op = "none" /\ UNCHANGED <<stale, rows>>
    BY <1>1, Arrival
  <2>2. /\ Alike(req'[t], r)
        /\ \A u \in Slots \ {t} : Alike(req'[u], req[u]) /\ req[u].met \subseteq req'[u].met
    BY <2>1, Admission
  <2>3. s # t
    BY <2>1, <2>2 DEF Alike, Newcomer
  <2>4. /\ req[s].at = "mark" /\ req[s].met \subseteq Saves /\ req[s].seen # {}
        /\ req[s].area = req'[s].area
    BY <2>2, <2>3 DEF Alike
  <2> QED BY <2>1, <2>4 DEF FoundStays, Listed, Rows
<1>2. ASSUME NEW t \in Slots, Step(t), ~Arrive(t), t # s PROVE req'[s].area \in Listed'
  <2>1. req'[s] = req[s]
    BY <1>2, OthersKeep
  <2>2. req[s].area \in Listed
    BY <2>1 DEF FoundStays
  <2>3. ~Clear(t)
    <3>1. SUFFICES ASSUME Clear(t) PROVE FALSE
      OBVIOUS
    <3>2. req[t].op \in Clearers /\ req[t].op # "none"
      BY <3>1 DEF Clear, Typed, StageOK, Clearers
    <3>3. req[s].op # "none"
      BY <2>1 DEF Typed, StageOK
    <3>4. req[t].op \in Saves
      BY <1>2, <2>1, <3>2, <3>3, Beside
    <3> QED BY <3>2, <3>4 DEF Saves, Clearers
  <2>4. CASE UNCHANGED rows
    BY <2>1, <2>2, <2>4 DEF Listed, Rows
  <2>5. CASE Mark(t) /\ ~UNCHANGED rows
    <3>1. PICK i \in Ids : rows' = [rows EXCEPT ![i] = req[t].area] /\ i \notin Rows
      BY <2>5 DEF Mark, NewId, Rows, Ids
    <3>2. PICK j \in Rows : rows[j] = req[s].area
      BY <2>2 DEF Listed
    <3>3. j \in Ids /\ rows'[j] = rows[j] /\ rows[j] # NoArea
      BY <3>1, <3>2 DEF Rows, Typed, TypeOK
    <3> QED BY <2>1, <3>2, <3>3 DEF Listed, Rows
  <2> QED BY <1>2, <2>3, <2>4, <2>5
          DEF Step, Write, FindRow, Reboot, ListRows, Fail, Crash
<1>3. ASSUME Step(s), ~Arrive(s) PROVE req'[s].area \in Listed'
  <2>1. FindRow(s)
    <3>1. ASSUME NEW at \in Stages, NEW seen, Go(s, [req[s] EXCEPT !.at = at, !.seen = seen])
                     \/ Go(s, [req[s] EXCEPT !.at = at])
          PROVE  at = "mark"
      BY <3>1 DEF Go, Typed, TypeOK, Request
    <3>2. ~Answer(s, TRUE) /\ ~Answer(s, FALSE) /\ ~Go(s, Idle)
      BY Answered
    <3>3. ~Write(s) /\ ~Reboot(s)
      BY <3>1, <3>2 DEF Write, Reboot, Stages
    <3>4. ~ListRows(s)
      BY <3>1 DEF ListRows, Stages
    <3> QED BY <1>3, <3>2, <3>3, <3>4 DEF Step, Mark, Clear, Fail, Crash
  <2>2. /\ req'[s].seen = {i \in Ids : rows[i] = req[s].area}
        /\ req'[s].area = req[s].area /\ req[s].area \in Areas
    BY <2>1 DEF FindRow, Go, Typed, TypeOK, Request, StageOK
  <2>3. PICK i \in Ids : rows[i] = req[s].area
    BY <2>2
  <2> QED BY <2>1, <2>2, <2>3, ConstantsOK DEF FindRow, Listed, Rows
<1>4. CASE RestartOutside \/ UNCHANGED vars
  BY <1>4 DEF RestartOutside, vars, FoundStays, Listed, Rows
<1> QED BY <1>1, <1>2, <1>3, <1>4 DEF Next

\* What a save is answered with: only Mark, of its own slot, answers that it went
\* well, and after Mark its area is on the list.
LEMMA SaveStep ==
    ASSUME Typed, FoundStays, [Next]_vars, NEW s \in Slots,
           req[s].op = "save", req'[s].ok, req[s].met \subseteq Saves
    PROVE  req[s].area \in Listed'
<1>1. ~req[s].ok
  BY DEF Typed, StageOK
<1>2. PICK t \in Slots : Step(t)
  BY <1>1 DEF Next, RestartOutside, vars
<1>3. ~Arrive(t)
  <2>1. SUFFICES ASSUME Arrive(t) PROVE FALSE
    OBVIOUS
  <2>2. PICK r : Newcomer(r) /\ Admit(t, r) /\ req[t].op = "none"
    BY <2>1, Arrival
  <2>3. s # t /\ Alike(req'[s], req[s])
    BY <2>2, Admission
  <2> QED BY <1>1, <2>3 DEF Alike
<1>4. s = t
  BY <1>1, <1>2, <1>3, OthersKeep
<1>5. Mark(s)
  <2>1. ~Answer(s, FALSE) /\ ~Go(s, Idle)
    BY Answered
  <2>2. ASSUME NEW at, NEW seen
        PROVE  /\ ~Go(s, [req[s] EXCEPT !.at = at, !.seen = seen])
               /\ ~Go(s, [req[s] EXCEPT !.at = at])
    BY <1>1 DEF Go, Typed, TypeOK, Request
  <2>3. ~Clear(s)
    BY DEF Clear, Typed, StageOK, Clearers
  <2>4. ~Write(s) /\ ~Reboot(s) /\ ~FindRow(s) /\ ~ListRows(s)
    BY <2>1, <2>2 DEF Write, Reboot, FindRow, ListRows
  <2> QED BY <1>2, <1>3, <1>4, <2>1, <2>3, <2>4 DEF Step, Fail, Crash
<1>6. CASE req[s].seen # {} \/ req[s].area \in Listed
  <2>1. req[s].area \in Listed /\ UNCHANGED rows
    BY <1>5, <1>6 DEF Mark, FoundStays
  <2> QED BY <2>1 DEF Listed, Rows
<1>7. CASE ~(req[s].seen # {} \/ req[s].area \in Listed)
  <2>1. PICK i \in Ids : rows' = [rows EXCEPT ![i] = req[s].area]
    BY <1>5, <1>7 DEF Mark
  <2>2. req[s].area # NoArea
    BY <1>5, ConstantsOK DEF Mark, Typed, StageOK
  <2>3. rows'[i] = req[s].area
    BY <2>1 DEF Typed, TypeOK
  <2> QED BY <2>2, <2>3 DEF Listed, Rows
<1> QED BY <1>6, <1>7

\* SaveRegisters: a save that other saves overlap at most is answered with its
\* area listed, whatever they do between its SELECT and its INSERT
\* (mark_restart_required).
THEOREM SavesRegister == Spec => SaveRegisters
<1>1. Init => MetOK /\ FoundStays
  BY DEF Init, Idle, MetOK, FoundStays
<1>2. Spec => [](Typed /\ MetOK /\ FoundStays)
  BY <1>1, TypedInit, TypedStep, MetStep, FoundStep, PTL DEF Spec
<1>3. Typed /\ FoundStays /\ [Next]_vars =>
        [\A s \in Slots :
           /\ req[s].op = "save" /\ req'[s].ok
           /\ req[s].met \subseteq {"save", "set_sieve"}
           => req[s].area \in Listed']_vars
  BY SaveStep DEF Saves
<1> QED BY <1>2, <1>3, PTL DEF Spec, SaveRegisters

-----------------------------------------------------------------------------
(* Restarts *)

LEMMA StaleStep == Typed /\ MetOK /\ NothingStale /\ [Next]_vars => NothingStale'
<1> SUFFICES ASSUME Typed, MetOK, NothingStale, [Next]_vars,
                    NEW s \in Slots, req'[s].op = "restart", req'[s].at \in {"list", "clear"},
                    req'[s].met \cap Saves = {}
             PROVE  stale' = {}
  BY DEF NothingStale
<1>1. ASSUME NEW t \in Slots, Arrive(t) PROVE stale' = {}
  <2>1. PICK r : Newcomer(r) /\ Admit(t, r) /\ req[t].op = "none" /\ UNCHANGED <<stale, rows>>
    BY <1>1, Arrival
  <2>2. /\ Alike(req'[t], r)
        /\ \A u \in Slots \ {t} : Alike(req'[u], req[u]) /\ req[u].met \subseteq req'[u].met
    BY <2>1, Admission
  <2>3. s # t
    BY <2>1, <2>2 DEF Alike, Newcomer
  <2>4. req[s].op = "restart" /\ req[s].at \in {"list", "clear"} /\ req[s].met \cap Saves = {}
    BY <2>2, <2>3 DEF Alike
  <2> QED BY <2>1, <2>4 DEF NothingStale
<1>2. ASSUME NEW t \in Slots, Step(t), ~Arrive(t), t # s PROVE stale' = {}
  <2>1. req'[s] = req[s]
    BY <1>2, OthersKeep
  <2>2. stale = {}
    BY <2>1 DEF NothingStale
  <2>3. ~Write(t)
    <3>1. SUFFICES ASSUME Write(t) PROVE FALSE
      OBVIOUS
    <3>2. req[t].op \in Saves /\ req[t].op # "none"
      BY <3>1 DEF Write, Typed, StageOK, Saves
    <3>3. req[t].op \in req[s].met
      BY <1>2, <2>1, <3>2 DEF MetOK
    <3> QED BY <2>1, <3>2, <3>3
  <2> QED BY <1>2, <2>2, <2>3
          DEF Step, FindRow, Mark, Reboot, ListRows, Clear, Fail, Crash
<1>3. ASSUME Step(s), ~Arrive(s) PROVE stale' = {}
  <2>1. req[s].op = "restart" /\ req[s].met = req'[s].met
    BY <1>3, OwnRecord DEF Typed, TypeOK
  <2>2. CASE Reboot(s)
    BY <2>2 DEF Reboot
  <2>3. CASE ListRows(s) \/ Clear(s)
    <3>1. req[s].at \in {"list", "clear"} /\ UNCHANGED stale
      BY <2>3 DEF ListRows, Clear
    <3> QED BY <2>1, <3>1 DEF NothingStale
  <2>4. ~Write(s) /\ ~FindRow(s) /\ ~Mark(s)
    BY <2>1 DEF Write, FindRow, Mark, Typed, StageOK, Saves
  <2>5. ~Fail(s) /\ ~Crash(s)
    BY Answered DEF Fail, Crash
  <2> QED BY <1>3, <2>2, <2>3, <2>4, <2>5 DEF Step
<1>4. CASE RestartOutside \/ UNCHANGED vars
  BY <1>4 DEF RestartOutside, vars, NothingStale
<1> QED BY <1>1, <1>2, <1>3, <1>4 DEF Next

\* Rows are deleted by Clear only.
LEMMA OnlyClears ==
    ASSUME Typed, NEW t \in Slots, Step(t), ~Clear(t)
    PROVE  Listed \subseteq Listed'
<1>1. CASE UNCHANGED rows
  BY <1>1 DEF Listed, Rows
<1>2. CASE Mark(t) /\ ~UNCHANGED rows
  <2>1. PICK i \in Ids : rows' = [rows EXCEPT ![i] = req[t].area] /\ i \notin Rows
    BY <1>2 DEF Mark, NewId, Rows, Ids
  <2>2. ASSUME NEW j \in Rows PROVE rows[j] \in Listed'
    <3>1. j \in Ids /\ rows'[j] = rows[j] /\ rows[j] # NoArea
      BY <2>1, <2>2 DEF Rows, Typed, TypeOK
    <3> QED BY <3>1 DEF Listed, Rows
  <2> QED BY <2>2 DEF Listed
<1> QED BY <1>1, <1>2 DEF Step, Arrive, Write, FindRow, Reboot, ListRows, Fail, Crash

LEMMA RestartStep ==
    ASSUME Typed, NothingStale, [Next]_vars, NEW s \in Slots, req[s].op = "restart",
           req[s].met \cap Saves = {}, req'[s] # req[s]
    PROVE  stale \cap (Listed \ Listed') = {}
<1>1. PICK t \in Slots : Step(t)
  BY DEF Next, RestartOutside, vars
<1>2. CASE Clear(t)
  <2>1. ~Arrive(t)
    BY <1>2 DEF Clear, Arrive, Typed, StageOK
  <2>2. t = s
    BY <1>1, <2>1, OthersKeep
  <2>3. stale = {}
    BY <1>2, <2>2 DEF Clear, NothingStale
  <2> QED BY <2>3
<1>3. CASE ~Clear(t)
  BY <1>1, <1>3, OnlyClears
<1> QED BY <1>2, <1>3

\* RestartClearsAlone: a restart that no save overlaps takes no area off the list
\* whose files the container has not read (restart_mailserver).
THEOREM RestartsClear == Spec => RestartClearsAlone
<1>1. Init => MetOK /\ NothingStale
  BY DEF Init, Idle, MetOK, NothingStale
<1>2. Spec => [](Typed /\ MetOK /\ NothingStale)
  BY <1>1, TypedInit, TypedStep, MetStep, StaleStep, PTL DEF Spec
<1>3. Typed /\ NothingStale /\ [Next]_vars =>
        [\A s \in Slots :
           req[s].met \cap {"save", "set_sieve"} = {} => ClearsApplied(s)]_vars
  BY RestartStep DEF Saves, ClearsApplied
<1> QED BY <1>2, <1>3, PTL DEF Spec, RestartClearsAlone
=============================================================================
