------------------------------- MODULE Session -------------------------------
(***************************************************************************)
(* The session as one browser tab sees it: the user that AuthService       *)
(* mirrors, the guards of the routes, the interceptor that turns a 401     *)
(* into the "session expired" dialog, and the two ways of signing out.     *)
(*                                                                         *)
(* A request carries the cookie of the moment it was sent, and is answered *)
(* or lost at any later moment: its 401 may arrive over a newer session.   *)
(***************************************************************************)
EXTENDS Naturals, FiniteSets

CONSTANTS
  MaxRequests     \* bound: a page sends while fewer requests are in flight

VARIABLES
  cookie,   \* the browser's cookie, or the token in it, is one the server accepts
  role,     \* the role the server would grant the account now
  user,     \* the role of the mirrored user, or "none"
  loaded,   \* the session was probed since the page load
  route,    \* the route shown, or "none" before the first
  nav,      \* the route the first navigation waits to enter, or "none"
  expired,  \* the dialog is up
  requests  \* for each kind of request: "idle", or the cookie it was sent with

serverVars == <<cookie, role>>
authVars == <<user, loaded>>
routeVars == <<route, nav>>
sessionVars == <<cookie, role, user, loaded, route, nav, expired, requests>>

Roles == {"guest", "mailbox_manager", "admin"}
Rank == [guest |-> 1, mailbox_manager |-> 2, admin |-> 3]

\* True when role `r` is at least as privileged as `required`.
roleGrants(r, required) == r # "none" /\ Rank[r] >= Rank[required]

\* What the guard of each route requires; one route stands for those alike.
Guards == [dashboard |-> "guest", mailboxes |-> "mailbox_manager", users |-> "admin"]
Routes == {"login"} \cup DOMAIN Guards

\* Mutant: a user who is not signed in is sent to the empty path.
ResolveToRoot(r, u) == IF u = "none" THEN "" ELSE r

\* Mutant: the routes ask for a user only, whatever the role.
ResolveAnyRole(r, u) ==
  IF u = "none" THEN "login" ELSE IF r = "login" THEN "dashboard" ELSE r

\* The route a navigation to `r` ends at, redirections followed, for the mirrored
\* user `u`.
Resolve(r, u) ==
  IF u = "none" THEN "login"
  ELSE IF r = "login" \/ ~roleGrants(u, Guards[r]) THEN "dashboard"
  ELSE r

\* me: the probe.  page: any call a page makes.  poll: that of the bell.
Kinds == {"me", "login", "menuLogout", "dialogLogout", "page", "poll"}

\* Mutant: every path that no page calls is ignored, that of the bell too.
IgnoredButPages == Kinds \ {"page"}

\* Kinds of which the interceptor ignores a 401.
Ignored == {"me", "login", "menuLogout", "dialogLogout"}

Carried == IF cookie THEN "good" ELSE "bad"
Idle == [k \in Kinds |-> "idle"]
InFlight == {k \in Kinds : requests[k] # "idle"}

----------------------------------------------------------------------------
(* The page is loaded at route `r`; nothing of an earlier load survives.   *)

BootAt(r, good) ==
  /\ user' = "none" /\ loaded' = FALSE /\ expired' = FALSE
  /\ route' = "none" /\ nav' = r
  /\ requests' = [Idle EXCEPT !["me"] = IF good THEN "good" ELSE "bad"]
  /\ cookie' = good
  /\ UNCHANGED role

SessionInit ==
  /\ cookie \in BOOLEAN /\ role \in Roles
  /\ user = "none" /\ loaded = FALSE /\ expired = FALSE
  /\ route = "none" /\ nav \in Routes
  /\ requests = [Idle EXCEPT !["me"] = Carried]

Reload == \E r \in Routes : BootAt(r, cookie)

\* The redirect flow leaves the page and comes back with a session of its own.
SignInWithOidc == route = "login" /\ ~expired /\ BootAt("dashboard", TRUE)

----------------------------------------------------------------------------
(* What the user and the pages do.                                         *)

Send(k) ==
  /\ requests[k] = "idle"
  /\ requests' = [requests EXCEPT ![k] = Carried]

\* A link or the back button.  The probe is over, so the guards decide at once.
Navigate(r) ==
  /\ loaded
  /\ route' = Resolve(r, user)
  /\ UNCHANGED <<serverVars, authVars, nav, expired, requests>>

\* A page loads, or a handler goes on to its next request, under the dialog too.
PageCall ==
  /\ route \notin {"login", "none"}
  /\ Cardinality(InFlight) < MaxRequests
  /\ Send("page")
  /\ UNCHANGED <<serverVars, authVars, routeVars, expired>>

\* The bell is part of an administrator's shell, whatever the route.
Poll ==
  /\ user = "admin"
  /\ Send("poll")
  /\ UNCHANGED <<serverVars, authVars, routeVars, expired>>

\* The dialog covers the form of the login page.
SubmitLogin ==
  /\ route = "login" /\ ~expired
  /\ Send("login")
  /\ UNCHANGED <<serverVars, authVars, routeVars, expired>>

MenuLogout ==
  /\ user # "none" /\ ~expired
  /\ Send("menuLogout")
  /\ UNCHANGED <<serverVars, authVars, routeVars, expired>>

\* The dialog's only button, disabled while its request is in flight.
onSignIn ==
  /\ expired
  /\ Send("dialogLogout")
  /\ UNCHANGED <<serverVars, authVars, routeVars, expired>>

----------------------------------------------------------------------------
(* Answers: the server accepts a request, rejects its session, or fails.   *)

Outcomes == {"accepted", "unauthorized", "failed"}

Arrives(k, outcome) ==
  /\ requests[k] # "idle"
  /\ outcome = "accepted" => requests[k] = "good"
  /\ outcome = "unauthorized" => requests[k] = "bad"
  /\ requests' = [requests EXCEPT ![k] = "idle"]

\* Every load of a page and every poll: only a 401 matters here.
CallEnds(k, outcome) ==
  /\ k \in {"page", "poll"}
  /\ Arrives(k, outcome)
  /\ expired' = (expired \/ (outcome = "unauthorized" /\ k \notin Ignored))
  /\ UNCHANGED <<serverVars, authVars, routeVars>>

\* The probe ends, and with it the guards that waited for it.
refreshSession(outcome) ==
  /\ Arrives("me", outcome)
  /\ user' = IF outcome = "accepted" THEN role ELSE "none"
  /\ loaded' = TRUE
  /\ route' = Resolve(nav, user')
  /\ nav' = "none"
  /\ expired' = (expired \/ (outcome = "unauthorized" /\ "me" \notin Ignored))
  /\ UNCHANGED serverVars

\* The credentials are right, or not; the cookie sent along does not matter.
LoginSucceeds ==
  /\ requests["login"] # "idle"
  /\ requests' = [requests EXCEPT !["login"] = "idle"]
  /\ cookie' = TRUE
  /\ user' = role
  /\ route' = Resolve("dashboard", user')
  /\ UNCHANGED <<role, loaded, nav, expired>>

LoginFails ==
  /\ requests["login"] # "idle"
  /\ requests' = [requests EXCEPT !["login"] = "idle"]
  /\ expired' = (expired \/ "login" \notin Ignored)
  /\ UNCHANGED <<serverVars, authVars, routeVars>>

\* Mutant: the user is cleared after the answer instead of in a finally.
LogoutIfAccepted(k, outcome) ==
  /\ Arrives(k, outcome)
  /\ user' = IF outcome = "accepted" THEN "none" ELSE user
  /\ cookie' = (cookie /\ outcome # "accepted")
  /\ route' = IF outcome = "accepted" THEN Resolve("login", user') ELSE route
  /\ UNCHANGED <<role, loaded, nav>>

\* AuthService.logout clears the user whatever the answer, then throws unless it
\* was accepted: the caller navigates to /login only in that case.
Logout(k, outcome) ==
  /\ Arrives(k, outcome)
  /\ user' = "none"
  /\ cookie' = (cookie /\ outcome # "accepted")
  /\ route' = IF outcome = "accepted" THEN Resolve("login", user') ELSE route
  /\ UNCHANGED <<role, loaded, nav>>

MenuLogoutEnds(outcome) ==
  /\ Logout("menuLogout", outcome)
  /\ expired' = (expired \/ (outcome = "unauthorized" /\ "menuLogout" \notin Ignored))

onSignInEnds(outcome) ==
  /\ Logout("dialogLogout", outcome)
  /\ expired' = FALSE

----------------------------------------------------------------------------
(* What happens at the server and in other tabs.                           *)

\* The token ages out, the account is deactivated, or another tab signs out: the
\* requests not yet served lose their session too.
Expire ==
  /\ cookie
  /\ cookie' = FALSE
  /\ \E caught \in SUBSET {k \in InFlight : requests[k] = "good"} :
       requests' = [k \in Kinds |-> IF k \in caught THEN "bad" ELSE requests[k]]
  /\ UNCHANGED <<role, authVars, routeVars, expired>>

\* An administrator or a group changes the account's role.
ChangeRole ==
  /\ role' \in Roles \ {role}
  /\ UNCHANGED <<cookie, authVars, routeVars, expired, requests>>

SessionNext ==
  \/ Reload \/ SignInWithOidc
  \/ \E r \in Routes : Navigate(r)
  \/ PageCall \/ Poll \/ SubmitLogin \/ MenuLogout \/ onSignIn
  \/ \E outcome \in Outcomes :
       \/ \E k \in {"page", "poll"} : CallEnds(k, outcome)
       \/ refreshSession(outcome)
       \/ MenuLogoutEnds(outcome)
       \/ onSignInEnds(outcome)
  \/ LoginSucceeds \/ LoginFails
  \/ Expire \/ ChangeRole

\* The bell's timer keeps running, and of polls repeated for ever some are answered.
SessionFairness ==
  /\ WF_sessionVars(Poll)
  /\ SF_sessionVars(\E outcome \in {"accepted", "unauthorized"} : CallEnds("poll", outcome))

SessionSpec == SessionInit /\ [][SessionNext]_sessionVars

----------------------------------------------------------------------------
(* Properties.                                                             *)

SessionTypeOK ==
  /\ cookie \in BOOLEAN /\ role \in Roles
  /\ user \in Roles \cup {"none"} /\ loaded \in BOOLEAN
  /\ route \in Routes \cup {"none"} /\ nav \in Routes \cup {"none"}
  /\ expired \in BOOLEAN
  /\ requests \in [Kinds -> {"idle", "good", "bad"}]

\* A route is entered only by a user whose mirrored role its guard admits, the
\* guards being asked after the probe they wait for and by every redirection.
EnteredWithRole ==
  [][route' # route /\ route' \in DOMAIN Guards => roleGrants(user', Guards[route'])]_sessionVars

\* The dialog goes away only with the user signed out: session-expired-modal.ts:55
\* says that local state is cleared either way.
DialogEndsSignedOut == [][expired /\ ~expired' => user' = "none"]_sessionVars

\* An administrator is not left for ever on a page whose session the server no
\* longer accepts: the dialog comes up, unless the session ends otherwise.
ExpiryNoticed == (user = "admin" /\ ~cookie) ~> (expired \/ user # "admin" \/ cookie)
=============================================================================
