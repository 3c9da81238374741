-------------------------------- MODULE Bell --------------------------------
(***************************************************************************)
(* The bell in the header of an administrator: it shows the areas that     *)
(* wait for a restart as PendingActionsService last heard of them, asks    *)
(* again every thirty seconds, and offers to dismiss them or to restart    *)
(* the mailserver.  The service outlives the bell, which comes and goes    *)
(* with the shell.  Requests are served and answered in any order.         *)
(***************************************************************************)
EXTENDS Naturals, FiniteSets, Sequences, SequencesExt

CONSTANTS
  Areas,         \* the areas of settings a restart applies
  MaxRefreshes,  \* bound: readings of the list in flight
  MaxChanges     \* bound: dismissals and restarts in flight

VARIABLES
  pending,       \* the areas on the server's list
  items,         \* the areas the service holds
  mounted,       \* the bell is on the screen
  restarting,    \* its restart is running: its buttons are disabled
  restartError,  \* its restart failed
  asks           \* requests in flight, oldest first

bellVars == <<pending, items, mounted, restarting, restartError, asks>>

\* `mine`: a restart whose bell is still there.
Ask(kind, area) ==
  [kind |-> kind, area |-> area, mine |-> kind = "restart", done |-> FALSE, got |-> {}]

BellInit ==
  /\ pending \in SUBSET Areas
  /\ items = {} /\ mounted = TRUE
  /\ restarting = FALSE /\ restartError = FALSE
  /\ asks = <<Ask("refresh", "none")>>

Refreshes == {i \in DOMAIN asks : asks[i].kind = "refresh"}

Asks(kind, area) ==
  /\ mounted
  /\ IF kind = "refresh" THEN Cardinality(Refreshes) < MaxRefreshes
     ELSE Cardinality(DOMAIN asks \ Refreshes) < MaxChanges
  /\ asks' = Append(asks, Ask(kind, area))
  /\ UNCHANGED <<pending, items, mounted>>

----------------------------------------------------------------------------
(* The bell.                                                               *)

\* Mutant: the bell asks again only while it shows nothing.
BellPollWhileEmpty ==
  items = {} /\ Asks("refresh", "none") /\ UNCHANGED <<restarting, restartError>>

\* The timer's tick; opening the menu asks the same.
BellPoll == Asks("refresh", "none") /\ UNCHANGED <<restarting, restartError>>

\* The buttons are there while something is shown, and disabled by a restart.
onDismiss(a) ==
  /\ a \in items /\ ~restarting
  /\ Asks("dismiss", a)
  /\ UNCHANGED <<restarting, restartError>>

onDismissAll ==
  /\ items # {} /\ ~restarting
  /\ Asks("dismissAll", "none")
  /\ UNCHANGED <<restarting, restartError>>

onRestart ==
  /\ items # {} /\ ~restarting
  /\ Asks("restart", "none")
  /\ restarting' = TRUE /\ restartError' = FALSE

\* The shell goes with the role or the user: the timer stops, the answers of the
\* requests in flight will find nobody but the service.
Unmount ==
  /\ mounted
  /\ mounted' = FALSE /\ restarting' = FALSE /\ restartError' = FALSE
  /\ asks' = [i \in DOMAIN asks |-> [asks[i] EXCEPT !.mine = FALSE]]
  /\ UNCHANGED <<pending, items>>

\* A new bell asks at once and starts its own timer.
Mount ==
  /\ ~mounted
  /\ Cardinality(Refreshes) < MaxRefreshes
  /\ mounted' = TRUE
  /\ asks' = Append(asks, Ask("refresh", "none"))
  /\ UNCHANGED <<pending, items, restarting, restartError>>

----------------------------------------------------------------------------
(* The server: each request is one change and one reading of the list.     *)

Left(ask) ==
  CASE ask.kind = "refresh" -> pending
    [] ask.kind = "dismiss" -> pending \ {ask.area}
    [] OTHER -> {}

BellServe(i) ==
  /\ ~asks[i].done
  /\ pending' = Left(asks[i])
  /\ asks' = [asks EXCEPT ![i].done = TRUE, ![i].got = pending']
  /\ UNCHANGED <<items, mounted, restarting, restartError>>

\* A setting is saved, on this page or elsewhere.
MarkPending(a) ==
  /\ pending' = pending \cup {a}
  /\ UNCHANGED <<items, mounted, restarting, restartError, asks>>

----------------------------------------------------------------------------
(* Answers.                                                                *)

\* What the service holds once the answer is in: a dismissal takes its own area
\* off what is held by then, everything else replaces it.
Heard(ask) == IF ask.kind = "dismiss" THEN items \ {ask.area} ELSE ask.got

RestartEnds(ask, failed) ==
  IF ask.mine
  THEN restarting' = FALSE /\ restartError' = (restartError \/ failed)
  ELSE UNCHANGED <<restarting, restartError>>

BellLand(i) ==
  /\ asks[i].done
  /\ items' = Heard(asks[i])
  /\ RestartEnds(asks[i], FALSE)
  /\ asks' = RemoveAt(asks, i)
  /\ UNCHANGED <<pending, mounted>>

\* A request fails, before or after the server has carried it out.  Only that of
\* a restart is caught.
BellFail(i) ==
  /\ RestartEnds(asks[i], TRUE)
  /\ asks' = RemoveAt(asks, i)
  /\ UNCHANGED <<pending, items, mounted>>

BellNext ==
  \/ BellPoll \/ onDismissAll \/ onRestart \/ Unmount \/ Mount
  \/ \E a \in Areas : onDismiss(a) \/ MarkPending(a)
  \/ \E i \in DOMAIN asks : BellServe(i) \/ BellLand(i) \/ BellFail(i)

\* The timer ticks, every request ends, and of refreshes repeated for ever some are
\* served and some answered.
BellFairness ==
  /\ WF_bellVars(BellPoll)
  /\ WF_bellVars(asks # <<>> /\ (BellServe(1) \/ BellLand(1) \/ BellFail(1)))
  /\ SF_bellVars(\E i \in Refreshes : BellServe(i))
  /\ SF_bellVars(\E i \in Refreshes : BellLand(i))

----------------------------------------------------------------------------
(* Properties.                                                             *)

BellTypeOK ==
  /\ pending \subseteq Areas /\ items \subseteq Areas
  /\ mounted \in BOOLEAN /\ restarting \in BOOLEAN /\ restartError \in BOOLEAN
  /\ \A i \in DOMAIN asks :
       /\ asks[i].kind \in {"refresh", "dismiss", "dismissAll", "restart"}
       /\ asks[i].area \in Areas \cup {"none"} /\ asks[i].got \subseteq Areas

\* The bell is never left disabled for a restart that is over.
RestartingMeansWork ==
  restarting => \E i \in DOMAIN asks : asks[i].mine

\* Once the server's list stays as it is and the bell stays on the screen, the
\* badge shows that list and nothing else, whatever stale answers, failed
\* requests and dismissals went before (setInterval in pending-actions-bell.ts).
BadgeCatchesUp ==
  <>[]mounted /\ <>[][UNCHANGED pending]_pending => <>[](items = pending)
=============================================================================
