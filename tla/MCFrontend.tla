----------------------------- MODULE MCFrontend -----------------------------
(***************************************************************************)
(* The parts of the frontend, each on its own: a behaviour is one of one   *)
(* page, of the override files of the rspamd page, of the session, or of   *)
(* the bell.                                                               *)
(***************************************************************************)
EXTENDS Page, OverrideFiles, Session, Bell

vars == <<pageVars, filesVars, sessionVars, bellVars>>

NoPage == page = [name |-> none] /\ ui = [open |-> none] /\ calls = <<>>

NoFiles ==
  /\ onDisk = {} /\ listed = <<>> /\ signal = <<>> /\ asked = <<>>
  /\ told = {} /\ doubted = {}

NoSession ==
  /\ cookie = FALSE /\ role = "guest" /\ user = "none" /\ loaded = FALSE
  /\ route = "none" /\ nav = "none" /\ expired = FALSE /\ requests = Idle

NoBell ==
  /\ pending = {} /\ items = {} /\ mounted = FALSE
  /\ restarting = FALSE /\ restartError = FALSE /\ asks = <<>>

OnPage == page.name # none
AtFiles == listed # <<>>
InSession == requests # Idle \/ loaded
AtBell == ~OnPage /\ ~AtFiles /\ ~InSession

Init ==
  \/ PageInit /\ NoFiles /\ NoSession /\ NoBell
  \/ NoPage /\ FilesInit /\ NoSession /\ NoBell
  \/ NoPage /\ NoFiles /\ SessionInit /\ NoBell
  \/ NoPage /\ NoFiles /\ NoSession /\ BellInit

Next ==
  \/ OnPage /\ PageNext /\ UNCHANGED <<filesVars, sessionVars, bellVars>>
  \/ AtFiles /\ FilesNext /\ UNCHANGED <<pageVars, sessionVars, bellVars>>
  \/ InSession /\ SessionNext /\ UNCHANGED <<pageVars, filesVars, bellVars>>
  \/ AtBell /\ BellNext /\ UNCHANGED <<pageVars, filesVars, sessionVars>>

Spec == Init /\ [][Next]_vars /\ SessionFairness /\ BellFairness

----------------------------------------------------------------------------
\* The types of the part that runs.
TypeOK ==
  (OnPage => PageTypeOK) /\ (AtFiles => FilesTypeOK) /\ SessionTypeOK /\ BellTypeOK

\* No page shows in silence what the server no longer holds, but for the ways a
\* cell says in `why`.
NothingSilentlyWrong == OnPage => NeverSilentlyWrong

\* The list of override files is right or says why not, but for files in doubt.
OverridesShown == AtFiles => FilesShown

\* No spinner turns, on a page or in the bell, for a request that is over.
SpinnersMeanWork == (OnPage => SpinnerMeansWork) /\ RestartingMeansWork

\* No change of a field by a handler that disables its button for every row is
\* sent again before it is over.
NothingSentTwice == OnPage => NoDoubleSubmit
=============================================================================
