------------------------------- MODULE PageOps -------------------------------
(***************************************************************************)
(* The vocabulary in which the pages of the frontend are described.  Every *)
(* page is an Angular component whose handlers have one of two forms:      *)
(*                                                                         *)
(*   load:   loading = true; error = null;                                 *)
(*           try { field = await GET } catch { error = ... }               *)
(*           finally { loading = false }                                   *)
(*   change: error = null; busy = true;                                    *)
(*           try { answer = await PUT/POST/DELETE; [field = answer;]       *)
(*                 [await load()] }                                        *)
(*           catch { error = ... } finally { busy = false }                *)
(*                                                                         *)
(* A handler is a record that says which signals play those parts, and a   *)
(* page is a record of its handlers.  Module Page gives them their steps.  *)
(***************************************************************************)
EXTENDS FiniteSets

CONSTANTS Keys      \* what a page can open or list: scopes, mailboxes, groups, rows

\* No key, no signal, no banner, no caller.
none == "none"

\* Tabs of the fail2ban page, opened like the scopes of the other pages.
Tabs == {"overview", "policy", "log"}

\* A key is none of the words that stand for something else where keys do.
ASSUME KeysApart ==
  /\ Keys # {}
  /\ Keys \cap (Tabs \cup {none, "nothing", "on", "off"}) = {}

Anywhere == Keys \cup Tabs \cup {none}

(***************************************************************************)
(* The attributes of a handler.                                            *)
(***************************************************************************)
Handler ==
  [byUser  |-> TRUE,      \* a control of the page starts it
   asks    |-> TRUE,      \* it sends a request of its own
   flag    |-> none,      \* the busy signal it holds up while it runs
   rowed   |-> FALSE,     \* it is about one row, whose id the signal holds
   anyRow  |-> TRUE,      \* the signal disables the control of every row
   hidden  |-> {},        \* busy signals and banners that hide or disable it
   at      |-> Anywhere,  \* the open keys for which its control is shown
   rowsOf  |-> none,      \* the field whose rows carry its control
   rowKey  |-> FALSE,     \* the request goes to the key the row was read for
   everyKey |-> FALSE,    \* the change reaches the field under every key
   checks  |-> FALSE,     \* it validates a form before it sends
   form    |-> none,      \* the form its control and banner are in: success closes it
   mayShut |-> {},        \* the forms success closes where they are about its row
   error   |-> none,      \* the banner of its failure
   clears  |-> {},        \* the banners it takes down when it starts
   changes |-> {},        \* the fields it changes at the server
   shows   |-> {},        \* the fields set from its answer
   keeps   |-> FALSE,     \* ... but for a form, which keeps what was sent
   heals   |-> FALSE,     \* success takes its own banner down
   blanks  |-> {},        \* the fields emptied when it starts
   loses   |-> {},        \* the fields emptied when it fails
   reloads |-> {},        \* the loads it awaits once it has succeeded
   sameKey |-> FALSE,     \* ... for the key it was started for, not the open one
   closes  |-> FALSE]     \* success closes the panel of its row

Load(flag, error, fields) ==
  [Handler EXCEPT !.byUser = FALSE, !.flag = flag, !.error = error,
                  !.clears = {error}, !.shows = fields]

\* The same load with a refresh button that is disabled while it runs.
Refreshable(load) == [load EXCEPT !.byUser = TRUE, !.hidden = {load.flag}]

\* Mutant: what was changed is not read again.
ChangeOnly(flag, error, fields, loads) ==
  [Handler EXCEPT !.flag = flag, !.error = error, !.clears = {error}, !.changes = fields]

\* A change followed by a reload of what it changed.
Change(flag, error, fields, loads) ==
  [Handler EXCEPT !.flag = flag, !.error = error, !.clears = {error},
                  !.changes = fields, !.reloads = loads]

\* The same, for a form that is validated first.
Submit(flag, error, fields, loads) ==
  [Change(flag, error, fields, loads) EXCEPT !.checks = TRUE]

\* The same, from a button that each row of `list` carries.
RowChange(flag, error, list, fields, loads) ==
  [Change(flag, error, fields, loads) EXCEPT !.rowed = TRUE, !.anyRow = FALSE,
                                             !.rowsOf = list, !.hidden = {"loading"}]

\* The text of an editor is sent and the answer shown in its place.
Save(flag, error, field) ==
  [Handler EXCEPT !.flag = flag, !.error = error, !.clears = {error},
                  !.changes = {field}, !.shows = {field}, !.hidden = {"loading"}]

(***************************************************************************)
(* The attributes of a page: the handlers, the loads of its constructor,   *)
(* the key open at first, the keys it offers, the fields held per key, the *)
(* fields that only one tab shows, and what choosing a key does.           *)
(***************************************************************************)
Choice ==
  [same   |-> "ignore",   \* choosing the open key: ignore, close or again
   hidden |-> {},         \* busy signals that hide the choice
   lazy   |-> FALSE,      \* only what was never loaded is loaded
   clears |-> {},         \* banners taken down
   leaves |-> {},         \* fields emptied when the panel is closed
   runs   |-> {}]         \* loads started for the key

PageOf(handlers) ==
  [ops |-> handlers, first |-> {"load"}, opens |-> none, keys |-> {}, keyed |-> {},
   tab |-> [f \in {} |-> none], choice |-> Choice]

\* A page with one scope open at a time, of which `field` is read and shown.
ScopedPage(handlers, field) ==
  [PageOf(handlers) EXCEPT !.opens = CHOOSE k \in Keys : TRUE, !.keys = Keys,
                           !.keyed = {field}, !.choice.runs = {"load"}]
=============================================================================
