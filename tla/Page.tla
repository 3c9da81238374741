--------------------------------- MODULE Page ---------------------------------
(***************************************************************************)
(* One page of the frontend, from its constructor on.  The user clicks,    *)
(* types nothing the model looks at, and opens scopes, panels, tabs and    *)
(* forms; every request is served and answered, or fails, on its own, so   *)
(* that the answers of two requests may arrive in either order and a       *)
(* request may fail after the server has carried it out.                   *)
(*                                                                         *)
(* What a field shows is a cell: the key it was read for, and whether the  *)
(* server changed it since.  A cell also says by which known way, if any,  *)
(* it came to be wrong:                                                    *)
(*   crossed    an answer for another key than the open one was shown      *)
(*   overtaken  an answer older than what was shown replaced it            *)
(*   wiped      the banner that announced it was taken down                *)
(*   unseen     the request failed once its control had left the screen    *)
(*   reverted   a save succeeded over a form that was read again meanwhile *)
(*   gap        a handler of KnownGaps changed it and does not reload it   *)
(***************************************************************************)
EXTENDS Naturals, Sequences, SequencesExt, MailserverPages, AdminPages

CONSTANTS
  MaxCalls,     \* bound: the user acts while fewer requests are in flight
  Undaunted     \* bound: ... and no error banner is up, on these pages at most one,
                \* ... and no form is open but unsent, on these pages any

VARIABLES
  page,     \* the page, as Running describes it: it never changes
  ui,       \* its signals: open, view, busy, banners, forms, loaded
  calls     \* its requests in flight, oldest first

pageVars == <<page, ui, calls>>

Pages ==
  [sieve |-> Sieve, spam |-> Spam, ldap |-> Ldap, restrictions |-> Restrictions,
   relay |-> Relay, aliases |-> Aliases, queue |-> Queue, dovecot |-> Dovecot,
   postfix |-> Postfix, dkim |-> Dkim, rspamd |-> Rspamd, tls |-> Tls, dns |-> Dns,
   environment |-> Environment, logs |-> Logs, fail2ban |-> Fail2ban,
   mailboxes |-> Mailboxes, users |-> Users, audit |-> Audit, oidc |-> Oidc,
   mail |-> Mail, profile |-> Profile, dashboard |-> Dashboard]

\* <<page, handler, field>>: the handler changes the field at the server and
\* neither shows nor reloads it, and its banner says nothing of it.
KnownGaps ==
  {<<"users", "deleteUser", "members">>, <<"dkim", "onGenerate", "migrationCandidates">>} \cup
  {<<"users", o, "roles">> : o \in DOMAIN GroupOps}

(***************************************************************************)
(* A page as it runs: its description, its fields, busy signals and        *)
(* banners, and the handlers that have to do with each field.              *)
(***************************************************************************)
Running(name) ==
  LET p == Pages[name]
      handlers == DOMAIN p.ops
      fields == UNION {p.ops[o].shows \cup p.ops[o].changes : o \in handlers}
      About(f) == {o \in handlers : /\ f \in p.ops[o].changes \cup p.ops[o].shows
                                    /\ <<name, o, f>> \notin KnownGaps}
  IN [name |-> name, fields |-> fields,
      forms |-> {p.ops[o].form : o \in handlers} \ {none},
      flags |-> {p.ops[o].flag : o \in handlers} \ {none},
      banners |-> {p.ops[o].error : o \in handlers} \ {none},
      about |-> [f \in fields |-> About(f)],
      ops |-> p.ops, first |-> p.first, opens |-> p.opens, keys |-> p.keys,
      keyed |-> p.keyed, tab |-> p.tab, choice |-> p.choice]

Op(o) == page.ops[o]
Ops == DOMAIN page.ops
Fields == page.fields
Flags == page.flags
Banners == page.banners

KeyOf(f, key) == IF f \in page.keyed THEN key ELSE none

----------------------------------------------------------------------------
(* Cells.                                                                  *)

Nothing == [of |-> "nothing", as |-> "new", why |-> none]

\* What the server answers for a field now.
Fresh(f, key) == [of |-> KeyOf(f, key), as |-> "new", why |-> none]

\* A cell read before the server carried out call `c`.
Outdated(cell, f, c) ==
  IF cell.of # KeyOf(f, c.key) /\ ~Op(c.op).everyKey THEN cell
  ELSE IF <<page.name, c.op, f>> \in KnownGaps THEN [cell EXCEPT !.why = "gap"]
  ELSE [cell EXCEPT !.as = "old"]

\* The cell field `f` has once `new` is set for key `key`.
Replaced(u, new, f, key) ==
  LET old == u.view[f] IN
  IF KeyOf(f, key) # KeyOf(f, u.open) THEN [new EXCEPT !.why = "crossed"]
  ELSE IF old.of = new.of /\ old.as = "new" /\ new.as = "old"
       THEN [new EXCEPT !.why = "overtaken"]
  ELSE IF new.as = "old" /\ new.why = none THEN [new EXCEPT !.why = old.why]
  ELSE new

Right(u, f) == u.view[f] = Fresh(f, u.open)

\* The field is on the screen: of the tab, or of the panel, that is open.
Visible(u, f) ==
  /\ f \in DOMAIN page.tab => page.tab[f] = u.open
  /\ f \in page.keyed => u.open # none

\* The form that the control of handler `o` is in is open.
InForm(u, o) == Op(o).form # none => Op(o).form \in u.forms

\* The control of handler `o`, and its banner when it is up, are on the screen.
OnScreen(u, o) == u.open \in Op(o).at /\ InForm(u, o)

\* The banner of a control on the screen that has to do with the field is up.
Announced(u, f) == \E o \in page.about[f] : Op(o).error \in u.banners /\ OnScreen(u, o)

\* A failure of handler `o` has a banner that has to do with the field.
Speaks(o, f) == \E p \in page.about[f] : Op(p).error = Op(o).error /\ Op(o).error # none

\* Call `c` will set the field to what the server holds, unless that changes, or
\* fail with a banner about it.  A save whose form keeps what was sent sets it
\* too, or says in `why` that it did not.
Sets(c, f, open) ==
  LET ForOpen(key) == KeyOf(f, key) = KeyOf(f, open)
  IN \/ /\ f \in Op(c.op).shows
        /\ ForOpen(c.key)
        /\ c.done => c.got[f].as = "new" \/ c.got[f].why # none
     \/ /\ \E l \in Op(c.op).reloads : f \in Op(l).shows
        /\ Op(c.op).sameKey => ForOpen(c.key)
        /\ Speaks(c.op, f)

\* Some request of `cs` sets the field, or it is right already.
UnderRepair(u, f, cs) ==
  \/ \E i \in DOMAIN cs : Sets(cs[i], f, u.open)
  \/ u.view[f].of = KeyOf(f, u.open) /\ u.view[f].as = "new"

----------------------------------------------------------------------------
(* The steps of a handler, as functions of the signals.                    *)

\* The banners shown in the forms `xs`.
BannersOf(xs) == {Op(o).error : o \in {p \in Ops : Op(p).form \in xs}}

\* The signals go from `u` to `v` with `cs` in flight: a wrong field whose banner
\* went down then shows as if nothing had happened.
Quieted(u, v, cs) ==
  LET wiped == {f \in Fields : /\ ~Right(v, f) /\ Visible(v, f)
                               /\ Announced(u, f) /\ ~Announced(v, f)
                               /\ ~UnderRepair(v, f, cs)}
  IN [v EXCEPT !.view = [f \in Fields |->
                           IF f \in wiped THEN [@[f] EXCEPT !.why = "wiped"] ELSE @[f]]]

Lowered(u, bs, cs) == Quieted(u, [u EXCEPT !.banners = @ \ bs], cs)

\* Handlers `os` start for key `key`: signals up, banners down, fields emptied.
Started(u, os, key, row, cs) ==
  LET up == {Op(o).flag : o \in os}
      emptied == UNION {Op(o).blanks : o \in os}
      v == Lowered(u, UNION {Op(o).clears : o \in os}, cs)
  IN [v EXCEPT !.busy = [g \in Flags |->
                           IF g \notin up THEN @[g] ELSE IF row = none THEN "on" ELSE row],
               !.view = [f \in Fields |-> IF f \in emptied THEN Replaced(u, Nothing, f, key)
                                          ELSE @[f]]]

\* Mutant: the handler's own signal is forgotten once its reloads are over.
EndedAlone(u, c, cs) ==
  [u EXCEPT !.busy = [g \in Flags |-> IF g = Op(c.op).flag THEN "off" ELSE @[g]]]

\* Mutant: the first of the reloads a handler awaits lowers its signal.
EndedEarly(u, c, cs) ==
  LET down == {Op(c.op).flag} \cup (IF c.by = <<>> THEN {} ELSE {Op(c.by[1]).flag})
  IN [u EXCEPT !.busy = [g \in Flags |-> IF g \in down THEN "off" ELSE @[g]]]

\* Call `c` is over and `cs` are left: its signal goes down, and with the last
\* load a handler awaits, that of the handler.
Ended(u, c, cs) ==
  LET awaited == c.by # <<>> /\ ~\E i \in DOMAIN cs : cs[i].by = c.by
      down == {Op(c.op).flag} \cup (IF awaited THEN {Op(c.by[1]).flag} ELSE {})
  IN [u EXCEPT !.busy = [g \in Flags |-> IF g \in down THEN "off" ELSE @[g]]]

\* The open panel is closed; where that empties its fields it also takes its
\* banners down.
Closed(u) ==
  LET choice == page.choice
  IN [u EXCEPT !.open = none,
               !.banners = IF choice.leaves = {} THEN @ ELSE @ \ choice.clears,
               !.view = [f \in Fields |-> IF f \in choice.leaves THEN Nothing ELSE @[f]]]

\* The cell a save leaves in a form that was read again since it was sent.
LeftIn(u, f) == IF Right(u, f) THEN u.view[f] ELSE [u.view[f] EXCEPT !.why = "reverted"]

\* The answer of call `c` is shown, and the forms `shut` are closed.
Shown(u, c, shut) ==
  LET op == Op(c.op)
      New(f) == IF f \notin op.shows THEN u.view[f]
                ELSE IF op.keeps /\ ~c.kept THEN LeftIn(u, f)
                ELSE Replaced(u, c.got[f], f, c.key)
      down == (IF op.heals THEN {op.error} ELSE {}) \cup BannersOf(shut)
      v == [u EXCEPT !.banners = @ \ down, !.forms = @ \ shut,
                     !.loaded = IF page.choice.lazy THEN @ \cup ({c.op} \cap page.choice.runs) ELSE @,
                     !.view = [f \in Fields |-> New(f)]]
  IN IF op.closes /\ u.open = c.row THEN Closed(v) ELSE v

\* A call fails, perhaps when the control whose banner says so is gone.
Refused(u, c) ==
  LET op == Op(c.op)
      unseen == {f \in op.changes : ~OnScreen(u, c.op) /\ Visible(u, f) /\ ~Right(u, f)}
  IN [u EXCEPT !.banners = @ \cup ({op.error} \ {none}),
               !.view = [f \in Fields |-> IF f \in op.loses THEN Nothing
                                          ELSE IF f \in unseen THEN [@[f] EXCEPT !.why = "unseen"]
                                          ELSE @[f]]]

Call(o, key, row, by) ==
  [op |-> o, key |-> key, row |-> row, by |-> by, done |-> FALSE, kept |-> TRUE,
   got |-> [f \in Op(o).shows |-> Nothing]]

\* The loads `os`, sent together.
Calls(os, key, by) == SetToSeq({Call(o, key, none, by) : o \in os})

----------------------------------------------------------------------------
\* Bound: when the user still acts.  What follows a cell that is wrong in a known
\* way is only followed as far as the requests already in flight.
Patient ==
  /\ Len(calls) < MaxCalls
  /\ Cardinality(ui.banners) <= IF page.name \in Undaunted THEN 1 ELSE 0
  /\ \A f \in Fields : ui.view[f].why = none

\* Bound: with a form open and its request not sent, the user of a page that is not
\* undaunted sends it or cancels it first.
Focused(x) ==
  \/ page.name \in Undaunted
  \/ \A y \in ui.forms \ {x} : \E i \in DOMAIN calls : Op(calls[i].op).form = y

PageInit ==
  /\ \E name \in DOMAIN Pages : page = Running(name)
  /\ LET first == page.first
         u == [open |-> page.opens, view |-> [f \in Fields |-> Nothing],
               busy |-> [g \in Flags |-> "off"], banners |-> {}, forms |-> {}, loaded |-> {}]
     IN /\ ui = Started(u, first, u.open, none, <<>>)
        /\ calls = Calls(first, page.opens, <<>>)

\* The rows handler `o` may be about.  One stands for all where no other row has
\* a control of its own and the panel stays as it is.
Rows(o) ==
  IF ~Op(o).rowed THEN {none}
  ELSE IF Op(o).anyRow /\ ~Op(o).closes THEN {CHOOSE k \in Keys : TRUE}
  ELSE Keys

\* No busy signal and no banner hides or disables the control of handler `o`.
Unhidden(o) == \A g \in Op(o).hidden : g \notin ui.banners /\ (g \in Flags => ui.busy[g] = "off")

\* The control of handler `o`, for row `r`, is on the screen and enabled.
Enabled(o, r) ==
  LET op == Op(o)
      own == op.rowed /\ ~op.anyRow
  IN /\ op.byUser
     /\ OnScreen(ui, o)
     /\ Unhidden(o)
     /\ op.flag \in Flags => IF own THEN ui.busy[op.flag] # r ELSE ui.busy[op.flag] = "off"
     /\ op.rowsOf # none => ui.view[op.rowsOf].of # "nothing"

\* The key a handler's request is for: the open one, or that of its row.
Target(o) == IF Op(o).rowKey THEN ui.view[Op(o).rowsOf].of ELSE ui.open

\* Bound: a row whose button another row's request has enabled again is not sent
\* twice; the second request would find it gone.
Click(o, r) ==
  /\ Enabled(o, r)
  /\ ~Op(o).anyRow => ~\E i \in DOMAIN calls : <<o, r>> \in {<<calls[i].op, calls[i].row>>, calls[i].by}
  /\ calls' = IF Op(o).asks THEN Append(calls, Call(o, Target(o), r, <<>>))
              ELSE calls \o Calls(Op(o).reloads, ui.open, <<o, r>>)
  /\ ui' = Started(ui, {o} \cup (IF Op(o).asks THEN {} ELSE Op(o).reloads), ui.open, r, calls')
  /\ UNCHANGED page

\* The form of handler `o` does not pass its checks: banners are taken down, one
\* may be put up, and nothing is sent.
Reject(o) ==
  /\ Op(o).checks
  /\ \E r \in Rows(o) : Enabled(o, r)
  /\ \E shown \in SUBSET {Op(o).error} :
       ui' = Quieted(ui, [ui EXCEPT !.banners = (@ \ Op(o).clears) \cup shown], calls)
  /\ UNCHANGED <<page, calls>>

\* The user opens form `x`, which takes its banners down, or cancels it, request
\* in flight or not: the buttons look at nothing but what hides the whole form.
Reachable(x) == \A o \in Ops : Op(o).form = x => Unhidden(o)

ShowForm(x, forms) ==
  /\ Reachable(x)
  /\ ui' = Quieted(ui, [ui EXCEPT !.forms = forms, !.banners = @ \ BannersOf({x})], calls)
  /\ UNCHANGED <<page, calls>>

OpenForm(x) == x \notin ui.forms /\ ShowForm(x, ui.forms \cup {x})
CloseForm(x) == x \in ui.forms /\ ShowForm(x, ui.forms \ {x})

\* The user chooses key `k`: a scope, a panel, a tab or a page of the trail.
Select(k) ==
  LET choice == page.choice
      Due(l) == /\ k \in Op(l).at
                /\ choice.lazy => l \notin ui.loaded
      loads == {l \in choice.runs : Due(l)}
      sent == calls \o Calls(loads, k, <<>>)
  IN /\ \A g \in choice.hidden : ui.busy[g] = "off"
     /\ IF k = ui.open /\ choice.same = "close"
        THEN /\ ui' = Quieted(ui, Closed(ui), calls)
             /\ UNCHANGED calls
        ELSE /\ k = ui.open => choice.same = "again"
             /\ ui' = Started(Lowered([ui EXCEPT !.open = k], choice.clears, sent),
                              loads, k, none, sent)
             /\ calls' = sent
     /\ UNCHANGED page

\* The server carries out a request.
Serve(i) ==
  LET c == calls[i]
      Later(cell, f) == IF f \in Op(c.op).changes THEN Outdated(cell, f, c) ELSE cell
  IN /\ ~c.done
     /\ ui' = [ui EXCEPT !.view = [f \in Fields |-> Later(@[f], f)]]
     /\ calls' = [j \in DOMAIN calls |->
                    IF j = i THEN [c EXCEPT !.done = TRUE,
                                            !.got = [f \in DOMAIN c.got |-> Fresh(f, c.key)]]
                    ELSE [calls[j] EXCEPT !.got = [f \in DOMAIN @ |-> Later(@[f], f)]]]
     /\ UNCHANGED page

\* Request `d` after the answer of `c`, which shows what the form of `d` kept.
Reread(d, c) ==
  [d EXCEPT !.kept = @ /\ ~(Op(d.op).keeps /\ Op(d.op).shows \cap Op(c.op).shows # {})]

\* The answer arrives: it is shown, forms are closed (mayShut: those that are about
\* the row, which the model does not know), and the handler goes on to its reloads.
Land(i) == \E extra \in SUBSET Op(calls[i].op).mayShut :
  LET c == calls[i]
      op == Op(c.op)
      u == Shown(ui, c, ({op.form} \cap page.forms) \cup extra)
      key == IF op.sameKey THEN c.key ELSE u.open
      left == [j \in DOMAIN calls |-> Reread(calls[j], c)]
      sent == RemoveAt(left, i) \o Calls(op.reloads, key, <<c.op, c.row>>)
  IN /\ c.done
     /\ calls' = sent
     /\ ui' = Quieted(ui, IF op.reloads = {} THEN Ended(u, c, sent)
                          ELSE Started(u, op.reloads, key, none, sent), sent)
     /\ UNCHANGED page

\* The request fails, before or after the server has carried it out.
Fail(i) ==
  /\ calls' = RemoveAt(calls, i)
  /\ ui' = Ended(Refused(ui, calls[i]), calls[i], calls')
  /\ UNCHANGED page

PageNext ==
  \/ /\ Patient
     /\ \/ \E o \in Ops : Focused(Op(o).form) /\ ((\E r \in Rows(o) : Click(o, r)) \/ Reject(o))
        \/ \E x \in page.forms : Focused(x) /\ (OpenForm(x) \/ CloseForm(x))
        \/ \E k \in page.keys : Focused(none) /\ Select(k)
  \/ \E i \in DOMAIN calls : Serve(i) \/ Land(i) \/ Fail(i)

----------------------------------------------------------------------------
(* Properties.                                                             *)

PageTypeOK ==
  /\ page.name \in DOMAIN Pages
  /\ ui.open \in Anywhere
  /\ ui.banners \subseteq Banners /\ ui.forms \subseteq page.forms /\ ui.loaded \subseteq Ops
  /\ \A g \in Flags : ui.busy[g] \in {"off", "on"} \cup Keys
  /\ \A f \in Fields : ui.view[f].of \in Anywhere \cup {"nothing"}
  /\ \A i \in DOMAIN calls : calls[i].op \in Ops /\ calls[i].key \in Anywhere

\* What the user sees and the server no longer holds is never left so in
\* silence: a banner says so or a request in flight will put it right.  The
\* exceptions are the ways a cell can say in `why`.
NeverSilentlyWrong ==
  \A f \in Fields : Visible(ui, f) => \/ Right(ui, f)
                                      \/ ui.view[f].why # none
                                      \/ Announced(ui, f)
                                      \/ UnderRepair(ui, f, calls)

\* The handlers call `c` belongs to: its own, and the one that awaits it.
Behind(c) == {c.op} \cup (IF c.by = <<>> THEN {} ELSE {c.by[1]})

\* No page is left with a spinner turning, or a button disabled, for a request
\* that is over.
SpinnerMeansWork ==
  \A g \in Flags : ui.busy[g] # "off" =>
    \E i \in DOMAIN calls : \E o \in Behind(calls[i]) : Op(o).flag = g

\* A change that disables its button for every row is not sent again before it
\* is over, the reloads it awaits included, whichever handler lowers its signal.
NoDoubleSubmit ==
  \A o \in Ops :
    LET sent == {i \in DOMAIN calls : calls[i].op = o}
        awaiting == \E i \in DOMAIN calls : calls[i].op # o /\ o \in Behind(calls[i])
    IN Op(o).byUser /\ Op(o).anyRow /\ Op(o).changes # {} =>
         Cardinality(sent) + (IF awaiting THEN 1 ELSE 0) <= 1
=============================================================================
