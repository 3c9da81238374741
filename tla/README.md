# mailserver-ui: specification and proofs

mailserver-ui is a web interface for docker-mailserver. Its backend (FastAPI, `src/backend/app`)
keeps its own accounts in SQLite and edits a running docker-mailserver through `docker exec`; its
frontend (Angular, `src/frontend/src/app`) is a client of that API. There are no backend tests in
the repository. This directory holds TLA+ modules for the parts where state changes meet
concurrency and failure, TLC configurations that check them on small instances, and TLAPS proofs.

## How the program runs

The Dockerfile starts `uvicorn --workers 2`: two processes share the database and the container,
nothing else. Inside a process:

- an `async` handler runs until its next `await`, then any other handler may run. Every SQL
  statement is an `await`. With aiosqlite in its default mode a SELECT is outside any transaction,
  a transaction begins at the first INSERT, UPDATE or DELETE, and DDL commits by itself;
- most mailbox routes call `docker exec` synchronously and block their process's event loop;
  mailserver and Fail2ban routes, and the mailbox routes for filters, features and usage, run in
  threads, so any number of them overlap;
- a `docker exec` that times out kills the client. The command in the container goes on.

So two requests interleave at each SQL statement and at each command, whichever process they are
in. Every module of the backend has one action per such step and a set of `Slots`, `Procs` or `Threads`:
with one element requests follow one another, with two they overlap in every way.

The frontend runs in one thread per browser tab, and its handlers are `async` too: a handler runs
up to `await` on a request, any other handler may run before the answer arrives, and answers of
different requests arrive in any order. Nothing is cancelled: the answer of a request whose scope,
panel or tab has been left is still used. The modules of the frontend therefore have a set or
sequence of requests in flight, and separate actions for sending one, serving it, its answer and
its failure; a failure may come before or after the server has carried the request out.

## Inventory

| Component | State | Operations | What is hard | What makes it correct |
|---|---|---|---|---|
| Accounts, groups, tokens (`user_service`, `group_service`, `pat_service`, routers `users`, `groups`) | tables user, group, user_group, pat | create, delete, (de)activate, group CRUD and membership, issue and revoke tokens, OIDC upsert, seeding | check in one statement, write in another; foreign keys not enforced; ids of deleted rows reused | unique names, complete deletion, last administrator, guest by default, token limit, only the owner revokes |
| Mailboxes (`mailbox_service`, router `mailboxes`) | `postfix-accounts.cf`, `dovecot-quotas.cf`, `postfix-virtual.cf`, a Sieve file per mailbox | create, delete, password, quota, aliases, filter | whole files rewritten from old copies, no lock, four commands per deletion, late commands | one line per mailbox, deletion leaves nothing, other mailboxes untouched |
| Files in the container (`container.py`) | a file, its temporary name, open descriptors | read, replace, delete, time out | one temporary name for all writers; a killed client ends the input | atomic replacement |
| Pending restarts (`pending_action_service`, routers `pending_actions`, `mailserver`) | table pendingaction; what the running container has read | save and mark, list, dismiss, restart and clear | restart blocks for seconds; mark and write are not one step; failures swallowed | every save listed, nothing cleared that was not applied |
| Rate limiting (`security.py`) | deques of hit times, sweep time, longest window | check, sweep | one sweep for buckets with different windows; rounding | no more than the limit in a window, Retry-After suffices, idle buckets go |
| First start (`database.py`, `main.py`) | schema, seeded rows | create, migrate, seed | two processes start together, DDL commits by statement | every process becomes ready, no data lost |
| Sign-in and sessions (`auth.py`, `depends.py`, routers `auth`, `oidc.py`) | signed cookies, discovery cache | log in, log out, callback | cookie outlives its account; claims mapped late | a principal is a live account |
| DKIM keys (`mailserver_service`, router `mailserver`) | the key files of OpenDKIM and of Rspamd, `dkim_signing.conf` | generate, migrate from one to the other | a migration of many commands, in a thread, that fails, overlaps or lands late; the signer changes | the configuration names keys that are there, and none is forgotten |
| Relays, exclusions, aliases, restrictions, Rspamd, LDAP, TLS (`mailserver_service`) | config files | rewrite one or two files | two files per relay | files agree |
| Fail2ban (`fail2ban_service`) | jails, policy and override files | ban, unban, save | container toggle read before the command | as for config files |
| Audit and mail (`audit_service`, `mail_service`, `settings_service`) | tables auditlog, oidcsettings, mailsettings | record, purge, notify, seed on first read | written after the change, failures swallowed; two processes seed one row | one settings row; a purge keeps what is younger |
| Frontend session (`auth.service`, guards, interceptor, session dialog, user menu, login) | mirrored user, route, dialog flag, cookie | probe, navigate, sign in, sign out, 401 | answers of an older session; a sign-out that is itself refused; sessions that end elsewhere | routes are entered with their role, an ended session is noticed, the dialog leaves nobody signed in |
| Frontend pages (`features/*`) | per page: what is open, fields read from the API, busy signals, error banners | load, change and reload, save, choose a scope, panel or tab | answers out of order, shared busy signals and banners, reloads that fail, editors saved under another scope | what is shown is what the server holds, or the page says otherwise; no dead button; nothing sent twice |
| Bell (`pending-actions.service`, `pending-actions-bell`) | areas last heard of, restart in progress | poll, open, dismiss, restart | stale polls, failures nobody catches, the bell is destroyed and created again | the badge catches up with the server's list |
| Reports (queue, statistics, logs, DNS, environment) | none | parse command output | formats | results against a reference definition |

Requests enter through the limiter (`RateLimiter`), are authorised from the accounts tables
(`Accounts`), and then change the tables, mailboxes (`Mailboxes`) or settings (`PendingRestart`);
the last two do it through `container.py` (`ConfigStore`). `Mailboxes` and `PendingRestart` treat
one file replacement as atomic: that is what `AtomicFile` says and what `ConfigStore` is shown to
implement as long as writes of a file do not overlap. On the other side of HTTP the parts of
the frontend share little state (the mirrored user decides whether the bell is there), so that
`MCFrontend` runs each by itself: what the others do to it is an action of its own, `Unmount` and
`Mount` of the bell, `PageCall` and `Poll` of the session. `MarkPending` and `Left` of `Bell` are what
`PendingRestart` looks like from a browser.

## Modules

### Accounts
`users`, `groups`, `links`, `pats` are the four tables by row id; `req` is what each request has in
its local variables. `Arrive` and `Authorize` are `current_user_optional` and `require_admin`; each
route is then its sequence of statements, e.g. `DELETE /users/{id}` is `LoadTarget`, `TargetRole`,
`ListUsers`, `CountAdmins` (`is_last_admin`) and `DeleteUser`. An object once loaded keeps its first
values, as SQLAlchemy's identity map does (`req.row`); an UPDATE writes only the columns that
differ from them. `NewRowId` is SQLite's largest id plus one. Passwords, display names, token expiry and
last-use times are left out: nothing here depends on them.

### Mailboxes
`disk` maps a file to the set of its lines; `late` holds commands whose client gave up. One action
is one `docker exec`. `Execute` is a rewrite that succeeds, fails or is abandoned. `req.alone` is a
history variable: nothing else has gone on since the request arrived. Line order, address syntax
and the doveadm usage report are left out.

### Dkim
`open` is the set of keys OpenDKIM has, `private` and `public` what Rspamd's files of each key hold, `conf` who wrote
`dkim_signing.conf` last and which keys it names; `job` is what each migration has in its local variables. `Migrate`, `ListRspamd`,
`ListOpendkim`, `CheckConf`, `ListKeys`, then `WritePrivate` and `WritePublic` for each key, `WriteConf` and `ListResult` are
`migrate_dkim_to_rspamd`. `Write` is a command that succeeds, fails or is abandoned, and `TakeEffect` lets an abandoned one land;
`GiveUp` is a read that fails. Beside them keys are generated (`Generate`), the
configuration is edited (`Override`), and the container starts with the other signer (`Reconfigure`). `fresh` is a history variable of a
migration: it began with nothing else under way and no copies of an earlier one, and nothing else has happened since.

### ConfigStore and AtomicFile
`ConfigStore` is one file at the level of inodes: names point to inodes, an open descriptor keeps
its inode, content arrives in chunks. `AtomicFile` is an atomic register. `FileSpec` states
the refinement with the mapping under `File`; `apart` records that no two writes have overlapped
and no write was abandoned. `write_config`, `delete_config`, `read_file`/`read_config` are `OpenTmp`-`Copy`-`Move`,
`Remove`, `OpenRead`-`ReadChunk`; `GiveUp` is the timeout of `_run_docker`.

### PendingRestart
`stale` is the set of areas whose file the running container has not read, `rows` the
pendingaction table. A save is `Write`, `FindRow`, `Mark`; a restart `Reboot`, `ListRows`, `Clear`;
a dismissal `ListRows`, `Clear`. `Fail` and `Crash` are a failing command and a worker that stops,
`RestartOutside` a restart by an operator.

### RateLimiter
`hits` maps a bucket (scope and client) to its deque, `clock` counts fractions of a second
(`Second` ticks in one). `Arrive`, `ReadClock` and `Check` are `dispatch` and `check`, from the
clock reading to the end of the critical section. `log` and `promise` are history: the last
`Limit + 1` allowed hits, and when a refused client was told to return. `Threads` is what may be
inside the middleware together: one element per process as it is deployed.

### Startup
`tables` says which tables exist and which have their unique indexes (`bare` is the state between
CREATE TABLE and CREATE INDEX), `columns` which of the added and renamed columns exist, `mapping`
the two columns of the OIDC settings row, `admins` the accounts with the seeded name; `worker` is
each process with what it has found out. `LookUp`, `CreateTable`, `CreateIndex` are `create_all`;
`ReadNames`, `ReadColumns`, `AddColumn`, `Migrate` are `_migrate_schema`, whose UPDATE opens the
transaction that the drops belong to; `FindAdmin`, `Seed`, `Purge` end the `lifespan`. An error
that nobody catches is `Exit`, and `Restart` is uvicorn's. `Edit` is an administrator's change of
the mapping through a worker that is ready. The two renamed columns of the settings row are one here.

### PageOps, MailserverPages, AdminPages, Page
The 23 pages have 85 handlers of two forms (quoted at the head of `PageOps`): a load, and
a change that may await reloads. `PageOps` is the vocabulary: a handler is a record that says which
signal and banner it uses, the form it is in, what hides or disables its control, what it changes at the server, what
its answer shows, and which loads it awaits; `Load`, `Change`, `Submit`, `RowChange` and `Save` build
the usual ones. `MailserverPages` and `AdminPages` describe each page that way, with what is odd about it
set by EXCEPT: `users.deleteGroup` borrows the signal of the password form, `fail2ban` loads a tab once
and keeps the policy it has sent. `Page` gives the records their steps; its variable `page` holds the
description of the page that runs (`Running`) and never changes.

| Code | Page |
|---|---|
| the constructor's `void this.load()` | `PageInit` |
| a button: what disables or hides it in the template | `Enabled`, `Rows` |
| the handler up to its first request | `Click`, or `Reject` when the form does not pass |
| `startCreatePat`, `startCreateUser`, `startCreateGroup`, `startEditGroup` | `OpenForm` |
| `cancelCreatePat`, `cancelCreateUser`, `closeGroupForm` | `CloseForm` |
| `setScope`, `toggleManage`, `startEditingGroup`, `setTab`, `goToPage` | `Select` |
| the server's handler | `Serve` |
| after the await: `field.set(answer)`, the reloads | `Land` (`Shown`, `Started`) |
| `catch`, `finally` | `Fail` (`Refused`), `Ended` |

What the user types and the texts are left out; a field is a *cell*: the key it was read for, and
whether the server has changed it since (`as`). A cell that is wrong is wrong in silence when no banner of
a control on the screen says so and no request in flight will set it right (`UnderRepair`). The code
does have ways to be wrong in silence, and `why` names the six the model knows. `NeverSilentlyWrong` says that the
requests, failures, clicks and forms that are modelled lead to no other:

- *crossed*: the answer for another scope or mailbox is shown under the one now open (`sieve.ts:31`);
- *overtaken*: an answer older than what is shown replaces it;
- *wiped*: the next action, a rejected form, a closed panel or a form opened or cancelled takes down the banner. One case is
  `fail2ban`: after a failed load, Save policy takes down the banner the two forms of its tab share, and Save configuration is offered
  over a file that was never read;
- *unseen*: the request failed after its panel, its tab or its form was left: `profile.createPat` cancelled with its
  request in flight puts its banner into a form that is hidden (`profile.html:179-211`);
- *reverted*: a save succeeded over a form that was read again since it was sent. `onSavePolicy` of `fail2ban` does not show its
  answer (`fail2ban.ts:289-291`), and a refresh, which it does not disable, may have put the old policy back;
- *gap*: a handler of `KnownGaps` reloads too little (`users.deleteUser` leaves the open member panel; creating,
  changing and deleting groups and members leave the effective roles in the list of accounts;
  `dkim.onGenerate` leaves the migration candidates).

A form is on the screen while `ui.forms` has it. A handler with a `form` is offered, and its banner seen, only then; success
closes it, and Cancel closes it at any time, its request in flight or not. `keeps` marks the save whose answer is not shown: its request
remembers whether the form was read since (`kept`), and its answer leaves the form as it is. `ui.loaded` is
the loads of tabs that have succeeded once (`policyLoaded`, set by `loadPolicy` only).

### OverrideFiles
The list of files under `override.d/` on the rspamd page, which no record of `PageOps` describes: the answer of a request for one file
is worked into the rows that are there when it arrives.

| Code (`rspamd.ts`) | OverrideFiles |
|---|---|
| `overrideFiles()`, by name; the files at the server | `listed`, the rows of each name, `"new"` or `"old"`; `onDisk` |
| `savingFile`, `deletingFile` (a name), `creatingFile`, `saving`, `loading` | `signal` |
| `error()` | `told`, the files the message is about |
| the handlers up to the request; a name or command refused | `AskFiles`; `RefuseInput` |
| the server's four handlers | `ServeFile` |
| `.map` (217), `.filter` (238), append (272), `.set` (110, 190) | `RowsAfter` in `LandFile` |
| `catch`, `finally` | `FailFile` |

The page's other half, the commands, is `Rspamd` in `MailserverPages`; they share `load`, `onSave`, the banner and its buttons, and each model
has all five handlers with the part of their effects it is about.

Two requests about one file may overlap: a row's button looks at the signal of its own kind only, and a request for another row
takes that signal over. Then a save finds no row to replace, because the answer of a deletion has filtered it, although the file exists
again; or a creation appends a second row to the one `onSave` has brought. `mixed` records of each request the files about which another was
in flight meanwhile, and `doubted` the files whose row is wrong after such requests, or after a banner about them was taken down. `FilesShown` says
that every other wrong row is announced or has a request about it in flight: requests for *different* files may overlap and be answered in
any order, and a request about a file that no other is about leaves its row right or says why not.

### Session
`cookie` says whether the browser's session is one the server accepts, `role` what it would grant;
`user`, `loaded`, `route`, `expired` are the signals of `AuthService`, the router and
`SessionExpiryService`; `nav` is the first navigation, which waits for the probe. `requests` maps each kind of
request to the cookie it was sent with, so that a 401 of an old session may arrive over a new one.
A cookie the server refuses and a missing one are the same; a redirection is followed at once (`Resolve`), since
every guard after the first decides without waiting; routes with the same guard are one. `Expire` and `ChangeRole` happen at
the server at any time.

### Bell
`pending` is the server's list, `items` the service's, `asks` the requests in flight. The service lives
as long as the application, the bell as long as an administrator's shell: `Unmount` leaves its requests
in flight (`mine` becomes false), and their answers still change `items`. Only the failure of
a restart is caught; that of a poll or dismissal changes nothing.

## Runs

| Run | Instance | Shows |
|---|---|---|
| `accounts_serial` | 1 request at a time, every operation, 3 names, 2 account ids (so ids are reused), 1 group, 3 tokens, limit 2 | `TypeOK`, no orphaned membership or token, a new account is a guest, OIDC leaves local accounts alone, only the owner or a deletion removes a token |
| `accounts_overlap` | 2 overlapping requests, 2 names, 2 account ids, 3 tokens, limit 1, the operations that make and unmake what an account owns | unique names, and the token limit exceeded by at most one per other request |
| `accounts_demote` | 2 overlapping requests | violates `LastAdminKept` |
| `config_dir` | either the mailboxes: 1 request, every operation and fault, one late command, 2 addresses, 2 passwords, 2 quotas; or the DKIM keys: 2 migrations, 2 domains with a key each, every fault, one abandoned write | `TypesOK`, `OneLinePerMailbox`, `DeleteRemovesAll`, `OwnLinesAlone`, `NoHalfMailbox`; `SigningNamesKeys`, `MigrationSigns` |
| `mailboxes_lost` | 2 overlapping requests, no faults | violates `OwnLinesOnly` |
| `config_apart` | 2 commands, documents of 1 and 2 chunks, abandoned clients | `WholeWhileApart` and the refinement `FileSpec` |
| `config_two_writers` | 2 commands | violates `NeverHalfWritten` |
| `restart_faults` | 2 overlapping requests, 2 areas, every operation and fault | `OneRowPerArea`, `SaveRegisters`, `RestartClearsAlone` |
| `restart_overtaken` | 2 overlapping requests, no faults | violates `RestartClearsApplied` |
| `limiter_window` | 1 thread, 1 client with two buckets (2 hits in 1 s, 1 hit in 2 s), ticks of half a second, a sweep every 3, 12 ticks | `WindowLimit`, `IdleSwept`, `RetryAfterSuffices` |
| `startup_races` | 2 workers, 4 tables, a new database or an old one with or without an administrator, one worker killed anywhere | `ReadyMigrated`, `SchemaComplete`, `OneDefaultAdmin`, `MappingKept`, and the liveness property `AllStart` |
| `frontend` | each of the 23 pages, with 2 keys and 2 requests in flight; 2 override files with 2 requests in flight; the session with 4 routes, 3 roles and one request of each kind, pages sending while fewer than 2 are in flight; the bell with 2 areas, 2 polls and 1 change in flight | `TypeOK`, `NothingSilentlyWrong`, `OverridesShown`, `SpinnersMeanWork`, `NothingSentTwice`, `EnteredWithRole`, `DialogEndsSignedOut`, and the liveness properties `ExpiryNoticed` and `BadgeCatchesUp` |

The bounds: two overlapping requests are enough for every race found, since each needs a check, another
request's write, and the write the check was for; id bounds of two or three let an id be
freed and reused; two documents of different lengths let a short one overwrite the start of a
long one; `MaxLate = 1` and `MaxAbandoned = 1` let an abandoned command land under a later request; 12 ticks are six
short windows, three long ones and four sweeps, and the clock starts anywhere below. `MaxId` of
`PendingRestart` leaves room for every request in flight (guard of `Arrive`), so the bound never
blocks a request that was admitted. Account and token ids are bounded in the guards that insert.
Mailboxes and keys share no file and no lock, so a behaviour of `MCConfigDir` is one of either. Two domains with one selector
each let a migration be cut short between two keys; `DkimProofs` covers several selectors of a domain.
Deadlock is checked in every run: a slot that is idle can always take another request.

`Startup` has the tables `auditlog`, `oidcsettings`, `user` and `pat` in `create_all`'s order: one
that is only purged, one with a renamed column, one with an added column and a unique index, and one
that old databases lack. `group` is left out of the instance, since its added column is like that of `user`. `RetentionDays` is 30, so that
`Purge` reads the table; with the default of 0 (`config.py:43`) it returns at once, and the same properties hold.

The bounds of `frontend` are in the guards of what the user does, never of what the server or the network
does. `MaxCalls`: two requests are enough for two answers to arrive in the wrong order; a click that sends or awaits several adds them
all, so that up to four are in flight. `Patient`: the user stops once a cell is marked wrong,
and the requests in flight are still followed to their ends. He also stops while an error banner is up, except on the pages of `Undaunted`,
where he goes on with one: what an action does to the banner of an earlier one is checked there. That
leaves `users`, `mailboxes` and `fail2ban` without actions under a banner in this run, and the four report pages, which
have no action but a refresh. On those pages he also sends or cancels an open form before he turns to anything else (`Focused`),
which only `users` is about. The theorems hold for any value of `MaxCalls`, `MaxAsked` and `Undaunted`; `Patient` and `Focused` themselves are part
of the specification they are about. A row's own button is not pressed again while its request is under way: on pages where one signal holds
the id of the last row, another row's request re-enables it, and the second request would find the row gone.
Handlers whose button is disabled for every row are about one row, the others about two. Two tiles stand for the
ten of the dashboard, which are alike and apart. `Files` = {f, g} and `MaxAsked` = 2 let two requests be about one file
or about two; a third file would behave like the second. `MaxRequests` bounds how a page adds its requests to those of the bell and of the
sign-outs; `MaxRefreshes` = 2 lets an old list arrive after a new one. Deadlock is not checked in this run alone: a
report page with a failed load and no refresh button stops for good.

Fairness: `Startup` states weak fairness of each worker's `Start`. A worker that is starting runs by
itself, and uvicorn's supervisor starts a process in the place of one that died. `Crash`
and `Edit` are not fair, and the kills of a behaviour are bounded by `MaxCrashes`: a worker killed
again and again never becomes ready. `AllStart` is not obvious, since every worker that loses a race for a
column fails: it holds because each failure leaves the database further than the worker that failed had seen.
In `frontend`, the bell's timer ticks (weak fairness of `Poll` and `BellPoll`: `setInterval` runs while the bell is
there), every request of the bell ends, answered or failed (weak fairness: the browser gives up in the end), and of polls
repeated for ever some are served and some answered (strong fairness: a network that fails every
poll for ever gives no news of the server). Nothing is fair about what users do, so `BadgeCatchesUp` is about a list that
stays as it is from some time on (`<>[][UNCHANGED pending]_pending`), and `ExpiryNoticed` ends where the user leaves. `BadgeCatchesUp` is not obvious: a dismissal's answer
filters what is held by then and a stale poll may bring anything back. Every other property is a safety property.

### What the code does not do
The four violation runs are disagreements between the code and its own text, quoted in
`PROJECT.json`: the last administrator can be lost to two overlapping deactivations; a rewrite
undoes another mailbox's change; `write_config` shares its temporary name; a restart takes a
setting off the list that it did not apply. Other races that the models contain are listed
as hazards without a run of their own: an id reused between two statements of a membership, token
or OIDC request; a token limit exceeded under overlap; a quota, alias or filter written for a
mailbox deleted meanwhile; two creations of one mailbox that both succeed; a save refreshed after its row was deleted;
a worker that serves requests while its
sibling still creates tables, although the comment at `database.py:127-129` takes them to be there; and a
worker killed between a table and its unique index, which no later start adds. A DKIM migration cut short after
its first public file strands that domain: `dkim_migration_candidates` takes it for migrated, so the retry skips it, or answers that no key
is left, and `dkim_signing.conf` never names it: its mail stays unsigned until somebody writes the file by hand. `MigrationSigns` is
therefore about a migration that finds no copy of an earlier one. The matching properties
(`NoOrphans`, `NewAccountIsGuest`, `LocalAccountKept`, `OnlyOwnerRevokes`, `DeleteRemovesAll`,
`OwnLinesAlone`, `NoHalfMailbox`) are therefore stated and checked without overlap.
In the frontend, besides the six ways above and the files in doubt: the session dialog promises to be lowered "once the user has been sent back to the login
page" (`session-expiry.service.ts:19`), but its sign-out is answered 401 in just the case it is there for
(`routers/auth.py` requires a user), `navigate` is skipped and the `finally` lowers the flag: the page stays, without its shell,
until a request of its own raises the dialog again or the user navigates. A 401 sent before a new sign-in raises the dialog over the new session. Users
who are not administrators have no bell and notice an ended session only at their next request.
`LastAdminKept` is checked only under overlap: without it the refusal to remove oneself already implies it.

## Proofs

TLAPS proves the following for every value of the constants that satisfies `ConstantsOK` (`DkimConstantsOK` for the keys, `KeysApart` and `FilesApart` for the frontend).

- `AccountsProofs`. `Typing`: `TypeInv` adds to `TypeOK` that a request at a stage has what that stage
  reads (`ParametersOK`, `StageOK`). `Deletion`: the only step that frees a user row also takes its
  links and tokens (`UserRows`). `Naming`: an insertion is refused when the name is there, and names
  never change. `PatBurst`: tokens of an account plus requests that have passed the check for it
  stay within the limit plus the other slots; `PatLimitSlack` is not inductive alone, because a request that has passed
  the check holds a token not yet counted.
  Five theorems assume `OneSlot`, requests served one after the other (two that overlap break all five, see the hazards):
  `NothingDangles`, `RevokedByOwner`, `NamespacesApart`, `BornGuest` and `PatLimitSerial`. They rest on `SerialInv`: the
  request's findings are up to date (`UpToDate`), as nobody else writes between its statements (`ReadsUpToDate`), and
  every membership and token names rows that are there, so that a free id is named by nothing and can be used again.
- `MailboxesProofs`. `TypeCorrect` and `OneLineHolds`, for any number of overlapping requests and
  abandoned commands. `OneLinePerMailbox` is not inductive: a write puts back a copy read long
  ago. The invariant `Inv` says that every such copy, and every content an abandoned command
  may still write, has one line per address, and that a creation's copy has none for its own.
  `OwnLines`, `WholeOrNone` and `DeletionWhole` are about a request that is alone, whatever the others before it left: `AloneInv`
  says that no abandoned command is left, that the other slots serve nobody, that what it has read is what the file holds, and that a
  deletion finds every kind of line it has been through still removed (`InSync`); an arrival only ends that (`OnlyActor`).
- `DkimProofs`, for any number of migrations, any domains and selectors, and every fault. `KeysTyped` and `NamedKeysThere`: the
  invariant `KeysInv` says that the blocks a migration has collected, and those an abandoned command may still write, name
  private files that are there, and that a migration at a public file has written the private one; no step takes a private file away
  (`ApplyFiles`, `StaysOK`). `NoKeyForgotten`: `FreshInv` follows a migration that nothing disturbs (`Alone`) and says where each of
  OpenDKIM's keys is at each stage: still to be copied, in a block, or of a domain that has a key of Rspamd's own.
  `ServicesTyped` and `ServicesKeepPromises` carry these and the mailboxes' theorems over to `MCConfigDir`, whose behaviours are of
  the one or of the other: `KeysRun` says that no step hands over.
- `ConfigStoreProofs`, for any number of commands and documents of any lengths. `Types` needs that an inode is always free
  (`FreeInode`, a count of those in use). `WholeFile`: the invariant `Apart` says that one writer at
  most is at work, that the temporary name is its own and holds as many chunks as it has copied, and that what readers have open is
  a whole document under another inode; it holds as long as `apart` does. `Refinement`: under the mapping `File` every step is a step of
  `AtomicFile` or a stutter. What makes it one is `Untouched` (no step changes an inode that the name points
  to or that a reader has open), `Copied` (what is moved is the whole document) and `ReadWhole` (a read that ends has read what it opened).
- `PendingRestartProofs`, for any number of overlapping requests, any areas and every fault. `Types` and `OneRow`: an
  insertion takes a free id for an area that is not listed. `SavesRegister` and `RestartsClear` are about requests
  that have met nothing of some kind, and rest on `MetOK`: of two requests in flight each has met the other (`MetStep`), so
  that a request that has met saves only runs beside saves only (`Beside`). `FoundStays`: the row such a save
  has found is not deleted before it is refreshed. `NothingStale`: beside no save, a restart that is past its reboot
  has left no file unread. `OwnRecord`, `Arrival` and `Admission` say once what any step does to the records of the requests.
- `RateLimiterProofs`, assuming `OneThread`. `Kept` relates a bucket to the history of its key: it is the
  end of it, and what is missing has left the window at the time the next check will use. With
  that, `WindowLimitHolds`, `IdleSweptHolds` (every bucket's window is within the sweep's horizon),
  `RetryAfterHolds` (a full bucket lost nothing, so its oldest hit is the one the promise was made
  from; `RoundUp` is the arithmetic) and `TypeCorrect`. With two threads a check may use a
  time earlier than a recorded hit, and `Kept` fails.
- `FrontendProofs`, for any set of keys that a page can list or open (`KeysApart`: none of them is a word that stands for something
  else), any names of files, any number of requests in flight, and all 23 pages. The theorems are about `MCFrontend`'s `Spec`, the one the run checks,
  and rest on `Inv`, which joins an invariant of each part.
  *Pages.* `PagesFit` says of each page's description what the rest needs of it: what a handler blanks and loses is
  among what it changes or shows, it reloads only loads, and the busy signal of a change that disables its button for every row
  (`Exclusive`) is shared only with handlers that respect it. One lemma per page reads this off the description.
  `PageInv` is then preserved by every action on any page that fits. Signals and requests are typed, and a request knows the
  handler that awaits it (`GoodCalls`). `FlagsHeld`: the signal of an exclusive change is up as long as its request, or the reloads it
  awaits, are in flight, and no other request holds it; hence `SentOnce`. `NothingSentTwice` alone is not inductive: it does not
  say why the button is disabled when the next click comes. `Working`: a signal that is up has a request behind it; hence `NoIdleSpinner`. What makes it inductive is that
  the last of the loads a handler awaits lowers its signal (`WorkingDown`).
  `Told` is what `NothingSilentlyWrong` needs: of every field, on the screen or not, its cell says how
  it went wrong (`why`), or a banner is up where the field is (`Warned`), or it is under repair, or it is of a tab not opened yet and
  will be read with it (`Untouched`). `NothingSilentlyWrong` alone is not inductive: it says nothing of the tabs that are not
  open, and not where their banners will be seen. For it `PagesFit` also says of each page (`Tells`) that a handler sets, by its answer or its
  reloads, every field it changes, or the change is a known gap (`Mends`); that its failure has a banner wherever the fields are that it
  would have set (`Announces`, `StaysUp`); that what is on the screen is read with its key (`ChoiceTells`, `TabsTell`). A control in
  a form covers no field (`Covers`): its banner may be put up where nobody sees it, and then the cell is marked unseen. One lemma per action keeps `Told` (`ToldClick` to `ToldLand`): a banner that goes
  down marks what it leaves (`QuietTold`), a request that is served outdates others but mends the field itself (`ServedMends`), an answer for
  another key is marked crossed and a form left as it was is marked reverted unless it is right (`ToldShown`). Hence `NeverInSilence`. The steps of a handler (`StartedIs`, `EndedIs`, `ShownIs`, `RefusedIs`) and what each action does to the requests
  (`ClickAsks`, `SelectCalls`, `ServeCalls`, `LandCalls`, `FailCalls`) are lemmas of their own, cited by each part.
  *Override files.* `FilesInv`. Two requests in flight about one file both know it (`OverlapsKnown`), so that a request whose `mixed` leaves
  the file out has been the only one about it since it was sent; then what it was answered is still what the server holds, and the rows it
  was sent for are still the rows there (`Sure`): a save has a row to replace, a creation finds none. A file listed twice
  is in doubt until an answer has put it right (`RowKnown`). Hence `FilesAccountedFor`.
  *Session.* `Resolve` ends every navigation at a route (`ResolveAdmits`), for all roles. `GuardsHold`:
  every step that changes the route takes it from `Resolve` of the user it leaves mirrored, so a
  guarded route is entered with its role, one case per action (`StepEnters`). `DialogSignsOut`: the flag falls
  only in `onSignInEnds`, whose `finally` of the inner call clears the user, or with a page load.
  *Bell.* `BellInv`: its signal is up only while its own request is among those in flight, whichever are answered first.
- `StartupProofs`, for any number of workers (`ConstantsOK` asks for one), any tables in any order, and kills anywhere. The
  database only moves towards the models' shape (`Monotone`), so what a worker has read of it errs on one side. `Types`.
  `ServesMigrated`: the invariant `Informed` says that what a migrating worker does not know of is in shape already, so that once
  it has done what it knows of, everything is (`Migrated`), and stays so. `KeepsMapping`: only an edit changes the
  group in force. `CompletesSchema`: a worker whose `create_all` is cut short leaves tables to others, and somebody has to be left:
  tables come into being in their order, because the creator of one has every missing one on its list (`Listed`, `StaysOrdered`);
  so whoever created the last leads (`CreatorLeads`), that is, nobody has created what is on its list, and a leader gives up
  the lead only to another, or when no table is missing (`LeaderStays`). `SeedsOnce` assumes `TwoWorkers`, as in the `Dockerfile`
  (line 65): while the unique index is missing its creator is on the way to it, and only the other can seed. The assumption is
  needed: TLC finds two seeded administrators with three workers and nobody killed, so raising `--workers` would break this.

Only model-checked: the liveness properties `BadgeCatchesUp`, `ExpiryNoticed` and `AllStart`. Out of the prover's
reach and left to TLC for good: liveness, ENABLED, and what recursive definitions compute.

## Not modelled

In the frontend: what is typed and how it is validated (a form passes or not), success messages, filters, sorting,
the clipboard, the theme, the about page, `loadConfig`, and the loads of features and of the provisioner that only hide a
notice; the models of `core/*.models.ts` are types without behaviour. Several tabs are several
behaviours: what another tab does is an action of the server (`Expire`, `MarkPending`), and of the pages none, since each page is
alone at the server in `Page`; what others change there is not announced to any page. Password hashing, cookies' signatures, headers, static files: library calls or no state. Formats of config
files, logs and command output are abstracted to lines and documents. Of `client_ip.py`, the
address a request comes from is a parameter. Everything else that is missing is in the plan.

## Plan

In the order of importance.

1. `ManagedFiles`: the settings of `mailserver_service` as a family of file rewrites over `AtomicFile`: relays with
   their SASL credentials, exclusions, system and regular-expression aliases, restrictions, Dovecot
   masters, overrides, and the repeated DKIM migration that leaves a domain out; the property is that two files of one setting agree whenever no request is at work, and after a retry.
2. `Sessions`: cookie, account and OIDC state on the server, which `Session` sees as one bit and a role.
3. `Audit`: append, purge, seeding of single-row settings by two processes, notification in the background.
4. Pure operators, checked against reference definitions over bounded inputs: statistics of the
   mail log, log timestamps, role mapping of claims, client address behind proxies.
5. A run of its own for the session dialog, as a refinement of "expired until back at the login page", and `users`,
   `mailboxes` and `fail2ban` with actions under a banner, when their state spaces allow.
6. Proofs about `ManagedFiles` and `Audit` when they are there; that `Page` composed with the server's own modules
   shows what those keep.
