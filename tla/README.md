# A TLA+ model of the axum template server

This directory holds TLA+ modules that model the server of the template in
`src/template/PROJECT` (a Rust program on axum, tower-sessions, sqlx/SQLite and
rustls), the TLC configurations that check them, and proofs checked by TLAPS.
Paths below are relative to `src/template/PROJECT/src` unless they start with
`src/` or `frontend/` (which is `src/template/frontend/src`).

## 1. Inventory

### 1.1 Parts, their state and their operations

| Part | Source | State | Operations |
|---|---|---|---|
| Session store | tower-sessions over SQLite; `server.rs:241-276`, `middleware/user_session.rs` | one row per session: the serialized `UserSession` (user, visit count, CSRF token, addresses) and an expiry date | load, whole-record save at the end of a request, flush (logout), expiry, deletion task |
| CSRF protection | `middleware/csrf_protection.rs` | the token in the session; the tokens a page has kept | compare on POST/PUT/PATCH/DELETE |
| Login and logout | `routes/login.rs` | the request's copy of the session; the user row it has read | password, forward-auth and OIDC login, logout |
| User accounts | `models/user.rs`, `migrations/*.sql` | `[user]` rows (status, username, external id), password hashes, roles | select, get-or-create, verify, set password |
| Forwarded-for, header authentication, roles | `middleware/trusted_*.rs`, `require_role.rs` | none: decisions on peer, headers and session | allow, reject (400/401/403/500) |
| Administration API | `routes/admin.rs` | none: pages over the session table | list sessions, get user |
| Events and shutdown | `routes/events.rs`, `server.rs:83-209, 298-325, 475-508, 688-739` | broadcast channel, open connections, deletion task, exit timer | subscribe, signal, broadcast, abort, drain, forced exit |
| Self-signed / local-CA certificates | `tls/generate.rs`, `tls/self_signed_cache.rs` | CA and leaf files on disk, the pair in use | load or generate, renewal loop |
| Private file writes | `util/write_files.rs` | files, temporary files | create directory, atomic write |
| ACME DNS-01 | `tls/dns.rs`, `server.rs:439-472, 570-685` | account and certificate files, TXT record, order | register, order, publish, poll, finalize, persist, reuse |
| Configuration and command line | `config/*`, `commands/serve.rs`, `main.rs` | root directory, `defaults.toml` | rewrite -v, parse twice, create the file, validate, plan the TLS mode |
| Operator commands | `commands/set_password.rs`, `sql.rs`, `acme_dns_register.rs` | the database, files | migrate, set password, run SQL, register |
| Login form | `frontend/lib/components/login_form.svelte` | token and identity the page shows | whoami, login, logout, retry |
| Pages | `frontend.rs` | none: embedded files | serve a page with the session's token in it |

### 1.2 How they interact

`routes/mod.rs:31-96` orders the layers: session layer, trace, forwarded-for,
`user_session_middleware`, OIDC (if enabled), then CSRF and (for `/admin`) the
role check around the handlers.  `/api/events`, `/` and `/{*path}` are added
after those layers and run without them.  All requests share the session table
and the user table; a request holds its own copy of the session between its
awaits, and the session layer writes the whole record back when the handler has
answered.  The deletion task shares the session table.  The renewal loop shares
the certificate files with the next start of the process, and the running
configuration with the acceptor.  Shutdown touches the SSE streams, the
deletion task, the listener and a forced-exit timer.  Commands and servers that
are started on the same root directory share `defaults.toml`, the database with
its migrations, the certificate caches, the credential files and the address.

### 1.3 What is hard, and what makes each part correct

| Part | Hard behavior | Correct when |
|---|---|---|
| Sessions, login, logout, CSRF | copies of one record in concurrent requests; whole-record writes; answers out of order; lost answers; expiry and deletion under a request; failed saves; status read before an await | a token belongs to one session for good; a login comes only from checked credentials of the same browser; browsers never share a session; a session that is gone stays gone; one request at a time behaves atomically |
| Accounts | select-then-insert; a row read before an await | a first login creates one row and succeeds |
| Shutdown | broadcast before subscribe, streams that never end, two timers, an aborted task that is awaited | every client hears of the shutdown; the process ends, with status 0 |
| Certificates and files | crash between two writes; leftovers of earlier runs; regenerated CA with an old leaf; clocks | what a start loads is a matching pair and chain; a crash never makes later starts fail |
| DNS-01 | several domains in one record; a CA that looks later; polling limits; crash after registration, between two files | values are there when they are looked at; certificate and key match; a later start gets to serve, without needless orders |
| Administration paging | the list changes between pages, by the reader's own requests too; `limit` at its ends; a role that is taken away | a session that stays is listed once; what is missed is bounded; the reading ends |
| Start, configuration, commands | argument rewriting; settings from four sources; a config file that appears meanwhile; migrations of two processes; boundaries of lifetimes; a plan made after validation | the plan is the one that was asked for; nothing of an operator's is lost; a refused start has changed no database; a good one gets to serve |
| Login form | retry on a stale token | (not modelled, section 7) |

## 2. Plan

| # | Module | State | Content |
|---|---|---|---|
| 1 | `Sessions`, with `BrowserSession` and `SessionRefinement` | done, proved | requests over the session store; the atomic session of one browser as its abstract specification |
| 2 | `Shutdown` | done, proved | signal, broadcast, drain, deadlines, forced exit; liveness under weak fairness |
| 3 | `TlsCache` | done, proved | certificate files over restarts, the atomic write, the renewal loop and its margin |
| 4 | `Dns01` | done, proved | accounts, order, TXT record, validation, polling limits, certificate on disk over restarts |
| 5 | `Admin` | done, proved | pages by offset over a session table that changes between them; the role check of each page |
| 6 | `CommandLine`, `Startup` | done, proved | arguments, settings and their sources, validation, plan, migrations, the commands beside a server |

`Startup` hands over to `TlsCache` or `Dns01` (its step `Material`), to `Sessions` (its
stage `serving`) and to `Shutdown` (its step `Stop`); `Startup` EXTENDS `CommandLine`
and applies its operators to the arguments of each process.  The other modules share no
variables: the code they model meets only in these places and in the user and
session tables, which `Sessions` has together.

All modules are free of RECURSIVE operators, and every module with state but
`BrowserSession` has a module of proofs (section 6).

Every safety property and action property of the runs that pass is proved for every
value of the constants, the serial ones of `Sessions` under the assumption of their
run (`Serial`, section 6).  What is left to TLC is liveness.

## 3. Modules and code

### 3.1 Sessions

One *request* is one run of the middleware stack and a handler.  Its position
`pc[r]` is the await it has reached, so a step of the model is the code between
two awaits:

| `pc` | The request has | Action that leaves it | Code |
|---|---|---|---|
| `unsent` | not been sent | `Send` | browser: the cookie it has now, any token its pages have been shown, or none |
| `sent` | arrived | `LoadSession`; `LoadPage` for pages | `user_session_middleware` and `csrf_middleware`; the fallback of the `UserSession` extractor for routes outside the layer |
| `handler` | passed the CSRF check | `SelectByUsername`, `SelectByExternalId`, `Logout` | handlers of `routes/login.rs` |
| `verify` | read the user row | `VerifyPassword` | `verify_password`, `finish_login_for_user` |
| `create` | found no row | `InsertUser` | `get_or_create_by_external_id` |
| `respond` | a status | `Save`, `SaveError`, `Pass` | tower-sessions' layer: write the whole record, fail to, or have nothing to write |
| `reply` | an answer on its way | `Deliver` | browser: cookie jar, tokens of the page |

`DbError` replaces any database await, `Disconnect` drops the request at any
await, `Expire`, `DeleteExpired`, `CookieExpires` and `Disable` are time, the
deletion task and the operator.

`store` is the session table, `account` the status column of `[user]`, `sess[r]`
the `Session` handle of the request with the record it holds in memory.
`found` and `verified` are the local variables of the handlers that survive an
await; after the request they remain as the record of what it has checked, which
`LoginProvenance` refers to.  tower-sessions is not under `src/`: `LoadRecord`,
`Saves`, `SaveAs`, `Save` and `Pass` are written from how `Cargo.toml` pins it
and the code calls it, and are marked external in `PROJECT.json`.

Abstractions: the random session id and CSRF token that request `r` creates are
the number `r` (128 random bits do not collide); the four fields of a login are
one field `user`; addresses are left out; a redirect answer is an answer 200
(the layer treats both alike); the key axum-oidc keeps in the same record is
left out, as is a password login posted to a server in OIDC mode.  A password is
right or wrong by choice (`ok`).

`BrowserSession` is what the store promises to one browser: visits and a login,
each request an atomic step.  `SessionRefinement` maps a browser's session to the
live row its cookie names, and states what its proof needs (`Serial`, `SerialInv`).

### 3.2 Shutdown

`task` is `shutdown_signal` (`waiting` for the signal, in its 100 ms sleep,
`done`); `conn` and `event` are the connections and the broadcast receiver of
each SSE stream; `deletion` is the deletion task; `server` the serve future;
`timers` the deadlines that are armed.  `Signal` sends the event, `WakeUp` is
everything after the sleep (abort, start of the drain, arming of the timers),
`Drained`, `DrainDeadline` and `ForceExit` are the three ways out, `Return` is
`deletion_task.await??` and the status main makes of it.  `mode` chooses between
`axum::serve` (no deadline of its own) and `axum_server` (one second).

Timers have no clock: an armed timer may fire at any later moment.  That allows
more orders than one and two seconds do, and every safety property holds in all
of them.  `hurried` is a history variable: the 100 ms ended before a stream had
passed the event on; the comment in the code ("Give SSE clients a moment") promises
nothing in that case.

### 3.3 TlsCache

`files` is the cache directory, `tmp` the temporary files next to each file.  A
pair of certificate and key has a number, and a file holds the number of the
pair its contents belong to; `issued` gives the signer and the end of validity
of each certificate.  `stage` is where the process is (`down`, loading the `ca`, the
`leaf`, handing both to `tls`, `serving`, `renew`, `reload`, `retry`), `step` the
position inside loading or making a pair: `look`, `remove_cert`, `remove_key`,
`make`, `create_*`, `rename_*`.  Those are the file-system calls of
`load_or_generate_self_signed`, `delete_cached_pair`,
`generate_and_persist_self_signed` and `atomic_write_file_0600` in order;
`Crash` may come between any two.

`TmpName` is the choice between `.name.tmp` and `.name.tmp.<pid>`; with `SamePid`
every run of the process has the same id, as in a container.  `Load` is the
check `RustlsConfig::from_pem` makes (the key must be the certificate's).  `slow`
is a history variable: time has passed while the process had something to do.
`RenewMargin` is the arithmetic of `serve_self_signed` and of the loop, with the
saturating subtraction of `Duration`.

### 3.4 Dns01

Three groups of actions: `Register` is the command `acme-dns-register`, one step for
each of its effects (remote account, `fs::write` creating and filling the file,
CNAME records the operator creates from what is printed); `Serve` is a start in mode
dns-01 from the look into the cache to serving; `Answer` is the CA.  `stage` says
which call of `load_or_request_dns01_cert` or `obtain_certificate_with_dns01` is next:

| `stage` | Action | Code |
|---|---|---|
| `look`, `remove_*` | `Look`, `RemoveCert`, `RemoveKey` | the cached pair, `pem_cert_is_valid_now`, `delete_cached_pair` |
| `creds` | `LoadCreds` | `AcmeDnsProvider::from_cache` |
| `account`, `create`, `fill` | `LoadOrRegister`, `CreateAccountFile`, `FillAccountFile` | `create_or_load_account` with its `fs::write` |
| `order` | `NewOrder` | the order and the authorizations that are valid already |
| `publish`, `ready` | `Publish`, `SetReady`, `AllAsked` | the loop over pending authorizations |
| `poll` | `PollReady`, `PollTimesOut` | `poll_ready` with its bounded number of tries |
| `finalize`, `write_*`, `load` | `Finalize`, `WriteCert`, `WriteKey`, `FromPem` | certificate, the two files, rustls |

The names of a server have one acme-dns account and so one TXT record, which keeps
the last `TxtKept` values (two at acme-dns).  The loop declares a challenge ready and
goes on to the next name at once, while the CA looks at the record whenever it
likes (`Validate`), after the order was given up as well (`ValidateLate`, for the value
of an earlier order, which leaves an authorization the next order finds valid).  More
names than the record keeps values can therefore push each other out, although
`tls/dns.rs:108-112` and `:120` speak of several domains; `FewNamesSucceed` is what
remains true.  A certificate file is only replaced when the pair in the cache is
unusable, after both files were deleted, so that a crash between the two writes
leaves a pair that is incomplete, never one that is torn (`PairMatches`): where
`TlsCache` renews in place, this one does not.  There is no renewal in this mode;
an expired certificate is noticed at the next start.

The temporary files of the atomic write are in `TlsCache` and left out here.  A
credentials file that was created and not filled is `Torn`: every later start and
command fails on it (it is never rewritten), which is why `Recovers` leaves out
behaviors with a torn file.

### 3.5 Admin

One administrator (`Reader`) reads `/admin/list_sessions` page by page through
`next_offset`.  `rows` is the table in the order of the query, by expiry: a request
that saves its session moves the row to the end (`Touch`), and the reader's own
requests do that too, after each answer (`Save`).  `dead` rows have expired and are
filtered from a page but count in its offset.  `Ask`, `CheckRole`, `List`, `Save` are
the awaits of one page; `World` is everybody else.  `gone`, `still`, `others` and
`late` are history variables of the properties.

What the pages promise is less than "every session once": the model shows that a
session that keeps its place is never listed twice, that it is missed only if
another row has moved away before it, and that the reader alone misses at most one
(because its own row is first moved away from its place).  `limit = 0` is accepted
and gives `next_offset = offset` for ever; `PagingEnds` excludes it.

### 3.6 CommandLine and Startup

`CommandLine` is pure: tokens for `-v`, `-vv`, `-v=n`, numbers, `-C`, values,
subcommands and options (`Token`); `Normalized` is `normalize_verbosity_args`, where a
`-v` takes the next token from the iterator, as its number or to keep it unread
(`Reads`, `Taken`, `Kept`); lists are rewritten by picking places (`Picked`) and letters
are counted as pairs (`Total`), so that both can be proved about; `Accepted`,
`Command` and `Level` are what clap makes of the result; `ArgsAfter` what the second
parse gets.  `U8Max` is the largest value of the counter.

`Startup` runs the commands `serve`, `config`, `sql` and `set-password` in processes
that share root directory, config file, databases and address:

| `pc` | Action | Code |
|---|---|---|
| `parse` | `Parse` | `run_cli`, first parse |
| `root` | `EnsureRoot` | `ensure_root_dir` |
| `look`, `create`, `fill` | `LookConfig`, `CreateConfig`, `FillConfig` | `ensure_config_file_exists` |
| `load` | `LoadDoc` | document, second parse, the three validations |
| `plan` | `Plan` | `plan_serve(...).expect("plan")` |
| `open`, `pending`, `migrate` | `OpenDb`, `ReadApplied`, `Migrate`, `Migrated` | `init_db`, one transaction for each migration |
| `password`, `store`, `sql` | `ReadPassword`, `StorePassword`, `Sql` | the operator's commands |
| `oidc`, `material`, `bind` | `Oidc`, `Material`, `Bind` | the rest of `run` |

A source of settings is a function from the names it mentions to values; `Merge`
takes the first of arguments, environment, document and defaults.  `Cases` are the
inputs: arguments, environment, document and what the start finds on disk.  An
operator's file is moved into place as a whole (`PutConfig`).

A plain bool in the environment has two readers.  The parser reads what it does not
recognise as true (`On`); `env_bool` refuses what is not in its own list (`BoolWords`),
after trimming and lowering it, and accepts the empty word (`BoolRefused`).  Words come
in classes: "yes", "no", a "no" that is padded or in capitals, the empty word, and a
typo.  The parser is the crate conf, whose list is not in the repository, so
`FalseWords` is a constant: the theorem holds for every list, the run takes the
smallest, {"no"}, in which both other accepted words are read as true (`Misread`).

A database URL names a file or memory and may have parameters (`Urls`), and has two
readers as well.  `serve` and `set-password` give it to sqlx (`SqlxDb`), `sql` strips its
scheme and gives the rest to the sqlite3 shell (`ShellDb`), parameters included.
`opened` is what each process has opened, and everything that is read, migrated or
stored afterwards is read and written there; a database in memory is the process's
own, and new at every start.  Percent escapes and blanks around the URL, which the two
take differently too, are not told apart from parameters.

What the model shows beside its properties, and what a reader of the code may
stumble on: in `-v -v=2 -v=0 config` the `-v` takes the `-v=2` unread and keeps it, the 0
asked for last adds nothing, and the parser reads the kept `-v=2`, so that the level is
2; this is the one case in which accepted arguments do not mean what they say, and
`ArgsMeanWhatTheySay` names it (`Shadowed`); `-v -v` is refused, because the rewriting passes the second one on beside the `-v 1`
that it adds, although `config/cli.rs:39` says "Can be
specified multiple times like -vvvv"; a root directory named like a subcommand
(`-C serve serve`) makes the second parse start at the wrong token; a configuration
that `config` prints and validation accepts can still panic in the plan (http-01,
ACME without names, a bad listen address or header name), despite "we now validate
Serve *after* merging config in run_cli" (`config/cli.rs:64`).

Three properties name where the code stops short of what one may expect of it:

* `RefusedLeavesDb`: OIDC settings are looked at (`server.rs:110`, refused as
  `InvalidArgs` in `middleware/oidc.rs:41-59`) after `init_db` (`server.rs:98`), so a start
  refused for them has opened the database, and made it if there was none.  The
  property says so (`Refusals` against `LateEnds`) and says what such a start leaves: a
  database with all migrations, never some of them.
* `NeverFailsOpen`: "a value we cannot read as a boolean stops startup instead"
  (`env_bool.rs:13-15`) is true of words neither reader knows.  A `" false "` or an empty
  variable passes the check (its tests ask for " true " and ""), and if conf does not
  recognise it the flag is on.  Whether it does cannot be decided from this repository,
  so this is no finding; the property excepts `Misread`, which is empty for a parser
  that knows all the words of the check.
* `OneDatabase`: `sql` and `set-password` never read the config file, so that a `url`
  written only there is the server's alone.  With `?mode=rwc` behind the name, `sql` opens
  (and the shell makes) another file, whose name has the parameters in it; with
  `sqlite::memory:` both commands work on a database that ends with them, and
  `set-password` reports success.  The property is an equivalence: the commands open
  the server's database exactly if none of this applies.

## 4. Runs

| Run | Question | Bounds | Result |
|---|---|---|---|
| `sessions_faults` | every kind of request with every fault: does a session keep its token, do logins come from checked credentials, do retired sessions stay away? | 1 browser, 1 user, 3 requests, 2 at once | holds |
| `sessions_races` | two browsers, two people, first logins and logouts in every interleaving | 2 browsers, 2 users, 4 requests, 3 of a browser at once | holds |
| `sessions_serial` | does a browser that waits for its answers see an atomic session? | 1 browser, 2 users, 4 requests | holds |
| `sessions_logout_race` | is a session gone after a logout answered 200? | 3 requests, 2 at once | violated |
| `sessions_create_race` | does a first external login always succeed? | 2 requests | violated |
| `shutdown` | order of the shutdown, what streams hear, does the process end? | 3 connections, both modes | holds |
| `shutdown_clean_exit` | is a shutdown with nothing in flight clean? | 1 connection | violated |
| `tls_cache` | what starts and renewals find and present over crashes, failures and expiry; does the process get back to serving? | 3 units of time (a CA lasts 3, a leaf 2, the margin is 1), 2 crashes, 1 failed write, 10 pairs | holds |
| `tls_pair` | do certificate and key match when they are handed to rustls? | 1 crash | violated |
| `dns01` | do certificate and key, CNAME and credentials, orders and names go together over crashes, late answers and expiry; does a start get to serve? | 2 names, a record of 1 value, configured for one name or both, 2 units of time (a certificate lasts 1), 5 certificates, 1 crash, 1 failure | holds |
| `admin` | what do pages list, miss and repeat while the table changes; does the reading end? | 4 sessions, `limit` 0, 1 and 5, at most 2, 3 events of others | holds |
| `startup` | do arguments mean what they say, what does a refused, killed or concurrent start leave behind, does a good one get to serve? | every list of up to 3 tokens before a subcommand; a setting or two in the file with one in the environment and one in the arguments; a server beside each command; each kind of database URL; a parser that knows one word for false; counter up to 4, 2 migrations, 1 crash, 1 failing call | holds |

### 4.1 Why the bounds are enough

*Sessions.*  The hazards are between a request that loads, one that changes
(login or logout) and one that writes back: three requests give each role to one
request, and a fourth lets a second browser or a second login come in between.
Two browsers and two users suffice to tell "own" from "other".  The theorems of
section 6 lift the same invariants to any number of each.

*Shutdown.*  A connection that is idle, one with a request and one with a stream;
connections do not interact except through the drain, which waits for all.

*TlsCache.*  Three units of time see a leaf expire, a renewal come due twice, and
the CA expire; two crashes leave both temporary files of a name or crash the
recovery from the first crash.  Ten pairs are the number that no fair behavior
of this instance exceeds unless both temporary names are taken: with fewer,
`Recovers` fails because the bound stops `Make`.

*Dns01.*  Two names and a record of one value are as many names as it keeps and one
more, as three names at a record of two are; a third name only repeats the second.
Two units of time let a certificate expire and its successor expire; one crash and
one failure meet at every pair of steps.  Five certificates are more than any
behavior of the instance orders, so the bound never stops a start.

*Admin.*  Four sessions give two pages of two or four of one, so a row can move from
before the offset, at it and behind it; three events are one more than the pages
that such a move can disturb.

*Startup.*  The rewriting looks at a token, the one before and the one after;
three tokens before the subcommand and two behind it meet all combinations, and a
counter that ends at 4 overflows with two `-vvv`.  The validations look at two or
three settings at a time.  Two processes are what a race for the file, a migration
or the address needs; a crash can come after any step of either.

Deadlock is checked in every run; `AllDone`, `Stopped` and `Bound` are the
states in which a behavior may end.

### 4.2 What the violations show

* `sessions_logout_race`: a request that loaded the session before the logout
  writes its whole record back after it.  `user_session_middleware` marks every
  record modified, so any concurrent GET is enough, and the row, still logged
  in if the session was, is there again although the logout was answered 200.
* `sessions_create_race`: two first logins of one person both find no row; the
  second insert hits `UNIQUE(external_id)` and is answered 500.
* `shutdown_clean_exit`: `shutdown_signal` aborts the deletion task, `run()` then
  awaits it with `??` and returns the join error: a shutdown whose connections
  drain before the forced exit ends with status 1.
* `tls_pair`: a renewal replaces the certificate, then the key.  A crash in
  between leaves a valid certificate next to another key; the next start checks
  the certificate alone, rustls refuses the pair, and so does every start until
  that certificate has expired.

Two further divergences are consequences of the first hazard and are visible in
the model without a run of their own: with several requests of one browser in
flight, `LoginSticks` fails too, and a visit counter can go back (a login or a visit
is overwritten by an older copy); they are checked, `LoginSticks` itself and the
counter as part of `ImplementsBrowserSession`, for the serial browser only.

Another is a state `Recovers` of `TlsCache` has to exclude (`Blocked`): leftovers of
two interrupted writes can take both names of a temporary file for a process id
that does not change (a container, or one process that failed to write twice);
from then on every write of that file fails, renewals included, and nothing
removes them.

## 5. Fairness

`Sessions` has safety properties only and states no fairness: nothing obliges a
browser to send or a database to answer.

`Shutdown` assumes weak fairness of what the tokio executor runs and its timers
(`WakeUp`, `ForceExit`, `DeletionCancelled`, `Drained`, `Return`, `Push`): a task that
is ready is polled, an armed timer fires.  Nothing is assumed of clients, of the
signal, or of the drain deadline.

`TlsCache` assumes weak fairness of `Work`, the steps of the process including
`Start`: the executor goes on with what is ready, and whoever runs the server
starts it again after it has ended (that is what the cache directory is for).
Nothing is assumed of time, crashes or failed writes, which end at their bounds.

`Dns01` assumes weak fairness of `Serve` (as above, a supervisor starts the server
again) and of `Answer`, the CA, which looks at every open challenge some time.  The
operator's command has none: without credentials a start fails, and `Recovers` asks
for a server only where credentials, CNAME and room in the record are there for good
(`Provisioned`).

`Admin` assumes weak fairness of `Read`: the server answers and the administrator
asks for the next page.  The rest of the world may do anything or nothing.

`Startup` assumes weak fairness of `Step(p)`, the next step of a process that runs,
and of `Launch(p)`: whoever needs a command runs it again.  Nobody has to stop a
server, move a file into place or crash.

## 6. Proofs

All proofs are checked by TLAPS for every value of the constants that satisfies
the assumptions of their module: any number of browsers, users, requests,
connections, names, sessions and processes, any validity periods and bounds.  An
invariant that serves only a proof (`TokenInv`, `OwnerInv`, `GrantInv`, `SerialInv`,
`OrderInv`, `CacheInv`, `Dns01Inv`, `OrdersInv`, `AccountsInv`, `TableInv`, `PagesInv`,
`AloneInv`, and those stated in a module of proofs) is no property of a run: the runs
check what follows from it.

*SessionsProofs.*  `TypeCorrect`: `TypeOK` is inductive.  `CsrfCorrect`: agreement on
tokens is not inductive (it says nothing of a request that has not loaded yet),
so it rests on `TokenInv`: the row of session `s`, and every record that will be
saved under `s`, hold the token generated with `s`; the exceptions are the empty
records that are never saved.

*SessionsOwnership.*  `OwnerInv` says where an id may be: it is known only after
its creator has saved it, and only to the creator's browser and that browser's
requests; `OwnSession` follows.  `RetiredCorrect` is an action property from
`OwnerInv`: a request that could save a retired session would have to load it.
`ProvenanceCorrect` needs `GrantInv`: the user in a row *and* in every record in
memory was granted by a request of the same browser on the same session.

*SessionRefinementProofs.*  That the store implements `BrowserSession`, and with it
`LogoutClears` and `LoginSticks`, holds under `Serial`: one request of a browser in
flight (`PerClient` is 0 or 1) and no expiry among the faults.  Both are assumptions on
constants that the run `sessions_serial` has as its values; without them the properties
are false, which is what `sessions_logout_race` shows.  Browsers, users and requests
are any number, the other browsers run beside, database calls fail and connections
close.  `SerialInv` is the reason: the one request in flight carries the cookie the
browser still has, a record it has loaded is the row of that cookie with one visit
more (`UpToDate`, at each await), and a row is live or gone for good.  `OwnerInv` is
needed for the other browsers: a row is written by requests of its own browser only.
`RefinementStep` then maps every step: a save to the row the cookie names, and the
delivery of the answer that brings a new cookie, are the abstract `Visit` or `Login`; a
flush is its `Logout`; all other steps stutter.

*ShutdownProofs.*  `OrderInv` says what each part finds done when it starts;
`EarlyStreamsHear`, `HttpReturnsDrained` and `WaitsForStopped` follow from it and
`TypeOK`.

*TlsCacheProofs.*  `CacheInv` has five parts, proved one on the other: `CaInv` (the CA
is replaced in order and whole in every later stage), `UsedInv` (numbers in files
and memory belong to pairs that were made, so a new pair is really new),
`LeafInv`, `ChainInv` (a leaf on disk goes with the CA on disk, or its signer has
expired: kept because a CA is replaced only when it is unusable, and it is
unusable only when it has expired or one of its files is missing, which
happens only while it is being replaced), `FreshInv`.  `MarginFits` is the
arithmetic of the renewal margin for every validity the configuration accepts.

*Dns01Proofs.*  `Dns01Inv` has four parts.  `PairInv`: from the deletion to the first
write the cache is empty, and after it the certificate there is the one in hand.  `CredsInv`: the CNAME names the account in the file,
because a file is registered for only when there is none and never rewritten.
`RecordInv`, the interesting one: the last `TxtKept` names asked are the last
values of the record in the same order, so that a value can be missing when
the CA looks only after more than `TxtKept` others were published; it needs that an
open challenge of the current order belongs to a name that was asked, and
`KeepMoves`, how a bounded record shifts.  `CertInv`: what a start has obtained itself
is for the names of its order.  `OrdersCorrect` counts over a whole behavior: an order is
paid for by a crash, a failure or the expiry of the certificate it replaces.  While the
cache holds a pair, the certificate in it is the one order that is still free of charge,
and while it is being filled the one in hand is (`OrdersInv`); an account is registered
only when there is no file, so one that was lost is accounted for (`AccountsInv`).

*AdminProofs.*  `Counted`: the page counted in `late` is the one whose role check came
before the revocation, since there is one request at a time.  `TableInv`: the table is a
list without repetitions and the sessions that have kept their place are in it.
`PagesPlaced` says `PagesInv` of the rows instead of the sessions' places: what is
listed and unmoved lies before the offset, and the unlisted before it are at most as
many as rows have left a place there.  `Shifted` says what the deletion of a row does to
the places of the others, `Moves` what a touched row does: each step before the offset
lets one row more slip past and counts it in `gone`.  `AlonePlaced` is the invariant for a
reader with nobody else at work: once a session has been passed over, the reader's row is
the last one, so that moving it again moves nobody.

*StartupProofs, the arguments.*  For lists of any length: `ReadsFacts` (a `-v` reads the
next token unless it was taken itself, which the definition says by the parity of a row
of them), `PickedFacts` and `TailPicked` (picked places keep their order and their end),
`NormalizedFacts` (what the rewriting inserts, and where), `AcceptedFacts` (what clap
accepts has one level at most, and options only behind the subcommand).  `LevelFacts`
compares the level of the rewritten list with the one asked for: if the rewriting
inserts a level, nothing that is kept may have one, or clap refuses two; then every
number in the list was read (`NoneKept`).  If it inserts none, a level that is kept was
taken by a `-v`, and some number 0 was read: either it was the last number asked for
(`Shadowed`), or the last one is the kept one.  `AfterFacts` gives the options, and
`ArgsCorrect` puts both together with `LevelInv`.  `AfterIsOptions`: for every accepted
list, the tokens after the first one named like the subcommand are those after the
subcommand itself, unless one of them is no option (which `serve`'s second parse
refuses, as in `-C serve serve`).

*StartupProofs, the start.*  `CasesOK` is assumed of the inputs: an argument list is a
sequence of tokens, the sources of a setting give it values of its type, which is what
the parser ensures, and options and config file spell their flags; `WordsOK` that the
parser reads "no" as false and what is no boolean as true; TLC evaluates both for
the instance.  `RefusalInv` (a start that has opened a database is past its refusals),
`MigrationInv` (a migration that is still to do was not done, or this process has
been overtaken), `OpenInv` (what a process has opened is what sqlx, or the shell, makes
of its settings, from the opening to the end), `SchemaInv` (what is still to do follows
what is applied, and a database that has been migrated stays so: nobody else opens
one in memory), `ValidInv` (only `set-password` reaches the database with settings
nobody validated) are inductive with the types, and `RefusedLeavesDb`,
`MigrationFailsOnlyInRace` and `LifetimesFit` follow; `NeverClobbers` is an action
property of every step.  `Settled`, a part of `ValidInv`, says that a server's settings
are those of the first parse's options, the environment and the file, which is where
`AfterIsOptions` is needed (the code takes them from the second parse); `CommandInv`
says that the operator's commands keep theirs.  `NeverFailsOpen` follows from the
first of the two, `OneDatabase` from both and `OpenInv`.

Checked by TLC only: the liveness properties `Stops`, `Recovers` (of three modules)
and `PagingEnds`, which need fairness and ENABLED, beyond these provers.

## 7. Not modelled

* Forwarded-for and header authentication: a decision on one request, from its
  peer and headers and the settings, with no state and no order of events; the
  user it names is an input of `Sessions`.
* The login form: the state of one page.  Its retry on a CSRF error looks for
  `json.error.code` (`login_form.svelte:89`), which no answer of the server has
  (`middleware/csrf_protection.rs:22` sends `{error, message}`), so that it is never
  taken; the tokens a page may send are those `Sessions` lets a browser keep.
* The HTTP to HTTPS redirect: it keeps no state and shares none.
* tls-alpn-01: the protocol and its cache are tokio-rustls-acme's.
* Subjects, names, owners, permissions and symbolic links of the certificate
  files; the ephemeral mode, which keeps nothing on disk.
* The protocols of OIDC and ACME: they are axum-oidc's and the providers'.
* The session check interval of 0 seconds, which validation accepts and tokio's
  timer does not.
* Completions, settings no check looks at, the connection pool, API documentation,
  macros, error and log formats, page layout: no state of the program's own.
* The scripts that instantiate the template and its CI.
