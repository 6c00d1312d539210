# Nextcloud bridge: models, checks and proofs

TLA+ models of the Nextcloud–ChatGPT bridge (`src/src/nextcloud_chatgpt_bridge`, called
*the package* below), checked with TLC and proved about with TLAPS. File names without a
directory are relative to the package; documents (`docs/…`, `SECURITY.md`) to `src/`.

    tlc -workers 2 -config conn_safety.cfg MCConnectionLifecycle.tla
    tlapm ConnectionLifecycle_proofs.tla

The same two commands with the names of sections 4 and 5 run every other check and proof.

## 1. The system

The bridge is a multi-tenant MCP server. A user signs in with OAuth, links a Nextcloud account
through Login Flow v2, and from then on tool calls act on that account with an app password the
bridge keeps encrypted. Three processes run in a deployment: the server (tool calls of one
process run in worker threads of the MCP SDK), the maintenance loop, and the egress proxy all
outbound traffic goes through. They share one PostgreSQL database. A migrate service prepares its
schema, and an operator has two programs: the diagnostics and the release preflight.

| Part | State it keeps | Operations | Correct when |
|---|---|---|---|
| Connection service (`connections/service.py`) | none of its own; rows of `pending_nextcloud_logins`, `nextcloud_connections`, `bridge_secrets` | `begin_connection`, `poll_connection`, `list_connections`, `update_root_path`, `resolve_settings`, `disconnect` | no call crosses tenants; a live app password is never lost silently; a disconnected credential stays gone |
| Stores and keyring (`persistence.py`) | the tables; the AES-GCM keyring of each process | put, get, delete, list, each a transaction with a tenant predicate | a row is only seen by its tenant; a secret can be read wherever it may be needed, also while keys are rotated |
| Login flow client (`connections/login_flow.py`) | none | `initiate`, `poll` | the completion is bound to the origin the flow was started for |
| Maintenance (`maintenance.py`) | one transaction | `cleanup_hosted_storage` every 300 s | only garbage is deleted, and all garbage eventually is |
| Settings resolver (`runtime.py`) | none | `resolve` | acts only with exactly one connection |
| Authentication, identity (`auth.py`, `identity.py`) | the key set and the last keys found, per process | `verify_token`, the tenant of a token | a rotation of the keys locks nobody out; a withdrawn key stays out once it is forgotten |
| Household (`household/service.py`, `household/store.py`) | `household_profiles`; review reports in Nextcloud | configure, prepare, list, review, save | one profile per connection, reports are never overwritten |
| Invoices (`household/invoices.py`) | none | extract, review | no text is lost silently, ready means the whole document was read |
| Public app (`public_app.py`) | rate windows by key, oldest first | `consume` per request; `/health/ready` | at most the limit per key and window, all or nothing over several keys, bounded memory; ready only on its own schema |
| Egress proxy (`egress_proxy.py`) | open tunnels, a semaphore of slots | accept, connect, relay, close | slots are conserved; only public addresses are dialled; nobody's call waits for another's peer without end |
| Migrations (`migration.py`, `schema.py`, `migrations/*.sql`) | `schema_migrations` | apply, verify | each script once, in order, also with crashes and several runners |
| MCP tools (`server.py`, `app_access.py`, `capabilities.py`) | none | file and share tools, bounded search, app inventory | nothing outside the root is touched; answers say what happened; limits hold |
| Providers (`providers/*.py`) | none | WebDAV, OCS, native MCP calls | writes are conditional, paths stay in the root, downloads are bounded |
| Diagnostics (`diagnostics.py`) | two remote folders while it runs | smoke tests | the folders are removed whatever fails; the exit status is true |
| Release preflight (`release_preflight.py`) | none | one run of checks | passes exactly when all is in place |
| Configuration, network policy (`config.py`, `network_policy.py`) | none | normalisation of paths, validation of URLs | no path leads out of the configured root |
| Deployment (`deploy/`) | – | scripts, compose files | sets the maintenance interval (300 s) and orphan grace (3600 s) the core assumes |

**Interactions.** The connection service calls the stores and the login flow client; the resolver,
household service and tools call the connection service; maintenance and the connection service
meet only in the database. Nothing locks across transactions: every store method opens and
commits a session of its own, so a service call is a sequence of small transactions and remote
calls, and two calls, or a call and a sweep, interleave between any two of them. Tool calls meet
in the files of an account, where the conditions of a request are all that orders them.

**Hard behaviours.** The write-then-name order of secrets and rows against a sweep that deletes
unnamed secrets; completions Nextcloud hands out only once; deletions in two transactions;
exception handlers that themselves call the database or the account; crashes between any two
steps; answers that are lost after the change was made; keys, schemas and accounts that change
under a call; semaphores with timeouts; caps counted in loops. The full list, with lines and the
properties that cover them, is `hazards` in `PROJECT.json`.

## 2. Plan

| Order | Module | Models | State |
|---|---|---|---|
| 1 | `LinkedAccount` | what linking promises from outside | done |
| 2 | `ConnectionLifecycle` | service, stores, maintenance, crashes | done; invariant and refinement proved |
| 3 | `RateLimiter` | `FixedWindowRateLimiter.consume`, the keys of a request | done; invariant proved |
| 4 | `HouseholdWorkspace` | configure against the unique index and the cascade; prepare; save of an immutable report | done; invariant proved |
| 5 | `EgressProxy`, `SlotPool` | slots, dialling, half-closed relays; at most N served | done; invariant and refinement proved |
| 6 | `Migrations` | several migrators and releases, crashes, lost answers, readiness | done; invariant proved |
| 7 | `CredentialVault` | keyring rotation under linking and disconnecting | done; rotation and answers proved |
| 8 | `TokenVerification` | key caches against key rotation; claims | done; both properties proved |
| 9 | `FileTools`, `FileSearch`, `PathBoundary` | the WebDAV tools | done; all properties proved |
| 10 | `AppInventory`, `CapabilityKeys`, `InvoiceReview` | inventories, bounded searches and texts | done; all properties proved |
| 11 | `DiagnosticsSmoke`, `ReleasePreflight` | the operator's programs | done; both properties proved |
| 12 | `ToolCalls`, `OperatorPrograms` | the modules of 9 and 10, and of 11, as one specification | done |

What could follow: an abstract write-once report for `HouseholdWorkspace`, and `CredentialVault` with
the maintenance sweep beside it.

Where components interact in the database they are in one module: the service, the stores, the
resolver and the sweep in `ConnectionLifecycle`; profiles with the cascade from connections in
`HouseholdWorkspace`; the service with the keyring in `CredentialVault`; migrators with the
readiness of bridges in `Migrations`. Where they share nothing, a *sum* checks them together:
`ToolCalls` starts in one of its groups, chosen by the variable `tool`, and stays there, with the
variables of the others `Unused`; `OperatorPrograms` does the same with `program`. Each group is a
module with an `INSTANCE`, so nothing is gained or lost by the sum but a run apiece.

## 3. Modules and how they correspond to the code

### `ConnectionLifecycle`

One action per store call, remote call or early return. A worker thread `p` executes one service
call at a time; `req[p]` is the call's tenant, flow and the step it is about to do, so the locals
of a Python call live exactly as long as the record.

| Action | Code |
|---|---|
| `Begin`, `PutPollToken`, `PutPending`, `DropPollToken` | `begin_connection` with its `except` |
| `Poll`, `ReadPollToken`, `PollUnfinished`, `PollCompleted`, `PollRefused`, `PollAnswerLost` | `poll_connection` up to the completion, and the outcomes of `LoginFlowClient.poll` |
| `PutAppPassword`, `PutConnection`, `DropAppPassword`, `RevokeNew`, `ConsumeToken`, `ConsumeRow` | its `try`/`except`/`finally` |
| `UpdateRoot`, `WriteRoot` | `update_root_path`: read, then upsert |
| `Resolve`, `ReadRecord`, `ReadSecret`, `FinishUse` | `HostedSettingsResolver.resolve`, `resolve_settings`, the tool's remote work |
| `Disconnect`, `PeekSecret`, `ResolveAgain`, `RevokeOld`, `DeleteSecret`, `DeleteRow` | `disconnect` |
| `Fault` | any store call raises; `AfterFault` says which handler runs next |
| `Crash` | the server dies, all calls in flight with it |
| `SweepExpired`, `SweepOrphans`, `SweepCommit`, `SweepAbort` | the statements of the maintenance transaction; READ COMMITTED, so each select sees the tables of its moment and the deletions show at the commit |
| `Grant`, `Expire`, `Age` | the user approves; the clock passes `expires_at`, or `created_at` + grace |

Abstractions. Random identifiers are named after their flow: a flow yields at most one pending
row, one poll token, one app password and one connection row, because Nextcloud hands a
completion out once. A row is the tenant in it; URLs and `root_path` are payload. Clocks are two
monotone sets. `history[f]` is a ghost: it records what happened to a flow for the properties and
guards nothing. `remote[f]` is Nextcloud's side, external to the package.

An assumption of the code is an assumption of the model: a secret does not reach the orphan grace
(an hour) while the call that stored it is between that commit and the next one (`InWindow`).
`maintenance.py:37` names it; the mutant `SweepOrphansAtOnce` shows it is needed.

Not modelled here: a commit that succeeds while its acknowledgement is lost (see
`CredentialVault`); a decryption key that stays missing (one failing read is a `Fault`); several
server processes are covered, since nothing but the database is shared, except that they crash
together.

### `LinkedAccount`

The promise: per flow `new → offered → linked → closed`, the password issued once, linked only
while live, closed for good. `ConnectionLifecycle` maps to it with `Phase` and `Password`: a
connection is *linked* while both its row and its secret exist (`AccountSpec`).

### `RateLimiter`

One request is one step: `consume` computes and updates every window inside its lock and suspends
nowhere in it, so two requests never interleave within a call. `Limits` are the key tuples the
middleware builds, `<<ip>>` or `<<ip, token>>`; addresses and token digests are model values.

| Definition | Code |
|---|---|
| `Current`, `Refusing`, `RetryAfter` | the first loop of `consume`: an expired window counts as new, a full one refuses, the rest of it is rounded up to whole seconds |
| `Refused(limits, i)` | the return from that loop at the first key without room; nothing is stored |
| `Admitted(limits)` = `Charge`, `MovedToEnd`, `Evict` | the second loop and the eviction of the oldest keys |
| `Tick` | `time.monotonic()`, in ticks of `1/TicksPerSecond` s so that the rounding shows |

The ghosts: `log` has every charge, `forgotten[k]` is the length of `log` when `k` was evicted last,
`refusal` is the last refusal with the time its `Retry-After` ends. Nothing in the program reads them.

### `HouseholdWorkspace`

One action per transaction or remote call, several calls at once. `req[p]` is a record of the locals
the rest of the call still uses. A layout is the triple of folders, a folder the sequence of its
segments; the other columns of a profile go with the layout.

| Action | Code |
|---|---|
| `Configure`, `LookupFound`, `LookupNone` | `configure_profile`: resolve, look up, keep the id or mint one |
| `CheckProfile`, `WriteProfile` | `put_profile`: its selects, then the flush and commit; `Allowed` is the unique index and the foreign key |
| `Prepare`, `PrepareSettings`, `Probe`, `Create`, `Prepared` | `prepare_workspace`, `ensure_folder`: PROPFIND and MKCOL of one segment at a time |
| `Save`, `SaveSettings`, `ProfileAgain`, `SettingsAgain`, `Review` | `save_invoice_review` up to the duplicate check; `review_invoice` looks everything up again |
| `Probe`, `Create`, `Upload` | its folders and the PUT with `If-None-Match`, whose answer may be lost |
| `Raise` | anything raises, or the server dies: no handler undoes a step |
| `DeleteSecret`, `DeleteConnection`, `WriteRoot` | what `disconnect` (with the cascade) and `update_root_path` do meanwhile |

The hash of an invoice is whatever Nextcloud hands out at the review. Left out: calls that change
nothing; users who edit the bridge's folders or delete reports themselves (a file in the way of a
folder is a `Raise`); a revoked password, which makes remote calls raise. `confirmed` (who answered
`saved = True`) and `conflicts` (refused MKCOLs) are ghosts.

### `EgressProxy` and `SlotPool`

One coroutine `handle` per client, all on one event loop: an action per suspension point, in which
what is awaited ends in one of its outcomes and the code up to the next await runs at once.

| Action | Code |
|---|---|
| `Arrive` | a connection is accepted; `acquire()` takes a free slot or queues |
| `Enter`, `GiveUp` | `wait_for(acquire())` returns, or times out while queued, also when the slot was handed to it already |
| `ReadHeader` | the request line and headers: CONNECT to port 443, refused, too slow, or gone |
| `Resolve` | `resolve_public_addresses`: all addresses global, or none is dialled |
| `DialOk`, `DialFails` | `_connect_first_available`, address by address, with 502 after the last |
| `Greet`, `EndRelay`, `TearDown` | the 200, the two relay tasks, `FIRST_COMPLETED` and the cancellation of the other |
| `CloseUpstream`, `CloseClient` | the `finally` block; `wait_closed` may raise what it does not catch, and then the rest of it is skipped, or never return |

`SlotPool` is the promise: callers come, wait and are served, never more than `Slots` at once. A
finally block that fails keeps its slot (`MayBreakClose`), which is a caller that stays served.

### `Migrations`

Migrators and bridges of several releases over one database.

| Action | Code |
|---|---|
| `Start`, `Inspect`, `Read`, `Plan` | `apply_pending_migrations` up to the list of pending scripts: the table exists or not, `MAX(version)`, newer than known is refused |
| `Apply`, `ApplyRefused`, `ApplyUnanswered` | a script, one transaction with its own row; it fails on tables that exist; its commit may go unanswered |
| `Verify`, `Breaks` | `verify_hosted_schema` at the end; any request fails or the process dies |
| `BridgeStarts`, `BridgeAnswers`, `BridgeCannotTell`, `BridgeStops` | the check at start and `/health/ready` (`public_app.py:256-274`) |

### `CredentialVault`

Linking and disconnecting again, with the keys: `sealed[c]` is the key a secret is encrypted with,
`ring[p]` and `active[p]` the keys of a process. Every transaction succeeds, fails, or is done with
its answer lost. `BeginLink`, `PutSecret`, `PutConnection`, `DropPending`, `UndoSecret`,
`UndoPassword` are `poll_connection` with its handlers; `BeginDisconnect`, `GetSecret`, `Resolve`,
`Revoke`, `EraseSecret`, `EraseConnection` are `disconnect`; `AddKey`, `Activate`, `RemoveKey` restart
a process with another keyring. With `Careful`, the operator keeps to
`docs/PRODUCTION_DEPLOYMENT.md:54-55`: a key is activated when every process has it, and removed
when nothing is encrypted with it and nobody writes with it. Root-path updates are not in this
module: that one may store the row of a disconnected account again is shown by `conn_resurrected`.

### `TokenVerification`

`verify_token` in worker threads: `Begin`, `Find` (the caches), `Answer`/`Store` (the response of the
key endpoint, and its storing, in two steps, since nothing locks the caches), `FetchFails`,
`Decode` (the library's checks and the ones `verify_token` adds). `Rotate` publishes another key set,
`Tick` is the clock. The caches are PyJWT's `PyJWKClient` as `auth.py:75-80` configures it, external:
a set kept for a lifespan, and keys remembered without end but for their number. Two ghosts of a
call speak of its token's key: `steady` (published ever since the call began) and `shut` (neither
published nor `Held` in any cache or by any worker when it began, and not published since). The
tenant that `identity.py` derives from the claims is a hash without state and is left out.

### The tools: `FileTools`, `FileSearch`, `PathBoundary`, `AppInventory`, `CapabilityKeys`, `InvoiceReview`

| Module | One step | Code |
|---|---|---|
| `FileTools` | one remote request or one chunk of a download; others change files and the connection meanwhile | the file and share tools of `server.py` over `webdav.py` and `ocs.py`: `Begin…`, `Stat`, `Get`, `Stream`, `Put`, `Mkcol`, `Delete`, `Move`, `Confirm` (the `stat` after a change), `ShareSettings`, `Inventory`; `OwnerChanges`, `Relink` |
| `FileSearch` | the listing of one folder; the owner moves things | `search_files`: `ListNext`, `ListFails`, `Answer`; `OwnerMoves` |
| `PathBoundary` | one tool call | `set_nextcloud_root` (`config.py`), `list_files` and `get_file_info` (URLs, multistatus answers), `list_nextcloud_shares` (the filter) |
| `AppInventory` | one OCS request; apps and the connection change | `get_nextcloud_app_accesses`, `get_nextcloud_capabilities`: `GetCapabilities`, `Get`, `Unavailable`, `Unanswered`, `Report`; `Change`, `Relink` |
| `CapabilityKeys` | one container taken off the stack | `_all_keys`: `Visit`, `Finish` |
| `InvoiceReview` | extraction, then the review | `extract_invoice_text`, `review_invoice_document`: bounds, the precedence of fields, checks, status |

`tree` in `FileTools` and `place` in `FileSearch` are Nextcloud's, from RFC 4918, external. A path is
a sequence of segments, a text of an invoice a sequence of items of one character each.
`PathBoundary` compares what the code's string operations do, quoting included, with containment of
nodes; `InvoiceReview` compares the loops with the text they should give.

In `PathBoundary` a raw path is what stands between its slashes. `strip` takes the blanks off its
two ends, `Slashed` puts slashes for backslashes, and `normalize_root_path`, `normalize_relative_path`
and `_normalize_relative` do with that what `PurePosixPath` does, a root of two slashes included. The
local server has its root from settings of its own, normalized once; a connection's is normalized
when it is stored and again when settings are made of it (`InConnection`), which may refuse it then
(`Unusable`). A name that `quote()` changes makes `_parse_multistatus` drop every entry: `PathBoundary`
has that in `BelowBase`, and `FileSearch` in `plain`, which is chosen at first and says whether the names
of the account and the root are left as they are. `FileTools` and `HouseholdWorkspace` assume that
they are.

### The operator's programs: `DiagnosticsSmoke`, `ReleasePreflight`

`DiagnosticsSmoke` runs the stages of `run_diagnostics` one request at a time: every request is
answered, fails, is done with its answer lost, or is done late (`LateFolder`), after the client gave
up on it. `remote` are the folders left in the account. `ReleasePreflight` asks each endpoint once
(`Served`, `Refused`, `Fails`, `Crashes`) and ends with `Report`; a document is the set of what is right
about it, so its checks are memberships and the verdict a question about all of them.

## 4. Runs

| Run | Instance | States | Shows |
|---|---|---|---|
| `conn_safety` | 2 tenants, 1 flow, 2 threads, faults and crashes | 161,000 | the safety properties, the inductive invariant, and that the service implements `LinkedAccount` |
| `conn_liveness` | 1 tenant, 1 flow, 2 threads, crashes | 111,000 | orphans are swept, pending flows end |
| `rate_limits` | 2 addresses, 2 tokens, 3 windows kept, 2 s windows of half-second ticks | 517,000 | counts, the bound over any span, `Retry-After`, the eviction order |
| `household` | 2 connections of one tenant, a second tenant, 2 layouts, 2 profile ids, 2 threads, 1 file hash | 1,843,000 | one owned profile per connection, one account per save, saved reports stay, folder conflicts are bounded, tenants stay apart |
| `proxy` | 3 clients, 1 slot, 3 addresses of which 2 are global, closing may fail | 43,000 | slots are accounted for, only checked addresses are dialled, nothing is left open, every call ends unless its own peers stop reading; implements `SlotPool` |
| `migrations` | 3 migrators of releases 2 and 3, a bridge of each, 3 versions, 2 faults | 26,000 | the recorded versions are `1..n`, ready means usable, the newest release gets ready |
| `vault` | 2 processes with a thread each, 1 account, 2 keys, 2 faults, 6 restarts | 42,000 | secrets stay readable, answers are true, a disconnect succeeds in the end |
| `tokens` | 2 workers, 3 keys, 2 of them remembered, 1 rotation, tokens with every flaw | 1,164,000 | rotation locks nobody out, a withdrawn key stays out |
| `tools` | each group of `ToolCalls` on an instance of its own, in `MCToolCalls` | 354,000 | the tools' promises, see below |
| `operator` | one run of each program; two answers that are wrong, in two ways at most | 193,000 | what the diagnostics and the preflight report is true |
| `conn_resurrected` | 1 flow, 2 threads | – | a violated statement of the documents, see below |
| `paths_quoted` | an account whose name is quoted in URLs | – | another |

The properties of the sums are conjunctions with one part per group, defined in the module of the
group: `FileToolsHonest` and `ChangesConfined` of `FileTools`, `SearchHonest` of `FileSearch`,
`PathsInside` of `PathBoundary`, `InventoryHonest` of `AppInventory`, `KeysExact` of
`CapabilityKeys`, `ReviewHonest` of `InvoiceReview`, `DiagnosisHonest` and `PreflightExact` of the
operator's programs. Next to most actions stands a form of them marked *Faulty*, the way a plausible
slip would write it; `mutants` in `PROJECT.json` says which property notices which slip.

**Bounds and why they are enough.**

- `conn_…`: flows are independent except through maintenance and the resolver's count of a tenant's
  connections, so one flow carries all races between calls of one connection. Two threads suffice
  for every pairwise race; a second tenant is needed only for isolation, which `conn_safety` has. No
  counter is bounded: a flow's events are finite. The proofs remove the bounds for safety.
- `rate_limits`: four keys and room for three, so windows are evicted and come back; the shared
  address has a limit of 2 and each token 1, so either key of a pair refuses; `MaxTime` is a window
  and a half, so a window ends, is renewed, and a span can straddle the two; `MaxCharges` lets both
  windows of a key fill. The model stops when its clock and charges are used up, so deadlock is not
  checked.
- `household`: two connections so that a profile could be taken for another's, two ids so that one
  can be minted while another is forgotten. The folders of a layout share a parent, so the race on a
  segment is there, and the layouts differ where reports go, so the duplicate check and the write
  can part. The constraint `OneConnectionWrites` leaves out, once a call is at Nextcloud, states in
  which the other connection has changed as well: accounts share no files. Without connections and
  ids there is nothing left to do, so deadlock is not checked.
- `proxy`: one slot and three clients, so that a slot can be handed to one waiter while another is
  behind it; three addresses, so that a dial fails, another succeeds and one is refused.
- `migrations`: the release before the last and the last, two runners of the latter; three versions
  are the least for a gap. The table a script alters is one of an earlier script, as in
  `0002_household_profiles.sql`.
- `vault`: six restarts are one rotation of two processes, add, activate, remove; two faults are one
  in a call and one in the handler behind it. One account: secrets do not affect each other.
- `tokens`: a lifespan of no tick makes the kept set stale at once or fresh, as the clock goes; two
  keys remembered of three, so one is forgotten; one change of the published set, so that an answer
  from before it can be stored after it.
- `tools`: two file calls, two accounts with roots, names inside and outside, and one change by
  others; the search has four entries against caps of two results, depth one and three scanned, so
  every cap is met, missed and passed; paths have up to three segments of dots, nothing and two
  names, and some with blanks at their ends or with backslashes, roots two or three slashes as well; documents up to four containers against a bound of three; texts up to six items against a
  limit of five. `RootStays` leaves out the one move named below.
- `operator`: two wrong answers suffice for one failure to hide another.

Deadlock is not checked where the program has ended (`tools`, `operator`) or may wait for a slot
that a broken `finally` block kept (`proxy`).

**Fairness.**

- `conn_liveness`: weak fairness of a call in flight: a worker thread runs on, every remote call has
  a timeout, and a call ends or its server dies. Weak fairness of `Expire` and `Age`: the clock
  advances; ages only outside the window above. Weak fairness of `SweepExpired`: the loop of
  `maintenance.py:124` runs every 300 s and its container is restarted. Strong fairness of
  `SweepOrphans` and `SweepCommit`: a sweep may fail and start again, but not fail for ever at the
  same statement. It excludes store faults (`MayFail = FALSE`) and keeps crashes. Nothing is assumed
  of users: an approval or a poll may never come.
- `proxy`: weak fairness of `Serve(c)`, what a coroutine does next before its `finally` block other
  than wait for data: these awaits have timeouts, except the lookup and the sending of a status line,
  which the system bounds. `close()` and `wait_closed()` (`egress_proxy.py:171-176`) have none and wait
  until what was written is sent. Of a call that was answered with a status line of its own, or with
  nothing, that is at once, so `Close(c)` is fair as long as `reply[c]` is not 200; after a tunnel, a
  peer that reads no more can put it off for ever, and no fairness is assumed. `EveryCallEnds` says
  what is left: whoever connects is relaying or gone in the end, or its own tunnel is being closed,
  whoever keeps the slots; a tunnel with one direction ended is torn down; and it is gone under the
  hypothesis, part of the property, that its own peers read (`WF_vars(Close(c))`). No fairness of
  `Arrive` and `EndRelay`: clients come when they like, and a tunnel with traffic may run for ever.
- `migrations`: a migrate service that did not end well is run again, and goes on; bridges are
  started and asked. Faults are finite.
- `vault`: calls go on; strong fairness of asking again to disconnect, since the thread it needs may
  be busy now and then. Without an owner who asks again nothing would happen, which is the point: a
  disconnect that failed can be repeated until it succeeds.

**What the documents say and the code does not do.** Two have a run that ends in the violation
(`findings`):

- `DisconnectRemovesMetadata` (`conn_resurrected`): a root-path update that read the row before
  `disconnect` deleted it inserts it again. The credential stays gone (`DisconnectedCredentialGone`
  holds); the tenant is left with a connection that resolves to "credential is unavailable".
- `EveryChildListed` (`paths_quoted`): `_parse_multistatus` compares decoded paths with a base that
  is still percent-encoded, so for a user name like `u@x`, or a root with a blank, `list_files`
  answers with an empty list and `stat` raises.

Others met while reading, which the models take as the code has them:

- `connections/service.py:109`: a completion that fails validation is raised before the `try`: the
  flow stays pending and the live password is neither stored nor revoked. `service.py:134`: if
  storing the row fails and then deleting the stored secret fails too, the revocation behind it is
  skipped. `LivePasswordAccounted` lists both.
- `service.py:188`: `disconnect` reads the secret before its `try`; with its key missing nothing is
  deleted. `ReadableEverywhere` shows that this needs a rotation other than the documented one.
- `household/invoices.py:123`: a text that meets the limit exactly at the end of a page is flagged as
  truncated although nothing was cut; `NoSilentCut` claims only the other direction.
  `invoices.py:391`: the label "total" is found in "subtotal".
- `providers/webdav.py:194`: a move with `overwrite` onto the root's own path replaces the root,
  where `SECURITY.md:66` says deletion of the root is always refused.
- `server.py:345`: `list_nextcloud_shares` resolves the settings a second time, so its shares may be
  another account's than its root, against `docs/MCP.md:74`.
- `diagnostics.py:174`: cleanup is attempted only once the creation was answered, against
  `docs/LIVE_TEST.md:73`; `diagnostics.py:301`: a folder made after the client gave up stays.
  `SuccessMeansClean` therefore speaks of runs that exit with 0.
- `egress_proxy.py:171-178`: a tunnel whose peer reads no more keeps its slot while it is being closed,
  without a timeout.
- `config.py:29-31`: `//` passes for a root, although `/` is refused, and so does `//a`; the two slashes
  go out quoted like a name (`webdav.py:63-66`), so that nothing is ever listed. Stored roots are
  normalized twice: `/a /` is stored as `/a ` and used as `/a`, and `/ /` is accepted and refused when it
  is used (`connections/service.py:175`), after which every tool fails.
- `providers/webdav.py:70`: the path of an entry that begins or ends with a blank, or has a backslash,
  does not lead back to it: `list_files` answers with ` x.txt`, and `get_file_info` of that asks for
  `x.txt`. `EntriesLeadBack` excepts these paths; `NothingOutside` does not.
- `providers/webdav.py:215-222`: for the names of `EveryChildListed`, `search_files` answers with nothing
  and does not say that it is truncated. `CompleteUnlessTruncated` excepts them.
- `identity.py:25`: issuer and subject
  are stripped before they are hashed, against "the exact verified pair" in
  `docs/AUTH_ARCHITECTURE.md:14`.

**Hazards without a property**, not in the list because the code accepts them: the first 200 items of
an inventory are taken silently (`ocs.py`); a withdrawn key that is remembered is honoured until sixteen
others were found since (`auth.py:77-78`); the two resolutions of `get_nextcloud_capabilities` may meet two accounts; the idle timeout of a tunnel counts
per direction; the report folder may change between the two lookups of `household/service.py:227`, so
the duplicate check looks in one folder and the report goes to another.

## 5. Proofs

| Module | Proves, for every value of the constants |
|---|---|
| `ConnectionLifecycle_proofs` | `InvariantHolds`, `TypeCorrect`, `TenantsIsolated`, `NoDanglingReference`, `PasswordsAccounted`, `DisconnectFinal`, `ImplementsAccount` |
| `RateLimiter_proofs` | `InvariantHolds`, `TypeCorrect`, `WindowsCount`, `SpansBounded`, `RetryAfterIsHonest`, `LeastRecentlyForgotten` |
| `HouseholdWorkspace_proofs` | `InvariantHolds`, `TypeCorrect`, `ProfilesUnique`, `ProfilesConnected`, `SavesStayInOneAccount`, `TenantsStayApart`, `SavedReportsHold`, `FolderConflictsBounded` |
| `EgressProxy_proofs` | `TypeCorrect`, `SlotsAreAccounted`, `GlobalOnly`, `AnswersAreHonest`, `NothingIsLeftOpen`, `ImplementsPool` |
| `Migrations_proofs` | `TypeCorrect`, `VersionsContiguous`, `TablesAsRecorded`, `ReadyHasTables`, `ScriptsInOrder`, `DoneIsExact`; of the operator's programs `DiagnosesAreHonest`, `PreflightsAreExact` |
| `CredentialVault_proofs` | `TypeCorrect`, `SecretsStayReadable`, `AnswersAreTrue` |
| `TokenVerification_proofs` | `RotationIsSafe`, `WithdrawalIsFinal` |
| `ToolCalls_proofs` | `FileToolsAreHonest`, `ChangesAreConfined`, `SearchesAreHonest`, `PathsStayInside`, `InventoriesAreHonest`, `KeysAreExact`, `ReviewsAreHonest` |

The only assumption of each is the one its module states of its constants. One lemma per action says
that it preserves the inductive invariant, which is `IInv`, or one per group in the two sums. Every
safety and action property of a passing run is stated by a theorem.

**`ConnectionLifecycle`**, for any sets of tenants, flows and threads and both values of `MayFail` and
`MayCrash`. None of the properties is inductive by itself. `ReferencesResolve` needs to know that
what a sweep has selected stays garbage until the commit (`SweepInv`), which needs that a secret in
the window of its call is not aged (`BeginInv`, `HoldInv`); `LivePasswordAccounted` needs that at
most one poll holds a password (`HoldInv`) and what a linked, unlinked or disconnected flow's
history implies (`LinkInv`); the steps of `disconnect` carry facts from one to the next (`CallInv`);
`Started` makes a new flow's rows empty. `IInv` is their conjunction, and is checked as an invariant
of `conn_safety`. Each `<Action>Preserves` has one step per conjunct; the steps that only read, fail
or revoke go through `Quiet` and `QuietPreserves`, the sweep's reads through `SweepFrame`.

**Its refinement of `LinkedAccount`.** Most steps are stutters of every account. `Begin` offers,
handing the password out issues it, `PutConnection` links, a revocation that reaches Nextcloud
revokes, `DeleteSecret` closes. What `IInv` does not say is that the password a poll is about to
store is still live when the account becomes linked: only the poll that holds it could revoke it,
and there is one at most. That is `FreshInv`, proved on top of `IInv`.

**`RateLimiter`**, for any addresses, tokens, limits, window length, tick, number of windows kept (two
at least) and bounds. The bound of `2 * limit - 1` requests in a span as long as a window is the
subtle one. `WindowInv` carries it: every window has a charge at the very tick it started, and the
charges before it that a span can share with it are one less than the limit, because the charge
that opened the window before lies outside the span. `RefusalInv` says where the refusing window is
(full and unchanged, or replaced after it was over), `OrderInv` that `order` follows the last charges
and that, once a key has been given up, the list is full of keys charged later.

**`HouseholdWorkspace`**, for any tenants, connections, roots, layouts and finite set of threads. Two
parts of the invariant do the work. `BoundForGood`: a profile id stands for one connection as long as
the table or any call remembers it, because a new id is fresh and every other call copies a pair from
the table; this is what lets a save look its profile up twice. `ConflictInv`: the calls refused on a
folder and those about to be refused are together fewer than the threads, because the one that
created it is not among them. Steps that only move a call on go through `AdvancePreserves`.

**`EgressProxy`**, for any finite set of clients, any number of slots and any addresses. `SlotInv`: the
queue holds each waiting client once (`Lined`), and what is free and what is held are all the slots,
where a slot that was handed over but not noticed counts as held; a client that gives up at that
moment hands it on. `LocalInv`: the locals of a coroutine go with where it is suspended (`Tidy`). Each
step moves one client, so its image in `SlotPool` is a step or a stutter, and `Serve` is allowed
because the slots are accounted for.

**`Migrations`**, for any migrators and bridges, releases and scripts, and any number of faults. The
scripts a migrator has left to do are those of its release above the version it read (`Planned`), the
recorded versions have no gap (`Gapless`), and a script that was applied by someone else meanwhile
fails on its own tables, since tables and records agree (`BuiltAsRecorded`). So whatever commits is the
next version.

**`CredentialVault`**, for any processes, threads, accounts and keys. With `Careful`, every active key is
in every ring (`ActiveEverywhere`), also while a process is restarted, and a key that is removed
encrypts nothing. `AnswersHold` is about what calls say, `CallsInv` about where they are: at each step
of a link, what is stored of its account (`Linking`); at each step of a disconnection, what is stored
no more (`Disconnecting`). They meet in one account, so a step of one call must not spoil what another
relies on: an app password has one call that links it (`OneLink`), a call on another account changes
nothing of this one (`Same`), and one that disconnects it only takes away (`Lessens`), which only
happens to an account that its owner began to leave. An undo that fails costs a second fault, so with
one at most the account is whole or its password revoked.

**`TokenVerification`**, for any keys, tokens, cache sizes, lifespans and workers. `RotationIsSafe` never
looks at the caches, which may be stale in any way: a key that has been published ever since the call
began is in every answer of the authorization server, so that the refetch finds it.
`WithdrawalIsFinal` looks at all of them: a key that is not published and not `Held` can only come back
by an answer, and every answer a worker has yet to store is one of those `Held` speaks of, or is later
than the call. So it stays in no cache that is used; a kept set that has it is past its lifespan, and
stays so, since every set stored later comes from an answer without it.

**The tools, all groups** (`ToolCalls_proofs`). A theorem of the sum is proved from an invariant of its
group, `tool = "files" => FilesInv` and so on, which the other groups leave alone. `ToolsAssumption`
is the conjunction of what the modules say of their constants.

Much here is about loops, and the induction theorems of the library cannot be applied. An induction on
a length or an index is therefore an argument about a smallest counterexample: `Smallest`, from the
well-foundedness of the numbers, gives the least member of a nonempty set of them. That is also how
the recursive functions of the models are shown to be what their equations say, and what they return.

- *Files.* First paths (`Under`, `Parent`), then trees (`TreeOk`: the parent of what exists is a folder,
  and remains one under each of the requests), then calls. `CallOk` says which step a call is at, that
  it goes to the root of the connection it resolved, and that it has done its request before it
  confirms it. What a step does to its own call is in the lemmas `…Effect`; a request changes a tree
  only at paths below the root of the call, whatever the owner or a second call changed since it
  looked (`OnlyBelowRoot`), and tests for what it would replace in the same step
  (`NothingReplacedUnasked`). Assumed of the constants (`FileTools!ToolsAssumption`): a root has no `..` in it, and what is shared
  at first lies in folders on the way to the root, so that the first trees are trees.
- *Search.* `WalkOk` describes the queue of a breadth-first walk: two levels at most are waiting, the
  nearer one first, and the results are in that order too. `Covered` is why an answer can be complete
  although the owner moves things: what was not moved is found, or a folder above it still waits. An
  empty queue leaves the first. The loop over one listing has an invariant of its own (`Loop`), and
  caps are met inside it (`CapsOk`). Where nothing can be listed (`~plain`) the walk ends at its first step.
- *Paths.* `AcceptedRoot` and `ConnectionRoot`: a root that is used has no `..`, however often it was
  normalized; `StripIs`, `SlashedIs`, `CleanedIs` and `RelativeIs` say what a given path becomes.
  `ServedIs`: the quoted URL of a root and a path without `..` leads to the node of that name, which is
  below the folders the root names, since the server takes the two slashes of a root for none.
  `NothingBelowBase`: with such a root no entry matches, so that nothing is listed. `EntryIs`: what
  is left of a node's path is the path that leads back to it when `strip()` and the backslashes leave
  it alone (`Survives`). All rest on quoting being one-to-one, for names that are given as well. The
  provers do not know the empty string for a string: `Regular` segments range over `STRING` with `""`
  added.
- *Inventories.* Between what the account offered throughout the call and what it offered at some
  moment lies what was found (`FoundHonestly`), per kind that has been asked for, unless the call says
  that it failed or was cut; `ReportInv` says so for each step, for the client the call has.
- *Keys.* `KeysInv` names a set the code does not keep: the containers still to be searched, those on
  the stack and all below them (`ToSearch`). The others have given their keys, and `visited` counts
  them. When the stack is empty so is the set: its least member would have to be on the stack, as the
  container it is in comes before it.
- *Invoices.* A text is what was read, or begins it (`Begins`): that is monotonous in the pages taken, in
  removing NULs, in joining and in cutting (`Joined`, `WithoutNuls`, `TakePages`, `Bounded`), so that
  one that is not all carries the warning (`Extraction`). `ReviewOf` is the review of the text that was
  extracted, and a field is missing only where no line of the whole text would have given it.

**The operator's programs** (`OperatorPrograms`, in the second half of `Migrations_proofs`).
`DiagnosisInv` has a part for each of the two tests that write (`WriteInv`, `HouseholdInv`: what is in
the account, what may still come late, which flag is set), one for the flags set in sequence
(`AppsInv`), one that ties the list of failed stages to the flags (`FailedInv`) and one for the exit
status. The cleanup is what carries: `result["cleanup"] = "yes"` means that nothing is left *and* nothing is
still to come, since the write test goes on to its cleanup only when the creation of its folder was
answered. `PreflightInv` says that no
check has failed exactly when all answers so far are good, and that then the checks passed are those
made; that a complete run passes 17 of them is a bijection.

**Only model-checked.** Liveness (`OrphansSwept`, `PendingEnds`, `EveryCallEnds`, `NewestGetsReady`,
`DisconnectedInTheEnd`), which with `ENABLED` is out of the prover's reach, and the two statements of
the documents that are violated.

## 6. Not modelled

- `hosted_server.py`: every tool calls one operation of another component and translates its
  exceptions; it has no state of its own.
- The validators of `auth.py`, `network_policy.py` and the login flow client, and the other settings:
  conditions on one string or a number, checked once, without state.
- The native MCP probe (`providers/native_mcp.py`): one request of a library whose result is passed on.
  `OCSClient.search` and `delete_profile` have no caller.
- The in-memory stores: they serve the tests, and the diagnostics, which run one call at a time.
- Security headers, trusted hosts, static pages, log texts, summaries and the layout of reports.
- Deployment scripts: the interval and the grace period they set are assumptions of the core.

`components` in `PROJECT.json` lists every part with its status.
