------------------------- MODULE ConnectionLifecycle -------------------------
(***************************************************************************)
(* Account linking of the hosted bridge: ConnectionService                 *)
(* (connections/service.py) over the SQL stores of persistence.py, the     *)
(* Login Flow v2 client, and the separate maintenance process              *)
(* (maintenance.py).  Every store call is a transaction of its own and     *)
(* every remote call a step of its own, so requests that run in different  *)
(* worker threads, the maintenance process and crashes interleave between  *)
(* any two of them.                                                        *)
(*                                                                         *)
(* Names.  The program mints a random flow_id, secret_ref or connection_id *)
(* whenever it needs one.  A flow leads to at most one completion (the     *)
(* external Nextcloud hands out the app password once), hence to at most   *)
(* one of each, and the model names them all after the flow:               *)
(*   pending[f]             the pending_nextcloud_logins row               *)
(*   conns[f]               the nextcloud_connections row made from f      *)
(*   secrets[PollToken(f)]  the bridge_secrets row of the poll token       *)
(*   secrets[AppPassword(f)]  that of the app password                     *)
(* A row is represented by its tenant, the one column queries test besides *)
(* the key; root_path and the URLs are payload.  Time is abstracted to two *)
(* facts: a flow is past expires_at (expired), a secret is older than the  *)
(* orphan grace (aged).                                                    *)
(***************************************************************************)
EXTENDS FiniteSets

CONSTANTS
    Tenants,            \* pseudonymous tenant ids
    Flows,              \* login flows that may be started
    Requests,           \* worker threads of the server
    NoTenant, NoFlow,   \* absent row, no flow
    MayFail,            \* may a database transaction raise?
    MayCrash            \* may a process die between two steps?

ASSUME ConstantsAssumption ==
    /\ NoTenant \notin Tenants
    /\ NoFlow \notin Flows
    /\ MayFail \in BOOLEAN
    /\ MayCrash \in BOOLEAN

VARIABLES
    pending, conns, secrets,    \* the three tables
    expired,                    \* flows past their expires_at
    aged,                       \* secret refs older than the orphan grace
    remote,                     \* remote[f]: the flow and its password at Nextcloud
    owner,                      \* owner[f]: the tenant that started f
    req,                        \* req[p]: the call thread p is executing
    sweep,                      \* the maintenance process's transaction
    history                     \* history[f]: what happened to f (ghost)

vars == <<pending, conns, secrets, expired, aged, remote, owner, req, sweep, history>>
tables == <<pending, conns, secrets>>
clocks == <<expired, aged>>
external == <<remote, owner>>

PollToken(f) == <<"poll", f>>
AppPassword(f) == <<"app", f>>
Refs == {"poll", "app"} \X Flows

Rows == Tenants \union {NoTenant}

(* The next step of a call; "idle" is a thread between two calls. *)
BeginSteps == {"putPollToken", "putPending", "dropPollToken"}
PollSteps == {"readPollToken", "askNextcloud", "putAppPassword", "putConnection",
              "dropAppPassword", "revokeNew", "consumeToken", "consumeRow"}
UseSteps == {"readRecord", "readSecret", "inUse"}
DisconnectSteps == {"peekSecret", "resolveAgain", "revokeOld", "deleteSecret", "deleteRow"}
Steps == {"idle", "writeRoot"} \union BeginSteps \union PollSteps
            \union UseSteps \union DisconnectSteps

Events == {"delivered", "refused", "lost", "connected", "consumed", "revokeTried",
           "revokeSkipped", "unlinked", "disconnected", "crashed"}

Calls == [at : Steps \ {"idle"}, tenant : Tenants, flow : Flows]
Idle == [at |-> "idle", tenant |-> NoTenant, flow |-> NoFlow]
Sweeps == [at : {"scan", "commit"}, flows : SUBSET Flows, refs : SUBSET Refs]
NoSweep == [at |-> "idle", flows |-> {}, refs |-> {}]

(* A thread between two calls, and a maintenance process between two       *)
(* sweeps, keep nothing of the last one.                                   *)

TypeOK ==
    /\ pending \in [Flows -> Rows]
    /\ conns \in [Flows -> Rows]
    /\ secrets \in [Refs -> Rows]
    /\ expired \subseteq Flows
    /\ aged \subseteq Refs
    /\ remote \in [Flows -> {"unused", "waiting", "granted", "live", "revoked"}]
    /\ owner \in [Flows -> Rows]
    /\ req \in [Requests -> Calls \union {Idle}]
    /\ sweep \in Sweeps \union {NoSweep}
    /\ history \in [Flows -> SUBSET Events]

Init ==
    /\ pending = [f \in Flows |-> NoTenant]
    /\ conns = [f \in Flows |-> NoTenant]
    /\ secrets = [r \in Refs |-> NoTenant]
    /\ expired = {} /\ aged = {}
    /\ remote = [f \in Flows |-> "unused"]
    /\ owner = [f \in Flows |-> NoTenant]
    /\ req = [p \in Requests |-> Idle]
    /\ sweep = NoSweep
    /\ history = [f \in Flows |-> {}]

-----------------------------------------------------------------------------
(* Helpers.  An operator commented "faulty" is never used by Next: it is   *)
(* what the definition after it would be with a plausible bug, and shows   *)
(* that a property of the runs would notice.                               *)

(* Faulty: queries look up by key alone. *)
OwnedByAnyone(row, t) == row # NoTenant

(* The tenant predicate every query carries: a row of another tenant is    *)
(* not found.                                                              *)
Owned(row, t) == row = t

(* DELETE ... WHERE key = :key AND tenant_id = :tenant. *)
Without(table, key, t) ==
    IF Owned(table[key], t) THEN [table EXCEPT ![key] = NoTenant] ELSE table

Start(p, step, t, f) ==
    /\ req[p].at = "idle"
    /\ req' = [req EXCEPT ![p] = [at |-> step, tenant |-> t, flow |-> f]]

Goto(p, step) == req' = [req EXCEPT ![p].at = step]
Return(p) == req' = [req EXCEPT ![p] = Idle]

Note(f, event) == history' = [history EXCEPT ![f] = @ \union {event}]

(* p is the poll that received the app password of f and has not yet       *)
(* stored, revoked or lost it.                                             *)
Holding(p, f) ==
    /\ req[p].flow = f
    /\ req[p].at \in {"putAppPassword", "putConnection", "dropAppPassword", "revokeNew"}

Working(f) == \E p \in Requests : req[p].flow = f

-----------------------------------------------------------------------------
(* begin_connection                                                        *)

(* initiate() succeeded: Nextcloud has the flow, the bridge not yet.  A    *)
(* refused root path or target changes nothing and is not a step.          *)
Begin(p, t, f) ==
    /\ remote[f] = "unused"
    /\ Start(p, "putPollToken", t, f)
    /\ remote' = [remote EXCEPT ![f] = "waiting"]
    /\ owner' = [owner EXCEPT ![f] = t]
    /\ UNCHANGED <<tables, clocks, sweep, history>>

PutPollToken(p) ==
    /\ req[p].at = "putPollToken"
    /\ secrets' = [secrets EXCEPT ![PollToken(req[p].flow)] = req[p].tenant]
    /\ Goto(p, "putPending")
    /\ UNCHANGED <<pending, conns, clocks, external, sweep, history>>

PutPending(p) ==
    /\ req[p].at = "putPending"
    /\ pending' = [pending EXCEPT ![req[p].flow] = req[p].tenant]
    /\ Return(p)
    /\ UNCHANGED <<conns, secrets, clocks, external, sweep, history>>

(* The except branch: the poll token is deleted again, the call raises. *)
DropPollToken(p) ==
    /\ req[p].at = "dropPollToken"
    /\ secrets' = Without(secrets, PollToken(req[p].flow), req[p].tenant)
    /\ Return(p)
    /\ UNCHANGED <<pending, conns, clocks, external, sweep, history>>

-----------------------------------------------------------------------------
(* poll_connection                                                         *)

(* get_pending and the expiry test.  A flow that is not found raises and   *)
(* changes nothing.                                                        *)
Poll(p, t, f) ==
    /\ Owned(pending[f], t)
    /\ Start(p, IF f \in expired THEN "consumeToken" ELSE "readPollToken", t, f)
    /\ UNCHANGED <<tables, clocks, external, sweep, history>>

ReadPollToken(p) ==
    /\ req[p].at = "readPollToken"
    /\ Goto(p, IF Owned(secrets[PollToken(req[p].flow)], req[p].tenant)
               THEN "askNextcloud" ELSE "consumeToken")
    /\ UNCHANGED <<tables, clocks, external, sweep, history>>

(* The flow expired meanwhile, 404 (not granted, or already handed out),   *)
(* another status, a network error before Nextcloud acted: the call        *)
(* returns or raises and the flow stays pending.                           *)
PollUnfinished(p) ==
    /\ req[p].at = "askNextcloud"
    /\ Return(p)
    /\ UNCHANGED <<tables, clocks, external, sweep, history>>

(* Nextcloud answers 200 and forgets the completion; outcome says what     *)
(* becomes of the answer.  Expiry is tested before the request is sent, so *)
(* a flow that expires after that is answered as well.                     *)
HandOut(p, outcome) ==
    LET f == req[p].flow IN
    /\ req[p].at = "askNextcloud"
    /\ remote[f] = "granted"
    /\ remote' = [remote EXCEPT ![f] = "live"]
    /\ history' = [history EXCEPT ![f] = @ \union outcome]
    /\ UNCHANGED <<tables, clocks, owner, sweep>>

PollCompleted(p) == HandOut(p, {"delivered"}) /\ Goto(p, "putAppPassword")

(* The payload fails validation (missing field, foreign origin, target     *)
(* policy): LoginFlowError, re-raised before the try/finally.              *)
PollRefused(p) == HandOut(p, {"delivered", "refused"}) /\ Return(p)

(* The answer never arrives: timeout or connection reset. *)
PollAnswerLost(p) == HandOut(p, {"lost"}) /\ Return(p)

PutAppPassword(p) ==
    /\ req[p].at = "putAppPassword"
    /\ secrets' = [secrets EXCEPT ![AppPassword(req[p].flow)] = req[p].tenant]
    /\ Goto(p, "putConnection")
    /\ UNCHANGED <<pending, conns, clocks, external, sweep, history>>

(* put_connection inserts or updates the row of the connection. *)
UpsertConnection(p) == conns' = [conns EXCEPT ![req[p].flow] = req[p].tenant]

PutConnection(p) ==
    /\ req[p].at = "putConnection"
    /\ UpsertConnection(p)
    /\ Goto(p, "consumeToken")
    /\ Note(req[p].flow, "connected")
    /\ UNCHANGED <<pending, secrets, clocks, external, sweep>>

(* The except branch: delete the stored password, then revoke it. *)
DropAppPassword(p) ==
    /\ req[p].at = "dropAppPassword"
    /\ secrets' = Without(secrets, AppPassword(req[p].flow), req[p].tenant)
    /\ Goto(p, "revokeNew")
    /\ UNCHANGED <<pending, conns, clocks, external, sweep, history>>

(* OCS delete_app_password; failures are swallowed or reported, not retried. *)
TryRevoke(p) ==
    LET f == req[p].flow IN
    /\ remote' \in {remote, [remote EXCEPT ![f] = "revoked"]}
    /\ Note(f, "revokeTried")

RevokeNew(p) ==
    /\ req[p].at = "revokeNew"
    /\ TryRevoke(p)
    /\ Goto(p, "consumeToken")
    /\ UNCHANGED <<tables, clocks, owner, sweep>>

(* _delete_pending: the token first, the row in a second transaction. *)
ConsumeToken(p) ==
    /\ req[p].at = "consumeToken"
    /\ secrets' = Without(secrets, PollToken(req[p].flow), req[p].tenant)
    /\ Goto(p, "consumeRow")
    /\ Note(req[p].flow, "consumed")
    /\ UNCHANGED <<pending, conns, clocks, external, sweep>>

ConsumeRow(p) ==
    /\ req[p].at = "consumeRow"
    /\ pending' = Without(pending, req[p].flow, req[p].tenant)
    /\ Return(p)
    /\ UNCHANGED <<conns, secrets, clocks, external, sweep, history>>

-----------------------------------------------------------------------------
(* update_root_path: read the row, then write the whole row back           *)

UpdateRoot(p, t, f) ==
    /\ Owned(conns[f], t)
    /\ Start(p, "writeRoot", t, f)
    /\ UNCHANGED <<tables, clocks, external, sweep, history>>

WriteRoot(p) ==
    /\ req[p].at = "writeRoot"
    /\ UpsertConnection(p)
    /\ Return(p)
    /\ UNCHANGED <<pending, secrets, clocks, external, sweep, history>>

-----------------------------------------------------------------------------
(* A tool call: HostedSettingsResolver.resolve, then the remote work       *)

(* list_connections finds exactly one; zero or several raise. *)
Resolve(p, t, f) ==
    /\ {g \in Flows : Owned(conns[g], t)} = {f}
    /\ Start(p, "readRecord", t, f)
    /\ UNCHANGED <<tables, clocks, external, sweep, history>>

ReadRecord(p) ==
    /\ req[p].at = "readRecord"
    /\ IF Owned(conns[req[p].flow], req[p].tenant) THEN Goto(p, "readSecret") ELSE Return(p)
    /\ UNCHANGED <<tables, clocks, external, sweep, history>>

ReadSecret(p) ==
    /\ req[p].at = "readSecret"
    /\ IF Owned(secrets[AppPassword(req[p].flow)], req[p].tenant)
         THEN Goto(p, "inUse") ELSE Return(p)
    /\ UNCHANGED <<tables, clocks, external, sweep, history>>

FinishUse(p) ==
    /\ req[p].at = "inUse"
    /\ Return(p)
    /\ UNCHANGED <<tables, clocks, external, sweep, history>>

-----------------------------------------------------------------------------
(* disconnect                                                              *)

Disconnect(p, t, f) ==
    /\ Owned(conns[f], t)
    /\ Start(p, "peekSecret", t, f)
    /\ UNCHANGED <<tables, clocks, external, sweep, history>>

PeekSecret(p) ==
    /\ req[p].at = "peekSecret"
    /\ Goto(p, IF Owned(secrets[AppPassword(req[p].flow)], req[p].tenant)
               THEN "resolveAgain" ELSE "deleteSecret")
    /\ UNCHANGED <<tables, clocks, external, sweep, history>>

(* resolve_settings once more, inside the try: whichever of its two reads  *)
(* comes back empty, the code goes on to the finally block, so the two     *)
(* reads are one step.                                                     *)
ResolveAgain(p) ==
    /\ req[p].at = "resolveAgain"
    /\ Goto(p, IF /\ Owned(conns[req[p].flow], req[p].tenant)
                  /\ Owned(secrets[AppPassword(req[p].flow)], req[p].tenant)
               THEN "revokeOld" ELSE "deleteSecret")
    /\ UNCHANGED <<tables, clocks, external, sweep, history>>

RevokeOld(p) ==
    /\ req[p].at = "revokeOld"
    /\ TryRevoke(p)
    /\ Goto(p, "deleteSecret")
    /\ UNCHANGED <<tables, clocks, owner, sweep>>

DeleteSecret(p) ==
    /\ req[p].at = "deleteSecret"
    /\ secrets' = Without(secrets, AppPassword(req[p].flow), req[p].tenant)
    /\ Goto(p, "deleteRow")
    /\ Note(req[p].flow, "unlinked")
    /\ UNCHANGED <<pending, conns, clocks, external, sweep>>

DeleteRow(p) ==
    /\ req[p].at = "deleteRow"
    /\ conns' = Without(conns, req[p].flow, req[p].tenant)
    /\ Return(p)
    /\ Note(req[p].flow, "disconnected")
    /\ UNCHANGED <<pending, secrets, clocks, external, sweep>>

-----------------------------------------------------------------------------
(* Failures of the server process                                          *)

(* Where a raising store call leaves the request: in the except or finally *)
(* block around it, or out of the call.                                    *)
AfterFault(step) ==
    CASE step = "putPending" -> "dropPollToken"
      [] step = "putAppPassword" -> "revokeNew"
      [] step = "putConnection" -> "dropAppPassword"
      [] step = "dropAppPassword" -> "consumeToken"     \* the revocation is skipped
      [] step = "resolveAgain" -> "deleteSecret"
      [] OTHER -> "idle"

StoreSteps == Steps \ {"idle", "askNextcloud", "revokeNew", "revokeOld", "inUse"}

RaiseTo(p, next) ==
    /\ MayFail
    /\ req[p].at \in StoreSteps
    /\ IF next = "idle" THEN Return(p) ELSE Goto(p, next)
    /\ IF req[p].at \in {"dropAppPassword", "resolveAgain"}
         THEN Note(req[p].flow, "revokeSkipped") ELSE UNCHANGED history
    /\ UNCHANGED <<tables, clocks, external, sweep>>

(* Faulty: no revocation when the password could not even be stored. *)
FaultUnrevoked(p) ==
    RaiseTo(p, IF req[p].at = "putAppPassword" THEN "consumeToken" ELSE AfterFault(req[p].at))

(* Faulty: the finally block of disconnect suppresses a failed deletion of *)
(* the secret and goes on to the row.                                      *)
FaultRowOnly(p) ==
    RaiseTo(p, IF req[p].at = "deleteSecret" THEN "deleteRow" ELSE AfterFault(req[p].at))

(* Faulty: when the settings cannot be resolved only the row is deleted. *)
FaultSecretKept(p) ==
    RaiseTo(p, IF req[p].at = "resolveAgain" THEN "deleteRow" ELSE AfterFault(req[p].at))

(* A store call raises: its transaction rolls back. *)
Fault(p) == RaiseTo(p, AfterFault(req[p].at))

(* The server process dies: calls in flight are gone, the tables stay. *)
Crash ==
    /\ MayCrash
    /\ \E p \in Requests : req[p] # Idle
    /\ req' = [p \in Requests |-> Idle]
    /\ history' = [f \in Flows |-> IF \E p \in Requests : Holding(p, f)
                                   THEN history[f] \union {"crashed"} ELSE history[f]]
    /\ UNCHANGED <<tables, clocks, external, sweep>>

-----------------------------------------------------------------------------
(* cleanup_hosted_storage: one READ COMMITTED transaction of several       *)
(* statements.  Its deletions show to others at the commit.                *)

(* A secret some row of the same tenant still names, as the transaction    *)
(* sees it after its own deletion of the rows of the flows in gone.        *)
Referenced(r, gone) ==
    \E f \in Flows :
        \/ r = PollToken(f) /\ f \notin gone /\ Owned(pending[f], secrets[r])
        \/ r = AppPassword(f) /\ Owned(conns[f], secrets[r])

SelectExpired(flows) ==
    /\ sweep.at = "idle"
    /\ sweep' = [at |-> "scan", flows |-> flows, refs |-> {}]
    /\ UNCHANGED <<tables, clocks, external, req, history>>

(* Faulty: an inner join with the secret misses half-consumed flows. *)
SweepExpiredJoined ==
    SelectExpired({f \in expired : /\ pending[f] # NoTenant
                                   /\ secrets[PollToken(f)] # NoTenant})

SweepExpired == SelectExpired({f \in expired : pending[f] # NoTenant})

SelectOrphans(candidates) ==
    /\ sweep.at = "scan"
    /\ sweep' = [at |-> "commit", flows |-> sweep.flows,
                 refs |-> {r \in candidates : /\ secrets[r] # NoTenant
                                              /\ ~Referenced(r, sweep.flows)}
                            \ {PollToken(f) : f \in sweep.flows}]
    /\ UNCHANGED <<tables, clocks, external, req, history>>

(* Faulty: no grace period. *)
SweepOrphansAtOnce == SelectOrphans(Refs)

(* Faulty: only poll tokens are looked for. *)
SweepPollTokensOnly == SelectOrphans({r \in aged : r[1] = "poll"})

SweepOrphans == SelectOrphans(aged)

CommitSweep(doomed) ==
    /\ sweep.at = "commit"
    /\ pending' = [f \in Flows |-> IF f \in sweep.flows THEN NoTenant ELSE pending[f]]
    /\ secrets' = [r \in Refs |-> IF r \in doomed THEN NoTenant ELSE secrets[r]]
    /\ sweep' = NoSweep
    /\ UNCHANGED <<conns, clocks, external, req, history>>

(* Faulty: the secrets of expired flows are deleted by tenant, not by ref. *)
SweepCommitByTenant ==
    CommitSweep(sweep.refs \union {r \in Refs : \E f \in sweep.flows : secrets[r] = owner[f]})

SweepCommit == CommitSweep(sweep.refs \union {PollToken(f) : f \in sweep.flows})

(* The transaction rolls back; the container restarts the loop. *)
SweepAbort ==
    /\ MayFail \/ MayCrash
    /\ sweep.at # "idle"
    /\ sweep' = NoSweep
    /\ UNCHANGED <<tables, clocks, external, req, history>>

-----------------------------------------------------------------------------
(* Environment                                                             *)

(* The user approves the login in the browser. *)
Grant(f) ==
    /\ remote[f] = "waiting"
    /\ remote' = [remote EXCEPT ![f] = "granted"]
    /\ UNCHANGED <<tables, clocks, owner, req, sweep, history>>

(* The clock passes expires_at. *)
Expire(f) ==
    /\ remote[f] # "unused"
    /\ expired' = expired \union {f}
    /\ UNCHANGED <<tables, aged, external, req, sweep, history>>

(* The grace period outlasts the window between storing a secret and       *)
(* committing the row that names it: the assumption maintenance.py makes   *)
(* (an hour by default against two consecutive database calls).            *)
InWindow(r) ==
    \E p \in Requests :
        \/ req[p].at = "putPending" /\ r = PollToken(req[p].flow)
        \/ req[p].at = "putConnection" /\ r = AppPassword(req[p].flow)

(* The clock passes created_at + orphan_grace. *)
Age(r) ==
    /\ secrets[r] # NoTenant
    /\ ~InWindow(r)
    /\ aged' = aged \union {r}
    /\ UNCHANGED <<tables, expired, external, req, sweep, history>>

-----------------------------------------------------------------------------
BeginStep(p) == PutPollToken(p) \/ PutPending(p) \/ DropPollToken(p)
Answer(p) == PollUnfinished(p) \/ PollCompleted(p) \/ PollRefused(p) \/ PollAnswerLost(p)
PollStep(p) ==
    \/ ReadPollToken(p) \/ Answer(p) \/ PutAppPassword(p) \/ PutConnection(p)
    \/ DropAppPassword(p) \/ RevokeNew(p) \/ ConsumeToken(p) \/ ConsumeRow(p)
UseStep(p) == ReadRecord(p) \/ ReadSecret(p) \/ FinishUse(p)
DisconnectStep(p) ==
    PeekSecret(p) \/ ResolveAgain(p) \/ RevokeOld(p) \/ DeleteSecret(p) \/ DeleteRow(p)

(* One more step of the call in flight. *)
Continue(p) ==
    BeginStep(p) \/ PollStep(p) \/ WriteRoot(p) \/ UseStep(p) \/ DisconnectStep(p) \/ Fault(p)

Call(p, t, f) ==
    \/ Begin(p, t, f) \/ Poll(p, t, f) \/ UpdateRoot(p, t, f)
    \/ Resolve(p, t, f) \/ Disconnect(p, t, f)

Sweep == SweepExpired \/ SweepOrphans \/ SweepCommit

Next ==
    \/ \E p \in Requests : Continue(p)
    \/ \E p \in Requests, t \in Tenants, f \in Flows : Call(p, t, f)
    \/ Crash
    \/ Sweep \/ SweepAbort
    \/ \E f \in Flows : Grant(f) \/ Expire(f)
    \/ \E r \in Refs : Age(r)

Spec == Init /\ [][Next]_vars

(* Worker threads finish their calls, the clock advances, and maintenance  *)
(* runs every 300 s; its transaction may fail, but not every time.         *)
FairSpec ==
    /\ Spec
    /\ \A p \in Requests : WF_vars(Continue(p))
    /\ \A f \in Flows : WF_vars(Expire(f))
    /\ \A r \in Refs : WF_vars(Age(r))
    /\ WF_vars(SweepExpired) /\ SF_vars(SweepOrphans) /\ SF_vars(SweepCommit)

-----------------------------------------------------------------------------
(* Properties                                                              *)

(* Every row and every running call belongs to the tenant that started the *)
(* flow: no call ever works with another tenant's connection or password,  *)
(* although each query re-checks the tenant separately.                    *)
TenantIsolation ==
    /\ \A f \in Flows :
          {pending[f], conns[f], secrets[PollToken(f)], secrets[AppPassword(f)]}
             \subseteq {NoTenant, owner[f]}
    /\ \A p \in Requests : req[p] # Idle => req[p].tenant = owner[req[p].flow]

(* A row never names a secret that maintenance or a failing call removed   *)
(* from under it: the app password of a connection goes only when a        *)
(* disconnect has reached its deletions, the poll token of a pending row   *)
(* only when a poll has begun to consume the flow.                         *)
ReferencesResolve ==
    \A f \in Flows :
        /\ conns[f] # NoTenant =>
              secrets[AppPassword(f)] # NoTenant \/ "unlinked" \in history[f]
        /\ pending[f] # NoTenant =>
              secrets[PollToken(f)] # NoTenant \/ "consumed" \in history[f]

(* The ways a live app password may legitimately drop out of the bridge's  *)
(* sight: revocation was tried and failed, the completion was refused or   *)
(* its answer lost, the server died holding it, or a database fault took   *)
(* the path on which the code does not try to revoke.                      *)
Excuses == {"revokeTried", "revokeSkipped", "refused", "lost", "crashed"}

Linked(f) == conns[f] # NoTenant /\ secrets[AppPassword(f)] # NoTenant

(* A password that is live at Nextcloud is either stored for a connection, *)
(* in the hands of the poll that received it, or excused.                  *)
LivePasswordAccounted ==
    \A f \in Flows :
        remote[f] = "live" =>
            \/ Linked(f)
            \/ \E p \in Requests : Holding(p, f)
            \/ history[f] \intersect Excuses # {}

(* After disconnect has returned its result the credential is gone and no  *)
(* other call in flight brings it back.                                    *)
DisconnectedCredentialGone ==
    \A f \in Flows : "disconnected" \in history[f] => secrets[AppPassword(f)] = NoTenant

(* A secret no row names is eventually deleted, or named after all by the  *)
(* call that stored it: also when that call or the server died between     *)
(* storing the secret and committing the row.                              *)
Orphan(r) == secrets[r] # NoTenant /\ ~Referenced(r, {})
OrphansSwept == \A r \in Refs : Orphan(r) ~> ~Orphan(r)

(* A pending flow does not stay for ever, whether it is completed, expires *)
(* or is abandoned half consumed.                                          *)
PendingEnds == \A f \in Flows : pending[f] # NoTenant ~> pending[f] = NoTenant

(* What the documents say and the code does not keep (violated).           *)

(* docs/AUTH_ARCHITECTURE.md:59: disconnected means that the metadata and  *)
(* the credential are removed.                                             *)
DisconnectRemovesMetadata ==
    \A f \in Flows : "disconnected" \in history[f] => conns[f] = NoTenant

-----------------------------------------------------------------------------
(* The inductive invariant behind the safety properties                    *)

Minted(f) == remote[f] \in {"live", "revoked"}
Excused(f) == history[f] \intersect Excuses # {}

Started ==
    \A f \in Flows : remote[f] = "unused" =>
        owner[f] = NoTenant /\ PollToken(f) \notin aged /\ f \notin sweep.flows

(* A call that begins f is alone with it, and its poll token is too young  *)
(* for maintenance until the row is committed.                             *)
BeginInv ==
    \A p \in Requests : \A f \in Flows :
        req[p].flow = f /\ req[p].at \in BeginSteps =>
            /\ pending[f] = NoTenant /\ f \notin sweep.flows /\ "connected" \notin history[f]
            /\ \A q \in Requests : req[q].flow = f => q = p
            /\ req[p].at = "putPollToken" =>
                  secrets[PollToken(f)] = NoTenant /\ PollToken(f) \notin aged
            /\ req[p].at = "putPending" =>
                  secrets[PollToken(f)] # NoTenant /\ PollToken(f) \notin aged

(* One poll at most receives the app password of f, and nothing is linked  *)
(* as long as it holds it.                                                 *)
HoldInv ==
    \A p \in Requests : \A f \in Flows :
        Holding(p, f) =>
            /\ Minted(f) /\ "connected" \notin history[f]
            /\ \A q \in Requests : Holding(q, f) => q = p
            /\ req[p].at = "putAppPassword" =>
                  secrets[AppPassword(f)] = NoTenant /\ AppPassword(f) \notin aged
            /\ req[p].at = "putConnection" =>
                  secrets[AppPassword(f)] # NoTenant /\ AppPassword(f) \notin aged

LinkInv ==
    \A f \in Flows :
        /\ conns[f] # NoTenant => "connected" \in history[f]
        /\ "connected" \in history[f] /\ "unlinked" \notin history[f] => Linked(f)
        /\ "unlinked" \in history[f] =>
              "connected" \in history[f] /\ secrets[AppPassword(f)] = NoTenant /\ Excused(f)
        /\ "disconnected" \in history[f] => "unlinked" \in history[f]
        /\ (\/ "connected" \in history[f]
            \/ secrets[AppPassword(f)] # NoTenant
            \/ AppPassword(f) \in aged) => Minted(f)
        /\ pending[f] # NoTenant =>
              secrets[PollToken(f)] # NoTenant \/ "consumed" \in history[f]

CallInv ==
    \A p \in Requests : \A f \in Flows : req[p].flow = f =>
        /\ req[p].at \in {"writeRoot"} \union DisconnectSteps => "connected" \in history[f]
        /\ req[p].at = "deleteSecret" => Excused(f)
        /\ req[p].at = "deleteRow" => "unlinked" \in history[f]

(* What a sweep has selected stays garbage until it commits. *)
SweepInv ==
    /\ sweep.refs \subseteq aged
    /\ \A f \in Flows :
          /\ AppPassword(f) \in sweep.refs =>
                "unlinked" \in history[f] \/ "connected" \notin history[f]
          /\ PollToken(f) \in sweep.refs =>
                pending[f] = NoTenant \/ "consumed" \in history[f]

(* The safety properties above, strengthened until every step keeps them:  *)
(* the window of every call that stores a secret is protected, and the     *)
(* history of a flow only goes forward.                                    *)
IInv ==
    /\ TypeOK /\ TenantIsolation /\ Started /\ BeginInv /\ HoldInv
    /\ LinkInv /\ CallInv /\ SweepInv /\ LivePasswordAccounted

-----------------------------------------------------------------------------
(* Refinement of LinkedAccount                                             *)

Phase(f) ==
    IF Linked(f) THEN "linked"
    ELSE IF "connected" \in history[f] THEN "closed"
    ELSE IF remote[f] = "unused" THEN "new"
    ELSE "offered"

Password(f) == IF remote[f] \in {"live", "revoked"} THEN remote[f] ELSE "none"

Account == INSTANCE LinkedAccount WITH
             phase <- [f \in Flows |-> Phase(f)],
             password <- [f \in Flows |-> Password(f)]

(* The service implements the life cycle of LinkedAccount: one usable      *)
(* connection per flow, made with a live password, closed for good.        *)
AccountSpec == Account!Spec
=============================================================================
