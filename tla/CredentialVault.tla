--------------------------- MODULE CredentialVault ---------------------------
(***************************************************************************)
(* Secrets at rest while keys are rotated (persistence.py): app passwords  *)
(* are encrypted with the active key of the process that links an account  *)
(* and read by any process that has this key in its ring; linking and      *)
(* disconnecting write the secret and the connection in transactions of    *)
(* their own.  The keys of a process change when it is restarted, which    *)
(* ends its calls.  Root-path updates are left out: what one can do to a   *)
(* disconnected account is in ConnectionLifecycle.                         *)
(*                                                                         *)
(* A transaction is committed; or it fails; or it is committed and the     *)
(* answer to the commit is lost, which the code takes for a failure.       *)
(***************************************************************************)
EXTENDS Naturals, FiniteSets

CONSTANTS
  Processes,    \* replicas of the bridge
  Threads,      \* calls at the same time
  ProcessOf,    \* ProcessOf[i]: where thread i runs
  Accounts,     \* accounts to link; each is one connection with one secret
  Keys,         \* key ids
  FirstKey,     \* the key everything starts with
  Careful,      \* whether keys are removed and activated as documented
  MaxFaults,    \* failed transactions and requests, a bound on the model
  MaxRestarts   \* restarts, a bound on the model

NoKey == "no key"
NoAccount == "no account"

ASSUME VaultAssumption ==
  /\ FirstKey \in Keys /\ NoKey \notin Keys /\ Careful \in BOOLEAN
  /\ ProcessOf \in [Threads -> Processes]
  /\ MaxFaults \in Nat /\ MaxRestarts \in Nat

VARIABLES ring,       \* ring[p]: the keys of process p
          active,     \* active[p]: the one it encrypts with
          sealed,     \* sealed[c]: key of the stored secret, NoKey if none is
          connected,  \* accounts with a row in nextcloud_connections
          password,   \* password[c]: what Nextcloud makes of the app password
          call,       \* call[i]: the locals of the call in thread i
          left,       \* history: accounts somebody began to disconnect
          faults, restarts

vars == <<ring, active, sealed, connected, password, call, left, faults, restarts>>

Ended == {"idle", "connected", "disconnected", "raised", "killed"}

Init ==
  /\ ring = [p \in Processes |-> {FirstKey}]
  /\ active = [p \in Processes |-> FirstKey]
  /\ sealed = [c \in Accounts |-> NoKey]
  /\ connected = {}
  /\ password = [c \in Accounts |-> "none"]
  /\ call = [i \in Threads |-> [at |-> "idle", op |-> "none", account |-> NoAccount,
                              revoked |-> FALSE]]
  /\ left = {}
  /\ faults = 0 /\ restarts = 0

Goto(i, step) == call' = [call EXCEPT ![i].at = step]
Account(i) == call[i].account
Ring(i) == ring[ProcessOf[i]]

Fault == faults < MaxFaults /\ faults' = faults + 1

\* A transaction or request with the given effect: done; failed; done and
\* not answered.
Try(done, undone, i, next, otherwise) ==
  \/ done /\ Goto(i, next) /\ UNCHANGED faults
  \/ (done \/ undone) /\ Goto(i, otherwise) /\ Fault

-----------------------------------------------------------------------------
(* The vault and the connection rows.                                      *)

\* Faulty: a secret is encrypted with any key of the ring.
EncryptionKeysAny(p) == ring[p]

\* put(): the active key.
EncryptionKeys(p) == {active[p]}

Store(i) ==
  \E k \in EncryptionKeys(ProcessOf[i]) : sealed' = [sealed EXCEPT ![Account(i)] = k]

Erase(i) == sealed' = [sealed EXCEPT ![Account(i)] = NoKey]

\* get(): None without a row, an error without the key.
Stored(i) == sealed[Account(i)] # NoKey
Decrypts(i) == sealed[Account(i)] \in Ring(i)

\* Nextcloud revokes a password that is still live.
Revokes(i) ==
  /\ password[Account(i)] = "live"
  /\ password' = [password EXCEPT ![Account(i)] = "revoked"]

-----------------------------------------------------------------------------
(* poll_connection, once Nextcloud has answered with an app password.      *)

BeginLink(i) ==
  /\ call[i].at \in Ended
  /\ \E c \in Accounts :
       /\ password[c] = "none"
       /\ password' = [password EXCEPT ![c] = "live"]
       /\ call' = [call EXCEPT ![i] = [at |-> "put_secret", op |-> "link", account |-> c,
                                      revoked |-> FALSE]]
  /\ UNCHANGED <<ring, active, sealed, connected, faults, restarts, left>>

\* Without an answer credential_ref stays None: nothing is erased.
PutSecret(i) ==
  /\ call[i].at = "put_secret"
  /\ Try(Store(i), UNCHANGED sealed, i, "put_connection", "undo_password")
  /\ UNCHANGED <<ring, active, connected, password, restarts, left>>

PutConnection(i) ==
  /\ call[i].at = "put_connection"
  /\ Try(connected' = connected \union {Account(i)}, UNCHANGED connected,
         i, "drop_pending", "undo_secret")
  /\ UNCHANGED <<ring, active, sealed, password, restarts, left>>

\* The finally block, whose rows are those of ConnectionLifecycle; after an
\* error it changes nothing here.
DropPending(i) ==
  /\ call[i].at = "drop_pending"
  /\ \/ Goto(i, "connected") /\ UNCHANGED faults
     \/ Goto(i, "raised") /\ Fault
  /\ UNCHANGED <<ring, active, sealed, connected, password, restarts, left>>

\* An error of the delete is raised before _best_effort_revoke.
UndoSecret(i) ==
  /\ call[i].at = "undo_secret"
  /\ Try(Erase(i), UNCHANGED sealed, i, "undo_password", "raised")
  /\ UNCHANGED <<ring, active, connected, password, restarts, left>>

UndoPassword(i) ==
  /\ call[i].at = "undo_password"
  /\ \/ Try(Revokes(i), UNCHANGED password, i, "raised", "raised")
     \/ password[Account(i)] # "live" /\ Goto(i, "raised") /\ UNCHANGED <<password, faults>>
  /\ UNCHANGED <<ring, active, sealed, connected, restarts, left>>

-----------------------------------------------------------------------------
(* disconnect                                                              *)

BeginDisconnect(i, c) ==
  /\ call[i].at \in Ended
  /\ c \in connected
  /\ call' = [call EXCEPT ![i] = [at |-> "get_secret", op |-> "disconnect", account |-> c,
                                    revoked |-> FALSE]]
  /\ left' = left \union {c}
  /\ UNCHANGED <<ring, active, sealed, connected, password, faults, restarts>>

\* Faulty: a secret that is gone is an error.
GetSecretStrict(i) ==
  /\ call[i].at = "get_secret"
  /\ \/ Goto(i, IF Stored(i) /\ Decrypts(i) THEN "resolve" ELSE "raised") /\ UNCHANGED faults
     \/ Goto(i, "raised") /\ Fault
  /\ UNCHANGED <<ring, active, sealed, connected, password, restarts, left>>

GetSecret(i) ==
  /\ call[i].at = "get_secret"
  /\ \/ /\ Goto(i, IF ~Stored(i) THEN "erase_secret"
                   ELSE IF Decrypts(i) THEN "resolve" ELSE "raised")
        /\ UNCHANGED faults
     \/ Goto(i, "raised") /\ Fault
  /\ UNCHANGED <<ring, active, sealed, connected, password, restarts, left>>

\* resolve_settings reads the record and the secret again.
Resolve(i) ==
  /\ call[i].at = "resolve"
  /\ \/ /\ Goto(i, IF Account(i) \in connected /\ Stored(i) /\ Decrypts(i)
                   THEN "revoke" ELSE "erase_secret")
        /\ UNCHANGED faults
     \/ Goto(i, "erase_secret") /\ Fault
  /\ UNCHANGED <<ring, active, sealed, connected, password, restarts, left>>

Revoke(i) ==
  /\ call[i].at = "revoke"
  /\ \/ /\ Revokes(i)
        /\ call' = [call EXCEPT ![i].at = "erase_secret", ![i].revoked = TRUE]
        /\ UNCHANGED faults
     \/ /\ password[Account(i)] # "live"
        /\ Goto(i, "erase_secret")
        /\ UNCHANGED <<password, faults>>
     \/ (Revokes(i) \/ UNCHANGED password) /\ Goto(i, "erase_secret") /\ Fault
  /\ UNCHANGED <<ring, active, sealed, connected, restarts, left>>

\* Faulty: the row of the connection is deleted where the secret was meant.
EraseRowOnly(i) ==
  /\ call[i].at = "erase_secret"
  /\ Try(connected' = connected \ {Account(i)}, UNCHANGED connected,
         i, "erase_connection", "raised")
  /\ UNCHANGED <<ring, active, sealed, password, restarts, left>>

EraseSecret(i) ==
  /\ call[i].at = "erase_secret"
  /\ Try(Erase(i), UNCHANGED sealed, i, "erase_connection", "raised")
  /\ UNCHANGED <<ring, active, connected, password, restarts, left>>

EraseConnection(i) ==
  /\ call[i].at = "erase_connection"
  /\ Try(connected' = connected \ {Account(i)}, UNCHANGED connected,
         i, "disconnected", "raised")
  /\ UNCHANGED <<ring, active, sealed, password, restarts, left>>

-----------------------------------------------------------------------------
(* Keys.  A process refuses to start when its active key is not in its     *)
(* ring.                                                                   *)

RestartWith(p, keys, key) ==
  /\ key \in keys
  /\ ring' = [ring EXCEPT ![p] = keys]
  /\ active' = [active EXCEPT ![p] = key]
  /\ call' = [i \in Threads |->
               IF ProcessOf[i] = p /\ call[i].at \notin Ended
               THEN [call[i] EXCEPT !.at = "killed"] ELSE call[i]]
  /\ restarts < MaxRestarts /\ restarts' = restarts + 1
  /\ UNCHANGED <<sealed, connected, password, faults, left>>

AddKey(p) == \E k \in Keys \ ring[p] : RestartWith(p, ring[p] \union {k}, active[p])

\* "only after the new key is present on every process"
Activate(p) ==
  \E k \in ring[p] \ {active[p]} :
    /\ Careful => \A q \in Processes : k \in ring[q]
    /\ RestartWith(p, ring[p], k)

\* "Keep historical keys while ciphertext still references them."
RemoveKey(p) ==
  \E k \in ring[p] :
    /\ Careful => /\ \A q \in Processes : active[q] # k
                  /\ \A c \in Accounts : sealed[c] # k
    /\ \E key \in ring[p] \ {k} : /\ Careful => key = active[p]
                                  /\ RestartWith(p, ring[p] \ {k}, key)

-----------------------------------------------------------------------------

Proceed(i) ==
  \/ PutSecret(i) \/ PutConnection(i) \/ DropPending(i) \/ UndoSecret(i) \/ UndoPassword(i)
  \/ GetSecret(i) \/ Resolve(i) \/ Revoke(i) \/ EraseSecret(i) \/ EraseConnection(i)

Next ==
  \/ \E i \in Threads : \/ BeginLink(i) \/ Proceed(i)
                        \/ \E c \in Accounts : BeginDisconnect(i, c)
  \/ \E p \in Processes : AddKey(p) \/ Activate(p) \/ RemoveKey(p)

Spec == Init /\ [][Next]_vars

\* A call goes on; the owner of an account asks again until it is
\* disconnected.
FairSpec ==
  /\ Spec
  /\ \A i \in Threads : WF_vars(Proceed(i))
  /\ \A c \in Accounts : SF_vars(\E i \in Threads : BeginDisconnect(i, c))

-----------------------------------------------------------------------------
(* Properties. *)

TypeOK ==
  /\ ring \in [Processes -> SUBSET Keys] /\ active \in [Processes -> Keys]
  /\ sealed \in [Accounts -> Keys \union {NoKey}]
  /\ connected \subseteq Accounts
  /\ password \in [Accounts -> {"none", "live", "revoked"}]
  /\ call \in [Threads ->
       [at : Ended \union {"put_secret", "put_connection", "drop_pending", "undo_secret",
                           "undo_password",
                           "get_secret", "resolve", "revoke", "erase_secret",
                           "erase_connection"},
        op : {"none", "link", "disconnect"}, account : Accounts \union {NoAccount},
        revoked : BOOLEAN]]
  /\ left \subseteq Accounts
  /\ faults \in 0..MaxFaults /\ restarts \in 0..MaxRestarts

\* With keys changed as docs/PRODUCTION_DEPLOYMENT.md:54-55 asks, one process
\* after the other and with calls going on, every stored secret can be read
\* by every process (persistence.py:339, 368).
ReadableEverywhere ==
  Careful => \A c \in Accounts, p \in Processes : sealed[c] # NoKey => sealed[c] \in ring[p]

\* An account that a call said is connected can be used, by all that is
\* stored of it, as long as nobody began to disconnect it (service.py:114-131).
\* One that a call said is disconnected is stored nowhere, unless a root-path
\* update that began before stores its row again (202-204).  A single
\* failure while an account is linked, be it the lost answer to a commit,
\* leaves no half of a connection behind the error: either no live password
\* and no connection with a secret, or, when only the pending flow could not
\* be deleted, all of it (128-140).
AnswersHold ==
  \A i \in Threads :
    LET c == Account(i)
        whole == c \in connected /\ sealed[c] # NoKey
    IN /\ call[i].at = "connected" /\ c \notin left => whole /\ password[c] = "live"
       /\ call[i].at = "disconnected" =>
            /\ c \notin connected /\ sealed[c] = NoKey
            /\ call[i].revoked => password[c] = "revoked"
       /\ call[i].at = "raised" /\ call[i].op = "link" /\ c \notin left /\ faults <= 1 =>
            IF password[c] = "live" THEN whole ELSE ~whole

\* Whatever failed and whichever keys were replaced on the way, an account
\* whose owner asks for it again and again is disconnected in the end
\* (service.py:180-209).
DisconnectedInTheEnd == \A c \in Accounts : c \in connected ~> c \notin connected
=============================================================================
