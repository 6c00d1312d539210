------------------------ MODULE CredentialVault_proofs ------------------------
(* Proofs about CredentialVault: typing, and that secrets stay readable     *)
(* while keys are changed as documented.                                    *)
EXTENDS CredentialVault, TLAPS

Steps == Ended \union {"put_secret", "put_connection", "drop_pending", "undo_secret",
                       "undo_password", "get_secret", "resolve", "revoke",
                       "erase_secret", "erase_connection"}

CallType == [at : Steps, op : {"none", "link", "disconnect"},
             account : Accounts \union {NoAccount}, revoked : BOOLEAN]

\* The key a process encrypts with is in every ring.
ActiveEverywhere == Careful => \A p, q \in Processes : active[p] \in ring[q]

\* A call at work has an account.
Working == \A i \in Threads : call[i].at \notin Ended => Account(i) \in Accounts

IInv == TypeOK /\ Working /\ ActiveEverywhere /\ ReadableEverywhere

-----------------------------------------------------------------------------
(* Calls                                                                   *)

LEMMA CallTyped == TypeOK => call \in [Threads -> CallType]
    BY DEF TypeOK, CallType, Steps

LEMMA GotoTyped ==
    ASSUME TypeOK, Working, NEW i \in Threads, NEW step \in Steps, Goto(i, step),
           call[i].at \notin Ended
    PROVE  call' \in [Threads -> CallType] /\ Working'
<1>1. call \in [Threads -> CallType]
    BY CallTyped
<1>2. call' \in [Threads -> CallType]
    BY <1>1 DEF Goto, CallType
<1>3. \A j \in Threads : Account(j)' = Account(j)
    BY <1>1 DEF Goto, Account, CallType
<1>4. \A j \in Threads \ {i} : call'[j] = call[j]
    BY <1>1 DEF Goto
<1>5. Working'
    BY <1>3, <1>4 DEF Working
<1>6. QED
    BY <1>2, <1>5

LEMMA TypedAgain ==
    ASSUME TypeOK, call' \in [Threads -> CallType],
           sealed' \in [Accounts -> Keys \union {NoKey}],
           connected' \subseteq Accounts,
           password' \in [Accounts -> {"none", "live", "revoked"}],
           left' \subseteq Accounts, faults' \in 0..MaxFaults,
           UNCHANGED <<ring, active, restarts>>
    PROVE  TypeOK'
    BY DEF TypeOK, CallType, Steps

(* A call that stores nothing but what the active key encrypts.            *)
LEMMA CallKeeps ==
    ASSUME IInv, call' \in [Threads -> CallType], Working',
           sealed' \in [Accounts -> Keys \union {NoKey}],
           \A c \in Accounts : \/ sealed'[c] = sealed[c] \/ sealed'[c] = NoKey
                               \/ \E p \in Processes : sealed'[c] = active[p],
           connected' \subseteq Accounts,
           password' \in [Accounts -> {"none", "live", "revoked"}],
           left' \subseteq Accounts, faults' \in 0..MaxFaults,
           UNCHANGED <<ring, active, restarts>>
    PROVE  IInv'
<1>1. TypeOK'
    BY TypedAgain DEF IInv
<1>2. ActiveEverywhere'
    BY DEF IInv, ActiveEverywhere
<1>3. ReadableEverywhere'
    BY DEF IInv, ActiveEverywhere, ReadableEverywhere
<1>4. QED
    BY <1>1, <1>2, <1>3 DEF IInv

(* One step of a call that is at work.                                     *)
LEMMA StepKeeps ==
    ASSUME IInv, NEW i \in Threads, call[i].at \notin Ended,
           \E step \in Steps : Goto(i, step),
           sealed' = sealed \/ Store(i) \/ Erase(i),
           connected' = connected \/ connected' = connected \union {Account(i)}
                                  \/ connected' = connected \ {Account(i)},
           password' = password \/ Revokes(i),
           faults' \in 0..MaxFaults,
           UNCHANGED <<ring, active, restarts, left>>
    PROVE  IInv'
<1>1. Account(i) \in Accounts /\ ProcessOf[i] \in Processes
    BY VaultAssumption DEF VaultAssumption, IInv, Working
<1>2. call' \in [Threads -> CallType] /\ Working'
    BY GotoTyped DEF IInv
<1>3. sealed \in [Accounts -> Keys \union {NoKey}] /\ active \in [Processes -> Keys]
    BY DEF IInv, TypeOK
<1>4. /\ sealed' \in [Accounts -> Keys \union {NoKey}]
      /\ \A c \in Accounts : \/ sealed'[c] = sealed[c] \/ sealed'[c] = NoKey
                             \/ \E p \in Processes : sealed'[c] = active[p]
  <2>1. CASE sealed' = sealed
      BY <1>3, <2>1
  <2>2. CASE Store(i)
      BY <1>1, <1>3, <2>2 DEF Store, EncryptionKeys
  <2>3. CASE Erase(i)
      BY <1>1, <1>3, <2>3 DEF Erase
  <2>4. QED
      BY <2>1, <2>2, <2>3
<1>5. connected' \subseteq Accounts /\ left' \subseteq Accounts
    BY <1>1 DEF IInv, TypeOK
<1>6. password' \in [Accounts -> {"none", "live", "revoked"}]
    BY <1>1 DEF IInv, TypeOK, Revokes
<1>7. QED
    BY <1>2, <1>4, <1>5, <1>6, CallKeeps

-----------------------------------------------------------------------------
(* Every step                                                              *)

LEMMA ProceedInv ==
    ASSUME IInv, NEW i \in Threads, Proceed(i)
    PROVE  IInv'
<1>1. faults \in 0..MaxFaults /\ MaxFaults \in Nat /\ TypeOK
    BY VaultAssumption DEF VaultAssumption, IInv, TypeOK
<1>2. /\ call[i].at \notin Ended
      /\ UNCHANGED <<ring, active, restarts, left>>
    BY DEF Proceed, PutSecret, PutConnection, DropPending, UndoSecret, UndoPassword,
           GetSecret, Resolve, Revoke, EraseSecret, EraseConnection, Ended
<1>3. CASE PutSecret(i)
  <2>1. /\ Store(i) \/ UNCHANGED sealed
        /\ \E step \in Steps : Goto(i, step)
        /\ faults' \in 0..MaxFaults
      BY <1>1, <1>3 DEF PutSecret, Try, Fault, Steps, Ended
  <2>2. QED
      BY <1>2, <1>3, <2>1, StepKeeps DEF PutSecret
<1>4. CASE PutConnection(i)
  <2>1. /\ connected' = connected \union {Account(i)} \/ UNCHANGED connected
        /\ \E step \in Steps : Goto(i, step)
        /\ faults' \in 0..MaxFaults
      BY <1>1, <1>4 DEF PutConnection, Try, Fault, Steps, Ended
  <2>2. QED
      BY <1>2, <1>4, <2>1, StepKeeps DEF PutConnection
<1>5. CASE DropPending(i)
  <2>1. (\E step \in Steps : Goto(i, step)) /\ faults' \in 0..MaxFaults
      BY <1>1, <1>5 DEF DropPending, Fault, Steps, Ended
  <2>2. QED
      BY <1>2, <1>5, <2>1, StepKeeps DEF DropPending
<1>6. CASE UndoSecret(i)
  <2>1. /\ Erase(i) \/ UNCHANGED sealed
        /\ \E step \in Steps : Goto(i, step)
        /\ faults' \in 0..MaxFaults
      BY <1>1, <1>6 DEF UndoSecret, Try, Fault, Steps, Ended
  <2>2. QED
      BY <1>2, <1>6, <2>1, StepKeeps DEF UndoSecret
<1>7. CASE UndoPassword(i)
  <2>1. CASE Try(Revokes(i), UNCHANGED password, i, "raised", "raised")
    <3>1. /\ Revokes(i) \/ UNCHANGED password
          /\ \E step \in Steps : Goto(i, step)
          /\ faults' \in 0..MaxFaults
        BY <1>1, <2>1 DEF Try, Fault, Steps, Ended
    <3>2. QED
        BY <1>2, <1>7, <3>1, StepKeeps DEF UndoPassword
  <2>2. CASE Goto(i, "raised") /\ UNCHANGED <<password, faults>>
    <3>1. \E step \in Steps : Goto(i, step)
        BY <2>2 DEF Steps, Ended
    <3>2. QED
        BY <1>1, <1>2, <1>7, <2>2, <3>1, StepKeeps DEF UndoPassword
  <2>3. QED
      BY <1>7, <2>1, <2>2 DEF UndoPassword
<1>8. CASE GetSecret(i)
  <2>1. (\E step \in Steps : Goto(i, step)) /\ faults' \in 0..MaxFaults
      BY <1>1, <1>8 DEF GetSecret, Fault, Steps, Ended
  <2>2. QED
      BY <1>2, <1>8, <2>1, StepKeeps DEF GetSecret
<1>9. CASE Resolve(i)
  <2>1. (\E step \in Steps : Goto(i, step)) /\ faults' \in 0..MaxFaults
      BY <1>1, <1>9 DEF Resolve, Fault, Steps, Ended
  <2>2. QED
      BY <1>2, <1>9, <2>1, StepKeeps DEF Resolve
<1>10. CASE Revoke(i)
  <2>1. Account(i) \in Accounts
      BY <1>2 DEF IInv, Working
  <2>2. call \in [Threads -> CallType]
      BY <1>1, CallTyped
  <2>3. call' \in [Threads -> CallType] /\ Working'
    <3>1. CASE call' = [call EXCEPT ![i].at = "erase_secret", ![i].revoked = TRUE]
      <4>1. call' \in [Threads -> CallType]
        <5>1. \A j \in Threads : j # i => call'[j] = call[j]
            BY <2>2, <3>1
        <5>2. call[i] \in CallType
            BY <1>1, <2>2
        <5>3. call'[i] = [call[i] EXCEPT !.at = "erase_secret", !.revoked = TRUE]
            BY <1>1, <2>2, <3>1
        <5>4. [call[i] EXCEPT !.at = "erase_secret", !.revoked = TRUE] \in CallType
            BY <5>2 DEF CallType, Steps
        <5>5. call' = [j \in Threads |-> call'[j]]
            BY <2>2, <3>1
        <5>6. QED
            BY <2>2, <5>1, <5>3, <5>4, <5>5
      <4>2. \A j \in Threads : Account(j)' = Account(j)
        <5>1. \A j \in Threads : call'[j].account = call[j].account
            BY <2>2, <3>1 DEF CallType
        <5>2. QED
            BY <5>1 DEF Account
      <4>3. \A j \in Threads \ {i} : call'[j] = call[j]
          BY <2>2, <3>1
      <4>4. Working'
          BY <2>1, <4>2, <4>3 DEF IInv, Working
      <4>5. QED
          BY <4>1, <4>4
    <3>2. CASE Goto(i, "erase_secret")
        BY <1>1, <1>2, <3>2, GotoTyped DEF IInv, Steps
    <3>3. QED
        BY <1>10, <3>1, <3>2 DEF Revoke
  <2>4. password' \in [Accounts -> {"none", "live", "revoked"}]
      BY <1>1, <1>10, <2>1 DEF Revoke, Revokes, TypeOK
  <2>5. faults' \in 0..MaxFaults
      BY <1>1, <1>10 DEF Revoke, Fault
  <2>6. UNCHANGED <<sealed, connected>>
      BY <1>10 DEF Revoke
  <2>7. QED
      BY <1>1, <1>2, <2>3, <2>4, <2>5, <2>6, CallKeeps DEF TypeOK
<1>11. CASE EraseSecret(i)
  <2>1. /\ Erase(i) \/ UNCHANGED sealed
        /\ \E step \in Steps : Goto(i, step)
        /\ faults' \in 0..MaxFaults
      BY <1>1, <1>11 DEF EraseSecret, Try, Fault, Steps, Ended
  <2>2. QED
      BY <1>2, <1>11, <2>1, StepKeeps DEF EraseSecret
<1>12. CASE EraseConnection(i)
  <2>1. /\ connected' = connected \ {Account(i)} \/ UNCHANGED connected
        /\ \E step \in Steps : Goto(i, step)
        /\ faults' \in 0..MaxFaults
      BY <1>1, <1>12 DEF EraseConnection, Try, Fault, Steps, Ended
  <2>2. QED
      BY <1>2, <1>12, <2>1, StepKeeps DEF EraseConnection
<1>13. QED
    BY <1>3, <1>4, <1>5, <1>6, <1>7, <1>8, <1>9, <1>10, <1>11, <1>12 DEF Proceed

LEMMA BeginInv ==
    ASSUME IInv, NEW i \in Threads, NEW c \in Accounts, BeginLink(i) \/ BeginDisconnect(i, c)
    PROVE  IInv'
<1>1. call \in [Threads -> CallType] /\ TypeOK /\ Working
    BY CallTyped DEF IInv
<1>2. /\ call' \in [Threads -> CallType]
      /\ Working'
  <2>1. PICK a \in Accounts, step \in Steps, op \in {"link", "disconnect"} :
          call' = [call EXCEPT ![i] = [at |-> step, op |-> op, account |-> a,
                                       revoked |-> FALSE]]
      BY DEF BeginLink, BeginDisconnect, Steps
  <2>2. call' \in [Threads -> CallType]
      BY <1>1, <2>1 DEF CallType
  <2>3. \A j \in Threads : call'[j] = IF j = i THEN [at |-> step, op |-> op,
                                                    account |-> a, revoked |-> FALSE]
                                     ELSE call[j]
      BY <1>1, <2>1
  <2>4. Working'
      BY <1>1, <2>3 DEF Working, Account
  <2>5. QED
      BY <2>2, <2>4
<1>3. password' \in [Accounts -> {"none", "live", "revoked"}]
    BY <1>1 DEF TypeOK, BeginLink, BeginDisconnect
<1>4. left' \subseteq Accounts
    BY <1>1 DEF TypeOK, BeginLink, BeginDisconnect
<1>5. UNCHANGED <<ring, active, sealed, connected, faults, restarts>>
    BY DEF BeginLink, BeginDisconnect
<1>6. QED
    BY <1>1, <1>2, <1>3, <1>4, <1>5, CallKeeps DEF TypeOK

LEMMA RestartTyped ==
    ASSUME IInv, NEW p \in Processes, NEW keys \in SUBSET Keys, NEW key \in Keys,
           RestartWith(p, keys, key)
    PROVE  TypeOK' /\ Working'
<1>1. call \in [Threads -> CallType] /\ TypeOK /\ Working
    BY CallTyped DEF IInv
<1>2. \A i \in Threads : /\ call'[i] \in CallType
                         /\ call'[i].account = call[i].account
                         /\ call'[i].at \notin Ended => call[i].at \notin Ended
  <2> SUFFICES ASSUME NEW i \in Threads
               PROVE  /\ call'[i] \in CallType
                      /\ call'[i].account = call[i].account
                      /\ call'[i].at \notin Ended => call[i].at \notin Ended
      OBVIOUS
  <2>1. call[i] \in CallType
      BY <1>1
  <2>2. call'[i] = [call[i] EXCEPT !.at = "killed"] \/ call'[i] = call[i]
      BY DEF RestartWith
  <2>3. QED
      BY <2>1, <2>2 DEF CallType, Steps, Ended
<1>3. call' \in [Threads -> CallType]
    BY <1>2 DEF RestartWith
<1>4. Working'
    BY <1>1, <1>2 DEF Working, Account
<1>5. restarts' \in 0..MaxRestarts
    BY <1>1, VaultAssumption DEF VaultAssumption, RestartWith, TypeOK
<1>6. TypeOK'
    BY <1>1, <1>3, <1>5 DEF RestartWith, TypeOK, CallType, Steps
<1>7. QED
    BY <1>4, <1>6

LEMMA KeysInv ==
    ASSUME IInv, NEW p \in Processes, AddKey(p) \/ Activate(p) \/ RemoveKey(p)
    PROVE  IInv'
<1>1. ring \in [Processes -> SUBSET Keys] /\ active \in [Processes -> Keys]
    BY DEF IInv, TypeOK
<1>2. CASE AddKey(p)
  <2>1. PICK k \in Keys : RestartWith(p, ring[p] \union {k}, active[p])
      BY <1>2 DEF AddKey
  <2>2. TypeOK' /\ Working'
      BY <1>1, <2>1, RestartTyped
  <2>3. /\ active' = active /\ sealed' = sealed
        /\ \A q \in Processes : ring[q] \subseteq ring'[q]
      BY <1>1, <2>1 DEF RestartWith
  <2>4. ActiveEverywhere' /\ ReadableEverywhere'
      BY <2>3 DEF IInv, ActiveEverywhere, ReadableEverywhere
  <2>5. QED
      BY <2>2, <2>4 DEF IInv
<1>3. CASE Activate(p)
  <2>1. PICK k \in ring[p] : /\ Careful => \A q \in Processes : k \in ring[q]
                             /\ RestartWith(p, ring[p], k)
      BY <1>3 DEF Activate
  <2>2. TypeOK' /\ Working'
      BY <1>1, <2>1, RestartTyped
  <2>3. /\ ring' = ring /\ sealed' = sealed
        /\ active' = [active EXCEPT ![p] = k]
      BY <1>1, <2>1 DEF RestartWith
  <2>4. ActiveEverywhere' /\ ReadableEverywhere'
      BY <1>1, <2>1, <2>3 DEF IInv, ActiveEverywhere, ReadableEverywhere
  <2>5. QED
      BY <2>2, <2>4 DEF IInv
<1>4. CASE RemoveKey(p)
  <2>1. PICK k \in ring[p], key \in ring[p] :
          /\ Careful => /\ \A q \in Processes : active[q] # k
                        /\ \A c \in Accounts : sealed[c] # k
          /\ key # k
          /\ Careful => key = active[p]
          /\ RestartWith(p, ring[p] \ {k}, key)
      BY <1>4 DEF RemoveKey
  <2>2. ring[p] \ {k} \in SUBSET Keys /\ key \in Keys
      BY <1>1
  <2>3. TypeOK' /\ Working'
      BY <2>1, <2>2, RestartTyped
  <2>4. /\ sealed' = sealed
        /\ Careful => active' = active
        /\ \A q \in Processes : ring[q] \ {k} \subseteq ring'[q]
      BY <1>1, <2>1 DEF RestartWith
  <2>5. ActiveEverywhere' /\ ReadableEverywhere'
      BY <2>1, <2>4 DEF IInv, ActiveEverywhere, ReadableEverywhere
  <2>6. QED
      BY <2>3, <2>5 DEF IInv
<1>5. QED
    BY <1>2, <1>3, <1>4

LEMMA InitInv == Init => IInv
<1> SUFFICES ASSUME Init PROVE IInv
    OBVIOUS
<1>1. call \in [Threads -> CallType]
    BY DEF Init, CallType, Steps, Ended
<1>2. /\ ring \in [Processes -> SUBSET Keys] /\ active \in [Processes -> Keys]
      /\ sealed \in [Accounts -> Keys \union {NoKey}]
      /\ password \in [Accounts -> {"none", "live", "revoked"}]
    BY VaultAssumption DEF VaultAssumption, Init
<1>3. connected \subseteq Accounts /\ left \subseteq Accounts
    BY DEF Init
<1>4. faults \in 0..MaxFaults /\ restarts \in 0..MaxRestarts
    BY VaultAssumption DEF VaultAssumption, Init
<1>5. TypeOK
    BY <1>1, <1>2, <1>3, <1>4 DEF TypeOK, CallType, Steps
<1>6. Working
    BY DEF Init, Working, Ended
<1>7. ActiveEverywhere /\ ReadableEverywhere
    BY DEF Init, ActiveEverywhere, ReadableEverywhere
<1>8. QED
    BY <1>5, <1>6, <1>7 DEF IInv

LEMMA StepInv == IInv /\ [Next]_vars => IInv'
<1> SUFFICES ASSUME IInv, [Next]_vars PROVE IInv'
    OBVIOUS
<1>1. CASE UNCHANGED vars
    BY <1>1 DEF vars, IInv, TypeOK, Working, ActiveEverywhere, ReadableEverywhere, Account
<1>2. CASE \E i \in Threads : BeginLink(i)
  <2>1. PICK i \in Threads : BeginLink(i)
      BY <1>2
  <2>2. PICK c \in Accounts : TRUE
      BY <2>1 DEF BeginLink
  <2>3. QED
      BY <2>1, <2>2, BeginInv
<1>3. CASE \E i \in Threads, c \in Accounts : BeginDisconnect(i, c)
    BY <1>3, BeginInv
<1>4. CASE \E i \in Threads : Proceed(i)
    BY <1>4, ProceedInv
<1>5. CASE \E p \in Processes : AddKey(p) \/ Activate(p) \/ RemoveKey(p)
    BY <1>5, KeysInv
<1>6. QED
    BY <1>1, <1>2, <1>3, <1>4, <1>5 DEF Next

LEMMA InvariantHolds == Spec => []IInv
    BY InitInv, StepInv, PTL DEF Spec

(***************************************************************************)
(* What the calls say.                                                     *)
(***************************************************************************)

Whole(c) == c \in connected /\ sealed[c] # NoKey

\* The steps that only one of the two operations takes.
LinkSteps == {"put_secret", "put_connection", "drop_pending", "undo_secret",
              "undo_password", "connected"}
DisconnectSteps == {"get_secret", "resolve", "revoke", "erase_secret",
                    "erase_connection", "disconnected"}

\* What is stored of an account, by the step of the call that links it.
Linking(at, c) ==
  /\ at = "put_secret" => c \notin connected \union left /\ sealed[c] = NoKey
                          /\ password[c] = "live"
  /\ at = "put_connection" => c \notin connected \union left /\ sealed[c] # NoKey
                              /\ password[c] = "live"
  /\ at \in {"drop_pending", "connected"} /\ c \notin left =>
        Whole(c) /\ password[c] = "live"
  /\ at \in {"undo_secret", "undo_password"} => faults >= 1
  /\ at = "undo_password" => ~Whole(c)
  /\ at = "raised" /\ c \notin left /\ faults <= 1 => (password[c] = "live" <=> Whole(c))

\* And by the step of a call that disconnects it.
Disconnecting(at, c) ==
  /\ c \in left
  /\ at \in {"erase_connection", "disconnected"} => sealed[c] = NoKey
  /\ at = "disconnected" => c \notin connected

CallInv(i) ==
  LET c == Account(i)
  IN /\ call[i].at \in LinkSteps => call[i].op = "link"
     /\ call[i].at \in DisconnectSteps => call[i].op = "disconnect"
     /\ call[i].op # "none" => /\ c \in Accounts /\ password[c] # "none"
                               /\ call[i].revoked => password[c] = "revoked"
     /\ call[i].op = "link" => Linking(call[i].at, c)
     /\ call[i].op = "disconnect" => Disconnecting(call[i].at, c)

\* One app password is linked by one call.
OneLink ==
  \A i, j \in Threads :
    call[i].op = "link" /\ call[j].op = "link" /\ Account(i) = Account(j) => i = j

\* Nothing is stored, and nothing has been disconnected, before Nextcloud
\* issued a password.
NothingBefore ==
  \A c \in Accounts :
    password[c] = "none" => c \notin connected \union left /\ sealed[c] = NoKey

CallsInv == (\A i \in Threads : CallInv(i)) /\ OneLink /\ NothingBefore

-----------------------------------------------------------------------------

\* What a step leaves alone of an account.
Same(c) == /\ password'[c] = password[c] /\ sealed'[c] = sealed[c]
           /\ c \in connected' <=> c \in connected

\* A step takes away what is stored of an account.
Lessens(c) == /\ password'[c] = password[c] \/ password'[c] = "revoked"
              /\ sealed'[c] = sealed[c] \/ sealed'[c] = NoKey
              /\ c \in connected' => c \in connected

LEMMA SameKeeps ==
    ASSUME NEW j \in Threads, CallInv(j), call'[j] = call[j], call[j].op # "none",
           Same(Account(j)), left' = left, faults \in Nat, faults' \in Nat, faults' >= faults
    PROVE  CallInv(j)'
<1> DEFINE c == Account(j)
<1>1. /\ Account(j)' = c
      /\ Whole(c)' <=> Whole(c)
    BY DEF Account, Same, Whole
<1>2. Linking(call[j].at, c) => Linking(call[j].at, c)'
    BY <1>1 DEF Linking, Same
<1>3. Disconnecting(call[j].at, c) => Disconnecting(call[j].at, c)'
    BY <1>1 DEF Disconnecting, Same
<1>4. QED
    BY <1>1, <1>2, <1>3 DEF CallInv, Same

LEMMA LessKeeps ==
    ASSUME NEW j \in Threads, CallInv(j), call'[j] = call[j], call[j].op # "none",
           Lessens(Account(j)), Account(j) \in left, left' = left,
           faults \in Nat, faults' \in Nat, faults' >= faults
    PROVE  CallInv(j)'
<1> DEFINE c == Account(j)
<1>1. /\ Account(j)' = c
      /\ Whole(c)' => Whole(c)
    BY DEF Account, Lessens, Whole
<1>2. Linking(call[j].at, c) => Linking(call[j].at, c)'
    BY <1>1 DEF Linking, Lessens
<1>3. Disconnecting(call[j].at, c) => Disconnecting(call[j].at, c)'
    BY <1>1 DEF Disconnecting, Lessens
<1>4. QED
    BY <1>1, <1>2, <1>3 DEF CallInv, Lessens

(* A step of a call disturbs no other call.                                *)
LEMMA OthersKeep ==
    ASSUME TypeOK, CallsInv, NEW i \in Threads, call[i].op # "none",
           NEW j \in Threads, j # i, call'[j] = call[j],
           \A c \in Accounts \ {Account(i)} : Same(c),
           Lessens(Account(i)) \/ call[i].at \in {"put_secret", "put_connection"},
           left' = left, faults \in Nat, faults' \in Nat, faults' >= faults
    PROVE  CallInv(j)'
<1>1. CallInv(i) /\ CallInv(j)
    BY DEF CallsInv
<1>2. CASE call[j].op = "none"
    BY <1>1, <1>2 DEF CallInv
<1>3. CASE call[j].op # "none" /\ Account(j) # Account(i)
  <2>1. Same(Account(j))
      BY <1>1, <1>3 DEF CallInv
  <2>2. QED
      BY <1>1, <1>3, <2>1, SameKeeps
<1>4. CASE call[j].op # "none" /\ Account(j) = Account(i)
  <2>1. call[i].op \in {"link", "disconnect"} /\ call[j].op \in {"link", "disconnect"}
      BY <1>4, CallTyped DEF CallType
  <2>2. call[i].op = "disconnect" \/ call[j].op = "disconnect"
      BY <1>4, <2>1 DEF CallsInv, OneLink
  <2>3. Account(i) \in left
      BY <1>1, <1>4, <2>2 DEF CallInv, Disconnecting
  <2>4. call[i].at \notin {"put_secret", "put_connection"}
      BY <1>1, <2>3 DEF CallInv, Linking, LinkSteps
  <2>5. QED
      BY <1>1, <1>4, <2>3, <2>4, LessKeeps
<1>5. QED
    BY <1>2, <1>3, <1>4

LEMMA WorkKeeps ==
    ASSUME TypeOK, CallsInv, NEW i \in Threads, call[i].op # "none",
           \A j \in Threads \ {i} : call'[j] = call[j],
           call'[i].op = call[i].op, call'[i].account = call[i].account,
           \A c \in Accounts \ {Account(i)} : Same(c),
           Lessens(Account(i)) \/ call[i].at \in {"put_secret", "put_connection"},
           password'[Account(i)] # "none",
           left' = left, faults \in Nat, faults' \in Nat, faults' >= faults,
           CallInv(i)'
    PROVE  CallsInv'
<1>1. \A j \in Threads : CallInv(j)'
    BY OthersKeep
<1>2. \A j \in Threads : call'[j].op = call[j].op /\ Account(j)' = Account(j)
    BY DEF Account
<1>3. OneLink'
    BY <1>2 DEF CallsInv, OneLink
<1>4. NothingBefore'
    BY DEF CallsInv, NothingBefore, Same
<1>5. QED
    BY <1>1, <1>3, <1>4 DEF CallsInv

LEMMA GotoFacts ==
    ASSUME TypeOK, NEW i \in Threads, NEW step \in Steps, Goto(i, step)
    PROVE  /\ call'[i].at = step /\ call'[i].op = call[i].op
           /\ call'[i].account = call[i].account /\ call'[i].revoked = call[i].revoked
           /\ \A j \in Threads \ {i} : call'[j] = call[j]
    BY CallTyped DEF Goto, CallType

(* The next step of a call that links, with what it says of the account.   *)
LEMMA LinkGoesOn ==
    ASSUME IInv, CallsInv, NEW i \in Threads, call[i].op = "link",
           NEW step \in Steps \ DisconnectSteps, Goto(i, step),
           NEW c \in Accounts, c = Account(i), \A d \in Accounts \ {c} : Same(d),
           Lessens(c) \/ call[i].at \in {"put_secret", "put_connection"},
           password'[c] \in {password[c], "revoked"},
           left' = left, faults \in Nat, faults' \in Nat, faults' >= faults,
           Linking(step, c)'
    PROVE  CallsInv'
<1>1. /\ call'[i].at = step /\ call'[i].op = call[i].op
      /\ call'[i].account = call[i].account /\ call'[i].revoked = call[i].revoked
      /\ \A j \in Threads \ {i} : call'[j] = call[j]
    BY GotoFacts DEF IInv
<1>2. password[c] # "none" /\ (call[i].revoked => password[c] = "revoked")
    BY DEF CallsInv, CallInv
<1>3. password'[c] # "none"
    BY <1>2
<1>4. Account(i)' = c
    BY <1>1 DEF Account
<1>5. CallInv(i)'
    BY <1>1, <1>2, <1>3, <1>4 DEF CallInv
<1>6. QED
    BY <1>1, <1>3, <1>5, WorkKeeps DEF IInv

(* And of one that disconnects.                                            *)
LEMMA DisconnectGoesOn ==
    ASSUME IInv, CallsInv, NEW i \in Threads, call[i].op = "disconnect",
           NEW step \in Steps \ LinkSteps, call'[i].at = step,
           call'[i].op = call[i].op, call'[i].account = call[i].account,
           \A j \in Threads \ {i} : call'[j] = call[j],
           NEW c \in Accounts, c = Account(i), \A d \in Accounts \ {c} : Same(d),
           Lessens(c), call'[i].revoked => call[i].revoked \/ password'[c] = "revoked",
           left' = left, faults \in Nat, faults' \in Nat, faults' >= faults,
           Disconnecting(step, c)'
    PROVE  CallsInv'
<1>1. password[c] # "none" /\ (call[i].revoked => password[c] = "revoked")
    BY DEF CallsInv, CallInv
<1>2. password'[c] # "none" /\ (call'[i].revoked => password'[c] = "revoked")
    BY <1>1 DEF Lessens
<1>3. Account(i)' = c
    BY DEF Account
<1>4. CallInv(i)'
    BY <1>2, <1>3 DEF CallInv
<1>5. QED
    BY <1>2, <1>4, WorkKeeps DEF IInv

LEMMA FaultsGrow ==
    ASSUME IInv, Fault \/ UNCHANGED faults
    PROVE  /\ faults \in Nat /\ faults' \in Nat /\ faults' >= faults
           /\ Fault => faults' >= 1 /\ faults' = faults + 1
    BY VaultAssumption DEF VaultAssumption, IInv, TypeOK, Fault

LEMMA AtLinkStep ==
    ASSUME IInv, CallsInv, NEW i \in Threads, call[i].at \in LinkSteps
    PROVE  /\ call[i].op = "link" /\ Linking(call[i].at, Account(i))
           /\ Account(i) \in Accounts /\ password[Account(i)] # "none"
    BY DEF CallsInv, CallInv

LEMMA PutSecretSays ==
    ASSUME IInv, CallsInv, NEW i \in Threads, PutSecret(i)
    PROVE  CallsInv'
<1> SUFFICES ASSUME NEW c, c = Account(i) PROVE CallsInv'
    OBVIOUS
<1>1. /\ call[i].op = "link" /\ Linking("put_secret", c) /\ c \in Accounts
      /\ password[c] # "none" /\ call[i].at = "put_secret"
    BY AtLinkStep DEF PutSecret, LinkSteps
<1>2. c \notin connected \union left /\ sealed[c] = NoKey /\ password[c] = "live"
    BY <1>1 DEF Linking
<1>3. UNCHANGED <<connected, password, left>>
    BY DEF PutSecret
<1>4. /\ faults \in Nat /\ faults' \in Nat /\ faults' >= faults
      /\ Fault => faults' >= 1
    BY FaultsGrow DEF PutSecret, Try
<1>5. Store(i) => \E k \in Keys : sealed' = [sealed EXCEPT ![c] = k]
    BY VaultAssumption DEF VaultAssumption, Store, EncryptionKeys, IInv, TypeOK
<1>6. sealed \in [Accounts -> Keys \union {NoKey}]
    BY DEF IInv, TypeOK
<1>7. Store(i) \/ UNCHANGED sealed
    BY DEF PutSecret, Try
<1>8. \A d \in Accounts \ {c} : Same(d)
    BY <1>3, <1>5, <1>6, <1>7 DEF Same
<1>9. CASE Store(i) /\ Goto(i, "put_connection")
  <2>1. sealed'[c] # NoKey
      BY <1>1, <1>5, <1>6, <1>9, VaultAssumption DEF VaultAssumption
  <2>2. Linking("put_connection", c)'
      BY <1>2, <1>3, <2>1 DEF Linking
  <2>3. QED
      BY <1>1, <1>3, <1>4, <1>8, <1>9, <2>2, LinkGoesOn DEF Steps, DisconnectSteps
<1>10. CASE Goto(i, "undo_password") /\ Fault
  <2>1. Linking("undo_password", c)'
      BY <1>2, <1>3, <1>4, <1>10 DEF Linking, Whole
  <2>2. QED
      BY <1>1, <1>3, <1>4, <1>8, <1>10, <2>1, LinkGoesOn DEF Steps, DisconnectSteps
<1>11. QED
    BY <1>9, <1>10 DEF PutSecret, Try

LEMMA PutConnectionSays ==
    ASSUME IInv, CallsInv, NEW i \in Threads, PutConnection(i)
    PROVE  CallsInv'
<1> SUFFICES ASSUME NEW c, c = Account(i) PROVE CallsInv'
    OBVIOUS
<1>1. /\ call[i].op = "link" /\ Linking("put_connection", c) /\ c \in Accounts
      /\ call[i].at = "put_connection"
    BY AtLinkStep DEF PutConnection, LinkSteps
<1>2. c \notin connected \union left /\ sealed[c] # NoKey /\ password[c] = "live"
    BY <1>1 DEF Linking
<1>3. UNCHANGED <<sealed, password, left>>
    BY DEF PutConnection
<1>4. /\ faults \in Nat /\ faults' \in Nat /\ faults' >= faults
      /\ Fault => faults' >= 1
    BY FaultsGrow DEF PutConnection, Try
<1>5. \A d \in Accounts \ {c} : Same(d)
    BY <1>3 DEF PutConnection, Try, Same
<1>6. CASE connected' = connected \union {c} /\ Goto(i, "drop_pending")
  <2>1. Linking("drop_pending", c)'
      BY <1>2, <1>3, <1>6 DEF Linking, Whole
  <2>2. QED
      BY <1>1, <1>3, <1>4, <1>5, <1>6, <2>1, LinkGoesOn DEF Steps, DisconnectSteps
<1>7. CASE Goto(i, "undo_secret") /\ Fault
  <2>1. Linking("undo_secret", c)'
      BY <1>4, <1>7 DEF Linking
  <2>2. QED
      BY <1>1, <1>3, <1>4, <1>5, <1>7, <2>1, LinkGoesOn DEF Steps, DisconnectSteps
<1>8. QED
    BY <1>6, <1>7 DEF PutConnection, Try

LEMMA DropPendingSays ==
    ASSUME IInv, CallsInv, NEW i \in Threads, DropPending(i)
    PROVE  CallsInv'
<1> SUFFICES ASSUME NEW c, c = Account(i) PROVE CallsInv'
    OBVIOUS
<1>1. /\ call[i].op = "link" /\ Linking("drop_pending", c) /\ c \in Accounts
    BY AtLinkStep DEF DropPending, LinkSteps
<1>2. UNCHANGED <<sealed, password, left, connected>>
    BY DEF DropPending
<1>3. /\ faults \in Nat /\ faults' \in Nat /\ faults' >= faults
    BY FaultsGrow DEF DropPending
<1>4. (\A d \in Accounts \ {c} : Same(d)) /\ Lessens(c)
    BY <1>2 DEF Same, Lessens
<1>5. c \notin left' => Whole(c)' /\ password'[c] = "live"
    BY <1>1, <1>2 DEF Linking, Whole
<1>6. Linking("connected", c)' /\ Linking("raised", c)'
    BY <1>5 DEF Linking
<1>7. CASE Goto(i, "connected")
    BY <1>1, <1>2, <1>3, <1>4, <1>6, <1>7, LinkGoesOn DEF Steps, DisconnectSteps, Ended
<1>8. CASE Goto(i, "raised")
    BY <1>1, <1>2, <1>3, <1>4, <1>6, <1>8, LinkGoesOn DEF Steps, DisconnectSteps, Ended
<1>9. QED
    BY <1>7, <1>8 DEF DropPending

LEMMA UndoSecretSays ==
    ASSUME IInv, CallsInv, NEW i \in Threads, UndoSecret(i)
    PROVE  CallsInv'
<1> SUFFICES ASSUME NEW c, c = Account(i) PROVE CallsInv'
    OBVIOUS
<1>1. /\ call[i].op = "link" /\ Linking("undo_secret", c) /\ c \in Accounts
    BY AtLinkStep DEF UndoSecret, LinkSteps
<1>2. faults >= 1
    BY <1>1 DEF Linking
<1>3. UNCHANGED <<connected, password, left>>
    BY DEF UndoSecret
<1>4. /\ faults \in Nat /\ faults' \in Nat /\ faults' >= faults
      /\ Fault => faults' = faults + 1
    BY FaultsGrow DEF UndoSecret, Try
<1>5. (\A d \in Accounts \ {c} : Same(d)) /\ Lessens(c)
  <2>1. sealed \in [Accounts -> Keys \union {NoKey}]
      BY DEF IInv, TypeOK
  <2>2. Erase(i) \/ UNCHANGED sealed
      BY DEF UndoSecret, Try
  <2>3. QED
      BY <1>1, <1>3, <2>1, <2>2 DEF Erase, Same, Lessens
<1>6. CASE Erase(i) /\ Goto(i, "undo_password")
  <2>1. sealed'[c] = NoKey
      BY <1>1, <1>6 DEF Erase, IInv, TypeOK
  <2>2. Linking("undo_password", c)'
      BY <1>2, <1>4, <2>1 DEF Linking, Whole
  <2>3. QED
      BY <1>1, <1>3, <1>4, <1>5, <1>6, <2>2, LinkGoesOn DEF Steps, DisconnectSteps
<1>7. CASE Goto(i, "raised") /\ Fault
  <2>1. Linking("raised", c)'
      BY <1>2, <1>4, <1>7 DEF Linking
  <2>2. QED
      BY <1>1, <1>3, <1>4, <1>5, <1>7, <2>1, LinkGoesOn DEF Steps, DisconnectSteps, Ended
<1>8. QED
    BY <1>6, <1>7 DEF UndoSecret, Try

LEMMA UndoPasswordSays ==
    ASSUME IInv, CallsInv, NEW i \in Threads, UndoPassword(i)
    PROVE  CallsInv'
<1> SUFFICES ASSUME NEW c, c = Account(i) PROVE CallsInv'
    OBVIOUS
<1>1. /\ call[i].op = "link" /\ Linking("undo_password", c) /\ c \in Accounts
      /\ password[c] # "none"
    BY AtLinkStep DEF UndoPassword, LinkSteps
<1>2. faults >= 1 /\ ~Whole(c)
    BY <1>1 DEF Linking
<1>3. UNCHANGED <<connected, sealed, left>> /\ Goto(i, "raised")
    BY DEF UndoPassword, Try
<1>4. /\ faults \in Nat /\ faults' \in Nat /\ faults' >= faults
      /\ Fault => faults' = faults + 1
    BY FaultsGrow DEF UndoPassword, Try
<1>5. (\A d \in Accounts \ {c} : Same(d)) /\ Lessens(c)
      /\ password'[c] \in {password[c], "revoked"}
  <2>1. password \in [Accounts -> {"none", "live", "revoked"}]
      BY DEF IInv, TypeOK
  <2>2. Revokes(i) \/ UNCHANGED password
      BY DEF UndoPassword, Try
  <2>3. QED
      BY <1>1, <1>3, <2>1, <2>2 DEF Revokes, Same, Lessens
<1>6. faults' >= 2 \/ password'[c] # "live"
  <2>1. password \in [Accounts -> {"none", "live", "revoked"}]
      BY DEF IInv, TypeOK
  <2>2. Revokes(i) => password'[c] # "live"
      BY <1>1, <2>1 DEF Revokes
  <2>3. Fault => faults' >= 2
      BY <1>2, <1>4
  <2>4. QED
      BY <2>2, <2>3 DEF UndoPassword, Try
<1>7. ~Whole(c)'
    BY <1>2, <1>3 DEF Whole
<1>8. Linking("raised", c)'
    BY <1>4, <1>6, <1>7 DEF Linking
<1>9. QED
    BY <1>1, <1>3, <1>4, <1>5, <1>8, LinkGoesOn DEF Steps, DisconnectSteps, Ended

LEMMA AtDisconnectStep ==
    ASSUME IInv, CallsInv, NEW i \in Threads, call[i].at \in DisconnectSteps
    PROVE  /\ call[i].op = "disconnect" /\ Disconnecting(call[i].at, Account(i))
           /\ Account(i) \in Accounts /\ password[Account(i)] # "none"
    BY DEF CallsInv, CallInv

(* The steps of disconnect that change one row, or none.                   *)
LEMMA RowStepSays ==
    ASSUME IInv, CallsInv, NEW i \in Threads, NEW step \in Steps \ LinkSteps, Goto(i, step),
           call[i].at \in DisconnectSteps, UNCHANGED left, Fault \/ UNCHANGED faults,
           UNCHANGED <<sealed, password>> \/ (Erase(i) /\ UNCHANGED <<connected, password>>)
             \/ (Revokes(i) /\ UNCHANGED <<connected, sealed>>),
           connected' \in {connected, connected \ {Account(i)}},
           step = "erase_connection" =>
             sealed[Account(i)] = NoKey \/ Erase(i),
           step = "disconnected" => /\ sealed[Account(i)] = NoKey /\ UNCHANGED sealed
                                    /\ connected' = connected \ {Account(i)}
    PROVE  CallsInv'
<1> SUFFICES ASSUME NEW c, c = Account(i) PROVE CallsInv'
    OBVIOUS
<1>1. /\ call[i].op = "disconnect" /\ c \in left /\ c \in Accounts
    BY AtDisconnectStep DEF Disconnecting
<1>2. /\ faults \in Nat /\ faults' \in Nat /\ faults' >= faults
    BY FaultsGrow
<1>3. /\ sealed \in [Accounts -> Keys \union {NoKey}]
      /\ password \in [Accounts -> {"none", "live", "revoked"}]
    BY DEF IInv, TypeOK
<1>4. (\A d \in Accounts \ {c} : Same(d)) /\ Lessens(c)
    BY <1>1, <1>3 DEF Erase, Revokes, Same, Lessens
<1>5. Erase(i) => sealed'[c] = NoKey
    BY <1>1, <1>3 DEF Erase
<1>6. step = "erase_connection" => sealed'[c] = NoKey
    BY <1>4, <1>5 DEF Lessens
<1>7. Disconnecting(step, c)'
    BY <1>1, <1>6 DEF Disconnecting
<1>8. /\ call'[i].at = step /\ call'[i].op = call[i].op
      /\ call'[i].account = call[i].account /\ call'[i].revoked = call[i].revoked
      /\ \A j \in Threads \ {i} : call'[j] = call[j]
    BY GotoFacts DEF IInv
<1>9. QED
    BY <1>1, <1>2, <1>4, <1>7, <1>8, DisconnectGoesOn

LEMMA GetSecretSays ==
    ASSUME IInv, CallsInv, NEW i \in Threads, GetSecret(i)
    PROVE  CallsInv'
<1>1. PICK step \in {"erase_secret", "resolve", "raised"} : Goto(i, step)
    BY DEF GetSecret
<1>2. UNCHANGED <<sealed, connected, password, left>> /\ (Fault \/ UNCHANGED faults)
      /\ call[i].at \in DisconnectSteps
    BY DEF GetSecret, DisconnectSteps
<1>3. QED
    BY <1>1, <1>2, RowStepSays DEF Steps, LinkSteps, Ended

LEMMA ResolveSays ==
    ASSUME IInv, CallsInv, NEW i \in Threads, Resolve(i)
    PROVE  CallsInv'
<1>1. PICK step \in {"revoke", "erase_secret"} : Goto(i, step)
    BY DEF Resolve
<1>2. UNCHANGED <<sealed, connected, password, left>> /\ (Fault \/ UNCHANGED faults)
      /\ call[i].at \in DisconnectSteps
    BY DEF Resolve, DisconnectSteps
<1>3. QED
    BY <1>1, <1>2, RowStepSays DEF Steps, LinkSteps, Ended

LEMMA RevokeSays ==
    ASSUME IInv, CallsInv, NEW i \in Threads, Revoke(i)
    PROVE  CallsInv'
<1> SUFFICES ASSUME NEW c, c = Account(i) PROVE CallsInv'
    OBVIOUS
<1>1. /\ call[i].op = "disconnect" /\ c \in left /\ c \in Accounts
      /\ call[i].at \in DisconnectSteps
    BY AtDisconnectStep DEF Disconnecting, Revoke, DisconnectSteps
<1>2. UNCHANGED <<sealed, connected, left>> /\ (Fault \/ UNCHANGED faults)
    BY DEF Revoke
<1>3. CASE Goto(i, "erase_secret")
    BY <1>1, <1>2, <1>3, RowStepSays DEF Revoke, Steps, LinkSteps, Ended
<1>4. CASE Revokes(i) /\ call' = [call EXCEPT ![i].at = "erase_secret", ![i].revoked = TRUE]
  <2>1. /\ faults \in Nat /\ faults' \in Nat /\ faults' >= faults
      BY <1>2, FaultsGrow
  <2>2. password \in [Accounts -> {"none", "live", "revoked"}]
      BY DEF IInv, TypeOK
  <2>3. (\A d \in Accounts \ {c} : Same(d)) /\ Lessens(c) /\ password'[c] = "revoked"
      BY <1>1, <1>2, <1>4, <2>2 DEF Revokes, Same, Lessens
  <2>4. call[i] \in CallType
      BY CallTyped DEF IInv
  <2>5. /\ call'[i] = [call[i] EXCEPT !.at = "erase_secret", !.revoked = TRUE]
        /\ \A j \in Threads \ {i} : call'[j] = call[j]
      BY <1>4, CallTyped DEF IInv
  <2>6. /\ call'[i].at = "erase_secret" /\ call'[i].op = call[i].op
        /\ call'[i].account = call[i].account
      BY <2>4, <2>5 DEF CallType
  <2>7. Disconnecting("erase_secret", c)'
      BY <1>1, <1>2 DEF Disconnecting
  <2>8. QED
      BY <1>1, <1>2, <2>1, <2>3, <2>5, <2>6, <2>7, DisconnectGoesOn DEF Steps, LinkSteps
<1>5. QED
    BY <1>3, <1>4 DEF Revoke

LEMMA EraseSecretSays ==
    ASSUME IInv, CallsInv, NEW i \in Threads, EraseSecret(i)
    PROVE  CallsInv'
<1>1. UNCHANGED <<connected, password, left>> /\ (Fault \/ UNCHANGED faults)
      /\ call[i].at \in DisconnectSteps
    BY DEF EraseSecret, DisconnectSteps, Try
<1>2. CASE Erase(i) /\ Goto(i, "erase_connection")
    BY <1>1, <1>2, RowStepSays DEF Steps, LinkSteps, Ended
<1>3. CASE (Erase(i) \/ UNCHANGED sealed) /\ Goto(i, "raised")
    BY <1>1, <1>3, RowStepSays DEF Steps, LinkSteps, Ended
<1>4. QED
    BY <1>2, <1>3 DEF EraseSecret, Try

LEMMA EraseConnectionSays ==
    ASSUME IInv, CallsInv, NEW i \in Threads, EraseConnection(i)
    PROVE  CallsInv'
<1>1. /\ UNCHANGED <<sealed, password, left>> /\ (Fault \/ UNCHANGED faults)
      /\ call[i].at = "erase_connection" /\ call[i].at \in DisconnectSteps
      /\ connected' \in {connected, connected \ {Account(i)}}
    BY DEF EraseConnection, DisconnectSteps, Try
<1>2. sealed[Account(i)] = NoKey
    BY <1>1, AtDisconnectStep DEF Disconnecting
<1>3. CASE connected' = connected \ {Account(i)} /\ Goto(i, "disconnected")
    BY <1>1, <1>2, <1>3, RowStepSays DEF Steps, LinkSteps, Ended
<1>4. CASE Goto(i, "raised")
    BY <1>1, <1>4, RowStepSays DEF Steps, LinkSteps, Ended
<1>5. QED
    BY <1>3, <1>4 DEF EraseConnection, Try

-----------------------------------------------------------------------------

LEMMA BeginLinkSays ==
    ASSUME IInv, CallsInv, NEW i \in Threads, BeginLink(i)
    PROVE  CallsInv'
<1>1. PICK c \in Accounts :
        /\ password[c] = "none" /\ password' = [password EXCEPT ![c] = "live"]
        /\ call' = [call EXCEPT ![i] = [at |-> "put_secret", op |-> "link", account |-> c,
                                      revoked |-> FALSE]]
    BY DEF BeginLink
<1>2. /\ password \in [Accounts -> {"none", "live", "revoked"}]
      /\ call \in [Threads -> CallType] /\ faults \in Nat
    BY CallTyped, FaultsGrow DEF IInv, TypeOK
<1>3. UNCHANGED <<sealed, connected, left, faults>>
    BY DEF BeginLink
<1>4. /\ c \notin connected \union left /\ sealed[c] = NoKey
    BY <1>1 DEF CallsInv, NothingBefore
<1>5. /\ \A j \in Threads \ {i} : call'[j] = call[j]
      /\ call'[i].at = "put_secret" /\ call'[i].op = "link" /\ call'[i].account = c
      /\ ~call'[i].revoked /\ Account(i)' = c
    BY <1>1, <1>2 DEF Account
<1>6. \A d \in Accounts \ {c} : Same(d)
    BY <1>1, <1>2, <1>3 DEF Same
<1>7. password'[c] = "live"
    BY <1>1, <1>2
<1>8. \A j \in Threads \ {i} : call[j].op # "none" => Account(j) \in Accounts \ {c}
    BY <1>1 DEF CallsInv, CallInv
<1>9. \A j \in Threads \ {i} : CallInv(j)'
  <2> SUFFICES ASSUME NEW j \in Threads \ {i} PROVE CallInv(j)'
      OBVIOUS
  <2>1. CASE call[j].op = "none"
      BY <1>5, <2>1 DEF CallsInv, CallInv
  <2>2. CASE call[j].op # "none"
      BY <1>2, <1>3, <1>5, <1>6, <1>8, <2>2, SameKeeps DEF CallsInv
  <2>3. QED
      BY <2>1, <2>2
<1>10. CallInv(i)'
  <2>1. Linking("put_secret", c)'
      BY <1>3, <1>4, <1>7 DEF Linking
  <2>2. QED
      BY <1>5, <1>7, <2>1 DEF CallInv, LinkSteps, DisconnectSteps
<1>11. OneLink'
  <2>1. \A j \in Threads \ {i} : Account(j)' = Account(j)
      BY <1>5 DEF Account
  <2>2. QED
      BY <1>5, <1>8, <2>1 DEF CallsInv, OneLink
<1>12. NothingBefore'
    BY <1>3, <1>6, <1>7 DEF CallsInv, NothingBefore, Same
<1>13. QED
    BY <1>9, <1>10, <1>11, <1>12 DEF CallsInv

LEMMA BeginDisconnectSays ==
    ASSUME IInv, CallsInv, NEW i \in Threads, NEW c \in Accounts, BeginDisconnect(i, c)
    PROVE  CallsInv'
<1>1. /\ c \in connected /\ left' = left \union {c}
      /\ UNCHANGED <<sealed, connected, password, faults>>
    BY DEF BeginDisconnect
<1>2. /\ \A j \in Threads \ {i} : call'[j] = call[j]
      /\ call'[i].at = "get_secret" /\ call'[i].op = "disconnect" /\ call'[i].account = c
      /\ ~call'[i].revoked /\ Account(i)' = c
    BY CallTyped DEF IInv, BeginDisconnect, Account
<1>3. password[c] # "none"
    BY <1>1 DEF CallsInv, NothingBefore
<1>4. \A j \in Threads \ {i} : CallInv(j)'
  <2> SUFFICES ASSUME NEW j \in Threads \ {i} PROVE CallInv(j)'
      OBVIOUS
  <2>1. CallInv(j) /\ Account(j)' = Account(j) /\ call'[j] = call[j]
      BY <1>2 DEF CallsInv, Account
  <2> DEFINE a == Account(j)
  <2>2. Whole(a)' <=> Whole(a)
      BY <1>1, <2>1 DEF Whole
  <2>3. Linking(call[j].at, a) => Linking(call[j].at, a)'
      BY <1>1, <2>1, <2>2 DEF Linking
  <2>4. Disconnecting(call[j].at, a) => Disconnecting(call[j].at, a)'
      BY <1>1, <2>1 DEF Disconnecting
  <2>5. QED
      BY <1>1, <2>1, <2>3, <2>4 DEF CallInv
<1>5. CallInv(i)'
  <2>1. Disconnecting("get_secret", c)'
      BY <1>1 DEF Disconnecting
  <2>2. QED
      BY <1>1, <1>2, <1>3, <2>1 DEF CallInv, LinkSteps, DisconnectSteps
<1>6. OneLink'
    BY <1>2 DEF CallsInv, OneLink, Account
<1>7. NothingBefore'
    BY <1>1, <1>3 DEF CallsInv, NothingBefore
<1>8. QED
    BY <1>4, <1>5, <1>6, <1>7 DEF CallsInv

LEMMA RestartSays ==
    ASSUME IInv, CallsInv, NEW p \in Processes, NEW keys, NEW key, RestartWith(p, keys, key)
    PROVE  CallsInv'
<1>1. UNCHANGED <<sealed, connected, password, faults, left>>
    BY DEF RestartWith
<1>2. \A j \in Threads : /\ call'[j].at \in {call[j].at, "killed"}
                         /\ call'[j].op = call[j].op
                         /\ call'[j].account = call[j].account
                         /\ call'[j].revoked = call[j].revoked
  <2> SUFFICES ASSUME NEW j \in Threads
               PROVE  /\ call'[j].at \in {call[j].at, "killed"}
                      /\ call'[j].op = call[j].op
                      /\ call'[j].account = call[j].account
                      /\ call'[j].revoked = call[j].revoked
      OBVIOUS
  <2>1. call[j] \in CallType
      BY CallTyped DEF IInv
  <2>2. call'[j] = [call[j] EXCEPT !.at = "killed"] \/ call'[j] = call[j]
      BY DEF RestartWith
  <2>3. QED
      BY <2>1, <2>2 DEF CallType
<1>3. \A j \in Threads : CallInv(j)'
  <2> SUFFICES ASSUME NEW j \in Threads PROVE CallInv(j)'
      OBVIOUS
  <2>1. CallInv(j) /\ Account(j)' = Account(j)
      BY <1>2 DEF CallsInv, Account
  <2> DEFINE a == Account(j)
  <2>2. Whole(a)' <=> Whole(a)
      BY <1>1, <2>1 DEF Whole
  <2>3. \A at \in {call[j].at, "killed"} : Linking(call[j].at, a) => Linking(at, a)'
      BY <1>1, <2>1, <2>2 DEF Linking
  <2>4. \A at \in {call[j].at, "killed"} : Disconnecting(call[j].at, a) => Disconnecting(at, a)'
      BY <1>1, <2>1 DEF Disconnecting
  <2>5. QED
      BY <1>1, <1>2, <2>1, <2>3, <2>4 DEF CallInv, LinkSteps, DisconnectSteps
<1>4. OneLink'
    BY <1>2 DEF CallsInv, OneLink, Account
<1>5. NothingBefore'
    BY <1>1 DEF CallsInv, NothingBefore
<1>6. QED
    BY <1>3, <1>4, <1>5 DEF CallsInv

LEMMA CallsInit == Init => CallsInv
    BY DEF Init, CallsInv, CallInv, LinkSteps, DisconnectSteps, OneLink, NothingBefore

LEMMA CallsStep == IInv /\ CallsInv /\ [Next]_vars => CallsInv'
<1> SUFFICES ASSUME IInv, CallsInv, [Next]_vars PROVE CallsInv'
    OBVIOUS
<1>1. CASE UNCHANGED vars
    BY <1>1 DEF vars, CallsInv, CallInv, OneLink, NothingBefore, Account, Linking,
                Disconnecting, Whole
<1>2. CASE \E i \in Threads : BeginLink(i)
    BY <1>2, BeginLinkSays
<1>3. CASE \E i \in Threads, c \in Accounts : BeginDisconnect(i, c)
    BY <1>3, BeginDisconnectSays
<1>4. CASE \E i \in Threads : Proceed(i)
    BY <1>4, PutSecretSays, PutConnectionSays, DropPendingSays, UndoSecretSays,
       UndoPasswordSays, GetSecretSays, ResolveSays, RevokeSays, EraseSecretSays,
       EraseConnectionSays DEF Proceed
<1>5. CASE \E p \in Processes : AddKey(p) \/ Activate(p) \/ RemoveKey(p)
    BY <1>5, RestartSays DEF AddKey, Activate, RemoveKey
<1>6. QED
    BY <1>1, <1>2, <1>3, <1>4, <1>5 DEF Next

LEMMA CallsHold == Spec => [](IInv /\ CallsInv)
<1>1. Init => IInv /\ CallsInv
    BY InitInv, CallsInit
<1>2. (IInv /\ CallsInv) /\ [Next]_vars => (IInv /\ CallsInv)'
    BY StepInv, CallsStep
<1>3. QED
    BY <1>1, <1>2, PTL DEF Spec

-----------------------------------------------------------------------------
(* Theorems                                                                *)

(* Every variable keeps its type. *)
THEOREM TypeCorrect == Spec => []TypeOK
<1>1. IInv => TypeOK
    BY DEF IInv
<1>2. QED
    BY <1>1, InvariantHolds, PTL

(* While keys are changed as documented, whatever calls run and fail, every *)
(* process can read every stored secret: any number of processes, threads, *)
(* accounts and keys.                                                      *)
THEOREM SecretsStayReadable == Spec => []ReadableEverywhere
<1>1. IInv => ReadableEverywhere
    BY DEF IInv
<1>2. QED
    BY <1>1, InvariantHolds, PTL

(* What a call that links or disconnects an account says is so: connected  *)
(* means a row, a secret and a live password; disconnected, that nothing   *)
(* is stored any more; and after one failure while an account is linked,   *)
(* all of it is there or no usable half is.  Any number of processes,      *)
(* calls, accounts, failures and restarts.                                 *)
THEOREM AnswersAreTrue == Spec => []AnswersHold
<1>1. IInv /\ CallsInv => AnswersHold
  <2> SUFFICES ASSUME CallsInv, NEW i \in Threads, NEW c, c = Account(i), IInv
               PROVE  /\ call[i].at = "connected" /\ c \notin left =>
                           Whole(c) /\ password[c] = "live"
                      /\ call[i].at = "disconnected" =>
                           /\ c \notin connected /\ sealed[c] = NoKey
                           /\ call[i].revoked => password[c] = "revoked"
                      /\ call[i].at = "raised" /\ call[i].op = "link" /\ c \notin left
                           /\ faults <= 1 =>
                           IF password[c] = "live" THEN Whole(c) ELSE ~Whole(c)
      BY DEF AnswersHold, Whole
  <2>1. CallInv(i)
      BY DEF CallsInv
  <2>2. QED
      BY <2>1 DEF CallInv, Linking, Disconnecting, LinkSteps, DisconnectSteps
<1>2. QED
    BY <1>1, CallsHold, PTL
=============================================================================
