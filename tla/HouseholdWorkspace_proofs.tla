---------------------- MODULE HouseholdWorkspace_proofs ----------------------
(* Proofs of the safety properties of HouseholdWorkspace. *)
EXTENDS HouseholdWorkspace, FiniteSetTheorems, TLAPS

-----------------------------------------------------------------------------
(* Calls and paths                                                         *)

LEMMA CallShapes ==
    ASSUME NEW call \in Calls
    PROVE  /\ call.at = "lookup" => call \in [at : {"lookup"}, record : Profile]
           /\ call.at = "check" => call \in [at : {"check"}, id : ProfileIds, record : Profile]
           /\ call.at = "write" =>
                call \in [at : {"write"}, id : ProfileIds, record : Profile, exists : BOOLEAN]
           /\ call.at = "prepareSettings" =>
                call \in [at : {"prepareSettings"}, tenant : Tenants, profile : Profile]
           /\ call.at = "saveSettings" =>
                call \in [at : {"saveSettings"}, tenant : Tenants, id : ProfileIds,
                          profile : Profile]
           /\ call.at = "profileAgain" =>
                call \in [at : {"profileAgain"}, tenant : Tenants, id : ProfileIds,
                          profile : Profile, root : Roots]
           /\ call.at = "settingsAgain" =>
                call \in [at : {"settingsAgain"}, tenant : Tenants, profile : Profile,
                          root : Roots, again : Profile]
           /\ call.at = "review" =>
                call \in [at : {"review"}, tenant : Tenants, profile : Profile,
                          root : Roots, again : Profile, rootAgain : Roots]
           /\ call.at \in {"probe", "create"} =>
                call \in [at : {"probe", "create"}, tenant : Tenants, conn : Connections,
                          root : Roots, todo : Seq(Directories),
                          place : Places \union {NoPlace}]
    BY DEF Calls, Configuring, Preparing, Saving, Writing, Idle

LEMMA LayoutShape ==
    ASSUME NEW layout \in Layouts
    PROVE  /\ DOMAIN layout = 1..3
           /\ \A i \in 1..3 : layout[i] \in Folders /\ layout[i] \in Seq(Names)
    BY HouseholdAssumption DEF HouseholdAssumption, Folders

LEMMA PathsOfFolders ==
    ASSUME NEW folder \in Folders
    PROVE  Path(folder) \in Seq(Directories)
<1>1. PICK l \in Layouts : \E i \in DOMAIN l : folder = l[i]
    BY DEF Folders
<1>2. folder \in Seq(Names)
    BY <1>1, LayoutShape
<1>3. /\ DOMAIN Path(folder) = 1..Len(folder)
      /\ \A i \in 1..Len(folder) : Path(folder)[i] \in Directories
    BY <1>2 DEF Path, Directories
<1>4. Path(folder) \in [1..Len(folder) -> Directories]
    BY <1>3 DEF Path
<1>5. QED
    BY <1>2, <1>4

LEMMA ReportsFolder ==
    ASSUME NEW layout \in Layouts
    PROVE  Reports(layout) \in Folders
    BY LayoutShape DEF Reports

LEMMA PreparePath ==
    ASSUME NEW layout \in Layouts
    PROVE  Path(layout[1]) \o Path(layout[2]) \o Path(layout[3]) \in Seq(Directories)
<1>1. /\ Path(layout[1]) \in Seq(Directories)
      /\ Path(layout[2]) \in Seq(Directories)
      /\ Path(layout[3]) \in Seq(Directories)
    BY LayoutShape, PathsOfFolders
<1>2. QED
    BY <1>1

-----------------------------------------------------------------------------
(* Steps that only move a call on                                          *)

(* What the invariant says of one call by itself. *)
Sound(call) ==
    /\ call.at \in {"lookup", "check", "write"} =>
          Owner[call.record.conn] = call.record.tenant
    /\ call.at \in {"prepareSettings", "saveSettings", "profileAgain",
                    "settingsAgain", "review"} =>
          /\ call.profile.tenant = call.tenant
          /\ Owner[call.profile.conn] = call.tenant
    /\ call.at \in {"settingsAgain", "review"} => call.profile.conn = call.again.conn
    /\ call.at \in {"probe", "create"} => Owner[call.conn] = call.tenant
    /\ call.at = "create" => call.todo # <<>>

LEMMA SoundCalls ==
    ASSUME IInv, NEW p \in Requests
    PROVE  Sound(req[p])
    BY DEF IInv, OneAccountPerCall, TenantsApart, CallInv, ConflictInv, Sound

LEMMA CallsSound ==
    ASSUME \A p \in Requests : Sound(req[p])
    PROVE  OneAccountPerCall /\ TenantsApart /\ CallInv
    BY DEF OneAccountPerCall, TenantsApart, CallInv, Sound

LEMMA CallsSoundPrimed ==
    ASSUME \A p \in Requests : Sound(req'[p])
    PROVE  OneAccountPerCall' /\ TenantsApart' /\ CallInv'
    BY DEF OneAccountPerCall, TenantsApart, CallInv, Sound

LEMMA IdleIsSound ==
    /\ Idle \in Calls /\ Sound(Idle) /\ Remembered(Idle) = {} /\ Idle.at = "idle"
    BY DEF Idle, Calls, Sound, Remembered

LEMMA Moved ==
    ASSUME req \in [Requests -> Calls], NEW p \in Requests, NEW call \in Calls,
           req' = [req EXCEPT ![p] = call]
    PROVE  /\ req' \in [Requests -> Calls]
           /\ \A q \in Requests : req'[q] = IF q = p THEN call ELSE req[q]
    OBVIOUS

LEMMA CallsStaySound ==
    ASSUME IInv, NEW p \in Requests, NEW call \in Calls,
           req' = [req EXCEPT ![p] = call], Sound(call)
    PROVE  /\ OneAccountPerCall' /\ TenantsApart' /\ CallInv'
           /\ \A q \in Requests : req'[q].at = "create" => req'[q].todo # <<>>
<1>1. \A q \in Requests : req'[q] = IF q = p THEN call ELSE req[q]
    BY Moved DEF IInv, TypeOK
<1>2. \A q \in Requests : Sound(req'[q])
    BY <1>1, SoundCalls
<1>3. \A q \in Requests : req'[q].at = "create" => req'[q].todo # <<>>
    BY <1>2 DEF Sound
<1>4. QED
    BY <1>2, <1>3, CallsSoundPrimed

(* Ids stay bound when nothing new is bound. *)
LEMMA BoundAgain ==
    ASSUME BoundForGood, minted \subseteq minted', Bindings' \subseteq Bindings
    PROVE  BoundForGood'
    BY DEF BoundForGood

LEMMA BindingsMoved ==
    ASSUME req \in [Requests -> Calls], NEW p \in Requests, NEW call \in Calls,
           req' = [req EXCEPT ![p] = call]
    PROVE  /\ Bindings' \subseteq {Binding(id, profiles'[id]) : id \in DOMAIN profiles'}
                                    \union Bindings \union Remembered(call)
           /\ profiles' = profiles => Bindings' \subseteq Bindings \union Remembered(call)
<1>1. \A q \in Requests : req'[q] = IF q = p THEN call ELSE req[q]
    BY Moved
<1>2. UNION {Remembered(req'[q]) : q \in Requests}
        \subseteq (UNION {Remembered(req[q]) : q \in Requests}) \union Remembered(call)
    BY <1>1
<1>3. /\ Bindings' = {Binding(id, profiles'[id]) : id \in DOMAIN profiles'}
                        \union UNION {Remembered(req'[q]) : q \in Requests}
      /\ UNION {Remembered(req[q]) : q \in Requests} \subseteq Bindings
      /\ {Binding(id, profiles[id]) : id \in DOMAIN profiles} \subseteq Bindings
    BY DEF Bindings, Binding, Remembered
<1>4. QED
    BY <1>2, <1>3

LEMMA RememberedBound ==
    ASSUME NEW p \in Requests
    PROVE  Remembered(req[p]) \subseteq Bindings
    BY DEF Bindings

LEMMA TabledBound ==
    ASSUME NEW id \in DOMAIN profiles
    PROVE  Binding(id, profiles[id]) \in Bindings
    BY DEF Bindings

(* The calls about to create a folder: one that starts to is the only new  *)
(* one, and the folder was not there.                                      *)
LEMMA CreatingFinite ==
    ASSUME NEW c, NEW d
    PROVE  /\ IsFiniteSet(Creating(c, d))
           /\ Cardinality(Creating(c, d)) \in Nat
    BY HouseholdAssumption, FS_Subset, FS_CardinalityType
       DEF HouseholdAssumption, Creating

Creates(call, c, d) ==
    call.at = "create" /\ call.conn = c /\ <<call.root, Head(call.todo)>> = d

LEMMA CreatingMoved ==
    ASSUME req \in [Requests -> Calls], NEW p \in Requests, NEW call \in Calls,
           req' = [req EXCEPT ![p] = call], NEW c, NEW d, ~Creates(call, c, d)
    PROVE  Creating(c, d)' = Creating(c, d) \ {p}
<1>1. \A q \in Requests : req'[q] = IF q = p THEN call ELSE req[q]
    BY Moved
<1>2. QED
    BY <1>1 DEF Creating, Creates

LEMMA FewerCreating ==
    ASSUME NEW c, NEW d, Creating(c, d)' \subseteq Creating(c, d)
    PROVE  /\ Cardinality(Creating(c, d)') \in Nat
           /\ Cardinality(Creating(c, d)') <= Cardinality(Creating(c, d))
           /\ Cardinality(Creating(c, d)) \in Nat
    BY CreatingFinite, FS_Subset, FS_CardinalityType

LEMMA RequestsCounted == IsFiniteSet(Requests) /\ Cardinality(Requests) \in Nat
    BY HouseholdAssumption, FS_CardinalityType DEF HouseholdAssumption

LEMMA ConflictsMoved ==
    ASSUME IInv, NEW p \in Requests, NEW call \in Calls,
           req' = [req EXCEPT ![p] = call], Sound(call), UNCHANGED <<folders, conflicts>>,
           call.at = "create" => <<call.root, Head(call.todo)>> \notin folders[call.conn]
    PROVE  ConflictInv'
<1>1. \A q \in Requests : req'[q].at = "create" => req'[q].todo # <<>>
    BY CallsStaySound
<1>2. ASSUME NEW c \in Connections, NEW d \in Roots \X Directories
      PROVE  /\ d \notin folders'[c] => conflicts'[c][d] = 0
             /\ d \in folders'[c] =>
                   conflicts'[c][d] + Cardinality(Creating(c, d)') < Cardinality(Requests)
  <2>1. CASE d \notin folders[c]
      BY <2>1 DEF IInv, ConflictInv
  <2>2. CASE d \in folders[c]
    <3>1. ~Creates(call, c, d)
        BY <2>2 DEF Creates
    <3>2. Creating(c, d)' \subseteq Creating(c, d)
      <4>1. req \in [Requests -> Calls]
          BY DEF IInv, TypeOK
      <4>2. Creating(c, d)' = Creating(c, d) \ {p}
          BY <3>1, <4>1, CreatingMoved
      <4>3. QED
          BY <4>2
    <3>3. conflicts[c][d] \in Nat
        BY DEF IInv, TypeOK
    <3>4. conflicts[c][d] + Cardinality(Creating(c, d)) < Cardinality(Requests)
        BY <2>2 DEF IInv, ConflictInv
    <3>5. conflicts[c][d] + Cardinality(Creating(c, d)') < Cardinality(Requests)
        BY <3>2, <3>3, <3>4, FewerCreating, RequestsCounted
    <3>6. QED
        BY <2>2, <3>5
  <2>3. QED
      BY <2>1, <2>2
<1>3. QED
    BY <1>1, <1>2 DEF ConflictInv

(* A step that moves one call on and changes nothing else. *)
Advance(p, call) ==
    /\ req' = [req EXCEPT ![p] = call]
    /\ UNCHANGED <<database, nextcloud, confirmed>>

LEMMA AdvancePreserves ==
    ASSUME IInv, NEW p \in Requests, NEW call \in Calls, Advance(p, call),
           Sound(call), Remembered(call) \subseteq Bindings,
           call.at = "create" => <<call.root, Head(call.todo)>> \notin folders[call.conn]
    PROVE  IInv'
<1>1. TypeOK'
    BY Moved DEF IInv, TypeOK, Advance, database, nextcloud
<1>2. OneProfilePerConnection' /\ ProfileHasConnection' /\ SavedAnswerHolds'
    BY DEF IInv, Advance, database, nextcloud, OneProfilePerConnection, ProfileHasConnection,
           SavedAnswerHolds
<1>3. OneAccountPerCall' /\ TenantsApart' /\ CallInv'
    BY CallsStaySound DEF Advance
<1>4. BoundForGood'
  <2>1. Bindings' \subseteq Bindings
      BY BindingsMoved DEF Advance, database, IInv, TypeOK
  <2>2. QED
      BY <2>1, BoundAgain DEF Advance, database, IInv
<1>5. ConflictInv'
    BY ConflictsMoved DEF Advance, nextcloud
<1>6. QED
    BY <1>1, <1>2, <1>3, <1>4, <1>5 DEF IInv

LEMMA ReturnPreserves ==
    ASSUME IInv, NEW p \in Requests, Return(p), UNCHANGED <<database, nextcloud, confirmed>>
    PROVE  IInv'
    BY AdvancePreserves, IdleIsSound DEF Return, Advance

-----------------------------------------------------------------------------
(* configure_profile                                                       *)

LEMMA ConfigurePreserves ==
    ASSUME IInv, NEW p \in Requests, NEW t \in Tenants, NEW c \in Connections,
           NEW layout \in Layouts, Configure(p, t, c, layout)
    PROVE  IInv'
<1> DEFINE call == [at |-> "lookup", record |-> [tenant |-> t, conn |-> c, layout |-> layout]]
<1>1. call \in Calls
    BY DEF Calls, Configuring, Profile
<1>2. Sound(call) /\ Remembered(call) = {}
    BY DEF Sound, Remembered, Configure, Usable
<1>3. Advance(p, call) /\ call.at = "lookup"
    BY DEF Advance, Configure, Become
<1>4. QED
    BY <1>1, <1>2, <1>3, AdvancePreserves

LEMMA LookupFoundPreserves ==
    ASSUME IInv, NEW p \in Requests, NEW id \in ProfileIds, LookupFound(p, id)
    PROVE  IInv'
<1> DEFINE record == req[p].record
           call == [at |-> "check", id |-> id, record |-> record]
<1>1. req[p].at = "lookup" /\ record \in Profile
    BY CallShapes DEF LookupFound, IInv, TypeOK
<1>2. CASE Return(p)
    BY <1>2, ReturnPreserves DEF LookupFound
<1>3. CASE Become(p, call)
  <2>1. call \in Calls
      BY <1>1 DEF Calls, Configuring
  <2>2. Sound(call)
      BY <1>1, SoundCalls DEF Sound
  <2>3. /\ id \in DOMAIN profiles
        /\ profiles[id].tenant = record.tenant /\ profiles[id].conn = record.conn
      BY DEF LookupFound, ForConnection
  <2>4. Binding(id, record) = Binding(id, profiles[id])
      BY <2>3 DEF Binding
  <2>5. Remembered(call) \subseteq Bindings
      BY <2>3, <2>4, TabledBound DEF Remembered
  <2>6. Advance(p, call) /\ call.at = "check"
      BY <1>3 DEF LookupFound, Become, Advance
  <2>7. QED
      BY <2>1, <2>2, <2>5, <2>6, AdvancePreserves
<1>4. QED
    BY <1>2, <1>3 DEF LookupFound

LEMMA LookupNonePreserves ==
    ASSUME IInv, NEW p \in Requests, NEW id \in ProfileIds, LookupNone(p, id)
    PROVE  IInv'
<1> DEFINE record == req[p].record
           call == [at |-> "check", id |-> id, record |-> record]
<1>1. req[p].at = "lookup" /\ record \in Profile
    BY CallShapes DEF LookupNone, IInv, TypeOK
<1>2. call \in Calls
    BY <1>1 DEF Calls, Configuring
<1>3. Sound(call) /\ Owner[record.conn] = record.tenant
    BY <1>1, SoundCalls DEF Sound
<1>4. req' = [req EXCEPT ![p] = call]
    BY DEF LookupNone, Become
<1>5. TypeOK'
    BY <1>2, <1>4, Moved DEF LookupNone, IInv, TypeOK, nextcloud
<1>6. OneProfilePerConnection' /\ ProfileHasConnection' /\ SavedAnswerHolds'
    BY DEF IInv, LookupNone, nextcloud, OneProfilePerConnection, ProfileHasConnection,
           SavedAnswerHolds
<1>7. OneAccountPerCall' /\ TenantsApart' /\ CallInv'
    BY <1>2, <1>3, <1>4, CallsStaySound
<1>8. BoundForGood'
  <2> DEFINE new == Binding(id, record)
  <2>1. Remembered(call) = {new}
      BY DEF Remembered
  <2>2. Bindings' \subseteq Bindings \union {new}
      BY <1>2, <1>4, <2>1, BindingsMoved DEF LookupNone, IInv, TypeOK
  <2>3. new.id = id /\ new.conn = record.conn /\ new.tenant = record.tenant
      BY DEF Binding
  <2>4. id \notin minted /\ minted' = minted \union {id}
      BY DEF LookupNone
  <2>5. \A b \in Bindings : b.id \in minted /\ Owner[b.conn] = b.tenant
      BY DEF IInv, BoundForGood
  <2>6. \A a, b \in Bindings : a.id = b.id => a = b
      BY DEF IInv, BoundForGood
  <2> HIDE DEF new
  <2>7. \A b \in Bindings' : b.id \in minted' /\ Owner[b.conn] = b.tenant
      BY <1>3, <2>2, <2>3, <2>4, <2>5
  <2>8. \A a, b \in Bindings' : a.id = b.id => a = b
      BY <2>2, <2>3, <2>4, <2>5, <2>6
  <2>9. QED
      BY <2>7, <2>8 DEF BoundForGood
<1>9. ConflictInv'
    BY <1>2, <1>3, <1>4, ConflictsMoved DEF LookupNone, nextcloud
<1>10. QED
    BY <1>5, <1>6, <1>7, <1>8, <1>9 DEF IInv

LEMMA CheckProfilePreserves ==
    ASSUME IInv, NEW p \in Requests, CheckProfile(p)
    PROVE  IInv'
<1> DEFINE id == req[p].id
           record == req[p].record
           call == [at |-> "write", id |-> id, record |-> record,
                    exists |-> id \in DOMAIN profiles]
<1>1. req[p].at = "check" /\ id \in ProfileIds /\ record \in Profile
    BY CallShapes DEF CheckProfile, IInv, TypeOK
<1>2. call \in Calls
    BY <1>1 DEF Calls, Configuring
<1>3. Sound(call)
    BY <1>1, SoundCalls DEF Sound
<1>4. Remembered(call) = Remembered(req[p])
    BY <1>1 DEF Remembered
<1>5. Advance(p, call) /\ call.at = "write"
    BY DEF CheckProfile, Become, Advance
<1>6. QED
    BY <1>2, <1>3, <1>4, <1>5, RememberedBound, AdvancePreserves

LEMMA WriteProfilePreserves ==
    ASSUME IInv, NEW p \in Requests, WriteProfile(p)
    PROVE  IInv'
<1> DEFINE id == req[p].id
           record == req[p].record
<1>1. req[p].at = "write" /\ id \in ProfileIds /\ record \in Profile
    BY CallShapes DEF WriteProfile, IInv, TypeOK
<1>2. Owner[record.conn] = record.tenant /\ conns[record.conn].row
    BY DEF WriteProfile, Allowed
<1>3. /\ profiles' = [i \in DOMAIN profiles \union {id} |->
                        IF i = id THEN record ELSE profiles[i]]
      /\ req' = [req EXCEPT ![p] = Idle]
      /\ UNCHANGED <<conns, minted, folders, reports, conflicts, confirmed>>
    BY DEF WriteProfile, Stored, Return, nextcloud
<1>4. /\ DOMAIN profiles' = DOMAIN profiles \union {id}
      /\ profiles'[id] = record
      /\ \A i \in DOMAIN profiles : i # id => profiles'[i] = profiles[i]
    BY <1>3
<1>5. Binding(id, record) \in Bindings
    BY <1>1, RememberedBound DEF Remembered
<1>6. id \in minted
    BY <1>5 DEF IInv, BoundForGood, Binding
<1>7. TypeOK'
  <2>1. req' \in [Requests -> Calls]
      BY <1>3, IdleIsSound DEF IInv, TypeOK
  <2>2. DOMAIN profiles' \subseteq minted' /\ \A i \in DOMAIN profiles' : profiles'[i] \in Profile
      BY <1>1, <1>3, <1>4, <1>6 DEF IInv, TypeOK
  <2>3. QED
      BY <1>3, <2>1, <2>2 DEF IInv, TypeOK
<1>8. OneProfilePerConnection'
  <2>1. ForConnection(record.conn, record.tenant) \subseteq {id}
      BY DEF WriteProfile, Allowed
  <2>2. \A i \in DOMAIN profiles : profiles[i].conn = record.conn => i = id
      BY <1>2, <2>1 DEF ForConnection, IInv, ProfileHasConnection
  <2>3. QED
      BY <1>4, <2>2 DEF OneProfilePerConnection, IInv
<1>9. ProfileHasConnection'
    BY <1>2, <1>3, <1>4 DEF ProfileHasConnection, IInv
<1>10. OneAccountPerCall' /\ TenantsApart' /\ CallInv'
    BY <1>3, IdleIsSound, CallsStaySound
<1>11. BoundForGood'
  <2>1. \A i \in DOMAIN profiles' : Binding(i, profiles'[i]) \in Bindings
      BY <1>4, <1>5, TabledBound
  <2>2. Bindings' \subseteq Bindings
      BY <1>3, <2>1, IdleIsSound, BindingsMoved DEF IInv, TypeOK
  <2>3. QED
      BY <1>3, <2>2, BoundAgain DEF IInv
<1>12. SavedAnswerHolds'
    BY <1>3 DEF SavedAnswerHolds, IInv
<1>13. ConflictInv'
    BY <1>3, IdleIsSound, ConflictsMoved
<1>14. QED
    BY <1>7, <1>8, <1>9, <1>10, <1>11, <1>12, <1>13 DEF IInv

-----------------------------------------------------------------------------
(* prepare_workspace and save_invoice_review                               *)

(* What a stored profile is. *)
LEMMA FoundProfile ==
    ASSUME IInv, NEW id, NEW t, Found(id, t)
    PROVE  /\ profiles[id] \in Profile
           /\ profiles[id].tenant = t /\ Owner[profiles[id].conn] = t
           /\ Binding(id, profiles[id]) \in Bindings
    BY TabledBound DEF IInv, TypeOK, Found, ProfileHasConnection

LEMMA PreparePreserves ==
    ASSUME IInv, NEW p \in Requests, NEW t \in Tenants, NEW id \in ProfileIds, Prepare(p, t, id)
    PROVE  IInv'
<1> DEFINE call == [at |-> "prepareSettings", tenant |-> t, profile |-> profiles[id]]
<1>1. /\ profiles[id] \in Profile
      /\ profiles[id].tenant = t /\ Owner[profiles[id].conn] = t
    BY FoundProfile DEF Prepare
<1>2. call \in Calls
    BY <1>1 DEF Calls, Preparing
<1>3. Sound(call) /\ Remembered(call) = {}
    BY <1>1 DEF Sound, Remembered
<1>4. Advance(p, call) /\ call.at = "prepareSettings"
    BY DEF Advance, Prepare, Become
<1>5. QED
    BY <1>2, <1>3, <1>4, AdvancePreserves

LEMMA SavePreserves ==
    ASSUME IInv, NEW p \in Requests, NEW t \in Tenants, NEW id \in ProfileIds, Save(p, t, id)
    PROVE  IInv'
<1> DEFINE call == [at |-> "saveSettings", tenant |-> t, id |-> id, profile |-> profiles[id]]
<1>1. /\ profiles[id] \in Profile
      /\ profiles[id].tenant = t /\ Owner[profiles[id].conn] = t
      /\ Binding(id, profiles[id]) \in Bindings
    BY FoundProfile DEF Save
<1>2. call \in Calls
    BY <1>1 DEF Calls, Saving
<1>3. Sound(call) /\ Remembered(call) = {Binding(id, profiles[id])}
    BY <1>1 DEF Sound, Remembered
<1>4. Advance(p, call) /\ call.at = "saveSettings"
    BY DEF Advance, Save, Become
<1>5. QED
    BY <1>1, <1>2, <1>3, <1>4, AdvancePreserves

LEMMA SaveSettingsPreserves ==
    ASSUME IInv, NEW p \in Requests, SaveSettings(p)
    PROVE  IInv'
<1> DEFINE old == req[p]
           call == [at |-> "profileAgain", tenant |-> old.tenant, id |-> old.id,
                    profile |-> old.profile, root |-> conns[old.profile.conn].root]
<1>1. /\ old.at = "saveSettings" /\ old.tenant \in Tenants
      /\ old.id \in ProfileIds /\ old.profile \in Profile
    BY CallShapes DEF SaveSettings, IInv, TypeOK
<1>2. conns[old.profile.conn].root \in Roots
    BY <1>1 DEF Profile, IInv, TypeOK, Connection
<1>3. call \in Calls
    BY <1>1, <1>2 DEF Calls, Saving
<1>4. Sound(call) /\ Remembered(call) = Remembered(old)
    BY <1>1, SoundCalls DEF Sound, Remembered
<1>5. Advance(p, call) /\ call.at = "profileAgain"
    BY DEF Advance, SaveSettings, Become
<1>6. QED
    BY <1>3, <1>4, <1>5, RememberedBound, AdvancePreserves

LEMMA ProfileAgainPreserves ==
    ASSUME IInv, NEW p \in Requests, ProfileAgain(p)
    PROVE  IInv'
<1> DEFINE old == req[p]
           call == [at |-> "settingsAgain", tenant |-> old.tenant, profile |-> old.profile,
                    root |-> old.root, again |-> profiles[old.id]]
<1>1. /\ old.at = "profileAgain" /\ old.tenant \in Tenants /\ old.root \in Roots
      /\ old.id \in ProfileIds /\ old.profile \in Profile
    BY CallShapes DEF ProfileAgain, IInv, TypeOK
<1>2. profiles[old.id] \in Profile /\ Binding(old.id, profiles[old.id]) \in Bindings
    BY FoundProfile DEF ProfileAgain
<1>3. Binding(old.id, old.profile) \in Bindings
    BY <1>1, RememberedBound DEF Remembered
<1>4. Binding(old.id, old.profile) = Binding(old.id, profiles[old.id])
  <2>1. Binding(old.id, old.profile).id = Binding(old.id, profiles[old.id]).id
      BY DEF Binding
  <2>2. QED
      BY <1>2, <1>3, <2>1 DEF IInv, BoundForGood
<1>5. old.profile.conn = profiles[old.id].conn
    BY <1>4 DEF Binding
<1>6. call \in Calls
    BY <1>1, <1>2 DEF Calls, Saving
<1>7. Sound(call) /\ Remembered(call) = {}
    BY <1>1, <1>5, SoundCalls DEF Sound, Remembered
<1>8. Advance(p, call) /\ call.at = "settingsAgain"
    BY DEF Advance, ProfileAgain, Become
<1>9. QED
    BY <1>6, <1>7, <1>8, AdvancePreserves

LEMMA SettingsAgainPreserves ==
    ASSUME IInv, NEW p \in Requests, SettingsAgain(p)
    PROVE  IInv'
<1> DEFINE old == req[p]
           call == [at |-> "review", tenant |-> old.tenant, profile |-> old.profile,
                    root |-> old.root, again |-> old.again,
                    rootAgain |-> conns[old.again.conn].root]
<1>1. /\ old.at = "settingsAgain" /\ old.tenant \in Tenants /\ old.root \in Roots
      /\ old.profile \in Profile /\ old.again \in Profile
    BY CallShapes DEF SettingsAgain, IInv, TypeOK
<1>2. conns[old.again.conn].root \in Roots
    BY <1>1 DEF Profile, IInv, TypeOK, Connection
<1>3. call \in Calls
    BY <1>1, <1>2 DEF Calls, Saving
<1>4. Sound(call) /\ Remembered(call) = {}
    BY <1>1, SoundCalls DEF Sound, Remembered
<1>5. Advance(p, call) /\ call.at = "review"
    BY DEF Advance, SettingsAgain, Become
<1>6. QED
    BY <1>3, <1>4, <1>5, AdvancePreserves

(* The start of ensure_folder. *)
LEMMA WalkPreserves ==
    ASSUME IInv, NEW p \in Requests, NEW conn \in Connections, NEW root \in Roots,
           NEW todo \in Seq(Directories), NEW place \in Places \union {NoPlace},
           req[p].tenant \in Tenants, Owner[conn] = req[p].tenant,
           Walk(p, conn, root, todo, place), UNCHANGED <<database, nextcloud, confirmed>>
    PROVE  IInv'
<1> DEFINE call == [at |-> "probe", tenant |-> req[p].tenant, conn |-> conn, root |-> root,
                    todo |-> todo, place |-> place]
<1>1. call \in Calls
    BY DEF Calls, Writing
<1>2. Sound(call) /\ Remembered(call) = {}
    BY DEF Sound, Remembered
<1>3. Advance(p, call) /\ call.at = "probe"
    BY DEF Advance, Walk, Become
<1>4. QED
    BY <1>1, <1>2, <1>3, AdvancePreserves

LEMMA PrepareSettingsPreserves ==
    ASSUME IInv, NEW p \in Requests, PrepareSettings(p)
    PROVE  IInv'
<1> DEFINE profile == req[p].profile
           todo == Path(profile.layout[1]) \o Path(profile.layout[2]) \o Path(profile.layout[3])
<1>1. req[p].at = "prepareSettings" /\ req[p].tenant \in Tenants /\ profile \in Profile
    BY CallShapes DEF PrepareSettings, IInv, TypeOK
<1>2. profile.conn \in Connections /\ profile.layout \in Layouts
    BY <1>1 DEF Profile
<1>3. conns[profile.conn].root \in Roots
    BY <1>2 DEF IInv, TypeOK, Connection
<1>4. todo \in Seq(Directories)
    BY <1>2, PreparePath
<1>5. Owner[profile.conn] = req[p].tenant
    BY <1>1, SoundCalls DEF Sound
<1>6. Walk(p, profile.conn, conns[profile.conn].root, todo, NoPlace)
    BY DEF PrepareSettings
<1>7. UNCHANGED <<database, nextcloud, confirmed>>
    BY DEF PrepareSettings
<1> HIDE DEF todo
<1>8. QED
    BY <1>1, <1>2, <1>3, <1>4, <1>5, <1>6, <1>7, WalkPreserves

LEMMA ReviewPreserves ==
    ASSUME IInv, NEW p \in Requests, NEW h \in Hashes, Review(p, h)
    PROVE  IInv'
<1> DEFINE profile == req[p].profile
           place == <<profile.conn, req[p].root, Reports(profile.layout), h>>
<1>1. /\ req[p].at = "review" /\ req[p].tenant \in Tenants /\ profile \in Profile
      /\ req[p].root \in Roots
    BY CallShapes DEF Review, IInv, TypeOK
<1>2. profile.conn \in Connections /\ profile.layout \in Layouts
    BY <1>1 DEF Profile
<1>3. CASE Return(p)
    BY <1>3, ReturnPreserves DEF Review
<1>4. CASE Walk(p, profile.conn, req[p].root, Path(Reports(profile.layout)), place)
  <2>1. Path(Reports(profile.layout)) \in Seq(Directories)
      BY <1>2, ReportsFolder, PathsOfFolders
  <2>2. place \in Places
      BY <1>1, <1>2 DEF Places
  <2>3. Owner[profile.conn] = req[p].tenant
      BY <1>1, SoundCalls DEF Sound
  <2>4. UNCHANGED <<database, nextcloud, confirmed>>
      BY DEF Review
  <2> HIDE DEF place
  <2>5. QED
      BY <1>1, <1>2, <1>4, <2>1, <2>2, <2>3, <2>4, WalkPreserves
<1>5. QED
    BY <1>3, <1>4 DEF Review

-----------------------------------------------------------------------------
(* ensure_folder and upload_file                                           *)

WritingCall == [at : {"probe", "create"}, tenant : Tenants, conn : Connections, root : Roots,
                todo : Seq(Directories), place : Places \union {NoPlace}]

LEMMA WritingCalls ==
    ASSUME NEW call \in WritingCall
    PROVE  /\ call \in Calls /\ Remembered(call) = {}
           /\ Owner[call.conn] = call.tenant /\ call.todo # <<>> => Sound(call)
           /\ Owner[call.conn] = call.tenant /\ call.at = "probe" => Sound(call)
    BY DEF WritingCall, Calls, Writing, Remembered, Sound

LEMMA ProbePreserves ==
    ASSUME IInv, NEW p \in Requests, Probe(p)
    PROVE  IInv'
<1> DEFINE old == req[p]
<1>1. old \in WritingCall /\ old.todo \in Seq(Directories) /\ old.todo # <<>>
    BY CallShapes DEF Probe, IInv, TypeOK, WritingCall
<1>2. Owner[old.conn] = old.tenant
    BY SoundCalls DEF Probe, Sound
<1>3. CASE /\ <<old.root, Head(old.todo)>> \in folders[old.conn]
           /\ Become(p, [old EXCEPT !.todo = Tail(@)])
  <2> DEFINE call == [old EXCEPT !.todo = Tail(@)]
  <2>1. Tail(old.todo) \in Seq(Directories)
      BY <1>1
  <2>2. call \in WritingCall /\ call.at = "probe" /\ Owner[call.conn] = call.tenant
      BY <1>1, <1>2, <2>1 DEF WritingCall, Probe
  <2>3. Advance(p, call)
      BY <1>3 DEF Advance, Probe, Become
  <2> HIDE DEF call
  <2>4. QED
      BY <2>2, <2>3, WritingCalls, AdvancePreserves
<1>4. CASE /\ <<old.root, Head(old.todo)>> \notin folders[old.conn]
           /\ Become(p, [old EXCEPT !.at = "create"])
  <2> DEFINE call == [old EXCEPT !.at = "create"]
  <2>1. /\ call \in WritingCall /\ call.at = "create" /\ Owner[call.conn] = call.tenant
        /\ call.todo = old.todo /\ call.root = old.root /\ call.conn = old.conn
      BY <1>1, <1>2 DEF WritingCall
  <2>2. Advance(p, call)
      BY <1>4 DEF Advance, Probe, Become
  <2>3. <<call.root, Head(call.todo)>> \notin folders[call.conn] /\ call.todo # <<>>
      BY <1>1, <1>4, <2>1
  <2> HIDE DEF call
  <2>4. QED
      BY <2>1, <2>2, <2>3, WritingCalls, AdvancePreserves
<1>5. QED
    BY <1>3, <1>4 DEF Probe

(* The table part of the invariant when the tables and answers stay.       *)
LEMMA TablesKept ==
    ASSUME IInv, NEW p \in Requests, NEW call \in Calls,
           req' = [req EXCEPT ![p] = call], Remembered(call) = {}, Sound(call),
           UNCHANGED <<database, reports, confirmed>>
    PROVE  /\ OneProfilePerConnection' /\ ProfileHasConnection' /\ SavedAnswerHolds'
           /\ OneAccountPerCall' /\ TenantsApart' /\ CallInv' /\ BoundForGood'
<1>1. OneProfilePerConnection' /\ ProfileHasConnection' /\ SavedAnswerHolds'
    BY DEF IInv, database, OneProfilePerConnection, ProfileHasConnection, SavedAnswerHolds
<1>2. OneAccountPerCall' /\ TenantsApart' /\ CallInv'
    BY CallsStaySound
<1>3. Bindings' \subseteq Bindings
    BY BindingsMoved DEF database, IInv, TypeOK
<1>4. BoundForGood'
    BY <1>3, BoundAgain DEF database, IInv
<1>5. QED
    BY <1>1, <1>2, <1>4

LEMMA CreateRefusedPreserves ==
    ASSUME IInv, NEW p \in Requests, Create(p),
           <<req[p].root, Head(req[p].todo)>> \in folders[req[p].conn]
    PROVE  IInv'
<1> DEFINE old == req[p]
           folder == <<old.root, Head(old.todo)>>
<1>1. /\ old \in WritingCall /\ old.at = "create" /\ old.conn \in Connections
      /\ old.todo \in Seq(Directories)
    BY CallShapes DEF Create, IInv, TypeOK, WritingCall
<1>2. old.todo # <<>>
    BY <1>1 DEF IInv, ConflictInv
<1>3. folder \in Roots \X Directories
    BY <1>1, <1>2 DEF WritingCall
<1>4. /\ conflicts' = [conflicts EXCEPT ![old.conn][folder] = @ + 1]
      /\ req' = [req EXCEPT ![p] = Idle] /\ UNCHANGED folders
      /\ UNCHANGED <<database, reports, confirmed>>
    BY DEF Create, Return
<1> HIDE DEF folder
<1>5. /\ \A c \in Connections, d \in Roots \X Directories :
            /\ conflicts[c][d] \in Nat
            /\ conflicts'[c][d] = IF c = old.conn /\ d = folder
                                  THEN conflicts[c][d] + 1 ELSE conflicts[c][d]
      /\ conflicts' \in [Connections -> [Roots \X Directories -> Nat]]
  <2> DEFINE row == [conflicts[old.conn] EXCEPT ![folder] = @ + 1]
  <2>1. /\ conflicts \in [Connections -> [Roots \X Directories -> Nat]]
        /\ conflicts' = [conflicts EXCEPT ![old.conn] = row]
      BY <1>4 DEF IInv, TypeOK
  <2>2. conflicts[old.conn] \in [Roots \X Directories -> Nat]
      BY <1>1, <2>1
  <2>3. /\ row \in [Roots \X Directories -> Nat]
        /\ \A d \in Roots \X Directories :
              row[d] = IF d = folder THEN conflicts[old.conn][d] + 1 ELSE conflicts[old.conn][d]
      BY <1>3, <2>2
  <2> HIDE DEF row
  <2>4. QED
      BY <1>1, <2>1, <2>3
<1>6. TypeOK'
  <2>1. req' \in [Requests -> Calls]
      BY <1>4, IdleIsSound DEF IInv, TypeOK
  <2>2. QED
      BY <1>4, <1>5, <2>1 DEF IInv, TypeOK, database
<1>7. /\ OneProfilePerConnection' /\ ProfileHasConnection' /\ SavedAnswerHolds'
      /\ OneAccountPerCall' /\ TenantsApart' /\ CallInv' /\ BoundForGood'
    BY <1>4, IdleIsSound, TablesKept
<1>8. ConflictInv'
  <2>1. \A q \in Requests : req'[q].at = "create" => req'[q].todo # <<>>
      BY <1>4, IdleIsSound, CallsStaySound
  <2>2. ASSUME NEW c \in Connections, NEW d \in Roots \X Directories
        PROVE  /\ d \notin folders'[c] => conflicts'[c][d] = 0
               /\ d \in folders'[c] =>
                     conflicts'[c][d] + Cardinality(Creating(c, d)') < Cardinality(Requests)
    <3>1. /\ d \notin folders[c] => conflicts[c][d] = 0
          /\ d \in folders[c] =>
                conflicts[c][d] + Cardinality(Creating(c, d)) < Cardinality(Requests)
        BY DEF IInv, ConflictInv
    <3>2. ~Creates(Idle, c, d) /\ req \in [Requests -> Calls]
        BY IdleIsSound DEF Creates, IInv, TypeOK
    <3>3. Creating(c, d)' = Creating(c, d) \ {p}
        BY <1>4, <3>2, IdleIsSound, CreatingMoved
    <3>4. Creating(c, d)' \subseteq Creating(c, d)
        BY <3>3
    <3>5. CASE c = old.conn /\ d = folder
      <4>1. p \in Creating(c, d)
          BY <1>1, <3>5 DEF Creating, folder
      <4>2. Cardinality(Creating(c, d)') = Cardinality(Creating(c, d)) - 1
        <5>1. IsFiniteSet(Creating(c, d))
            BY CreatingFinite
        <5>2. Cardinality(Creating(c, d) \ {p}) = Cardinality(Creating(c, d)) - 1
            BY <4>1, <5>1, FS_RemoveElement
        <5>3. QED
            BY <3>3, <5>2
      <4>3. d \in folders[c] /\ folders' = folders
          BY <1>4, <3>5 DEF folder
      <4>4. conflicts'[c][d] = conflicts[c][d] + 1 /\ conflicts[c][d] \in Nat
          BY <1>5, <3>5
      <4>5. QED
          BY <3>1, <4>2, <4>3, <4>4, CreatingFinite, RequestsCounted
    <3>6. CASE ~(c = old.conn /\ d = folder)
      <4>1. conflicts'[c][d] = conflicts[c][d] /\ conflicts[c][d] \in Nat /\ folders' = folders
          BY <1>4, <1>5, <3>6
      <4>2. QED
          BY <3>1, <3>4, <4>1, FewerCreating, RequestsCounted
    <3>7. QED
        BY <3>5, <3>6
  <2>3. QED
      BY <2>1, <2>2 DEF ConflictInv
<1>9. QED
    BY <1>6, <1>7, <1>8 DEF IInv

LEMMA CreateDonePreserves ==
    ASSUME IInv, NEW p \in Requests, Create(p),
           <<req[p].root, Head(req[p].todo)>> \notin folders[req[p].conn]
    PROVE  IInv'
<1> DEFINE old == req[p]
           folder == <<old.root, Head(old.todo)>>
           call == [old EXCEPT !.at = "probe", !.todo = Tail(@)]
<1>1. /\ old \in WritingCall /\ old.at = "create" /\ old.conn \in Connections
      /\ old.todo \in Seq(Directories)
    BY CallShapes DEF Create, IInv, TypeOK, WritingCall
<1>2. old.todo # <<>>
    BY <1>1 DEF IInv, ConflictInv
<1>3. folder \in Roots \X Directories
    BY <1>1, <1>2 DEF WritingCall
<1>4. Owner[old.conn] = old.tenant
    BY <1>1, SoundCalls DEF Sound
<1>5. Tail(old.todo) \in Seq(Directories)
    BY <1>1, <1>2
<1>6. call \in WritingCall /\ call.at = "probe" /\ Owner[call.conn] = call.tenant
    BY <1>1, <1>4, <1>5 DEF WritingCall
<1>7. call \in Calls /\ Sound(call) /\ Remembered(call) = {}
    BY <1>6, WritingCalls
<1>8. /\ folders' = [folders EXCEPT ![old.conn] = @ \union {folder}]
      /\ req' = [req EXCEPT ![p] = call] /\ UNCHANGED conflicts
      /\ UNCHANGED <<database, reports, confirmed>>
    BY DEF Create, Become
<1> HIDE DEF folder, call
<1>9. TypeOK'
  <2>1. req' \in [Requests -> Calls]
      BY <1>7, <1>8 DEF IInv, TypeOK
  <2>2. folders' \in [Connections -> SUBSET (Roots \X Directories)]
      BY <1>1, <1>3, <1>8 DEF IInv, TypeOK
  <2>3. QED
      BY <1>8, <2>1, <2>2 DEF IInv, TypeOK, database
<1>10. /\ OneProfilePerConnection' /\ ProfileHasConnection' /\ SavedAnswerHolds'
       /\ OneAccountPerCall' /\ TenantsApart' /\ CallInv' /\ BoundForGood'
    BY <1>7, <1>8, TablesKept
<1>11. ConflictInv'
  <2>1. \A q \in Requests : req'[q].at = "create" => req'[q].todo # <<>>
      BY <1>7, <1>8, CallsStaySound
  <2>2. ASSUME NEW c \in Connections, NEW d \in Roots \X Directories
        PROVE  /\ d \notin folders'[c] => conflicts'[c][d] = 0
               /\ d \in folders'[c] =>
                     conflicts'[c][d] + Cardinality(Creating(c, d)') < Cardinality(Requests)
    <3>1. /\ d \notin folders[c] => conflicts[c][d] = 0
          /\ d \in folders[c] =>
                conflicts[c][d] + Cardinality(Creating(c, d)) < Cardinality(Requests)
        BY DEF IInv, ConflictInv
    <3>2. ~Creates(call, c, d) /\ req \in [Requests -> Calls]
        BY <1>6 DEF Creates, IInv, TypeOK
    <3>3. Creating(c, d)' = Creating(c, d) \ {p}
        BY <1>7, <1>8, <3>2, CreatingMoved
    <3>4. Creating(c, d)' \subseteq Creating(c, d)
        BY <3>3
    <3>5. conflicts'[c][d] = conflicts[c][d] /\ conflicts[c][d] \in Nat
        BY <1>8 DEF IInv, TypeOK
    <3>6. CASE c = old.conn /\ d = folder
      <4>1. d \notin folders[c] /\ d \in folders'[c]
          BY <1>1, <1>8, <3>6 DEF folder, IInv, TypeOK
      <4>2. Creating(c, d)' \subseteq Requests \ {p}
          BY <3>3 DEF Creating
      <4>3. IsFiniteSet(Requests \ {p}) /\ Cardinality(Requests \ {p}) = Cardinality(Requests) - 1
          BY RequestsCounted, FS_RemoveElement
      <4>4. /\ Cardinality(Creating(c, d)') \in Nat
            /\ Cardinality(Creating(c, d)') <= Cardinality(Requests \ {p})
          BY <3>4, <4>2, <4>3, FewerCreating, FS_Subset
      <4>5. QED
          BY <3>1, <3>5, <4>1, <4>3, <4>4, RequestsCounted
    <3>7. CASE ~(c = old.conn /\ d = folder)
      <4>1. d \in folders'[c] <=> d \in folders[c]
          BY <1>1, <1>8, <3>7 DEF IInv, TypeOK
      <4>2. QED
          BY <3>1, <3>4, <3>5, <4>1, FewerCreating, RequestsCounted
    <3>8. QED
        BY <3>6, <3>7
  <2>3. QED
      BY <2>1, <2>2 DEF ConflictInv
<1>12. QED
    BY <1>9, <1>10, <1>11 DEF IInv

LEMMA CreatePreserves ==
    ASSUME IInv, NEW p \in Requests, Create(p)
    PROVE  IInv'
    BY CreateRefusedPreserves, CreateDonePreserves

LEMMA UploadPreserves ==
    ASSUME IInv, NEW p \in Requests, NEW answered \in BOOLEAN, Upload(p, answered)
    PROVE  IInv'
<1> DEFINE place == req[p].place
<1>1. place \in Places \union {NoPlace}
    BY CallShapes DEF Upload, IInv, TypeOK
<1>2. place \in Places /\ place \notin DOMAIN reports
    BY <1>1 DEF Upload, StoreReport
<1>3. /\ reports' = [r \in DOMAIN reports \union {place} |-> IF r = place THEN p ELSE reports[r]]
      /\ confirmed' = IF answered THEN confirmed \union {<<p, place>>} ELSE confirmed
      /\ req' = [req EXCEPT ![p] = Idle]
      /\ UNCHANGED <<database, folders, conflicts>>
    BY DEF Upload, StoreReport, Return
<1> HIDE DEF place
<1>4. /\ DOMAIN reports' = DOMAIN reports \union {place} /\ reports'[place] = p
      /\ \A r \in DOMAIN reports : reports'[r] = reports[r]
    BY <1>2, <1>3
<1>5. TypeOK'
  <2>1. req' \in [Requests -> Calls]
      BY <1>3, IdleIsSound DEF IInv, TypeOK
  <2>2. /\ DOMAIN reports' \subseteq Places
        /\ \A r \in DOMAIN reports' : reports'[r] \in Requests
      BY <1>2, <1>4 DEF IInv, TypeOK
  <2>3. confirmed' \subseteq Requests \X Places
      BY <1>2, <1>3 DEF IInv, TypeOK
  <2>4. QED
      BY <1>3, <2>1, <2>2, <2>3 DEF IInv, TypeOK, database
<1>6. SavedAnswerHolds'
  <2>1. \A answer \in confirmed : answer[2] \in DOMAIN reports /\ reports[answer[2]] = answer[1]
      BY DEF IInv, SavedAnswerHolds
  <2>2. confirmed' \subseteq confirmed \union {<<p, place>>}
      BY <1>3
  <2>3. QED
      BY <1>4, <2>1, <2>2 DEF SavedAnswerHolds
<1>7. OneProfilePerConnection' /\ ProfileHasConnection'
    BY <1>3 DEF IInv, database, OneProfilePerConnection, ProfileHasConnection
<1>8. OneAccountPerCall' /\ TenantsApart' /\ CallInv'
    BY <1>3, IdleIsSound, CallsStaySound
<1>9. BoundForGood'
  <2>1. Bindings' \subseteq Bindings
      BY <1>3, IdleIsSound, BindingsMoved DEF database, IInv, TypeOK
  <2>2. QED
      BY <1>3, <2>1, BoundAgain DEF database, IInv
<1>10. ConflictInv'
    BY <1>3, IdleIsSound, ConflictsMoved
<1>11. QED
    BY <1>5, <1>6, <1>7, <1>8, <1>9, <1>10 DEF IInv

-----------------------------------------------------------------------------
(* The connection service                                                  *)

(* Steps that move no call and leave Nextcloud alone. *)
LEMMA CallsKept ==
    ASSUME IInv, UNCHANGED <<minted, nextcloud, req, confirmed>>,
           \A id \in DOMAIN profiles' : id \in DOMAIN profiles /\ profiles'[id] = profiles[id]
    PROVE  /\ OneProfilePerConnection' /\ SavedAnswerHolds' /\ BoundForGood'
           /\ OneAccountPerCall' /\ TenantsApart' /\ CallInv' /\ ConflictInv'
<1>1. OneProfilePerConnection'
    BY DEF IInv, OneProfilePerConnection
<1>2. SavedAnswerHolds' /\ OneAccountPerCall' /\ TenantsApart' /\ CallInv'
    BY DEF IInv, nextcloud, SavedAnswerHolds, OneAccountPerCall, TenantsApart, CallInv
<1>3. ConflictInv'
  <2>1. \A c, d : Creating(c, d)' = Creating(c, d)
      BY DEF Creating
  <2>2. QED
      BY <2>1 DEF IInv, nextcloud, ConflictInv
<1>4. BoundForGood'
  <2>1. \A id \in DOMAIN profiles' : Binding(id, profiles'[id]) \in Bindings
      BY TabledBound
  <2>2. /\ Bindings' = {Binding(id, profiles'[id]) : id \in DOMAIN profiles'}
                          \union UNION {Remembered(req[p]) : p \in Requests}
        /\ UNION {Remembered(req[p]) : p \in Requests} \subseteq Bindings
      BY DEF Bindings, Binding, Remembered
  <2>3. Bindings' \subseteq Bindings
      BY <2>1, <2>2
  <2>4. QED
      BY <2>3, BoundAgain DEF IInv
<1>5. QED
    BY <1>1, <1>2, <1>3, <1>4

LEMMA DeleteSecretPreserves ==
    ASSUME IInv, NEW c \in Connections, DeleteSecret(c)
    PROVE  IInv'
<1>1. UNCHANGED <<profiles, minted, nextcloud, req, confirmed>>
    BY DEF DeleteSecret
<1>2. /\ conns' \in [Connections -> Connection]
      /\ \A k \in Connections : conns'[k].row = conns[k].row
    BY DEF DeleteSecret, IInv, TypeOK, Connection
<1>3. TypeOK'
    BY <1>1, <1>2 DEF IInv, TypeOK, nextcloud
<1>4. ProfileHasConnection'
    BY <1>1, <1>2 DEF IInv, TypeOK, ProfileHasConnection, Profile
<1>5. QED
    BY <1>1, <1>3, <1>4, CallsKept DEF IInv

LEMMA WriteRootPreserves ==
    ASSUME IInv, NEW c \in Connections, NEW root \in Roots, WriteRoot(c, root)
    PROVE  IInv'
<1>1. UNCHANGED <<profiles, minted, nextcloud, req, confirmed>>
    BY DEF WriteRoot
<1>2. /\ conns' \in [Connections -> Connection]
      /\ \A k \in Connections : conns[k].row => conns'[k].row
    BY DEF WriteRoot, IInv, TypeOK, Connection
<1>3. TypeOK'
    BY <1>1, <1>2 DEF IInv, TypeOK, nextcloud
<1>4. ProfileHasConnection'
    BY <1>1, <1>2 DEF IInv, TypeOK, ProfileHasConnection, Profile
<1>5. QED
    BY <1>1, <1>3, <1>4, CallsKept DEF IInv

LEMMA DeleteConnectionPreserves ==
    ASSUME IInv, NEW c \in Connections, DeleteConnection(c)
    PROVE  IInv'
<1>1. UNCHANGED <<minted, nextcloud, req, confirmed>>
    BY DEF DeleteConnection
<1>2. /\ conns' \in [Connections -> Connection]
      /\ \A k \in Connections : k # c => conns'[k] = conns[k]
    BY DEF DeleteConnection, IInv, TypeOK, Connection
<1>3. \A id \in DOMAIN profiles' :
          id \in DOMAIN profiles /\ profiles'[id] = profiles[id] /\ profiles[id].conn # c
    BY DEF DeleteConnection
<1>4. TypeOK'
    BY <1>1, <1>2, <1>3 DEF IInv, TypeOK, nextcloud
<1>5. ProfileHasConnection'
    BY <1>2, <1>3 DEF IInv, TypeOK, ProfileHasConnection, Profile
<1>6. QED
    BY <1>1, <1>3, <1>4, <1>5, CallsKept DEF IInv

-----------------------------------------------------------------------------
(* The invariant                                                           *)

LEMMA InitInv == Init => IInv
<1> SUFFICES ASSUME Init PROVE IInv
    OBVIOUS
<1> USE DEF Init
<1>1. req \in [Requests -> Calls] /\ \A p \in Requests : req[p] = Idle
    BY IdleIsSound
<1>2. TypeOK
  <2>1. [row : {TRUE}, secret : {TRUE}, root : Roots] \subseteq Connection
      BY DEF Connection
  <2>2. conns \in [Connections -> Connection]
      BY <2>1
  <2>3. DOMAIN profiles = {} /\ DOMAIN reports = {}
      OBVIOUS
  <2>4. /\ folders \in [Connections -> SUBSET (Roots \X Directories)]
        /\ conflicts \in [Connections -> [Roots \X Directories -> Nat]]
      OBVIOUS
  <2>5. QED
      BY <1>1, <2>2, <2>3, <2>4 DEF TypeOK
<1>3. /\ OneProfilePerConnection /\ ProfileHasConnection /\ SavedAnswerHolds
    BY DEF OneProfilePerConnection, ProfileHasConnection, SavedAnswerHolds
<1>4. OneAccountPerCall /\ TenantsApart /\ CallInv
    BY <1>1, IdleIsSound, CallsSound
<1>5. BoundForGood
  <2>1. Bindings = {}
      BY <1>1, IdleIsSound DEF Bindings
  <2>2. QED
      BY <2>1 DEF BoundForGood
<1>6. ConflictInv
  <2>1. \A p \in Requests : req[p].at # "create"
      BY <1>1, IdleIsSound
  <2>2. ASSUME NEW c \in Connections, NEW d \in Roots \X Directories
        PROVE  d \notin folders[c] /\ conflicts[c][d] = 0
      OBVIOUS
  <2>3. QED
      BY <2>1, <2>2 DEF ConflictInv
<1>7. QED
    BY <1>2, <1>3, <1>4, <1>5, <1>6 DEF IInv

LEMMA NextInv == IInv /\ [Next]_vars => IInv'
<1> SUFFICES ASSUME IInv, [Next]_vars PROVE IInv'
    OBVIOUS
<1>1. ASSUME NEW p \in Requests, ConfigureNext(p) PROVE IInv'
    BY <1>1, ConfigurePreserves, LookupFoundPreserves, LookupNonePreserves,
       CheckProfilePreserves, WriteProfilePreserves DEF ConfigureNext
<1>2. ASSUME NEW p \in Requests, WorkspaceNext(p) PROVE IInv'
  <2>1. CASE Prepared(p)
      BY <2>1, ReturnPreserves DEF Prepared
  <2>2. CASE (\E t \in Tenants, id \in ProfileIds : Prepare(p, t, id) \/ Save(p, t, id))
      BY <2>2, PreparePreserves, SavePreserves
  <2>3. CASE PrepareSettings(p) \/ SaveSettings(p) \/ ProfileAgain(p) \/ SettingsAgain(p)
      BY <2>3, PrepareSettingsPreserves, SaveSettingsPreserves, ProfileAgainPreserves,
         SettingsAgainPreserves
  <2>4. CASE Probe(p) \/ Create(p)
      BY <2>4, ProbePreserves, CreatePreserves
  <2>5. CASE (\E h \in Hashes : Review(p, h)) \/ (\E answered \in BOOLEAN : Upload(p, answered))
      BY <2>5, ReviewPreserves, UploadPreserves
  <2>6. QED
      BY <1>2, <2>1, <2>2, <2>3, <2>4, <2>5 DEF WorkspaceNext
<1>3. ASSUME NEW p \in Requests, Raise(p) PROVE IInv'
    BY <1>3, ReturnPreserves DEF Raise
<1>4. CASE ConnectionNext
    BY <1>4, DeleteSecretPreserves, DeleteConnectionPreserves, WriteRootPreserves
       DEF ConnectionNext
<1>5. CASE UNCHANGED vars
  <2>1. UNCHANGED <<conns, profiles, minted, folders, reports, req, confirmed, conflicts>>
      BY <1>5 DEF vars
  <2>2. TypeOK' /\ ProfileHasConnection'
      BY <2>1 DEF IInv, TypeOK, ProfileHasConnection
  <2>3. QED
      BY <2>1, <2>2, CallsKept DEF IInv, nextcloud
<1>6. QED
    BY <1>1, <1>2, <1>3, <1>4, <1>5 DEF Next

(* The inductive invariant holds throughout, for any tenants, connections, *)
(* owners, layouts, threads and bounds.                                    *)
THEOREM InvariantHolds == Spec => []IInv
    BY InitInv, NextInv, PTL DEF Spec

(* Tables, folders and calls keep their types. *)
THEOREM TypeCorrect == Spec => []TypeOK
<1>1. IInv => TypeOK
    BY DEF IInv
<1>2. QED
    BY <1>1, InvariantHolds, PTL

(* Racing configure calls never leave a connection with two profiles. *)
THEOREM ProfilesUnique == Spec => []OneProfilePerConnection
<1>1. IInv => OneProfilePerConnection
    BY DEF IInv
<1>2. QED
    BY <1>1, InvariantHolds, PTL

(* No profile is left behind by a disconnect or belongs to another tenant. *)
THEOREM ProfilesConnected == Spec => []ProfileHasConnection
<1>1. IInv => ProfileHasConnection
    BY DEF IInv
<1>2. QED
    BY <1>1, InvariantHolds, PTL

(* A save acts in one account although it looks its profile up twice. *)
THEOREM SavesStayInOneAccount == Spec => []OneAccountPerCall
<1>1. IInv => OneAccountPerCall
    BY DEF IInv
<1>2. QED
    BY <1>1, InvariantHolds, PTL

(* A call touches the connections of its own tenant only. *)
THEOREM TenantsStayApart == Spec => []TenantsApart
<1>1. IInv => TenantsApart
    BY DEF IInv
<1>2. QED
    BY <1>1, InvariantHolds, PTL

(* The report a call says it saved is the one that is there. *)
THEOREM SavedReportsHold == Spec => []SavedAnswerHolds
<1>1. IInv => SavedAnswerHolds
    BY DEF IInv
<1>2. QED
    BY <1>1, InvariantHolds, PTL

(* Fewer calls than there are threads ever fail on creating a folder that  *)
(* somebody else has just created.                                         *)
THEOREM FolderConflictsBounded == Spec => []ConflictsBounded
<1>1. IInv => ConflictsBounded
  <2> SUFFICES ASSUME IInv,
                      NEW c \in Connections, NEW d \in Roots \X Directories
               PROVE  conflicts[c][d] < Cardinality(Requests)
      BY DEF ConflictsBounded
  <2>1. /\ d \notin folders[c] => conflicts[c][d] = 0
        /\ d \in folders[c] =>
              conflicts[c][d] + Cardinality(Creating(c, d)) < Cardinality(Requests)
      BY DEF IInv, ConflictInv
  <2>2. Cardinality(Requests) \in Nat /\ Cardinality(Requests) # 0
      BY RequestsCounted, FS_EmptySet, HouseholdAssumption DEF HouseholdAssumption
  <2>3. Cardinality(Creating(c, d)) \in Nat
      BY CreatingFinite
  <2>4. conflicts[c][d] \in Nat
      BY DEF IInv, TypeOK
  <2>5. QED
      BY <2>1, <2>2, <2>3, <2>4
<1>2. QED
    BY <1>1, InvariantHolds, PTL
=============================================================================
