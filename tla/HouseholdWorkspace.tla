-------------------------- MODULE HouseholdWorkspace --------------------------
(***************************************************************************)
(* HouseholdService (household/service.py) over the SQL profile store of   *)
(* persistence.py and the WebDAV client of providers/webdav.py: several    *)
(* calls at once, in worker threads of the server, while the connections   *)
(* they go through are changed or disconnected.                            *)
(*                                                                         *)
(* One step is one transaction or one remote call.  put_profile is two:    *)
(* its selects, then the flush and commit in which PostgreSQL enforces the *)
(* constraints of 0002_household_profiles.sql.  A profile is its tenant,   *)
(* its connection and its layout, the three folders <<inbox, archive,      *)
(* reports>>; a folder is the sequence of its path segments.  The calls    *)
(* that change nothing (list_profiles, list_invoice_candidates and a bare  *)
(* review_invoice) are left out.  The names of accounts and roots are      *)
(* taken for ones that quote() leaves as they are (see PathBoundary).      *)
(***************************************************************************)
EXTENDS Naturals, Sequences, FiniteSets

CONSTANTS
    Tenants, Connections,
    Owner,              \* Owner[c]: the tenant that linked c
    Roots,              \* root paths a connection may have
    Names, Layouts,     \* segment names; validated folder triples
    Hashes,             \* SHA-256 of an invoice
    ProfileIds,         \* random ids that may be minted: a bound
    Requests,           \* worker threads
    NoPlace             \* the report of a call that stores none

(* The ancestors of a folder and itself, from the top. *)
Path(folder) == [i \in DOMAIN folder |-> SubSeq(folder, 1, i)]
Folders == UNION {{l[i] : i \in DOMAIN l} : l \in Layouts}
Directories == UNION {{Path(f)[i] : i \in DOMAIN f} : f \in Folders}
Reports(layout) == layout[3]

(* Where a report is: connection, root, review_report_path, hash. *)
Places == {<<c, root, Reports(l), h>> :
              c \in Connections, root \in Roots, l \in Layouts, h \in Hashes}

ASSUME HouseholdAssumption ==
    /\ Owner \in [Connections -> Tenants]
    /\ Roots # {}
    /\ \A l \in Layouts :
          /\ l \in Seq(Seq(Names)) /\ Len(l) = 3
          /\ \A i \in 1..3 : l[i] # <<>>
          /\ l[1] # l[2] /\ l[1] # l[3] /\ l[2] # l[3]
    /\ NoPlace \notin Places
    /\ IsFiniteSet(Requests) /\ Requests # {}

VARIABLES
    conns,          \* conns[c]: is there a row, a credential; the root path
    profiles,       \* household_profiles by profile_id
    minted,         \* profile ids handed out by token_urlsafe
    folders,        \* folders[c]: the <<root, folder>> there are at Nextcloud
    reports,        \* reports[place]: the thread whose review is stored there
    req,            \* req[p]: the call thread p is executing
    confirmed,      \* <<p, place>>: p answered saved = True (ghost)
    conflicts       \* conflicts[c]: MKCOLs refused, by <<root, folder>> (ghost)

vars == <<conns, profiles, minted, folders, reports, req, confirmed, conflicts>>
database == <<conns, profiles, minted>>
nextcloud == <<folders, reports, conflicts>>

Connection == [row : BOOLEAN, secret : BOOLEAN, root : Roots]
Profile == [tenant : Tenants, conn : Connections, layout : Layouts]

(* The locals of a call, by the step it is about to do. *)
Configuring ==
    [at : {"lookup"}, record : Profile]
    \union [at : {"check"}, id : ProfileIds, record : Profile]
    \union [at : {"write"}, id : ProfileIds, record : Profile, exists : BOOLEAN]
Preparing ==
    [at : {"prepareSettings"}, tenant : Tenants, profile : Profile]
Saving ==
    [at : {"saveSettings"}, tenant : Tenants, id : ProfileIds, profile : Profile]
    \union [at : {"profileAgain"}, tenant : Tenants, id : ProfileIds, profile : Profile,
             root : Roots]
    \union [at : {"settingsAgain"}, tenant : Tenants, profile : Profile, root : Roots,
             again : Profile]
    \union [at : {"review"}, tenant : Tenants, profile : Profile, root : Roots,
             again : Profile, rootAgain : Roots]
Writing ==
    [at : {"probe", "create"}, tenant : Tenants, conn : Connections, root : Roots,
     todo : Seq(Directories), place : Places \union {NoPlace}]
Idle == [at |-> "idle"]
Calls == Configuring \union Preparing \union Saving \union Writing \union {Idle}

TypeOK ==
    /\ conns \in [Connections -> Connection]
    /\ minted \subseteq ProfileIds
    /\ DOMAIN profiles \subseteq minted
    /\ \A id \in DOMAIN profiles : profiles[id] \in Profile
    /\ folders \in [Connections -> SUBSET (Roots \X Directories)]
    /\ DOMAIN reports \subseteq Places
    /\ \A place \in DOMAIN reports : reports[place] \in Requests
    /\ req \in [Requests -> Calls]
    /\ confirmed \subseteq Requests \X Places
    /\ conflicts \in [Connections -> [Roots \X Directories -> Nat]]

Init ==
    /\ conns \in [Connections -> [row : {TRUE}, secret : {TRUE}, root : Roots]]     \* linked
    /\ profiles = <<>>
    /\ minted = {}
    /\ folders = [c \in Connections |-> {}]
    /\ reports = <<>>
    /\ req = [p \in Requests |-> Idle]
    /\ confirmed = {}
    /\ conflicts = [c \in Connections |-> [d \in Roots \X Directories |-> 0]]

-----------------------------------------------------------------------------
(* Helpers.  An operator commented "faulty" is never used by Next: it is a *)
(* plausible bug of the definition that follows it.                        *)

Return(p) == req' = [req EXCEPT ![p] = Idle]
Become(p, call) == req' = [req EXCEPT ![p] = call]

(* Faulty: a connection of another tenant is found. *)
UsableByAnyone(c, t) == conns[c].row /\ conns[c].secret

(* resolve_settings returns: t owns the row and the credential is there. *)
Usable(c, t) == conns[c].row /\ conns[c].secret /\ Owner[c] = t

(* get_profile *)
Found(id, t) == id \in DOMAIN profiles /\ profiles[id].tenant = t

(* Faulty: any profile of the tenant. *)
AnyOfTenant(c, t) == {id \in DOMAIN profiles : profiles[id].tenant = t}

(* get_profile_for_connection *)
ForConnection(c, t) ==
    {id \in DOMAIN profiles : profiles[id].tenant = t /\ profiles[id].conn = c}

Stored(id, record) ==
    [i \in DOMAIN profiles \union {id} |-> IF i = id THEN record ELSE profiles[i]]

(* Any call may end here: a validation refuses, a row is not found, a      *)
(* credential is missing, a constraint, the database or Nextcloud raises,  *)
(* or the server dies.  No handler of the service undoes anything.         *)
Raise(p) ==
    /\ req[p].at # "idle"
    /\ Return(p)
    /\ UNCHANGED <<database, nextcloud, confirmed>>

-----------------------------------------------------------------------------
(* configure_profile                                                       *)

(* resolve_settings only has to succeed. *)
Configure(p, t, c, layout) ==
    /\ req[p].at = "idle"
    /\ Usable(c, t)
    /\ Become(p, [at |-> "lookup", record |-> [tenant |-> t, conn |-> c, layout |-> layout]])
    /\ UNCHANGED <<database, nextcloud, confirmed>>

(* An unchanged profile is answered; a changed one keeps its id. *)
LookupFound(p, id) ==
    /\ req[p].at = "lookup"
    /\ id \in ForConnection(req[p].record.conn, req[p].record.tenant)
    /\ IF profiles[id].layout = req[p].record.layout
       THEN Return(p)
       ELSE Become(p, [at |-> "check", id |-> id, record |-> req[p].record])
    /\ UNCHANGED <<database, nextcloud, confirmed>>

LookupNone(p, id) ==
    /\ req[p].at = "lookup"
    /\ ForConnection(req[p].record.conn, req[p].record.tenant) = {}
    /\ id \notin minted
    /\ minted' = minted \union {id}
    /\ Become(p, [at |-> "check", id |-> id, record |-> req[p].record])
    /\ UNCHANGED <<conns, profiles, nextcloud, confirmed>>

(* The selects of put_profile. *)
CheckProfile(p) ==
    LET id == req[p].id
        record == req[p].record
    IN  /\ req[p].at = "check"
        /\ conns[record.conn].row /\ Owner[record.conn] = record.tenant
        /\ id \in DOMAIN profiles => profiles[id].tenant = record.tenant
        /\ ForConnection(record.conn, record.tenant) \subseteq {id}
        /\ Become(p, [at |-> "write", id |-> id, record |-> record,
                      exists |-> id \in DOMAIN profiles])
        /\ UNCHANGED <<database, nextcloud, confirmed>>

(* Faulty: no unique index. *)
WithoutIndex(id, record) == conns[record.conn].row /\ Owner[record.conn] = record.tenant

(* Faulty: no foreign key. *)
WithoutForeignKey(id, record) == ForConnection(record.conn, record.tenant) \subseteq {id}

(* fk_household_profile_owned_connection, uq_household_profile_connection. *)
Allowed(id, record) ==
    /\ conns[record.conn].row /\ Owner[record.conn] = record.tenant
    /\ ForConnection(record.conn, record.tenant) \subseteq {id}

(* Its flush and commit: an UPDATE of the row found, which has to be there *)
(* still, or an INSERT.                                                    *)
WriteProfile(p) ==
    LET id == req[p].id IN
    /\ req[p].at = "write"
    /\ req[p].exists <=> id \in DOMAIN profiles
    /\ Allowed(id, req[p].record)
    /\ profiles' = Stored(id, req[p].record)
    /\ Return(p)
    /\ UNCHANGED <<conns, minted, nextcloud, confirmed>>

-----------------------------------------------------------------------------
(* prepare_workspace and save_invoice_review up to the first write         *)

Prepare(p, t, id) ==
    /\ req[p].at = "idle"
    /\ Found(id, t)
    /\ Become(p, [at |-> "prepareSettings", tenant |-> t, profile |-> profiles[id]])
    /\ UNCHANGED <<database, nextcloud, confirmed>>

(* Ensure these folders, then store a report at place. *)
Walk(p, conn, root, todo, place) ==
    Become(p, [at |-> "probe", tenant |-> req[p].tenant, conn |-> conn, root |-> root,
               todo |-> todo, place |-> place])

PrepareSettings(p) ==
    LET profile == req[p].profile IN
    /\ req[p].at = "prepareSettings"
    /\ Usable(profile.conn, req[p].tenant)
    /\ Walk(p, profile.conn, conns[profile.conn].root,
            Path(profile.layout[1]) \o Path(profile.layout[2]) \o Path(profile.layout[3]), NoPlace)
    /\ UNCHANGED <<database, nextcloud, confirmed>>

Save(p, t, id) ==
    /\ req[p].at = "idle"
    /\ Found(id, t)
    /\ Become(p, [at |-> "saveSettings", tenant |-> t, id |-> id, profile |-> profiles[id]])
    /\ UNCHANGED <<database, nextcloud, confirmed>>

SaveSettings(p) ==
    /\ req[p].at = "saveSettings"
    /\ Usable(req[p].profile.conn, req[p].tenant)
    /\ Become(p, [at |-> "profileAgain", tenant |-> req[p].tenant, id |-> req[p].id,
                  profile |-> req[p].profile, root |-> conns[req[p].profile.conn].root])
    /\ UNCHANGED <<database, nextcloud, confirmed>>

(* review_invoice resolves the profile and the settings once more. *)
ProfileAgain(p) ==
    /\ req[p].at = "profileAgain"
    /\ Found(req[p].id, req[p].tenant)
    /\ Become(p, [at |-> "settingsAgain", tenant |-> req[p].tenant, profile |-> req[p].profile,
                  root |-> req[p].root, again |-> profiles[req[p].id]])
    /\ UNCHANGED <<database, nextcloud, confirmed>>

SettingsAgain(p) ==
    /\ req[p].at = "settingsAgain"
    /\ Usable(req[p].again.conn, req[p].tenant)
    /\ Become(p, [at |-> "review", tenant |-> req[p].tenant, profile |-> req[p].profile,
                  root |-> req[p].root, again |-> req[p].again,
                  rootAgain |-> conns[req[p].again.conn].root])
    /\ UNCHANGED <<database, nextcloud, confirmed>>

(* The invoice has the hash h.  exists() looks where the second profile    *)
(* keeps reports, the report goes where the first one does.                *)
Review(p, h) ==
    LET profile == req[p].profile
        again == req[p].again
    IN  /\ req[p].at = "review"
        /\ IF <<again.conn, req[p].rootAgain, Reports(again.layout), h>> \in DOMAIN reports
           THEN Return(p)
           ELSE Walk(p, profile.conn, req[p].root, Path(Reports(profile.layout)),
                     <<profile.conn, req[p].root, Reports(profile.layout), h>>)
        /\ UNCHANGED <<database, nextcloud, confirmed>>

-----------------------------------------------------------------------------
(* ensure_folder and upload_file                                           *)

(* Faulty: MKCOL is sent without looking. *)
ProbeBlindly(p) ==
    /\ req[p].at = "probe" /\ req[p].todo # <<>>
    /\ Become(p, [req[p] EXCEPT !.at = "create"])
    /\ UNCHANGED <<database, nextcloud, confirmed>>

(* PROPFIND of the next segment. *)
Probe(p) ==
    /\ req[p].at = "probe" /\ req[p].todo # <<>>
    /\ IF <<req[p].root, Head(req[p].todo)>> \in folders[req[p].conn]
       THEN Become(p, [req[p] EXCEPT !.todo = Tail(@)])
       ELSE Become(p, [req[p] EXCEPT !.at = "create"])
    /\ UNCHANGED <<database, nextcloud, confirmed>>

(* MKCOL: 201, or 405 when somebody else was faster and the call raises. *)
Create(p) ==
    LET c == req[p].conn
        folder == <<req[p].root, Head(req[p].todo)>>
    IN  /\ req[p].at = "create"
        /\ IF folder \in folders[c]
           THEN /\ conflicts' = [conflicts EXCEPT ![c][folder] = @ + 1]
                /\ Return(p)
                /\ UNCHANGED folders
           ELSE /\ folders' = [folders EXCEPT ![c] = @ \union {folder}]
                /\ Become(p, [req[p] EXCEPT !.at = "probe", !.todo = Tail(@)])
                /\ UNCHANGED conflicts
        /\ UNCHANGED <<database, reports, confirmed>>

Prepared(p) ==
    /\ req[p].at = "probe" /\ req[p].todo = <<>> /\ req[p].place = NoPlace
    /\ Return(p)
    /\ UNCHANGED <<database, nextcloud, confirmed>>

(* Nextcloud stores the review and the call answers saved, or the answer   *)
(* or the stat after it is lost and the call raises.                       *)
StoreReport(p, answered) ==
    LET place == req[p].place IN
    /\ req[p].at = "probe" /\ req[p].todo = <<>> /\ place # NoPlace
    /\ reports' = [r \in DOMAIN reports \union {place} |-> IF r = place THEN p ELSE reports[r]]
    /\ confirmed' = IF answered THEN confirmed \union {<<p, place>>} ELSE confirmed
    /\ Return(p)
    /\ UNCHANGED <<database, folders, conflicts>>

(* Faulty: PUT without If-None-Match. *)
UploadOver(p, answered) == StoreReport(p, answered)

(* PUT with If-None-Match: *; on a report there is the call raises. *)
Upload(p, answered) ==
    /\ req[p].at = "probe"
    /\ req[p].place \notin DOMAIN reports
    /\ StoreReport(p, answered)

-----------------------------------------------------------------------------
(* The connection service meanwhile: see ConnectionLifecycle               *)

DeleteSecret(c) ==
    /\ conns[c].secret
    /\ conns' = [conns EXCEPT ![c].secret = FALSE]
    /\ UNCHANGED <<profiles, minted, nextcloud, req, confirmed>>

(* ON DELETE CASCADE *)
DeleteConnection(c) ==
    /\ conns[c].row /\ ~conns[c].secret
    /\ conns' = [conns EXCEPT ![c].row = FALSE]
    /\ profiles' = [id \in {i \in DOMAIN profiles : profiles[i].conn # c} |-> profiles[id]]
    /\ UNCHANGED <<minted, nextcloud, req, confirmed>>

(* update_root_path upserts the row, which may have been deleted since it  *)
(* read it.                                                                *)
WriteRoot(c, root) ==
    /\ conns' = [conns EXCEPT ![c].row = TRUE, ![c].root = root]
    /\ UNCHANGED <<profiles, minted, nextcloud, req, confirmed>>

-----------------------------------------------------------------------------
ConfigureNext(p) ==
    \/ \E t \in Tenants, c \in Connections, layout \in Layouts : Configure(p, t, c, layout)
    \/ \E id \in ProfileIds : LookupFound(p, id)
    \/ \E id \in ProfileIds : LookupNone(p, id)
    \/ CheckProfile(p)
    \/ WriteProfile(p)

WorkspaceNext(p) ==
    \/ \E t \in Tenants, id \in ProfileIds : Prepare(p, t, id)
    \/ \E t \in Tenants, id \in ProfileIds : Save(p, t, id)
    \/ PrepareSettings(p)
    \/ SaveSettings(p) \/ ProfileAgain(p) \/ SettingsAgain(p)
    \/ \E h \in Hashes : Review(p, h)
    \/ Probe(p) \/ Create(p) \/ Prepared(p)
    \/ \E answered \in BOOLEAN : Upload(p, answered)

ConnectionNext ==
    \E c \in Connections :
        \/ DeleteSecret(c)
        \/ DeleteConnection(c)
        \/ \E root \in Roots : WriteRoot(c, root)

Next ==
    \/ \E p \in Requests : ConfigureNext(p) \/ WorkspaceNext(p) \/ Raise(p)
    \/ ConnectionNext

Spec == Init /\ [][Next]_vars

-----------------------------------------------------------------------------
(* Properties                                                              *)

(* However configure calls race, a connection has at most one profile: the *)
(* lookup, the selects and the insert are three moments                    *)
(* (household/service.py:90, persistence.py:427, :118).                    *)
OneProfilePerConnection ==
    \A i, j \in DOMAIN profiles : profiles[i].conn = profiles[j].conn => i = j

(* No profile outlives its connection or belongs to another tenant, also   *)
(* when a configure call is still on its way while the connection is       *)
(* disconnected (persistence.py:124-131).                                  *)
ProfileHasConnection ==
    \A id \in DOMAIN profiles :
        conns[profiles[id].conn].row /\ profiles[id].tenant = Owner[profiles[id].conn]

(* A save reads its profile twice (household/service.py:221-226), and the  *)
(* profile may be changed, deleted and made again between the two.  It     *)
(* still reads the invoice and writes the report in one account.           *)
OneAccountPerCall ==
    \A p \in Requests :
        req[p].at \in {"settingsAgain", "review"} => req[p].profile.conn = req[p].again.conn

(* A call touches the connections of its own tenant only, whatever was     *)
(* disconnected and reconfigured between its lookups                       *)
(* (household/service.py:251-272).                                         *)
TenantsApart ==
    \A p \in Requests :
        /\ req[p].at \in {"lookup", "check", "write"} =>
              Owner[req[p].record.conn] = req[p].record.tenant
        /\ req[p].at \in {"profileAgain", "settingsAgain", "review"} =>
              Owner[req[p].profile.conn] = req[p].tenant
        /\ req[p].at \in {"probe", "create"} => Owner[req[p].conn] = req[p].tenant

(* A call that answered saved = True stored the report that is there: at   *)
(* most one of the saves of a file hash that run at once says so, and no   *)
(* later one replaces its report (household/service.py:241-249,            *)
(* providers/webdav.py:184).                                               *)
SavedAnswerHolds ==
    \A answer \in confirmed :
        answer[2] \in DOMAIN reports /\ reports[answer[2]] = answer[1]

(* ensure_folder looks before it creates, so calls that create the same    *)
(* folder at once fail at most once each on it, and a call made after that *)
(* does not (providers/webdav.py:138-147).                                 *)
ConflictsBounded ==
    \A c \in Connections : \A d \in Roots \X Directories :
        conflicts[c][d] < Cardinality(Requests)

-----------------------------------------------------------------------------
(* The inductive invariant behind these properties                         *)

Binding(id, profile) == [id |-> id, tenant |-> profile.tenant, conn |-> profile.conn]

(* Which connection a profile id stands for, in the table and in the calls *)
(* that remember it.                                                       *)
Remembered(call) ==
    IF call.at \in {"check", "write"} THEN {Binding(call.id, call.record)}
    ELSE IF call.at \in {"saveSettings", "profileAgain"} THEN {Binding(call.id, call.profile)}
    ELSE {}
Bindings ==
    {Binding(id, profiles[id]) : id \in DOMAIN profiles}
    \union UNION {Remembered(req[p]) : p \in Requests}

(* An id stands for one connection for good, also when its row is deleted  *)
(* and inserted again.                                                     *)
BoundForGood ==
    /\ \A b \in Bindings : b.id \in minted /\ Owner[b.conn] = b.tenant
    /\ \A a, b \in Bindings : a.id = b.id => a = b

(* What the locals of a call know of its tenant. *)
CallInv ==
    \A p \in Requests :
        /\ req[p].at \in {"lookup", "check", "write"} =>
              Owner[req[p].record.conn] = req[p].record.tenant
        /\ req[p].at \in {"prepareSettings", "saveSettings", "profileAgain",
                          "settingsAgain", "review"} =>
              /\ req[p].profile.tenant = req[p].tenant
              /\ Owner[req[p].profile.conn] = req[p].tenant

(* The calls about to create d.  When it is there they will be refused,    *)
(* and the one that created it is not among them.                          *)
Creating(c, d) ==
    {p \in Requests : /\ req[p].at = "create" /\ req[p].conn = c
                      /\ <<req[p].root, Head(req[p].todo)>> = d}
ConflictInv ==
    /\ \A p \in Requests : req[p].at = "create" => req[p].todo # <<>>
    /\ \A c \in Connections : \A d \in Roots \X Directories :
          /\ d \notin folders[c] => conflicts[c][d] = 0
          /\ d \in folders[c] =>
                conflicts[c][d] + Cardinality(Creating(c, d)) < Cardinality(Requests)

IInv ==
    /\ TypeOK /\ OneProfilePerConnection /\ ProfileHasConnection
    /\ OneAccountPerCall /\ TenantsApart /\ SavedAnswerHolds
    /\ BoundForGood /\ CallInv /\ ConflictInv
=============================================================================
