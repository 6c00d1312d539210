----------------------------- MODULE Migrations -----------------------------
(***************************************************************************)
(* The schema of the hosted database: migration.py applies the packaged    *)
(* scripts an operator has asked for, schema.py checks the version, and    *)
(* the bridge starts and answers /health/ready only when it is the one it  *)
(* was built for.  Services of different releases run at the same time.    *)
(*                                                                         *)
(* A script is one transaction: BEGIN, the tables, the row with its        *)
(* number, COMMIT.  It fails when its tables are there already.  Any       *)
(* request to the database may fail, a commit may go unanswered.           *)
(***************************************************************************)
EXTENDS Integers, FiniteSets

CONSTANTS
  Migrators,      \* migrate services, each run again as often as one likes
  Bridges,        \* bridge services
  Last,           \* the latest schema version of any release
  Release,        \* Release[p]: EXPECTED_SCHEMA_VERSION of the package of p
  Alters,         \* Alters[v]: versions whose tables script v changes
  MaxFaults       \* failed requests, a bound on the model

Versions == 1..Last

ASSUME MigrationsAssumption ==
  /\ Last \in Nat /\ MaxFaults \in Nat
  /\ Release \in [Migrators \union Bridges -> Versions]
  /\ Alters \in [Versions -> SUBSET Versions]

VARIABLES built,     \* versions whose tables and constraints exist
          recorded,  \* rows of bridge_schema_migrations
          migrator,  \* migrator[m]: where apply_pending_migrations stands
          bridge,    \* bridge[b]: whether it runs, and what /health/ready said
          faults

vars == <<built, recorded, migrator, bridge, faults>>

Init ==
  /\ built = {} /\ recorded = {}
  /\ migrator = [m \in Migrators |-> [at |-> "idle", todo |-> {}]]
  /\ bridge = [b \in Bridges |-> [up |-> FALSE, said |-> "nothing"]]
  /\ faults = 0

\* SELECT MAX(version); NULL counts as 0.
Highest == IF recorded = {} THEN 0
           ELSE CHOOSE v \in recorded : \A w \in recorded : w <= v

HasTable == 1 \in built

\* Faulty: any version will do.
VerifiedAny(p) == HasTable

\* verify_hosted_schema of the package of p; the query fails without a table.
Verified(p) == HasTable /\ Highest = Release[p]

Fault == faults < MaxFaults /\ faults' = faults + 1

-----------------------------------------------------------------------------
(* apply_pending_migrations, one request to the database at a time.        *)

Goto(m, step, todo) == migrator' = [migrator EXCEPT ![m] = [at |-> step, todo |-> todo]]

Start(m) ==
  /\ migrator[m].at \in {"idle", "failed", "done"}
  /\ Goto(m, "inspect", {})
  /\ UNCHANGED <<built, recorded, bridge, faults>>

\* A request fails and the migrator ends with an error, or it is killed.
Breaks(m) ==
  /\ migrator[m].at \in {"inspect", "read", "apply", "verify"}
  /\ Goto(m, "failed", {})
  /\ Fault
  /\ UNCHANGED <<built, recorded, bridge>>

\* pending_migration_versions, and what is done with its result.
Plan(m, current) ==
  LET pending == {v \in 1..Release[m] : v > current}
  IN IF current > Release[m] THEN Goto(m, "failed", {})
     ELSE Goto(m, IF pending = {} THEN "verify" ELSE "apply", pending)

Inspect(m) ==
  /\ migrator[m].at = "inspect"
  /\ IF HasTable THEN Goto(m, "read", {}) ELSE Plan(m, 0)
  /\ UNCHANGED <<built, recorded, bridge, faults>>

Read(m) ==
  /\ migrator[m].at = "read"
  /\ Plan(m, Highest)
  /\ UNCHANGED <<built, recorded, bridge, faults>>

\* Faulty: the scripts are not sorted by their number.
FirstUnsorted(todo) == CHOOSE v \in todo : \A w \in todo : w <= v

\* for version in sorted(...)
First(todo) == CHOOSE v \in todo : \A w \in todo : v <= w

\* The script makes new tables only, on top of those it changes.
Runs(v) == v \notin built /\ Alters[v] \subseteq built

\* Faulty: the row is a transaction of its own, which a crash prevents.
CommitsInTwo(v) ==
  /\ built' = built \union {v}
  /\ \/ recorded' = recorded \union {v}
     \/ UNCHANGED recorded

Commits(v) ==
  /\ built' = built \union {v}
  /\ recorded' = recorded \union {v}

Apply(m) ==
  /\ migrator[m].at = "apply"
  /\ LET v == First(migrator[m].todo)
         rest == migrator[m].todo \ {v}
     IN /\ Runs(v) /\ Commits(v)
        /\ Goto(m, IF rest = {} THEN "verify" ELSE "apply", rest)
  /\ UNCHANGED <<bridge, faults>>

\* The script is committed and the connection lost before its answer.
ApplyUnanswered(m) ==
  /\ migrator[m].at = "apply"
  /\ LET v == First(migrator[m].todo) IN Runs(v) /\ Commits(v)
  /\ Goto(m, "failed", {})
  /\ Fault
  /\ UNCHANGED bridge

\* Another migrator was faster: the script is rolled back.
ApplyRefused(m) ==
  /\ migrator[m].at = "apply"
  /\ ~Runs(First(migrator[m].todo))
  /\ Goto(m, "failed", {})
  /\ UNCHANGED <<built, recorded, bridge, faults>>

Verify(m) ==
  /\ migrator[m].at = "verify"
  /\ Goto(m, IF Verified(m) THEN "done" ELSE "failed", {})
  /\ UNCHANGED <<built, recorded, bridge, faults>>

-----------------------------------------------------------------------------
(* A bridge: create_public_app verifies the schema, so does each request   *)
(* for /health/ready.                                                      *)

BridgeStarts(b) ==
  /\ ~bridge[b].up /\ Verified(b)
  /\ bridge' = [bridge EXCEPT ![b].up = TRUE]
  /\ UNCHANGED <<built, recorded, migrator, faults>>

BridgeAnswers(b) ==
  /\ bridge[b].up
  /\ bridge' = [bridge EXCEPT ![b].said = IF Verified(b) THEN "ready" ELSE "not_ready"]
  /\ UNCHANGED <<built, recorded, migrator, faults>>

\* The database does not answer the request.
BridgeCannotTell(b) ==
  /\ bridge[b].up
  /\ bridge' = [bridge EXCEPT ![b].said = "not_ready"]
  /\ Fault
  /\ UNCHANGED <<built, recorded, migrator>>

BridgeStops(b) ==
  /\ bridge[b].up
  /\ bridge' = [bridge EXCEPT ![b] = [up |-> FALSE, said |-> "nothing"]]
  /\ Fault
  /\ UNCHANGED <<built, recorded, migrator>>

Migrate(m) == Inspect(m) \/ Read(m) \/ Apply(m) \/ ApplyRefused(m) \/ Verify(m)

Next ==
  \/ \E m \in Migrators : Start(m) \/ Migrate(m) \/ Breaks(m) \/ ApplyUnanswered(m)
  \/ \E b \in Bridges : \/ BridgeStarts(b) \/ BridgeAnswers(b)
                        \/ BridgeCannotTell(b) \/ BridgeStops(b)

Spec == Init /\ [][Next]_vars

\* The operator runs a migrator again until it ends well; a bridge is
\* restarted and asked whether it is ready by the container runtime.
FairSpec ==
  /\ Spec
  /\ \A m \in Migrators :
       /\ WF_vars(Start(m) /\ migrator[m].at # "done")
       /\ WF_vars(Migrate(m))
  /\ \A b \in Bridges : WF_vars(BridgeStarts(b)) /\ WF_vars(BridgeAnswers(b))

-----------------------------------------------------------------------------
(* Properties. *)

TypeOK ==
  /\ built \subseteq Versions /\ recorded \subseteq Versions
  /\ migrator \in [Migrators -> [at : {"idle", "inspect", "read", "apply", "verify",
                                       "done", "failed"},
                                 todo : SUBSET Versions]]
  /\ bridge \in [Bridges -> [up : BOOLEAN, said : {"nothing", "ready", "not_ready"}]]
  /\ faults \in 0..MaxFaults

\* However migrators of several releases interleave, fail and are run again,
\* the versions recorded are 1 up to some n: MAX(version), all that the code
\* ever reads (migration.py:45, schema.py:17), stands for all of them.
Contiguous == recorded = 1..Highest

\* The tables are those of the versions recorded, no more and no less: a
\* crash or a lost answer leaves no script applied and unrecorded, which no
\* later run could apply (migration.py:64-66, migrations/*.sql).
BuiltAsRecorded == built = recorded

\* A bridge that said ready has every table its code uses, while it runs
\* and the schema moves on (public_app.py:263-272).
ReadyMeansUsable ==
  \A b \in Bridges : bridge[b].said = "ready" => 1..Release[b] \subseteq built

\* docs/RELEASE.md:37: pending versions only, in order.  No migrator, with
\* what it read about the schema however old, commits another script than
\* the next one (migration.py:59-66).
InOrderOnly ==
  [][recorded' # recorded => recorded' = recorded \union {Highest + 1}]_vars

\* A migrator ends well only on a schema that is then exactly the one of its
\* release (migration.py:61, 67).
DoneMeansExact ==
  [][\A m \in Migrators : migrator[m].at # "done" /\ migrator'[m].at = "done" =>
       Highest' = Release[m]]_vars

\* Once migrators are run again after a failure, the newest release gets its
\* schema, and a bridge of that release says ready for good.
NewestGetsReady ==
  \A b \in Bridges :
    (\A p \in Migrators \union Bridges : Release[p] <= Release[b])
    /\ (\E m \in Migrators : Release[m] = Release[b])
    => <>[](Highest = Release[b]) /\ <>(bridge[b].said = "ready")
=============================================================================
