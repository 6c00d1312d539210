-------------------------- MODULE Migrations_proofs --------------------------
(* Proofs about what an operator runs by hand: the safety properties of      *)
(* Migrations and, in the second half, those of OperatorPrograms.            *)
EXTENDS Migrations, OperatorPrograms, Sequences, SequenceTheorems, FunctionTheorems,
        FiniteSetTheorems, TLAPS

-----------------------------------------------------------------------------
(* The version read, and the order of the scripts                          *)

LEMMA HighestIs ==
    ASSUME NEW n \in Nat, recorded = 1..n
    PROVE  Highest = n
<1>1. CASE n = 0
    BY <1>1 DEF Highest
<1>2. CASE n # 0
  <2>1. n \in recorded /\ recorded # {} /\ \A w \in recorded : w <= n
      BY <1>2
  <2>2. \A v \in recorded : (\A w \in recorded : w <= v) => v = n
      BY <2>1
  <2>3. QED
      BY <2>1, <2>2 DEF Highest
<1>3. QED
    BY <1>1, <1>2

LEMMA HighestPrimeIs ==
    ASSUME NEW n \in Nat, recorded' = 1..n
    PROVE  Highest' = n
<1>1. CASE n = 0
    BY <1>1 DEF Highest
<1>2. CASE n # 0
  <2>1. n \in recorded' /\ recorded' # {} /\ \A w \in recorded' : w <= n
      BY <1>2
  <2>2. \A v \in recorded' : (\A w \in recorded' : w <= v) => v = n
      BY <2>1
  <2>3. QED
      BY <2>1, <2>2 DEF Highest
<1>3. QED
    BY <1>1, <1>2

LEMMA FirstIs ==
    ASSUME NEW k \in Nat, NEW r \in Nat, k <= r
    PROVE  First(k..r) = k /\ (k..r) \ {k} = (k + 1)..r
<1>1. k \in k..r /\ \A w \in k..r : k <= w
    OBVIOUS
<1>2. \A v \in k..r : (\A w \in k..r : v <= w) => v = k
    BY <1>1
<1>3. QED
    BY <1>1, <1>2 DEF First

LEMMA ReleaseTyped ==
    /\ \A m \in Migrators : Release[m] \in Nat /\ 1 <= Release[m] /\ Release[m] <= Last
    /\ \A b \in Bridges : Release[b] \in Nat /\ 1 <= Release[b] /\ Release[b] <= Last
    BY MigrationsAssumption DEF MigrationsAssumption, Versions

-----------------------------------------------------------------------------
(* The inductive invariant                                                 *)

\* What is recorded is 1 up to some n.
Gapless == \E n \in Nat : recorded = 1..n

\* A migrator has left to do k and what follows it, and k's predecessor is
\* recorded, by itself or by another migrator.
Planned ==
    \A m \in Migrators : migrator[m].at = "apply" =>
        \E k \in 1..Release[m] : /\ migrator[m].todo = k..Release[m]
                                 /\ k = 1 \/ k - 1 \in recorded

IInv == TypeOK /\ BuiltAsRecorded /\ Gapless /\ Planned /\ ReadyMeansUsable

LEMMA InitInv == Init => IInv
<1> SUFFICES ASSUME Init PROVE IInv
    OBVIOUS
<1>1. TypeOK
    BY MigrationsAssumption DEF MigrationsAssumption, Init, TypeOK
<1>2. BuiltAsRecorded /\ Planned /\ ReadyMeansUsable
    BY DEF Init, BuiltAsRecorded, Planned, ReadyMeansUsable
<1>3. Gapless
  <2>1. recorded = 1..0
      BY DEF Init
  <2>2. QED
      BY <2>1 DEF Gapless
<1>4. QED
    BY <1>1, <1>2, <1>3 DEF IInv

(* A migrator moves to a place with the given scripts left, and the schema *)
(* does not change.                                                        *)
LEMMA MoveKeeps ==
    ASSUME IInv, NEW m \in Migrators,
           NEW step \in {"idle", "inspect", "read", "apply", "verify", "done", "failed"},
           NEW todo \in SUBSET Versions,
           Goto(m, step, todo),
           step = "apply" => \E k \in 1..Release[m] : /\ todo = k..Release[m]
                                                      /\ k = 1 \/ k - 1 \in recorded,
           UNCHANGED <<built, recorded, bridge>>,
           faults' \in 0..MaxFaults
    PROVE  IInv'
<1>1. TypeOK'
    BY DEF IInv, TypeOK, Goto
<1>2. BuiltAsRecorded' /\ Gapless' /\ ReadyMeansUsable'
    BY DEF IInv, BuiltAsRecorded, Gapless, ReadyMeansUsable
<1>3. Planned'
  <2> SUFFICES ASSUME NEW q \in Migrators, migrator'[q].at = "apply"
               PROVE  \E k \in 1..Release[q] : /\ migrator'[q].todo = k..Release[q]
                                               /\ k = 1 \/ k - 1 \in recorded'
      BY DEF Planned
  <2>1. CASE q = m
      BY <2>1 DEF IInv, TypeOK, Goto
  <2>2. CASE q # m
    <3>1. migrator'[q] = migrator[q]
        BY <2>2 DEF IInv, TypeOK, Goto
    <3>2. QED
        BY <3>1 DEF IInv, Planned
  <2>3. QED
      BY <2>1, <2>2
<1>4. QED
    BY <1>1, <1>2, <1>3 DEF IInv

(* Planning from the version that is recorded.                             *)
LEMMA PlanKeeps ==
    ASSUME IInv, NEW m \in Migrators, NEW n \in Nat, recorded = 1..n, Plan(m, n),
           UNCHANGED <<built, recorded, bridge, faults>>
    PROVE  IInv'
<1> DEFINE pending == {v \in 1..Release[m] : v > n}
<1>1. faults' \in 0..MaxFaults
    BY DEF IInv, TypeOK
<1>2. CASE n > Release[m]
  <2>1. Goto(m, "failed", {})
      BY <1>2 DEF Plan
  <2>2. QED
      BY <1>1, <2>1, MoveKeeps
<1>3. CASE ~(n > Release[m]) /\ pending = {}
  <2>1. Goto(m, "verify", pending)
      BY <1>3 DEF Plan
  <2>2. QED
      BY <1>1, <1>3, <2>1, MoveKeeps
<1>4. CASE ~(n > Release[m]) /\ pending # {}
  <2>1. Goto(m, "apply", pending)
      BY <1>4 DEF Plan
  <2>2. pending = (n + 1)..Release[m] /\ n + 1 \in 1..Release[m]
      BY <1>4, ReleaseTyped
  <2>3. n + 1 = 1 \/ (n + 1) - 1 \in recorded
      OBVIOUS
  <2>4. pending \in SUBSET Versions
      BY ReleaseTyped, MigrationsAssumption DEF MigrationsAssumption, Versions
  <2>5. \E k \in 1..Release[m] : pending = k..Release[m] /\ (k = 1 \/ k - 1 \in recorded)
      BY <2>2, <2>3
  <2> HIDE DEF pending
  <2>6. QED
      BY <1>1, <2>1, <2>4, <2>5, MoveKeeps
<1>5. QED
    BY <1>2, <1>3, <1>4

(* A script that runs is the one after the last that is recorded.          *)
LEMMA RunsNext ==
    ASSUME IInv, NEW m \in Migrators, migrator[m].at = "apply",
           Runs(First(migrator[m].todo)), Commits(First(migrator[m].todo))
    PROVE  \E n \in Nat : /\ recorded = 1..n
                          /\ First(migrator[m].todo) = n + 1
                          /\ migrator[m].todo = (n + 1)..Release[m]
                          /\ n + 1 \in 1..Release[m]
                          /\ recorded' = 1..(n + 1) /\ built' = 1..(n + 1)
<1>1. PICK n \in Nat : recorded = 1..n
    BY DEF IInv, Gapless
<1>2. PICK k \in 1..Release[m] : /\ migrator[m].todo = k..Release[m]
                                 /\ k = 1 \/ k - 1 \in recorded
    BY DEF IInv, Planned
<1>3. First(migrator[m].todo) = k
    BY <1>2, FirstIs, ReleaseTyped
<1>4. built = 1..n
    BY <1>1 DEF IInv, BuiltAsRecorded
<1>5. k \notin 1..n
    BY <1>3, <1>4 DEF Runs
<1>6. k = n + 1
    BY <1>1, <1>2, <1>5, ReleaseTyped
<1>7. 1..(n + 1) = (1..n) \union {n + 1}
    OBVIOUS
<1>8. recorded' = 1..(n + 1) /\ built' = 1..(n + 1)
    BY <1>1, <1>3, <1>4, <1>6, <1>7 DEF Commits
<1>9. QED
    BY <1>1, <1>2, <1>3, <1>6, <1>8

(* A script is committed and its migrator goes on, or fails.               *)
LEMMA CommitKeeps ==
    ASSUME IInv, NEW m \in Migrators, migrator[m].at = "apply",
           Runs(First(migrator[m].todo)), Commits(First(migrator[m].todo)),
           NEW step, NEW rest,
           Goto(m, step, rest),
           \/ step = "failed" /\ rest = {}
           \/ /\ rest = migrator[m].todo \ {First(migrator[m].todo)}
              /\ step = IF rest = {} THEN "verify" ELSE "apply",
           UNCHANGED bridge, faults' \in 0..MaxFaults
    PROVE  IInv'
<1>1. PICK n \in Nat : /\ recorded = 1..n
                       /\ First(migrator[m].todo) = n + 1
                       /\ migrator[m].todo = (n + 1)..Release[m]
                       /\ n + 1 \in 1..Release[m]
                       /\ recorded' = 1..(n + 1) /\ built' = 1..(n + 1)
    BY RunsNext
<1>2. Release[m] \in Nat /\ Release[m] <= Last /\ Last \in Nat
    BY ReleaseTyped, MigrationsAssumption DEF MigrationsAssumption
<1>3. rest \in SUBSET Versions
    BY <1>1, <1>2 DEF Versions
<1>4. step \in {"failed", "verify", "apply"}
    OBVIOUS
<1>5. TypeOK'
  <2>1. 1..(n + 1) \subseteq Versions
      BY <1>1, <1>2 DEF Versions
  <2>2. migrator' \in [Migrators -> [at : {"idle", "inspect", "read", "apply", "verify",
                                           "done", "failed"},
                                     todo : SUBSET Versions]]
      BY <1>3, <1>4 DEF IInv, TypeOK, Goto
  <2>3. QED
      BY <1>1, <2>1, <2>2 DEF IInv, TypeOK
<1>6. BuiltAsRecorded' /\ Gapless'
    BY <1>1 DEF BuiltAsRecorded, Gapless
<1>7. Planned'
  <2> SUFFICES ASSUME NEW q \in Migrators, migrator'[q].at = "apply"
               PROVE  \E k \in 1..Release[q] : /\ migrator'[q].todo = k..Release[q]
                                               /\ k = 1 \/ k - 1 \in recorded'
      BY DEF Planned
  <2>1. CASE q = m
    <3>1. migrator'[m] = [at |-> step, todo |-> rest]
        BY DEF IInv, TypeOK, Goto
    <3>2. step = "apply" /\ migrator'[q].todo = rest
        BY <2>1, <3>1
    <3>3. rest = migrator[m].todo \ {n + 1} /\ rest # {}
        BY <1>1, <3>2
    <3>4. rest = (n + 2)..Release[m] /\ n + 2 \in 1..Release[m]
        BY <1>1, <1>2, <3>3
    <3>5. (n + 2) - 1 \in recorded'
        BY <1>1
    <3>6. QED
        BY <2>1, <3>2, <3>4, <3>5
  <2>2. CASE q # m
    <3>1. migrator'[q] = migrator[q]
        BY <2>2 DEF IInv, TypeOK, Goto
    <3>2. PICK k \in 1..Release[q] : /\ migrator[q].todo = k..Release[q]
                                     /\ k = 1 \/ k - 1 \in recorded
        BY <3>1 DEF IInv, Planned
    <3>3. recorded \subseteq recorded'
        BY <1>1
    <3>4. QED
        BY <3>1, <3>2, <3>3
  <2>3. QED
      BY <2>1, <2>2
<1>8. ReadyMeansUsable'
  <2>1. built \subseteq built'
      BY DEF Commits
  <2>2. QED
      BY <2>1 DEF IInv, ReadyMeansUsable
<1>9. QED
    BY <1>5, <1>6, <1>7, <1>8 DEF IInv

(* A bridge changes what is known of it; ready only after Verified.        *)
LEMMA BridgeKeeps ==
    ASSUME IInv, NEW b \in Bridges,
           NEW r \in [up : BOOLEAN, said : {"nothing", "ready", "not_ready"}],
           bridge' = [bridge EXCEPT ![b] = r],
           r.said = "ready" => Verified(b) \/ bridge[b].said = "ready",
           UNCHANGED <<built, recorded, migrator>>,
           faults' \in 0..MaxFaults
    PROVE  IInv'
<1>1. TypeOK'
    BY DEF IInv, TypeOK
<1>2. BuiltAsRecorded' /\ Gapless' /\ Planned'
    BY DEF IInv, BuiltAsRecorded, Gapless, Planned
<1>3. ReadyMeansUsable'
  <2> SUFFICES ASSUME NEW c \in Bridges, bridge'[c].said = "ready"
               PROVE  1..Release[c] \subseteq built'
      BY DEF ReadyMeansUsable
  <2>1. CASE bridge[c].said = "ready"
      BY <2>1 DEF IInv, ReadyMeansUsable
  <2>2. CASE c = b /\ Verified(b)
    <3>1. PICK n \in Nat : recorded = 1..n
        BY DEF IInv, Gapless
    <3>2. Release[b] = n
        BY <2>2, <3>1, HighestIs DEF Verified
    <3>3. QED
        BY <2>2, <3>1, <3>2 DEF IInv, BuiltAsRecorded
  <2>3. c = b \/ bridge'[c] = bridge[c]
      BY DEF IInv, TypeOK
  <2>4. bridge'[b] = r
      BY DEF IInv, TypeOK
  <2>5. QED
      BY <2>1, <2>2, <2>3, <2>4
<1>4. QED
    BY <1>1, <1>2, <1>3 DEF IInv

-----------------------------------------------------------------------------
(* Every step                                                              *)

LEMMA MigratorStep ==
    ASSUME IInv, NEW m \in Migrators,
           Start(m) \/ Migrate(m) \/ Breaks(m) \/ ApplyUnanswered(m)
    PROVE  IInv'
<1>1. faults \in 0..MaxFaults /\ MaxFaults \in Nat
    BY MigrationsAssumption DEF MigrationsAssumption, IInv, TypeOK
<1>2. CASE Start(m)
    BY <1>1, <1>2, MoveKeeps DEF Start
<1>3. CASE Breaks(m)
  <2>1. faults' \in 0..MaxFaults
      BY <1>1, <1>3 DEF Breaks, Fault
  <2>2. QED
      BY <1>3, <2>1, MoveKeeps DEF Breaks
<1>4. CASE Inspect(m)
  <2>1. CASE HasTable
      BY <1>1, <1>4, <2>1, MoveKeeps DEF Inspect
  <2>2. CASE ~HasTable
    <3>1. PICK n \in Nat : recorded = 1..n
        BY DEF IInv, Gapless
    <3>2. n = 0
        BY <2>2, <3>1 DEF IInv, BuiltAsRecorded, HasTable
    <3>3. recorded = 1..0 /\ Plan(m, 0)
        BY <1>4, <2>2, <3>1, <3>2 DEF Inspect
    <3>4. QED
        BY <1>4, <3>3, PlanKeeps DEF Inspect
  <2>3. QED
      BY <2>1, <2>2
<1>5. CASE Read(m)
  <2>1. PICK n \in Nat : recorded = 1..n
      BY DEF IInv, Gapless
  <2>2. Plan(m, n)
      BY <1>5, <2>1, HighestIs DEF Read
  <2>3. QED
      BY <1>5, <2>1, <2>2, PlanKeeps DEF Read
<1>6. CASE Apply(m)
  <2> DEFINE v == First(migrator[m].todo)
             rest == migrator[m].todo \ {v}
  <2>1. /\ migrator[m].at = "apply" /\ Runs(v) /\ Commits(v)
        /\ Goto(m, IF rest = {} THEN "verify" ELSE "apply", rest)
        /\ UNCHANGED <<bridge, faults>>
      BY <1>6 DEF Apply
  <2>2. QED
      BY <1>1, <2>1, CommitKeeps
<1>7. CASE ApplyUnanswered(m)
  <2>1. faults' \in 0..MaxFaults
      BY <1>1, <1>7 DEF ApplyUnanswered, Fault
  <2>2. QED
      BY <1>7, <2>1, CommitKeeps DEF ApplyUnanswered
<1>8. CASE ApplyRefused(m)
    BY <1>1, <1>8, MoveKeeps DEF ApplyRefused
<1>9. CASE Verify(m)
  <2>1. CASE Verified(m)
      BY <1>1, <1>9, <2>1, MoveKeeps DEF Verify
  <2>2. CASE ~Verified(m)
      BY <1>1, <1>9, <2>2, MoveKeeps DEF Verify
  <2>3. QED
      BY <2>1, <2>2
<1>10. QED
    BY <1>2, <1>3, <1>4, <1>5, <1>6, <1>7, <1>8, <1>9 DEF Migrate

LEMMA BridgeStep ==
    ASSUME IInv, NEW b \in Bridges,
           BridgeStarts(b) \/ BridgeAnswers(b) \/ BridgeCannotTell(b) \/ BridgeStops(b)
    PROVE  IInv'
<1>1. faults \in 0..MaxFaults /\ MaxFaults \in Nat
    BY MigrationsAssumption DEF MigrationsAssumption, IInv, TypeOK
<1>2. bridge[b] \in [up : BOOLEAN, said : {"nothing", "ready", "not_ready"}]
      /\ bridge \in [Bridges -> [up : BOOLEAN, said : {"nothing", "ready", "not_ready"}]]
    BY DEF IInv, TypeOK
<1>3. CASE BridgeStarts(b)
  <2> DEFINE r == [bridge[b] EXCEPT !.up = TRUE]
  <2>1. bridge' = [bridge EXCEPT ![b] = r]
      BY <1>2, <1>3 DEF BridgeStarts
  <2>2. QED
      BY <1>1, <1>2, <1>3, <2>1, BridgeKeeps DEF BridgeStarts
<1>4. CASE BridgeAnswers(b)
  <2> DEFINE said == IF Verified(b) THEN "ready" ELSE "not_ready"
             r == [bridge[b] EXCEPT !.said = said]
  <2>1. bridge' = [bridge EXCEPT ![b] = r]
      BY <1>2, <1>4 DEF BridgeAnswers
  <2>2. r.said = "ready" => Verified(b)
      BY <1>2
  <2>3. r \in [up : BOOLEAN, said : {"nothing", "ready", "not_ready"}]
      BY <1>2
  <2> HIDE DEF r
  <2>4. QED
      BY <1>1, <1>4, <2>1, <2>2, <2>3, BridgeKeeps DEF BridgeAnswers
<1>5. CASE BridgeCannotTell(b)
  <2> DEFINE r == [bridge[b] EXCEPT !.said = "not_ready"]
  <2>1. bridge' = [bridge EXCEPT ![b] = r]
      BY <1>2, <1>5 DEF BridgeCannotTell
  <2>2. faults' \in 0..MaxFaults
      BY <1>1, <1>5 DEF BridgeCannotTell, Fault
  <2>3. QED
      BY <1>2, <1>5, <2>1, <2>2, BridgeKeeps DEF BridgeCannotTell
<1>6. CASE BridgeStops(b)
  <2> DEFINE r == [up |-> FALSE, said |-> "nothing"]
  <2>1. bridge' = [bridge EXCEPT ![b] = r]
      BY <1>6 DEF BridgeStops
  <2>2. faults' \in 0..MaxFaults
      BY <1>1, <1>6 DEF BridgeStops, Fault
  <2>3. QED
      BY <1>6, <2>1, <2>2, BridgeKeeps DEF BridgeStops
<1>7. QED
    BY <1>3, <1>4, <1>5, <1>6

LEMMA StepInv == IInv /\ [Next]_vars => IInv'
<1> SUFFICES ASSUME IInv, [Next]_vars PROVE IInv'
    OBVIOUS
<1>1. CASE UNCHANGED vars
    BY <1>1 DEF vars, IInv, TypeOK, BuiltAsRecorded, Gapless, Planned, ReadyMeansUsable
<1>2. CASE Next
    BY <1>2, MigratorStep, BridgeStep DEF Next
<1>3. QED
    BY <1>1, <1>2

LEMMA InvariantHolds == Spec => []IInv
    BY InitInv, StepInv, PTL DEF Spec

-----------------------------------------------------------------------------
(* Theorems                                                                *)

(* Every variable keeps its type. *)
THEOREM TypeCorrect == Spec => []TypeOK
<1>1. IInv => TypeOK
    BY DEF IInv
<1>2. QED
    BY <1>1, InvariantHolds, PTL

(* MAX(version) stands for every version up to it, for any number of       *)
(* migrators of any releases.                                              *)
THEOREM VersionsContiguous == Spec => []Contiguous
<1>1. IInv => Contiguous
  <2> SUFFICES ASSUME IInv PROVE Contiguous
      OBVIOUS
  <2>1. PICK n \in Nat : recorded = 1..n
      BY DEF IInv, Gapless
  <2>2. QED
      BY <2>1, HighestIs DEF Contiguous
<1>2. QED
    BY <1>1, InvariantHolds, PTL

(* The tables are those of the versions recorded. *)
THEOREM TablesAsRecorded == Spec => []BuiltAsRecorded
<1>1. IInv => BuiltAsRecorded
    BY DEF IInv
<1>2. QED
    BY <1>1, InvariantHolds, PTL

(* A bridge that said ready has the tables of its release. *)
THEOREM ReadyHasTables == Spec => []ReadyMeansUsable
<1>1. IInv => ReadyMeansUsable
    BY DEF IInv
<1>2. QED
    BY <1>1, InvariantHolds, PTL

(* Only the next script is ever committed. *)
THEOREM ScriptsInOrder == Spec => InOrderOnly
<1>1. IInv /\ [Next]_vars =>
        [recorded' # recorded => recorded' = recorded \union {Highest + 1}]_vars
  <2> SUFFICES ASSUME IInv, Next, recorded' # recorded
               PROVE  recorded' = recorded \union {Highest + 1}
      BY DEF vars
  <2>1. PICK m \in Migrators : Apply(m) \/ ApplyUnanswered(m)
      BY DEF Next, Migrate, Start, Breaks, Inspect, Read, ApplyRefused, Verify,
             BridgeStarts, BridgeAnswers, BridgeCannotTell, BridgeStops
  <2>2. /\ migrator[m].at = "apply"
        /\ Runs(First(migrator[m].todo)) /\ Commits(First(migrator[m].todo))
      BY <2>1 DEF Apply, ApplyUnanswered
  <2>3. PICK n \in Nat : recorded = 1..n /\ recorded' = 1..(n + 1)
      BY <2>2, RunsNext
  <2>4. Highest = n
      BY <2>3, HighestIs
  <2>5. 1..(n + 1) = (1..n) \union {n + 1}
      OBVIOUS
  <2>6. QED
      BY <2>3, <2>4, <2>5
<1>2. QED
    BY <1>1, InvariantHolds, PTL DEF Spec, InOrderOnly

(* A migrator ends well on exactly the version of its release. *)
THEOREM DoneIsExact == Spec => DoneMeansExact
<1>1. IInv /\ [Next]_vars =>
        [\A m \in Migrators : migrator[m].at # "done" /\ migrator'[m].at = "done" =>
           Highest' = Release[m]]_vars
  <2> SUFFICES ASSUME IInv, Next, NEW m \in Migrators,
                      migrator[m].at # "done", migrator'[m].at = "done"
               PROVE  Highest' = Release[m]
      BY DEF vars
  <2>1. \A q \in Migrators : \A step, todo :
          Goto(q, step, todo) /\ step # "done" => FALSE
      BY DEF Goto, IInv, TypeOK
  <2>2. Verify(m)
    <3>1. PICK q \in Migrators : Start(q) \/ Migrate(q) \/ Breaks(q) \/ ApplyUnanswered(q)
        BY DEF Next, BridgeStarts, BridgeAnswers, BridgeCannotTell, BridgeStops
    <3>2. ~Start(q) /\ ~Breaks(q) /\ ~ApplyUnanswered(q) /\ ~ApplyRefused(q)
        BY <2>1 DEF Start, Breaks, ApplyUnanswered, ApplyRefused
    <3>3. \A current : ~Plan(q, current)
        BY <2>1 DEF Plan
    <3>4. ~Inspect(q)
        BY <2>1, <3>3 DEF Inspect
    <3>5. ~Read(q)
        BY <3>3 DEF Read
    <3>6. ~Apply(q)
        BY <2>1 DEF Apply
    <3>7. Verify(q)
        BY <3>1, <3>2, <3>4, <3>5, <3>6 DEF Migrate
    <3>8. q = m
        BY <3>7 DEF Verify, Goto, IInv, TypeOK
    <3>9. QED
        BY <3>7, <3>8
  <2>3. Verified(m) /\ UNCHANGED recorded
      BY <2>1, <2>2 DEF Verify
  <2>4. PICK n \in Nat : recorded = 1..n
      BY DEF IInv, Gapless
  <2>5. Highest = n /\ Highest' = n
      BY <2>3, <2>4, HighestIs, HighestPrimeIs
  <2>6. QED
      BY <2>3, <2>5 DEF Verified
<1>2. QED
    BY <1>1, InvariantHolds, PTL DEF Spec, DoneMeansExact

-----------------------------------------------------------------------------
(***************************************************************************)
(* The other programs an operator runs by hand, those of OperatorPrograms: *)
(* the diagnostics and the release preflight.                              *)
(***************************************************************************)

(* The diagnostics: where a run stands. *)

Early == {"ocs", "webdav", "native"}
Writing == {"w_mkcol", "w_stat_folder", "w_put", "w_stat_put", "w_get", "w_move",
            "w_stat_moved", "w_stat", "w_delete"}
InWrite == Writing \union {"w_cleanup"}
Reviewing == {"h_look", "h_mkcol", "h_stat", "h_folders", "h_put", "h_list", "h_review",
              "h_report", "h_again", "h_download"}
HasFolder == Reviewing \ {"h_look", "h_mkcol"}
Ending == {"h_exists", "h_cleanup"}

LEMMA StepsAre ==
    /\ DOMAIN Diagnose!WriteNext = Writing
    /\ DOMAIN Diagnose!HouseholdNext = Reviewing
    /\ \A s \in Writing : Diagnose!WriteNext[s] \in (Writing \ {"w_mkcol"}) \union {"apps_or_not"}
    /\ \A s \in Writing : Diagnose!WriteNext[s] = "apps_or_not" <=> s = "w_delete"
    /\ \A s \in Reviewing : Diagnose!HouseholdNext[s] \in Reviewing \union {"h_exists"}
    /\ \A s \in Reviewing : Diagnose!HouseholdNext[s] = "h_exists" <=> s = "h_download"
    /\ \A s \in Reviewing : Diagnose!HouseholdNext[s] = "h_mkcol" <=> s = "h_look"
    /\ \A s \in Reviewing : Diagnose!HouseholdNext[s] # "h_look"
<1>1. DOMAIN Diagnose!WriteNext = Writing
    BY DEF Diagnose!WriteNext, Writing
<1>2. DOMAIN Diagnose!HouseholdNext = Reviewing
    BY DEF Diagnose!HouseholdNext, Reviewing
<1>3. /\ \A s \in Writing : Diagnose!WriteNext[s] \in (Writing \ {"w_mkcol"}) \union {"apps_or_not"}
      /\ \A s \in Writing : Diagnose!WriteNext[s] = "apps_or_not" <=> s = "w_delete"
    BY DEF Diagnose!WriteNext, Writing
<1>4. /\ \A s \in Reviewing : Diagnose!HouseholdNext[s] \in Reviewing \union {"h_exists"}
      /\ \A s \in Reviewing : Diagnose!HouseholdNext[s] = "h_exists" <=> s = "h_download"
    BY DEF Diagnose!HouseholdNext, Reviewing
<1>5. /\ \A s \in Reviewing : Diagnose!HouseholdNext[s] = "h_mkcol" <=> s = "h_look"
      /\ \A s \in Reviewing : Diagnose!HouseholdNext[s] # "h_look"
    BY DEF Diagnose!HouseholdNext, Reviewing
<1>6. QED
    BY <1>1, <1>2, <1>3, <1>4, <1>5

Untouched(t) == remote[t] = {} /\ t \notin late
WriteUntouched ==
  Untouched("write") /\ result["write"] = "none" /\ result["cleanup"] = "none"
HouseholdUntouched ==
  Untouched("v020") /\ result["household"] = "none" /\ result["household_cleanup"] = "none"

\* The write test: nothing of it before it begins, a flag after it has ended,
\* and a cleanup that is reported has been done.
WriteInv ==
  /\ at \in Early \union {"w_mkcol"} => WriteUntouched /\ ~guarded
  /\ at \in InWrite => /\ "write" \in asked /\ "write" \notin late
                       /\ result["write"] = "none" /\ result["cleanup"] = "none"
  /\ "write" \in asked /\ at \notin Early \union InWrite => result["write"] # "none"
  /\ "write" \notin asked => WriteUntouched
  /\ result["cleanup"] = "yes" => Untouched("write")
  /\ result["write"] = "yes" => result["cleanup"] = "yes"

\* The household test: a test that went well has its folder until it is removed.
HouseholdInv ==
  /\ at \notin HasFolder \union Ending \union {"exit"} => HouseholdUntouched
  /\ at \in Reviewing \union Ending =>
       "v020" \in asked /\ result["household_cleanup"] = "none"
  /\ at \in Reviewing => "v020" \notin late /\ result["household"] = "none"
  /\ at \in HasFolder => "folder" \in remote["v020"]
  /\ at \in Ending =>
       /\ result["household"] # "no"
       /\ result["household"] = "yes" => "v020" \notin late /\ "folder" \in remote["v020"]
  /\ result["household"] = "yes" /\ result["household_cleanup"] = "yes" => Untouched("v020")
  /\ "v020" \notin asked => HouseholdUntouched

\* The flags of the stages of --v020-test are set one after the other.
AppsInv ==
  /\ at \in {"apps", "shares"} => "v020" \in asked
  /\ at \notin {"shares", "exit"} \union Reviewing \union Ending => result["apps"] = "none"
  /\ at \notin {"exit"} \union Reviewing \union Ending => result["shares"] = "none"
  /\ at \in {"shares"} \union Reviewing \union Ending => result["apps"] # "none"
  /\ at \in Reviewing \union Ending => result["shares"] # "none"
  /\ at = "exit" /\ "v020" \in asked =>
       \A f \in {"apps", "shares", "household", "household_cleanup"} : result[f] # "none"
  /\ "v020" \notin asked => result["apps"] = "none" /\ result["shares"] = "none"

\* A stage is in the list exactly when its flag says that it failed.
FailedInv ==
  /\ "ocs_capabilities" \in failed_stages <=> result["ocs"] = "no" /\ at # "ocs"
  /\ "webdav_read" \in failed_stages <=> result["webdav"] = "no" /\ at \notin {"ocs", "webdav"}
  /\ "webdav_write" \in failed_stages <=> result["write"] = "no"
  /\ "app_access" \in failed_stages <=> result["apps"] = "no"
  /\ "root_shares" \in failed_stages <=> result["shares"] = "no"
  /\ "household_invoice" \in failed_stages <=> result["household"] = "no"
  /\ "household_cleanup" \in failed_stages <=> result["household_cleanup"] = "no"
  /\ result["ocs"] # "none" /\ (at = "ocs" => result["ocs"] = "no")
  /\ result["webdav"] # "none" /\ (at \in {"ocs", "webdav"} => result["webdav"] = "no")

StatusInv ==
  status # "running" => at = "exit" /\ (status = "zero" <=> Diagnose!Successful)

DiagnosisInv ==
  /\ Diagnose!TypeOK
  /\ WriteInv /\ HouseholdInv /\ AppsInv /\ FailedInv /\ StatusInv

LEMMA DiagnosisInit == Diagnose!Init => DiagnosisInv
<1> SUFFICES ASSUME Diagnose!Init PROVE DiagnosisInv
    OBVIOUS
<1>1. Diagnose!TypeOK
    BY
       DEF Diagnose!Init, Diagnose!TypeOK, Diagnose!Flags,
           Diagnose!Tests
<1>2. /\ at = "ocs" /\ late = {} /\ guarded = FALSE /\ status = "running" /\ failed_stages = {}
      /\ remote["write"] = {} /\ remote["v020"] = {}
      /\ result["ocs"] = "no" /\ result["webdav"] = "no"
      /\ \A f \in {"write", "cleanup", "apps", "shares", "household", "household_cleanup"} :
           result[f] = "none"
    BY DEF Diagnose!Init, Diagnose!Flags, Diagnose!Tests
<1>3. WriteInv
    BY <1>2 DEF WriteInv, WriteUntouched, Untouched, Early, InWrite, Writing
<1>4. HouseholdInv
    BY <1>2 DEF HouseholdInv, HouseholdUntouched, Untouched, HasFolder, Reviewing, Ending
<1>5. AppsInv /\ FailedInv /\ StatusInv
    BY <1>2 DEF AppsInv, FailedInv, StatusInv, Reviewing, Ending
<1>6. QED
    BY <1>1, <1>3, <1>4, <1>5 DEF DiagnosisInv

\* A flag is set, the others stay.
Values == {"none", "yes", "no"}
Results == [Diagnose!Flags -> Values]
Places == Early \union {"apps_or_not", "apps", "shares", "exit"}
            \union InWrite \union Reviewing \union Ending
StageNames == {"ocs_capabilities", "webdav_read", "webdav_write", "app_access",
               "root_shares", "household_invoice", "household_cleanup"}
Things == {"folder", "inbox", "file", "renamed", "report"}

LEMMA TypesAre ==
    Diagnose!TypeOK <=>
      /\ at \in Places /\ asked \in SUBSET {"write", "v020"} /\ late \in SUBSET {"write", "v020"}
      /\ guarded \in BOOLEAN /\ result \in Results /\ failed_stages \in SUBSET StageNames
      /\ remote \in [{"write", "v020"} -> SUBSET Things]
      /\ status \in {"running", "zero", "one"}
    BY StepsAre, Zenon
       DEF Diagnose!TypeOK, Diagnose!Tests, Values, Results, Places,
           StageNames, Things,
       Early, InWrite, Ending
LEMMA TypesAreNext ==
    Diagnose!TypeOK' <=>
      /\ at' \in Places /\ asked' \in SUBSET {"write", "v020"} /\ late' \in SUBSET {"write", "v020"}
      /\ guarded' \in BOOLEAN /\ result' \in Results /\ failed_stages' \in SUBSET StageNames
      /\ remote' \in [{"write", "v020"} -> SUBSET Things]
      /\ status' \in {"running", "zero", "one"}
    BY StepsAre, Zenon
       DEF Diagnose!TypeOK, Diagnose!Tests, Values, Results, Places,
           StageNames, Things,
       Early, InWrite, Ending

LEMMA FlagSet ==
    ASSUME result \in Results, NEW f \in Diagnose!Flags, NEW v \in Values,
           Diagnose!Set(f, v)
    PROVE  result' \in Results /\ result'[f] = v
           /\ \A g \in Diagnose!Flags : g # f => result'[g] = result[g]
    BY DEF Diagnose!Set, Results

\* Steps that set flag f, or add stage to the list, and touch no folder.
Stays == asked' = asked /\ remote' = remote /\ late' = late /\ guarded' = guarded
Sets(f, stage_name) ==
  /\ result' \in Results /\ \A g \in Diagnose!Flags : g # f => result'[g] = result[g]
  /\ \/ result'[f] = "yes" /\ failed_stages' = failed_stages
     \/ /\ failed_stages' = failed_stages \union {stage_name}
        /\ result'[f] = "no"

LEMMA OcsKeeps ==
    ASSUME DiagnosisInv, Diagnose!Ocs
    PROVE  DiagnosisInv'
<1>1. /\ at = "ocs" /\ at' = "webdav" /\ Stays /\ status' = status
      /\ result \in Results /\ "ocs" \in Diagnose!Flags /\ {"yes", "no"} \subseteq Values
    BY TypesAre
       DEF DiagnosisInv, Stays, Values, Diagnose!Flags, Diagnose!Ocs,
           Diagnose!Goto
<1>2. Sets("ocs", "ocs_capabilities")
    BY <1>1, FlagSet DEF DiagnosisInv, FailedInv, Sets, Diagnose!Ocs
<1>3. Diagnose!TypeOK'
    BY <1>1, <1>2, TypesAre, TypesAreNext
       DEF DiagnosisInv, Stays, Sets, Places, Early, StageNames, Reviewing
<1>4. WriteInv'
    BY <1>1, <1>2
       DEF DiagnosisInv, WriteInv, WriteUntouched, Untouched, Early, InWrite, Writing, Stays,
           Sets, Diagnose!Flags
<1>5. HouseholdInv'
    BY <1>1, <1>2
       DEF DiagnosisInv, HouseholdInv, HouseholdUntouched, Untouched, HasFolder, Reviewing,
           Ending,
           AppsInv, Stays, Sets, Diagnose!Flags
<1>6. AppsInv'
    BY <1>1, <1>2
       DEF DiagnosisInv, AppsInv, Reviewing, Ending, Stays, Sets, Diagnose!Flags
<1>7. FailedInv'
    BY <1>1, <1>2
       DEF DiagnosisInv, FailedInv, AppsInv, Reviewing, Ending, Stays, Sets,
           Diagnose!Flags
<1>8. StatusInv'
    BY <1>1 DEF DiagnosisInv, StatusInv
<1>9. QED
    BY <1>3, <1>4, <1>5, <1>6, <1>7, <1>8 DEF DiagnosisInv

LEMMA WebdavKeeps ==
    ASSUME DiagnosisInv, Diagnose!Webdav
    PROVE  DiagnosisInv'
<1>1. /\ at = "webdav" /\ at' = "native" /\ Stays /\ status' = status
      /\ result \in Results /\ "webdav" \in Diagnose!Flags /\ {"yes", "no"} \subseteq Values
    BY TypesAre
       DEF DiagnosisInv, Stays, Values, Diagnose!Flags, Diagnose!Webdav,
           Diagnose!Goto
<1>2. Sets("webdav", "webdav_read")
    BY <1>1, FlagSet DEF DiagnosisInv, FailedInv, Sets, Diagnose!Webdav
<1>3. Diagnose!TypeOK'
    BY <1>1, <1>2, TypesAre, TypesAreNext
       DEF DiagnosisInv, Stays, Sets, Places, Early, StageNames, Reviewing
<1>4. WriteInv'
    BY <1>1, <1>2
       DEF DiagnosisInv, WriteInv, WriteUntouched, Untouched, Early, InWrite, Writing, Stays,
           Sets, Diagnose!Flags
<1>5. HouseholdInv'
    BY <1>1, <1>2
       DEF DiagnosisInv, HouseholdInv, HouseholdUntouched, Untouched, HasFolder, Reviewing,
           Ending,
           AppsInv, Stays, Sets, Diagnose!Flags
<1>6. AppsInv'
    BY <1>1, <1>2
       DEF DiagnosisInv, AppsInv, Reviewing, Ending, Stays, Sets, Diagnose!Flags
<1>7. FailedInv'
    BY <1>1, <1>2
       DEF DiagnosisInv, FailedInv, AppsInv, Reviewing, Ending, Stays, Sets,
           Diagnose!Flags
<1>8. StatusInv'
    BY <1>1 DEF DiagnosisInv, StatusInv
<1>9. QED
    BY <1>3, <1>4, <1>5, <1>6, <1>7, <1>8 DEF DiagnosisInv

LEMMA AppsKeeps ==
    ASSUME DiagnosisInv, Diagnose!Apps
    PROVE  DiagnosisInv'
<1>1. /\ at = "apps" /\ at' = "shares" /\ Stays /\ status' = status
      /\ result \in Results /\ "apps" \in Diagnose!Flags /\ {"yes", "no"} \subseteq Values
    BY TypesAre
       DEF DiagnosisInv, Stays, Values, Diagnose!Flags, Diagnose!Apps,
           Diagnose!Goto, Diagnose!StageFails
<1>2. Sets("apps", "app_access")
    BY <1>1, FlagSet
       DEF DiagnosisInv, FailedInv, Sets, Diagnose!Apps, Diagnose!StageFails
<1>3. Diagnose!TypeOK'
    BY <1>1, <1>2, TypesAre, TypesAreNext
       DEF DiagnosisInv, Stays, Sets, Places, Early, StageNames, Reviewing
<1>4. WriteInv'
    BY <1>1, <1>2
       DEF DiagnosisInv, WriteInv, WriteUntouched, Untouched, Early, InWrite, Writing, Stays,
           Sets, Diagnose!Flags
<1>5. HouseholdInv'
    BY <1>1, <1>2
       DEF DiagnosisInv, HouseholdInv, HouseholdUntouched, Untouched, HasFolder, Reviewing,
           Ending,
           AppsInv, Stays, Sets, Diagnose!Flags
<1>6. AppsInv'
    BY <1>1, <1>2
       DEF DiagnosisInv, AppsInv, Reviewing, Ending, Stays, Sets, Diagnose!Flags
<1>7. FailedInv'
    BY <1>1, <1>2
       DEF DiagnosisInv, FailedInv, AppsInv, Reviewing, Ending, Stays, Sets,
           Diagnose!Flags
<1>8. StatusInv'
    BY <1>1 DEF DiagnosisInv, StatusInv
<1>9. QED
    BY <1>3, <1>4, <1>5, <1>6, <1>7, <1>8 DEF DiagnosisInv

LEMMA SharesKeeps ==
    ASSUME DiagnosisInv, Diagnose!Shares
    PROVE  DiagnosisInv'
<1>1. /\ at = "shares" /\ at' = "h_look" /\ Stays /\ status' = status
      /\ result \in Results /\ "shares" \in Diagnose!Flags /\ {"yes", "no"} \subseteq Values
    BY TypesAre
       DEF DiagnosisInv, Stays, Values, Diagnose!Flags, Diagnose!Shares,
           Diagnose!Goto, Diagnose!StageFails
<1>2. Sets("shares", "root_shares")
    BY <1>1, FlagSet
       DEF DiagnosisInv, FailedInv, Sets, Diagnose!Shares, Diagnose!StageFails
<1>3. Diagnose!TypeOK'
    BY <1>1, <1>2, TypesAre, TypesAreNext
       DEF DiagnosisInv, Stays, Sets, Places, Early, StageNames, Reviewing
<1>4. WriteInv'
    BY <1>1, <1>2
       DEF DiagnosisInv, WriteInv, WriteUntouched, Untouched, Early, InWrite, Writing, Stays,
           Sets, Diagnose!Flags
<1>5. HouseholdInv'
    BY <1>1, <1>2
       DEF DiagnosisInv, HouseholdInv, HouseholdUntouched, Untouched, HasFolder, Reviewing,
           Ending,
           AppsInv, Stays, Sets, Diagnose!Flags
<1>6. AppsInv'
    BY <1>1, <1>2
       DEF DiagnosisInv, AppsInv, Reviewing, Ending, Stays, Sets, Diagnose!Flags
<1>7. FailedInv'
    BY <1>1, <1>2
       DEF DiagnosisInv, FailedInv, AppsInv, Reviewing, Ending, Stays, Sets,
           Diagnose!Flags
<1>8. StatusInv'
    BY <1>1 DEF DiagnosisInv, StatusInv
<1>9. QED
    BY <1>3, <1>4, <1>5, <1>6, <1>7, <1>8 DEF DiagnosisInv

LEMMA PassesKeep ==
    ASSUME DiagnosisInv, Diagnose!Native \/ Diagnose!AppsOrNot
    PROVE  DiagnosisInv'
<1>1. /\ \/ at = "native" /\ at' = "w_mkcol" /\ "write" \in asked
         \/ at = "native" /\ at' = "apps_or_not" /\ "write" \notin asked
         \/ at = "apps_or_not" /\ at' = "apps" /\ "v020" \in asked
         \/ at = "apps_or_not" /\ at' = "exit" /\ "v020" \notin asked
      /\ Stays /\ status' = status /\ result' = result /\ failed_stages' = failed_stages
    BY
       DEF Stays, Diagnose!Native, Diagnose!AppsOrNot,
           Diagnose!WriteOrNot, Diagnose!Goto
<1>2. Diagnose!TypeOK'
    BY <1>1, TypesAre, TypesAreNext DEF DiagnosisInv, Stays, Places, InWrite, Writing
<1>3. WriteInv'
    BY <1>1
       DEF DiagnosisInv, WriteInv, WriteUntouched, Untouched, Early, InWrite, Writing, Stays
<1>4. HouseholdInv'
    BY <1>1
       DEF DiagnosisInv, HouseholdInv, HouseholdUntouched, Untouched, HasFolder, Reviewing,
           Ending, Stays
<1>5. AppsInv' /\ FailedInv' /\ StatusInv'
    BY <1>1 DEF DiagnosisInv, AppsInv, FailedInv, StatusInv, Reviewing, Ending, Stays
<1>6. QED
    BY <1>2, <1>3, <1>4, <1>5 DEF DiagnosisInv

\* What a request makes of a folder.
LEMMA EffectIs ==
    ASSUME NEW s, NEW has \in SUBSET Things
    PROVE  /\ Diagnose!Effect(s, has) \in SUBSET Things
           /\ s \in {"w_delete", "w_cleanup", "h_cleanup"} => Diagnose!Effect(s, has) = {}
           /\ s \in Reviewing /\ "folder" \in has => "folder" \in Diagnose!Effect(s, has)
           /\ s = "h_mkcol" => "folder" \in Diagnose!Effect(s, has)
           /\ s = "h_look" => Diagnose!Effect(s, has) = has
    BY DEF Diagnose!Effect, Things, Reviewing

Trees == [{"write", "v020"} -> SUBSET Things]

LEMMA DoesOne ==
    ASSUME remote \in Trees, NEW t \in {"write", "v020"}, NEW s, Diagnose!Does(t, s)
    PROVE  /\ remote' \in Trees /\ remote'[t] = Diagnose!Effect(s, remote[t])
           /\ \A u \in {"write", "v020"} : u # t => remote'[u] = remote[u]
<1>1. remote[t] \in SUBSET Things
    BY DEF Trees
<1>2. PICK e : e = Diagnose!Effect(s, remote[t])
    OBVIOUS
<1>3. e \in SUBSET Things
    BY <1>1, <1>2, EffectIs
<1>4. remote' = [remote EXCEPT ![t] = e]
    BY <1>2 DEF Diagnose!Does
<1>5. QED
    BY <1>2, <1>3, <1>4 DEF Trees

\* A request of one test leaves the other one alone, and a folder is made late
\* only when it was to be made.
LEMMA FailsOne ==
    ASSUME remote \in Trees, NEW t \in {"write", "v020"}, NEW s, Diagnose!Fails(t, s)
    PROVE  /\ remote' \in Trees
           /\ \A u \in {"write", "v020"} : u # t => remote'[u] = remote[u]
           /\ remote'[t] = remote[t] \/ remote'[t] = Diagnose!Effect(s, remote[t])
           /\ \/ late' = late
              \/ late' = late \union {t} /\ s \in {"w_mkcol", "h_mkcol"}
<1>1. CASE UNCHANGED <<remote, late>>
    BY <1>1
<1>2. CASE Diagnose!Does(t, s) /\ UNCHANGED late
    BY <1>2, DoesOne
<1>3. QED
    BY <1>1, <1>2 DEF Diagnose!Fails

LEMMA WriteStepKeeps ==
    ASSUME DiagnosisInv, NEW s \in Writing, Diagnose!WriteStep(s)
    PROVE  DiagnosisInv'
<1>1. /\ at = s /\ at' = Diagnose!WriteNext[s] /\ Diagnose!Does("write", s) /\ remote \in Trees
      /\ asked' = asked /\ late' = late /\ status' = status /\ failed_stages' = failed_stages
      /\ guarded' \in BOOLEAN
    BY TypesAre DEF DiagnosisInv, Trees, Diagnose!WriteStep, Diagnose!Goto
<1>2. /\ remote' \in Trees /\ remote'["v020"] = remote["v020"]
      /\ remote'["write"] = Diagnose!Effect(s, remote["write"])
    BY <1>1, DoesOne
<1>3. at' \in (Writing \ {"w_mkcol"}) \union {"apps_or_not"} /\ (at' = "apps_or_not" <=> s = "w_delete")
    BY <1>1, StepsAre
<1>4. /\ result' \in Results
      /\ \A g \in Diagnose!Flags \ {"write", "cleanup"} : result'[g] = result[g]
      /\ IF s = "w_delete" THEN result'["write"] = "yes" /\ result'["cleanup"] = "yes"
                           ELSE result' = result
  <2>1. result \in Results /\ "write" \in Diagnose!Flags /\ "cleanup" \in Diagnose!Flags /\ "yes" \in Values
      BY TypesAre DEF DiagnosisInv, Diagnose!Flags, Values
  <2>2. result' = IF s = "w_delete"
                  THEN [result EXCEPT !["write"] = "yes", !["cleanup"] = "yes"] ELSE result
      BY DEF Diagnose!WriteStep
  <2>3. QED
      BY <2>1, <2>2 DEF Results
<1>5. s = "w_delete" => remote'["write"] = {}
  <2>1. remote["write"] \in SUBSET Things
      BY <1>1 DEF Trees
  <2>2. QED
      BY <1>2, <2>1, EffectIs
<1>6. Diagnose!TypeOK'
    BY <1>1, <1>2, <1>3, <1>4, TypesAre, TypesAreNext DEF DiagnosisInv, Places, InWrite, Trees
<1>7. WriteInv'
    BY <1>1, <1>3, <1>4, <1>5
       DEF DiagnosisInv, WriteInv, WriteUntouched, Untouched, Early, InWrite, Writing
<1>8. HouseholdInv'
    BY <1>1, <1>2, <1>3, <1>4
       DEF DiagnosisInv, HouseholdInv, HouseholdUntouched, Untouched, HasFolder, Reviewing,
           Ending,
           Writing, Diagnose!Flags
<1>9. AppsInv'
    BY <1>1, <1>3, <1>4
       DEF DiagnosisInv, AppsInv, Reviewing, Ending, Writing, Diagnose!Flags
<1>10. FailedInv'
    BY <1>1, <1>3, <1>4
       DEF DiagnosisInv, FailedInv, WriteInv, InWrite, Writing, Diagnose!Flags
<1>11. StatusInv'
    BY <1>1 DEF DiagnosisInv, StatusInv, Writing
<1>12. QED
    BY <1>6, <1>7, <1>8, <1>9, <1>10, <1>11 DEF DiagnosisInv

\* The write test ends without success.
LEMMA WriteEndsKeeps ==
    ASSUME DiagnosisInv, NEW s \in InWrite, at = s,
           at' = "apps_or_not", asked' = asked, status' = status, guarded' = guarded,
           remote' \in Trees, remote'["v020"] = remote["v020"],
           late' = late \/ late' = late \union {"write"},
           failed_stages' = failed_stages \union {"webdav_write"},
           result' \in Results, result'["write"] = "no",
           \A g \in Diagnose!Flags \ {"write", "cleanup"} : result'[g] = result[g],
           result'["cleanup"] = "yes" => remote'["write"] = {} /\ late' = late
    PROVE  DiagnosisInv'
<1>1. Diagnose!TypeOK'
    BY TypesAre, TypesAreNext DEF DiagnosisInv, Places, Trees, StageNames
<1>2. WriteInv'
    BY DEF DiagnosisInv, WriteInv, WriteUntouched, Untouched, Early, InWrite, Writing
<1>3. HouseholdInv'
    BY
       DEF DiagnosisInv, HouseholdInv, HouseholdUntouched, Untouched, HasFolder, Reviewing,
           Ending,
           InWrite, Writing, Diagnose!Flags
<1>4. AppsInv'
    BY DEF DiagnosisInv, AppsInv, Reviewing, Ending, InWrite, Writing, Diagnose!Flags
<1>5. FailedInv'
    BY DEF DiagnosisInv, FailedInv, InWrite, Writing, Diagnose!Flags
<1>6. StatusInv'
    BY DEF DiagnosisInv, StatusInv, InWrite, Writing
<1>7. QED
    BY <1>1, <1>2, <1>3, <1>4, <1>5, <1>6 DEF DiagnosisInv

LEMMA WriteFailedIs ==
    ASSUME NEW flags \in Results, Diagnose!WriteFailed(flags)
    PROVE  /\ at' = "apps_or_not" /\ failed_stages' = failed_stages \union {"webdav_write"}
           /\ result' \in Results /\ result'["write"] = "no"
           /\ \A g \in Diagnose!Flags \ {"write"} : result'[g] = flags[g]
<1>1. "write" \in Diagnose!Flags /\ "no" \in Values
    BY DEF Diagnose!Flags, Values
<1>2. QED
    BY <1>1 DEF Diagnose!WriteFailed, Diagnose!Goto, Results

LEMMA WriteBreaksKeeps ==
    ASSUME DiagnosisInv, NEW s \in Writing, Diagnose!WriteBreaks(s)
    PROVE  DiagnosisInv'
<1>1. /\ at = s /\ Diagnose!Fails("write", s) /\ remote \in Trees /\ result \in Results
      /\ asked' = asked /\ status' = status /\ guarded' = guarded
    BY TypesAre DEF DiagnosisInv, Trees, Diagnose!WriteBreaks
<1>2. /\ remote' \in Trees /\ remote'["v020"] = remote["v020"]
      /\ late' = late \/ (late' = late \union {"write"} /\ s = "w_mkcol")
    BY <1>1, FailsOne DEF Writing
<1>3. CASE guarded
  <2>1. /\ at' = "w_cleanup" /\ result' = result /\ failed_stages' = failed_stages
        /\ s # "w_mkcol" /\ late' = late
      BY <1>1, <1>2, <1>3
         DEF DiagnosisInv, WriteInv, Diagnose!WriteBreaks, Diagnose!Goto
  <2>2. Diagnose!TypeOK'
      BY <1>1, <1>2, <2>1, TypesAre, TypesAreNext DEF DiagnosisInv, Places, InWrite, Trees
  <2>3. WriteInv'
      BY <1>1, <2>1
         DEF DiagnosisInv, WriteInv, WriteUntouched, Untouched, Early, InWrite, Writing
  <2>4. HouseholdInv'
      BY <1>1, <1>2, <2>1
         DEF DiagnosisInv, HouseholdInv, HouseholdUntouched, Untouched, HasFolder, Reviewing,
             Ending,
             Writing
  <2>5. AppsInv' /\ FailedInv' /\ StatusInv'
      BY <1>1, <2>1 DEF DiagnosisInv, AppsInv, FailedInv, StatusInv, Reviewing, Ending, Writing
  <2>6. QED
      BY <2>2, <2>3, <2>4, <2>5 DEF DiagnosisInv
<1>4. CASE ~guarded
  <2>1. Diagnose!WriteFailed(result)
      BY <1>4 DEF Diagnose!WriteBreaks
  <2>2. /\ at' = "apps_or_not" /\ failed_stages' = failed_stages \union {"webdav_write"}
        /\ result' \in Results /\ result'["write"] = "no"
        /\ \A g \in Diagnose!Flags \ {"write"} : result'[g] = result[g]
      BY <1>1, <2>1, WriteFailedIs
  <2>3. result'["cleanup"] = "none"
      BY <1>1, <2>2 DEF DiagnosisInv, WriteInv, InWrite, Diagnose!Flags
  <2>4. s \in InWrite
      BY DEF InWrite
  <2>5. QED
      BY <1>1, <1>2, <2>2, <2>3, <2>4, WriteEndsKeeps
<1>5. QED
    BY <1>3, <1>4

LEMMA WriteCleanupKeeps ==
    ASSUME DiagnosisInv, Diagnose!WriteCleanup
    PROVE  DiagnosisInv'
<1>1. /\ at = "w_cleanup" /\ remote \in Trees /\ result \in Results /\ at \in InWrite
      /\ asked' = asked /\ status' = status /\ guarded' = guarded
    BY TypesAre DEF DiagnosisInv, Trees, Diagnose!WriteCleanup, InWrite
<1>2. "cleanup" \in Diagnose!Flags /\ "cleanup" # "write" /\ {"yes", "no"} \subseteq Values
    BY DEF Diagnose!Flags, Values
<1>3. CASE Diagnose!Does("write", at) /\ late' = late /\ Diagnose!WriteFailed([result EXCEPT !["cleanup"] = "yes"])
  <2>1. PICK flags : flags = [result EXCEPT !["cleanup"] = "yes"]
      OBVIOUS
  <2>2. flags \in Results /\ \A g \in Diagnose!Flags \ {"cleanup"} : flags[g] = result[g]
      BY <1>1, <1>2, <2>1 DEF Results
  <2>3. /\ at' = "apps_or_not" /\ failed_stages' = failed_stages \union {"webdav_write"}
        /\ result' \in Results /\ result'["write"] = "no"
        /\ \A g \in Diagnose!Flags \ {"write"} : result'[g] = flags[g]
      BY <1>3, <2>1, <2>2, WriteFailedIs
  <2>4. /\ remote' \in Trees /\ remote'["v020"] = remote["v020"]
        /\ remote'["write"] = {}
    <3>1. remote["write"] \in SUBSET Things
        BY <1>1 DEF Trees
    <3>2. QED
        BY <1>1, <1>3, <3>1, DoesOne, EffectIs
  <2>5. \A g \in Diagnose!Flags \ {"write", "cleanup"} : result'[g] = result[g]
      BY <2>2, <2>3
  <2>6. QED
      BY <1>1, <1>3, <2>3, <2>4, <2>5, WriteEndsKeeps
<1>4. CASE Diagnose!Fails("write", at) /\ Diagnose!WriteFailed([result EXCEPT !["cleanup"] = "no"])
  <2>1. PICK flags : flags = [result EXCEPT !["cleanup"] = "no"]
      OBVIOUS
  <2>2. /\ flags \in Results /\ flags["cleanup"] = "no"
        /\ \A g \in Diagnose!Flags \ {"cleanup"} : flags[g] = result[g]
      BY <1>1, <1>2, <2>1 DEF Results
  <2>3. /\ at' = "apps_or_not" /\ failed_stages' = failed_stages \union {"webdav_write"}
        /\ result' \in Results /\ result'["write"] = "no"
        /\ \A g \in Diagnose!Flags \ {"write"} : result'[g] = flags[g]
      BY <1>4, <2>1, <2>2, WriteFailedIs
  <2>4. /\ remote' \in Trees /\ remote'["v020"] = remote["v020"]
        /\ late' = late \/ late' = late \union {"write"}
      BY <1>1, <1>4, FailsOne
  <2>5. /\ \A g \in Diagnose!Flags \ {"write", "cleanup"} : result'[g] = result[g]
        /\ result'["cleanup"] = "no"
      BY <1>2, <2>2, <2>3
  <2>6. QED
      BY <1>1, <2>3, <2>4, <2>5, WriteEndsKeeps
<1>5. QED
    BY <1>3, <1>4 DEF Diagnose!WriteCleanup

LEMMA HouseholdStepKeeps ==
    ASSUME DiagnosisInv, NEW s \in Reviewing, Diagnose!HouseholdStep(s)
    PROVE  DiagnosisInv'
<1>1. /\ at = s /\ at' = Diagnose!HouseholdNext[s] /\ Diagnose!Does("v020", s) /\ remote \in Trees
      /\ asked' = asked /\ late' = late /\ status' = status /\ failed_stages' = failed_stages
      /\ guarded' = guarded /\ result \in Results
    BY TypesAre DEF DiagnosisInv, Trees, Diagnose!HouseholdStep, Diagnose!Goto
<1>2. remote' \in Trees /\ remote'["write"] = remote["write"] /\ remote["v020"] \in SUBSET Things
    BY <1>1, DoesOne DEF Trees
<1>3. /\ s = "h_look" => remote'["v020"] = remote["v020"]
      /\ s # "h_look" => "folder" \in remote'["v020"]
  <2>1. remote'["v020"] = Diagnose!Effect(s, remote["v020"])
      BY <1>1, DoesOne
  <2>2. s \in HasFolder => "folder" \in remote["v020"]
      BY <1>1 DEF DiagnosisInv, HouseholdInv
  <2>3. s = "h_look" \/ s = "h_mkcol" \/ s \in HasFolder
      BY DEF HasFolder
  <2>4. QED
      BY <1>2, <2>1, <2>2, <2>3, EffectIs DEF HasFolder
<1>4. /\ at' \in (Reviewing \ {"h_look"}) \union {"h_exists"}
      /\ at' = "h_exists" <=> s = "h_download"
      /\ at' = "h_mkcol" <=> s = "h_look"
    BY <1>1, StepsAre DEF Reviewing
<1>5. /\ result' \in Results
      /\ \A g \in Diagnose!Flags \ {"household"} : result'[g] = result[g]
      /\ result'["household"] = IF s = "h_download" THEN "yes" ELSE "none"
  <2>1. "household" \in Diagnose!Flags /\ "yes" \in Values
      BY DEF Diagnose!Flags, Values
  <2>2. result["household"] = "none"
      BY <1>1 DEF DiagnosisInv, HouseholdInv
  <2>3. QED
      BY <1>1, <2>1, <2>2, FlagSet DEF Diagnose!HouseholdStep
<1>6. Diagnose!TypeOK'
    BY <1>1, <1>2, <1>4, <1>5, TypesAre, TypesAreNext DEF DiagnosisInv, Places, Trees, Ending
<1>7. WriteInv'
    BY <1>1, <1>2, <1>4, <1>5
       DEF DiagnosisInv, WriteInv, WriteUntouched, Untouched, Early, InWrite, Writing,
           Reviewing, Diagnose!Flags
<1>8. HouseholdInv'
    BY <1>1, <1>3, <1>4, <1>5
       DEF DiagnosisInv, HouseholdInv, HouseholdUntouched, Untouched, HasFolder, Reviewing,
           Ending, Diagnose!Flags
<1>9. AppsInv'
    BY <1>1, <1>4, <1>5 DEF DiagnosisInv, AppsInv, Reviewing, Ending, Diagnose!Flags
<1>10. FailedInv'
    BY <1>1, <1>4, <1>5
       DEF DiagnosisInv, FailedInv, HouseholdInv, Reviewing, Diagnose!Flags
<1>11. StatusInv'
    BY <1>1 DEF DiagnosisInv, StatusInv, Reviewing
<1>12. QED
    BY <1>6, <1>7, <1>8, <1>9, <1>10, <1>11 DEF DiagnosisInv

LEMMA HouseholdBreaksKeeps ==
    ASSUME DiagnosisInv, NEW s \in Reviewing, Diagnose!HouseholdBreaks(s)
    PROVE  DiagnosisInv'
<1>1. /\ at = s /\ at' = "h_exists" /\ Diagnose!Fails("v020", s) /\ remote \in Trees
      /\ asked' = asked /\ status' = status /\ guarded' = guarded
      /\ result' = result /\ failed_stages' = failed_stages
    BY TypesAre
       DEF DiagnosisInv, Trees, Diagnose!HouseholdBreaks, Diagnose!Goto
<1>2. /\ remote' \in Trees /\ remote'["write"] = remote["write"]
      /\ late' = late \/ late' = late \union {"v020"}
    BY <1>1, FailsOne
<1>3. Diagnose!TypeOK'
    BY <1>1, <1>2, TypesAre, TypesAreNext DEF DiagnosisInv, Places, Trees, Ending
<1>4. WriteInv'
    BY <1>1, <1>2
       DEF DiagnosisInv, WriteInv, WriteUntouched, Untouched, Early, InWrite, Writing, Reviewing
<1>5. HouseholdInv'
    BY <1>1
       DEF DiagnosisInv, HouseholdInv, HouseholdUntouched, Untouched, HasFolder, Reviewing,
           Ending
<1>6. AppsInv'
    BY <1>1 DEF DiagnosisInv, AppsInv, Reviewing, Ending
<1>7. FailedInv'
    BY <1>1 DEF DiagnosisInv, FailedInv, Reviewing
<1>8. StatusInv'
    BY <1>1 DEF DiagnosisInv, StatusInv, Reviewing
<1>9. QED
    BY <1>3, <1>4, <1>5, <1>6, <1>7, <1>8 DEF DiagnosisInv

\* The household test ends: its folder is gone when a good run says so.
LEMMA HouseholdEndsKeeps ==
    ASSUME DiagnosisInv, at \in Ending, NEW clean \in {"yes", "no"},
           Diagnose!HouseholdEnds(clean),
           asked' = asked, status' = status, guarded' = guarded,
           remote' \in Trees, remote'["write"] = remote["write"],
           late' = late \/ late' = late \union {"v020"},
           clean = "yes" /\ result["household"] = "yes" => remote'["v020"] = {} /\ late' = late
    PROVE  DiagnosisInv'
<1>1. PICK how : how = IF result["household"] = "yes" THEN "yes" ELSE "no"
    OBVIOUS
<1>2. how \in {"yes", "no"} /\ (how = "yes" <=> result["household"] = "yes")
    BY <1>1
<1>3. /\ result' = [result EXCEPT !["household"] = how, !["household_cleanup"] = clean]
      /\ failed_stages' = failed_stages \union (IF how = "yes" THEN {} ELSE {"household_invoice"})
                            \union (IF clean = "yes" THEN {} ELSE {"household_cleanup"})
      /\ at' = "exit"
    BY <1>1 DEF Diagnose!HouseholdEnds, Diagnose!Goto
<1>4. /\ result' \in Results
      /\ \A g \in Diagnose!Flags \ {"household", "household_cleanup"} : result'[g] = result[g]
      /\ result'["household"] = how /\ result'["household_cleanup"] = clean
  <2>1. result \in Results /\ "household" \in Diagnose!Flags /\ "household_cleanup" \in Diagnose!Flags
      BY TypesAre DEF DiagnosisInv, Diagnose!Flags
  <2>2. how \in Values /\ clean \in Values
      BY <1>2 DEF Values
  <2>3. QED
      BY <1>3, <2>1, <2>2 DEF Results
<1>5. Diagnose!TypeOK'
    BY <1>3, <1>4, TypesAre, TypesAreNext DEF DiagnosisInv, Places, Trees, StageNames
<1>6. WriteInv'
    BY <1>3, <1>4
       DEF DiagnosisInv, WriteInv, WriteUntouched, Untouched, Early, InWrite, Writing, Ending,
           Diagnose!Flags
<1>7. HouseholdInv'
    BY <1>2, <1>3, <1>4
       DEF DiagnosisInv, HouseholdInv, HouseholdUntouched, Untouched, HasFolder, Reviewing,
           Ending
<1>8. AppsInv'
    BY <1>2, <1>3, <1>4
       DEF DiagnosisInv, AppsInv, HouseholdInv, Reviewing, Ending, Diagnose!Flags
<1>9. FailedInv'
  <2>1. /\ "household_cleanup" \notin failed_stages /\ "household_invoice" \notin failed_stages
        /\ result["household"] # "no"
      BY DEF DiagnosisInv, FailedInv, HouseholdInv
  <2>2. QED
      BY <1>2, <1>3, <1>4, <2>1 DEF DiagnosisInv, FailedInv, Ending, Diagnose!Flags
<1>10. StatusInv'
    BY DEF DiagnosisInv, StatusInv, Ending
<1>11. QED
    BY <1>5, <1>6, <1>7, <1>8, <1>9, <1>10 DEF DiagnosisInv

LEMMA HouseholdExistsKeeps ==
    ASSUME DiagnosisInv, Diagnose!HouseholdExists
    PROVE  DiagnosisInv'
<1>1. /\ at = "h_exists" /\ at \in Ending /\ remote \in Trees
      /\ asked' = asked /\ remote' = remote /\ late' = late /\ guarded' = guarded /\ status' = status
    BY TypesAre DEF DiagnosisInv, Trees, Ending, Diagnose!HouseholdExists
<1>2. CASE at' = "h_cleanup" /\ result' = result /\ failed_stages' = failed_stages
  <2>1. Diagnose!TypeOK'
      BY <1>1, <1>2, TypesAre, TypesAreNext DEF DiagnosisInv, Places, Ending
  <2>2. WriteInv'
      BY <1>1, <1>2
         DEF DiagnosisInv, WriteInv, WriteUntouched, Untouched, Early, InWrite, Writing, Ending
  <2>3. HouseholdInv'
      BY <1>1, <1>2
         DEF DiagnosisInv, HouseholdInv, HouseholdUntouched, Untouched, HasFolder, Reviewing,
             Ending
  <2>4. AppsInv' /\ FailedInv' /\ StatusInv'
      BY <1>1, <1>2 DEF DiagnosisInv, AppsInv, FailedInv, StatusInv, Reviewing, Ending
  <2>5. QED
      BY <2>1, <2>2, <2>3, <2>4 DEF DiagnosisInv
<1>3. CASE "folder" \notin remote["v020"] /\ Diagnose!HouseholdEnds("yes")
  <2>1. result["household"] # "yes"
      BY <1>1, <1>3 DEF DiagnosisInv, HouseholdInv
  <2>2. QED
      BY <1>1, <1>3, <2>1, HouseholdEndsKeeps
<1>4. CASE Diagnose!HouseholdEnds("no")
    BY <1>1, <1>4, HouseholdEndsKeeps
<1>5. QED
    BY <1>2, <1>3, <1>4 DEF Diagnose!HouseholdExists, Diagnose!Goto

LEMMA HouseholdCleanupKeeps ==
    ASSUME DiagnosisInv, Diagnose!HouseholdCleanup
    PROVE  DiagnosisInv'
<1>1. /\ at = "h_cleanup" /\ at \in Ending /\ remote \in Trees /\ remote["v020"] \in SUBSET Things
      /\ asked' = asked /\ guarded' = guarded /\ status' = status
    BY TypesAre DEF DiagnosisInv, Trees, Ending, Diagnose!HouseholdCleanup
<1>2. CASE Diagnose!Does("v020", at) /\ late' = late /\ Diagnose!HouseholdEnds("yes")
  <2>1. remote' \in Trees /\ remote'["write"] = remote["write"] /\ remote'["v020"] = {}
      BY <1>1, <1>2, DoesOne, EffectIs
  <2>2. QED
      BY <1>1, <1>2, <2>1, HouseholdEndsKeeps
<1>3. CASE Diagnose!Fails("v020", at) /\ Diagnose!HouseholdEnds("no")
  <2>1. /\ remote' \in Trees /\ remote'["write"] = remote["write"]
        /\ late' = late \/ late' = late \union {"v020"}
      BY <1>1, <1>3, FailsOne
  <2>2. QED
      BY <1>1, <1>3, <2>1, HouseholdEndsKeeps
<1>4. QED
    BY <1>2, <1>3 DEF Diagnose!HouseholdCleanup

LEMMA ExitKeeps ==
    ASSUME DiagnosisInv, Diagnose!Exit
    PROVE  DiagnosisInv'
<1>1. /\ at = "exit" /\ at' = at /\ Stays /\ result' = result /\ failed_stages' = failed_stages
      /\ status' = IF Diagnose!Successful THEN "zero" ELSE "one"
    BY DEF Stays, Diagnose!Exit
<1>2. Diagnose!TypeOK'
    BY <1>1, TypesAre, TypesAreNext DEF DiagnosisInv, Stays
<1>3. WriteInv' /\ HouseholdInv' /\ AppsInv' /\ FailedInv'
    BY <1>1
       DEF DiagnosisInv, WriteInv, HouseholdInv, AppsInv, FailedInv, WriteUntouched,
           HouseholdUntouched, Untouched, Stays
<1>4. Diagnose!Successful' = Diagnose!Successful
    BY <1>1 DEF Diagnose!Successful, Stays
<1>5. StatusInv'
    BY <1>1, <1>4 DEF StatusInv
<1>6. QED
    BY <1>2, <1>3, <1>5 DEF DiagnosisInv

LEMMA LateFolderKeeps ==
    ASSUME DiagnosisInv, NEW t \in {"write", "v020"}, Diagnose!LateFolder(t)
    PROVE  DiagnosisInv'
<1>1. /\ t \in late /\ late' = late \ {t} /\ remote \in Trees
      /\ remote' = [remote EXCEPT ![t] = @ \union {"folder"}]
      /\ at' = at /\ asked' = asked /\ result' = result /\ failed_stages' = failed_stages
      /\ guarded' = guarded /\ status' = status
    BY TypesAre DEF DiagnosisInv, Trees, Diagnose!LateFolder
<1>2. /\ remote' \in Trees /\ \A u \in {"write", "v020"} : u # t => remote'[u] = remote[u]
      /\ "folder" \in remote'[t] /\ remote[t] \subseteq remote'[t]
  <2>1. remote[t] \union {"folder"} \in SUBSET Things
      BY <1>1 DEF Trees, Things
  <2>2. QED
      BY <1>1, <2>1 DEF Trees
<1>3. Diagnose!TypeOK'
    BY <1>1, <1>2, TypesAre, TypesAreNext DEF DiagnosisInv, Trees
<1>4. WriteInv'
    BY <1>1, <1>2 DEF DiagnosisInv, WriteInv, WriteUntouched, Untouched
<1>5. HouseholdInv'
    BY <1>1, <1>2 DEF DiagnosisInv, HouseholdInv, HouseholdUntouched, Untouched
<1>6. AppsInv' /\ FailedInv'
    BY <1>1 DEF DiagnosisInv, AppsInv, FailedInv
<1>7. Diagnose!Successful' = Diagnose!Successful
    BY <1>1 DEF Diagnose!Successful
<1>8. StatusInv'
    BY <1>1, <1>7 DEF DiagnosisInv, StatusInv
<1>9. QED
    BY <1>3, <1>4, <1>5, <1>6, <1>8 DEF DiagnosisInv

LEMMA DiagnosisStep ==
    ASSUME DiagnosisInv, Diagnose!Next
    PROVE  DiagnosisInv'
<1>1. CASE \E s \in DOMAIN Diagnose!WriteNext : Diagnose!WriteStep(s) \/ Diagnose!WriteBreaks(s)
    BY <1>1, StepsAre, WriteStepKeeps, WriteBreaksKeeps
<1>2. CASE \E s \in DOMAIN Diagnose!HouseholdNext : Diagnose!HouseholdStep(s) \/ Diagnose!HouseholdBreaks(s)
    BY <1>2, StepsAre, HouseholdStepKeeps, HouseholdBreaksKeeps
<1>3. CASE \E t \in Diagnose!Tests : Diagnose!LateFolder(t)
    BY <1>3, LateFolderKeeps DEF Diagnose!Tests
<1>4. QED
    BY <1>1, <1>2, <1>3, OcsKeeps, WebdavKeeps, AppsKeeps, SharesKeeps, PassesKeep,
       WriteCleanupKeeps, HouseholdExistsKeeps, HouseholdCleanupKeeps, ExitKeeps
       DEF Diagnose!Next, Diagnose!Program

LEMMA DiagnosisSays ==
    ASSUME DiagnosisInv
    PROVE  /\ Diagnose!TypeOK /\ Diagnose!SuccessMeansClean
           /\ Diagnose!FailureNamed
           /\ Diagnose!CleanupHonest /\ Diagnose!EveryStageReported
<1>1. Diagnose!TypeOK
    BY DEF DiagnosisInv
<1>2. Diagnose!CleanupHonest
    BY DEF DiagnosisInv, WriteInv, HouseholdInv, Untouched, Diagnose!CleanupHonest
<1>3. Diagnose!SuccessMeansClean
  <2> SUFFICES ASSUME status = "zero" PROVE Untouched("write") /\ Untouched("v020")
      BY DEF Diagnose!SuccessMeansClean, Diagnose!Tests, Untouched
  <2>1. Diagnose!Successful
      BY DEF DiagnosisInv, StatusInv
  <2>2. QED
      BY <2>1
         DEF DiagnosisInv, WriteInv, HouseholdInv, WriteUntouched, HouseholdUntouched,
             Diagnose!Successful
<1>4. Diagnose!FailureNamed
  <2> SUFFICES ASSUME status # "running" PROVE status = "one" <=> failed_stages # {}
      BY DEF Diagnose!FailureNamed
  <2>1. /\ at = "exit" /\ (status = "one" <=> ~Diagnose!Successful)
      BY TypesAre DEF DiagnosisInv, StatusInv
  <2>2. failed_stages # {} => ~Diagnose!Successful
    <3>1. failed_stages \in SUBSET StageNames
        BY TypesAre DEF DiagnosisInv
    <3>2. QED
        BY <3>1
           DEF DiagnosisInv, FailedInv, WriteInv, HouseholdInv, AppsInv, WriteUntouched,
               HouseholdUntouched, StageNames, Diagnose!Successful
  <2>3. ~Diagnose!Successful => failed_stages # {}
    <3>1. \A f \in Diagnose!Flags : result[f] \in {"none", "yes", "no"}
        BY TypesAre DEF DiagnosisInv, Results, Values
    <3>2. QED
        BY <2>1, <3>1
           DEF DiagnosisInv, FailedInv, WriteInv, AppsInv, Early, InWrite, Writing,
               Diagnose!Flags, Diagnose!Successful
  <2>4. QED
      BY <2>1, <2>2, <2>3
<1>5. Diagnose!EveryStageReported
    BY
       DEF DiagnosisInv, StatusInv, WriteInv, AppsInv, Early, InWrite, Writing,
           Diagnose!EveryStageReported
<1>6. QED
    BY <1>1, <1>2, <1>3, <1>4, <1>5

-----------------------------------------------------------------------------
(* The preflight: what it asks, and what is made of an answer. *)

Order ==
  <<"liveness", "readiness", "resource_metadata", "oauth_challenge", "discovery",
    "website", "support", "privacy", "terms", "domain_challenge">>

Asks(c) == IF c.challenge THEN 10 ELSE 9

LEMMA StagesAre ==
    /\ Len(Preflight!Stages) = Asks(config) /\ DOMAIN Preflight!Stages = 1..Asks(config)
    /\ \A i \in 1..Asks(config) : Preflight!Stages[i] = Order[i]
    BY DEF Preflight!Stages, Order, Asks

LEMMA OrderIs ==
    /\ \A i, k \in 1..10 : Order[i] = Order[k] => i = k
    /\ Preflight!Required = {Order[i] : i \in 1..Asks(config)}
<1>1. \A i, k \in 1..10 : Order[i] = Order[k] => i = k
    BY DEF Order
<1>2. CASE config.challenge
  <2>1. \A x : x \in Preflight!Required <=>
          x \in {"liveness", "readiness", "resource_metadata", "oauth_challenge", "discovery",
                 "website", "support", "privacy", "terms", "domain_challenge"}
      BY <1>2 DEF Preflight!Required, Preflight!PublicUrls
  <2>2. \A x : (\E i \in 1..10 : x = Order[i]) <=>
          x \in {"liveness", "readiness", "resource_metadata", "oauth_challenge", "discovery",
                 "website", "support", "privacy", "terms", "domain_challenge"}
      BY DEF Order
  <2>3. QED
      BY <1>1, <1>2, <2>1, <2>2 DEF Asks
<1>3. CASE ~config.challenge
  <2>1. \A x : x \in Preflight!Required <=>
          x \in {"liveness", "readiness", "resource_metadata", "oauth_challenge", "discovery",
                 "website", "support", "privacy", "terms"}
      BY <1>3 DEF Preflight!Required, Preflight!PublicUrls
  <2>2. \A x : (\E i \in 1..9 : x = Order[i]) <=>
          x \in {"liveness", "readiness", "resource_metadata", "oauth_challenge", "discovery",
                 "website", "support", "privacy", "terms"}
      BY DEF Order
  <2>3. QED
      BY <1>1, <1>3, <2>1, <2>2 DEF Asks
<1>4. QED
    BY <1>2, <1>3

\* Everything that configuration c requires of the answer to s is right.
Complete(c, s, d) ==
  IF s = "resource_metadata" THEN Preflight!ResourceMembers \subseteq d
  ELSE IF s = "discovery"
    THEN /\ {"issuer", "authorization_endpoint", "token_endpoint", "S256", "scopes_supported"} \subseteq d
         /\ c.mode = "cimd" => {"client_id_metadata_document_supported", "auth"} \subseteq d
         /\ c.mode = "dcr" => "registration_endpoint" \in d
         /\ c.mode = "predefined" => "auth" \in d \/ "secret" \in d
         /\ c.require_userinfo => {"userinfo_endpoint", "email_scopes"} \subseteq d
    ELSE d = Preflight!Members(s)

\* The names of the checks made of it.
Made(c, s) ==
  IF s = "resource_metadata" THEN Preflight!ResourceMembers
  ELSE IF s = "discovery"
    THEN {"issuer", "authorization_endpoint", "token_endpoint", "S256", "scopes_supported",
          "client_registration"}
           \union IF c.require_userinfo THEN {"userinfo_endpoint", "email_scopes"} ELSE {}
    ELSE {s}

Configs == [mode : Preflight!Modes, require_userinfo : BOOLEAN, challenge : BOOLEAN]

LEMMA RegistersIs ==
    ASSUME config \in Configs, NEW d
    PROVE  Preflight!Registers(d) <=>
             /\ config.mode = "cimd" => {"client_id_metadata_document_supported", "auth"} \subseteq d
             /\ config.mode = "dcr" => "registration_endpoint" \in d
             /\ config.mode = "predefined" => "auth" \in d \/ "secret" \in d
<1>1. config.mode \in {"cimd", "dcr", "predefined"}
    BY DEF Configs, Preflight!Modes
<1>2. QED
    BY <1>1 DEF Preflight!Registers

LEMMA ChecksAre ==
    ASSUME config \in Configs, NEW s, NEW d
    PROVE  /\ DOMAIN Preflight!Checks(s, d) = Made(config, s)
           /\ (\A k \in Made(config, s) : Preflight!Checks(s, d)[k]) <=> Complete(config, s, d)
<1>1. CASE s = "resource_metadata"
  <2>1. Preflight!Checks(s, d) = [k \in Preflight!ResourceMembers |-> k \in d]
      BY <1>1 DEF Preflight!Checks, Preflight!validate_resource_metadata
  <2>2. Made(config, s) = Preflight!ResourceMembers /\ (Complete(config, s, d) <=> Preflight!ResourceMembers \subseteq d)
      BY <1>1 DEF Made, Complete
  <2>3. QED
      BY <2>1, <2>2
<1>2. CASE s = "discovery"
  <2>1. Made(config, s) = Preflight!OAuthChecks
      BY <1>2 DEF Made, Preflight!OAuthChecks
  <2>2. Preflight!Checks(s, d) =
          [k \in Preflight!OAuthChecks |-> IF k = "client_registration" THEN Preflight!Registers(d) ELSE k \in d]
      BY <1>2 DEF Preflight!Checks, Preflight!validate_oauth_metadata
  <2>3. (\A k \in Preflight!OAuthChecks : Preflight!Checks(s, d)[k]) <=>
          (Preflight!Registers(d) /\ \A k \in Preflight!OAuthChecks \ {"client_registration"} : k \in d)
    <3>1. "client_registration" \in Preflight!OAuthChecks
        BY DEF Preflight!OAuthChecks
    <3>2. QED
        BY <2>2, <3>1
  <2>4. (\A k \in Preflight!OAuthChecks \ {"client_registration"} : k \in d) <=>
          /\ {"issuer", "authorization_endpoint", "token_endpoint", "S256", "scopes_supported"} \subseteq d
          /\ config.require_userinfo => {"userinfo_endpoint", "email_scopes"} \subseteq d
    <3>1. CASE config.require_userinfo
        BY <3>1 DEF Preflight!OAuthChecks
    <3>2. CASE ~config.require_userinfo
        BY <3>2 DEF Preflight!OAuthChecks
    <3>3. QED
        BY <3>1, <3>2
  <2>5. (Preflight!Registers(d) /\ \A k \in Preflight!OAuthChecks \ {"client_registration"} : k \in d) <=>
          Complete(config, s, d)
      BY <1>2, <2>4, RegistersIs DEF Complete
  <2>6. QED
      BY <2>1, <2>2, <2>3, <2>5
<1>3. CASE s # "resource_metadata" /\ s # "discovery"
  <2>1. Preflight!Checks(s, d) = [k \in {s} |-> d = Preflight!Members(s)]
      BY <1>3 DEF Preflight!Checks
  <2>2. Made(config, s) = {s} /\ (Complete(config, s, d) <=> d = Preflight!Members(s))
      BY <1>3 DEF Made, Complete
  <2>3. QED
      BY <2>1, <2>2
<1>4. QED
    BY <1>1, <1>2, <1>3

\* Nothing less and nothing more is needed.
LEMMA NeedsAre ==
    ASSUME config \in Configs, NEW s, NEW d, d \subseteq Preflight!Members(s)
    PROVE  (\E need \in Preflight!Needs(s) : need \subseteq d) <=> Complete(config, s, d)
<1>1. CASE s # "discovery"
  <2>1. Preflight!Needs(s) = {Preflight!Members(s)}
      BY <1>1 DEF Preflight!Needs
  <2>2. Complete(config, s, d) <=> Preflight!Members(s) \subseteq d
    <3>1. CASE s = "resource_metadata"
      <4>1. Preflight!Members(s) = Preflight!ResourceMembers
          BY <3>1 DEF Preflight!Members, Preflight!PublicUrls
      <4>2. QED
          BY <3>1, <4>1 DEF Complete
    <3>2. CASE s # "resource_metadata"
        BY <1>1, <3>2 DEF Complete
    <3>3. QED
        BY <3>1, <3>2
  <2>3. QED
      BY <2>1, <2>2
<1>2. CASE s = "discovery"
  <2> DEFINE Base == {"issuer", "authorization_endpoint", "token_endpoint", "S256", "scopes_supported"}
             User == IF config.require_userinfo THEN {"userinfo_endpoint", "email_scopes"} ELSE {}
             Ways == CASE config.mode = "cimd" -> {{"client_id_metadata_document_supported", "auth"}}
                       [] config.mode = "dcr" -> {{"registration_endpoint"}}
                       [] config.mode = "predefined" -> {{"auth"}, {"secret"}}
  <2>1. Preflight!Needs(s) = {Base \union way \union User : way \in Ways}
      BY <1>2 DEF Preflight!Needs
  <2>2. (\E way \in Ways : way \subseteq d) <=> Preflight!Registers(d)
    <3>1. config.mode \in {"cimd", "dcr", "predefined"}
        BY DEF Configs, Preflight!Modes
    <3>2. CASE config.mode = "cimd"
      <4>1. Ways = {{"client_id_metadata_document_supported", "auth"}}
          BY <3>2
      <4>2. QED
          BY <3>2, <4>1, RegistersIs
    <3>3. CASE config.mode = "dcr"
      <4>1. Ways = {{"registration_endpoint"}}
          BY <3>3
      <4>2. QED
          BY <3>3, <4>1, RegistersIs
    <3>4. CASE config.mode = "predefined"
      <4>1. Ways = {{"auth"}, {"secret"}}
          BY <3>4
      <4>2. QED
          BY <3>4, <4>1, RegistersIs
    <3>5. QED
        BY <3>1, <3>2, <3>3, <3>4
  <2>3. Complete(config, s, d) <=> Base \subseteq d /\ User \subseteq d /\ Preflight!Registers(d)
      BY <1>2, RegistersIs DEF Complete
  <2> HIDE DEF Base, User, Ways
  <2>4. \A need : need \in Preflight!Needs(s) <=> \E way \in Ways : need = Base \union way \union User
      BY <2>1
  <2>5. \A way : (Base \union way \union User) \subseteq d <=>
          Base \subseteq d /\ User \subseteq d /\ way \subseteq d
      OBVIOUS
  <2>6. (\E need \in Preflight!Needs(s) : need \subseteq d) <=>
          \E way \in Ways : Base \subseteq d /\ User \subseteq d /\ way \subseteq d
    <3>1. ASSUME NEW need \in Preflight!Needs(s), need \subseteq d
          PROVE  \E way \in Ways : Base \subseteq d /\ User \subseteq d /\ way \subseteq d
      <4>1. PICK way \in Ways : need = Base \union way \union User
          BY <2>4
      <4>2. QED
          BY <2>5, <3>1, <4>1
    <3>2. ASSUME NEW way \in Ways, Base \subseteq d, User \subseteq d, way \subseteq d
          PROVE  \E need \in Preflight!Needs(s) : need \subseteq d
      <4>1. PICK need : need = Base \union way \union User
          OBVIOUS
      <4>2. need \in Preflight!Needs(s)
          BY <2>4, <4>1
      <4>3. need \subseteq d
          BY <2>5, <3>2, <4>1
      <4>4. QED
          BY <4>2, <4>3
    <3>3. QED
        BY <3>1, <3>2
  <2>7. QED
      BY <2>2, <2>3, <2>6
<1>3. QED
    BY <1>1, <1>2

-----------------------------------------------------------------------------
(* The preflight: a run of it. *)

Rights == Preflight!ResourceMembers \union Preflight!OAuthMembers \union {"https", "401", "metadata_url", "token"}
Answers == [served : BOOLEAN, right : SUBSET Rights]

Good(c, i, a) == a.served = TRUE /\ Complete(c, Order[i], a.right)
AllGood == \A i \in 1..Len(answers) : Good(config, i, answers[i])

\* No check failed exactly when all the answers are good, and then every check
\* of every answer is among those that passed, and nothing else.
PreflightInv ==
  /\ config \in Configs /\ stage \in 0..Asks(config)
  /\ outcome \in {"running", "reported", "crashed"}
  /\ answers \in Seq(Answers) /\ Len(answers) <= Asks(config)
  /\ \A i \in 1..Len(answers) : answers[i].right \subseteq Preflight!Members(Order[i])
  /\ outcome = "running" => Len(answers) = stage /\ (failed = {} <=> AllGood)
  /\ outcome = "reported" => (failed = {} <=> Len(answers) = Asks(config) /\ AllGood)
  /\ failed = {} => \A p : p \in passed <=>
       \E i \in 1..Len(answers) : \E k \in Made(config, Order[i]) : p = <<Order[i], k>>

LEMMA PreflightInit == Preflight!Init => PreflightInv
<1> SUFFICES ASSUME Preflight!Init PROVE PreflightInv
    OBVIOUS
<1>1. /\ config \in Configs /\ stage = 0 /\ outcome = "running" /\ passed = {} /\ failed = {}
      /\ answers = <<>>
    BY DEF Preflight!Init, Configs
<1>2. answers \in Seq(Answers) /\ Len(answers) = 0 /\ 1..0 = {}
    BY <1>1, EmptySeq
<1>3. 0 \in 0..Asks(config) /\ 0 <= Asks(config)
    BY DEF Asks
<1>4. AllGood
    BY <1>2 DEF AllGood
<1>5. QED
    BY <1>1, <1>2, <1>3, <1>4 DEF PreflightInv

LEMMA MembersAre == \A s : Preflight!Members(s) \subseteq Rights
<1> SUFFICES ASSUME NEW s PROVE Preflight!Members(s) \subseteq Rights
    OBVIOUS
<1>1. \/ Preflight!Members(s) = Preflight!ResourceMembers \/ Preflight!Members(s) = Preflight!OAuthMembers
      \/ Preflight!Members(s) \subseteq {"https", "401", "metadata_url", "token"}
    BY DEF Preflight!Members
<1>2. QED
    BY <1>1 DEF Rights

LEMMA AsksIs ==
    ASSUME PreflightInv, Preflight!More
    PROVE  /\ outcome = "running" /\ stage \in Nat /\ stage + 1 \in 1..Asks(config)
           /\ stage' = stage + 1 /\ Preflight!Asked = Order[stage + 1] /\ Len(answers) = stage
<1>1. Asks(config) \in Nat /\ stage \in 0..Asks(config)
    BY DEF PreflightInv, Asks
<1>2. outcome = "running" /\ stage < Asks(config) /\ stage' = stage + 1 /\ Len(answers) = stage
    BY StagesAre DEF Preflight!More, PreflightInv
<1>3. stage \in Nat /\ stage + 1 \in 1..Asks(config)
    BY <1>1, <1>2
<1>4. QED
    BY <1>2, <1>3, StagesAre DEF Preflight!Asked

\* An answer is added, with the checks made of it.
LEMMA Answered ==
    ASSUME PreflightInv, Preflight!More, config' = config, outcome' = outcome,
           NEW a \in Answers, a.right \subseteq Preflight!Members(Preflight!Asked), answers' = Append(answers, a),
           NEW bad, failed' = failed \union bad, bad = {} <=> Good(config, stage + 1, a),
           NEW fine, passed' = passed \union fine,
           bad = {} => \A p : p \in fine <=> \E k \in Made(config, Preflight!Asked) : p = <<Preflight!Asked, k>>
    PROVE  PreflightInv'
<1>1. PICK n : n = stage
    OBVIOUS
<1>2. /\ outcome = "running" /\ n \in Nat /\ n + 1 \in 1..Asks(config) /\ stage' = n + 1
      /\ Preflight!Asked = Order[n + 1] /\ Len(answers) = n
    BY <1>1, AsksIs
<1>3. PICK after : after = answers'
    OBVIOUS
<1>4. answers \in Seq(Answers)
    BY DEF PreflightInv
<1>5. /\ after \in Seq(Answers) /\ Len(after) = n + 1 /\ after[n + 1] = a
      /\ \A i \in 1..n : after[i] = answers[i]
    BY <1>2, <1>3, <1>4, AppendProperties
<1>6. \A i \in 1..n + 1 : i \in 1..n \/ i = n + 1
    BY <1>2
<1>7. \A i \in 1..n : i \in 1..n + 1
    BY <1>2
<1>8. n + 1 \in 1..n + 1
    BY <1>2
<1>9. \A i \in 1..n + 1 : after[i].right \subseteq Preflight!Members(Order[i])
    BY <1>2, <1>5, <1>6 DEF PreflightInv
<1>10. (\A i \in 1..n + 1 : Good(config, i, after[i])) <=> AllGood /\ Good(config, n + 1, a)
    BY <1>2, <1>5, <1>6, <1>7, <1>8 DEF AllGood
<1>11. failed' = {} <=> \A i \in 1..n + 1 : Good(config, i, after[i])
    BY <1>1, <1>2, <1>10 DEF PreflightInv
<1>12. ASSUME failed' = {}
       PROVE  \A p : p \in passed' <=>
                \E i \in 1..n + 1 : \E k \in Made(config, Order[i]) : p = <<Order[i], k>>
  <2>1. failed = {} /\ bad = {}
      BY <1>12
  <2>2. \A p : p \in passed <=>
          \E i \in 1..n : \E k \in Made(config, Order[i]) : p = <<Order[i], k>>
      BY <1>2, <2>1 DEF PreflightInv
  <2>3. \A p : p \in fine <=> \E k \in Made(config, Order[n + 1]) : p = <<Order[n + 1], k>>
      BY <1>2, <2>1
  <2>4. QED
      BY <1>6, <1>7, <1>8, <2>2, <2>3
<1>13. AllGood' <=> \A i \in 1..n + 1 : Good(config, i, after[i])
    BY <1>3, <1>5 DEF AllGood
<1>14. n + 1 \in 0..Asks(config) /\ n + 1 <= Asks(config)
    BY <1>2 DEF Asks
<1>15. QED
    BY <1>2, <1>3, <1>5, <1>9, <1>11, <1>12, <1>13, <1>14 DEF PreflightInv

LEMMA ServedKeeps ==
    ASSUME PreflightInv, NEW d \in Preflight!Documents(Preflight!Asked),
           Preflight!Served(d)
    PROVE  PreflightInv'
<1>1. Preflight!More /\ config' = config /\ outcome' = outcome /\ config \in Configs
    BY DEF Preflight!Served, PreflightInv
<1>2. PICK s : s = Preflight!Asked
    OBVIOUS
<1>3. d \subseteq Preflight!Members(s) /\ d \in SUBSET Rights
    BY <1>2, MembersAre DEF Preflight!Documents
<1>4. PICK a : a = [served |-> TRUE, right |-> d]
    OBVIOUS
<1>5. a \in Answers /\ a.right = d /\ a.served = TRUE /\ answers' = Append(answers, a)
    BY <1>3, <1>4 DEF Answers, Preflight!Served
<1>6. PICK checks : checks = Preflight!Checks(s, d)
    OBVIOUS
<1>7. PICK bad : bad = Preflight!Named(s, {k \in DOMAIN checks : ~checks[k]})
    OBVIOUS
<1>8. PICK fine : fine = Preflight!Named(s, {k \in DOMAIN checks : checks[k]})
    OBVIOUS
<1>9. failed' = failed \union bad /\ passed' = passed \union fine
    BY <1>2, <1>6, <1>7, <1>8 DEF Preflight!Served, Preflight!Record
<1>10. DOMAIN checks = Made(config, s)
       /\ ((\A k \in Made(config, s) : checks[k]) <=> Complete(config, s, d))
    BY <1>1, <1>6, ChecksAre
<1>11. bad = {} <=> \A k \in Made(config, s) : checks[k]
    BY <1>7, <1>10 DEF Preflight!Named
<1>12. bad = {} => \A p : p \in fine <=> \E k \in Made(config, s) : p = <<s, k>>
    BY <1>8, <1>10, <1>11 DEF Preflight!Named
<1>13. s = Order[stage + 1]
    BY <1>1, <1>2, AsksIs
<1>14. bad = {} <=> Good(config, stage + 1, a)
    BY <1>5, <1>10, <1>11, <1>13 DEF Good
<1>15. a.right \subseteq Preflight!Members(Preflight!Asked)
    BY <1>2, <1>3, <1>5
<1>16. bad = {} => \A p : p \in fine <=> \E k \in Made(config, Preflight!Asked) : p = <<Preflight!Asked, k>>
    BY <1>2, <1>12
<1>17. QED
    BY <1>1, <1>5, <1>9, <1>14, <1>15, <1>16, Answered

LEMMA RefusedKeeps ==
    ASSUME PreflightInv, Preflight!Refused
    PROVE  PreflightInv'
<1>1. Preflight!More /\ config' = config /\ outcome' = outcome
    BY DEF Preflight!Refused
<1>2. PICK a : a = [served |-> FALSE, right |-> {}]
    OBVIOUS
<1>3. a \in Answers /\ a.right = {} /\ a.served = FALSE /\ answers' = Append(answers, a)
    BY <1>2 DEF Answers, Preflight!Refused
<1>4. PICK s : s = Preflight!Asked
    OBVIOUS
<1>5. PICK checks : checks = Preflight!Unavailable
    OBVIOUS
<1>6. \E x : DOMAIN checks = {x} /\ checks[x] = FALSE
    BY <1>5 DEF Preflight!Unavailable
<1>7. PICK bad : bad = Preflight!Named(s, {k \in DOMAIN checks : ~checks[k]})
    OBVIOUS
<1>8. PICK fine : fine = Preflight!Named(s, {k \in DOMAIN checks : checks[k]})
    OBVIOUS
<1>9. failed' = failed \union bad /\ passed' = passed \union fine
    BY <1>4, <1>5, <1>7, <1>8 DEF Preflight!Refused, Preflight!Record
<1>10. bad # {}
    BY <1>6, <1>7 DEF Preflight!Named
<1>11. ~Good(config, stage + 1, a)
    BY <1>3 DEF Good
<1>12. a.right \subseteq Preflight!Members(Preflight!Asked)
    BY <1>3
<1>13. QED
    BY <1>1, <1>3, <1>9, <1>10, <1>11, <1>12, Answered

LEMMA EndsKeep ==
    ASSUME PreflightInv,
           Preflight!Fails \/ Preflight!Crashes \/ Preflight!Report
    PROVE  PreflightInv'
<1>1. /\ config' = config /\ passed' = passed /\ answers' = answers
      /\ config \in Configs /\ answers \in Seq(Answers) /\ AllGood' = AllGood
    BY
       DEF PreflightInv, AllGood, Preflight!Fails, Preflight!Crashes,
           Preflight!Report
<1>2. CASE Preflight!Fails
  <2>1. /\ Preflight!More /\ outcome' = "reported"
        /\ failed' = failed \union {<<"preflight", "transport">>}
      BY <1>2 DEF Preflight!Fails, Preflight!Transport
  <2>2. failed' # {}
      BY <2>1
  <2>3. stage \in Nat /\ stage' = stage + 1 /\ stage + 1 \in 1..Asks(config) /\ Len(answers) = stage
      BY <2>1, AsksIs
  <2>4. stage + 1 \in 0..Asks(config) /\ stage # Asks(config)
      BY <2>3 DEF Asks
  <2>5. QED
      BY <1>1, <2>1, <2>2, <2>3, <2>4 DEF PreflightInv
<1>3. CASE Preflight!Crashes
  <2>1. Preflight!More /\ outcome' = "crashed" /\ failed' = failed
      BY <1>3 DEF Preflight!Crashes
  <2>2. stage \in Nat /\ stage' = stage + 1 /\ stage + 1 \in 1..Asks(config)
      BY <2>1, AsksIs
  <2>3. stage + 1 \in 0..Asks(config)
      BY <2>2 DEF Asks
  <2>4. QED
      BY <1>1, <2>1, <2>2, <2>3 DEF PreflightInv
<1>4. CASE Preflight!Report
  <2>1. /\ outcome = "running" /\ stage = Asks(config) /\ outcome' = "reported"
        /\ stage' = stage /\ failed' = failed
      BY <1>4, StagesAre DEF Preflight!Report
  <2>2. QED
      BY <1>1, <2>1 DEF PreflightInv
<1>5. QED
    BY <1>2, <1>3, <1>4

LEMMA PreflightStep ==
    ASSUME PreflightInv, Preflight!Next
    PROVE  PreflightInv'
    BY ServedKeeps, RefusedKeeps, EndsKeep DEF Preflight!Next

\* The checks of a release in mode cimd with its domain challenge.
Seventeen ==
  <<<<"liveness", "liveness">>, <<"readiness", "readiness">>,
    <<"resource_metadata", "resource">>, <<"resource_metadata", "authorization_servers">>,
    <<"resource_metadata", "scopes_supported">>, <<"oauth_challenge", "oauth_challenge">>,
    <<"discovery", "issuer">>, <<"discovery", "authorization_endpoint">>,
    <<"discovery", "token_endpoint">>, <<"discovery", "S256">>,
    <<"discovery", "scopes_supported">>, <<"discovery", "client_registration">>,
    <<"website", "website">>, <<"support", "support">>, <<"privacy", "privacy">>,
    <<"terms", "terms">>, <<"domain_challenge", "domain_challenge">>>>

LEMMA CardinalityIs == \A S : Preflight!Cardinality(S) = Cardinality(S)
    BY DEF Cardinality, Preflight!Cardinality

LEMMA SeventeenDiffer == \A i, k \in 1..17 : Seventeen[i] = Seventeen[k] => i = k
    BY DEF Seventeen

LEMMA SeventeenMade ==
    ASSUME config.require_userinfo = FALSE
    PROVE  \A p : (\E i \in 1..10 : \E k \in Made(config, Order[i]) : p = <<Order[i], k>>) <=>
                  \E j \in 1..17 : p = Seventeen[j]
<1> SUFFICES ASSUME NEW p
             PROVE  (\E i \in 1..10 : \E k \in Made(config, Order[i]) : p = <<Order[i], k>>) <=>
                      \E j \in 1..17 : p = Seventeen[j]
    OBVIOUS
<1>1. \A s : Made(config, s) =
        IF s = "resource_metadata" THEN {"resource", "authorization_servers", "scopes_supported"}
        ELSE IF s = "discovery"
          THEN {"issuer", "authorization_endpoint", "token_endpoint", "S256", "scopes_supported",
                "client_registration"}
          ELSE {s}
    BY DEF Made, Preflight!ResourceMembers
<1>2. ASSUME NEW i \in 1..10, NEW k \in Made(config, Order[i]), p = <<Order[i], k>>
      PROVE  \E j \in 1..17 : p = Seventeen[j]
    BY <1>1, <1>2 DEF Order, Seventeen
<1>3. ASSUME NEW j \in 1..17, p = Seventeen[j]
      PROVE  \E i \in 1..10 : \E k \in Made(config, Order[i]) : p = <<Order[i], k>>
    BY <1>1, <1>3 DEF Order, Seventeen
<1>4. QED
    BY <1>2, <1>3

LEMMA InPlaceIs ==
    ASSUME PreflightInv, NEW i \in 1..Asks(config)
    PROVE  Preflight!InPlace(Order[i]) <=> i \in 1..Len(answers)
           /\ Good(config, i, answers[i])
<1>1. /\ config \in Configs /\ Len(answers) \in Nat /\ Len(answers) <= Asks(config)
      /\ DOMAIN answers = 1..Len(answers) /\ Asks(config) \in Nat /\ Asks(config) <= 10
      /\ answers \in Seq(Answers)
    BY LenProperties DEF PreflightInv, Asks
<1>2. \A j \in 1..Len(answers) : /\ Preflight!Stages[j] = Order[j] /\ j \in 1..10 /\ i \in 1..10
                                 /\ answers[j].right \subseteq Preflight!Members(Order[j])
                                 /\ answers[j].served \in BOOLEAN
  <2>1. \A j \in 1..Len(answers) : j \in 1..Asks(config) /\ j \in 1..10 /\ i \in 1..10
      BY <1>1
  <2>2. \A j \in 1..Len(answers) : answers[j] \in Answers
      BY <1>1, ElementOfSeq
  <2>3. QED
      BY <2>1, <2>2, StagesAre DEF PreflightInv, Answers
<1>3. \A j \in 1..Len(answers) :
        (\E need \in Preflight!Needs(Order[j]) : need \subseteq answers[j].right) <=>
          Complete(config, Order[j], answers[j].right)
    BY <1>1, <1>2, NeedsAre
<1>4. \A j \in 1..Len(answers) : Order[j] = Order[i] => j = i
    BY <1>2, OrderIs
<1>5. Preflight!InPlace(Order[i]) <=>
        \E j \in 1..Len(answers) :
          Preflight!Stages[j] = Order[i] /\ answers[j].served
          /\ \E need \in Preflight!Needs(Order[i]) : need \subseteq answers[j].right
    BY <1>1 DEF Preflight!InPlace
<1>6. ASSUME Preflight!InPlace(Order[i])
      PROVE  i \in 1..Len(answers) /\ Good(config, i, answers[i])
  <2>1. PICK j \in 1..Len(answers) :
          Preflight!Stages[j] = Order[i] /\ answers[j].served
          /\ \E need \in Preflight!Needs(Order[i]) : need \subseteq answers[j].right
      BY <1>5, <1>6
  <2>2. j = i
      BY <1>2, <1>4, <2>1
  <2>3. answers[i].served = TRUE
      BY <1>2, <2>1, <2>2
  <2>4. QED
      BY <1>3, <2>1, <2>2, <2>3 DEF Good
<1>7. ASSUME i \in 1..Len(answers), Good(config, i, answers[i])
      PROVE  Preflight!InPlace(Order[i])
    BY <1>2, <1>3, <1>5, <1>7 DEF Good
<1>8. QED
    BY <1>6, <1>7

LEMMA PreflightSays ==
    ASSUME PreflightInv
    PROVE  Preflight!OkIsExact /\ Preflight!SeventeenChecks
<1>1. /\ Len(answers) \in Nat /\ Len(answers) <= Asks(config) /\ Asks(config) \in Nat
    BY LenProperties DEF PreflightInv, Asks
<1>2. Preflight!OkIsExact
  <2> SUFFICES ASSUME outcome = "reported" PROVE failed = {} <=> \A s \in Preflight!Required : Preflight!InPlace(s)
      BY DEF Preflight!OkIsExact, Preflight!ok
  <2>1. failed = {} <=> Len(answers) = Asks(config) /\ AllGood
      BY DEF PreflightInv
  <2>2. (\A s \in Preflight!Required : Preflight!InPlace(s)) <=> \A i \in 1..Asks(config) : Preflight!InPlace(Order[i])
      BY OrderIs
  <2>3. (\A i \in 1..Asks(config) : Preflight!InPlace(Order[i])) <=>
          \A i \in 1..Asks(config) : i \in 1..Len(answers) /\ Good(config, i, answers[i])
      BY InPlaceIs
  <2>4. (\A i \in 1..Asks(config) : i \in 1..Len(answers)) <=> Len(answers) = Asks(config)
      BY <1>1
  <2>5. QED
      BY <2>1, <2>2, <2>3, <2>4 DEF AllGood
<1>3. Preflight!SeventeenChecks
  <2> SUFFICES ASSUME outcome = "reported", failed = {}, ~config.require_userinfo, config.challenge
               PROVE  Cardinality(passed) = 17
      BY CardinalityIs, Zenon DEF Preflight!SeventeenChecks, Preflight!ok
  <2>1. Len(answers) = 10
      BY DEF PreflightInv, Asks
  <2>2. config.require_userinfo = FALSE
      BY DEF PreflightInv, Configs
  <2>3. \A p : p \in passed <=> \E j \in 1..17 : p = Seventeen[j]
    <3> SUFFICES ASSUME NEW p PROVE p \in passed <=> \E j \in 1..17 : p = Seventeen[j]
        OBVIOUS
    <3>1. p \in passed <=> \E i \in 1..10 : \E k \in Made(config, Order[i]) : p = <<Order[i], k>>
        BY <2>1 DEF PreflightInv
    <3>2. (\E i \in 1..10 : \E k \in Made(config, Order[i]) : p = <<Order[i], k>>) <=>
            \E j \in 1..17 : p = Seventeen[j]
        BY <2>2, SeventeenMade
    <3>3. QED
        BY <3>1, <3>2
  <2>4. PICK f : f = [j \in 1..17 |-> Seventeen[j]]
      OBVIOUS
  <2>5. \A j \in 1..17 : f[j] = Seventeen[j]
      BY <2>4
  <2>6. f \in Bijection(1..17, passed)
    <3>1. f \in [1..17 -> passed]
        BY <2>3, <2>4
    <3>2. \A i, j \in 1..17 : f[i] = f[j] => i = j
        BY <2>5, SeventeenDiffer
    <3>3. \A p \in passed : \E j \in 1..17 : f[j] = p
        BY <2>3, <2>5
    <3>4. f \in Injection(1..17, passed)
        BY <3>1, <3>2 DEF Injection, IsInjective
    <3>5. f \in Surjection(1..17, passed)
        BY <3>1, <3>3 DEF Surjection
    <3>6. QED
        BY <3>4, <3>5 DEF Bijection
  <2>7. QED
      BY <2>6, FS_CountingElements DEF ExistsBijection
<1>4. QED
    BY <1>2, <1>3

-----------------------------------------------------------------------------
(* The theorems about the programs. *)

(* However requests fail, answers are lost or folders are made late: a run  *)
(* of the diagnostics that exits with 0 left nothing in the account, its    *)
(* status, its list of stages and its flags agree, and each stage that was  *)
(* asked for is reported on.                                                *)
THEOREM DiagnosesAreHonest == ProgramsSpec => []DiagnosisHonest
<1> DEFINE Inv == program = "diagnose" => DiagnosisInv
<1>1. ProgramsInit => Inv
    BY DiagnosisInit DEF ProgramsInit
<1>2. Inv /\ [ProgramsNext]_programsVars => Inv'
  <2> SUFFICES ASSUME Inv, [ProgramsNext]_programsVars, program' = "diagnose"
               PROVE  DiagnosisInv'
      OBVIOUS
  <2>1. CASE DiagnoseNext
      BY <2>1, DiagnosisStep DEF DiagnoseNext
  <2>2. CASE UNCHANGED programsVars
    <3>1. /\ DiagnosisInv /\ at' = at /\ asked' = asked /\ result' = result
          /\ failed_stages' = failed_stages /\ remote' = remote /\ late' = late
          /\ guarded' = guarded /\ status' = status
        BY <2>2 DEF programsVars, diagnosis
    <3>2. Diagnose!TypeOK'
        BY <3>1, TypesAre, TypesAreNext DEF DiagnosisInv
    <3>3. WriteInv' /\ HouseholdInv' /\ AppsInv' /\ FailedInv' /\ StatusInv'
        BY <3>1
           DEF DiagnosisInv, WriteInv, HouseholdInv, AppsInv, FailedInv, StatusInv,
               WriteUntouched,
               HouseholdUntouched, Untouched, Diagnose!Successful
    <3>4. QED
        BY <3>2, <3>3 DEF DiagnosisInv
  <2>3. QED
      BY <2>1, <2>2 DEF ProgramsNext, PreflightNext
<1>3. Inv => DiagnosisHonest
    BY DiagnosisSays DEF DiagnosisHonest
<1>4. QED
    BY <1>1, <1>2, <1>3, PTL DEF ProgramsSpec

(* The preflight passes exactly when every endpoint its configuration       *)
(* requires has answered with all that a release needs, and its 17 checks   *)
(* have 17 names: any number of answers with any number of faults.          *)
THEOREM PreflightsAreExact == ProgramsSpec => []PreflightExact
<1> DEFINE Inv == program = "preflight" => PreflightInv
<1>1. ProgramsInit => Inv
    BY PreflightInit DEF ProgramsInit
<1>2. Inv /\ [ProgramsNext]_programsVars => Inv'
  <2> SUFFICES ASSUME Inv, [ProgramsNext]_programsVars, program' = "preflight"
               PROVE  PreflightInv'
      OBVIOUS
  <2>1. CASE PreflightNext
      BY <2>1, PreflightStep DEF PreflightNext
  <2>2. CASE UNCHANGED programsVars
      BY <2>2 DEF programsVars, report, PreflightInv, AllGood
  <2>3. QED
      BY <2>1, <2>2 DEF ProgramsNext, DiagnoseNext
<1>3. Inv => PreflightExact
    BY PreflightSays DEF PreflightExact
<1>4. QED
    BY <1>1, <1>2, <1>3, PTL DEF ProgramsSpec
=============================================================================
