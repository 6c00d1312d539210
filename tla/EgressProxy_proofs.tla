-------------------------- MODULE EgressProxy_proofs --------------------------
(* Proofs about EgressProxy, for any number of clients, slots and addresses: *)
(* slots are accounted for, every client's locals are in order, and the     *)
(* proxy implements a pool of slots.                                        *)
EXTENDS EgressProxy, FiniteSetTheorems, SequenceTheorems, TLAPS

USE DEF Absent, Queued, Granted, Reading, Resolving, Dialling, Greeting, Relaying,
        Closing, Hanging, Broken

(* The queue holds waiting clients, each of them once.                      *)
Lined ==
  /\ \A k \in 1..Len(queue) : step[queue[k]] = Queued
  /\ \A j, k \in 1..Len(queue) : queue[j] = queue[k] => j = k

SlotTypes ==
  /\ step \in [Clients -> Steps] /\ slot \in [Clients -> BOOLEAN]
  /\ free \in Nat /\ queue \in Seq(Clients)

SlotInv == SlotTypes /\ Lined /\ SlotsAccounted

(* What a client's locals are, whoever else is served.                      *)
Tidy(c) ==
  /\ relays[c] # {} => step[c] = Relaying /\ upstream[c] # {}
  /\ upstream[c] # {} => step[c] \in {Greeting, Relaying, Closing}
  /\ upstream[c] \subseteq tried[c] /\ tried[c] \subseteq answer[c]
  /\ answer[c] \subseteq Global
  /\ reply[c] = 502 => tried[c] = answer[c] /\ tried[c] # {}
  /\ step[c] \in {Greeting, Relaying} => reply[c] = 200 /\ upstream[c] # {}
  /\ reply[c] \in {403, 405, 408} => tried[c] = {}
  /\ step[c] \in {Queued, Granted, Reading, Resolving} =>
       tried[c] = {} /\ answer[c] = {} /\ reply[c] = 0
  /\ step[c] = Dialling => reply[c] = 0

LocalTypes ==
  /\ answer \in [Clients -> SUBSET Addresses] /\ tried \in [Clients -> SUBSET Addresses]
  /\ upstream \in [Clients -> SUBSET Addresses] /\ relays \in [Clients -> SUBSET Directions]
  /\ reply \in [Clients -> Replies]

LocalInv == LocalTypes /\ \A c \in Clients : Tidy(c)

IInv == SlotInv /\ LocalInv

(* Where the pool sees a client.                                            *)
Place == [c \in Clients |-> IF c \in Holders THEN "served"
                            ELSE IF step[c] = Queued THEN "waiting" ELSE "outside"]

PoolStep == [Pool!Next]_Place

-----------------------------------------------------------------------------
(* Slots and places                                                         *)

LEMMA HoldersFinite ==
    ASSUME NEW S \in SUBSET Clients
    PROVE  IsFiniteSet(S) /\ Cardinality(S) \in Nat
<1>1. IsFiniteSet(Clients)
    BY ProxyAssumption DEF ProxyAssumption
<1>2. IsFiniteSet(S)
    BY <1>1, FS_Subset
<1>3. QED
    BY <1>2, FS_CardinalityType

LEMMA HoldersGrow ==
    ASSUME NEW S \in SUBSET Clients, NEW c \in Clients, c \notin S
    PROVE  Cardinality(S \union {c}) = Cardinality(S) + 1
<1>1. IsFiniteSet(S)
    BY HoldersFinite
<1>2. QED
    BY <1>1, FS_AddElement

LEMMA HoldersShrink ==
    ASSUME NEW S \in SUBSET Clients, NEW c \in S
    PROVE  Cardinality(S \ {c}) = Cardinality(S) - 1
<1>1. IsFiniteSet(S)
    BY HoldersFinite
<1>2. QED
    BY <1>1, FS_RemoveElement

LEMMA PlaceFacts ==
    ASSUME SlotInv
    PROVE  /\ Place \in [Clients -> {"served", "waiting", "outside"}]
           /\ \A c \in Clients : /\ Place[c] = "served" <=> c \in Holders
                                 /\ Place[c] = "waiting" <=> step[c] = Queued
           /\ {d \in Clients : Place[d] = "served"} = Holders
<1>1. Holders \subseteq Clients
    BY DEF Holders
<1>2. \A c \in Clients : step[c] = Queued => c \notin Holders
    BY DEF Holders, SlotInv, SlotsAccounted
<1>3. QED
    BY <1>1, <1>2 DEF Place

(* The moves of the pool.                                                  *)
LEMMA PoolMoves ==
    ASSUME NEW c \in Clients,
           \/ Place[c] = "outside" /\ Place' = [Place EXCEPT ![c] = "waiting"]
           \/ Place[c] \in {"waiting", "served"} /\ Place' = [Place EXCEPT ![c] = "outside"]
    PROVE  PoolStep
<1>1. Pool!Ask(c) \/ Pool!TurnAway(c) \/ Pool!Leave(c)
    BY DEF Pool!Ask, Pool!TurnAway, Pool!Leave, Pool!Move, Pool!Outside, Pool!Waiting,
           Pool!Served, Place
<1>2. QED
    BY <1>1 DEF PoolStep, Pool!Next

LEMMA PoolServes ==
    ASSUME SlotInv, NEW c \in Clients, Cardinality(Holders) < MaxConnections,
           Place[c] \in {"outside", "waiting"}, Place' = [Place EXCEPT ![c] = "served"]
    PROVE  PoolStep
<1>1. {d \in Clients : Place[d] = "served"} = Holders
    BY PlaceFacts
<1>2. Pool!Cardinality({d \in Clients : Place[d] = "served"}) < MaxConnections
    BY <1>1, Zenon DEF Pool!Cardinality, Cardinality
<1>3. Pool!Move(c, {"outside", "waiting"}, "served")
    BY DEF Pool!Move, Place
<1>4. Pool!Serve(c)
    BY <1>2, <1>3, Zenon DEF Pool!Serve, Pool!Outside, Pool!Waiting, Pool!Served, Place
<1>5. QED
    BY <1>4 DEF PoolStep, Pool!Next

LEMMA PoolHandsOver ==
    ASSUME NEW c \in Clients, NEW h \in Clients, Place[c] = "served", Place[h] = "waiting",
           Place' = [Place EXCEPT ![c] = "outside", ![h] = "served"]
    PROVE  PoolStep
<1>1. Pool!HandOver(c, h)
    BY DEF Pool!HandOver, Pool!Outside, Pool!Waiting, Pool!Served, Place
<1>2. QED
    BY <1>1 DEF PoolStep, Pool!Next

(* The head of the queue waits, and is not among those behind it.           *)
LEMMA HeadWaits ==
    ASSUME SlotInv, queue # <<>>
    PROVE  /\ Head(queue) \in Clients /\ step[Head(queue)] = Queued
           /\ Tail(queue) \in Seq(Clients)
           /\ \A k \in 1..Len(Tail(queue)) : /\ step[Tail(queue)[k]] = Queued
                                             /\ Tail(queue)[k] # Head(queue)
           /\ \A j, k \in 1..Len(Tail(queue)) : Tail(queue)[j] = Tail(queue)[k] => j = k
<1>1. queue \in Seq(Clients) /\ Len(queue) \in Nat /\ Len(queue) > 0
    BY DEF SlotInv, SlotTypes
<1>2. /\ Head(queue) = queue[1] /\ queue[1] \in Clients
      /\ Tail(queue) \in Seq(Clients) /\ Len(Tail(queue)) = Len(queue) - 1
      /\ \A k \in 1..Len(Tail(queue)) : Tail(queue)[k] = queue[k + 1]
    BY <1>1
<1>3. \A k \in 1..Len(Tail(queue)) : k + 1 \in 1..Len(queue) /\ k + 1 # 1
    BY <1>1, <1>2
<1>4. QED
    BY <1>1, <1>2, <1>3 DEF SlotInv, Lined

(* A coroutine goes on without touching slots.                              *)
LEMMA GoesOn ==
    ASSUME SlotInv, NEW c \in Clients, NEW s \in Steps, Goto(c, s),
           step[c] \notin {Queued, Granted}, s \notin {Queued, Granted},
           slot[c] => s # Absent, UNCHANGED <<slot, free, queue>>
    PROVE  SlotInv' /\ PoolStep
<1>1. \A d \in Clients : step'[d] = IF d = c THEN s ELSE step[d]
    BY DEF Goto, SlotInv, SlotTypes
<1>2. SlotTypes'
    BY DEF Goto, SlotInv, SlotTypes
<1>3. Holders' = Holders
    BY <1>1 DEF Holders
<1>4. SlotsAccounted'
    BY <1>1, <1>3 DEF SlotInv, SlotsAccounted
<1>5. Lined'
    BY <1>1 DEF SlotInv, SlotTypes, Lined
<1>6. Place' = Place
    BY <1>1, <1>3 DEF Place
<1>7. QED
    BY <1>2, <1>4, <1>5, <1>6 DEF SlotInv, PoolStep

(* Nothing at all changes for the slots.                                    *)
LEMMA SlotsStutter ==
    ASSUME SlotInv, UNCHANGED <<step, slot, free, queue>>
    PROVE  SlotInv' /\ PoolStep
<1>1. Holders' = Holders
    BY DEF Holders
<1>2. Place' = Place
    BY <1>1 DEF Place
<1>3. QED
    BY <1>1, <1>2 DEF SlotInv, SlotTypes, Lined, SlotsAccounted, PoolStep

LEMMA ArriveSlots ==
    ASSUME SlotInv, NEW c \in Clients, Arrive(c)
    PROVE  SlotInv' /\ PoolStep
<1>1. /\ step[c] = Absent /\ ~slot[c] /\ c \notin Holders
      /\ step \in [Clients -> Steps] /\ slot \in [Clients -> BOOLEAN]
      /\ free \in Nat /\ queue \in Seq(Clients) /\ Len(queue) \in Nat
    BY DEF Arrive, SlotInv, SlotTypes, SlotsAccounted, Holders
<1>2. \A k \in 1..Len(queue) : queue[k] \in Clients /\ queue[k] # c
    BY <1>1 DEF SlotInv, Lined
<1>3. CASE Locked
  <2>1. /\ queue' = Append(queue, c) /\ UNCHANGED <<slot, free>>
        /\ \A d \in Clients : step'[d] = IF d = c THEN Queued ELSE step[d]
        /\ step' \in [Clients -> Steps]
      BY <1>1, <1>3 DEF Arrive, Goto, Steps
  <2>2. /\ queue' \in Seq(Clients) /\ Len(queue') = Len(queue) + 1
        /\ \A k \in 1..Len(queue) : queue'[k] = queue[k]
        /\ queue'[Len(queue) + 1] = c
      BY <1>1, <2>1, AppendProperties
  <2>3. \A k \in 1..Len(queue') : k \in 1..Len(queue) \/ k = Len(queue) + 1
      BY <1>1, <2>2
  <2>4. Lined'
    <3>1. \A k \in 1..Len(queue') : step'[queue'[k]] = Queued
        BY <1>2, <2>1, <2>2, <2>3 DEF SlotInv, Lined
    <3>2. \A j, k \in 1..Len(queue') : queue'[j] = queue'[k] => j = k
        BY <1>2, <2>2, <2>3 DEF SlotInv, Lined
    <3>3. QED
        BY <3>1, <3>2 DEF Lined
  <2>5. Holders' = Holders
      BY <1>1, <2>1 DEF Holders
  <2>6. SlotsAccounted'
      BY <1>1, <2>1, <2>5 DEF SlotInv, SlotsAccounted
  <2>7. SlotTypes'
      BY <1>1, <2>1, <2>2 DEF SlotTypes
  <2>8. Place' = [Place EXCEPT ![c] = "waiting"] /\ Place[c] = "outside"
      BY <1>1, <2>1, <2>5 DEF Place
  <2>9. QED
      BY <2>4, <2>6, <2>7, <2>8, PoolMoves DEF SlotInv
<1>4. CASE ~Locked
  <2>1. /\ free > 0 /\ free' = free - 1 /\ UNCHANGED queue
        /\ \A d \in Clients : /\ step'[d] = IF d = c THEN Reading ELSE step[d]
                              /\ slot'[d] = IF d = c THEN TRUE ELSE slot[d]
        /\ step' \in [Clients -> Steps] /\ slot' \in [Clients -> BOOLEAN]
    <3>1. /\ free' = free - 1 /\ UNCHANGED queue
          /\ step' = [step EXCEPT ![c] = Reading] /\ slot' = [slot EXCEPT ![c] = TRUE]
        BY <1>4 DEF Arrive, Goto
    <3>2. free > 0
        BY <1>1, <1>4 DEF Locked
    <3>3. \A d \in Clients : slot'[d] = IF d = c THEN TRUE ELSE slot[d]
        BY <1>1, <3>1, Zenon
    <3>4. slot' \in [Clients -> BOOLEAN]
        BY <1>1, <3>1
    <3>5. /\ \A d \in Clients : step'[d] = IF d = c THEN Reading ELSE step[d]
          /\ step' \in [Clients -> Steps]
        BY <1>1, <3>1 DEF Steps
    <3>6. QED
        BY <3>1, <3>2, <3>3, <3>4, <3>5
  <2>2. Holders' = Holders \union {c} /\ Holders \subseteq Clients
      BY <1>1, <2>1 DEF Holders
  <2>3. Cardinality(Holders') = Cardinality(Holders) + 1
      BY <1>1, <2>2, HoldersGrow
  <2>4. Cardinality(Holders) \in Nat /\ free + Cardinality(Holders) = MaxConnections
      BY <2>2, HoldersFinite DEF SlotInv, SlotsAccounted
  <2>5. SlotsAccounted'
    <3>1. (free + Cardinality(Holders) = MaxConnections)'
        BY <1>1, <2>1, <2>3, <2>4
    <3>2. \A d \in Clients : slot'[d] => step'[d] \notin {Absent, Queued, Granted}
        BY <2>1 DEF SlotInv, SlotsAccounted
    <3>3. QED
        BY <3>1, <3>2 DEF SlotsAccounted
  <2>6. Lined'
      BY <1>2, <2>1 DEF SlotInv, Lined
  <2>7. SlotTypes'
      BY <1>1, <2>1 DEF SlotTypes
  <2>8. Place' = [Place EXCEPT ![c] = "served"] /\ Place[c] = "outside"
      BY <1>1, <2>1, <2>2 DEF Place
  <2>9. Cardinality(Holders) < MaxConnections
      BY <1>1, <2>1, <2>4, ProxyAssumption DEF ProxyAssumption
  <2>10. QED
      BY <2>5, <2>6, <2>7, <2>8, <2>9, PoolServes DEF SlotInv
<1>5. QED
    BY <1>3, <1>4

(* A coroutine whose slot goes back to the semaphore.                       *)
LEMMA GiveBackSlots ==
    ASSUME SlotInv, NEW c \in Clients, NEW s \in {Absent, Closing}, GiveBack(c, s),
           c \in Holders, step[c] # Queued,
           slot' \in [Clients -> BOOLEAN],
           \A d \in Clients : slot'[d] = IF d = c THEN FALSE ELSE slot[d]
    PROVE  SlotInv' /\ PoolStep
<1>1. /\ step \in [Clients -> Steps] /\ free \in Nat
      /\ queue \in Seq(Clients) /\ Len(queue) \in Nat
    BY DEF SlotInv, SlotTypes
<1>2. Holders \subseteq Clients /\ Cardinality(Holders) \in Nat
    BY HoldersFinite DEF Holders
<1>3. free + Cardinality(Holders) = MaxConnections
    BY DEF SlotInv, SlotsAccounted
<1>4. Cardinality(Holders \ {c}) = Cardinality(Holders) - 1
    BY <1>2, HoldersShrink
<1>5. CASE queue = <<>>
  <2>1. /\ free' = free + 1 /\ UNCHANGED queue
        /\ \A d \in Clients : step'[d] = IF d = c THEN s ELSE step[d]
        /\ step' \in [Clients -> Steps]
      BY <1>1, <1>5 DEF GiveBack, Goto, Steps
  <2>2. Holders' = Holders \ {c}
      BY <2>1 DEF Holders
  <2>3. (free + Cardinality(Holders) = MaxConnections)'
      BY <1>1, <1>2, <1>3, <1>4, <2>1, <2>2
  <2>4. SlotsAccounted'
      BY <2>1, <2>3 DEF SlotInv, SlotsAccounted
  <2>5. SlotTypes' /\ Lined'
      BY <1>1, <1>5, <2>1 DEF SlotTypes, Lined
  <2>6. Place' = [Place EXCEPT ![c] = "outside"] /\ Place[c] = "served"
      BY <1>1, <2>1, <2>2 DEF Place
  <2>7. QED
      BY <2>4, <2>5, <2>6, PoolMoves DEF SlotInv
<1>6. CASE queue # <<>>
  <2> DEFINE h == Head(queue)
  <2>1. /\ h \in Clients /\ step[h] = Queued /\ h # c /\ h \notin Holders
        /\ Tail(queue) \in Seq(Clients)
        /\ \A k \in 1..Len(Tail(queue)) : /\ step[Tail(queue)[k]] = Queued
                                          /\ Tail(queue)[k] # h
        /\ \A j, k \in 1..Len(Tail(queue)) : Tail(queue)[j] = Tail(queue)[k] => j = k
      BY <1>6, HeadWaits DEF SlotInv, SlotsAccounted, Holders
  <2> HIDE DEF h
  <2>2. /\ free' = free /\ queue' = Tail(queue)
        /\ \A d \in Clients : step'[d] = IF d = h THEN Granted
                                         ELSE IF d = c THEN s ELSE step[d]
        /\ step' \in [Clients -> Steps]
      BY <1>1, <1>6, <2>1 DEF GiveBack, Steps, h
  <2>3. Holders' = (Holders \ {c}) \union {h}
      BY <2>1, <2>2 DEF Holders
  <2>4. Cardinality(Holders') = Cardinality(Holders \ {c}) + 1
      BY <1>2, <2>1, <2>3, HoldersGrow
  <2>5. (free + Cardinality(Holders) = MaxConnections)'
      BY <1>1, <1>2, <1>3, <1>4, <2>2, <2>4
  <2>6. SlotsAccounted'
      BY <2>1, <2>2, <2>5 DEF SlotInv, SlotsAccounted
  <2>7. SlotTypes'
      BY <1>1, <2>1, <2>2 DEF SlotTypes
  <2>8. Lined'
    <3>1. \A k \in 1..Len(Tail(queue)) : Tail(queue)[k] \in Clients /\ Tail(queue)[k] # c
        BY <2>1
    <3>2. QED
        BY <2>1, <2>2, <3>1 DEF Lined
  <2>9. /\ Place' = [Place EXCEPT ![c] = "outside", ![h] = "served"]
        /\ Place[c] = "served" /\ Place[h] = "waiting"
    <3>1. Place[c] = "served" /\ Place[h] = "waiting"
        BY <2>1 DEF Place
    <3>2. \A d \in Clients :
            Place'[d] = IF d = h THEN "served" ELSE IF d = c THEN "outside" ELSE Place[d]
      <4> SUFFICES ASSUME NEW d \in Clients
                   PROVE  Place'[d] = IF d = h THEN "served"
                                      ELSE IF d = c THEN "outside" ELSE Place[d]
          OBVIOUS
      <4>1. CASE d = h
          BY <2>3, <4>1 DEF Place
      <4>2. CASE d # h /\ d = c
          BY <2>1, <2>2, <2>3, <4>2 DEF Place
      <4>3. CASE d # h /\ d # c
          BY <2>2, <2>3, <4>3 DEF Place
      <4>4. QED
          BY <4>1, <4>2, <4>3
    <3>3. /\ Place' = [d \in Clients |-> Place'[d]]
          /\ Place = [d \in Clients |-> Place[d]]
        BY DEF Place
    <3>4. QED
        BY <2>1, <3>1, <3>2, <3>3
  <2>10. QED
      BY <2>1, <2>6, <2>7, <2>8, <2>9, PoolHandsOver DEF SlotInv
<1>7. QED
    BY <1>5, <1>6

LEMMA EnterSlots ==
    ASSUME SlotInv, NEW c \in Clients, Enter(c)
    PROVE  SlotInv' /\ PoolStep
<1>1. /\ step[c] = Granted /\ c \in Holders
      /\ step \in [Clients -> Steps] /\ slot \in [Clients -> BOOLEAN] /\ free \in Nat
      /\ queue \in Seq(Clients) /\ Len(queue) \in Nat
    BY DEF Enter, SlotInv, SlotTypes, Holders
<1>2. Holders \subseteq Clients /\ Cardinality(Holders) \in Nat
    BY HoldersFinite DEF Holders
<1>3. free + Cardinality(Holders) = MaxConnections
    BY DEF SlotInv, SlotsAccounted
<1>4. slot' \in [Clients -> BOOLEAN]
    BY <1>1 DEF Enter
<1>5. \A d \in Clients : slot'[d] = IF d = c THEN TRUE ELSE slot[d]
    BY <1>1, Zenon DEF Enter
<1>6. CASE free > 0 /\ queue # <<>>
  <2> DEFINE h == Head(queue)
  <2>1. /\ h \in Clients /\ step[h] = Queued /\ h # c /\ h \notin Holders
        /\ Tail(queue) \in Seq(Clients)
        /\ \A k \in 1..Len(Tail(queue)) : /\ step[Tail(queue)[k]] = Queued
                                          /\ Tail(queue)[k] # h
        /\ \A j, k \in 1..Len(Tail(queue)) : Tail(queue)[j] = Tail(queue)[k] => j = k
      BY <1>1, <1>6, HeadWaits DEF SlotInv, SlotsAccounted, Holders
  <2> HIDE DEF h
  <2>2. /\ free' = free - 1 /\ queue' = Tail(queue)
        /\ \A d \in Clients : step'[d] = IF d = h THEN Granted
                                         ELSE IF d = c THEN Reading ELSE step[d]
        /\ step' \in [Clients -> Steps]
    <3>1. /\ free' = free - 1 /\ queue' = Tail(queue)
          /\ step' = [step EXCEPT ![c] = Reading, ![h] = Granted]
        BY <1>6 DEF Enter, h
    <3>2. QED
        BY <1>1, <2>1, <3>1 DEF Steps
  <2>3. Holders' = Holders \union {h}
      BY <1>1, <1>5, <2>1, <2>2 DEF Holders
  <2>4. Cardinality(Holders') = Cardinality(Holders) + 1
      BY <1>2, <2>1, <2>3, HoldersGrow
  <2>5. (free + Cardinality(Holders) = MaxConnections)'
      BY <1>1, <1>2, <1>3, <2>2, <2>4
  <2>6. SlotsAccounted'
      BY <1>5, <2>1, <2>2, <2>5 DEF SlotInv, SlotsAccounted
  <2>7. SlotTypes'
      BY <1>1, <1>4, <1>6, <2>1, <2>2 DEF SlotTypes
  <2>8. Lined'
    <3>1. \A k \in 1..Len(Tail(queue)) : Tail(queue)[k] \in Clients /\ Tail(queue)[k] # c
        BY <1>1, <2>1
    <3>2. QED
        BY <2>1, <2>2, <3>1 DEF Lined
  <2>9. Place' = [Place EXCEPT ![h] = "served"] /\ Place[h] = "waiting"
      BY <1>1, <2>1, <2>2, <2>3 DEF Place
  <2>10. Cardinality(Holders) < MaxConnections
      BY <1>1, <1>2, <1>3, <1>6
  <2>11. QED
      BY <2>1, <2>6, <2>7, <2>8, <2>9, <2>10, PoolServes DEF SlotInv
<1>7. CASE ~(free > 0 /\ queue # <<>>)
  <2>1. /\ free' = free /\ queue' = queue
        /\ \A d \in Clients : step'[d] = IF d = c THEN Reading ELSE step[d]
        /\ step' \in [Clients -> Steps]
    <3>1. free' = free /\ queue' = queue /\ step' = [step EXCEPT ![c] = Reading]
        BY <1>7 DEF Enter, Goto
    <3>2. QED
        BY <1>1, <3>1 DEF Steps
  <2>2. Holders' = Holders
      BY <1>1, <1>5, <2>1 DEF Holders
  <2>3. SlotsAccounted'
      BY <1>5, <2>1, <2>2 DEF SlotInv, SlotsAccounted
  <2>4. SlotTypes'
      BY <1>1, <1>4, <2>1 DEF SlotTypes
  <2>5. Lined'
      BY <1>1, <2>1 DEF SlotInv, Lined
  <2>6. Place' = Place
      BY <1>1, <2>1, <2>2 DEF Place
  <2>7. QED
      BY <2>3, <2>4, <2>5, <2>6 DEF SlotInv, PoolStep
<1>8. QED
    BY <1>6, <1>7

(* A waiter that gives up, or the slot that came too late.                  *)
LEMMA GiveUpSlots ==
    ASSUME SlotInv, NEW c \in Clients, GiveUp(c)
    PROVE  SlotInv' /\ PoolStep
<1>1. /\ step \in [Clients -> Steps] /\ slot \in [Clients -> BOOLEAN] /\ free \in Nat
      /\ queue \in Seq(Clients) /\ Len(queue) \in Nat /\ UNCHANGED slot
    BY DEF GiveUp, SlotInv, SlotTypes
<1>2. CASE step[c] = Granted /\ GiveBack(c, Closing)
  <2>1. ~slot[c] /\ c \in Holders
      BY <1>2 DEF SlotInv, SlotsAccounted, Holders
  <2>2. \A d \in Clients : slot'[d] = IF d = c THEN FALSE ELSE slot[d]
      BY <1>1, <2>1
  <2>3. slot' \in [Clients -> BOOLEAN]
      BY <1>1
  <2>4. QED
      BY <1>2, <2>1, <2>2, <2>3, GiveBackSlots
<1>3. CASE /\ \E k \in DOMAIN queue : queue[k] = c /\ queue' = Without(k)
           /\ Goto(c, Closing) /\ UNCHANGED free
  <2>1. PICK k \in 1..Len(queue) : queue[k] = c /\ queue' = Without(k)
      BY <1>1, <1>3
  <2>2. step[c] = Queued /\ ~slot[c]
      BY <2>1 DEF SlotInv, Lined, SlotsAccounted
  <2>3. /\ \A d \in Clients : step'[d] = IF d = c THEN Closing ELSE step[d]
        /\ step' \in [Clients -> Steps]
      BY <1>1, <1>3 DEF Goto, Steps
  <2> DEFINE from == [j \in 1..(Len(queue) - 1) |-> IF j < k THEN j ELSE j + 1]
  <2>4. \A j \in 1..(Len(queue) - 1) : from[j] \in 1..Len(queue) /\ from[j] # k
      BY <1>1, <2>1
  <2>5. \A i, j \in 1..(Len(queue) - 1) : from[i] = from[j] => i = j
      BY <1>1, <2>1
  <2>6. queue' = [j \in 1..(Len(queue) - 1) |-> queue[from[j]]]
      BY <2>1 DEF Without
  <2> HIDE DEF from
  <2>7. \A j \in 1..(Len(queue) - 1) : queue[from[j]] \in Clients /\ queue[from[j]] # c
      BY <1>1, <2>1, <2>4 DEF SlotInv, Lined
  <2>8. queue' \in Seq(Clients) /\ Len(queue') = Len(queue) - 1
    <3>1. Len(queue) - 1 \in Nat
        BY <1>1, <2>1
    <3>2. QED
        BY <2>6, <2>7, <3>1, IsASeq
  <2>9. Lined'
    <3>1. \A j \in 1..Len(queue') : step'[queue'[j]] = Queued
      <4>1. \A j \in 1..Len(queue') :
               queue'[j] = queue[from[j]] /\ queue'[j] \in Clients /\ queue'[j] # c
          BY <2>6, <2>7, <2>8
      <4>2. \A j \in 1..Len(queue') : step[queue[from[j]]] = Queued
          BY <1>1, <2>4, <2>8 DEF SlotInv, Lined
      <4>3. QED
          BY <2>3, <4>1, <4>2
    <3>2. \A i, j \in 1..Len(queue') : queue'[i] = queue'[j] => i = j
        BY <2>4, <2>5, <2>6, <2>8 DEF SlotInv, Lined
    <3>3. QED
        BY <3>1, <3>2 DEF Lined
  <2>10. Holders' = Holders
      BY <1>1, <2>2, <2>3 DEF Holders
  <2>11. SlotsAccounted'
      BY <1>1, <1>3, <2>3, <2>2, <2>10 DEF SlotInv, SlotsAccounted
  <2>12. SlotTypes'
      BY <1>1, <1>3, <2>3, <2>8 DEF SlotTypes
  <2>13. Place' = [Place EXCEPT ![c] = "outside"] /\ Place[c] = "waiting"
      BY <1>1, <2>2, <2>3, <2>10 DEF Place, Holders
  <2>14. QED
      BY <2>9, <2>11, <2>12, <2>13, PoolMoves DEF SlotInv
<1>4. QED
    BY <1>2, <1>3 DEF GiveUp

-----------------------------------------------------------------------------
(* Locals                                                                   *)

(* Nobody else's locals change; a waiting client may get a slot.            *)
Same(d) ==
  /\ step'[d] = step[d] \/ (step[d] = Queued /\ step'[d] = Granted)
  /\ answer'[d] = answer[d] /\ tried'[d] = tried[d]
  /\ upstream'[d] = upstream[d] /\ relays'[d] = relays[d] /\ reply'[d] = reply[d]

LEMMA SameTidy ==
    ASSUME NEW d \in Clients, Tidy(d), Same(d)
    PROVE  Tidy(d)'
<1>1. CASE step'[d] = step[d]
    BY <1>1 DEF Tidy, Same
<1>2. CASE step[d] = Queued /\ step'[d] = Granted
    BY <1>2 DEF Tidy, Same
<1>3. QED
    BY <1>1, <1>2 DEF Same

LEMMA OthersTidy ==
    ASSUME LocalInv, NEW c \in Clients, Tidy(c)', LocalTypes',
           \A d \in Clients : d # c => Same(d)
    PROVE  LocalInv'
<1>1. \A d \in Clients : Tidy(d)'
  <2> SUFFICES ASSUME NEW d \in Clients PROVE Tidy(d)'
      OBVIOUS
  <2>1. CASE d = c
      BY <2>1
  <2>2. CASE d # c
    <3>1. Tidy(d) /\ Same(d)
        BY <2>2 DEF LocalInv
    <3>2. QED
        BY <3>1, SameTidy
  <2>3. QED
      BY <2>1, <2>2
<1>2. QED
    BY <1>1 DEF LocalInv

(* A coroutine that is being served changes its own locals only.            *)
Served(c) ==
  \/ ReadHeader(c) \/ Resolve(c) \/ DialOk(c) \/ DialFails(c) \/ Greet(c)
  \/ TearDown(c) \/ CloseUpstream(c) \/ \E d \in Directions : EndRelay(c, d)

LEMMA ServedTypes ==
    ASSUME LocalTypes, step \in [Clients -> Steps], NEW c \in Clients, Served(c)
    PROVE  LocalTypes' /\ \A d \in Clients : d # c => Same(d)
<1>1. CASE ReadHeader(c)
  <2>1. \A why \in DOMAIN Refusal : Refusal[why] \in Replies
      BY DEF Refusal, Replies
  <2>2. \/ UNCHANGED reply \/ \E st \in Replies : reply' = [reply EXCEPT ![c] = st]
      BY <1>1, <2>1 DEF ReadHeader, Answer, locals
  <2>3. /\ UNCHANGED <<answer, tried, upstream, relays>>
        /\ \E s \in Steps : step' = [step EXCEPT ![c] = s]
      BY <1>1 DEF ReadHeader, Answer, locals, Goto, Steps
  <2>4. QED
      BY <2>2, <2>3 DEF LocalTypes, Same
<1>2. CASE Resolve(c)
    BY <1>2 DEF Resolve, Answer, Goto, LocalTypes, Same, Replies
<1>3. CASE DialOk(c)
    BY <1>3 DEF DialOk, Goto, LocalTypes, Same, Replies
<1>4. CASE DialFails(c)
    BY <1>4 DEF DialFails, Goto, LocalTypes, Same, Replies
<1>5. CASE Greet(c)
    BY <1>5 DEF Greet, Goto, LocalTypes, Same
<1>6. CASE TearDown(c)
    BY <1>6 DEF TearDown, Goto, LocalTypes, Same
<1>7. CASE CloseUpstream(c)
    BY <1>7 DEF CloseUpstream, Goto, LocalTypes, Same
<1>8. ASSUME NEW d \in Directions, EndRelay(c, d)
      PROVE  LocalTypes' /\ \A e \in Clients : e # c => Same(e)
    BY <1>8 DEF EndRelay, LocalTypes, Same
<1>9. QED
    BY <1>1, <1>2, <1>3, <1>4, <1>5, <1>6, <1>7, <1>8 DEF Served

LEMMA ServedTidy ==
    ASSUME LocalTypes, step \in [Clients -> Steps], NEW c \in Clients, Tidy(c), Served(c)
    PROVE  Tidy(c)'
<1> USE DEF Goto, LocalTypes
<1>1. CASE ReadHeader(c)
  <2>1. CASE (Goto(c, Resolving) \/ Goto(c, Closing)) /\ UNCHANGED locals
      BY <1>1, <2>1 DEF ReadHeader, Tidy, locals
  <2>2. ASSUME NEW why \in DOMAIN Refusal, Answer(c, Refusal[why]) PROVE Tidy(c)'
    <3>1. PICK st \in {403, 405, 408} : Answer(c, st)
        BY <2>2 DEF Refusal
    <3>2. step'[c] = Closing /\ reply'[c] = st
        BY <3>1 DEF Answer
    <3>3. QED
        BY <1>1, <3>1, <3>2 DEF ReadHeader, Tidy, Answer
  <2>3. QED
      BY <1>1, <2>1, <2>2 DEF ReadHeader
<1>2. CASE Resolve(c)
  <2>1. CASE Answer(c, 403)
      BY <1>2, <2>1 DEF Resolve, Tidy, Answer
  <2>2. ASSUME NEW found \in SUBSET Addresses, found \subseteq Global,
               answer' = [answer EXCEPT ![c] = found], Goto(c, Dialling),
               UNCHANGED <<tried, upstream, relays, reply>>
        PROVE  Tidy(c)'
      BY <1>2, <2>2 DEF Resolve, Tidy
  <2>3. QED
      BY <1>2, <2>1, <2>2 DEF Resolve, Acceptable
<1>3. CASE DialOk(c)
    BY <1>3 DEF DialOk, Target, Tidy
<1>4. CASE DialFails(c)
  <2>1. PICK a \in Addresses :
          /\ a \in answer[c]
          /\ tried'[c] = tried[c] \union {a}
          /\ IF answer[c] \ tried[c] = {a}
             THEN reply' = [reply EXCEPT ![c] = 502] /\ Goto(c, Closing)
             ELSE UNCHANGED <<reply, step>>
      BY <1>4 DEF DialFails, Target
  <2>2. step[c] = Dialling /\ UNCHANGED <<answer, upstream, relays>>
      BY <1>4 DEF DialFails
  <2>3. CASE answer[c] \ tried[c] = {a}
    <3>1. tried'[c] = answer[c] /\ tried'[c] # {}
        BY <2>1, <2>3 DEF Tidy
    <3>2. reply'[c] = 502 /\ step'[c] = Closing
        BY <2>1, <2>3
    <3>3. QED
        BY <2>2, <3>1, <3>2 DEF Tidy
  <2>4. CASE answer[c] \ tried[c] # {a}
      BY <2>1, <2>2, <2>4 DEF Tidy
  <2>5. QED
      BY <2>3, <2>4
<1>5. CASE Greet(c)
    BY <1>5 DEF Greet, Tidy
<1>6. CASE TearDown(c)
    BY <1>6 DEF TearDown, Tidy
<1>7. CASE CloseUpstream(c)
    BY <1>7 DEF CloseUpstream, Tidy
<1>8. ASSUME NEW d \in Directions, EndRelay(c, d) PROVE Tidy(c)'
    BY <1>8 DEF EndRelay, Tidy
<1>9. QED
    BY <1>1, <1>2, <1>3, <1>4, <1>5, <1>6, <1>7, <1>8 DEF Served

(* Steps among waiting clients leave the locals alone but for a refusal.    *)
LEMMA WaitTidy ==
    ASSUME LocalInv, SlotInv, NEW c \in Clients, Enter(c) \/ GiveUp(c) \/ CloseClient(c)
    PROVE  LocalInv'
<1>1. LocalTypes /\ step \in [Clients -> Steps] /\ Tidy(c)
    BY DEF LocalInv, SlotInv, SlotTypes
<1>2. (Head(queue) \in Clients /\ step[Head(queue)] = Queued) \/ queue = <<>>
    BY HeadWaits
<1>3. CASE Enter(c)
  <2>1. step[c] = Granted /\ UNCHANGED locals
      BY <1>3 DEF Enter
  <2>2. \/ step' = [step EXCEPT ![c] = Reading]
        \/ queue # <<>> /\ step' = [step EXCEPT ![c] = Reading, ![Head(queue)] = Granted]
      BY <1>3 DEF Enter, Goto
  <2>3. \A d \in Clients : d # c => Same(d)
      BY <1>1, <1>2, <2>1, <2>2 DEF Same, locals
  <2>4. step'[c] = Reading
      BY <1>1, <1>2, <2>1, <2>2
  <2>5. Tidy(c)' /\ LocalTypes'
      BY <1>1, <2>1, <2>4 DEF Tidy, LocalTypes, locals
  <2>6. QED
      BY <1>1, <2>3, <2>5, OthersTidy
<1>4. ASSUME NEW s, GiveBack(c, s), step[c] # Queued
      PROVE  /\ step'[c] = s
             /\ \A d \in Clients : d # c =>
                  step'[d] = step[d] \/ (step[d] = Queued /\ step'[d] = Granted)
  <2>1. CASE queue = <<>>
      BY <1>1, <1>4, <2>1 DEF GiveBack, Goto
  <2>2. CASE queue # <<>>
    <3>1. step' = [step EXCEPT ![c] = s, ![Head(queue)] = Granted]
        BY <1>4, <2>2 DEF GiveBack
    <3>2. QED
        BY <1>1, <1>2, <1>4, <2>2, <3>1
  <2>3. QED
      BY <2>1, <2>2
<1>5. CASE GiveUp(c)
  <2>1. /\ reply' = [reply EXCEPT ![c] = 408]
        /\ UNCHANGED <<answer, tried, upstream, relays>>
      BY <1>5 DEF GiveUp
  <2>2. /\ step[c] \in {Queued, Granted} /\ step'[c] = Closing
        /\ \A d \in Clients : d # c =>
             step'[d] = step[d] \/ (step[d] = Queued /\ step'[d] = Granted)
    <3>1. CASE step[c] = Granted /\ GiveBack(c, Closing)
        BY <1>4, <3>1
    <3>2. CASE (\E k \in DOMAIN queue : queue[k] = c) /\ Goto(c, Closing)
      <4>1. step[c] = Queued
          BY <3>2 DEF SlotInv, SlotTypes, Lined
      <4>2. QED
          BY <1>1, <3>2, <4>1 DEF Goto
    <3>3. QED
        BY <1>5, <3>1, <3>2 DEF GiveUp
  <2>3. \A d \in Clients : d # c => Same(d)
      BY <1>1, <2>1, <2>2 DEF Same, LocalTypes
  <2>4. LocalTypes' /\ reply'[c] = 408
      BY <1>1, <2>1 DEF LocalTypes, Replies
  <2>5. Tidy(c)'
      BY <1>1, <2>1, <2>2, <2>4 DEF Tidy
  <2>6. QED
      BY <1>1, <2>3, <2>4, <2>5, OthersTidy
<1>6. CASE CloseClient(c)
  <2>1. step[c] = Hanging /\ UNCHANGED locals
      BY <1>6 DEF CloseClient
  <2>2. GiveBack(c, Absent) \/ Goto(c, Absent) \/ Goto(c, Broken)
      BY <1>6 DEF CloseClient
  <2>3. /\ step'[c] \in {Absent, Broken}
        /\ \A d \in Clients : d # c =>
             step'[d] = step[d] \/ (step[d] = Queued /\ step'[d] = Granted)
    <3>1. CASE GiveBack(c, Absent)
        BY <1>4, <2>1, <3>1
    <3>2. CASE Goto(c, Absent) \/ Goto(c, Broken)
        BY <1>1, <3>2 DEF Goto
    <3>3. QED
        BY <2>2, <3>1, <3>2
  <2>4. \A d \in Clients : d # c => Same(d)
      BY <2>1, <2>3 DEF Same, locals
  <2>5. Tidy(c)' /\ LocalTypes'
      BY <1>1, <2>1, <2>3 DEF Tidy, LocalTypes, locals
  <2>6. QED
      BY <1>1, <2>4, <2>5, OthersTidy
<1>7. QED
    BY <1>3, <1>5, <1>6

-----------------------------------------------------------------------------
(* Every step                                                               *)

LEMMA ArriveInv ==
    ASSUME IInv, NEW c \in Clients, Arrive(c)
    PROVE  IInv' /\ PoolStep
<1>1. SlotInv' /\ PoolStep
    BY ArriveSlots DEF IInv
<1>2. /\ LocalTypes /\ step \in [Clients -> Steps] /\ Tidy(c) /\ LocalInv
      /\ step[c] = Absent
    BY DEF IInv, LocalInv, SlotInv, SlotTypes, Arrive
<1>3. upstream[c] = {} /\ relays[c] = {}
    BY <1>2 DEF Tidy
<1>4. PICK s \in {Queued, Reading} : Goto(c, s)
    BY DEF Arrive
<1>5. /\ answer' = [answer EXCEPT ![c] = {}] /\ tried' = [tried EXCEPT ![c] = {}]
      /\ reply' = [reply EXCEPT ![c] = 0] /\ UNCHANGED <<upstream, relays>>
    BY DEF Arrive
<1>6. LocalTypes' /\ \A d \in Clients : d # c => Same(d)
    BY <1>2, <1>4, <1>5 DEF LocalTypes, Same, Goto, Replies
<1>7. /\ answer'[c] = {} /\ tried'[c] = {} /\ reply'[c] = 0 /\ step'[c] = s
    BY <1>2, <1>4, <1>5 DEF LocalTypes, Goto
<1>8. Tidy(c)'
    BY <1>3, <1>5, <1>7 DEF Tidy
<1>9. LocalInv'
    BY <1>2, <1>6, <1>8, OthersTidy
<1>10. QED
    BY <1>1, <1>9 DEF IInv

(* A step of a coroutine that is being served.                              *)
LEMMA ServedInv ==
    ASSUME IInv, NEW c \in Clients, Served(c)
    PROVE  IInv' /\ PoolStep
<1>1. /\ LocalTypes /\ step \in [Clients -> Steps] /\ Tidy(c) /\ LocalInv /\ SlotInv
    BY DEF IInv, LocalInv, SlotInv, SlotTypes
<1>2. UNCHANGED <<slot, free, queue>> /\ step[c] \notin {Queued, Granted, Absent}
    BY DEF Served, ReadHeader, Resolve, DialOk, DialFails, Greet, TearDown, CloseUpstream,
           EndRelay
<1>3. UNCHANGED step \/ \E s \in Steps \ {Queued, Granted, Absent} : Goto(c, s)
    BY DEF Served, ReadHeader, Resolve, DialOk, DialFails, Greet, TearDown, CloseUpstream,
           EndRelay, Answer, Steps
<1>4. SlotInv' /\ PoolStep
  <2>1. CASE UNCHANGED step
      BY <1>1, <1>2, <2>1, SlotsStutter
  <2>2. CASE \E s \in Steps \ {Queued, Granted, Absent} : Goto(c, s)
      BY <1>1, <1>2, <2>2, GoesOn
  <2>3. QED
      BY <1>3, <2>1, <2>2
<1>5. LocalInv'
    BY <1>1, ServedTypes, ServedTidy, OthersTidy
<1>6. QED
    BY <1>4, <1>5 DEF IInv

LEMMA CloseClientInv ==
    ASSUME IInv, NEW c \in Clients, CloseClient(c)
    PROVE  IInv' /\ PoolStep
<1>1. LocalInv' /\ LocalInv /\ SlotInv
    BY WaitTidy DEF IInv
<1>2. step[c] = Hanging /\ slot \in [Clients -> BOOLEAN]
    BY <1>1 DEF CloseClient, SlotInv, SlotTypes
<1>3. SlotInv' /\ PoolStep
  <2>1. CASE slot[c] /\ GiveBack(c, Absent) /\ slot' = [slot EXCEPT ![c] = FALSE]
    <3>1. c \in Holders
        BY <2>1 DEF Holders
    <3>2. slot' \in [Clients -> BOOLEAN]
        BY <1>2, <2>1
    <3>3. \A d \in Clients : slot'[d] = IF d = c THEN FALSE ELSE slot[d]
        BY <1>2, <2>1, Zenon
    <3>4. QED
        BY <1>1, <1>2, <2>1, <3>1, <3>2, <3>3, GiveBackSlots
  <2>2. CASE ~slot[c] /\ Goto(c, Absent) /\ UNCHANGED <<slot, free, queue>>
      BY <1>1, <1>2, <2>2, GoesOn DEF Steps
  <2>3. CASE Goto(c, Broken) /\ UNCHANGED <<slot, free, queue>>
      BY <1>1, <1>2, <2>3, GoesOn DEF Steps
  <2>4. QED
      BY <2>1, <2>2, <2>3 DEF CloseClient
<1>4. QED
    BY <1>1, <1>3 DEF IInv

LEMMA InitInv == Init => IInv
<1> SUFFICES ASSUME Init PROVE IInv
    OBVIOUS
<1>1. Holders = {}
    BY DEF Init, Holders
<1>2. SlotsAccounted
    BY <1>1, FS_EmptySet, ProxyAssumption DEF ProxyAssumption, Init, SlotsAccounted
<1>3. SlotTypes /\ Lined
    BY ProxyAssumption DEF ProxyAssumption, Init, SlotTypes, Lined, Steps
<1>4. LocalInv
    BY DEF Init, LocalInv, LocalTypes, Tidy, Replies
<1>5. QED
    BY <1>2, <1>3, <1>4 DEF IInv, SlotInv

LEMMA StepInv == IInv /\ [Next]_vars => IInv' /\ PoolStep
<1> SUFFICES ASSUME IInv, [Next]_vars PROVE IInv' /\ PoolStep
    OBVIOUS
<1>1. CASE UNCHANGED vars
  <2>1. SlotInv' /\ PoolStep
      BY <1>1, SlotsStutter DEF vars, IInv
  <2>2. LocalInv'
      BY <1>1 DEF vars, IInv, LocalInv, LocalTypes, Tidy
  <2>3. QED
      BY <2>1, <2>2 DEF IInv
<1>2. ASSUME NEW c \in Clients, Enter(c) \/ GiveUp(c) PROVE IInv' /\ PoolStep
  <2>1. LocalInv'
      BY <1>2, WaitTidy DEF IInv
  <2>2. SlotInv' /\ PoolStep
      BY <1>2, EnterSlots, GiveUpSlots DEF IInv
  <2>3. QED
      BY <2>1, <2>2 DEF IInv
<1>3. CASE \E c \in Clients : Arrive(c)
    BY <1>3, ArriveInv
<1>4. CASE \E c \in Clients : Served(c)
    BY <1>4, ServedInv
<1>5. CASE \E c \in Clients : CloseClient(c)
    BY <1>5, CloseClientInv
<1>6. QED
    BY <1>1, <1>2, <1>3, <1>4, <1>5 DEF Next, Serve, Close, Served

LEMMA InvariantHolds == Spec => []IInv
    BY InitInv, StepInv, PTL DEF Spec

-----------------------------------------------------------------------------
(* Theorems                                                                 *)

(* Every client is where its coroutine can be, with locals to match. *)
THEOREM TypeCorrect == Spec => []TypeOK
<1>1. IInv => TypeOK
    BY DEF IInv, SlotInv, SlotTypes, LocalInv, LocalTypes, TypeOK
<1>2. QED
    BY <1>1, InvariantHolds, PTL

(* No slot is lost or made up by handle or by the semaphore's queue. *)
THEOREM SlotsAreAccounted == Spec => []SlotsAccounted
<1>1. IInv => SlotsAccounted
    BY DEF IInv, SlotInv
<1>2. QED
    BY <1>1, InvariantHolds, PTL

(* Only addresses of a lookup that was checked as a whole are dialled. *)
THEOREM GlobalOnly == Spec => []OnlyGlobalDialled
<1>1. IInv => OnlyGlobalDialled
    BY DEF IInv, LocalInv, Tidy, OnlyGlobalDialled
<1>2. QED
    BY <1>1, InvariantHolds, PTL

(* The status written to the client tells what happened. *)
THEOREM AnswersAreHonest == Spec => []AnswersHonest
<1>1. IInv => AnswersHonest
    BY DEF IInv, LocalInv, Tidy, AnswersHonest
<1>2. QED
    BY <1>1, InvariantHolds, PTL

(* No relay and no upstream connection outlives its tunnel. *)
THEOREM NothingIsLeftOpen == Spec => []NothingLeftOpen
<1>1. IInv => NothingLeftOpen
    BY DEF IInv, LocalInv, Tidy, NothingLeftOpen
<1>2. QED
    BY <1>1, InvariantHolds, PTL

(* The proxy implements a pool of max_connections slots. *)
THEOREM ImplementsPool == Spec => PoolSpec
<1>1. Init => Pool!Init
  <2>1. Init => \A c \in Clients : c \notin Holders /\ step[c] = Absent
      BY DEF Init, Holders
  <2>2. QED
      BY <2>1 DEF Pool!Init, Pool!Outside
<1>2. PoolStep <=> [Pool!Next]_[c \in Clients |->
          IF c \in Holders THEN "served" ELSE IF step[c] = Queued THEN "waiting" ELSE "outside"]
    BY DEF PoolStep, Place
<1>3. QED
    BY <1>1, <1>2, InvariantHolds, StepInv, PTL DEF Spec, PoolSpec, Pool!Spec
=============================================================================
