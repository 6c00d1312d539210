----------------------------- MODULE EgressProxy -----------------------------
(***************************************************************************)
(* The CONNECT proxy of egress_proxy.py: one coroutine PublicHttpsEgress-  *)
(* Proxy.handle per client connection, all on one event loop, sharing a    *)
(* semaphore of slots.  One action per suspension point of the coroutine:  *)
(* what it awaits ends in one of its outcomes and the code up to the next  *)
(* await runs at once.                                                     *)
(*                                                                         *)
(* The semaphore is asyncio's: first come first served, a slot given back  *)
(* goes to the head of the queue, which finds out when its task runs.      *)
(***************************************************************************)
EXTENDS Naturals, FiniteSets, Sequences

CONSTANTS Clients,         \* client sockets; each may connect again
          MaxConnections,  \* config.max_connections
          Addresses,       \* addresses, numbered in the order they are dialled
          Global,          \* those with address.is_global
          MayBreakClose    \* may closing a socket report an error that is no
                           \* ConnectionError (a connection that timed out)?

ASSUME ProxyAssumption ==
  /\ IsFiniteSet(Clients)
  /\ MaxConnections \in Nat \ {0}
  /\ Addresses \subseteq Nat
  /\ Global \subseteq Addresses
  /\ MayBreakClose \in BOOLEAN

VARIABLES step,    \* where the coroutine of a client is suspended
          slot,    \* its local "acquired"
          free,    \* the value of the semaphore
          queue,   \* the clients waiting in the semaphore, oldest first
          answer,  \* the addresses its target resolved to, once accepted
          tried,   \* those it has dialled
          upstream,\* {} or the one address of its upstream_writer
          relays,  \* the relay tasks still running
          reply    \* the status line written to the client

vars == <<step, slot, free, queue, answer, tried, upstream, relays, reply>>
locals == <<answer, tried, upstream, relays, reply>>

Absent == "absent"          \* no connection
Queued == "queued"          \* in acquire()
Granted == "granted"        \* acquire() has its slot, the task has not run yet
Reading == "reading"        \* readuntil(end of the header)
Resolving == "resolving"    \* getaddrinfo
Dialling == "dialling"      \* open_connection
Greeting == "greeting"      \* drain() of the 200
Relaying == "relaying"      \* asyncio.wait on the two relays
Closing == "closing"        \* in finally, before the upstream is closed
Hanging == "hanging"        \* in finally, before the client is closed
Broken == "broken"          \* an exception left the finally block early

Steps == {Absent, Queued, Granted, Reading, Resolving, Dialling, Greeting,
          Relaying, Closing, Hanging, Broken}
Directions == {"client_to_upstream", "upstream_to_client"}
Replies == {0, 200, 403, 405, 408, 502}

\* What a header can be: a CONNECT to an HTTPS authority, or one of the
\* reasons not to serve it and the status that answers it.
Refusal == [target |-> 403, oversized |-> 403, incomplete |-> 403,
            ascii |-> 403, method |-> 405, slow |-> 408]

Init ==
  /\ step = [c \in Clients |-> Absent]
  /\ slot = [c \in Clients |-> FALSE]
  /\ free = MaxConnections
  /\ queue = <<>>
  /\ answer = [c \in Clients |-> {}]
  /\ tried = [c \in Clients |-> {}]
  /\ upstream = [c \in Clients |-> {}]
  /\ relays = [c \in Clients |-> {}]
  /\ reply = [c \in Clients |-> 0]

Goto(c, s) == step' = [step EXCEPT ![c] = s]

\* The client is answered with a status and the coroutine goes to finally.
Answer(c, status) ==
  /\ reply' = [reply EXCEPT ![c] = status]
  /\ Goto(c, Closing)
  /\ UNCHANGED <<answer, tried, upstream, relays>>

-----------------------------------------------------------------------------
(* The semaphore. *)

\* No newcomer overtakes a waiter, not even one that has its slot already.
Locked == free = 0 \/ queue # <<>> \/ \E d \in Clients : step[d] = Granted

Arrive(c) ==
  /\ step[c] = Absent
  /\ IF Locked
       THEN /\ queue' = Append(queue, c)
            /\ Goto(c, Queued)
            /\ UNCHANGED <<slot, free>>
       ELSE /\ free' = free - 1
            /\ slot' = [slot EXCEPT ![c] = TRUE]
            /\ Goto(c, Reading)
            /\ UNCHANGED queue
  /\ answer' = [answer EXCEPT ![c] = {}]
  /\ tried' = [tried EXCEPT ![c] = {}]
  /\ reply' = [reply EXCEPT ![c] = 0]
  /\ UNCHANGED <<upstream, relays>>

\* A slot is given back by c, which goes on at s: the head of the queue gets
\* it, or it becomes free.
GiveBack(c, s) ==
  IF queue = <<>>
    THEN /\ free' = free + 1
         /\ Goto(c, s)
         /\ UNCHANGED queue
    ELSE /\ queue' = Tail(queue)
         /\ step' = [step EXCEPT ![c] = s, ![Head(queue)] = Granted]
         /\ UNCHANGED free

\* The task of a waiter that was given a slot runs; if slots became free
\* meanwhile it wakes the next one, which again does so in its turn.
Enter(c) ==
  /\ step[c] = Granted
  /\ slot' = [slot EXCEPT ![c] = TRUE]
  /\ IF free > 0 /\ queue # <<>>
       THEN /\ free' = free - 1
            /\ queue' = Tail(queue)
            /\ step' = [step EXCEPT ![c] = Reading, ![Head(queue)] = Granted]
       ELSE /\ Goto(c, Reading)
            /\ UNCHANGED <<free, queue>>
  /\ UNCHANGED locals

\* The queue when the waiter at place k has left it.
Without(k) == [j \in 1..(Len(queue) - 1) |-> queue[IF j < k THEN j ELSE j + 1]]

\* Faulty: acquire() waits without a timeout.
GiveUpNever(c) == FALSE

\* A second passes in acquire(); a slot that came at the same moment is
\* given back.
GiveUp(c) ==
  /\ reply' = [reply EXCEPT ![c] = 408]
  /\ \/ /\ \E k \in DOMAIN queue : queue[k] = c /\ queue' = Without(k)
        /\ Goto(c, Closing)
        /\ UNCHANGED free
     \/ /\ step[c] = Granted
        /\ GiveBack(c, Closing)
  /\ UNCHANGED <<slot, answer, tried, upstream, relays>>

-----------------------------------------------------------------------------
(* The request. *)

ReadHeader(c) ==
  /\ step[c] = Reading
  /\ \/ Goto(c, Resolving) /\ UNCHANGED locals
     \/ \E why \in DOMAIN Refusal : Answer(c, Refusal[why])
     \/ Goto(c, Closing) /\ UNCHANGED locals  \* the client reset the connection
  /\ UNCHANGED <<slot, free, queue>>

\* Faulty: one public address is enough.
AcceptableAny(found) == found \intersect Global # {}

\* require_global_addresses
Acceptable(found) == found # {} /\ found \subseteq Global

\* Whatever the name servers say now; a failed lookup finds nothing.
Resolve(c) ==
  /\ step[c] = Resolving
  /\ \E found \in SUBSET Addresses :
       IF Acceptable(found)
         THEN /\ answer' = [answer EXCEPT ![c] = found]
              /\ Goto(c, Dialling)
              /\ UNCHANGED <<tried, upstream, relays, reply>>
         ELSE Answer(c, 403)
  /\ UNCHANGED <<slot, free, queue>>

\* The address open_connection is given: the next of the resolved ones.
Target(c, a) ==
  /\ a \in answer[c] \ tried[c]
  /\ \A b \in answer[c] \ tried[c] : a <= b

DialOk(c) ==
  /\ step[c] = Dialling
  /\ \E a \in Addresses :
       /\ Target(c, a)
       /\ tried' = [tried EXCEPT ![c] = @ \union {a}]
       /\ upstream' = [upstream EXCEPT ![c] = {a}]
  /\ reply' = [reply EXCEPT ![c] = 200]
  /\ Goto(c, Greeting)
  /\ UNCHANGED <<slot, free, queue, answer, relays>>

\* Refused, unreachable or too slow: the next address, or 502 after the last.
DialFails(c) ==
  /\ step[c] = Dialling
  /\ \E a \in Addresses :
       /\ Target(c, a)
       /\ tried' = [tried EXCEPT ![c] = @ \union {a}]
       /\ IF answer[c] \ tried[c] = {a}
            THEN reply' = [reply EXCEPT ![c] = 502] /\ Goto(c, Closing)
            ELSE UNCHANGED <<reply, step>>
  /\ UNCHANGED <<slot, free, queue, answer, upstream, relays>>

\* drain() of the 200 returns, or the client is gone.
Greet(c) ==
  /\ step[c] = Greeting
  /\ \/ /\ relays' = [relays EXCEPT ![c] = Directions]
        /\ Goto(c, Relaying)
     \/ Goto(c, Closing) /\ UNCHANGED relays
  /\ UNCHANGED <<slot, free, queue, answer, tried, upstream, reply>>

\* A relay ends: end of stream, silence for the idle timeout, or an error.
\* Data relayed before that leaves the state as it is.
EndRelay(c, d) ==
  /\ step[c] = Relaying
  /\ d \in relays[c]
  /\ relays' = [relays EXCEPT ![c] = @ \ {d}]
  /\ UNCHANGED <<step, slot, free, queue, answer, tried, upstream, reply>>

\* Faulty: the other one is left alone.
TearDownForgets(c) ==
  /\ step[c] = Relaying
  /\ relays[c] # Directions
  /\ Goto(c, Closing)
  /\ UNCHANGED <<slot, free, queue, answer, tried, upstream, relays, reply>>

\* asyncio.wait returns with the first; the other one is cancelled.
TearDown(c) ==
  /\ step[c] = Relaying
  /\ relays[c] # Directions
  /\ relays' = [relays EXCEPT ![c] = {}]
  /\ Goto(c, Closing)
  /\ UNCHANGED <<slot, free, queue, answer, tried, upstream, reply>>

-----------------------------------------------------------------------------
(* The finally block. *)

CloseUpstream(c) ==
  /\ step[c] = Closing
  /\ upstream' = [upstream EXCEPT ![c] = {}]
  /\ \/ Goto(c, Hanging)
     \/ MayBreakClose /\ upstream[c] # {} /\ Goto(c, Broken)
  /\ UNCHANGED <<slot, free, queue, answer, tried, relays, reply>>

\* Faulty: releases whether or not the slot was acquired.
CloseClientAlways(c) ==
  /\ step[c] = Hanging
  /\ GiveBack(c, Absent)
  /\ slot' = [slot EXCEPT ![c] = FALSE]
  /\ UNCHANGED locals

CloseClient(c) ==
  /\ step[c] = Hanging
  /\ \/ IF slot[c]
          THEN GiveBack(c, Absent) /\ slot' = [slot EXCEPT ![c] = FALSE]
          ELSE Goto(c, Absent) /\ UNCHANGED <<slot, free, queue>>
     \/ MayBreakClose /\ Goto(c, Broken) /\ UNCHANGED <<slot, free, queue>>
  /\ UNCHANGED locals

Serve(c) ==
  \/ Enter(c) \/ GiveUp(c)
  \/ ReadHeader(c) \/ Resolve(c) \/ DialOk(c) \/ DialFails(c) \/ Greet(c)
  \/ TearDown(c)

Close(c) == CloseUpstream(c) \/ CloseClient(c)

Next == \E c \in Clients :
  Arrive(c) \/ Serve(c) \/ Close(c) \/ \E d \in Directions : EndRelay(c, d)

Spec == Init /\ [][Next]_vars

\* Every await before the finally block has a timeout or is bounded by the
\* system's own (a lookup, the sending of a status line); clients come when
\* they like, and a relay that has data to move may run for ever.  close() and
\* wait_closed() have no timeout and wait until what was written is sent: after
\* a status line that is at once, after a tunnel a peer that reads no more may
\* put it off for ever, so no fairness is assumed there.
FairSpec ==
  /\ Spec
  /\ \A c \in Clients : WF_vars(Serve(c)) /\ WF_vars(reply[c] # 200 /\ Close(c))

-----------------------------------------------------------------------------
(* Properties. *)

(* Every client is where its coroutine can be, with locals to match. *)
TypeOK ==
  /\ step \in [Clients -> Steps]
  /\ slot \in [Clients -> BOOLEAN]
  /\ free \in Nat
  /\ queue \in Seq(Clients)
  /\ answer \in [Clients -> SUBSET Addresses]
  /\ tried \in [Clients -> SUBSET Addresses]
  /\ upstream \in [Clients -> SUBSET Addresses]
  /\ relays \in [Clients -> SUBSET Directions]
  /\ reply \in [Clients -> Replies]

Holders == {c \in Clients : slot[c] \/ step[c] = Granted}

(* Slots are neither lost nor made up, whichever way the coroutines end and  *)
(* however acquire() races its timeout: what is free and what is held is     *)
(* max_connections (handle, egress_proxy.py:109-113 and 177-178), and only a *)
(* connection that is being served, or one whose finally block failed, holds *)
(* one.                                                                      *)
SlotsAccounted ==
  /\ free + Cardinality(Holders) = MaxConnections
  /\ \A c \in Clients : slot[c] => step[c] \notin {Absent, Queued, Granted}

(* The proxy dials only addresses it resolved and checked for this request,  *)
(* and a host with one non-global address is dialled at none of its          *)
(* addresses (resolve_public_addresses, egress_proxy.py:51-74 and 128-137).  *)
OnlyGlobalDialled == \A c \in Clients :
  /\ upstream[c] \subseteq tried[c]
  /\ tried[c] \subseteq answer[c]
  /\ answer[c] \subseteq Global

(* The status tells what happened: 502 after every address was tried, 200    *)
(* after one answered, a refusal or a timeout before any was dialled.        *)
AnswersHonest == \A c \in Clients :
  /\ reply[c] = 502 => tried[c] = answer[c] /\ tried[c] # {}
  /\ step[c] \in {Greeting, Relaying} => reply[c] = 200 /\ upstream[c] # {}
  /\ reply[c] \in {403, 405, 408} => tried[c] = {}

(* Nothing of a request outlives it: no relay runs once its tunnel is being  *)
(* torn down and no upstream connection is open once the client's is closed  *)
(* (egress_proxy.py:158-173).                                                *)
NothingLeftOpen == \A c \in Clients :
  /\ relays[c] # {} => step[c] = Relaying /\ upstream[c] # {}
  /\ upstream[c] # {} => step[c] \in {Greeting, Relaying, Closing}

Pool == INSTANCE SlotPool WITH
  Callers <- Clients,
  Slots <- MaxConnections,
  at <- [c \in Clients |->
          IF c \in Holders THEN "served"
          ELSE IF step[c] = Queued THEN "waiting" ELSE "outside"]

(* The proxy is a pool of max_connections slots: a slot given back goes to a *)
(* waiter or becomes free, and nobody is served beyond the limit.            *)
PoolSpec == Pool!Spec

(* Nobody's call is stuck behind a peer that reads no more, although its     *)
(* closing, and the slot it holds, wait for that peer without a timeout      *)
(* (egress_proxy.py:108-178).  Whoever connects is relaying or gone again in *)
(* the end, whatever it sends, resolves to or fails to reach and whoever     *)
(* keeps the slots, or its own tunnel is being closed; a tunnel one direction *)
(* of which has ended is torn down; and it is gone, slot and all unless its   *)
(* finally block fails, if its own two peers read what they were sent.       *)
EveryCallEnds == \A c \in Clients :
  LET ended == step[c] = Relaying /\ relays[c] # Directions
      closing == reply[c] = 200 /\ step[c] \in {Closing, Hanging}
  IN /\ step[c] # Absent ~> step[c] \in {Absent, Relaying, Broken} \/ closing
     /\ ended ~> step[c] # Relaying
     /\ WF_vars(Close(c)) => (ended \/ closing ~> step[c] \in {Absent, Broken})
=============================================================================
