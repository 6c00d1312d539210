------------------------------ MODULE SlotPool ------------------------------
(***************************************************************************)
(* What the limit on a server's connections promises from outside: callers *)
(* come, wait, and at most Slots of them are served at any time.  Nothing  *)
(* is said about order, time or what serving means.                        *)
(***************************************************************************)
EXTENDS Naturals, FiniteSets

CONSTANTS Callers,  \* who may come; they may come again
          Slots     \* how many are served at once

VARIABLE at  \* where each caller is

Outside == "outside"
Waiting == "waiting"
Served == "served"

Init == at = [c \in Callers |-> Outside]

Move(c, from, to) == at[c] \in from /\ at' = [at EXCEPT ![c] = to]

Ask(c) == Move(c, {Outside}, Waiting)

\* A caller is let in, at once or after waiting, while there is room.
Serve(c) ==
  /\ Cardinality({d \in Callers : at[d] = Served}) < Slots
  /\ Move(c, {Outside, Waiting}, Served)

TurnAway(c) == Move(c, {Waiting}, Outside)

Leave(c) == Move(c, {Served}, Outside)

\* A slot given back is handed to a waiting caller without a moment between.
HandOver(c, d) ==
  /\ at[c] = Served /\ at[d] = Waiting
  /\ at' = [at EXCEPT ![c] = Outside, ![d] = Served]

Next ==
  \/ \E c \in Callers : Ask(c) \/ Serve(c) \/ TurnAway(c) \/ Leave(c)
  \/ \E c, d \in Callers : HandOver(c, d)

Spec == Init /\ [][Next]_at
=============================================================================
