---------------------------- MODULE LinkedAccount ----------------------------
(***************************************************************************)
(* What account linking promises, seen from outside the service: one login *)
(* flow yields at most one usable connection, a connection is only made    *)
(* usable with an app password that is live at that moment, and a          *)
(* connection that stopped being usable never becomes usable again.        *)
(*                                                                         *)
(* docs/AUTH_ARCHITECTURE.md gives the life cycle as pending, connected,   *)
(* disconnected; ConnectionLifecycle refines this module.                  *)
(***************************************************************************)
CONSTANT Flows          \* login flows, and the account each one may link

VARIABLES
    phase,              \* phase[f]: how far the account of flow f has come
    password            \* password[f]: the app password Nextcloud made for f

vars == <<phase, password>>

TypeOK ==
    /\ phase \in [Flows -> {"new", "offered", "linked", "closed"}]
    /\ password \in [Flows -> {"none", "live", "revoked"}]

Init ==
    /\ phase = [f \in Flows |-> "new"]
    /\ password = [f \in Flows |-> "none"]

(* A login flow is started for the tenant. *)
Offer(f) ==
    /\ phase[f] = "new"
    /\ phase' = [phase EXCEPT ![f] = "offered"]
    /\ UNCHANGED password

(* Nextcloud hands out the app password of an approved flow, once. *)
Issue(f) ==
    /\ phase[f] = "offered" /\ password[f] = "none"
    /\ password' = [password EXCEPT ![f] = "live"]
    /\ UNCHANGED phase

(* The connection becomes usable. *)
Link(f) ==
    /\ phase[f] = "offered" /\ password[f] = "live"
    /\ phase' = [phase EXCEPT ![f] = "linked"]
    /\ UNCHANGED password

(* The password is revoked, after a failed link or for a disconnect. *)
Revoke(f) ==
    /\ password[f] = "live"
    /\ password' = [password EXCEPT ![f] = "revoked"]
    /\ UNCHANGED phase

(* The connection stops being usable, for good. *)
Close(f) ==
    /\ phase[f] = "linked"
    /\ phase' = [phase EXCEPT ![f] = "closed"]
    /\ UNCHANGED password

Next == \E f \in Flows : Offer(f) \/ Issue(f) \/ Link(f) \/ Revoke(f) \/ Close(f)

Spec == Init /\ [][Next]_vars
=============================================================================
