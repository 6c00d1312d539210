---------------------------- MODULE AppInventory ----------------------------
(***************************************************************************)
(* The inventory tools of server.py over providers/ocs.py and app_access   *)
(* .py: what a report says of an account whose apps, and whose connection, *)
(* change while the tool makes its three requests.                         *)
(*                                                                         *)
(* A server lists its apps in an order of its own, so the first Limit of   *)
(* them are any Limit of them.                                             *)
(***************************************************************************)
EXTENDS Naturals, FiniteSets

CONSTANTS Calls,       \* calls of get_nextcloud_app_accesses
          Servers,     \* accounts the tenant's connection may lead to
          Apps,        \* what a server may list: apps, or search providers
          Odd,         \* an item that is no app: it has no usable identifier
          Files,       \* the app "files", which every report has
          Limit,       \* _MAX_OCS_ITEMS
          MaxChanges   \* changes by the owner, a bound on the model

InventoryAssumption ==
  /\ Odd \notin Apps /\ Files \in Apps /\ IsFiniteSet(Apps)
  /\ Limit \in Nat \ {0} /\ MaxChanges \in Nat

Inventories == {"navigation", "providers"}
Nobody == "nobody"

VARIABLES linked,   \* the account the connection leads to, or Nobody
          offered,  \* offered[s][i]: the items of an inventory of a server
          call,     \* call[c]: the locals of a call
          changes

vars == <<linked, offered, call, changes>>

Items == Apps \union {Odd}

\* client: the account the requests go to; found: what an inventory gave;
\* warned: the inventories that are reported as unavailable.
\* Of the history: during, the accounts that were linked in the call; ever
\* and always, what the client's account offered at some time and at all
\* times since it was chosen; crowded, the inventories over the limit.
Idle ==
  [at |-> "idle", client |-> Nobody, found |-> [i \in Inventories |-> {}], warned |-> {},
   during |-> {}, ever |-> [i \in Inventories |-> {}], always |-> [i \in Inventories |-> {}],
   crowded |-> {}]

Init ==
  /\ linked \in Servers
  /\ offered = [s \in Servers |-> [i \in Inventories |-> {Files}]]
  /\ call = [c \in Calls |-> Idle]
  /\ changes = 0

Become(c, record) == call' = [call EXCEPT ![c] = record]
Stay == UNCHANGED <<linked, offered, changes>>

-----------------------------------------------------------------------------
(* get_nextcloud_app_accesses. *)

\* The settings are resolved for the report, which is refused without a
\* connection.
Begin(c) ==
  /\ call[c].at \in {"idle", "reported", "error"}
  /\ Become(c, [Idle EXCEPT !.at = IF linked = Nobody THEN "error" ELSE "client",
                            !.during = {linked}])
  /\ Stay

AccountFor(c) == linked

\* And once more for the client.
NewClient(c) ==
  /\ call[c].at = "client"
  /\ LET s == AccountFor(c)
     IN  Become(c, IF s = Nobody THEN [call[c] EXCEPT !.at = "error"]
                   ELSE [call[c] EXCEPT !.at = "capabilities", !.client = s,
                                        !.ever = offered[s], !.always = offered[s]])
  /\ Stay

\* A failure of the first request ends the call.
GetCapabilities(c) ==
  /\ call[c].at = "capabilities"
  /\ \E at \in {"navigation", "error"} : Become(c, [call[c] EXCEPT !.at = at])
  /\ Stay

After == [navigation |-> "providers", providers |-> "report"]

\* The items that are looked at of a list, in the order of the server.
Take(items) ==
  {t \in SUBSET items :
     Cardinality(t) = IF Cardinality(items) > Limit THEN Limit ELSE Cardinality(items)}

\* get_navigation_apps and get_search_providers: of the items that are looked
\* at, those that are no app are left out.
Get(c, i) ==
  /\ call[c].at = i
  /\ LET items == offered[call[c].client][i]
     IN  \E t \in Take(items) :
           Become(c, [call[c] EXCEPT !.at = After[i], !.found[i] = t \ {Odd},
                        !.crowded = IF Cardinality(items) > Limit THEN @ \union {i} ELSE @])
  /\ Stay

\* Faulty: an inventory that is unavailable is one that is empty.
WarnSilently(c, i) == call[c].warned

Warn(c, i) == call[c].warned \union {i}

\* An answer that is not as expected is an OCSError: the report says so.
Unavailable(c, i) ==
  /\ call[c].at = i
  /\ Become(c, [call[c] EXCEPT !.at = After[i], !.warned = Warn(c, i)])
  /\ Stay

\* No answer is another error, which ends the call.
Unanswered(c, i) ==
  /\ call[c].at = i
  /\ Become(c, [call[c] EXCEPT !.at = "error"])
  /\ Stay

\* build_app_access_report adds "files" to the apps.
Report(c) ==
  /\ call[c].at = "report"
  /\ Become(c, [call[c] EXCEPT !.at = "reported", !.found["navigation"] = @ \union {Files}])
  /\ Stay

Work(c) ==
  \/ NewClient(c) \/ GetCapabilities(c)
  \/ \E i \in Inventories : Get(c, i) \/ Unavailable(c, i) \/ Unanswered(c, i)
  \/ Report(c)

-----------------------------------------------------------------------------
(* The owner and the server. *)

Relink ==
  /\ changes < MaxChanges /\ changes' = changes + 1
  /\ \E s \in (Servers \union {Nobody}) \ {linked} :
       /\ linked' = s
       /\ call' = [c \in Calls |-> [call[c] EXCEPT !.during = @ \union {s}]]
  /\ UNCHANGED offered

Change ==
  /\ changes < MaxChanges /\ changes' = changes + 1
  /\ \E s \in Servers, i \in Inventories, items \in SUBSET Items :
       /\ offered' = [offered EXCEPT ![s][i] = items]
       /\ call' = [c \in Calls |->
            IF call[c].client # s THEN call[c]
            ELSE [call[c] EXCEPT !.ever[i] = @ \union items, !.always[i] = @ \intersect items]]
  /\ UNCHANGED linked

Next == Relink \/ Change \/ \E c \in Calls : Begin(c) \/ Work(c)

Spec == Init /\ [][Next]_vars

-----------------------------------------------------------------------------
(* Properties. *)

Reported(c) == call[c].at = "reported"

\* A failure is never shown as an absence: what the account offered all the
\* time is in the report, or the report says that the inventory is
\* unavailable, or there were more items than are looked at (server.py:194-216,
\* ocs.py:78-110).  The last case is not told.
AbsenceIsHonest ==
  \A c \in Calls : Reported(c) =>
    \A i \in Inventories :
      \/ i \in call[c].warned \/ i \in call[c].crowded
      \/ call[c].always[i] \ {Odd} \subseteq call[c].found[i]

\* Everything in a report was there at some time in the call, but for "files",
\* and of a list that is too long the report still has all it may
\* (ocs.py:84-91, app_access.py:63-64).
PresenceIsHonest ==
  \A c \in Calls : Reported(c) =>
    \A i \in Inventories :
      /\ call[c].found[i] \subseteq call[c].ever[i] \union {Files}
      /\ i \in call[c].crowded => Cardinality(call[c].found[i]) >= Limit - 1

\* A report is of an account that the tenant was connected to at some time in
\* the call (server.py:116-127, 195-197).
ReportsOwnAccount ==
  \A c \in Calls : Reported(c) => call[c].client \in call[c].during

=============================================================================
