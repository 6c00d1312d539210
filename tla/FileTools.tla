------------------------------ MODULE FileTools ------------------------------
(***************************************************************************)
(* The file tools of server.py over providers/webdav.py and providers/ocs  *)
(* .py: calls that run at the same time, in worker threads, on files that  *)
(* their owner changes as well, in a connection that may be replaced by    *)
(* another one meanwhile.  One step is one remote request or one chunk of  *)
(* a download; a request may fail, or be done and its answer lost.         *)
(*                                                                         *)
(* What Nextcloud does with a request is modelled from RFC 4918 and marked *)
(* external.  Paths are sequences of segments, from the top of an account. *)
(***************************************************************************)
EXTENDS Naturals, Sequences, FiniteSets

CONSTANTS
  Calls,         \* tool calls; each one is made once
  Accounts,
  RootOf,        \* RootOf[a]: the root of the connection to account a
  Shared,        \* Shared[a]: the paths the account shares
  Paths,         \* paths given by the caller, stripped and split at "/" and "\"
  Destinations,  \* those a file is moved to
  Sizes,         \* sizes of files
  Limit,         \* max_transfer_bytes
  MostChanges    \* changes by others, each a bound on the model

Under(x, y) == Len(x) <= Len(y) /\ SubSeq(y, 1, Len(x)) = x
Parent(x) == SubSeq(x, 1, Len(x) - 1)

\* normalize_root_path refuses "..", and of the paths to the top of the account
\* all but "//".  The shares are of files that are in folders on the way to
\* the root.  The names of the account and the root are taken for ones that
\* quote() leaves as they are: of others PathBoundary speaks.
ToolsAssumption ==
  /\ RootOf \in [Accounts -> Seq(STRING \ {".."})]
  /\ \A a \in Accounts : \A x \in Shared[a] : x \in Seq(STRING) /\ Under(Parent(x), RootOf[a])
  /\ Paths \subseteq Seq(STRING) /\ Destinations \subseteq Seq(STRING)
  /\ Limit \in Nat \ {0} /\ Sizes \subseteq Nat /\ MostChanges \in Nat

VARIABLES linked,  \* the account the tenant's one connection leads to
          tree,    \* tree[a]: the nodes of the account, by path
          call,    \* call[p]: the locals of a tool call
          changes  \* changes made by others so far

vars == <<linked, tree, call, changes>>

Owner == "owner"
Folder == [dir |-> TRUE, size |-> 0, by |-> Owner]
File(size, by) == [dir |-> FALSE, size |-> size, by |-> by]

Fresh == [op |-> "none", at |-> "idle", account |-> CHOOSE a \in Accounts : TRUE,
          root |-> <<>>, path |-> <<>>, to |-> <<>>, overwrite |-> FALSE, size |-> 0,
          got |-> 0, entries |-> {}, answer |-> "none", done |-> FALSE]

Init ==
  /\ linked \in Accounts
  /\ tree = [a \in Accounts |->
              [x \in {SubSeq(RootOf[a], 1, i) : i \in 0..Len(RootOf[a])} \union Shared[a] |->
                 IF Under(x, RootOf[a]) THEN Folder ELSE File(1, Owner)]]
  /\ call = [p \in Calls |-> Fresh]
  /\ changes = 0

-----------------------------------------------------------------------------
(* Paths. *)

\* _normalize_relative: {} for a path that is refused, {<<>>} for the root.
Normal(raw) ==
  LET kept[i \in 0..Len(raw)] ==
        IF i = 0 THEN <<>>
        ELSE IF raw[i] \in {".", ""} THEN kept[i - 1] ELSE Append(kept[i - 1], raw[i])
  IN IF \E i \in DOMAIN raw : raw[i] = ".." THEN {} ELSE {kept[Len(raw)]}

\* The path a URL leads to; Nextcloud follows "..".
Url(root, path) ==
  LET full == root \o path
      at[i \in 0..Len(full)] ==
        IF i = 0 THEN <<>>
        ELSE IF full[i] = ".." THEN Parent(at[i - 1]) ELSE Append(at[i - 1], full[i])
  IN at[Len(full)]

Target(p) == Url(call[p].root, call[p].path)
Nodes(p) == tree[call[p].account]
Exists(p, x) == x \in DOMAIN Nodes(p)

-----------------------------------------------------------------------------
(* A call begins, and ends. *)

Finish(p, answer) == call' = [call EXCEPT ![p].at = "done", ![p].answer = answer]
Goto(p, step) == call' = [call EXCEPT ![p].at = step]

\* A request that is refused by Nextcloud, or does not come through.
Fails(p) == Finish(p, "error") /\ UNCHANGED tree

Begin(p, op, first, fields) ==
  /\ call[p].at = "idle"
  /\ call' = [call EXCEPT ![p] =
       [fields EXCEPT !.op = op, !.account = linked, !.root = RootOf[linked],
                      !.at = first]]
  /\ UNCHANGED <<linked, tree, changes>>

Refuse(p, op) ==
  /\ call[p].at = "idle"
  /\ call' = [call EXCEPT ![p] = [Fresh EXCEPT !.op = op, !.at = "done",
                                               !.answer = "refused"]]
  /\ UNCHANGED <<linked, tree, changes>>

\* delete() refuses the root before it sends anything.
RefusesPath(op, path) == op = "delete" /\ path = <<>>

FirstStep == [read |-> "stat", mkdir |-> "mkcol", delete |-> "delete"]

\* read_text_file, download_file_base64, create_folder, delete_file
BeginOnPath(p) ==
  \E op \in DOMAIN FirstStep, raw \in Paths :
    LET normal == Normal(raw)
    IN IF normal = {} \/ \E path \in normal : RefusesPath(op, path) THEN Refuse(p, op)
       ELSE \E path \in normal : Begin(p, op, FirstStep[op], [Fresh EXCEPT !.path = path])

\* write_text_file, upload_file_base64
BeginWrite(p) ==
  \E raw \in Paths, size \in Sizes, overwrite \in BOOLEAN :
    IF Normal(raw) = {} \/ size > Limit THEN Refuse(p, "write")
    ELSE \E path \in Normal(raw) :
           Begin(p, "write", "put",
                 [Fresh EXCEPT !.path = path, !.size = size, !.overwrite = overwrite])

\* move_file
BeginMove(p) ==
  \E raw \in Paths, dest \in Destinations, overwrite \in BOOLEAN :
    IF Normal(raw) = {} \/ Normal(dest) = {} THEN Refuse(p, "move")
    ELSE \E path \in Normal(raw), to \in Normal(dest) :
           Begin(p, "move", "move",
                 [Fresh EXCEPT !.path = path, !.to = to, !.overwrite = overwrite])

-----------------------------------------------------------------------------
(* Reading. *)

\* Faulty: the size Nextcloud reported before is relied on.
FitsByMetadata(p, n) == TRUE

\* The chunk is counted before it is kept.
Fits(p, n) == call[p].got + n <= Limit

\* stat and _validate_transfer
Stat(p) ==
  /\ call[p].at = "stat"
  /\ \/ /\ Exists(p, Target(p))
        /\ LET node == Nodes(p)[Target(p)]
           IN IF node.dir \/ node.size > Limit THEN Finish(p, "refused") ELSE Goto(p, "get")
     \/ Finish(p, "error")
  /\ UNCHANGED <<linked, tree, changes>>

\* GET answers with the file as it is now, its length declared or not.
Get(p) ==
  /\ call[p].at = "get"
  /\ \/ /\ Exists(p, Target(p))
        /\ ~Nodes(p)[Target(p)].dir
        /\ LET size == Nodes(p)[Target(p)].size
           IN \E declared \in BOOLEAN :
                IF declared /\ size > Limit THEN Finish(p, "error")
                ELSE call' = [call EXCEPT ![p].at = "stream", ![p].size = size]
     \/ Finish(p, "error")
  /\ UNCHANGED <<linked, tree, changes>>

\* One chunk of the body, the end of it, or a broken connection.
Stream(p) ==
  /\ call[p].at = "stream"
  /\ \/ \E n \in 1..call[p].size - call[p].got :
          IF Fits(p, n) THEN call' = [call EXCEPT ![p].got = @ + n] ELSE Finish(p, "error")
     \/ call[p].got = call[p].size /\ Finish(p, "ok")
     \/ Finish(p, "error")
  /\ UNCHANGED <<linked, tree, changes>>

-----------------------------------------------------------------------------
(* Writing. *)

\* The nodes of p's account become nodes; its answer arrives, and the call
\* goes on at step, or is lost.
Performs(p, nodes, step) ==
  /\ tree' = [tree EXCEPT ![call[p].account] = nodes]
  /\ \E lost \in BOOLEAN :
       call' = [call EXCEPT ![p].done = TRUE,
                            ![p].at = IF lost \/ step = "done" THEN "done" ELSE step,
                            ![p].answer = IF lost THEN "error"
                                          ELSE IF step = "done" THEN "ok" ELSE "none"]

Without(nodes, x) == [y \in {z \in DOMAIN nodes : ~Under(x, z)} |-> nodes[y]]
With(nodes, x, node) == [y \in DOMAIN nodes \union {x} |-> IF y = x THEN node ELSE nodes[y]]

HasParent(p, x) == x # <<>> /\ Exists(p, Parent(x)) /\ Nodes(p)[Parent(x)].dir

\* Faulty: the condition is forgotten.
MayPutAlways(p) ==
  /\ HasParent(p, Target(p))
  /\ Exists(p, Target(p)) => ~Nodes(p)[Target(p)].dir

\* PUT with If-None-Match: * unless overwrite.
MayPut(p) ==
  /\ HasParent(p, Target(p))
  /\ Exists(p, Target(p)) => ~Nodes(p)[Target(p)].dir /\ call[p].overwrite

Put(p) ==
  /\ call[p].at = "put"
  /\ \/ MayPut(p) /\ Performs(p, With(Nodes(p), Target(p), File(call[p].size, p)), "confirm")
     \/ Fails(p)
  /\ UNCHANGED <<linked, changes>>

Mkcol(p) ==
  /\ call[p].at = "mkcol"
  /\ \/ /\ HasParent(p, Target(p)) /\ ~Exists(p, Target(p))
        /\ Performs(p, With(Nodes(p), Target(p), Folder), "confirm")
     \/ Fails(p)
  /\ UNCHANGED <<linked, changes>>

Delete(p) ==
  /\ call[p].at = "delete"
  /\ \/ Exists(p, Target(p)) /\ Performs(p, Without(Nodes(p), Target(p)), "done")
     \/ Fails(p)
  /\ UNCHANGED <<linked, changes>>

Destination(p) == Url(call[p].root, call[p].to)

\* The Overwrite header.
MayMove(p) == call[p].overwrite \/ ~Exists(p, Destination(p))

\* What is at x or below it when y takes its place.
Rebased(z, x, y) == y \o SubSeq(z, Len(x) + 1, Len(z))

Moved(nodes, from, to) ==
  [y \in {z \in DOMAIN nodes : ~Under(from, z)}
         \union {Rebased(z, from, to) : z \in {z \in DOMAIN nodes : Under(from, z)}} |->
     IF Under(to, y) THEN nodes[Rebased(y, to, from)] ELSE nodes[y]]

\* An overwriting MOVE deletes what is at the destination first (RFC 4918,
\* 9.9.3), the source with it when that is inside; then there is nothing
\* left to move.
Move(p) ==
  LET from == Target(p)
      to == Destination(p)
      cleared == Without(Nodes(p), to)
  IN /\ call[p].at = "move"
     /\ \/ /\ Exists(p, from) /\ HasParent(p, to) /\ ~Under(from, to) /\ MayMove(p)
           /\ IF Under(to, from)
                THEN tree' = [tree EXCEPT ![call[p].account] = cleared] /\ Finish(p, "error")
                ELSE Performs(p, Moved(cleared, from, to), "confirm")
        \/ Fails(p)
     /\ UNCHANGED <<linked, changes>>

\* The stat() after a PUT, a MKCOL or a MOVE, on what is there by then.
Confirm(p) ==
  /\ call[p].at = "confirm"
  /\ \/ Exists(p, IF call[p].op = "move" THEN Destination(p) ELSE Target(p)) /\ Finish(p, "ok")
     \/ Finish(p, "error")
  /\ UNCHANGED <<linked, tree, changes>>

-----------------------------------------------------------------------------
(* list_nextcloud_shares: the settings are resolved once for the root and  *)
(* once more for the client.                                               *)

BeginShares(p) == \E raw \in Paths :
  LET normal == Normal(raw)
  IN IF normal = {} THEN Refuse(p, "shares")
     ELSE \E path \in normal : Begin(p, "shares", "settings", [Fresh EXCEPT !.path = path])

ShareSettings(p) ==
  /\ call[p].at = "settings"
  /\ call' = [call EXCEPT ![p].account = linked, ![p].at = "inventory"]
  /\ UNCHANGED <<linked, tree, changes>>

Inventory(p) ==
  /\ call[p].at = "inventory"
  /\ \/ \E subfiles \in BOOLEAN :
          LET asked == call[p].root \o call[p].path
          IN call' = [call EXCEPT ![p].at = "done", ![p].answer = "ok",
               ![p].entries = {x \in Shared[call[p].account] :
                                 /\ Under(call[p].root, x)
                                 /\ IF subfiles THEN Under(asked, x) ELSE x = asked}]
     \/ Finish(p, "error")
  /\ UNCHANGED <<linked, tree, changes>>

-----------------------------------------------------------------------------
(* The others: the owner in the web interface, another client, another     *)
(* call of the tenant that replaces the connection.                        *)

Change(nodes, a) ==
  /\ changes < MostChanges
  /\ changes' = changes + 1
  /\ tree' = [tree EXCEPT ![a] = nodes]
  /\ UNCHANGED <<linked, call>>

OwnerChanges == \E a \in Accounts :
  \E x \in {RootOf[a] \o path : path \in UNION {Normal(raw) : raw \in Paths}} :
  /\ x # RootOf[a]
  /\ \/ \E size \in Sizes :
          /\ Parent(x) \in DOMAIN tree[a] /\ tree[a][Parent(x)].dir
          /\ x \in DOMAIN tree[a] => ~tree[a][x].dir
          /\ Change(With(tree[a], x, File(size, Owner)), a)
     \/ x \in DOMAIN tree[a] /\ Change(Without(tree[a], x), a)

Relink ==
  /\ changes < MostChanges
  /\ changes' = changes + 1
  /\ linked' \in Accounts \ {linked}
  /\ UNCHANGED <<tree, call>>

Next ==
  \/ \E p \in Calls :
       \/ BeginOnPath(p) \/ BeginWrite(p) \/ BeginMove(p) \/ BeginShares(p)
       \/ Stat(p) \/ Get(p) \/ Stream(p)
       \/ Put(p) \/ Mkcol(p) \/ Delete(p) \/ Move(p) \/ Confirm(p)
       \/ ShareSettings(p) \/ Inventory(p)
  \/ OwnerChanges
  \/ Relink

Spec == Init /\ [][Next]_vars

-----------------------------------------------------------------------------
(* Properties; OnlyBelowRoot and NothingReplacedUnasked are about a step. *)

Steps == {"idle", "stat", "get", "stream", "put", "mkcol", "delete", "move", "confirm",
          "settings", "inventory", "done"}
Answers == {"none", "ok", "error", "refused"}

(* Calls are at their steps with an answer exactly when they are done, and    *)
(* every tree is one: the parent of a node is a folder.                       *)
TypeOK ==
  /\ linked \in Accounts
  /\ \A p \in Calls : /\ call[p].at \in Steps /\ call[p].answer \in Answers
                      /\ (call[p].at = "done") = (call[p].answer # "none")
  /\ \A a \in Accounts : \A x \in DOMAIN tree[a] :
       x # <<>> => Parent(x) \in DOMAIN tree[a] /\ tree[a][Parent(x)].dir

(* No download keeps more than the transfer limit, however the file grows     *)
(* between the PROPFIND that passed the limit and the GET, and whatever       *)
(* length the GET declares ("a hard byte cap to avoid TOCTOU/unbounded-memory *)
(* downloads", providers/webdav.py:159-179; server.py:142-150 and 404-410).   *)
TransferBounded == \A p \in Calls : call[p].got <= Limit

(* An answer tells what happened: a tool that answers with metadata or a      *)
(* message has done its request, one that was refused has not sent it.        *)
AnswersHonest == \A p \in Calls :
  /\ call[p].answer = "ok" /\ call[p].op \in {"write", "mkdir", "move", "delete"} => call[p].done
  /\ call[p].answer = "ok" /\ call[p].op = "read" => call[p].got = call[p].size
  /\ call[p].answer = "refused" => ~call[p].done

(* No call deletes the folder the bridge is confined to, by whatever path it  *)
(* names it (delete, providers/webdav.py:206-210).  The one call that clears  *)
(* it is a move onto the root with overwrite, which nothing refuses.          *)
RootStays == \A a \in Accounts :
  \/ RootOf[a] \in DOMAIN tree[a]
  \/ \E p \in Calls : call[p].op = "move" /\ call[p].account = a
                      /\ call[p].to = <<>> /\ call[p].overwrite

Acts(p) == call'[p] # call[p]
Same(a, x) ==
  /\ (x \in DOMAIN tree[a]) = (x \in DOMAIN tree'[a])
  /\ x \in DOMAIN tree[a] => tree'[a][x] = tree[a][x]

(* A call changes nothing outside the root of the connection it resolved,     *)
(* whatever path it is given and wherever the connection leads by now         *)
(* (_normalize_relative and _url, providers/webdav.py:69-83).                 *)
OnlyBelowRoot ==
  \A p \in Calls : Acts(p) =>
    \A a \in Accounts : \A x \in DOMAIN tree[a] \union DOMAIN tree'[a] :
      Same(a, x) \/ (a = call[p].account /\ Under(call[p].root, x))

(* "overwrite is disabled unless explicitly requested" (SECURITY.md:65): a    *)
(* call without overwrite replaces no node that is there at that moment,      *)
(* however it came there; it can only take away what it moves or deletes.     *)
NothingReplacedUnasked ==
  \A p \in Calls : Acts(p) /\ ~call[p].overwrite =>
    \A x \in DOMAIN Nodes(p) :
      \/ Same(call[p].account, x)
      \/ /\ x \notin DOMAIN tree'[call[p].account]
         /\ call[p].op \in {"move", "delete"} /\ Under(Target(p), x)
=============================================================================
