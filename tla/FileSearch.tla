----------------------------- MODULE FileSearch -----------------------------
(***************************************************************************)
(* search_files of server.py: a breadth-first walk over PROPFIND listings, *)
(* cut off by a depth, a number of entries looked at and a number of       *)
(* results, while the owner moves files and folders about.  One step of    *)
(* the search is the listing of one folder.                                *)
(*                                                                         *)
(* An entry is a number; its path is the sequence of entries that lead to  *)
(* it from the folder the search starts in, which is <<>>.                 *)
(***************************************************************************)
EXTENDS Naturals, Sequences, FiniteSets

CONSTANTS
  Entries,     \* the files and folders below the start, numbered
  MaxResults,  \* max_results
  MaxDepth,    \* max_depth
  MaxScanned,  \* 2_000
  MostMoves    \* moves by the owner: a bound

SearchAssumption ==
  /\ IsFiniteSet(Entries) /\ Entries \subseteq Nat \ {0}
  /\ MaxResults \in Nat \ {0} /\ MaxDepth \in Nat /\ MaxScanned \in Nat
  /\ MostMoves \in Nat

VARIABLES place,    \* place[e]: the path of e
          folders,  \* the entries that are folders
          matching, \* the entries whose name contains the query
          plain,    \* does quote() leave the base path of the URLs as it is?
          queue,    \* the folders still to be listed, with their depths
          found,    \* what the walk has: results, scanned, truncated
          answer,   \* "none", "ok" or "error"
          moves,    \* moves so far
          moved     \* entries that are no longer where they were (ghost)

tree == <<place, folders, matching, plain>>
vars == <<place, folders, matching, plain, queue, found, answer, moves, moved>>

Start == 0

\* Where the entries are when up tells the folder that each is in.
PlacesIn(up) ==
  LET at[e \in Entries] == IF up[e] = Start THEN <<e>> ELSE Append(at[up[e]], e) IN at

Parent(path) == SubSeq(path, 1, Len(path) - 1)
Last(path) == path[Len(path)]

\* Is y at x, or below it?
Under(x, y) == Len(x) <= Len(y) /\ SubSeq(y, 1, Len(x)) = x

Init ==
  /\ folders \in SUBSET Entries
  /\ matching \in SUBSET Entries
  /\ plain \in BOOLEAN
  /\ \E up \in [Entries -> folders \union {Start}] :
       (\A e \in Entries : up[e] < e) /\ place = PlacesIn(up)
  /\ queue = <<[path |-> <<>>, depth |-> 0]>>
  /\ found = [results |-> <<>>, scanned |-> 0, truncated |-> FALSE]
  /\ answer = "none"
  /\ moves = 0
  /\ moved = {}

-----------------------------------------------------------------------------
(* One listing. *)

\* Is there a folder at this path now?
IsFolder(path) == path = <<>> \/ \E e \in folders : place[e] = path

Children(path) == {e \in Entries : Parent(place[e]) = path}

InOrder(s) == CHOOSE q \in [1..Cardinality(s) -> s] :
  \A i, k \in 1..Cardinality(s) : i < k => q[i] < q[k]

\* list_files: the paths in a folder; the multistatus also has the folder.
\* _parse_multistatus keeps what is below the base path, but compares decoded
\* paths with one that is still quoted: it keeps nothing of an account or a
\* root whose name quote() changes.
Listing(path) ==
  IF plain
    THEN [i \in 1..Cardinality(Children(path)) |-> place[InOrder(Children(path))[i]]]
    ELSE <<>>

Enough(results) == Len(results) >= MaxResults

\* Faulty: a folder that matches is not searched.
DescendsIntoOthers(item, depth) == Last(item) \in folders \ matching /\ depth < MaxDepth

Descends(item, depth) == Last(item) \in folders /\ depth < MaxDepth

Enqueue(q, item, depth) == Append(q, [path |-> item, depth |-> depth + 1])

\* One turn of the loop over the entries of a listing.
Look(got, item, depth) ==
  LET hit == Last(item) \in matching
      results == IF hit THEN Append(got.results, item) ELSE got.results
      scanned == got.scanned + 1
  IN IF got.truncated THEN got
     ELSE IF scanned > MaxScanned
       THEN [got EXCEPT !.scanned = scanned, !.truncated = TRUE, !.queue = <<>>]
     ELSE IF hit /\ Enough(results)
       THEN [results |-> results, scanned |-> scanned, truncated |-> TRUE, queue |-> <<>>]
     ELSE [results |-> results, scanned |-> scanned, truncated |-> FALSE,
           queue |-> IF Descends(item, depth) THEN Enqueue(got.queue, item, depth)
                     ELSE got.queue]

LookAt(items, depth) ==
  LET after[i \in 0..Len(items)] ==
        IF i = 0 THEN [results |-> found.results, scanned |-> found.scanned,
                       truncated |-> FALSE, queue |-> Tail(queue)]
        ELSE Look(after[i - 1], items[i], depth)
  IN after[Len(items)]

ListNext ==
  /\ answer = "none" /\ queue # <<>>
  /\ IsFolder(Head(queue).path)
  /\ LET got == LookAt(Listing(Head(queue).path), Head(queue).depth)
     IN /\ found' = [results |-> got.results, scanned |-> got.scanned,
                     truncated |-> got.truncated]
        /\ queue' = got.queue
  /\ UNCHANGED <<tree, answer, moves, moved>>

\* The folder is gone, or the request fails: the whole search does.
ListFails ==
  /\ answer = "none" /\ queue # <<>>
  /\ answer' = "error"
  /\ UNCHANGED <<tree, queue, found, moves, moved>>

Answer ==
  /\ answer = "none" /\ queue = <<>>
  /\ answer' = "ok"
  /\ UNCHANGED <<tree, queue, found, moves, moved>>

\* The owner moves an entry, and what is below it, to another folder.
OwnerMoves == \E e \in Entries, to \in {<<>>} \union {place[f] : f \in folders} :
  /\ moves < MostMoves
  /\ to # Parent(place[e]) /\ ~Under(place[e], to)
  /\ place' = [d \in Entries |->
                 IF Under(place[e], place[d])
                   THEN to \o SubSeq(place[d], Len(place[e]), Len(place[d]))
                   ELSE place[d]]
  /\ moves' = moves + 1
  /\ moved' = moved \union {d \in Entries : Under(place[e], place[d])}
  /\ UNCHANGED <<folders, matching, plain, queue, found, answer>>

Next == ListNext \/ ListFails \/ Answer \/ OwnerMoves

Spec == Init /\ [][Next]_vars

-----------------------------------------------------------------------------
(* Properties. *)

Results == {found.results[i] : i \in DOMAIN found.results}
Scanned == IF found.scanned < MaxScanned THEN found.scanned ELSE MaxScanned

(* The walk is where it can be: folders to list are no deeper than MaxDepth   *)
(* and a truncated walk has none left.                                        *)
TypeOK ==
  /\ answer \in {"none", "ok", "error"}
  /\ \A i \in DOMAIN queue : queue[i].depth <= MaxDepth /\ Len(queue[i].path) = queue[i].depth
  /\ found.truncated => queue = <<>>

(* The fixed caps hold (SECURITY.md:115): no more results than asked for, no  *)
(* entry deeper than the depth asked for, one entry looked at beyond the scan *)
(* limit and none of it reported.                                             *)
CapsHold ==
  /\ Len(found.results) <= MaxResults
  /\ found.scanned <= MaxScanned + 1 /\ Len(found.results) <= Scanned
  /\ \A path \in Results : Len(path) <= MaxDepth + 1

(* An answer that is not truncated is complete: every matching entry within   *)
(* the depth that stayed where it was during the search is in it, whatever    *)
(* was moved around it (search_files, server.py:297-322).  Except where       *)
(* quote() changes the name of the account or the root: the answer is empty   *)
(* then and does not say so (providers/webdav.py:215-222).                    *)
CompleteUnlessTruncated ==
  answer = "ok" /\ ~found.truncated /\ plain =>
    \A e \in matching \ moved : Len(place[e]) <= MaxDepth + 1 => place[e] \in Results

(* No path is reported twice, and nearer entries come before deeper ones,     *)
(* also when folders move between listings.                                   *)
NearestFirst ==
  \A i, k \in DOMAIN found.results :
    i < k => /\ found.results[i] # found.results[k]
             /\ Len(found.results[i]) <= Len(found.results[k])
=============================================================================
