--------------------------- MODULE CapabilityKeys ---------------------------
(***************************************************************************)
(* The search of a capability document for the keys that hint at an app    *)
(* (capabilities.py:_all_keys): a loop with a stack of its own that gives  *)
(* up after so many containers, over any document a server may send.       *)
(*                                                                         *)
(* A document is a tree of containers, objects and lists, numbered so that *)
(* a container comes after the one it is in.                               *)
(***************************************************************************)
EXTENDS Naturals, FiniteSets, SequencesExt

CONSTANTS Containers,  \* the most containers a document has
          Names,       \* keys of objects and strings of lists
          MaxNodes     \* _MAX_CAPABILITY_NODES

KeysAssumption == Containers \in Nat \ {0} /\ MaxNodes \in Nat \ {0}

VARIABLES document,  \* [in: the container each one is in, names: what it has itself]
          stack, visited, keys, done

vars == <<document, stack, visited, keys, done>>

Documents ==
  UNION {[in : {f \in [1..n -> 0..(n - 1)] : f[1] = 0 /\ \A i \in 2..n : f[i] \in 1..(i - 1)},
          names : [1..n -> SUBSET Names]] : n \in 1..Containers}

Init ==
  /\ document \in Documents
  /\ stack = <<1>> /\ visited = 0 /\ keys = {}
  /\ done = FALSE

Children(i) == {j \in DOMAIN document.in : document.in[j] = i}

\* The children of a container in the order they stand in.
InOrder(i) ==
  CHOOSE q \in [1..Cardinality(Children(i)) -> Children(i)] :
    \A k, l \in DOMAIN q : k < l => q[k] < q[l]

\* Faulty: the bound is met one container early.
PastBoundEarly == visited + 1 >= MaxNodes

PastBound == visited + 1 > MaxNodes

Pushed(i) == InOrder(i)

Visit ==
  /\ ~done /\ stack # <<>>
  /\ visited' = visited + 1
  /\ IF PastBound
     THEN /\ done' = TRUE
          /\ stack' = Front(stack) /\ UNCHANGED keys
     ELSE /\ keys' = keys \union document.names[Last(stack)]
          /\ stack' = Front(stack) \o Pushed(Last(stack))
          /\ UNCHANGED done
  /\ UNCHANGED document

Finish ==
  /\ ~done /\ stack = <<>>
  /\ done' = TRUE
  /\ UNCHANGED <<document, stack, visited, keys>>

Next == Visit \/ Finish

Spec == Init /\ [][Next]_vars

-----------------------------------------------------------------------------
(* Properties. *)

AllKeys == UNION {document.names[i] : i \in DOMAIN document.in}

\* A document with no more containers than are searched gives all its keys,
\* at whatever depth they stand, and no document gives others
\* (capabilities.py:24-48).
KeysExact ==
  /\ keys \subseteq AllKeys
  /\ done /\ Cardinality(DOMAIN document.in) <= MaxNodes => keys = AllKeys

\* No container is searched twice, and none is left out silently while the
\* search is within its bound: what is on the stack or below it is still to be
\* visited, and the others have given their names (capabilities.py:27-46).
NothingForgotten ==
  LET Below[i \in DOMAIN document.in] ==
        i \in ToSet(stack) \/ (document.in[i] # 0 /\ Below[document.in[i]])
  IN  /\ IsInjective(stack)
      /\ visited <= MaxNodes =>
           /\ \A i \in DOMAIN document.in : ~Below[i] => document.names[i] \subseteq keys
           /\ visited = Cardinality({i \in DOMAIN document.in : ~Below[i]})
=============================================================================
