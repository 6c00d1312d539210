------------------------ MODULE MCHouseholdWorkspace ------------------------
(* HouseholdWorkspace on a small instance. *)
EXTENDS HouseholdWorkspace, TLC

CONSTANTS household, archive, reviews, alice, c1

OneOwner == [c \in Connections |-> alice]

(* Three distinct folders, one of which holds the others; the reports are  *)
(* kept in one of two of them.                                             *)
Layout(second, last) == <<<<household>>, <<household, second>>, <<household, last>>>>
Segments == {household, archive, reviews}
TwoLayouts == {Layout(archive, reviews), Layout(reviews, archive)}

(* The bound: once a call is at Nextcloud there is nothing but c1. *)
OneConnectionWrites ==
    (\E p \in Requests : req[p].at \in {"probe", "create"}) \/ (\E c \in Connections : folders[c] # {}) =>
        /\ \A c \in Connections \ {c1} : conns[c].row /\ conns[c].secret
        /\ \A id \in DOMAIN profiles : profiles[id].conn = c1
        /\ \A p \in Requests : req[p].at \in {"lookup", "check", "write"} => req[p].record.conn = c1

Symmetry == Permutations(Requests) \union Permutations(ProfileIds)
=============================================================================
