----------------------- MODULE MCConnectionLifecycle -----------------------
(* ConnectionLifecycle on small instances. *)
EXTENDS ConnectionLifecycle, TLC

(* Tenants, flows and threads are interchangeable in the safety properties. *)
Symmetry == Permutations(Tenants) \union Permutations(Flows) \union Permutations(Requests)
=============================================================================
