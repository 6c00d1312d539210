--------------------------- MODULE MCRateLimiter ---------------------------
(* RateLimiter on small instances. *)
EXTENDS RateLimiter, TLC

(* Addresses and tokens are interchangeable among themselves. *)
Symmetry == Permutations(Ips) \union Permutations(Tokens)
=============================================================================
