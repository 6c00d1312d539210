-------------------------- MODULE MCCredentialVault --------------------------
(* Model checking of CredentialVault: two processes with a thread each,    *)
(* which change from key k1 to key k2.                                     *)
EXTENDS CredentialVault, TLC

CONSTANTS p1, p2, i1, i2, k1, k2

MCProcessOf == (i1 :> p1 @@ i2 :> p2)
=============================================================================
