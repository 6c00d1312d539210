------------------------ MODULE MCTokenVerification ------------------------
(* Instances of TokenVerification for TLC. *)
EXTENDS TokenVerification, TLC

CONSTANTS k1, k2, k3, r1, r2

MCSubjects == {"ann", " ann", " "}
MCStripped == [s \in MCSubjects |-> IF s = " " THEN " " ELSE "ann"]

InOrder == {t \in AllTokens : t.flaw = "none" /\ t.subject = "ann" /\ t.expires = LastTick + 1}

\* Tokens of one key with a blank subject, with an early expiry, and with a
\* flaw of every kind: found at once, by the library, by verify_token.
Flawed ==
  {t \in AllTokens :
    /\ t.key = k1
    /\ \/ t.subject = " " /\ t.flaw = "none" /\ t.expires = LastTick + 1
       \/ t.subject = " ann" /\ t.flaw = "none" /\ t.expires = 1
       \/ t.subject = "ann" /\ t.flaw \in {"size", "audience", "scopes"}
             /\ t.expires = LastTick + 1}

MCTokens == InOrder \union Flawed

Symmetry == Permutations({r1, r2}) \union Permutations({k2, k3})
=============================================================================
