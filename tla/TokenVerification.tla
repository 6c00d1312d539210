-------------------------- MODULE TokenVerification --------------------------
(***************************************************************************)
(* Whether a request is let in (auth.py): access tokens are verified in    *)
(* worker threads against the keys the authorization server publishes,     *)
(* which it replaces while tokens are out.                                 *)
(*                                                                         *)
(* The key client is PyJWT's PyJWKClient as auth.py configures it: the key *)
(* set is kept for a lifespan, a key once found is remembered with no end  *)
(* but its place among the last max_cached_keys, and a key id that is not  *)
(* in the set has the set fetched again.  A worker takes its steps between *)
(* those of others; nothing locks the caches.                              *)
(***************************************************************************)
EXTENDS Naturals, FiniteSets, SequencesExt

CONSTANTS Keys,           \* signing keys of the authorization server
          Subjects,       \* values of the claim sub
          Tokens,         \* the tokens that are presented, some of AllTokens
          Stripped,       \* Stripped[s]: s without white space at its ends
          Blank,          \* the subject that is nothing else
          Requests,       \* verifications at the same time
          MaxCachedKeys,  \* max_cached_keys
          Lifespan,       \* lifespan, in ticks
          LastTick,       \* the clock's last value, a bound on the model
          MaxRotations    \* changes of the published set, a bound on the model

VARIABLES published,   \* the key set at the authorization server
          rotations,
          now,         \* the clock
          kept,        \* the cached key set, with the tick it was stored at
          remembered,  \* the keys found, least recently used first
          call         \* call[r]: the locals of a verification

vars == <<published, rotations, now, kept, remembered, call>>

NoSet == [keys |-> {}, at |-> 0, some |-> FALSE]

\* What can be wrong with a token that is signed by a key of the server,
\* in the order the code finds it.
DecodeFlaws == {"signature", "algorithm", "issuer", "audience", "missing claim"}
ClaimFlaws == {"client", "scopes", "expiry type"}
Flaws == {"none", "size"} \union DecodeFlaws \union ClaimFlaws

AllTokens == [key : Keys, flaw : Flaws, subject : Subjects, expires : 0..(LastTick + 1)]

ASSUME TokenAssumption ==
  /\ Stripped \in [Subjects -> Subjects] /\ Blank \in Subjects
  /\ MaxCachedKeys \in Nat \ {0}
  /\ Lifespan \in Nat /\ LastTick \in Nat /\ MaxRotations \in Nat
  /\ Tokens \subseteq AllTokens

NoToken == "no token"      \* before the first call

Idle == "idle"              \* no request
Lookup == "lookup"          \* get_signing_key
Fetching == "fetching"      \* the first fetch
Refetching == "refetching"  \* the fetch after a key id was not found
Fetched == "fetched"        \* the first fetch is answered, nothing stored yet
Refetched == "refetched"    \* the second one
Decoding == "decoding"      \* jwt.decode
Accepted == "accepted"
Rejected == "rejected"

\* got: the set a fetch of this call was answered with;
\* steady: the token's key has been published ever since the call began;
\* shut: the key was neither published nor held when the call began, and has
\* not been published since; failed: a fetch of this call failed.
Call(step, t, steady, shut) ==
  [at |-> step, token |-> t, got |-> {}, steady |-> steady, shut |-> shut, failed |-> FALSE]

Init ==
  /\ published \in {{k} : k \in Keys}
  /\ rotations = 0 /\ now = 0
  /\ kept = NoSet /\ remembered = <<>>
  /\ call = [r \in Requests |-> Call(Idle, NoToken, FALSE, FALSE)]

Goto(r, step) == call' = [call EXCEPT ![r].at = step]
Key(r) == call[r].token.key
Token(r) == call[r].token

\* Where the process still holds the key k: among the keys found, in a cached
\* set within its lifespan, in an answer a worker has yet to store, or in the
\* hands of a worker that checks a signature with it.
Held(k) ==
  \/ Contains(remembered, k)
  \/ k \in kept.keys /\ now <= kept.at + Lifespan
  \/ \E r \in Requests : call[r].at \in {Fetched, Refetched} /\ k \in call[r].got
  \/ \E r \in Requests : call[r].at = Decoding /\ Key(r) = k

-----------------------------------------------------------------------------
(* verify_token. *)

Begin(r) ==
  /\ call[r].at \in {Idle, Accepted, Rejected}
  /\ \E t \in Tokens :
       call' = [call EXCEPT ![r] =
         Call(IF t.flaw = "size" THEN Rejected ELSE Lookup, t,
              t.key \in published, t.key \notin published /\ ~Held(t.key))]
  /\ UNCHANGED <<published, rotations, now, kept, remembered>>

\* A key that is remembered becomes the most recently used one.
Use(k) == \E i \in DOMAIN remembered :
  remembered[i] = k /\ remembered' = Append(RemoveAt(remembered, i), k)

\* A key that was found is remembered in place of the least recently used
\* one, unless another worker has found it in the meantime.
Remember(k) ==
  remembered' = IF Contains(remembered, k) THEN remembered
                ELSE Append(IF Len(remembered) = MaxCachedKeys THEN Tail(remembered)
                            ELSE remembered, k)

\* Faulty: the cached set is used whatever its age.
FreshAlways == kept.some

Fresh == kept.some /\ now <= kept.at + Lifespan

Unknown(r) == Goto(r, Refetching) /\ UNCHANGED remembered

Find(r) ==
  /\ call[r].at = Lookup
  /\ \/ /\ Contains(remembered, Key(r))
        /\ Use(Key(r))
        /\ Goto(r, Decoding)
     \/ /\ ~Contains(remembered, Key(r))
        /\ IF ~Fresh THEN Goto(r, Fetching) /\ UNCHANGED remembered
           ELSE IF Key(r) \in kept.keys THEN Remember(Key(r)) /\ Goto(r, Decoding)
           ELSE Unknown(r)
  /\ UNCHANGED <<published, rotations, now, kept>>

\* The server answers with the set as it is published.
Answer(r) ==
  /\ call[r].at \in {Fetching, Refetching}
  /\ call' = [call EXCEPT ![r].got = published,
                          ![r].at = IF @ = Fetching THEN Fetched ELSE Refetched]
  /\ UNCHANGED <<published, rotations, now, kept, remembered>>

\* Faulty: what is in the cache is searched, not what was answered.
FoundInCache(r) == Key(r) \in kept.keys

FoundIn(r) == Key(r) \in call[r].got

\* The worker goes on: it stores the set, whatever another one has stored
\* since, and looks for the key in the set it was given.
Store(r) ==
  /\ call[r].at \in {Fetched, Refetched}
  /\ kept' = [keys |-> call[r].got, at |-> now, some |-> TRUE]
  /\ IF FoundIn(r) THEN Remember(Key(r)) /\ Goto(r, Decoding)
     ELSE IF call[r].at = Fetched THEN Unknown(r)
     ELSE Goto(r, Rejected) /\ UNCHANGED remembered
  /\ UNCHANGED <<published, rotations, now>>

\* A fetch that fails empties the cache.
FetchFails(r) ==
  /\ call[r].at \in {Fetching, Refetching}
  /\ kept' = NoSet
  /\ call' = [call EXCEPT ![r].at = Rejected, ![r].failed = TRUE]
  /\ UNCHANGED <<published, rotations, now, remembered>>

Decodes(t) == t.flaw \notin DecodeFlaws /\ now < t.expires

ClaimsFit(t) == t.flaw \notin ClaimFlaws /\ Stripped[t.subject] # Blank

Decode(r) ==
  /\ call[r].at = Decoding
  /\ Goto(r, IF Decodes(Token(r)) /\ ClaimsFit(Token(r)) THEN Accepted ELSE Rejected)
  /\ UNCHANGED <<published, rotations, now, kept, remembered>>

-----------------------------------------------------------------------------
(* The authorization server and time. *)

Rotate ==
  /\ rotations < MaxRotations
  /\ \E ks \in (SUBSET Keys) \ {{}, published} :
       /\ published' = ks
       /\ call' = [r \in Requests |->
                    [call[r] EXCEPT !.steady = @ /\ call[r].token.key \in ks,
                                    !.shut = @ /\ call[r].token.key \notin ks]]
  /\ rotations' = rotations + 1
  /\ UNCHANGED <<now, kept, remembered>>

Tick ==
  /\ now < LastTick
  /\ now' = now + 1
  /\ UNCHANGED <<published, rotations, kept, remembered, call>>

Work(r) == Find(r) \/ Answer(r) \/ Store(r) \/ FetchFails(r) \/ Decode(r)

Next == Rotate \/ Tick \/ \E r \in Requests : Begin(r) \/ Work(r)

Spec == Init /\ [][Next]_vars

-----------------------------------------------------------------------------
(* Properties. *)

\* The state of the model has its types, and the remembered keys are distinct
\* and no more than configured, with workers that find the same key at once
\* (auth.py:75-80).
TypeOK ==
  /\ published \in SUBSET Keys /\ rotations \in 0..MaxRotations /\ now \in 0..LastTick
  /\ kept \in [keys : SUBSET Keys, at : 0..LastTick, some : BOOLEAN]
  /\ IsInjective(remembered) /\ ToSet(remembered) \subseteq Keys
  /\ Len(remembered) <= MaxCachedKeys
  /\ \A r \in Requests :
       /\ call[r].at \in {Idle, Lookup, Fetching, Refetching, Fetched, Refetched,
                         Decoding, Accepted, Rejected}
       /\ call[r].at # Idle => call[r].token \in Tokens
       /\ call[r].got \in SUBSET Keys

Good(t) == t.flaw = "none" /\ Stripped[t.subject] # Blank

\* A rotation of the keys locks nobody out: a token that is in order and has
\* not expired is refused only when a fetch failed or its key was withdrawn
\* while it was verified, however old the cached set is and whatever another
\* worker stores late (auth.py:75-80, 125-126).
RotationLocksNobodyOut ==
  \A r \in Requests :
    call[r].at = Rejected /\ Good(Token(r)) /\ now < Token(r).expires =>
      call[r].failed \/ ~call[r].steady

\* A withdrawn key stays out once it is forgotten: a token signed with it is
\* refused by every call that begins when the server no longer publishes it
\* and the process no longer holds it, unless it is published again, whatever
\* older answers other workers store late and however the three caches age
\* (auth.py:75-80, 125-126).
WithdrawnKeysStayOut == \A r \in Requests : call[r].at = Accepted => ~call[r].shut
=============================================================================
