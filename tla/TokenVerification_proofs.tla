----------------------- MODULE TokenVerification_proofs -----------------------
(* Proofs about TokenVerification: a rotation of the keys locks nobody out, *)
(* and a withdrawn key that is forgotten stays out.                         *)
EXTENDS TokenVerification, SequenceTheorems, TLAPS

Places == {Idle, Lookup, Fetching, Refetching, Fetched, Refetched, Decoding, Accepted, Rejected}

CallType == [at : Places, token : Tokens \union {NoToken}, got : SUBSET Keys,
             steady : BOOLEAN, shut : BOOLEAN, failed : BOOLEAN]

Types == /\ call \in [Requests -> CallType]
         /\ now \in Nat
         /\ \A r \in Requests : call[r].at # Idle => call[r].token \in Tokens

\* The record w of a call is right about the keys ks and the time t: a key
\* that has been published ever since is published and in every answer, and
\* a token in order is not refused without a reason.
Sound(w, ks, t) ==
  /\ w.at # Idle /\ w.steady => w.token.key \in ks
  /\ w.at \in {Fetched, Refetched} /\ w.steady => w.token.key \in w.got
  /\ w.at = Rejected /\ Good(w.token) /\ t < w.token.expires => w.failed \/ ~w.steady

IInv == Types /\ \A r \in Requests : Sound(call[r], published, now)

LEMMA PlacesDiffer ==
  /\ Idle # Lookup /\ Idle # Fetching /\ Idle # Refetching /\ Idle # Fetched
  /\ Idle # Refetched /\ Idle # Decoding /\ Idle # Accepted /\ Idle # Rejected
  /\ Accepted # Rejected
  /\ {Lookup, Fetching, Refetching, Decoding, Accepted, Rejected}
       \intersect {Fetched, Refetched} = {}
  /\ {Lookup, Fetching, Refetching, Fetched, Refetched, Decoding}
       \intersect {Accepted, Rejected} = {}
BY DEF Idle, Lookup, Fetching, Refetching, Fetched, Refetched, Decoding, Accepted, Rejected

LEMMA TokenTyped ==
  ASSUME NEW t \in Tokens
  PROVE  t.key \in Keys /\ t.flaw \in Flaws /\ t.expires \in Nat
BY TokenAssumption DEF AllTokens

(* A call takes the record w, and the keys and the time stay.              *)
LEMMA CallKeeps ==
  ASSUME IInv, NEW r \in Requests, NEW w \in CallType,
         call' = [call EXCEPT ![r] = w], UNCHANGED <<published, now>>,
         w.at # Idle => w.token \in Tokens, Sound(w, published, now)
  PROVE  IInv'
<1>1. call' \in [Requests -> CallType] /\ now' \in Nat
  BY DEF IInv, Types
<1>2. call'[r] = w /\ \A q \in Requests \ {r} : call'[q] = call[q]
  BY DEF IInv, Types
<1>3. \A q \in Requests : call'[q].at # Idle => call'[q].token \in Tokens
  BY <1>2 DEF IInv, Types
<1>4. \A q \in Requests : Sound(call'[q], published', now')
  BY <1>2 DEF IInv
<1>5. QED
  BY <1>1, <1>3, <1>4 DEF IInv, Types

(* A call that only moves on keeps what it knows.                          *)
LEMMA MoveKeeps ==
  ASSUME IInv, NEW r \in Requests, call[r].at \notin {Idle, Rejected},
         NEW step \in {Lookup, Fetching, Refetching, Decoding},
         Goto(r, step), UNCHANGED <<published, now>>
  PROVE  IInv'
<1> DEFINE w == [call[r] EXCEPT !.at = step]
<1>1. call[r] \in CallType /\ call[r].token \in Tokens
  BY DEF IInv, Types
<1>2. w \in CallType
  BY <1>1 DEF CallType, Places
<1>3. /\ w.at = step /\ w.token = call[r].token
      /\ w.steady = call[r].steady
  BY <1>1 DEF CallType
<1>4. call' = [call EXCEPT ![r] = w]
  BY <1>1 DEF Goto, IInv, Types
<1>5. Sound(call[r], published, now)
  BY DEF IInv
<1>6. Sound(w, published, now)
  BY <1>3, <1>5, PlacesDiffer DEF Sound
<1> HIDE DEF w
<1>7. QED
  BY <1>1, <1>2, <1>3, <1>4, <1>6, CallKeeps

-----------------------------------------------------------------------------

LEMMA InitIInv == Init => IInv
<1> SUFFICES ASSUME Init PROVE IInv
  OBVIOUS
<1>1. Call(Idle, NoToken, FALSE, FALSE) \in CallType
  BY DEF Call, CallType, Places
<1>2. call \in [Requests -> CallType] /\ \A r \in Requests : call[r] = Call(Idle, NoToken, FALSE, FALSE)
  BY <1>1 DEF Init
<1>3. \A r \in Requests : call[r].at = Idle
  BY <1>2 DEF Call
<1>4. \A r \in Requests : Sound(call[r], published, now)
  BY <1>3, PlacesDiffer DEF Sound
<1>5. QED
  BY <1>2, <1>3, <1>4 DEF IInv, Types, Init

LEMMA BeginKeeps == ASSUME IInv, NEW r \in Requests, Begin(r) PROVE IInv'
<1>1. PICK t \in Tokens :
        call' = [call EXCEPT ![r] =
          Call(IF t.flaw = "size" THEN Rejected ELSE Lookup, t,
               t.key \in published, t.key \notin published /\ ~Held(t.key))]
  BY DEF Begin
<1> DEFINE step == IF t.flaw = "size" THEN Rejected ELSE Lookup
           w == Call(step, t, t.key \in published, t.key \notin published /\ ~Held(t.key))
<1>2. w \in CallType
  BY DEF Call, CallType, Places
<1>3. w.at = step /\ w.token = t /\ w.steady = (t.key \in published)
  BY DEF Call
<1>4. Sound(w, published, now)
  <2>1. w.at = Rejected => ~Good(t)
    BY <1>3, PlacesDiffer DEF Good
  <2>2. w.at \notin {Fetched, Refetched, Accepted}
    BY <1>3, PlacesDiffer
  <2>3. QED
    BY <1>3, <2>1, <2>2 DEF Sound
<1>5. UNCHANGED <<published, now>>
  BY DEF Begin
<1>6. call' = [call EXCEPT ![r] = w]
  BY <1>1
<1> HIDE DEF w, step
<1>7. QED
  BY <1>2, <1>3, <1>4, <1>5, <1>6, CallKeeps

LEMMA FindKeeps == ASSUME IInv, NEW r \in Requests, Find(r) PROVE IInv'
<1>1. \E step \in {Lookup, Fetching, Refetching, Decoding} : Goto(r, step)
  BY DEF Find, Unknown
<1>2. call[r].at \notin {Idle, Rejected} /\ UNCHANGED <<published, now>>
  BY PlacesDiffer DEF Find
<1>3. QED
  BY <1>1, <1>2, MoveKeeps

LEMMA AnswerKeeps == ASSUME IInv, published \in SUBSET Keys, NEW r \in Requests, Answer(r) PROVE IInv'
<1> DEFINE step == IF call[r].at = Fetching THEN Fetched ELSE Refetched
           w == [call[r] EXCEPT !.got = published, !.at = step]
<1>1. call[r] \in CallType /\ call[r].at # Idle /\ call[r].token \in Tokens
  BY PlacesDiffer DEF Answer, IInv, Types
<1>2. w \in CallType
  BY <1>1 DEF CallType, Places
<1>3. /\ w.at \in {Fetched, Refetched} /\ w.token = call[r].token
      /\ w.steady = call[r].steady /\ w.got = published
  BY <1>1 DEF CallType
<1>4. call' = [call EXCEPT ![r] = w]
  BY <1>1 DEF Answer, IInv, Types
<1>5. Sound(call[r], published, now)
  BY DEF IInv
<1>6. w.at \notin {Accepted, Rejected} /\ call[r].at \notin {Idle, Rejected}
  BY <1>1, <1>3, PlacesDiffer DEF Answer
<1>7. Sound(w, published, now)
  BY <1>1, <1>3, <1>5, <1>6 DEF Sound
<1>8. UNCHANGED <<published, now>>
  BY DEF Answer
<1> HIDE DEF w, step
<1>9. QED
  BY <1>1, <1>2, <1>3, <1>4, <1>7, <1>8, CallKeeps

(* A call that is refused, rightly.                                        *)
LEMMA RefusalKeeps ==
  ASSUME IInv, NEW r \in Requests, call[r].at # Idle, NEW failed \in BOOLEAN,
         call' = [call EXCEPT ![r] = [call[r] EXCEPT !.at = Rejected, !.failed = failed]],
         UNCHANGED <<published, now>>,
         Good(call[r].token) /\ now < call[r].token.expires => failed \/ ~call[r].steady
  PROVE  IInv'
<1> DEFINE w == [call[r] EXCEPT !.at = Rejected, !.failed = failed]
<1>1. call[r] \in CallType /\ call[r].token \in Tokens
  BY DEF IInv, Types
<1>2. w \in CallType
  BY <1>1 DEF CallType, Places
<1>3. /\ w.at = Rejected /\ w.token = call[r].token
      /\ w.steady = call[r].steady /\ w.failed = failed
  BY <1>1 DEF CallType
<1>4. Sound(call[r], published, now)
  BY DEF IInv
<1>5. Sound(w, published, now)
  BY <1>3, <1>4, PlacesDiffer DEF Sound
<1>6. call' = [call EXCEPT ![r] = w]
  OBVIOUS
<1> HIDE DEF w
<1>7. QED
  BY <1>1, <1>2, <1>3, <1>5, <1>6, CallKeeps

LEMMA RefusedAt ==
  ASSUME IInv, NEW r \in Requests, Goto(r, Rejected)
  PROVE  call' = [call EXCEPT ![r] = [call[r] EXCEPT !.at = Rejected, !.failed = call[r].failed]]
<1>1. call[r] \in CallType
  BY DEF IInv, Types
<1>2. [call[r] EXCEPT !.at = Rejected] =
        [call[r] EXCEPT !.at = Rejected, !.failed = call[r].failed]
  BY <1>1 DEF CallType
<1>3. QED
  BY <1>2 DEF Goto

LEMMA StoreKeeps == ASSUME IInv, NEW r \in Requests, Store(r) PROVE IInv'
<1>1. /\ call[r] \in CallType /\ call[r].at # Idle /\ call[r].at # Rejected
      /\ UNCHANGED <<published, now>>
  BY PlacesDiffer DEF Store, IInv, Types
<1>2. CASE FoundIn(r) \/ call[r].at = Fetched
  <2>1. \E step \in {Lookup, Fetching, Refetching, Decoding} : Goto(r, step)
    BY <1>2 DEF Store, Unknown
  <2>2. QED
    BY <1>1, <2>1, MoveKeeps
<1>3. CASE ~(FoundIn(r) \/ call[r].at = Fetched)
  <2>1. Goto(r, Rejected) /\ call[r].at \in {Fetched, Refetched}
    BY <1>3 DEF Store
  <2>2. Sound(call[r], published, now)
    BY DEF IInv
  <2>3. ~call[r].steady
    BY <1>3, <2>1, <2>2 DEF Sound, FoundIn, Key
  <2>4. call[r].failed \in BOOLEAN
    BY <1>1 DEF CallType
  <2>5. QED
    BY <1>1, <2>1, <2>3, <2>4, RefusedAt, RefusalKeeps
<1>4. QED
  BY <1>2, <1>3

LEMMA FetchFailsKeeps == ASSUME IInv, NEW r \in Requests, FetchFails(r) PROVE IInv'
<1>1. call[r].at # Idle /\ UNCHANGED <<published, now>>
  BY PlacesDiffer DEF FetchFails
<1>2. call' = [call EXCEPT ![r] = [call[r] EXCEPT !.at = Rejected, !.failed = TRUE]]
  BY DEF FetchFails, IInv, Types
<1>3. QED
  BY <1>1, <1>2, RefusalKeeps

LEMMA DecodeKeeps == ASSUME IInv, NEW r \in Requests, Decode(r) PROVE IInv'
<1>1. /\ call[r] \in CallType /\ call[r].at = Decoding /\ call[r].at \notin {Idle, Rejected}
      /\ call[r].token \in Tokens /\ UNCHANGED <<published, now>>
  BY PlacesDiffer DEF Decode, IInv, Types
<1>2. call[r].token.flaw \in Flaws
  BY <1>1, TokenTyped
<1>3. "none" \notin DecodeFlaws /\ "none" \notin ClaimFlaws
  BY DEF DecodeFlaws, ClaimFlaws
<1>4. CASE Decodes(Token(r)) /\ ClaimsFit(Token(r))
  <2> DEFINE w == [call[r] EXCEPT !.at = Accepted]
  <2>1. w \in CallType
    BY <1>1 DEF CallType, Places
  <2>2. w.at = Accepted /\ w.token = call[r].token /\ w.steady = call[r].steady
    BY <1>1 DEF CallType
  <2>3. call' = [call EXCEPT ![r] = w]
    BY <1>1, <1>4 DEF Decode, Goto, IInv, Types
  <2>4. Sound(call[r], published, now)
    BY DEF IInv
  <2>5. Sound(w, published, now)
    BY <1>1, <2>2, <2>4, PlacesDiffer DEF Sound
  <2> HIDE DEF w
  <2>6. QED
    BY <1>1, <2>1, <2>2, <2>3, <2>5, CallKeeps
<1>5. CASE ~(Decodes(Token(r)) /\ ClaimsFit(Token(r)))
  <2>1. Goto(r, Rejected)
    BY <1>5 DEF Decode
  <2>2. ~(Good(call[r].token) /\ now < call[r].token.expires)
    BY <1>3, <1>5 DEF Decodes, ClaimsFit, Token, Good
  <2>3. call[r].failed \in BOOLEAN
    BY <1>1 DEF CallType
  <2>4. QED
    BY <1>1, <2>1, <2>2, <2>3, RefusedAt, RefusalKeeps
<1>6. QED
  BY <1>4, <1>5

LEMMA RotateKeeps == ASSUME IInv, Rotate PROVE IInv'
<1>1. PICK ks \in (SUBSET Keys) \ {{}, published} :
        /\ published' = ks /\ now' = now
        /\ call' = [q \in Requests |->
                     [call[q] EXCEPT !.steady = @ /\ call[q].token.key \in ks,
                                     !.shut = @ /\ call[q].token.key \notin ks]]
  BY DEF Rotate
<1> SUFFICES ASSUME NEW q \in Requests
             PROVE  /\ call'[q] \in CallType
                    /\ call'[q].at # Idle => call'[q].token \in Tokens
                    /\ Sound(call'[q], published', now')
  BY <1>1 DEF IInv, Types
<1> DEFINE steady == call[q].steady /\ call[q].token.key \in ks
           shut == call[q].shut /\ call[q].token.key \notin ks
           w == [call[q] EXCEPT !.steady = steady, !.shut = shut]
<1>2. call'[q] = w
  BY <1>1
<1>3. call[q] \in CallType /\ (call[q].at # Idle => call[q].token \in Tokens)
  BY DEF IInv, Types
<1>4. w \in CallType
  BY <1>3 DEF CallType
<1>5. /\ w.at = call[q].at /\ w.token = call[q].token /\ w.got = call[q].got
      /\ w.failed = call[q].failed /\ w.steady = steady
  BY <1>3 DEF CallType
<1>6. Sound(call[q], published, now)
  BY DEF IInv
<1>7. Sound(w, ks, now)
  BY <1>5, <1>6 DEF Sound
<1>8. QED
  BY <1>1, <1>2, <1>3, <1>4, <1>5, <1>7

LEMMA TickKeeps == ASSUME IInv, Tick PROVE IInv'
<1>1. now' \in Nat /\ now' = now + 1 /\ UNCHANGED <<published, call>>
  BY DEF Tick, IInv, Types
<1>2. Types'
  BY <1>1 DEF IInv, Types
<1> SUFFICES ASSUME NEW q \in Requests PROVE Sound(call[q], published, now + 1)
  BY <1>1, <1>2 DEF IInv
<1>3. Sound(call[q], published, now) /\ now \in Nat
  BY DEF IInv, Types
<1>4. call[q].at = Rejected => call[q].token \in Tokens
  BY PlacesDiffer DEF IInv, Types
<1>5. call[q].at = Rejected => call[q].token.expires \in Nat
  BY <1>4, TokenTyped
<1>6. call[q].at = Rejected /\ now + 1 < call[q].token.expires => now < call[q].token.expires
  BY <1>3, <1>5
<1>7. QED
  BY <1>3, <1>6 DEF Sound

(* The published set has a type of its own.                                *)
KeysTyped == published \in SUBSET Keys

LEMMA NextKeeps == ASSUME IInv, KeysTyped, [Next]_vars PROVE IInv' /\ KeysTyped'
<1>1. CASE Rotate
  BY <1>1, RotateKeeps DEF Rotate, KeysTyped
<1>2. CASE Tick
  BY <1>2, TickKeeps DEF Tick, KeysTyped
<1>3. ASSUME NEW r \in Requests, Begin(r) \/ Work(r) PROVE IInv' /\ KeysTyped'
  <2>1. KeysTyped'
    BY <1>3 DEF Begin, Work, Find, Answer, Store, FetchFails, Decode, KeysTyped
  <2>2. CASE Begin(r)
    BY <2>1, <2>2, BeginKeeps
  <2>3. CASE Find(r)
    BY <2>1, <2>3, FindKeeps
  <2>4. CASE Answer(r)
    BY <2>1, <2>4, AnswerKeeps DEF KeysTyped
  <2>5. CASE Store(r)
    BY <2>1, <2>5, StoreKeeps
  <2>6. CASE FetchFails(r)
    BY <2>1, <2>6, FetchFailsKeeps
  <2>7. CASE Decode(r)
    BY <2>1, <2>7, DecodeKeeps
  <2>8. QED
    BY <1>3, <2>2, <2>3, <2>4, <2>5, <2>6, <2>7 DEF Work
<1>4. CASE UNCHANGED vars
  BY <1>4 DEF vars, IInv, Types, KeysTyped
<1>5. QED
  BY <1>1, <1>2, <1>3, <1>4 DEF Next

-----------------------------------------------------------------------------
(* What a step makes the process hold it held before, or it is published.   *)

CacheTypes == /\ remembered \in Seq(Keys)
              /\ kept \in [keys : SUBSET Keys, at : Nat, some : BOOLEAN]

(* A call that was shut out when it began is still shut out, and has not    *)
(* been accepted.                                                           *)
ShutOut == \A r \in Requests, k \in Keys :
  call[r].at # Idle /\ call[r].shut /\ call[r].token.key = k =>
    k \notin published /\ ~Held(k) /\ call[r].at # Accepted

Forgotten == CacheTypes /\ ShutOut

LEMMA UseAddsNone ==
  ASSUME remembered \in Seq(Keys), NEW k \in Keys, Use(k)
  PROVE  /\ remembered' \in Seq(Keys)
         /\ \A j : Contains(remembered', j) => Contains(remembered, j) \/ j = k
<1>1. PICK i \in 1..Len(remembered) : remembered' = Append(RemoveAt(remembered, i), k)
  <2>1. DOMAIN remembered = 1..Len(remembered)
    OBVIOUS
  <2>2. QED
    BY <2>1, Zenon DEF Use
<1> DEFINE head == SubSeq(remembered, 1, i - 1)
           rest == SubSeq(remembered, i + 1, Len(remembered))
<1>2. /\ head \in Seq(Keys) /\ Len(head) = i - 1
      /\ \A n \in 1..(i - 1) : head[n] = remembered[n]
  OBVIOUS
<1>3. /\ rest \in Seq(Keys) /\ Len(rest) = Len(remembered) - i
      /\ \A n \in 1..(Len(remembered) - i) : rest[n] = remembered[i + n]
  OBVIOUS
<1> HIDE DEF head, rest
<1>4. remembered' = Append(head \o rest, k)
  BY <1>1 DEF RemoveAt, head, rest
<1>5. /\ head \o rest \in Seq(Keys) /\ Len(head \o rest) = Len(remembered) - 1
      /\ \A n \in 1..(Len(remembered) - 1) :
           (head \o rest)[n] = IF n <= i - 1 THEN head[n] ELSE rest[n - (i - 1)]
  <2>1. /\ head \o rest \in Seq(Keys) /\ Len(head \o rest) = Len(head) + Len(rest)
        /\ \A n \in 1..(Len(head) + Len(rest)) :
             (head \o rest)[n] = IF n <= Len(head) THEN head[n] ELSE rest[n - Len(head)]
    BY <1>2, <1>3, ConcatProperties, Zenon
  <2>2. Len(head) = i - 1 /\ Len(head) + Len(rest) = Len(remembered) - 1
    BY <1>2, <1>3
  <2>3. QED
    BY <2>1, <2>2
<1>6. \A n \in 1..(Len(remembered) - 1) : Contains(remembered, (head \o rest)[n])
  <2> SUFFICES ASSUME NEW n \in 1..(Len(remembered) - 1)
               PROVE  Contains(remembered, (head \o rest)[n])
    OBVIOUS
  <2>1. CASE n <= i - 1
    BY <2>1, <1>2, <1>5 DEF Contains
  <2>2. CASE n > i - 1
    <3>1. n - (i - 1) \in 1..(Len(remembered) - i) /\ n + 1 \in 1..Len(remembered)
      BY <2>2
    <3>2. (head \o rest)[n] = remembered[n + 1]
      BY <2>2, <3>1, <1>3, <1>5
    <3>3. QED
      BY <3>1, <3>2 DEF Contains
  <2>3. n <= i - 1 \/ n > i - 1
    OBVIOUS
  <2>4. QED
    BY <2>1, <2>2, <2>3, Zenon
<1>7. /\ remembered' \in Seq(Keys) /\ Len(remembered') = Len(remembered)
      /\ remembered'[Len(remembered)] = k
      /\ \A n \in 1..(Len(remembered) - 1) : remembered'[n] = (head \o rest)[n]
  BY <1>4, <1>5
<1>8. ASSUME NEW j, NEW n \in 1..Len(remembered'), remembered'[n] = j
      PROVE  Contains(remembered, j) \/ j = k
  <2>1. n = Len(remembered) \/ n \in 1..(Len(remembered) - 1)
    BY <1>7, <1>8
  <2>2. QED
    BY <2>1, <1>6, <1>7, <1>8
<1>9. QED
  BY <1>7, <1>8 DEF Contains

LEMMA RememberAddsOne ==
  ASSUME remembered \in Seq(Keys), NEW k \in Keys, Remember(k)
  PROVE  /\ remembered' \in Seq(Keys)
         /\ \A j : Contains(remembered', j) => Contains(remembered, j) \/ j = k
<1>1. CASE Contains(remembered, k)
  BY <1>1 DEF Remember
<1>2. CASE ~Contains(remembered, k) /\ Len(remembered) = MaxCachedKeys
  <2>1. remembered' = Append(Tail(remembered), k)
    BY <1>2 DEF Remember
  <2>2. remembered # <<>>
    BY <1>2, TokenAssumption
  <2>3. QED
    BY <2>1, <2>2 DEF Contains
<1>3. CASE ~Contains(remembered, k) /\ Len(remembered) # MaxCachedKeys
  <2>1. remembered' = Append(remembered, k)
    BY <1>3 DEF Remember
  <2>2. QED
    BY <2>1 DEF Contains
<1>4. QED
  BY <1>1, <1>2, <1>3

(* A call takes the record w and the caches change: k is held only if one   *)
(* of the four places has got it.                                           *)
LEMMA HeldAfter ==
  ASSUME IInv, NEW r \in Requests, NEW w \in CallType, call' = [call EXCEPT ![r] = w],
         NEW k \in Keys, ~Held(k),
         ~Contains(remembered', k),
         ~(k \in kept'.keys /\ now' <= kept'.at + Lifespan),
         ~(w.at \in {Fetched, Refetched} /\ k \in w.got),
         ~(w.at = Decoding /\ w.token.key = k)
  PROVE  ~Held(k)'
<1>1. call'[r] = w /\ \A q \in Requests \ {r} : call'[q] = call[q]
  BY DEF IInv, Types
<1>2. \A q \in Requests : ~(call'[q].at \in {Fetched, Refetched} /\ k \in call'[q].got)
  BY <1>1 DEF Held
<1>3. \A q \in Requests : ~(call'[q].at = Decoding /\ call'[q].token.key = k)
  BY <1>1 DEF Held, Key
<1>4. QED
  BY <1>2, <1>3 DEF Held, Key

(* The record of a call that goes on at another place.                      *)
LEMMA GotoRecord ==
  ASSUME IInv, NEW r \in Requests, NEW step \in Places, Goto(r, step)
  PROVE  LET w == [call[r] EXCEPT !.at = step]
         IN /\ w \in CallType /\ call' = [call EXCEPT ![r] = w]
            /\ w.at = step /\ w.token = call[r].token /\ w.got = call[r].got
            /\ w.shut = call[r].shut
<1>1. call[r] \in CallType
  BY DEF IInv, Types
<1>2. QED
  BY <1>1 DEF CallType, Goto

LEMMA FindHolds ==
  ASSUME IInv, Forgotten, NEW r \in Requests, Find(r)
  PROVE  CacheTypes' /\ \A k \in Keys : ~Held(k) => ~Held(k)'
<1>1. Key(r) \in Keys /\ call[r].at = Lookup /\ UNCHANGED <<kept, now>>
  BY PlacesDiffer, TokenTyped DEF Find, IInv, Types, Key
<1>2. \/ Goto(r, Decoding) /\ Held(Key(r)) /\ (Use(Key(r)) \/ Remember(Key(r)))
      \/ \E step \in {Fetching, Refetching} : Goto(r, step) /\ UNCHANGED remembered
  <2>1. CASE Contains(remembered, Key(r))
    BY <2>1 DEF Find, Held
  <2>2. CASE ~Contains(remembered, Key(r)) /\ Fresh /\ Key(r) \in kept.keys
    BY <2>2 DEF Find, Held, Fresh
  <2>3. CASE ~Contains(remembered, Key(r)) /\ ~(Fresh /\ Key(r) \in kept.keys)
    BY <2>3 DEF Find, Unknown
  <2>4. QED
    BY <2>1, <2>2, <2>3
<1>3. remembered \in Seq(Keys)
  BY DEF Forgotten, CacheTypes
<1>4. CASE Goto(r, Decoding) /\ Held(Key(r)) /\ (Use(Key(r)) \/ Remember(Key(r)))
  <2> DEFINE w == [call[r] EXCEPT !.at = Decoding]
  <2>1. /\ w \in CallType /\ call' = [call EXCEPT ![r] = w]
        /\ w.at = Decoding /\ w.token.key = Key(r)
    BY <1>4, GotoRecord DEF Places, Key
  <2>2. /\ remembered' \in Seq(Keys)
        /\ \A j : Contains(remembered', j) => Contains(remembered, j) \/ j = Key(r)
    BY <1>1, <1>3, <1>4, UseAddsNone, RememberAddsOne
  <2> HIDE DEF w
  <2>3. ASSUME NEW k \in Keys, ~Held(k) PROVE ~Held(k)'
    <3>1. k # Key(r) /\ ~Contains(remembered', k)
      BY <1>4, <2>2, <2>3 DEF Held
    <3>2. ~(k \in kept'.keys /\ now' <= kept'.at + Lifespan)
      BY <1>1, <2>3 DEF Held
    <3>3. w.at \notin {Fetched, Refetched}
      BY <2>1, PlacesDiffer
    <3>4. QED
      BY <2>1, <2>3, <3>1, <3>2, <3>3, HeldAfter
  <2>4. QED
    BY <1>1, <2>2, <2>3 DEF Forgotten, CacheTypes
<1>5. CASE \E step \in {Fetching, Refetching} : Goto(r, step) /\ UNCHANGED remembered
  <2>1. PICK step \in {Fetching, Refetching} : Goto(r, step) /\ UNCHANGED remembered
    BY <1>5
  <2> DEFINE w == [call[r] EXCEPT !.at = step]
  <2>2. w \in CallType /\ call' = [call EXCEPT ![r] = w] /\ w.at = step
    <3>1. step \in Places
      BY DEF Places
    <3>2. QED
      BY <2>1, <3>1, GotoRecord
  <2>3. w.at \notin {Fetched, Refetched} /\ w.at # Decoding
    BY <2>2 DEF Fetching, Refetching, Fetched, Refetched, Decoding
  <2> HIDE DEF w
  <2>4. ASSUME NEW k \in Keys, ~Held(k) PROVE ~Held(k)'
    <3>1. /\ ~Contains(remembered', k)
          /\ ~(k \in kept'.keys /\ now' <= kept'.at + Lifespan)
      BY <1>1, <2>1, <2>4 DEF Held
    <3>2. QED
      BY <2>2, <2>3, <2>4, <3>1, HeldAfter
  <2>5. QED
    BY <1>1, <2>1, <2>4 DEF Forgotten, CacheTypes
<1>6. QED
  BY <1>2, <1>4, <1>5

LEMMA StoreHolds ==
  ASSUME IInv, Forgotten, NEW r \in Requests, Store(r)
  PROVE  CacheTypes' /\ \A k \in Keys : ~Held(k) => ~Held(k)'
<1>1. /\ Key(r) \in Keys /\ call[r].at \in {Fetched, Refetched} /\ UNCHANGED now
      /\ call[r] \in CallType
      /\ kept' = [keys |-> call[r].got, at |-> now, some |-> TRUE]
  BY PlacesDiffer, TokenTyped DEF Store, IInv, Types, Key
<1>2. kept'.keys = call[r].got /\ kept' \in [keys : SUBSET Keys, at : Nat, some : BOOLEAN]
  BY <1>1 DEF IInv, Types, CallType
<1>3. \/ Goto(r, Decoding) /\ FoundIn(r) /\ Remember(Key(r))
      \/ \E step \in {Refetching, Rejected} : Goto(r, step) /\ UNCHANGED remembered
  BY DEF Store, Unknown
<1>4. remembered \in Seq(Keys)
  BY DEF Forgotten, CacheTypes
<1>5. PICK step \in {Decoding, Refetching, Rejected} : Goto(r, step)
  BY <1>3
<1> DEFINE w == [call[r] EXCEPT !.at = step]
<1>6. /\ w \in CallType /\ call' = [call EXCEPT ![r] = w]
      /\ w.at = step /\ w.token.key = Key(r)
  <2>1. step \in Places
    BY DEF Places
  <2>2. QED
    BY <1>5, <2>1, GotoRecord DEF Key
<1>7. call'[r].at = step
  BY <1>1, <1>6 DEF IInv, Types
<1> HIDE DEF w
<1>8. w.at \notin {Fetched, Refetched}
  BY <1>6 DEF Refetching, Fetched, Refetched, Decoding, Rejected
<1>9. step = Decoding => FoundIn(r)
  <2>1. ASSUME NEW other \in {Refetching, Rejected}, Goto(r, other) PROVE step # Decoding
    <3>1. other \in Places
      BY DEF Places
    <3>2. call'[r] = [call[r] EXCEPT !.at = other]
      BY <2>1 DEF Goto, IInv, Types
    <3>3. call'[r].at = other
      BY <1>1, <3>1, <3>2 DEF CallType
    <3>4. QED
      BY <1>7, <3>3 DEF Refetching, Rejected, Decoding
  <2>2. QED
    BY <1>3, <2>1
<1>10. /\ remembered' \in Seq(Keys)
       /\ \A j : Contains(remembered', j) => Contains(remembered, j) \/ j \in call[r].got
  BY <1>1, <1>3, <1>4, RememberAddsOne DEF FoundIn
<1>11. ASSUME NEW k \in Keys, ~Held(k) PROVE ~Held(k)'
  <2>1. k \notin call[r].got
    BY <1>1, <1>11 DEF Held
  <2>2. /\ ~Contains(remembered', k)
        /\ ~(k \in kept'.keys /\ now' <= kept'.at + Lifespan)
    BY <1>2, <1>10, <1>11, <2>1 DEF Held
  <2>3. ~(w.at = Decoding /\ w.token.key = k)
    BY <1>6, <1>9, <2>1 DEF FoundIn
  <2>4. QED
    BY <1>6, <1>8, <1>11, <2>2, <2>3, HeldAfter
<1>12. QED
  BY <1>2, <1>10, <1>11 DEF CacheTypes

(* The other steps of a call add nothing to the caches.                     *)
LEMMA OthersHold ==
  ASSUME IInv, Forgotten, KeysTyped, NEW r \in Requests,
         Begin(r) \/ Answer(r) \/ FetchFails(r) \/ Decode(r)
  PROVE  CacheTypes' /\ \A k \in Keys : k \notin published /\ ~Held(k) => ~Held(k)'
<1>1. UNCHANGED <<remembered, now>> /\ (UNCHANGED kept \/ kept' = NoSet)
  BY DEF Begin, Answer, FetchFails, Decode
<1>2. CacheTypes'
  <2>1. NoSet \in [keys : SUBSET Keys, at : Nat, some : BOOLEAN]
    BY DEF NoSet
  <2>2. QED
    BY <1>1, <2>1 DEF Forgotten, CacheTypes
<1>3. \A k \in Keys : ~Held(k) =>
        /\ ~Contains(remembered', k)
        /\ ~(k \in kept'.keys /\ now' <= kept'.at + Lifespan)
  BY <1>1 DEF Held, NoSet
<1>4. PICK w \in CallType :
        /\ call' = [call EXCEPT ![r] = w] /\ w.at # Decoding
        /\ w.at \in {Fetched, Refetched} => w.got = published
  <2>1. CASE Begin(r)
    <3>1. PICK t \in Tokens :
            call' = [call EXCEPT ![r] =
              Call(IF t.flaw = "size" THEN Rejected ELSE Lookup, t,
                   t.key \in published, t.key \notin published /\ ~Held(t.key))]
      BY <2>1 DEF Begin
    <3> DEFINE w == Call(IF t.flaw = "size" THEN Rejected ELSE Lookup, t,
                         t.key \in published, t.key \notin published /\ ~Held(t.key))
    <3>2. w \in CallType /\ w.at \in {Rejected, Lookup}
      BY DEF Call, CallType, Places
    <3>3. w.at # Decoding /\ w.at \notin {Fetched, Refetched}
      BY <3>2 DEF Rejected, Lookup, Decoding, Fetched, Refetched
    <3> HIDE DEF w
    <3>4. QED
      BY <3>1, <3>2, <3>3 DEF w
  <2>2. CASE Answer(r)
    <3> DEFINE step == IF call[r].at = Fetching THEN Fetched ELSE Refetched
               w == [call[r] EXCEPT !.got = published, !.at = step]
    <3>1. call[r] \in CallType
      BY DEF IInv, Types
    <3>2. w \in CallType /\ w.at \in {Fetched, Refetched} /\ w.got = published
      BY <3>1 DEF CallType, Places, KeysTyped
    <3>3. w.at # Decoding
      BY <3>2, PlacesDiffer
    <3>4. call' = [call EXCEPT ![r] = w]
      BY <2>2, <3>1 DEF Answer, IInv, Types
    <3> HIDE DEF w, step
    <3>5. QED
      BY <3>2, <3>3, <3>4
  <2>3. CASE FetchFails(r)
    <3> DEFINE w == [call[r] EXCEPT !.at = Rejected, !.failed = TRUE]
    <3>1. call[r] \in CallType
      BY DEF IInv, Types
    <3>2. w \in CallType /\ w.at = Rejected
      BY <3>1 DEF CallType, Places
    <3>3. w.at # Decoding /\ w.at \notin {Fetched, Refetched}
      BY <3>2, PlacesDiffer
    <3>4. call' = [call EXCEPT ![r] = w]
      BY <2>3, <3>1 DEF FetchFails, IInv, Types
    <3> HIDE DEF w
    <3>5. QED
      BY <3>2, <3>3, <3>4
  <2>4. CASE Decode(r)
    <3>1. PICK step \in {Accepted, Rejected} : Goto(r, step)
      BY <2>4 DEF Decode
    <3> DEFINE w == [call[r] EXCEPT !.at = step]
    <3>2. w \in CallType /\ call' = [call EXCEPT ![r] = w] /\ w.at = step
      <4>1. step \in Places
        BY DEF Places
      <4>2. QED
        BY <3>1, <4>1, GotoRecord
    <3>3. w.at # Decoding /\ w.at \notin {Fetched, Refetched}
      BY <3>2, PlacesDiffer
    <3> HIDE DEF w
    <3>4. QED
      BY <3>2, <3>3
  <2>5. QED
    BY <2>1, <2>2, <2>3, <2>4
<1>5. ASSUME NEW k \in Keys, k \notin published, ~Held(k) PROVE ~Held(k)'
  BY <1>3, <1>4, <1>5, HeldAfter
<1>6. QED
  BY <1>2, <1>5

(* A key that is neither published nor held is not held by any step.        *)
LEMMA ForgottenIsNotHeld ==
  ASSUME IInv, Forgotten, KeysTyped, [Next]_vars
  PROVE  CacheTypes' /\ \A k \in Keys : k \notin published /\ ~Held(k) => ~Held(k)'
<1>1. CASE Rotate
  <2>1. UNCHANGED <<now, kept, remembered>>
    BY <1>1 DEF Rotate
  <2>2. \A q \in Requests :
          call'[q].at = call[q].at /\ call'[q].token = call[q].token /\ call'[q].got = call[q].got
    <3>1. PICK ks \in (SUBSET Keys) \ {{}, published} :
            call' = [q \in Requests |->
                      [call[q] EXCEPT !.steady = @ /\ call[q].token.key \in ks,
                                      !.shut = @ /\ call[q].token.key \notin ks]]
      BY <1>1 DEF Rotate
    <3>2. \A q \in Requests : call[q] \in CallType
      BY DEF IInv, Types
    <3>3. QED
      BY <3>1, <3>2 DEF CallType
  <2>3. QED
    BY <2>1, <2>2 DEF Held, Key, Forgotten, CacheTypes
<1>2. CASE Tick
  <2>1. now \in Nat /\ now' = now + 1 /\ UNCHANGED <<kept, remembered, call>>
    BY <1>2 DEF Tick, IInv, Types
  <2>2. kept.at \in Nat /\ Lifespan \in Nat
    BY TokenAssumption DEF Forgotten, CacheTypes
  <2>3. now' <= kept'.at + Lifespan => now <= kept.at + Lifespan
    BY <2>1, <2>2
  <2>4. QED
    BY <2>1, <2>3 DEF Held, Key, Forgotten, CacheTypes
<1>3. ASSUME NEW r \in Requests, Begin(r) \/ Work(r)
      PROVE  CacheTypes' /\ \A k \in Keys : k \notin published /\ ~Held(k) => ~Held(k)'
  <2>1. CASE Find(r)
    BY <2>1, FindHolds
  <2>2. CASE Store(r)
    BY <2>2, StoreHolds
  <2>3. CASE Begin(r) \/ Answer(r) \/ FetchFails(r) \/ Decode(r)
    BY <2>3, OthersHold
  <2>4. QED
    BY <1>3, <2>1, <2>2, <2>3 DEF Work
<1>4. CASE UNCHANGED vars
  BY <1>4 DEF vars, Held, Key, Forgotten, CacheTypes
<1>5. QED
  BY <1>1, <1>2, <1>3, <1>4 DEF Next

(* Who is shut out after a step was so before it, or has just begun; and    *)
(* nobody is accepted but a call that holds its key.                        *)
LEMMA ShutBefore ==
  ASSUME IInv, Forgotten, [Next]_vars, NEW q \in Requests, NEW k \in Keys,
         call'[q].at # Idle, call'[q].shut, call'[q].token.key = k
  PROVE  k \notin published' /\ k \notin published /\ ~Held(k) /\ call'[q].at # Accepted
<1>1. call[q].at # Idle /\ call[q].shut /\ call[q].token.key = k =>
        k \notin published /\ ~Held(k) /\ call[q].at # Accepted
  BY DEF Forgotten, ShutOut
<1>2. CASE UNCHANGED <<call, published>>
  BY <1>1, <1>2
<1>3. CASE Rotate
  <2>1. PICK ks \in (SUBSET Keys) \ {{}, published} :
          /\ published' = ks
          /\ call' = [r \in Requests |->
                       [call[r] EXCEPT !.steady = @ /\ call[r].token.key \in ks,
                                       !.shut = @ /\ call[r].token.key \notin ks]]
    BY <1>3 DEF Rotate
  <2>2. call[q] \in CallType
    BY DEF IInv, Types
  <2>3. /\ call'[q].at = call[q].at /\ call'[q].token = call[q].token
        /\ call'[q].shut = (call[q].shut /\ call[q].token.key \notin ks)
    BY <2>1, <2>2 DEF CallType
  <2>4. call[q].shut /\ k \notin ks
    BY <2>3
  <2>5. QED
    BY <1>1, <2>1, <2>3, <2>4
<1>4. ASSUME NEW r \in Requests, Begin(r) \/ Work(r)
      PROVE  k \notin published' /\ k \notin published /\ ~Held(k) /\ call'[q].at # Accepted
  <2>1. UNCHANGED published
    BY <1>4 DEF Begin, Work, Find, Answer, Store, FetchFails, Decode
  <2>2. CASE q # r
    <3>1. call'[q] = call[q]
      BY <1>4, <2>2 DEF Begin, Work, Find, Unknown, Answer, Store, FetchFails, Decode, Goto,
                        IInv, Types
    <3>2. QED
      BY <1>1, <2>1, <3>1
  <2>3. CASE q = r /\ Begin(r)
    <3>1. PICK t \in Tokens :
            call' = [call EXCEPT ![r] =
              Call(IF t.flaw = "size" THEN Rejected ELSE Lookup, t,
                   t.key \in published, t.key \notin published /\ ~Held(t.key))]
      BY <2>3 DEF Begin
    <3>2. call'[q] = Call(IF t.flaw = "size" THEN Rejected ELSE Lookup, t,
                          t.key \in published, t.key \notin published /\ ~Held(t.key))
      BY <2>3, <3>1 DEF IInv, Types
    <3> DEFINE out == t.key \notin published /\ ~Held(t.key)
    <3>3. call'[q].token = t /\ call'[q].at \in {Rejected, Lookup} /\ call'[q].shut = out
      <4> HIDE DEF out
      <4>1. call'[q] = Call(IF t.flaw = "size" THEN Rejected ELSE Lookup, t, t.key \in published, out)
        BY <3>2 DEF out
      <4>2. QED
        BY <4>1 DEF Call
    <3>4. call'[q].at # Accepted
      BY <3>3 DEF Rejected, Lookup, Accepted
    <3>5. QED
      BY <2>1, <3>3, <3>4
  <2>4. CASE q = r /\ Work(r)
    <3>1. call[q] \in CallType /\ call[q].at # Idle
      BY <2>4, PlacesDiffer
         DEF Work, Find, Answer, Store, FetchFails, Decode, IInv, Types
    <3>2. /\ call'[q].token = call[q].token /\ call'[q].shut = call[q].shut
          /\ call'[q].at = Accepted => call[q].at = Decoding
      <4>1. CASE Answer(r)
        <5>1. /\ call'[q] = [call[q] EXCEPT !.got = published,
                               !.at = IF @ = Fetching THEN Fetched ELSE Refetched]
          BY <2>4, <4>1 DEF Answer, IInv, Types
        <5>2. /\ call'[q].token = call[q].token /\ call'[q].shut = call[q].shut
              /\ call'[q].at \in {Fetched, Refetched}
          BY <3>1, <5>1 DEF CallType
        <5>3. QED
          BY <5>2, PlacesDiffer
      <4>2. CASE FetchFails(r)
        <5>1. call'[q] = [call[q] EXCEPT !.at = Rejected, !.failed = TRUE]
          BY <2>4, <4>2 DEF FetchFails, IInv, Types
        <5>2. /\ call'[q].token = call[q].token /\ call'[q].shut = call[q].shut
              /\ call'[q].at = Rejected
          BY <3>1, <5>1 DEF CallType
        <5>3. QED
          BY <5>2, PlacesDiffer
      <4>3. CASE \E step \in Places : Goto(r, step) /\ (step # Accepted \/ call[q].at = Decoding)
        <5>1. PICK step \in Places : Goto(r, step) /\ (step # Accepted \/ call[q].at = Decoding)
          BY <4>3
        <5>2. call'[q] = [call[q] EXCEPT !.at = step]
          BY <2>4, <5>1 DEF Goto, IInv, Types
        <5>3. QED
          BY <3>1, <5>1, <5>2 DEF CallType
      <4>4. Find(r) => \E step \in {Decoding, Fetching, Refetching} : Goto(r, step)
        BY DEF Find, Unknown
      <4>5. Store(r) => \E step \in {Decoding, Refetching, Rejected} : Goto(r, step)
        BY DEF Store, Unknown
      <4>6. Decode(r) => call[r].at = Decoding /\ \E step \in {Accepted, Rejected} : Goto(r, step)
        BY DEF Decode
      <4>7. {Decoding, Fetching, Refetching, Rejected} \subseteq Places \ {Accepted}
            /\ Accepted \in Places
        BY DEF Places, Decoding, Fetching, Refetching, Rejected, Accepted
      <4>8. QED
        BY <2>4, <4>1, <4>2, <4>3, <4>4, <4>5, <4>6, <4>7 DEF Work
    <3>3. call[q].at = Decoding => Held(call[q].token.key)
      BY DEF Held, Key
    <3>4. QED
      BY <1>1, <2>1, <3>1, <3>2, <3>3
  <2>5. QED
    BY <1>4, <2>2, <2>3, <2>4
<1>5. QED
  BY <1>2, <1>3, <1>4 DEF Next, Tick, vars

LEMMA ForgottenKeeps ==
  ASSUME IInv, IInv', Forgotten, KeysTyped, [Next]_vars
  PROVE  Forgotten'
<1>1. ASSUME NEW q \in Requests, NEW k \in Keys,
             call'[q].at # Idle, call'[q].shut, call'[q].token.key = k
      PROVE  k \notin published' /\ ~Held(k)' /\ call'[q].at # Accepted
  <2>1. k \notin published' /\ k \notin published /\ ~Held(k) /\ call'[q].at # Accepted
    BY <1>1, ShutBefore
  <2>2. QED
    BY <2>1, ForgottenIsNotHeld
<1>2. CacheTypes'
  BY ForgottenIsNotHeld
<1>3. QED
  BY <1>1, <1>2 DEF Forgotten, ShutOut

(* What the two properties rest on holds in every state.                    *)
LEMMA Invariance == Spec => [](IInv /\ KeysTyped /\ Forgotten)
<1>1. Init => Forgotten
  <2> SUFFICES ASSUME Init PROVE Forgotten
    OBVIOUS
  <2>1. \A r \in Requests : call[r].at = Idle
    BY DEF Init, Call
  <2>2. CacheTypes
    BY DEF Init, CacheTypes, NoSet
  <2>3. QED
    BY <2>1, <2>2 DEF Forgotten, ShutOut
<1>2. Init => IInv /\ KeysTyped /\ Forgotten
  BY <1>1, InitIInv DEF Init, KeysTyped
<1>3. (IInv /\ KeysTyped /\ Forgotten) /\ [Next]_vars => (IInv /\ KeysTyped /\ Forgotten)'
  BY NextKeeps, ForgottenKeeps
<1>4. QED
  BY <1>2, <1>3, PTL DEF Spec

(* A rotation of the keys locks nobody out (auth.py:75-80): a token in      *)
(* order is refused only when a fetch failed or its key was withdrawn in    *)
(* the call, for any keys, tokens, cache sizes and number of verifications  *)
(* at the same time.                                                        *)
THEOREM RotationIsSafe == Spec => []RotationLocksNobodyOut
<1>1. IInv => RotationLocksNobodyOut
  BY DEF IInv, Sound, RotationLocksNobodyOut, Token
<1>2. QED
  BY <1>1, Invariance, PTL

(* A withdrawn key that the process has forgotten stays out (auth.py:75-80, *)
(* 125-126): a call that begins with it then is never accepted unless the   *)
(* key is published again, for any keys, tokens, cache sizes, lifespan and  *)
(* number of verifications at the same time.                                *)
THEOREM WithdrawalIsFinal == Spec => []WithdrawnKeysStayOut
<1>1. IInv /\ Forgotten => WithdrawnKeysStayOut
  <2> SUFFICES ASSUME IInv, Forgotten, NEW r \in Requests, call[r].at = Accepted
               PROVE  ~call[r].shut
    BY DEF WithdrawnKeysStayOut
  <2>1. call[r].at # Idle /\ call[r].token \in Tokens
    BY PlacesDiffer DEF IInv, Types
  <2>2. QED
    BY <2>1, TokenTyped DEF Forgotten, ShutOut
<1>2. QED
  BY <1>1, Invariance, PTL
=============================================================================
