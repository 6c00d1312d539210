------------------------ MODULE RateLimiter_proofs ------------------------
(* Theorems about RateLimiter, for any keys, limits, clock and capacity. *)
EXTENDS RateLimiter, FiniteSetTheorems, SequenceTheorems, TLAPS

LEMMA WindowTicksPositive == WindowTicks \in Nat /\ WindowTicks > 0
BY RateAssumption DEF WindowTicks

(* Rounding up to a whole second adds less than a second. *)
LEMMA CeilingBounds ==
    ASSUME NEW x \in Nat, x > 0
    PROVE  /\ Ceiling(x) \in Nat /\ Ceiling(x) >= 1
           /\ Ceiling(x) * TicksPerSecond \in x..(x + TicksPerSecond - 1)
<1> DEFINE y == x + TicksPerSecond - 1
           q == y \div TicksPerSecond
<1>1. y \in Nat /\ TicksPerSecond \in Nat /\ TicksPerSecond > 0
  BY RateAssumption
<1>2. y = TicksPerSecond * q + (y % TicksPerSecond) /\ q \in Int
  BY <1>1, SMTT(30)
<1>3. y % TicksPerSecond \in 0..(TicksPerSecond - 1)
  BY <1>1, SMTT(30)
<1>4. q * TicksPerSecond \in x..(x + TicksPerSecond - 1)
  <2> HIDE DEF q
  <2> DEFINE r == y % TicksPerSecond
             m == TicksPerSecond * q
  <2>1. m = q * TicksPerSecond /\ m \in Int
    BY <1>1, <1>2, SMTT(30)
  <2>2. y = m + r /\ r \in 0..(TicksPerSecond - 1)
    BY <1>2, <1>3
  <2> HIDE DEF m, r
  <2>3. m \in x..(x + TicksPerSecond - 1)
    BY <2>1, <2>2, <1>1
  <2> QED BY <2>1, <2>3
<1>5. q >= 1
  <2> HIDE DEF q, y
  <2>1. q * TicksPerSecond >= 1
    BY <1>4, <1>1, <1>2
  <2>2. ASSUME q <= 0 PROVE FALSE
    BY <2>1, <2>2, <1>1, <1>2, SMTT(30)
  <2> QED BY <2>2, <1>2
<1> QED BY <1>2, <1>4, <1>5 DEF Ceiling

LEMMA OneOrTwo ==
    ASSUME NEW l \in 1..2, NEW k \in Nat, k >= 2
    PROVE  l \in Nat /\ l <= k
  OBVIOUS

LEMMA TwoInOrder ==
    ASSUME NEW i \in Nat, NEW j \in Nat, NEW n \in {1, 2}, 1 <= i, i < j, j <= n
    PROVE  i = 1 /\ j = 2 /\ n = 2
  BY SMTT(30)

LEMMA LimitsShape ==
    ASSUME NEW limits \in Limits
    PROVE  /\ limits \in Seq(Keys)
           /\ Len(limits) \in 1..2 /\ DOMAIN limits = 1..Len(limits)
           /\ limits[1] \in Keys /\ limits[Len(limits)] \in Keys
           /\ Charged(limits) = {limits[1], limits[Len(limits)]}
           /\ Len(limits) = 2 => limits[1] # limits[2]
<1>1. CASE limits \in Ips \X Tokens
  <2>1. PICK ip \in Ips, token \in Tokens : limits = <<ip, token>>
    BY <1>1
  <2>2. Len(limits) = 2 /\ DOMAIN limits = 1..2 /\ limits[1] = ip /\ limits[2] = token
    BY <2>1
  <2>3. ip # token
    BY RateAssumption
  <2>4. limits \in Seq(Keys)
    <3>1. ip \in Keys /\ token \in Keys
      BY DEF Keys
    <3>2. <<ip, token>> \in Seq(Keys)
      BY <3>1
    <3> QED BY <3>2, <2>1
  <2>5. Charged(limits) = {limits[1], limits[2]}
    BY <2>2 DEF Charged
  <2> QED BY <2>1, <2>2, <2>3, <2>4, <2>5 DEF Keys
<1>2. CASE \E ip \in Ips : limits = <<ip>>
  <2>1. PICK ip \in Ips : limits = <<ip>>
    BY <1>2
  <2>2. Len(limits) = 1 /\ DOMAIN limits = 1..1 /\ limits[1] = ip
    BY <2>1
  <2>3. limits \in Seq(Keys)
    <3>1. ip \in Keys
      BY DEF Keys
    <3>2. <<ip>> \in Seq(Keys)
      BY <3>1
    <3> QED BY <3>2, <2>1
  <2>4. Charged(limits) = {limits[1]}
    BY <2>2 DEF Charged
  <2> QED BY <2>1, <2>2, <2>3, <2>4 DEF Keys
<1> QED BY <1>1, <1>2 DEF Limits

(* s lists keys of t, each once, in the order of t. *)
Distinct(s) == \A a, b \in DOMAIN s : a < b => s[a] # s[b]
KeysOf(s) == {s[i] : i \in DOMAIN s}
InOrderOf(s, t) ==
    \A a, b \in DOMAIN s : a < b =>
        \E c, d \in DOMAIN t : c < d /\ s[a] = t[c] /\ s[b] = t[d]

LEMMA WithoutFacts ==
    ASSUME NEW s \in Seq(Keys), Distinct(s), NEW k
    PROVE  /\ Without(s, k) \in Seq(Keys)
           /\ Len(Without(s, k)) \in {Len(s) - 1, Len(s)}
           /\ k \notin KeysOf(s) => Without(s, k) = s
           /\ KeysOf(Without(s, k)) = KeysOf(s) \ {k}
           /\ InOrderOf(Without(s, k), s)
<1>0. Len(s) \in Nat /\ DOMAIN s = 1..Len(s)
  OBVIOUS
<1>1. CASE \E i \in DOMAIN s : s[i] = k
  <2> DEFINE i == CHOOSE i \in DOMAIN s : s[i] = k
             W == SubSeq(s, 1, i - 1) \o SubSeq(s, i + 1, Len(s))
  <2>1. i \in 1..Len(s) /\ s[i] = k
    BY <1>1, <1>0
  <2>2. Without(s, k) = W
    BY <1>1 DEF Without
  <2> HIDE DEF i
  <2>3. /\ W \in Seq(Keys) /\ Len(W) = Len(s) - 1 /\ DOMAIN W = 1..(Len(s) - 1)
        /\ \A j \in 1..(Len(s) - 1) : W[j] = IF j < i THEN s[j] ELSE s[j + 1]
    <3> DEFINE u == SubSeq(s, 1, i - 1)
               v == SubSeq(s, i + 1, Len(s))
    <3>1. /\ u \in Seq(Keys) /\ Len(u) = i - 1
          /\ \A j \in 1..(i - 1) : u[j] = s[j]
      <4>1. \A j \in 1..(i - 1) : s[j] \in Keys
        BY <2>1, <1>0
      <4> QED BY <4>1, <2>1, <1>0, SubSeqProperties
    <3>2. /\ v \in Seq(Keys) /\ Len(v) = Len(s) - i
          /\ \A j \in 1..(Len(s) - i) : v[j] = s[i + j]
      <4> DEFINE m == i + 1
                 n == Len(s)
      <4>1. m \in Int /\ n \in Int /\ \A j \in m..n : s[j] \in Keys
        BY <2>1, <1>0
      <4>2. m <= n + 1 /\ m - i = 1
        BY <2>1, <1>0
      <4> HIDE DEF m, n
      <4>3. /\ SubSeq(s, m, n) \in Seq(Keys)
            /\ Len(SubSeq(s, m, n)) = IF m <= n THEN n - m + 1 ELSE 0
            /\ \A j \in 1..(n - m + 1) : SubSeq(s, m, n)[j] = s[m + j - 1]
        BY <4>1, SubSeqProperties
      <4>4. Len(SubSeq(s, m, n)) = n - i
        BY <4>1, <4>2, <4>3, <2>1
      <4>5. ASSUME NEW j \in 1..(n - i) PROVE SubSeq(s, m, n)[j] = s[i + j]
        BY <4>1, <4>2, <4>3, <2>1
      <4> QED BY <4>3, <4>4, <4>5 DEF m, n
    <3>4. W = u \o v
      OBVIOUS
    <3> HIDE DEF u, v, W
    <3>3. /\ u \o v \in Seq(Keys) /\ Len(u \o v) = Len(s) - 1
          /\ \A j \in 1..(Len(s) - 1) :
                (u \o v)[j] = IF j <= i - 1 THEN u[j] ELSE v[j - (i - 1)]
      <4>1. /\ u \o v \in Seq(Keys) /\ Len(u \o v) = Len(u) + Len(v)
            /\ \A j \in 1..(Len(u) + Len(v)) :
                  (u \o v)[j] = IF j <= Len(u) THEN u[j] ELSE v[j - Len(u)]
        BY <3>1, <3>2, ConcatProperties
      <4>2. Len(u) + Len(v) = Len(s) - 1
        BY <3>1, <3>2, <2>1, <1>0
      <4> QED BY <4>1, <4>2, <3>1
    <3>5. ASSUME NEW j \in 1..(Len(s) - 1) PROVE W[j] = IF j < i THEN s[j] ELSE s[j + 1]
      <4>1. CASE j < i
        BY <4>1, <3>1, <3>3, <3>4, <2>1, <1>0
      <4>2. CASE ~(j < i)
        <5>1. j - (i - 1) \in 1..(Len(s) - i)
          BY <4>2, <2>1, <1>0
        <5>2. v[j - (i - 1)] = s[j + 1]
          BY <5>1, <3>2, <2>1, <1>0
        <5> QED BY <4>2, <5>2, <3>3, <3>4, <2>1, <1>0
      <4> QED BY <4>1, <4>2
    <3>6. Len(W) = Len(s) - 1 /\ DOMAIN W = 1..(Len(s) - 1)
      BY <3>3, <3>4, <1>0
    <3> QED BY <3>3, <3>4, <3>5, <3>6
  <2> HIDE DEF W
  <2>4. KeysOf(W) = KeysOf(s) \ {k}
    <3>1. ASSUME NEW x \in KeysOf(W) PROVE x \in KeysOf(s) \ {k}
      <4>1. PICK j \in 1..(Len(s) - 1) : x = W[j]
        BY <2>3 DEF KeysOf
      <4>2. CASE j < i
        <5>1. x = s[j] /\ j \in DOMAIN s
          BY <4>1, <4>2, <2>3, <2>1, <1>0
        <5> QED BY <5>1, <4>2, <2>1, <1>0 DEF KeysOf, Distinct
      <4>3. CASE ~(j < i)
        <5>1. x = s[j + 1] /\ j + 1 \in DOMAIN s /\ i < j + 1
          BY <4>1, <4>3, <2>3, <2>1, <1>0
        <5> QED BY <5>1, <2>1, <1>0 DEF KeysOf, Distinct
      <4> QED BY <4>2, <4>3
    <3>2. ASSUME NEW x \in KeysOf(s), x # k PROVE x \in KeysOf(W)
      <4>1. PICK j \in 1..Len(s) : x = s[j]
        BY <1>0 DEF KeysOf
      <4>2. CASE j < i
        BY <4>1, <4>2, <2>3, <2>1, <1>0 DEF KeysOf
      <4>3. CASE j > i
        <5>1. j - 1 \in DOMAIN W /\ W[j - 1] = s[j]
          BY <4>1, <4>3, <2>3, <2>1, <1>0
        <5> QED BY <5>1, <4>1 DEF KeysOf
      <4> QED BY <4>1, <4>2, <4>3, <3>2, <2>1
    <3> QED BY <3>1, <3>2
  <2>5. InOrderOf(W, s)
    <3> SUFFICES ASSUME NEW a \in DOMAIN W, NEW b \in DOMAIN W, a < b
                 PROVE  \E c, d \in DOMAIN s : c < d /\ W[a] = s[c] /\ W[b] = s[d]
      BY DEF InOrderOf
    <3> DEFINE c == IF a < i THEN a ELSE a + 1
               d == IF b < i THEN b ELSE b + 1
    <3>1. c \in DOMAIN s /\ d \in DOMAIN s /\ c < d
      BY <2>1, <2>3, <1>0
    <3>2. W[a] = s[c] /\ W[b] = s[d]
      BY <2>1, <2>3, <1>0
    <3> QED BY <3>1, <3>2
  <2>6. k \in KeysOf(s)
    BY <1>1 DEF KeysOf
  <2> QED BY <2>2, <2>3, <2>4, <2>5, <2>6
<1>2. CASE ~ \E i \in DOMAIN s : s[i] = k
  <2>1. Without(s, k) = s
    BY <1>2 DEF Without
  <2> QED BY <2>1, <1>2, <1>0 DEF KeysOf, InOrderOf
<1> QED BY <1>1, <1>2

LEMMA InOrderTransitive ==
    ASSUME NEW r, NEW s, NEW t, InOrderOf(r, s), InOrderOf(s, t)
    PROVE  InOrderOf(r, t)
BY DEF InOrderOf

LEMMA InOrderDistinct ==
    ASSUME NEW s, NEW t, InOrderOf(s, t), Distinct(t)
    PROVE  Distinct(s)
BY DEF InOrderOf, Distinct

-----------------------------------------------------------------------------
(* What a request that is admitted does to the windows                     *)

(* The keys of a request move to the end; the others keep their order. *)
LEMMA MovedFacts ==
    ASSUME IInv, NEW limits \in Limits
    PROVE  LET C == Charged(limits)
               A == Without(Without(order, limits[1]), limits[Len(limits)])
           IN  /\ A \in Seq(Keys)
               /\ KeysOf(A) = DOMAIN windows \ C
               /\ InOrderOf(A, order)
               /\ Len(A) >= Len(order) - Len(limits)
<1> DEFINE B == Without(order, limits[1])
           A == Without(B, limits[Len(limits)])
<1>1. order \in Seq(Keys) /\ Distinct(order) /\ KeysOf(order) = DOMAIN windows
  BY DEF IInv, TypeOK, OrderInv, Distinct, KeysOf
<1>2. /\ B \in Seq(Keys) /\ KeysOf(B) = KeysOf(order) \ {limits[1]}
      /\ InOrderOf(B, order) /\ Len(B) \in {Len(order) - 1, Len(order)}
  BY <1>1, WithoutFacts
<1>3. Distinct(B)
  BY <1>1, <1>2, InOrderDistinct
<1> HIDE DEF B
<1>4. /\ A \in Seq(Keys) /\ KeysOf(A) = KeysOf(B) \ {limits[Len(limits)]}
      /\ InOrderOf(A, B) /\ Len(A) \in {Len(B) - 1, Len(B)}
      /\ limits[Len(limits)] \notin KeysOf(B) => A = B
  BY <1>2, <1>3, WithoutFacts
<1> HIDE DEF A
<1>5. InOrderOf(A, order)
  BY <1>2, <1>4, InOrderTransitive
<1>6. KeysOf(A) = DOMAIN windows \ Charged(limits)
  BY <1>1, <1>2, <1>4, LimitsShape
<1>7. Len(A) >= Len(order) - Len(limits)
  <2>1. Len(limits) = 1 => A = B
    BY <1>2, <1>4
  <2>2. Len(order) \in Nat /\ Len(limits) \in 1..2
    BY <1>1, LimitsShape
  <2>3. CASE Len(limits) = 1
    <3>1. Len(A) = Len(B)
      BY <2>1, <2>3
    <3> QED BY <3>1, <2>2, <2>3, <1>2
  <2>4. CASE Len(limits) = 2
    BY <2>2, <2>4, <1>2, <1>4
  <2> QED BY <2>2, <2>3, <2>4
<1> QED BY <1>4, <1>5, <1>6, <1>7 DEF A, B

(* After an admission the windows are the last MaxKeys keys of the moved   *)
(* sequence, charged; the keys of the request are among them, and only a   *)
(* full limiter has evicted one.                                           *)
LEMMA AdmitOrder ==
    ASSUME IInv, NEW limits \in Limits, Admit(limits)
    PROVE  LET C == Charged(limits)
           IN  /\ order' \in Seq(Keys) /\ Len(order') <= MaxKeys
               /\ Distinct(order')
               /\ DOMAIN windows' = KeysOf(order')
               /\ DOMAIN windows' \subseteq DOMAIN windows \union C
               /\ C \subseteq DOMAIN windows'
               /\ \A k \in DOMAIN windows' : windows'[k] = Charge(C)[k]
               /\ \A a, b \in DOMAIN order' : a < b =>
                     \/ order'[a] = limits[1] /\ order'[b] = limits[2] /\ Len(limits) = 2
                     \/ order'[a] \notin C /\ order'[b] \in C
                     \/ /\ order'[a] \notin C /\ order'[b] \notin C
                        /\ \E c, d \in DOMAIN order :
                              c < d /\ order'[a] = order[c] /\ order'[b] = order[d]
               /\ Len(order) = MaxKeys => Len(order') = MaxKeys
               /\ \A x \in DOMAIN windows \ DOMAIN windows' :
                     /\ Len(order') = MaxKeys
                     /\ \A y \in DOMAIN windows' \ C :
                           \E c, d \in DOMAIN order : c < d /\ order[c] = x /\ order[d] = y
<1> DEFINE C == Charged(limits)
           A == Without(Without(order, limits[1]), limits[Len(limits)])
           moved == MovedToEnd(limits)
           excess == IF Len(moved) > MaxKeys THEN Len(moved) - MaxKeys ELSE 0
           kept == SubSeq(moved, excess + 1, Len(moved))
<1>1. /\ A \in Seq(Keys) /\ KeysOf(A) = DOMAIN windows \ C
      /\ InOrderOf(A, order) /\ Len(A) >= Len(order) - Len(limits)
  BY MovedFacts
<1>2. /\ limits \in Seq(Keys) /\ Len(limits) \in 1..2
      /\ C = {limits[1], limits[Len(limits)]}
      /\ Len(limits) = 2 => limits[1] # limits[2]
  BY LimitsShape
<1>3. moved = A \o limits
  BY DEF MovedToEnd
<1>4. order' = kept /\ windows' = [k \in KeysOf(kept) |-> Charge(C)[k]]
  BY DEF Admit, Evict, KeysOf
<1>5. order \in Seq(Keys) /\ Distinct(order) /\ Len(order) <= MaxKeys
      /\ KeysOf(order) = DOMAIN windows
  BY DEF IInv, TypeOK, OrderInv, Distinct, KeysOf
<1> HIDE DEF A, moved, C
<1>6. /\ moved \in Seq(Keys) /\ Len(moved) = Len(A) + Len(limits)
      /\ \A i \in 1..Len(moved) :
            moved[i] = IF i <= Len(A) THEN A[i] ELSE limits[i - Len(A)]
  BY <1>1, <1>2, <1>3, ConcatProperties
<1>7. /\ Len(A) \in Nat /\ Len(order) \in Nat /\ Len(moved) \in Nat /\ MaxKeys \in Nat /\ MaxKeys >= 2
      /\ Len(limits) \in 1..2 /\ Len(moved) = Len(A) + Len(limits)
  BY <1>1, <1>2, <1>5, <1>6, RateAssumption
<1>8. /\ excess \in 0..Len(moved) /\ excess <= Len(A)
      /\ Len(moved) - excess <= MaxKeys
      /\ excess > 0 => Len(moved) - excess = MaxKeys
      /\ Len(moved) - excess < MaxKeys => Len(moved) < MaxKeys
  <2>1. excess = IF Len(moved) > MaxKeys THEN Len(moved) - MaxKeys ELSE 0
    OBVIOUS
  <2> HIDE DEF excess
  <2>2. CASE Len(moved) > MaxKeys
    <3>1. excess = Len(moved) - MaxKeys
      BY <2>1, <2>2
    <3>2. Len(limits) \in Nat /\ Len(limits) <= MaxKeys
      BY <1>7, OneOrTwo
    <3>3. excess \in Nat /\ excess <= Len(moved) /\ excess <= Len(A)
      <4>1. /\ Len(A) \in Nat /\ Len(moved) \in Nat /\ MaxKeys \in Nat
            /\ Len(moved) = Len(A) + Len(limits)
        BY <1>7
      <4>2. excess \in Nat /\ excess <= Len(moved)
        BY <2>2, <3>1, <4>1
      <4>3. excess = Len(A) + (Len(limits) - MaxKeys) /\ Len(limits) - MaxKeys <= 0
        BY <3>1, <3>2, <4>1
      <4> QED BY <3>2, <4>1, <4>2, <4>3
    <3> QED BY <1>7, <3>1, <3>3
  <2>3. CASE ~(Len(moved) > MaxKeys)
    BY <1>7, <2>1, <2>3
  <2> QED BY <2>2, <2>3
<1> HIDE DEF excess
<1>9. /\ kept \in Seq(Keys) /\ Len(kept) = Len(moved) - excess
      /\ DOMAIN kept = 1..(Len(moved) - excess)
      /\ \A i \in 1..(Len(moved) - excess) : kept[i] = moved[excess + i]
  <2> DEFINE m == excess + 1
             n == Len(moved)
  <2>1. m \in Int /\ n \in Int /\ \A j \in m..n : moved[j] \in Keys
    BY <1>6, <1>7, <1>8
  <2>2. m - 1 = excess /\ m <= n + 1
    BY <1>7, <1>8
  <2> HIDE DEF m, n
  <2>3. /\ SubSeq(moved, m, n) \in Seq(Keys)
        /\ Len(SubSeq(moved, m, n)) = IF m <= n THEN n - m + 1 ELSE 0
        /\ \A j \in 1..(n - m + 1) : SubSeq(moved, m, n)[j] = moved[m + j - 1]
    BY <2>1, SubSeqProperties
  <2>4. Len(SubSeq(moved, m, n)) = n - excess
    BY <2>1, <2>2, <2>3, <1>8
  <2>5. ASSUME NEW j \in 1..(n - excess) PROVE SubSeq(moved, m, n)[j] = moved[excess + j]
    BY <2>1, <2>2, <2>3, <1>8
  <2>6. DOMAIN SubSeq(moved, m, n) = 1..(n - excess)
    BY <2>3, <2>4
  <2> QED BY <2>3, <2>4, <2>5, <2>6 DEF m, n
<1> HIDE DEF kept
<1>10. DOMAIN A = 1..Len(A) /\ DOMAIN limits = 1..Len(limits) /\ DOMAIN order = 1..Len(order)
  BY <1>1, <1>2, <1>5
<1>11. ASSUME NEW i \in DOMAIN kept
       PROVE  /\ excess + i \in 1..Len(moved)
              /\ excess + i <= Len(A) =>
                    kept[i] = A[excess + i] /\ kept[i] \notin C /\ kept[i] \in DOMAIN windows
              /\ excess + i > Len(A) =>
                    /\ excess + i - Len(A) \in 1..Len(limits)
                    /\ kept[i] = limits[excess + i - Len(A)] /\ kept[i] \in C
  <2>0. i \in Nat /\ excess \in Nat
    BY <1>7, <1>8, <1>9
  <2>1. excess + i \in 1..Len(moved) /\ kept[i] = moved[excess + i]
    BY <1>7, <1>8, <1>9
  <2>2. CASE excess + i <= Len(A)
    <3>1. kept[i] = A[excess + i] /\ excess + i \in DOMAIN A
      BY <2>1, <2>2, <1>6, <1>7, <1>8, <1>10
    <3>2. A[excess + i] \in KeysOf(A)
      BY <3>1 DEF KeysOf
    <3>3. ~(excess + i > Len(A))
      BY <2>0, <2>2, <1>7
    <3> QED BY <3>1, <3>2, <3>3, <2>1, <1>1
  <2>3. CASE excess + i > Len(A)
    <3>1. excess + i - Len(A) \in 1..Len(limits)
      <4> QED BY <2>0, <2>1, <2>3, <1>7, <1>8
    <3>2. kept[i] = limits[excess + i - Len(A)]
      <4>1. ASSUME NEW q \in 1..Len(moved), q > Len(A) PROVE moved[q] = limits[q - Len(A)]
        <5>1. ~(q <= Len(A))
          BY <4>1, <1>7
        <5> QED BY <5>1, <1>6
      <4> QED BY <4>1, <2>0, <2>1, <2>3, <1>7
    <3>3. limits[excess + i - Len(A)] \in C
      BY <3>1, <1>2
    <3>4. ~(excess + i <= Len(A))
      BY <2>0, <2>3, <1>7
    <3> QED BY <3>1, <3>2, <3>3, <3>4, <2>1
  <2> QED BY <2>0, <2>2, <2>3, <1>7
<1>12. ASSUME NEW a \in DOMAIN kept, NEW b \in DOMAIN kept, a < b
       PROVE  \/ kept[a] = limits[1] /\ kept[b] = limits[2] /\ Len(limits) = 2
              \/ kept[a] \notin C /\ kept[b] \in C
              \/ /\ kept[a] \notin C /\ kept[b] \notin C
                 /\ \E c, d \in DOMAIN order : c < d /\ kept[a] = order[c] /\ kept[b] = order[d]
  <2>1. a \in Nat /\ b \in Nat /\ excess \in Nat
    BY <1>7, <1>8, <1>9
  <2>2. CASE excess + b <= Len(A)
    <3>1. /\ excess + a \in DOMAIN A /\ excess + b \in DOMAIN A /\ excess + a < excess + b
          /\ kept[a] = A[excess + a] /\ kept[b] = A[excess + b]
      BY <2>1, <2>2, <1>7, <1>10, <1>11, <1>12
    <3>2. kept[a] \notin C /\ kept[b] \notin C
      BY <2>1, <2>2, <1>7, <1>11, <1>12
    <3> QED BY <3>1, <3>2, <1>1 DEF InOrderOf
  <2>3. CASE excess + a <= Len(A) /\ excess + b > Len(A)
    BY <2>3, <1>11
  <2>4. CASE excess + a > Len(A)
    <3>1. excess + a - Len(A) \in 1..Len(limits) /\ kept[a] = limits[excess + a - Len(A)]
      BY <2>4, <1>11
    <3>2. excess + b > Len(A)
      BY <2>1, <2>4, <1>7, <1>12
    <3>3. excess + b - Len(A) \in 1..Len(limits) /\ kept[b] = limits[excess + b - Len(A)]
      BY <3>2, <1>11
    <3>4. excess + a - Len(A) = 1 /\ excess + b - Len(A) = 2 /\ Len(limits) = 2
      <4> DEFINE i == excess + a - Len(A)
                 j == excess + b - Len(A)
      <4>1. i \in Nat /\ j \in Nat /\ 1 <= i /\ i < j
        BY <2>1, <3>1, <3>3, <1>7, <1>12
      <4>2. j <= Len(limits) /\ Len(limits) \in {1, 2}
        BY <3>3, <1>7
      <4> HIDE DEF i, j
      <4>3. i = 1 /\ j = 2 /\ Len(limits) = 2
        BY <4>1, <4>2, TwoInOrder
      <4> QED BY <4>3 DEF i, j
    <3> QED BY <3>1, <3>3, <3>4
  <2> QED BY <2>1, <2>2, <2>3, <2>4, <1>7
<1>13. Distinct(kept)
  BY <1>2, <1>5, <1>12 DEF Distinct
<1>14. KeysOf(kept) \subseteq DOMAIN windows \union C
  BY <1>7, <1>8, <1>9, <1>11 DEF KeysOf
<1>15. C \subseteq KeysOf(kept)
  <2>1. ASSUME NEW j \in 1..Len(limits) PROVE limits[j] \in KeysOf(kept)
    <3>1. Len(A) + j - excess \in DOMAIN kept
      BY <1>2, <1>6, <1>7, <1>8, <1>9
    <3>2. kept[Len(A) + j - excess] = limits[j]
      <4> DEFINE i == Len(A) + j - excess
      <4>1. excess + i - Len(A) = j /\ excess + i > Len(A)
        BY <1>7, <1>8
      <4>2. i \in DOMAIN kept
        BY <3>1
      <4> HIDE DEF i
      <4>3. kept[i] = limits[excess + i - Len(A)]
        BY <4>1, <4>2, <1>11
      <4> QED BY <4>1, <4>3 DEF i
    <3> QED BY <3>1, <3>2 DEF KeysOf
  <2> QED BY <2>1, <1>2
<1>16. Len(order) = MaxKeys => Len(kept) = MaxKeys
  BY <1>1, <1>2, <1>6, <1>7, <1>8, <1>9
<1>17. ASSUME NEW x \in DOMAIN windows, x \notin KeysOf(kept)
       PROVE  /\ Len(kept) = MaxKeys
              /\ \A y \in KeysOf(kept) \ C :
                    \E c, d \in DOMAIN order : c < d /\ order[c] = x /\ order[d] = y
  <2>1. x \in KeysOf(A)
    BY <1>1, <1>15, <1>17
  <2>2. PICK p \in DOMAIN A : A[p] = x
    BY <2>1 DEF KeysOf
  <2>3. p <= excess
    <3>1. ASSUME p > excess PROVE FALSE
      <4>0. p \in 1..Len(A) /\ excess \in Nat
        BY <1>7, <1>8, <1>10
      <4>1. p - excess \in DOMAIN kept /\ p \in 1..Len(moved)
        BY <3>1, <4>0, <1>7, <1>8, <1>9
      <4>2. kept[p - excess] = moved[excess + (p - excess)] /\ excess + (p - excess) = p
        BY <4>0, <4>1, <1>9
      <4>3. kept[p - excess] = x
        BY <4>0, <4>1, <4>2, <2>2, <1>6
      <4> QED BY <4>1, <4>3, <1>17 DEF KeysOf
    <3> QED BY <3>1, <1>7, <1>8, <1>10
  <2>4. Len(kept) = MaxKeys
    BY <2>3, <1>7, <1>8, <1>9, <1>10
  <2>5. ASSUME NEW y \in KeysOf(kept), y \notin C
        PROVE  \E c, d \in DOMAIN order : c < d /\ order[c] = x /\ order[d] = y
    <3>1. PICK i \in DOMAIN kept : kept[i] = y
      BY DEF KeysOf
    <3>2. excess + i \in DOMAIN A /\ A[excess + i] = y /\ p < excess + i
      BY <3>1, <2>3, <2>5, <1>7, <1>8, <1>9, <1>10, <1>11
    <3> QED BY <3>2, <2>2, <1>1 DEF InOrderOf
  <2> QED BY <2>4, <2>5
<1>18. /\ order' = kept /\ DOMAIN windows' = KeysOf(kept)
       /\ \A k \in DOMAIN windows' : windows'[k] = Charge(C)[k]
  BY <1>4
<1>19. Len(kept) <= MaxKeys
  BY <1>8, <1>9
<1> HIDE DEF C
<1> QED BY <1>9, <1>12, <1>13, <1>14, <1>15, <1>16, <1>17, <1>18, <1>19 DEF C

LEMMA LogGrows ==
    ASSUME IInv, NEW limits \in Limits, Admitted(limits)
    PROVE  /\ log' \in Seq([key : Keys, at : 0..MaxTime])
           /\ Len(log) \in Nat /\ Len(limits) \in 1..2 /\ Len(log') = Len(log) + Len(limits)
           /\ DOMAIN log = 1..Len(log) /\ DOMAIN log' = 1..(Len(log) + Len(limits))
           /\ \A i \in 1..Len(log) : log'[i] = log[i]
           /\ \A j \in 1..Len(limits) : log'[Len(log) + j] = [key |-> limits[j], at |-> now]
<1> DEFINE Entry == [key : Keys, at : 0..MaxTime]
           new == [i \in DOMAIN limits |-> [key |-> limits[i], at |-> now]]
<1>1. log \in Seq(Entry) /\ now \in 0..MaxTime
  BY DEF IInv, TypeOK
<1>2. /\ limits \in Seq(Keys) /\ Len(limits) \in 1..2 /\ DOMAIN limits = 1..Len(limits)
  BY LimitsShape
<1>3. \A i \in 1..Len(limits) : new[i] = [key |-> limits[i], at |-> now] /\ new[i] \in Entry
  BY <1>1, <1>2
<1>4. new \in Seq(Entry) /\ Len(new) = Len(limits)
  <2>1. new \in [1..Len(limits) -> Entry]
    BY <1>2, <1>3
  <2> HIDE DEF new, Entry
  <2> QED BY <2>1, <1>2
<1>5. log' = log \o new
  BY DEF Admitted
<1> HIDE DEF new, Entry
<1>6. /\ log \o new \in Seq(Entry) /\ Len(log \o new) = Len(log) + Len(new)
      /\ \A i \in 1..(Len(log) + Len(new)) :
            (log \o new)[i] = IF i <= Len(log) THEN log[i] ELSE new[i - Len(log)]
  BY <1>1, <1>4, ConcatProperties
<1>7. Len(log) \in Nat /\ DOMAIN log = 1..Len(log)
  BY <1>1
<1>8. DOMAIN log' = 1..(Len(log) + Len(limits))
  BY <1>4, <1>5, <1>6
<1>9. \A i \in 1..Len(log) : log'[i] = log[i]
  BY <1>2, <1>4, <1>5, <1>6, <1>7
<1>10. ASSUME NEW j \in 1..Len(limits)
       PROVE  log'[Len(log) + j] = [key |-> limits[j], at |-> now]
  <2>1. Len(log) + j \in 1..(Len(log) + Len(new)) /\ ~(Len(log) + j <= Len(log))
        /\ Len(log) + j - Len(log) = j
    BY <1>2, <1>4, <1>7
  <2>2. (log \o new)[Len(log) + j] = new[Len(log) + j - Len(log)]
    BY <2>1, <1>6, <1>7
  <2> QED BY <2>1, <2>2, <1>3, <1>5
<1> QED BY <1>2, <1>4, <1>5, <1>6, <1>7, <1>8, <1>9, <1>10 DEF Entry

(* The remembered charges of a key: none for an evicted one, one more for  *)
(* a key of the request, the same otherwise.                               *)
LEMMA RememberedGrows ==
    ASSUME IInv, NEW limits \in Limits, Admitted(limits), NEW k \in Keys
    PROVE  /\ k \in DOMAIN windows \ DOMAIN windows' =>
                 forgotten'[k] = Len(log') /\ Remembered(k)' = {}
           /\ k \notin DOMAIN windows \ DOMAIN windows' => forgotten'[k] = forgotten[k]
           /\ \A i \in Remembered(k) : log'[i] = log[i]
           /\ k \notin DOMAIN windows \ DOMAIN windows' /\ k \notin Charged(limits) =>
                 Remembered(k)' = Remembered(k)
           /\ k \in Charged(limits) =>
                 \E n : /\ n \notin Remembered(k) /\ Remembered(k)' = Remembered(k) \union {n}
                       /\ log'[n].at = now
<1> DEFINE C == Charged(limits)
<1>1. C \subseteq DOMAIN windows'
  BY AdmitOrder DEF Admitted
<1>2. /\ Len(log) \in Nat /\ Len(limits) \in 1..2 /\ Len(log') = Len(log) + Len(limits)
      /\ DOMAIN log = 1..Len(log) /\ DOMAIN log' = 1..(Len(log) + Len(limits))
      /\ \A i \in 1..Len(log) : log'[i] = log[i]
      /\ \A j \in 1..Len(limits) : log'[Len(log) + j] = [key |-> limits[j], at |-> now]
  BY LogGrows
<1>3. /\ C = {limits[1], limits[Len(limits)]}
      /\ Len(limits) = 2 => limits[1] # limits[2]
  BY LimitsShape
<1>3a. \A i \in DOMAIN log' : i > Len(log) =>
          \E j \in 1..Len(limits) :
              i = Len(log) + j /\ log'[i].key = limits[j] /\ log'[i].at = now
  <2> SUFFICES ASSUME NEW i \in DOMAIN log', i > Len(log)
               PROVE  \E j \in 1..Len(limits) :
                          i = Len(log) + j /\ log'[i].key = limits[j] /\ log'[i].at = now
    OBVIOUS
  <2>1. PICK j \in 1..Len(limits) : i = Len(log) + j
    <3>1. i - Len(log) \in 1..Len(limits) /\ i = Len(log) + (i - Len(log))
      BY <1>2
    <3> QED BY <3>1
  <2>2. log'[i] = [key |-> limits[j], at |-> now]
    BY <2>1, <1>2
  <2> QED BY <2>1, <2>2
<1>4. forgotten \in [Keys -> Nat] /\ forgotten[k] <= Len(log)
  BY DEF IInv, TypeOK
<1>5. forgotten'[k] = IF k \in (DOMAIN windows \union C) \ DOMAIN windows'
                      THEN Len(log') ELSE forgotten[k]
  BY DEF Admitted
<1> HIDE DEF C
<1>6. \A i \in Remembered(k) : i \in 1..Len(log) /\ log'[i] = log[i]
  BY <1>2 DEF Remembered
<1>7. ASSUME k \in DOMAIN windows \ DOMAIN windows'
      PROVE  forgotten'[k] = Len(log') /\ Remembered(k)' = {}
  <2>1. forgotten'[k] = Len(log')
    BY <1>5, <1>7
  <2>2. \A i \in DOMAIN log' : ~(i > Len(log'))
    BY <1>2
  <2> QED BY <2>1, <2>2 DEF Remembered
<1>8. ASSUME k \notin DOMAIN windows \ DOMAIN windows' PROVE forgotten'[k] = forgotten[k]
  BY <1>1, <1>5, <1>8
<1>9. ASSUME k \notin DOMAIN windows \ DOMAIN windows', k \notin C
      PROVE  Remembered(k)' = Remembered(k)
  <2>1. ASSUME NEW i \in DOMAIN log', log'[i].key = k PROVE i \in 1..Len(log)
    <3>1. ASSUME i > Len(log) PROVE FALSE
      <4>1. PICK j \in 1..Len(limits) : log'[i].key = limits[j]
        BY <3>1, <1>3a
      <4>2. limits[j] \in C
        BY <1>2, <1>3
      <4> QED BY <4>1, <4>2, <2>1, <1>9
    <3> QED BY <3>1, <1>2
  <2>2. Remembered(k)' \subseteq Remembered(k)
    BY <2>1, <1>2, <1>8, <1>9 DEF Remembered
  <2>3. Remembered(k) \subseteq Remembered(k)'
    BY <1>2, <1>8, <1>9 DEF Remembered
  <2> QED BY <2>2, <2>3
<1>10. ASSUME k \in C
       PROVE  \E n : /\ n \notin Remembered(k) /\ Remembered(k)' = Remembered(k) \union {n}
                    /\ log'[n].at = now
  <2>1. PICK j \in 1..Len(limits) : limits[j] = k
    BY <1>2, <1>3, <1>10
  <2> DEFINE n == Len(log) + j
  <2>2. n \in DOMAIN log' /\ n > Len(log) /\ log'[n].key = k /\ log'[n].at = now
    <3>1. n \in DOMAIN log' /\ n > Len(log)
      BY <1>2
    <3>2. log'[n] = [key |-> limits[j], at |-> now]
      BY <1>2
    <3> QED BY <3>1, <3>2, <2>1
  <2>3. \A i \in 1..Len(limits) : limits[i] = k => i = j
    BY <2>1, <1>2, <1>3
  <2> HIDE DEF n
  <2>4. ASSUME NEW i \in DOMAIN log', log'[i].key = k, i # n PROVE i \in 1..Len(log)
    <3>1. ASSUME i > Len(log) PROVE FALSE
      <4>1. PICK q \in 1..Len(limits) : i = Len(log) + q /\ log'[i].key = limits[q]
        BY <3>1, <1>3a
      <4>2. q = j
        BY <4>1, <2>3, <2>4
      <4> QED BY <4>1, <4>2, <2>4 DEF n
    <3> QED BY <3>1, <1>2
  <2>5. n \notin Remembered(k)
    BY <2>2, <1>2, <1>6
  <2>6. forgotten'[k] = forgotten[k]
    BY <1>1, <1>8, <1>10
  <2>7. Remembered(k)' \subseteq Remembered(k) \union {n}
    BY <2>4, <2>6, <1>2 DEF Remembered
  <2>8. Remembered(k) \subseteq Remembered(k)'
    BY <2>6, <1>2 DEF Remembered
  <2>9. n \in Remembered(k)'
    BY <2>2, <2>6, <1>2, <1>4 DEF Remembered
  <2> QED BY <2>2, <2>5, <2>7, <2>8, <2>9
<1> QED BY <1>6, <1>7, <1>8, <1>9, <1>10 DEF C

LEMMA LogTimes ==
    ASSUME IInv, NEW i \in DOMAIN log
    PROVE  log[i].at \in Nat /\ log[i].at <= now
<1>1. log \in Seq([key : Keys, at : 0..MaxTime])
  BY DEF IInv, TypeOK
<1>2. i \in 1..Len(log)
  BY <1>1, LenProperties
<1>3. log[i] \in [key : Keys, at : 0..MaxTime]
  BY <1>1, <1>2, ElementOfSeq
<1> QED BY <1>3 DEF IInv

LEMMA RememberedFinite ==
    ASSUME IInv, NEW k \in Keys
    PROVE  IsFiniteSet(Remembered(k))
<1>1. log \in Seq([key : Keys, at : 0..MaxTime])
  BY DEF IInv, TypeOK
<1>2. Len(log) \in Nat /\ Remembered(k) \subseteq 1..Len(log)
  BY <1>1 DEF Remembered
<1>3. IsFiniteSet(1..Len(log))
  BY <1>2, FS_Interval
<1> QED BY <1>2, <1>3, FS_Subset

LEMMA SpanFinite ==
    ASSUME IInv, NEW k \in Keys, NEW a, NEW b
    PROVE  IsFiniteSet(Span(k, a, b)) /\ Cardinality(Span(k, a, b)) \in Nat
<1>1. Span(k, a, b) \subseteq Remembered(k)
  BY DEF Span
<1>2. IsFiniteSet(Span(k, a, b))
  BY <1>1, RememberedFinite, FS_Subset
<1> QED BY <1>2, FS_CardinalityType

(* How the charges between two ticks change with an admission. *)
LEMMA SpanGrows ==
    ASSUME IInv, NEW limits \in Limits, Admitted(limits), NEW k \in Keys,
           NEW a \in Int, NEW b \in Int
    PROVE  /\ k \notin DOMAIN windows \ DOMAIN windows'
              /\ (k \notin Charged(limits) \/ now \notin a..b) => Span(k, a, b)' = Span(k, a, b)
           /\ k \in Charged(limits) /\ now \in a..b =>
                 Cardinality(Span(k, a, b)') = Cardinality(Span(k, a, b)) + 1
<1>1. \A i \in Remembered(k) : log'[i] = log[i]
  BY RememberedGrows
<1>2. CASE k \notin Charged(limits)
  <2>1. k \notin DOMAIN windows \ DOMAIN windows' => Remembered(k)' = Remembered(k)
    BY <1>2, RememberedGrows
  <2> QED BY <2>1, <1>1, <1>2 DEF Span
<1>3. CASE k \in Charged(limits)
  <2>1. PICK n : /\ n \notin Remembered(k) /\ Remembered(k)' = Remembered(k) \union {n}
                 /\ log'[n].at = now
    BY <1>3, RememberedGrows
  <2>2. now \notin a..b => Span(k, a, b)' = Span(k, a, b)
    BY <2>1, <1>1 DEF Span
  <2>3. ASSUME now \in a..b PROVE Cardinality(Span(k, a, b)') = Cardinality(Span(k, a, b)) + 1
    <3>1. Span(k, a, b)' = Span(k, a, b) \union {n} /\ n \notin Span(k, a, b)
      BY <2>1, <2>3, <1>1 DEF Span
    <3> QED BY <3>1, SpanFinite, FS_AddElement
  <2> QED BY <2>2, <2>3, <1>3
<1> QED BY <1>2, <1>3

-----------------------------------------------------------------------------
(* The inductive invariant                                                 *)

LEMMA LimitPositive == \A k \in Keys : Limit(k) \in Nat /\ Limit(k) >= 1
BY RateAssumption DEF Limit

(* What an admission does to the window of a key. *)
LEMMA WindowAfter ==
    ASSUME IInv, NEW limits \in Limits, Admitted(limits), NEW k \in DOMAIN windows'
    PROVE  /\ k \in Keys
           /\ k \notin Charged(limits) => k \in DOMAIN windows /\ windows'[k] = windows[k]
           /\ k \in Charged(limits) /\ Live(k) =>
                 /\ windows'[k].started = windows[k].started
                 /\ windows'[k].requests = windows[k].requests + 1
                 /\ windows[k].requests < Limit(k)
                 /\ windows'[k] \in Window
           /\ k \in Charged(limits) /\ ~Live(k) =>
                 windows'[k].started = now /\ windows'[k].requests = 1 /\ windows'[k] \in Window
<1> DEFINE C == Charged(limits)
<1>1. /\ windows'[k] = Charge(C)[k]
      /\ DOMAIN windows' \subseteq DOMAIN windows \union C
  BY AdmitOrder DEF Admitted
<1>2. C \subseteq Keys
  BY LimitsShape
<1>3. /\ DOMAIN windows \subseteq Keys /\ now \in 0..MaxTime
      /\ \A q \in DOMAIN windows : windows[q] \in Window
  BY DEF IInv, TypeOK
<1>4. k \in Keys /\ k \in DOMAIN windows \union C
  BY <1>1, <1>2, <1>3
<1>5. windows'[k] = IF k \in C THEN [Current(k) EXCEPT !.requests = @ + 1] ELSE windows[k]
  BY <1>1, <1>4 DEF Charge
<1>6. k \in C => ~Refusing(k)
  BY DEF Admitted, Admit
<1> HIDE DEF C
<1>7. ASSUME k \in C, Live(k)
      PROVE  /\ windows'[k].started = windows[k].started
             /\ windows'[k].requests = windows[k].requests + 1
             /\ windows[k].requests < Limit(k)
             /\ windows'[k] \in Window
  <2>1. windows[k] \in Window /\ Current(k) = windows[k]
    BY <1>3, <1>7 DEF Live, Current
  <2>2. windows'[k] = [windows[k] EXCEPT !.requests = @ + 1]
    BY <1>5, <1>7, <2>1
  <2>3. windows[k].requests < Limit(k)
    BY <1>4, <1>6, <1>7, <2>1, LimitPositive DEF Refusing, Window
  <2> QED BY <2>1, <2>2, <2>3 DEF Window
<1>8. ASSUME k \in C, ~Live(k)
      PROVE  windows'[k].started = now /\ windows'[k].requests = 1 /\ windows'[k] \in Window
  <2>1. windows'[k] = [[started |-> now, requests |-> 0] EXCEPT !.requests = @ + 1]
    BY <1>5, <1>8 DEF Current
  <2>2. windows'[k] = [started |-> now, requests |-> 1]
    BY <2>1
  <2> QED BY <2>2, <1>3 DEF Window
<1> QED BY <1>4, <1>5, <1>7, <1>8 DEF C

LEMMA AdmittedTypes ==
    ASSUME IInv, NEW limits \in Limits, Admitted(limits)
    PROVE  TypeOK'
<1>1. TypeOK
  BY DEF IInv
<1>2. now' = now /\ refusal' = refusal
  BY DEF Admitted, Admit
<1>3. \A k \in DOMAIN windows' : k \in Keys /\ windows'[k] \in Window
  <2> TAKE k \in DOMAIN windows'
  <2> QED BY <1>1, WindowAfter DEF TypeOK
<1>4. order' \in Seq(Keys)
  BY AdmitOrder DEF Admitted
<1>5. log' \in Seq([key : Keys, at : 0..MaxTime])
  BY LogGrows
<1>5a. Len(log') \in Nat
  BY LogGrows
<1>6. forgotten' \in [Keys -> Nat]
  BY <1>1, <1>5a DEF TypeOK, Admitted
<1> QED BY <1>1, <1>2, <1>3, <1>4, <1>5, <1>6 DEF TypeOK

LEMMA AdmittedCounts ==
    ASSUME IInv, NEW limits \in Limits, Admitted(limits)
    PROVE  CountsExact'
<1> SUFFICES ASSUME NEW k \in DOMAIN windows', NEW s, s = windows'[k].started, NEW m, m = now
             PROVE  /\ windows'[k].requests = Cardinality(Span(k, s, m)')
                    /\ windows'[k].requests \in 1..Limit(k)
  <2>1. now' = now
    BY DEF Admitted, Admit
  <2> QED BY <2>1 DEF CountsExact, Span, Remembered
<1>1. k \in Keys
  BY WindowAfter
<1>2. TypeOK /\ CountsExact /\ WindowInv /\ m \in Nat
  BY DEF IInv, TypeOK
<1>3. CASE k \notin Charged(limits)
  <2>1. k \in DOMAIN windows /\ windows'[k] = windows[k]
    BY <1>3, WindowAfter
  <2>2. s \in Int /\ s = windows[k].started
    BY <2>1, <1>2 DEF TypeOK, Window
  <2>3. Span(k, s, m)' = Span(k, s, m)
    BY <1>1, <1>2, <1>3, <2>1, <2>2, SpanGrows
  <2> QED BY <2>1, <2>2, <2>3, <1>2 DEF CountsExact
<1>4. CASE k \in Charged(limits) /\ Live(k)
  <2>1. /\ s = windows[k].started
        /\ windows'[k].requests = windows[k].requests + 1
        /\ windows[k].requests < Limit(k)
    BY <1>4, WindowAfter
  <2>2. k \in DOMAIN windows /\ s \in Int /\ s <= m
    BY <1>1, <1>2, <1>4, <2>1 DEF Live, TypeOK, Window, WindowInv
  <2>3. m \in s..m
    BY <1>2, <2>2
  <2>4. Cardinality(Span(k, s, m)') = Cardinality(Span(k, s, m)) + 1
    BY <1>1, <1>2, <1>4, <2>2, <2>3, SpanGrows
  <2>5. /\ windows[k].requests = Cardinality(Span(k, s, m))
        /\ windows[k].requests \in 1..Limit(k)
    BY <2>1, <2>2, <1>2 DEF CountsExact
  <2> QED BY <2>1, <2>4, <2>5, <1>1, LimitPositive
<1>5. CASE k \in Charged(limits) /\ ~Live(k)
  <2>1. s = m /\ windows'[k].requests = 1
    BY <1>5, WindowAfter
  <2>2. Span(k, m, m) = {}
    <3>1. CASE k \notin DOMAIN windows
      BY <3>1, <1>1, <1>2 DEF WindowInv, Span
    <3>2. CASE k \in DOMAIN windows
      <4>1. windows[k].started \in Nat /\ windows[k].started + WindowTicks <= m
        <5>1. windows[k].started \in Nat
          BY <3>2, <1>2 DEF TypeOK, Window
        <5>2. ~(m - windows[k].started < WindowTicks)
          BY <3>2, <1>5 DEF Live
        <5> QED BY <5>1, <5>2, <1>2, WindowTicksPositive
      <4>2. \A i \in Remembered(k) : log[i].at < windows[k].started + WindowTicks
        BY <3>2, <1>1, <1>2 DEF WindowInv
      <4>3. \A i \in Remembered(k) : log[i].at \in Nat
        BY LogTimes DEF Remembered
      <4>4. \A i \in Remembered(k) : log[i].at \notin m..m
        BY <4>1, <4>2, <4>3, <1>2, WindowTicksPositive
      <4> QED BY <4>4 DEF Span
    <3> QED BY <3>1, <3>2
  <2>3. Cardinality(Span(k, m, m)') = Cardinality(Span(k, m, m)) + 1
    BY <1>1, <1>2, <1>5, SpanGrows
  <2> QED BY <2>1, <2>2, <2>3, <1>1, FS_EmptySet, LimitPositive
<1> QED BY <1>3, <1>4, <1>5

LEMMA AdmittedWindows ==
    ASSUME IInv, NEW limits \in Limits, Admitted(limits)
    PROVE  WindowInv'
<1> SUFFICES ASSUME NEW k \in Keys, NEW m, m = now
             PROVE  /\ k \notin DOMAIN windows' => Remembered(k)' = {}
                    /\ \A s : k \in DOMAIN windows' /\ s = windows'[k].started =>
                          /\ s <= m
                          /\ \E i \in Remembered(k)' : log'[i].at = s
                          /\ \A i \in Remembered(k)' : log'[i].at < s + WindowTicks
                          /\ \A t \in 0..MaxTime : t > s - WindowTicks =>
                                Cardinality(Span(k, t, s - 1)') < Limit(k)
  <2>1. now' = now
    BY DEF Admitted, Admit
  <2> QED BY <2>1 DEF WindowInv, Span, Remembered
<1>1. TypeOK /\ WindowInv /\ CountsExact /\ m \in Nat /\ MaxTime \in Nat
  BY RateAssumption DEF IInv, TypeOK
<1>2. \A i \in Remembered(k) : log'[i] = log[i] /\ log[i].at \in Nat /\ log[i].at <= m
  <2>1. \A i \in Remembered(k) : log'[i] = log[i]
    BY RememberedGrows
  <2>2. \A i \in DOMAIN log : log[i].at \in Nat /\ log[i].at <= m
    BY LogTimes
  <2> QED BY <2>1, <2>2 DEF Remembered
<1>3. ASSUME k \notin DOMAIN windows' PROVE Remembered(k)' = {}
  <2>1. k \notin Charged(limits)
    BY <1>3, AdmitOrder DEF Admitted
  <2>2. CASE k \in DOMAIN windows
    BY <1>3, <2>2, RememberedGrows
  <2>3. CASE k \notin DOMAIN windows
    <3>1. Remembered(k)' = Remembered(k)
      BY <2>1, <2>3, RememberedGrows
    <3> QED BY <3>1, <2>3, <1>1, <1>3 DEF WindowInv
  <2> QED BY <2>2, <2>3
<1>4. ASSUME k \in DOMAIN windows', NEW s, s = windows'[k].started
      PROVE  /\ s <= m
             /\ \E i \in Remembered(k)' : log'[i].at = s
             /\ \A i \in Remembered(k)' : log'[i].at < s + WindowTicks
             /\ \A t \in 0..MaxTime : t > s - WindowTicks =>
                   Cardinality(Span(k, t, s - 1)') < Limit(k)
  <2>1. CASE k \notin Charged(limits)
    <3>1. k \in DOMAIN windows /\ s = windows[k].started
      BY <1>4, <2>1, WindowAfter
    <3>2. Remembered(k)' = Remembered(k)
      BY <1>4, <2>1, RememberedGrows
    <3>3. \A t \in 0..MaxTime : Span(k, t, s - 1)' = Span(k, t, s - 1)
      BY <1>2, <3>2 DEF Span
    <3>4. /\ s <= m
          /\ \E i \in Remembered(k) : log[i].at = s
          /\ \A i \in Remembered(k) : log[i].at < s + WindowTicks
          /\ \A t \in 0..MaxTime : t > s - WindowTicks =>
                Cardinality(Span(k, t, s - 1)) < Limit(k)
      BY <3>1, <1>1 DEF WindowInv
    <3> QED BY <3>2, <3>3, <3>4, <1>2
  <2>2. CASE k \in Charged(limits) /\ Live(k)
    <3>1. PICK n : /\ n \notin Remembered(k) /\ Remembered(k)' = Remembered(k) \union {n}
                   /\ log'[n].at = m
      BY <2>2, RememberedGrows
    <3>2. k \in DOMAIN windows /\ s = windows[k].started
      BY <1>4, <2>2, WindowAfter DEF Live
    <3>3. s \in Nat /\ m < s + WindowTicks
      <4>1. s \in Nat /\ m - s < WindowTicks
        BY <3>2, <1>1, <2>2 DEF Live, TypeOK, Window
      <4> QED BY <4>1, <1>1, WindowTicksPositive
    <3>4. /\ s <= m
          /\ \E i \in Remembered(k) : log[i].at = s
          /\ \A i \in Remembered(k) : log[i].at < s + WindowTicks
          /\ \A t \in 0..MaxTime : t > s - WindowTicks =>
                Cardinality(Span(k, t, s - 1)) < Limit(k)
      BY <3>2, <1>1 DEF WindowInv
    <3>5. \A t \in 0..MaxTime : Span(k, t, s - 1)' = Span(k, t, s - 1)
      <4> TAKE t \in 0..MaxTime
      <4>1. m \notin t..(s - 1)
        BY <3>3, <3>4, <1>1
      <4> QED BY <4>1, <3>1, <1>2 DEF Span
    <3> QED BY <3>1, <3>3, <3>4, <3>5, <1>2
  <2>3. CASE k \in Charged(limits) /\ ~Live(k)
    <3>1. PICK n : /\ n \notin Remembered(k) /\ Remembered(k)' = Remembered(k) \union {n}
                   /\ log'[n].at = m
      BY <2>3, RememberedGrows
    <3>2. s = m
      BY <1>4, <2>3, WindowAfter
    <3>3. \A i \in Remembered(k)' : log'[i].at < m + WindowTicks
      BY <3>1, <1>1, <1>2, WindowTicksPositive
    <3>4. ASSUME NEW t \in 0..MaxTime, t > m - WindowTicks
          PROVE  Cardinality(Span(k, t, m - 1)') < Limit(k)
      <4>1. Span(k, t, m - 1)' = Span(k, t, m - 1)
        <5>1. m \notin t..(m - 1)
          BY <1>1
        <5> QED BY <5>1, <3>1, <1>2 DEF Span
      <4>2. CASE k \notin DOMAIN windows
        <5>1. Span(k, t, m - 1) = {}
          BY <4>2, <1>1 DEF WindowInv, Span
        <5> QED BY <4>1, <5>1, FS_EmptySet, LimitPositive
      <4>3. CASE k \in DOMAIN windows
        <5>1. PICK p \in Nat : p = windows[k].started
          BY <4>3, <1>1 DEF TypeOK, Window
        <5>2. p <= m /\ p + WindowTicks <= m
          <6>1. ~(m - p < WindowTicks)
            BY <4>3, <5>1, <2>3 DEF Live
          <6> QED BY <6>1, <1>1, WindowTicksPositive
        <5>3. PICK i0 \in Remembered(k) : log[i0].at = p
          BY <4>3, <5>1, <1>1 DEF WindowInv
        <5>4. Cardinality(Span(k, p, m)) <= Limit(k)
          BY <4>3, <5>1, <1>1, LimitPositive DEF CountsExact
        <5>5. i0 \in Span(k, p, m)
          BY <5>2, <5>3, <1>1 DEF Span
        <5>6. Span(k, t, m - 1) \subseteq Span(k, p, m) \ {i0}
          <6>1. ASSUME NEW i \in Remembered(k), log[i].at \in t..(m - 1)
                PROVE  log[i].at \in p..m /\ i # i0
            BY <6>1, <5>2, <5>3, <3>4, <1>1, <1>2, WindowTicksPositive
          <6> QED BY <6>1 DEF Span
        <5>7. IsFiniteSet(Span(k, p, m)) /\ Cardinality(Span(k, p, m)) \in Nat
          BY SpanFinite
        <5>8. /\ IsFiniteSet(Span(k, p, m) \ {i0})
              /\ Cardinality(Span(k, p, m) \ {i0}) = Cardinality(Span(k, p, m)) - 1
          BY <5>5, <5>7, FS_RemoveElement
        <5>9. Cardinality(Span(k, t, m - 1)) <= Cardinality(Span(k, p, m) \ {i0})
          BY <5>6, <5>8, FS_Subset
        <5>10. Cardinality(Span(k, t, m - 1)) \in Nat
          BY SpanFinite
        <5> QED BY <4>1, <5>4, <5>7, <5>8, <5>9, <5>10, LimitPositive
      <4> QED BY <4>2, <4>3
    <3> QED BY <3>1, <3>2, <3>3, <3>4, <1>1
  <2> QED BY <2>1, <2>2, <2>3
<1> QED BY <1>3, <1>4

(* Two sets whose sizes are bounded bound what they cover. *)
LEMMA CoverBound ==
    ASSUME NEW X, NEW Y, NEW Z, IsFiniteSet(X), IsFiniteSet(Y), Z \subseteq X \union Y
    PROVE  /\ Cardinality(X) \in Nat /\ Cardinality(Y) \in Nat /\ Cardinality(Z) \in Nat
           /\ Cardinality(Z) <= Cardinality(X) + Cardinality(Y)
<1>1. IsFiniteSet(X \union Y) /\
      Cardinality(X \union Y) = Cardinality(X) + Cardinality(Y) - Cardinality(X \intersect Y)
  BY FS_Union
<1>2. IsFiniteSet(X \intersect Y)
  BY FS_Intersection
<1>3. IsFiniteSet(Z) /\ Cardinality(Z) <= Cardinality(X \union Y)
  BY <1>1, FS_Subset
<1>4. /\ Cardinality(X) \in Nat /\ Cardinality(Y) \in Nat
      /\ Cardinality(Z) \in Nat /\ Cardinality(X \intersect Y) \in Nat
  BY <1>2, <1>3, FS_CardinalityType
<1> QED BY <1>1, <1>3, <1>4

LEMMA AdmittedSpan ==
    ASSUME IInv, NEW limits \in Limits, Admitted(limits),
           NEW k \in Keys, NEW t \in 0..MaxTime, NEW e, e = t + WindowTicks - 1
    PROVE  Cardinality(Span(k, t, e)') < 2 * Limit(k)
<1>1. PICK m \in Nat : m = now
  BY DEF IInv, TypeOK
<1>2. t \in Nat /\ e \in Int /\ WindowTicks \in Nat
  BY WindowTicksPositive, RateAssumption
<1>3. Cardinality(Span(k, t, e)) < 2 * Limit(k)
  BY DEF IInv, SpanBounded
<1>4. Limit(k) \in Nat /\ Limit(k) >= 1
  BY LimitPositive
<1>5. CASE k \in DOMAIN windows \ DOMAIN windows'
  <2>1. Span(k, t, e)' = {}
    BY <1>5, RememberedGrows DEF Span
  <2>2. Cardinality(Span(k, t, e)') = 0
    BY <2>1, FS_EmptySet
  <2> QED BY <2>2, <1>4
<1>6. CASE k \notin DOMAIN windows \ DOMAIN windows' /\ (k \notin Charged(limits) \/ m \notin t..e)
  <2>1. Span(k, t, e)' = Span(k, t, e)
    BY <1>1, <1>2, <1>6, SpanGrows
  <2> QED BY <2>1, <1>3
<1>7. CASE k \in Charged(limits) /\ m \in t..e
  <2>1. k \in DOMAIN windows'
    BY <1>7, AdmitOrder DEF Admitted
  <2>2. CountsExact' /\ WindowInv' /\ TypeOK'
    BY AdmittedCounts, AdmittedWindows, AdmittedTypes
  <2>3. PICK s \in Nat : s = windows'[k].started
    BY <2>1, <2>2 DEF TypeOK, Window
  <2>4. m = now'
    BY <1>1 DEF Admitted, Admit
  <2>5. Cardinality(Span(k, s, m)') <= Limit(k)
    <3>1. windows'[k].requests = Cardinality(Span(k, s, m)') /\ windows'[k].requests \in 1..Limit(k)
      BY <2>1, <2>2, <2>3, <2>4 DEF CountsExact, Span, Remembered
    <3> QED BY <3>1, <1>4
  <2>6. t > s - WindowTicks
    <3>1. s <= m
      BY <2>1, <2>2, <2>3, <2>4 DEF WindowInv
    <3>2. t > m - WindowTicks
      BY <1>1, <1>2, <1>7
    <3> QED BY <3>1, <3>2, <1>1, <1>2
  <2>7. Cardinality(Span(k, t, s - 1)') < Limit(k)
    BY <2>1, <2>2, <2>3, <2>6 DEF WindowInv, Span, Remembered
  <2>8. Span(k, t, e)' \subseteq Span(k, t, s - 1)' \union Span(k, s, m)'
    <3>1. \A i \in Remembered(k)' : log'[i].at \in Nat /\ log'[i].at <= m
      <4>1. PICK n : Remembered(k)' = Remembered(k) \union {n} /\ log'[n].at = m
        BY <1>1, <1>7, RememberedGrows
      <4>2. \A i \in Remembered(k) : log'[i] = log[i]
        BY RememberedGrows
      <4>3. \A i \in Remembered(k) : log[i].at \in Nat /\ log[i].at <= m
        BY <1>1, LogTimes DEF Remembered
      <4> QED BY <4>1, <4>2, <4>3, <1>1
    <3>2. \A x \in Nat : x \in t..e /\ x <= m => x \in t..(s - 1) \/ x \in s..m
      BY <1>1, <1>2, <2>3
    <3> QED BY <3>1, <3>2 DEF Span
  <2>9. IsFiniteSet(Span(k, t, s - 1)') /\ IsFiniteSet(Span(k, s, m)')
    <3>1. IsFiniteSet(Remembered(k)')
      <4>1. PICK n : Remembered(k)' = Remembered(k) \union {n}
        BY <1>7, RememberedGrows
      <4> QED BY <4>1, RememberedFinite, FS_AddElement
    <3>2. Span(k, t, s - 1)' \subseteq Remembered(k)' /\ Span(k, s, m)' \subseteq Remembered(k)'
      BY DEF Span
    <3> QED BY <3>1, <3>2, FS_Subset
  <2>10. /\ Cardinality(Span(k, t, e)') <= Cardinality(Span(k, t, s - 1)') + Cardinality(Span(k, s, m)')
         /\ Cardinality(Span(k, t, s - 1)') \in Nat /\ Cardinality(Span(k, s, m)') \in Nat
         /\ Cardinality(Span(k, t, e)') \in Nat
    BY <2>8, <2>9, CoverBound
  <2> DEFINE x == Cardinality(Span(k, t, s - 1)')
             y == Cardinality(Span(k, s, m)')
             z == Cardinality(Span(k, t, e)')
             l == Limit(k)
  <2>11. x \in Nat /\ y \in Nat /\ z \in Nat /\ l \in Nat /\ y <= l /\ x < l /\ z <= x + y
    BY <2>5, <2>7, <2>10, <1>4
  <2> HIDE DEF x, y, z, l
  <2>12. z < 2 * l
    BY <2>11
  <2> QED BY <2>12 DEF z, l
<1>8. k \in Charged(limits) => k \notin DOMAIN windows \ DOMAIN windows'
  BY AdmitOrder DEF Admitted
<1> QED BY <1>5, <1>6, <1>7, <1>8

LEMMA AdmittedSpans ==
    ASSUME IInv, NEW limits \in Limits, Admitted(limits)
    PROVE  SpanBounded'
<1>1. ASSUME NEW k \in Keys, NEW t \in 0..MaxTime
      PROVE  Cardinality(Span(k, t, t + WindowTicks - 1)') < 2 * Limit(k)
  <2> DEFINE e == t + WindowTicks - 1
  <2>1. e = t + WindowTicks - 1
    OBVIOUS
  <2> HIDE DEF e
  <2>2. Cardinality(Span(k, t, e)') < 2 * Limit(k)
    BY <2>1, AdmittedSpan
  <2> QED BY <2>2 DEF e
<1> QED BY <1>1 DEF SpanBounded

LEMMA AdmittedRefusal ==
    ASSUME IInv, NEW limits \in Limits, Admitted(limits)
    PROVE  RefusalInv'
<1> SUFFICES ASSUME NEW r \in refusal
             PROVE  /\ r.at <= now /\ r.mark <= Len(log')
                    /\ forgotten'[r.key] <= r.mark =>
                          /\ r.key \in DOMAIN windows'
                          /\ \/ /\ windows'[r.key].requests >= Limit(r.key)
                                /\ r.at < windows'[r.key].started + WindowTicks
                                /\ r.due \in (windows'[r.key].started + WindowTicks)
                                             ..(windows'[r.key].started + WindowTicks + TicksPerSecond - 1)
                             \/ /\ windows'[r.key].started > r.at
                                /\ windows'[r.key].started > r.due - TicksPerSecond
  <2>1. now' = now /\ refusal' = refusal
    BY DEF Admitted, Admit
  <2> QED BY <2>1 DEF RefusalInv
<1> DEFINE k == r.key
<1>1. TypeOK /\ WindowInv /\ now \in Nat /\ TicksPerSecond \in Nat \ {0} /\ WindowTicks \in Nat
  BY RateAssumption, WindowTicksPositive DEF IInv, TypeOK
<1>2. k \in Keys /\ r.at \in Nat /\ r.mark \in Nat /\ r.due \in Nat
  BY <1>1 DEF TypeOK
<1>3. /\ r.at <= now /\ r.mark <= Len(log)
      /\ forgotten[k] <= r.mark =>
            /\ k \in DOMAIN windows
            /\ \/ /\ windows[k].requests >= Limit(k)
                  /\ r.at < windows[k].started + WindowTicks
                  /\ r.due \in (windows[k].started + WindowTicks)
                               ..(windows[k].started + WindowTicks + TicksPerSecond - 1)
               \/ /\ windows[k].started > r.at
                  /\ windows[k].started > r.due - TicksPerSecond
  BY DEF IInv, RefusalInv
<1>4. Len(log) \in Nat /\ Len(log') \in Nat /\ Len(log') > Len(log)
  <2>1. Len(log) \in Nat /\ Len(limits) \in 1..2 /\ Len(log') = Len(log) + Len(limits)
    BY LogGrows
  <2> QED BY <2>1
<1> HIDE DEF k
<1>5. ASSUME forgotten'[k] <= r.mark
      PROVE  /\ k \in DOMAIN windows'
             /\ \/ /\ windows'[k].requests >= Limit(k)
                   /\ r.at < windows'[k].started + WindowTicks
                   /\ r.due \in (windows'[k].started + WindowTicks)
                                ..(windows'[k].started + WindowTicks + TicksPerSecond - 1)
                \/ /\ windows'[k].started > r.at
                   /\ windows'[k].started > r.due - TicksPerSecond
  <2>1. k \notin DOMAIN windows \ DOMAIN windows'
    BY <1>2, <1>3, <1>4, <1>5, RememberedGrows
  <2>2. forgotten[k] <= r.mark
    BY <2>1, <1>2, <1>5, RememberedGrows
  <2>3. k \in DOMAIN windows /\ k \in DOMAIN windows'
    BY <2>1, <2>2, <1>3
  <2>4. windows[k].started \in Nat /\ windows[k].requests \in Nat /\ Limit(k) \in Nat
    BY <2>3, <1>1, <1>2, LimitPositive DEF TypeOK, Window
  <2>5. CASE k \notin Charged(limits)
    <3>1. windows'[k] = windows[k]
      BY <2>3, <2>5, WindowAfter
    <3> QED BY <3>1, <2>2, <2>3, <1>3
  <2>6. CASE k \in Charged(limits) /\ Live(k)
    <3>1. windows'[k].started = windows[k].started /\ windows'[k].requests = windows[k].requests + 1
      BY <2>3, <2>6, WindowAfter
    <3> QED BY <3>1, <2>2, <2>3, <2>4, <1>3
  <2>7. CASE k \in Charged(limits) /\ ~Live(k)
    <3>1. windows'[k].started = now
      BY <2>3, <2>7, WindowAfter
    <3>2. windows[k].started + WindowTicks <= now
      BY <2>3, <2>4, <2>7, <1>1 DEF Live
    <3>3. now > r.at /\ now > r.due - TicksPerSecond
      <4>1. CASE /\ r.at < windows[k].started + WindowTicks
                 /\ r.due \in (windows[k].started + WindowTicks)
                              ..(windows[k].started + WindowTicks + TicksPerSecond - 1)
        BY <4>1, <3>2, <2>4, <1>1, <1>2
      <4>2. CASE windows[k].started > r.at /\ windows[k].started > r.due - TicksPerSecond
        BY <4>2, <3>2, <2>4, <1>1, <1>2
      <4> QED BY <4>1, <4>2, <2>2, <1>3
    <3> QED BY <3>1, <3>3, <2>3
  <2> QED BY <2>5, <2>6, <2>7
<1> QED BY <1>2, <1>3, <1>4, <1>5 DEF k

LEMMA AdmittedOrder ==
    ASSUME IInv, NEW limits \in Limits, Admitted(limits)
    PROVE  OrderInv'
<1> DEFINE C == Charged(limits)
<1>1. /\ order' \in Seq(Keys) /\ Len(order') <= MaxKeys /\ Distinct(order')
      /\ DOMAIN windows' = KeysOf(order')
      /\ DOMAIN windows' \subseteq DOMAIN windows \union C
      /\ C \subseteq DOMAIN windows'
      /\ Len(order) = MaxKeys => Len(order') = MaxKeys
  BY AdmitOrder DEF Admitted
<1>2. \A a, b \in DOMAIN order' : a < b =>
          \/ order'[a] = limits[1] /\ order'[b] = limits[2] /\ Len(limits) = 2
          \/ order'[a] \notin C /\ order'[b] \in C
          \/ /\ order'[a] \notin C /\ order'[b] \notin C
             /\ \E c, d \in DOMAIN order : c < d /\ order'[a] = order[c] /\ order'[b] = order[d]
  BY AdmitOrder DEF Admitted
<1>3. \A x \in DOMAIN windows \ DOMAIN windows' :
          /\ Len(order') = MaxKeys
          /\ \A y \in DOMAIN windows' \ C :
                \E c, d \in DOMAIN order : c < d /\ order[c] = x /\ order[d] = y
  BY AdmitOrder DEF Admitted
<1>4. /\ Len(log) \in Nat /\ Len(limits) \in 1..2
      /\ DOMAIN log = 1..Len(log) /\ DOMAIN log' = 1..(Len(log) + Len(limits))
      /\ \A i \in 1..Len(log) : log'[i] = log[i]
      /\ \A j \in 1..Len(limits) : log'[Len(log) + j] = [key |-> limits[j], at |-> now]
  BY LogGrows
<1>5. /\ C = {limits[1], limits[Len(limits)]}
      /\ Len(limits) = 2 => limits[1] # limits[2]
  BY LimitsShape
<1>6. OrderInv
  BY DEF IInv
<1> HIDE DEF C
<1>7. \A j \in 1..Len(limits) : Len(log) + j \in DOMAIN log' /\ log'[Len(log) + j].key = limits[j]
  <2> TAKE j \in 1..Len(limits)
  <2>1. Len(log) + j \in DOMAIN log'
    BY <1>4
  <2>2. log'[Len(log) + j] = [key |-> limits[j], at |-> now]
    BY <1>4
  <2> QED BY <2>1, <2>2
<1>8. ASSUME NEW i \in DOMAIN log', i \notin 1..Len(log)
      PROVE  \E j \in 1..Len(limits) : i = Len(log) + j /\ log'[i].key = limits[j] /\ log'[i].key \in C
  <2>1. PICK j \in 1..Len(limits) : i = Len(log) + j
    <3>1. i - Len(log) \in 1..Len(limits) /\ i = Len(log) + (i - Len(log))
      BY <1>4, <1>8
    <3> QED BY <3>1
  <2>2. limits[j] \in C
    BY <1>4, <1>5
  <2> QED BY <2>1, <2>2, <1>7
<1>9. ASSUME NEW k \in C, NEW i \in 1..Len(log) PROVE Later(k, i)'
  <2>1. PICK j \in 1..Len(limits) : limits[j] = k
    BY <1>4, <1>5
  <2>2. Len(log) + j > i
    BY <1>4
  <2> QED BY <2>1, <2>2, <1>7 DEF Later
<1>10. ASSUME NEW k, NEW i \in 1..Len(log), Later(k, i) PROVE Later(k, i)'
  <2>1. PICK j \in DOMAIN log : j > i /\ log[j].key = k
    BY <1>10 DEF Later
  <2>2. j \in DOMAIN log' /\ log'[j].key = k
    BY <2>1, <1>4
  <2> QED BY <2>1, <2>2 DEF Later
<1>11. ASSUME NEW a \in DOMAIN order', NEW b \in DOMAIN order', a < b,
              NEW x, x = order'[a], NEW y, y = order'[b],
              NEW i \in DOMAIN log', log'[i].key = x
       PROVE  Later(y, i)'
  <2>1. CASE x = limits[1] /\ y = limits[2] /\ Len(limits) = 2
    <3>1. CASE i \in 1..Len(log)
      <4>1. limits[2] \in C
        BY <2>1, <1>5
      <4> QED BY <4>1, <3>1, <2>1, <1>9
    <3>2. CASE i \notin 1..Len(log)
      <4>1. PICK j \in 1..Len(limits) : i = Len(log) + j /\ log'[i].key = limits[j]
        BY <3>2, <1>8
      <4>2. j = 1
        <5>1. limits[1] = limits[j] /\ j \in 1..2
          BY <4>1, <2>1, <1>11
        <5> QED BY <5>1, <2>1, <1>5
      <4>3. Len(log) + 2 \in DOMAIN log' /\ log'[Len(log) + 2].key = limits[2] /\ Len(log) + 2 > i
        BY <4>1, <4>2, <2>1, <1>4, <1>7
      <4> QED BY <4>3, <2>1 DEF Later
    <3> QED BY <3>1, <3>2
  <2>2. CASE x \notin C /\ y \in C
    <3>1. i \in 1..Len(log)
      BY <2>2, <1>8, <1>11
    <3> QED BY <3>1, <2>2, <1>9
  <2>3. CASE /\ x \notin C
             /\ \E c, d \in DOMAIN order : c < d /\ x = order[c] /\ y = order[d]
    <3>1. PICK c \in DOMAIN order, d \in DOMAIN order :
             c < d /\ x = order[c] /\ y = order[d]
      BY <2>3
    <3>2. i \in 1..Len(log)
      BY <2>3, <1>8, <1>11
    <3>3. Later(order[d], i)
      BY <3>1, <3>2, <1>4, <1>6, <1>11 DEF OrderInv
    <3> QED BY <3>1, <3>2, <3>3, <1>10
  <2> QED BY <2>1, <2>2, <2>3, <1>2, <1>11
<1>12. ASSUME NEW i \in DOMAIN log', log'[i].key \notin DOMAIN windows'
       PROVE  Len(order') = MaxKeys /\ \A k \in DOMAIN windows' : Later(k, i)'
  <2>1. i \in 1..Len(log) /\ log'[i] = log[i]
    BY <1>1, <1>4, <1>8, <1>12
  <2>2. CASE log[i].key \in DOMAIN windows
    <3>1. Len(order') = MaxKeys
      BY <2>1, <2>2, <1>3, <1>12
    <3>2. ASSUME NEW k \in DOMAIN windows' PROVE Later(k, i)'
      <4>1. CASE k \in C
        BY <4>1, <2>1, <1>9
      <4>2. CASE k \notin C
        <5>1. PICK c \in DOMAIN order, d \in DOMAIN order :
                 c < d /\ order[c] = log[i].key /\ order[d] = k
          BY <4>2, <2>1, <2>2, <1>3, <1>12
        <5>2. Later(k, i)
          BY <5>1, <2>1, <1>4, <1>6 DEF OrderInv
        <5> QED BY <5>2, <2>1, <1>10
      <4> QED BY <4>1, <4>2
    <3> QED BY <3>1, <3>2
  <2>3. CASE log[i].key \notin DOMAIN windows
    <3>1. Len(order) = MaxKeys /\ \A k \in DOMAIN windows : Later(k, i)
      BY <2>1, <2>3, <1>4, <1>6 DEF OrderInv
    <3>2. ASSUME NEW k \in DOMAIN windows' PROVE Later(k, i)'
      BY <3>1, <2>1, <1>1, <1>9, <1>10
    <3> QED BY <3>1, <3>2, <1>1
  <2> QED BY <2>2, <2>3
<1>13. \A a, b \in DOMAIN order' : a < b => order'[a] # order'[b]
  BY <1>1 DEF Distinct
<1>14. DOMAIN windows' = {order'[i] : i \in DOMAIN order'}
  BY <1>1 DEF KeysOf
<1>15. \A a, b \in DOMAIN order' : a < b =>
           \A i \in DOMAIN log' : log'[i].key = order'[a] =>
               \E j \in DOMAIN log' : j > i /\ log'[j].key = order'[b]
  BY <1>11 DEF Later
<1>16. \A i \in DOMAIN log' : log'[i].key \notin DOMAIN windows' =>
           /\ Len(order') = MaxKeys
           /\ \A k \in DOMAIN windows' : \E j \in DOMAIN log' : j > i /\ log'[j].key = k
  BY <1>12 DEF Later
<1> QED BY <1>1, <1>13, <1>14, <1>15, <1>16 DEF OrderInv, Later

LEMMA AdmittedPreserves ==
    ASSUME IInv, NEW limits \in Limits, Admitted(limits)
    PROVE  IInv'
<1>1. TypeOK' /\ CountsExact' /\ SpanBounded' /\ WindowInv' /\ RefusalInv' /\ OrderInv'
  BY AdmittedTypes, AdmittedCounts, AdmittedSpans, AdmittedWindows, AdmittedRefusal, AdmittedOrder
<1>2. now' = now /\ now \in Nat
  BY DEF Admitted, Admit, IInv, TypeOK
<1>3. ASSUME NEW i \in DOMAIN log' PROVE log'[i].at <= now
  <2>1. /\ Len(log) \in Nat /\ Len(limits) \in 1..2
        /\ DOMAIN log = 1..Len(log) /\ DOMAIN log' = 1..(Len(log) + Len(limits))
        /\ \A q \in 1..Len(log) : log'[q] = log[q]
        /\ \A j \in 1..Len(limits) : log'[Len(log) + j] = [key |-> limits[j], at |-> now]
    BY LogGrows
  <2>2. CASE i \in 1..Len(log)
    BY <2>1, <2>2, LogTimes
  <2>3. CASE i \notin 1..Len(log)
    <3>1. PICK j \in 1..Len(limits) : i = Len(log) + j
      <4>1. i - Len(log) \in 1..Len(limits) /\ i = Len(log) + (i - Len(log))
        BY <2>1, <2>3
      <4> QED BY <4>1
    <3>2. log'[i] = [key |-> limits[j], at |-> now]
      BY <3>1, <2>1
    <3> QED BY <3>2, <1>2
  <2> QED BY <2>2, <2>3
<1>4. ASSUME NEW k \in Keys PROVE forgotten'[k] <= Len(log')
  <2>1. Len(log) \in Nat /\ Len(limits) \in 1..2 /\ Len(log') = Len(log) + Len(limits)
    BY LogGrows
  <2>2. forgotten[k] \in Nat /\ forgotten[k] <= Len(log)
    BY DEF IInv, TypeOK
  <2> QED BY <2>1, <2>2, RememberedGrows
<1> QED BY <1>1, <1>2, <1>3, <1>4 DEF IInv

(* Spans, memory and order do not depend on the clock. *)
LEMMA WindowsKept ==
    ASSUME IInv, UNCHANGED <<windows, order, log, forgotten>>
    PROVE  /\ SpanBounded' /\ OrderInv'
           /\ now' = now => CountsExact' /\ WindowInv'
<1>1. \A k : Remembered(k)' = Remembered(k)
  BY DEF Remembered
<1>2. \A k, a, b : Span(k, a, b)' = Span(k, a, b)
  BY <1>1 DEF Span
<1>3. \A k, i : Later(k, i)' = Later(k, i)
  BY DEF Later
<1>4. SpanBounded'
  BY <1>2 DEF IInv, SpanBounded
<1>5. OrderInv'
  <2>1. OrderInv /\ UNCHANGED <<windows, order, log>>
    BY DEF IInv
  <2>2. \A b \in DOMAIN order, i \in DOMAIN log : Later(order[b], i) => Later(order[b], i)'
    BY <2>1 DEF Later
  <2>3. \A a, b \in DOMAIN order : a < b =>
           /\ order[a] # order[b]
           /\ \A i \in DOMAIN log : log[i].key = order[a] => Later(order[b], i)'
    BY <2>1, <2>2 DEF OrderInv
  <2>4. \A i \in DOMAIN log : log[i].key \notin DOMAIN windows =>
           Len(order) = MaxKeys /\ \A k \in DOMAIN windows : Later(k, i)'
    BY <2>1, <1>3 DEF OrderInv
  <2>5. DOMAIN windows = {order[i] : i \in DOMAIN order} /\ Len(order) <= MaxKeys
    BY <2>1 DEF OrderInv
  <2> QED BY <2>1, <2>3, <2>4, <2>5 DEF OrderInv, Later
<1>6. ASSUME now' = now PROVE CountsExact'
  <2>1. \A k \in DOMAIN windows :
           Span(k, windows[k].started, now)' = Span(k, windows[k].started, now)
    BY <1>6, <1>1 DEF Span
  <2> QED BY <2>1 DEF IInv, CountsExact
<1>7. ASSUME now' = now PROVE WindowInv'
  <2>1. \A k \in Keys : \A t \in 0..MaxTime :
           Span(k, t, windows[k].started - 1)' = Span(k, t, windows[k].started - 1)
    BY <1>1 DEF Span
  <2> QED BY <2>1, <1>1, <1>7 DEF IInv, WindowInv
<1> QED BY <1>4, <1>5, <1>6, <1>7

LEMMA RefusedPreserves ==
    ASSUME IInv, NEW limits \in Limits, NEW i \in DOMAIN limits, Refused(limits, i)
    PROVE  IInv'
<1>1. UNCHANGED <<now, windows, order, log, forgotten>>
  BY DEF Refused, Refuse
<1>2. TypeOK /\ WindowInv /\ now \in Nat /\ now \in 0..MaxTime
      /\ TicksPerSecond \in Nat \ {0} /\ WindowTicks \in Nat
  BY RateAssumption, WindowTicksPositive DEF IInv, TypeOK
<1>3. PICK k \in Keys : k = limits[i]
  BY LimitsShape
<1>4. k \in DOMAIN windows /\ Live(k) /\ windows[k].requests >= Limit(k)
  <2>1. Current(k).requests >= Limit(k)
    BY <1>3 DEF Refused, Refuse, Refusing
  <2>2. Live(k)
    <3>1. ASSUME ~Live(k) PROVE FALSE
      <4>1. Current(k).requests = 0
        BY <3>1 DEF Current
      <4> QED BY <4>1, <2>1, LimitPositive
    <3> QED BY <3>1
  <2> QED BY <2>1, <2>2 DEF Live, Current
<1>5. PICK s \in Nat : s = windows[k].started
  BY <1>2, <1>4 DEF TypeOK, Window
<1>6. s <= now /\ now < s + WindowTicks
  <2>1. now - s < WindowTicks
    BY <1>4, <1>5 DEF Live
  <2> QED BY <2>1, <1>2, <1>4, <1>5 DEF WindowInv
<1> DEFINE left == WindowTicks - (now - s)
<1>7. left \in Nat /\ left > 0 /\ now + left = s + WindowTicks
  BY <1>2, <1>5, <1>6
<1>8. RetryAfter(k) = Ceiling(left)
  <2>1. Current(k).started = s
    BY <1>4, <1>5 DEF Current
  <2>2. Ceiling(left) \in Nat /\ Ceiling(left) >= 1
    BY <1>7, CeilingBounds
  <2> QED BY <2>1, <2>2 DEF RetryAfter
<1> HIDE DEF left
<1>9. RetryAfter(k) \in Nat /\ RetryAfter(k) * TicksPerSecond \in left..(left + TicksPerSecond - 1)
  BY <1>7, <1>8, CeilingBounds
<1> DEFINE due == now + RetryAfter(k) * TicksPerSecond
<1>10. due \in Nat /\ due \in (s + WindowTicks)..(s + WindowTicks + TicksPerSecond - 1)
  <2> DEFINE p == RetryAfter(k) * TicksPerSecond
  <2>1. p \in left..(left + TicksPerSecond - 1)
    BY <1>9
  <2> HIDE DEF p
  <2>2. now + p \in Nat /\ now + p \in (s + WindowTicks)..(s + WindowTicks + TicksPerSecond - 1)
    BY <2>1, <1>2, <1>5, <1>7
  <2> QED BY <2>2 DEF p
<1>11. Len(log) \in Nat
  BY <1>2 DEF TypeOK
<1>12. refusal' = {[key |-> k, at |-> now, mark |-> Len(log), due |-> due]}
  BY <1>3 DEF Refused
<1> HIDE DEF due
<1>13. TypeOK'
  <2>1. refusal' \subseteq [key : Keys, at : 0..MaxTime, mark : Nat, due : Nat]
    BY <1>2, <1>10, <1>11, <1>12
  <2> QED BY <2>1, <1>1, <1>2 DEF TypeOK
<1>14. RefusalInv'
  <2> SUFFICES ASSUME NEW r \in refusal'
               PROVE  /\ r.at <= now /\ r.mark <= Len(log)
                      /\ r.key \in DOMAIN windows
                      /\ windows[r.key].requests >= Limit(r.key)
                      /\ r.at < windows[r.key].started + WindowTicks
                      /\ r.due \in (windows[r.key].started + WindowTicks)
                                   ..(windows[r.key].started + WindowTicks + TicksPerSecond - 1)
    BY <1>1 DEF RefusalInv
  <2>1. r.key = k /\ r.at = now /\ r.mark = Len(log) /\ r.due = due
    BY <1>12
  <2> QED BY <2>1, <1>2, <1>4, <1>5, <1>6, <1>10, <1>11
<1>15. CountsExact' /\ SpanBounded' /\ WindowInv' /\ OrderInv'
  BY <1>1, WindowsKept
<1> QED BY <1>1, <1>13, <1>14, <1>15 DEF IInv

LEMMA TickPreserves ==
    ASSUME IInv, Tick
    PROVE  IInv'
<1>1. UNCHANGED <<windows, order, log, forgotten, refusal>> /\ now' = now + 1 /\ now < MaxTime
  BY DEF Tick
<1>2. TypeOK /\ now \in Nat /\ MaxTime \in Nat /\ now' \in 0..MaxTime
  BY <1>1, RateAssumption DEF IInv, TypeOK
<1>3. TypeOK'
  BY <1>1, <1>2 DEF TypeOK
<1>4. CountsExact'
  <2>1. ASSUME NEW k \in DOMAIN windows, NEW s, s = windows[k].started, NEW m, m = now + 1
        PROVE  Span(k, s, m)' = Span(k, s, now)
    <3>1. s \in Nat
      BY <2>1, <1>2 DEF TypeOK, Window
    <3>2. \A i \in Remembered(k) : log[i].at \in Nat /\ log[i].at <= now
      BY LogTimes DEF Remembered
    <3>3. Remembered(k)' = Remembered(k)
      BY <1>1 DEF Remembered
    <3>4. \A i \in Remembered(k) : log[i].at \in s..m <=> log[i].at \in s..now
      BY <3>1, <3>2, <1>2, <2>1
    <3> QED BY <3>3, <3>4, <1>1 DEF Span
  <2>2. ASSUME NEW k \in DOMAIN windows
        PROVE  Cardinality(Span(k, windows[k].started, now)') = Cardinality(Span(k, windows[k].started, now))
    <3>1. PICK s, m : s = windows[k].started /\ m = now + 1
      OBVIOUS
    <3>2. Span(k, s, m)' = Span(k, s, now)
      BY <2>1, <3>1
    <3>3. Span(k, windows[k].started, now)' = Span(k, s, m)'
      BY <3>1, <1>1 DEF Span
    <3> QED BY <3>1, <3>2, <3>3
  <2> QED BY <2>2, <1>1 DEF IInv, CountsExact
<1>5. SpanBounded' /\ OrderInv'
  BY <1>1, WindowsKept
<1>6. WindowInv'
  <2>1. \A k \in DOMAIN windows : windows[k].started \in Nat /\ windows[k].started <= now'
    BY <1>1, <1>2 DEF IInv, TypeOK, Window, WindowInv
  <2> QED BY <2>1, <1>1 DEF IInv, WindowInv, Span, Remembered
<1>7. RefusalInv'
  <2>1. \A r \in refusal : r.at \in Nat /\ r.at <= now
    BY <1>2 DEF IInv, TypeOK, RefusalInv
  <2>2. \A r \in refusal : r.at <= now'
    BY <2>1, <1>1, <1>2
  <2> QED BY <2>2, <1>1 DEF IInv, RefusalInv
<1>8. \A i \in DOMAIN log : log[i].at <= now'
  BY <1>1, <1>2, LogTimes
<1> QED BY <1>1, <1>3, <1>4, <1>5, <1>6, <1>7, <1>8 DEF IInv

LEMMA StutterPreserves ==
    ASSUME IInv, UNCHANGED vars
    PROVE  IInv'
<1>1. UNCHANGED <<now, windows, order, log, forgotten, refusal>>
  BY DEF vars
<1>2. TypeOK' /\ RefusalInv'
  BY <1>1 DEF IInv, TypeOK, RefusalInv
<1> QED BY <1>1, <1>2, WindowsKept DEF IInv

LEMMA InitInv == Init => IInv
<1> SUFFICES ASSUME Init PROVE IInv
  OBVIOUS
<1>1. /\ DOMAIN windows = {} /\ DOMAIN log = {} /\ DOMAIN order = {}
      /\ Len(order) = 0 /\ Len(log) = 0 /\ refusal = {} /\ now = 0
      /\ forgotten = [k \in Keys |-> 0]
  BY DEF Init
<1>2. TypeOK
  BY <1>1, RateAssumption DEF TypeOK, Init
<1>3. \A k \in Keys : Remembered(k) = {}
  BY <1>1 DEF Remembered
<1>4. CountsExact /\ WindowInv /\ RefusalInv /\ OrderInv
  BY <1>1, <1>3, RateAssumption DEF CountsExact, WindowInv, RefusalInv, OrderInv
<1>5. SpanBounded
  <2>1. \A k \in Keys : \A a, b : Cardinality(Span(k, a, b)) = 0
    BY <1>3, FS_EmptySet DEF Span
  <2>2. \A k \in Keys : 0 < 2 * Limit(k)
    BY LimitPositive
  <2> QED BY <2>1, <2>2 DEF SpanBounded
<1> QED BY <1>1, <1>2, <1>4, <1>5 DEF IInv

LEMMA NextInv == IInv /\ [Next]_vars => IInv'
BY AdmittedPreserves, RefusedPreserves, TickPreserves, StutterPreserves DEF Next

(* The inductive invariant holds of every run, whatever the keys, the      *)
(* limits, the clock and the capacity.                                     *)
THEOREM InvariantHolds == Spec => []IInv
<1>1. Init => IInv
  BY InitInv
<1>2. IInv /\ [Next]_vars => IInv'
  BY NextInv
<1> QED BY <1>1, <1>2, PTL DEF Spec

-----------------------------------------------------------------------------
(* The properties                                                          *)

(* Every variable keeps its type.                                          *)
THEOREM TypeCorrect == Spec => []TypeOK
<1>1. IInv => TypeOK
  BY DEF IInv
<1> QED BY <1>1, InvariantHolds, PTL

(* A window counts exactly the requests admitted since it started, and     *)
(* never more than the limit.                                              *)
THEOREM WindowsCount == Spec => []CountsExact
<1>1. IInv => CountsExact
  BY DEF IInv
<1> QED BY <1>1, InvariantHolds, PTL

(* In any span of one window, wherever it begins, a key whose window is    *)
(* kept has fewer than twice its limit of requests admitted.               *)
THEOREM SpansBounded == Spec => []SpanBounded
<1>1. IInv => SpanBounded
  BY DEF IInv
<1> QED BY <1>1, InvariantHolds, PTL

(* Retry-After is neither too short nor, by a whole second, too long.      *)
THEOREM RetryAfterIsHonest == Spec => []RetryAfterHonest
<1>1. ASSUME IInv PROVE RetryAfterHonest
  <2> SUFFICES ASSUME NEW r \in refusal, forgotten[r.key] <= r.mark
               PROVE  /\ now >= r.due => ~(Live(r.key) /\ windows[r.key].started <= r.at)
                      /\ now <= r.due - TicksPerSecond => Refusing(r.key)
    BY DEF RetryAfterHonest
  <2>1. TypeOK /\ RefusalInv /\ WindowInv /\ now \in Nat
        /\ TicksPerSecond \in Nat \ {0} /\ WindowTicks \in Nat
    BY <1>1, RateAssumption, WindowTicksPositive DEF IInv, TypeOK
  <2> DEFINE k == r.key
             w == windows[k]
  <2>2. k \in Keys /\ r.at \in Nat /\ r.due \in Nat
    BY <2>1 DEF TypeOK
  <2>3. k \in DOMAIN windows
    BY <2>1 DEF RefusalInv
  <2>4. w.started \in Nat /\ w.started <= now
    BY <2>1, <2>2, <2>3 DEF TypeOK, Window, WindowInv
  <2>5. CASE /\ w.requests >= Limit(k)
             /\ r.at < w.started + WindowTicks
             /\ r.due \in (w.started + WindowTicks)..(w.started + WindowTicks + TicksPerSecond - 1)
    <3>1. now >= r.due => ~Live(k)
      BY <2>1, <2>2, <2>4, <2>5 DEF Live
    <3>2. ASSUME now <= r.due - TicksPerSecond PROVE Refusing(k)
      <4>1. Live(k)
        BY <2>1, <2>2, <2>3, <2>4, <2>5, <3>2 DEF Live
      <4> QED BY <4>1, <2>5 DEF Refusing, Current
    <3> QED BY <3>1, <3>2
  <2>6. CASE w.started > r.at /\ w.started > r.due - TicksPerSecond
    BY <2>1, <2>2, <2>4, <2>6
  <2> QED BY <2>1, <2>5, <2>6 DEF RefusalInv
<1> QED BY <1>1, InvariantHolds, PTL

(* A key is forgotten only after MaxKeys others were charged.             *)
THEOREM LeastRecentlyForgotten == Spec => []LeastRecentForgotten
<1>1. ASSUME IInv PROVE LeastRecentForgotten
  <2> SUFFICES ASSUME NEW i \in DOMAIN log, log[i].key \notin DOMAIN windows
               PROVE  Cardinality({k \in Keys : Later(k, i)}) >= MaxKeys
    BY DEF LeastRecentForgotten
  <2> DEFINE D == {k \in Keys : Later(k, i)}
             S == {j \in DOMAIN log : j > i}
             f == [j \in S |-> log[j].key]
             g == [a \in 1..Len(order) |-> order[a]]
  <2>1. TypeOK /\ OrderInv
    BY <1>1 DEF IInv
  <2>2. Len(order) = MaxKeys /\ DOMAIN windows \subseteq D
    BY <2>1 DEF OrderInv, TypeOK
  <2>3. IsFiniteSet(D)
    <3>1. Len(log) \in Nat /\ S \subseteq 1..Len(log)
      BY <2>1 DEF TypeOK
    <3>2. IsFiniteSet(1..Len(log))
      BY <3>1, FS_Interval
    <3>3. IsFiniteSet(S)
      BY <3>1, <3>2, FS_Subset
    <3> DEFINE T == {f[j] : j \in S}
    <3>4. f \in Surjection(S, T)
      BY DEF Surjection
    <3>5. IsFiniteSet(T)
      BY <3>3, <3>4, FS_Surjection
    <3>6. D \subseteq T
      BY DEF Later
    <3> QED BY <3>5, <3>6, FS_Subset
  <2>4. Cardinality(DOMAIN windows) = MaxKeys
    <3>1. Len(order) \in Nat /\ DOMAIN order = 1..Len(order)
      BY <2>1 DEF TypeOK
    <3>2. DOMAIN windows = {order[a] : a \in 1..Len(order)}
      BY <2>1, <3>1 DEF OrderInv
    <3>3. g \in Surjection(1..Len(order), DOMAIN windows)
      BY <3>2 DEF Surjection
    <3>4. g \in Injection(1..Len(order), DOMAIN windows)
      <4>1. \A a, b \in 1..Len(order) : order[a] = order[b] => a = b
        <5> SUFFICES ASSUME NEW a \in 1..Len(order), NEW b \in 1..Len(order), a # b
                     PROVE  order[a] # order[b]
          OBVIOUS
        <5>1. a < b \/ b < a
          BY <3>1
        <5> QED BY <5>1, <2>1, <3>1 DEF OrderInv
      <4>2. \A a, b \in 1..Len(order) : g[a] = g[b] => a = b
        BY <4>1
      <4>3. g \in [1..Len(order) -> DOMAIN windows]
        BY <3>2
      <4> HIDE DEF g
      <4> QED BY <4>2, <4>3 DEF Injection, IsInjective
    <3>5. IsFiniteSet(1..Len(order)) /\ Cardinality(1..Len(order)) = Len(order)
      <4> HIDE DEF g
      <4>1. 1 \in Int /\ Len(order) \in Int /\ Len(order) >= 0
        BY <3>1
      <4>2. IsFiniteSet(1..Len(order))
        BY <4>1, FS_Interval
      <4>3. Cardinality(1..Len(order)) = IF 1 > Len(order) THEN 0 ELSE Len(order) - 1 + 1
        BY <4>1, FS_Interval
      <4> QED BY <4>1, <4>2, <4>3
    <3> HIDE DEF g
    <3>6. Cardinality(DOMAIN windows) = Cardinality(1..Len(order))
      BY <3>3, <3>4, <3>5, FS_Surjection
    <3> QED BY <3>5, <3>6, <2>2
  <2> HIDE DEF D
  <2>5. Cardinality(DOMAIN windows) <= Cardinality(D)
    BY <2>2, <2>3, FS_Subset
  <2>6. Cardinality(D) \in Nat /\ MaxKeys \in Nat
    BY <2>3, FS_CardinalityType, RateAssumption
  <2> QED BY <2>4, <2>5, <2>6 DEF D
<1> QED BY <1>1, InvariantHolds, PTL
=============================================================================
