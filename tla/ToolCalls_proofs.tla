--------------------------- MODULE ToolCalls_proofs ---------------------------
(***************************************************************************)
(* Proofs about the tools of server.py, group by group, for any calls,     *)
(* accounts, files, apps, documents and limits.                            *)
(***************************************************************************)
EXTENDS ToolCalls, Sequences, FiniteSets, FiniteSetTheorems, SequenceTheorems,
        WellFoundedInduction, TLAPS

(***************************************************************************)
(* The file tools (FileTools): first paths, then trees, then calls.        *)
(***************************************************************************)

\* The numbers are well-founded: a nonempty set of them has a least one.  This
\* is what inductions on lengths rest on, here by a smallest counterexample.
Less == {p \in Nat \X Nat : p[1] < p[2]}

LEMMA LessIs == Less = OpToRel(<, Nat)
    BY Zenon DEF Less, OpToRel

LEMMA Smallest ==
    ASSUME NEW T \in SUBSET Nat, T # {}
    PROVE  \E m \in T : \A k \in T : m <= k
<1>1. PICK m \in T : \A k \in T : ~(<<k, m>> \in Less)
    BY WFMin, NatLessThanWellFounded, LessIs
<1>2. \A k \in Nat, n \in Nat : k < n => <<k, n>> \in Less
    BY DEF Less
<1>3. \A k \in T : ~(k < m) /\ k \in Nat /\ m \in Nat
    BY <1>1, <1>2
<1>4. QED
    BY <1>3

\* Paths, segment by segment.
LEMMA UnderElements ==
    ASSUME NEW x \in Seq(STRING), NEW y \in Seq(STRING)
    PROVE  File!Under(x, y) <=> Len(x) <= Len(y) /\ \A i \in 1..Len(x) : x[i] = y[i]
    BY DEF File!Under

LEMMA ParentElements ==
    ASSUME NEW x \in Seq(STRING), x # <<>>
    PROVE  /\ Len(x) \in Nat \ {0}
           /\ File!Parent(x) \in Seq(STRING) /\ Len(File!Parent(x)) = Len(x) - 1
           /\ \A i \in 1..Len(x) - 1 : File!Parent(x)[i] = x[i]
<1> DEFINE n == Len(x) - 1
<1>1. n \in Nat /\ Len(x) = n + 1
    BY EmptySeq
<1>2. \A i \in 1..n : x[i] \in STRING
    BY <1>1, ElementOfSeq
<1>3. 1 \in Int /\ n \in Int
    BY <1>1
<1> HIDE DEF n
<1>4. /\ SubSeq(x, 1, n) \in Seq(STRING)
      /\ Len(SubSeq(x, 1, n)) = IF 1 <= n THEN n - 1 + 1 ELSE 0
      /\ \A i \in 1..n - 1 + 1 : SubSeq(x, 1, n)[i] = x[1 + i - 1]
    BY <1>2, <1>3, SubSeqProperties
<1>5. File!Parent(x) = SubSeq(x, 1, n)
    BY DEF File!Parent, n
<1>6. QED
    BY <1>1, <1>4, <1>5

LEMMA UnderIntro ==
    ASSUME NEW x \in Seq(STRING), NEW y \in Seq(STRING), Len(x) <= Len(y),
           \A i \in 1..Len(x) : x[i] = y[i]
    PROVE  File!Under(x, y)
    BY UnderElements

LEMMA Concat ==
    ASSUME NEW x \in Seq(STRING), NEW y \in Seq(STRING)
    PROVE  /\ Len(x) \in Nat /\ Len(y) \in Nat
           /\ x \o y \in Seq(STRING) /\ Len(x \o y) = Len(x) + Len(y)
           /\ \A i \in 1..Len(x) + Len(y) :
                (x \o y)[i] = IF i <= Len(x) THEN x[i] ELSE y[i - Len(x)]
    OBVIOUS

LEMMA UnderFacts ==
    ASSUME NEW x \in Seq(STRING), NEW y \in Seq(STRING)
    PROVE  /\ File!Under(x, x)
           /\ File!Under(x, x \o y)
           /\ File!Under(x, y) /\ Len(x) = Len(y) => x = y
<1>1. PICK w : w = x \o y
    OBVIOUS
<1>2. /\ w \in Seq(STRING) /\ Len(w) = Len(x) + Len(y) /\ Len(x) \in Nat /\ Len(y) \in Nat
      /\ \A i \in 1..Len(x) + Len(y) : w[i] = IF i <= Len(x) THEN x[i] ELSE y[i - Len(x)]
    BY <1>1, Concat
<1>3. File!Under(x, x)
    BY UnderElements
<1>4. File!Under(x, w)
  <2>1. Len(x) <= Len(w) /\ \A i \in 1..Len(x) : x[i] = w[i]
      BY <1>2
  <2>2. QED
      BY <1>2, <2>1, UnderIntro
<1>5. File!Under(x, y) /\ Len(x) = Len(y) => x = y
    BY UnderElements, SeqEqual
<1>6. QED
    BY <1>1, <1>3, <1>4, <1>5

LEMMA UnderTransitive ==
    ASSUME NEW x \in Seq(STRING), NEW y \in Seq(STRING), NEW z \in Seq(STRING),
           File!Under(x, y), File!Under(y, z)
    PROVE  File!Under(x, z)
    BY UnderElements

\* Below x and not x: in or below the folder x.
LEMMA UnderParent ==
    ASSUME NEW x \in Seq(STRING), NEW y \in Seq(STRING)
    PROVE  /\ File!Under(x, y) /\ x # y => y # <<>> /\ File!Under(x, File!Parent(y))
           /\ y # <<>> /\ File!Under(x, File!Parent(y)) => File!Under(x, y)
           /\ y # <<>> => ~File!Under(y, File!Parent(y)) /\ File!Parent(y) # y
<1>1. CASE y = <<>>
  <2>1. Len(y) = 0 /\ Len(x) \in Nat
      BY <1>1, EmptySeq
  <2>2. File!Under(x, y) => Len(x) <= Len(y)
      BY UnderElements
  <2>4. File!Under(x, y) => Len(x) = Len(y)
      BY <2>1, <2>2
  <2>3. QED
      BY <1>1, <2>4, UnderFacts
<1>2. CASE y # <<>>
  <2>1. /\ Len(y) \in Nat \ {0} /\ Len(x) \in Nat
        /\ File!Parent(y) \in Seq(STRING) /\ Len(File!Parent(y)) = Len(y) - 1
        /\ \A i \in 1..Len(y) - 1 : File!Parent(y)[i] = y[i]
      BY <1>2, ParentElements
  <2>2. File!Under(x, y) /\ x # y => Len(x) <= Len(y) - 1
      BY <2>1, UnderElements, UnderFacts
  <2>3. ASSUME File!Under(x, y), x # y PROVE File!Under(x, File!Parent(y))
    <3>1. Len(x) <= Len(y) - 1 /\ \A i \in 1..Len(x) : x[i] = y[i]
        BY <2>2, <2>3, UnderElements
    <3>2. \A i \in 1..Len(x) : x[i] = File!Parent(y)[i]
        BY <2>1, <3>1
    <3>3. QED
        BY <2>1, <3>1, <3>2, UnderIntro
  <2>4. ASSUME File!Under(x, File!Parent(y)) PROVE File!Under(x, y)
    <3>1. Len(x) <= Len(y) - 1 /\ \A i \in 1..Len(x) : x[i] = File!Parent(y)[i]
        BY <2>1, <2>4, UnderElements
    <3>2. Len(x) <= Len(y) /\ \A i \in 1..Len(x) : x[i] = y[i]
        BY <2>1, <3>1
    <3>3. QED
        BY <3>2, UnderIntro
  <2>5. ~File!Under(y, File!Parent(y)) /\ File!Parent(y) # y
      BY <2>1, UnderElements
  <2>6. QED
      BY <1>2, <2>3, <2>4, <2>5
<1>3. QED
    BY <1>1, <1>2

\* r is z with the first segments, those of x, replaced by those of y.
RebasedIs(r, z, x, y) ==
  /\ r \in Seq(STRING) /\ Len(r) = Len(y) + (Len(z) - Len(x))
  /\ Len(x) \in Nat /\ Len(y) \in Nat /\ Len(z) \in Nat /\ Len(x) <= Len(z)
  /\ \A i \in 1..Len(y) : r[i] = y[i]
  /\ \A i \in 1..Len(z) - Len(x) : r[Len(y) + i] = z[Len(x) + i]

LEMMA RebasedElements ==
    ASSUME NEW x \in Seq(STRING), NEW y \in Seq(STRING), NEW z \in Seq(STRING), File!Under(x, z)
    PROVE  RebasedIs(File!Rebased(z, x, y), z, x, y)
<1>1. PICK m, n : m = Len(x) + 1 /\ n = Len(z)
    OBVIOUS
<1>2. /\ m \in Int /\ n \in Int /\ Len(x) \in Nat /\ Len(y) \in Nat /\ Len(z) \in Nat
      /\ Len(x) <= Len(z)
    BY <1>1, UnderElements
<1>3. \A i \in m..n : z[i] \in STRING
    BY <1>1, <1>2, ElementOfSeq
<1>4. PICK s : s = SubSeq(z, m, n)
    OBVIOUS
<1>5. /\ s \in Seq(STRING)
      /\ Len(s) = IF m <= n THEN n - m + 1 ELSE 0
      /\ \A i \in 1..n - m + 1 : s[i] = z[m + i - 1]
    BY <1>2, <1>3, <1>4, SubSeqProperties
<1>6. Len(s) = Len(z) - Len(x)
    BY <1>1, <1>2, <1>5
<1>7. \A i \in 1..Len(z) - Len(x) : s[i] = z[Len(x) + i]
  <2> SUFFICES ASSUME NEW i \in 1..Len(z) - Len(x) PROVE s[i] = z[Len(x) + i]
      OBVIOUS
  <2>1. i \in 1..n - m + 1 /\ m + i - 1 = Len(x) + i
      BY <1>1, <1>2
  <2>2. QED
      BY <1>5, <2>1
<1>8. PICK r : r = File!Rebased(z, x, y)
    OBVIOUS
<1>9. /\ r \in Seq(STRING) /\ Len(r) = Len(y) + Len(s)
      /\ \A i \in 1..Len(y) + Len(s) : r[i] = IF i <= Len(y) THEN y[i] ELSE s[i - Len(y)]
  <2>1. r = y \o s
      BY <1>1, <1>4, <1>8 DEF File!Rebased
  <2>2. /\ y \o s \in Seq(STRING) /\ Len(y \o s) = Len(y) + Len(s)
        /\ \A i \in 1..Len(y) + Len(s) :
             (y \o s)[i] = IF i <= Len(y) THEN y[i] ELSE s[i - Len(y)]
      BY <1>5, Concat
  <2>3. QED
      BY Zenon, <2>1, <2>2
<1>10. \A i \in 1..Len(y) : r[i] = y[i]
  <2> SUFFICES ASSUME NEW i \in 1..Len(y) PROVE r[i] = y[i]
      OBVIOUS
  <2>1. i \in 1..Len(y) + Len(s) /\ i <= Len(y)
      BY <1>2, <1>6
  <2>2. QED
      BY <1>9, <2>1
<1>11. \A i \in 1..Len(z) - Len(x) : r[Len(y) + i] = z[Len(x) + i]
  <2> SUFFICES ASSUME NEW i \in 1..Len(z) - Len(x) PROVE r[Len(y) + i] = z[Len(x) + i]
      OBVIOUS
  <2>1. /\ Len(y) + i \in 1..Len(y) + Len(s) /\ ~(Len(y) + i <= Len(y))
        /\ (Len(y) + i) - Len(y) = i
      BY <1>2, <1>6
  <2>2. QED
      BY <1>7, <1>9, <2>1
<1>12. QED
    BY <1>2, <1>6, <1>8, <1>9, <1>10, <1>11 DEF RebasedIs

\* Paths of the same length that agree on k segments and on the next l.
Agree(q, r, k, l) ==
  /\ k \in Nat /\ l \in Nat /\ Len(q) = k + l /\ Len(r) = k + l
  /\ \A i \in 1..k : q[i] = r[i]
  /\ \A i \in 1..l : q[k + i] = r[k + i]

LEMMA SamePath ==
    ASSUME NEW q \in Seq(STRING), NEW r \in Seq(STRING), NEW k, NEW l, Agree(q, r, k, l)
    PROVE  q = r
<1>1. ASSUME NEW i \in 1..Len(q) PROVE q[i] = r[i]
  <2>1. CASE i <= k
      BY <2>1 DEF Agree
  <2>2. CASE ~(i <= k)
    <3>1. i - k \in 1..l /\ k + (i - k) = i
        BY <2>2 DEF Agree
    <3>2. QED
        BY <3>1 DEF Agree
  <2>3. QED
      BY <2>1, <2>2
<1>2. QED
    BY <1>1, SeqEqual DEF Agree

LEMMA RebasedFacts ==
    ASSUME NEW x \in Seq(STRING), NEW y \in Seq(STRING), NEW z \in Seq(STRING),
           File!Under(x, z), NEW r, r = File!Rebased(z, x, y)
    PROVE  /\ r \in Seq(STRING) /\ File!Under(y, r)
           /\ File!Rebased(r, y, x) = z
           /\ (z = x) <=> (r = y)
           /\ z # x => /\ z # <<>> /\ r # <<>>
                       /\ File!Under(x, File!Parent(z))
                       /\ File!Parent(r) = File!Rebased(File!Parent(z), x, y)
<1>1. /\ r \in Seq(STRING) /\ Len(r) = Len(y) + (Len(z) - Len(x))
      /\ Len(x) \in Nat /\ Len(y) \in Nat /\ Len(z) \in Nat /\ Len(x) <= Len(z)
      /\ \A i \in 1..Len(y) : r[i] = y[i]
      /\ \A i \in 1..Len(z) - Len(x) : r[Len(y) + i] = z[Len(x) + i]
  <2>1. RebasedIs(r, z, x, y)
      BY Zenon, RebasedElements
  <2>2. QED
      BY <2>1 DEF RebasedIs
<1>2. \A i \in 1..Len(x) : x[i] = z[i]
    BY UnderElements
<1>3. File!Under(y, r)
  <2>1. Len(y) <= Len(r) /\ \A i \in 1..Len(y) : y[i] = r[i]
      BY <1>1
  <2>2. QED
      BY <1>1, <2>1, UnderIntro
<1>4. File!Rebased(r, y, x) = z
  <2>1. PICK q : q = File!Rebased(r, y, x)
      OBVIOUS
  <2>2. RebasedIs(q, r, y, x)
      BY Zenon, <1>1, <1>3, <2>1, RebasedElements
  <2>3. /\ Len(r) - Len(y) = Len(z) - Len(x) /\ Len(z) - Len(x) \in Nat
        /\ Len(z) = Len(x) + (Len(z) - Len(x))
      BY <1>1
  <2>4. PICK l \in Nat : l = Len(z) - Len(x)
      BY <2>3
  <2>5. Agree(q, z, Len(x), l)
      BY <1>1, <1>2, <2>2, <2>3, <2>4 DEF RebasedIs, Agree
  <2>6. q = z
      BY <2>2, <2>5, SamePath DEF RebasedIs
  <2>7. QED
      BY <2>1, <2>6
<1>5. (z = x) <=> (r = y)
  <2>1. z = x => Len(r) = Len(y)
      BY <1>1
  <2>2. r = y => Len(z) = Len(x)
      BY <1>1
  <2>3. QED
      BY <1>1, <1>3, <2>1, <2>2, UnderFacts
<1>6. ASSUME z # x
      PROVE  /\ z # <<>> /\ r # <<>> /\ File!Under(x, File!Parent(z))
             /\ File!Parent(r) = File!Rebased(File!Parent(z), x, y)
  <2>1. z # <<>> /\ File!Under(x, File!Parent(z))
      BY <1>6, UnderParent
  <2>2. r # <<>> /\ File!Under(y, File!Parent(r))
      BY <1>1, <1>3, <1>5, <1>6, UnderParent
  <2>3. /\ File!Parent(z) \in Seq(STRING) /\ Len(File!Parent(z)) = Len(z) - 1
        /\ \A i \in 1..Len(z) - 1 : File!Parent(z)[i] = z[i]
      BY <2>1, ParentElements
  <2>4. /\ File!Parent(r) \in Seq(STRING) /\ Len(File!Parent(r)) = Len(r) - 1
        /\ \A i \in 1..Len(r) - 1 : File!Parent(r)[i] = r[i]
      BY <1>1, <2>2, ParentElements
  <2>5. PICK q : q = File!Rebased(File!Parent(z), x, y)
      OBVIOUS
  <2>6. RebasedIs(q, File!Parent(z), x, y)
      BY Zenon, <2>1, <2>3, <2>5, RebasedElements
  <2>7. PICK l \in Nat : l = Len(z) - 1 - Len(x)
    <3>1. Len(x) <= Len(z) - 1
        BY <2>3, <2>6 DEF RebasedIs
    <3>2. Len(z) - 1 - Len(x) \in Nat
        BY <1>1, <3>1
    <3>3. QED
        BY <3>2
  <2>8. Len(q) = Len(y) + l /\ Len(File!Parent(r)) = Len(y) + l
      BY <1>1, <2>3, <2>4, <2>6, <2>7 DEF RebasedIs
  <2>9. ASSUME NEW i \in 1..Len(y) PROVE q[i] = File!Parent(r)[i]
    <3>1. i \in 1..Len(r) - 1
        BY <1>1, <2>4, <2>7, <2>8
    <3>2. QED
        BY <1>1, <2>4, <2>6, <3>1 DEF RebasedIs
  <2>10. ASSUME NEW i \in 1..l PROVE q[Len(y) + i] = File!Parent(r)[Len(y) + i]
    <3>1. /\ i \in 1..Len(File!Parent(z)) - Len(x) /\ i \in 1..Len(z) - Len(x)
          /\ Len(x) + i \in 1..Len(z) - 1 /\ Len(y) + i \in 1..Len(r) - 1
        BY <1>1, <2>3, <2>4, <2>7, <2>8
    <3>2. QED
        BY <1>1, <2>3, <2>4, <2>6, <3>1 DEF RebasedIs
  <2>11. Agree(q, File!Parent(r), Len(y), l)
      BY <1>1, <2>8, <2>9, <2>10 DEF Agree
  <2>12. q = File!Parent(r)
      BY <2>4, <2>6, <2>11, SamePath DEF RebasedIs
  <2>13. QED
      BY <2>1, <2>2, <2>5, <2>12
<1>7. QED
    BY <1>1, <1>3, <1>4, <1>5, <1>6

Segments == STRING \ {".."}

\* The path a URL leads to when there is nothing to follow upwards.
LEMMA UrlPlain ==
    ASSUME NEW top \in Seq(Segments), NEW path \in Seq(Segments)
    PROVE  File!Url(top, path) = top \o path
<1> DEFINE full == top \o path
           E(f) == [i \in 0..Len(full) |->
                     IF i = 0 THEN <<>>
                     ELSE IF full[i] = ".." THEN File!Parent(f[i - 1])
                     ELSE Append(f[i - 1], full[i])]
           led == CHOOSE f : f = E(f)
           g == [i \in 0..Len(full) |-> SubSeq(full, 1, i)]
<1>1. full \in Seq(Segments) /\ Len(full) \in Nat
    OBVIOUS
<1>2. File!Url(top, path) = led[Len(full)]
    BY DEF File!Url
<1>3. \A i \in 1..Len(full) : full[i] # ".."
    BY <1>1, ElementOfSeq DEF Segments
<1> HIDE DEF full
\* Every i-th step adds the i-th segment.
<1>4. ASSUME NEW i \in 1..Len(full)
      PROVE  /\ i - 1 \in 0..Len(full)
             /\ SubSeq(full, 1, i) = Append(SubSeq(full, 1, i - 1), full[i])
    BY <1>1, SubSeqRecursiveSecond
<1>5. SubSeq(full, 1, 0) = <<>>
    BY <1>1, SubSeqEmpty
<1>6. g = E(g)
  <2> SUFFICES ASSUME NEW i \in 0..Len(full) PROVE g[i] = E(g)[i]
      OBVIOUS
  <2>1. CASE i = 0
      BY <1>5, <2>1
  <2>2. CASE i # 0
    <3>1. i \in 1..Len(full)
        BY <1>1, <2>2
    <3>2. g[i] = Append(g[i - 1], full[i])
        BY <1>4, <3>1
    <3>3. E(g)[i] = Append(g[i - 1], full[i])
        BY <1>3, <2>2, <3>1
    <3>4. QED
        BY <3>2, <3>3
  <2>3. QED
      BY <2>1, <2>2
<1>7. led = E(led)
  <2> HIDE DEF g, E
  <2>1. QED
      BY <1>6
<1> HIDE DEF led
<1>8. ASSUME NEW i \in 0..Len(full)
      PROVE  led[i] = IF i = 0 THEN <<>>
                      ELSE IF full[i] = ".." THEN File!Parent(led[i - 1])
                      ELSE Append(led[i - 1], full[i])
  <2>1. led[i] = E(led)[i]
      BY <1>7
  <2>2. QED
      BY <2>1
<1> DEFINE T == {i \in 0..Len(full) : led[i] # SubSeq(full, 1, i)}
<1>9. ASSUME T # {} PROVE FALSE
  <2>1. T \in SUBSET Nat
      BY <1>1
  <2>2. PICK m \in T : \A k \in T : m <= k
    <3> HIDE DEF T
    <3>1. QED
        BY <1>9, <2>1, Smallest
  <2>3. CASE m = 0
      BY <1>5, <1>8, <2>2, <2>3
  <2>4. CASE m # 0
    <3>1. m \in 1..Len(full) /\ m - 1 \in 0..Len(full) /\ m - 1 \notin T
        BY <1>1, <2>2, <2>4
    <3>2. led[m - 1] = SubSeq(full, 1, m - 1)
        BY <3>1
    <3>3. led[m] = Append(led[m - 1], full[m])
        BY <1>3, <1>8, <2>2, <2>4, <3>1
    <3>4. QED
        BY <1>4, <2>2, <3>1, <3>2, <3>3
  <2>5. QED
      BY <2>3, <2>4
<1>10. led[Len(full)] = full
  <2>1. Len(full) \in 0..Len(full)
      BY <1>1
  <2>2. SubSeq(full, 1, Len(full)) = full
      BY <1>1, SubSeqFull
  <2>3. QED
      BY <1>9, <2>1, <2>2
<1>11. QED
    BY <1>2, <1>10 DEF full

\* The segments kept of a path are read one by one.
Kept(raw, f, n) ==
  \A i \in 0..n :
    f[i] = IF i = 0 THEN <<>>
           ELSE IF raw[i] \in {".", ""} THEN f[i - 1] ELSE Append(f[i - 1], raw[i])

LEMMA KeptExists ==
    ASSUME NEW S, NEW raw \in Seq(S), NEW n \in 0..Len(raw)
    PROVE  \E f \in [0..n -> Seq(S)] : Kept(raw, f, n)
<1> DEFINE Has(k) == \E f \in [0..k -> Seq(S)] : Kept(raw, f, k)
           T == {k \in 0..Len(raw) : ~Has(k)}
<1>1. Len(raw) \in Nat /\ \A i \in 1..Len(raw) : raw[i] \in S
    BY ElementOfSeq
<1>2. SUFFICES ASSUME T # {} PROVE FALSE
    OBVIOUS
<1>3. T \in SUBSET Nat
    BY <1>1
<1>4. PICK m \in T : \A k \in T : m <= k
  <2> HIDE DEF T
  <2>1. QED
      BY <1>2, <1>3, Smallest
<1>5. CASE m = 0
  <2>1. PICK f : f = [i \in 0..0 |-> <<>>]
      OBVIOUS
  <2>2. <<>> \in Seq(S) /\ \A i \in 0..0 : i = 0
      OBVIOUS
  <2>3. f \in [0..0 -> Seq(S)]
      BY <2>1, <2>2
  <2>4. Kept(raw, f, 0)
      BY <2>1, <2>2 DEF Kept
  <2>5. QED
      BY <1>4, <1>5, <2>3, <2>4
<1>6. CASE m # 0
  <2>1. m \in 1..Len(raw) /\ m - 1 \in 0..Len(raw) /\ m - 1 \notin T
    <3>1. m \in 0..Len(raw)
        BY <1>4
    <3>2. m \in 1..Len(raw) /\ m - 1 \in 0..Len(raw) /\ ~(m <= m - 1)
        BY <1>1, <1>6, <3>1
    <3> HIDE DEF T
    <3>3. QED
        BY <1>4, <3>2
  <2>2. PICK f \in [0..m - 1 -> Seq(S)] : Kept(raw, f, m - 1)
      BY <2>1
  <2>3. PICK last \in Seq(S) :
          last = IF raw[m] \in {".", ""} THEN f[m - 1] ELSE Append(f[m - 1], raw[m])
    <3>1. f[m - 1] \in Seq(S) /\ raw[m] \in S
        BY <1>1, <2>1, <2>2
    <3>2. Append(f[m - 1], raw[m]) \in Seq(S)
        BY <3>1
    <3>3. QED
        BY <3>1, <3>2
  <2>4. PICK g : g = [i \in 0..m |-> IF i = m THEN last ELSE f[i]]
      OBVIOUS
  <2>5. g \in [0..m -> Seq(S)] /\ g[m] = last /\ \A i \in 0..m - 1 : g[i] = f[i]
    <3>1. /\ m \in 0..m
          /\ \A i \in 0..m : i # m => i \in 0..m - 1
          /\ \A i \in 0..m - 1 : i \in 0..m /\ i # m
        BY <2>1
    <3>2. g \in [0..m -> Seq(S)]
        BY <2>2, <2>3, <2>4, <3>1
    <3>3. QED
        BY <2>4, <3>1, <3>2
  <2>6. ASSUME NEW i \in 0..m
        PROVE  g[i] = IF i = 0 THEN <<>>
                      ELSE IF raw[i] \in {".", ""} THEN g[i - 1] ELSE Append(g[i - 1], raw[i])
    <3>1. CASE i = m
      <4>1. m - 1 \in 0..m - 1 /\ i # 0
          BY <2>1, <3>1
      <4>2. QED
          BY <2>3, <2>5, <3>1, <4>1
    <3>2. CASE i # m
      <4>1. i \in 0..m - 1 /\ (i # 0 => i - 1 \in 0..m - 1)
          BY <2>1, <3>2
      <4>2. QED
          BY <2>2, <2>5, <4>1 DEF Kept
    <3>3. QED
        BY <3>1, <3>2
  <2>7. Has(m)
      BY <2>5, <2>6 DEF Kept
  <2>8. QED
      BY <1>4, <2>7
<1>7. QED
    BY <1>5, <1>6

LEMMA NormalIs ==
    ASSUME NEW raw \in Seq(STRING), NEW path \in File!Normal(raw)
    PROVE  path \in Seq(Segments)
<1> DEFINE E(f) == [i \in 0..Len(raw) |->
                     IF i = 0 THEN <<>>
                     ELSE IF raw[i] \in {".", ""} THEN f[i - 1] ELSE Append(f[i - 1], raw[i])]
           kept == CHOOSE f : f = E(f)
<1>1. /\ \A i \in DOMAIN raw : raw[i] # ".."
      /\ path = kept[Len(raw)]
    BY DEF File!Normal
<1>2. Len(raw) \in Nat /\ \A i \in 1..Len(raw) : raw[i] \in STRING /\ raw[i] # ".."
  <2>1. DOMAIN raw = 1..Len(raw) /\ Len(raw) \in Nat
      OBVIOUS
  <2>2. QED
      BY <1>1, <2>1, ElementOfSeq
<1>3. raw \in Seq(Segments)
  <2>1. \A i \in 1..Len(raw) : raw[i] \in Segments
      BY <1>2 DEF Segments
  <2>2. QED
      BY <1>2, <2>1, SeqDef
<1>4. PICK g \in [0..Len(raw) -> Seq(Segments)] : Kept(raw, g, Len(raw))
  <2>1. Len(raw) \in 0..Len(raw)
      BY <1>2
  <2>2. QED
      BY <1>3, <2>1, KeptExists
<1>5. g = E(g)
    BY <1>4 DEF Kept
<1>6. kept = E(kept)
  <2> HIDE DEF E
  <2>1. QED
      BY <1>5
<1> HIDE DEF kept
<1>7. Kept(raw, kept, Len(raw))
    BY <1>6 DEF Kept
<1> DEFINE T == {i \in 0..Len(raw) : kept[i] \notin Seq(Segments)}
<1>8. ASSUME T # {} PROVE FALSE
  <2>1. T \in SUBSET Nat
      BY <1>2
  <2>2. PICK m \in T : \A k \in T : m <= k
    <3> HIDE DEF T
    <3>1. QED
        BY <1>8, <2>1, Smallest
  <2>3. CASE m = 0
    <3>1. 0 \in 0..Len(raw) /\ <<>> \in Seq(Segments)
        BY <1>2
    <3>2. kept[0] = <<>>
        BY <1>7, <3>1 DEF Kept
    <3>3. QED
        BY <2>2, <2>3, <3>1, <3>2
  <2>4. CASE m # 0
    <3>1. m \in 1..Len(raw) /\ m - 1 \in 0..Len(raw) /\ m - 1 \notin T
        BY <1>2, <2>2, <2>4
    <3>2. kept[m - 1] \in Seq(Segments) /\ raw[m] \in Segments
        BY <1>2, <3>1 DEF Segments
    <3>3. Append(kept[m - 1], raw[m]) \in Seq(Segments)
        BY <3>2
    <3>4. kept[m] \in {kept[m - 1], Append(kept[m - 1], raw[m])}
        BY <1>7, <2>4, <3>1 DEF Kept
    <3>5. QED
        BY <2>2, <3>2, <3>3, <3>4
  <2>5. QED
      BY <2>3, <2>4
<1>9. QED
    BY <1>1, <1>2, <1>8

-----------------------------------------------------------------------------
\* The nodes of an account: the parent of one is a folder.
TreeOk(nodes) ==
  /\ DOMAIN nodes \subseteq Seq(STRING)
  /\ \A x \in DOMAIN nodes : nodes[x].size \in Nat
  /\ \A x \in DOMAIN nodes :
       x # <<>> => File!Parent(x) \in DOMAIN nodes /\ nodes[File!Parent(x)].dir

LEMMA WithoutOk ==
    ASSUME NEW nodes, TreeOk(nodes), NEW x \in Seq(STRING)
    PROVE  /\ TreeOk(File!Without(nodes, x))
           /\ DOMAIN File!Without(nodes, x) = {y \in DOMAIN nodes : ~File!Under(x, y)}
           /\ \A y \in DOMAIN nodes : ~File!Under(x, y) => File!Without(nodes, x)[y] = nodes[y]
<1>1. PICK rest : rest = File!Without(nodes, x)
    OBVIOUS
<1>2. /\ DOMAIN rest = {y \in DOMAIN nodes : ~File!Under(x, y)}
      /\ \A y \in DOMAIN nodes : ~File!Under(x, y) => rest[y] = nodes[y]
    BY <1>1 DEF File!Without
<1>3. TreeOk(rest)
  <2>1. DOMAIN rest \subseteq Seq(STRING) /\ \A y \in DOMAIN rest : rest[y].size \in Nat
      BY <1>2 DEF TreeOk
  <2>2. ASSUME NEW y \in DOMAIN rest, y # <<>>
        PROVE  File!Parent(y) \in DOMAIN rest /\ rest[File!Parent(y)].dir
    <3>1. /\ y \in DOMAIN nodes /\ y \in Seq(STRING) /\ ~File!Under(x, y)
          /\ File!Parent(y) \in DOMAIN nodes /\ nodes[File!Parent(y)].dir
        BY <1>2, <2>2 DEF TreeOk
    <3>2. ~File!Under(x, File!Parent(y))
        BY <2>2, <3>1, UnderParent
    <3>3. QED
        BY <1>2, <3>1, <3>2
  <2>3. QED
      BY <2>1, <2>2 DEF TreeOk
<1>4. QED
    BY <1>1, <1>2, <1>3

Sized(node) == node.size \in Nat

\* A place in a folder, with nothing there or a file.
Writable(nodes, x) ==
  /\ x # <<>> /\ File!Parent(x) \in DOMAIN nodes /\ nodes[File!Parent(x)].dir
  /\ x \in DOMAIN nodes => ~nodes[x].dir

LEMMA WithOk ==
    ASSUME NEW nodes, TreeOk(nodes), NEW x \in Seq(STRING), Writable(nodes, x),
           NEW node, Sized(node)
    PROVE  /\ TreeOk(File!With(nodes, x, node))
           /\ DOMAIN File!With(nodes, x, node) = DOMAIN nodes \union {x}
           /\ \A y \in DOMAIN nodes : y # x => File!With(nodes, x, node)[y] = nodes[y]
<1>1. PICK more : more = File!With(nodes, x, node)
    OBVIOUS
<1>2. /\ DOMAIN more = DOMAIN nodes \union {x}
      /\ \A y \in DOMAIN nodes : y # x => more[y] = nodes[y]
      /\ more[x] = node
    BY <1>1 DEF File!With
<1>3. TreeOk(more)
  <2>1. DOMAIN more \subseteq Seq(STRING) /\ \A y \in DOMAIN more : more[y].size \in Nat
      BY <1>2 DEF TreeOk, Sized
  <2>2. ASSUME NEW y \in DOMAIN more, y # <<>>
        PROVE  File!Parent(y) \in DOMAIN more /\ more[File!Parent(y)].dir
    <3>1. /\ y \in Seq(STRING)
          /\ File!Parent(y) \in DOMAIN nodes /\ nodes[File!Parent(y)].dir
        BY <1>2, <2>2 DEF TreeOk, Writable
    <3>2. File!Parent(y) # x
        BY <3>1 DEF Writable
    <3>3. QED
        BY <1>2, <3>1, <3>2
  <2>3. QED
      BY <2>1, <2>2 DEF TreeOk
<1>4. QED
    BY <1>1, <1>2, <1>3

\* Where nothing is, there is nothing below either.
LEMMA NothingBelow ==
    ASSUME NEW nodes, TreeOk(nodes), NEW x \in Seq(STRING), x \notin DOMAIN nodes
    PROVE  \A y \in DOMAIN nodes : ~File!Under(x, y)
<1> DEFINE T == {n \in Nat : \E y \in DOMAIN nodes : File!Under(x, y) /\ Len(y) = n}
<1>1. SUFFICES ASSUME NEW y \in DOMAIN nodes, File!Under(x, y) PROVE FALSE
    OBVIOUS
<1>2. Len(y) \in T
    BY <1>1 DEF TreeOk
<1>3. T \in SUBSET Nat
    OBVIOUS
<1>4. PICK m \in T : \A k \in T : m <= k
  <2> HIDE DEF T
  <2>1. QED
      BY <1>2, <1>3, Smallest
<1>5. PICK z \in DOMAIN nodes : File!Under(x, z) /\ Len(z) = m
    BY <1>4
<1>6. z \in Seq(STRING) /\ z # x
    BY <1>5 DEF TreeOk
<1>7. z # <<>> /\ File!Under(x, File!Parent(z))
    BY <1>5, <1>6, UnderParent
<1>8. File!Parent(z) \in DOMAIN nodes
    BY <1>5, <1>7 DEF TreeOk
<1>9. Len(File!Parent(z)) = m - 1 /\ m \in Nat \ {0}
    BY <1>5, <1>6, <1>7, ParentElements
<1>10. m - 1 \in T
    BY <1>7, <1>8, <1>9
<1> HIDE DEF T
<1>11. QED
    BY <1>4, <1>9, <1>10

\* What is at from or below it comes to be at to or below it, where nothing was.
LEMMA MovedOk ==
    ASSUME NEW nodes, TreeOk(nodes), NEW from \in DOMAIN nodes, NEW to \in Seq(STRING),
           to # <<>>, File!Parent(to) \in DOMAIN nodes, nodes[File!Parent(to)].dir,
           ~File!Under(from, to), \A y \in DOMAIN nodes : ~File!Under(to, y)
    PROVE  /\ TreeOk(File!Moved(nodes, from, to))
           /\ \A y \in DOMAIN nodes : ~File!Under(from, y) =>
                /\ y \in DOMAIN File!Moved(nodes, from, to)
                /\ File!Moved(nodes, from, to)[y] = nodes[y]
           /\ \A y \in DOMAIN File!Moved(nodes, from, to) :
                \/ y \in DOMAIN nodes /\ ~File!Under(from, y)
                \/ File!Under(to, y)
<1> DEFINE R(z) == File!Rebased(z, from, to)
           B(y) == File!Rebased(y, to, from)
<1>1. PICK new : new = File!Moved(nodes, from, to)
    OBVIOUS
<1>2. /\ DOMAIN new = {z \in DOMAIN nodes : ~File!Under(from, z)}
                        \union {R(z) : z \in {z \in DOMAIN nodes : File!Under(from, z)}}
      /\ \A y \in DOMAIN new : new[y] = IF File!Under(to, y) THEN nodes[B(y)] ELSE nodes[y]
    BY <1>1 DEF File!Moved
<1>3. from \in Seq(STRING) /\ DOMAIN nodes \subseteq Seq(STRING)
    BY DEF TreeOk
<1>4. ASSUME NEW z \in DOMAIN nodes, File!Under(from, z)
      PROVE  /\ R(z) \in Seq(STRING) /\ File!Under(to, R(z)) /\ B(R(z)) = z
             /\ R(z) \in DOMAIN new /\ new[R(z)] = nodes[z]
             /\ z = from => R(z) = to
             /\ z # from => /\ z # <<>> /\ File!Under(from, File!Parent(z))
                            /\ File!Parent(R(z)) = R(File!Parent(z))
  <2>1. z \in Seq(STRING)
      BY <1>3
  <2>2. PICK r : r = R(z)
      OBVIOUS
  <2>3. /\ r \in Seq(STRING) /\ File!Under(to, r)
        /\ File!Rebased(r, to, from) = z
        /\ (z = from) <=> (r = to)
        /\ z # from => /\ z # <<>> /\ r # <<>>
                       /\ File!Under(from, File!Parent(z))
                       /\ File!Parent(r) = File!Rebased(File!Parent(z), from, to)
    <3>1. r = File!Rebased(z, from, to)
        BY <2>2
    <3> HIDE DEF R, B
    <3>2. QED
        BY <1>3, <1>4, <2>1, <3>1, RebasedFacts
  <2>4. r \in DOMAIN new
      BY Zenon, <1>2, <1>4, <2>2
  <2>5. new[r] = nodes[z]
      BY Zenon, <1>2, <2>3, <2>4
  <2>6. QED
      BY Zenon, <2>2, <2>3, <2>4, <2>5
<1>5. ASSUME NEW y \in DOMAIN nodes, ~File!Under(from, y)
      PROVE  y \in DOMAIN new /\ new[y] = nodes[y]
    BY <1>2, <1>5
<1>6. ASSUME NEW y \in DOMAIN new
      PROVE  \/ y \in DOMAIN nodes /\ ~File!Under(from, y)
             \/ \E z \in DOMAIN nodes : File!Under(from, z) /\ y = R(z)
    BY <1>2
<1> HIDE DEF R, B
<1>7. TreeOk(new)
  <2>1. ASSUME NEW y \in DOMAIN new
        PROVE  y \in Seq(STRING) /\ new[y].size \in Nat
    <3>1. CASE y \in DOMAIN nodes /\ ~File!Under(from, y)
        BY <1>5, <3>1 DEF TreeOk
    <3>2. CASE \E z \in DOMAIN nodes : File!Under(from, z) /\ y = R(z)
        BY <1>4, <3>2 DEF TreeOk
    <3>3. QED
        BY <1>6, <3>1, <3>2
  <2>2. ASSUME NEW y \in DOMAIN new, y # <<>>
        PROVE  File!Parent(y) \in DOMAIN new /\ new[File!Parent(y)].dir
    <3>1. CASE y \in DOMAIN nodes /\ ~File!Under(from, y)
      <4>1. File!Parent(y) \in DOMAIN nodes /\ nodes[File!Parent(y)].dir
          BY <2>2, <3>1 DEF TreeOk
      <4>2. ~File!Under(from, File!Parent(y))
          BY <1>3, <2>2, <3>1, UnderParent
      <4>3. QED
          BY <1>5, <4>1, <4>2
    <3>2. ASSUME NEW z \in DOMAIN nodes, File!Under(from, z), y = R(z)
          PROVE  File!Parent(y) \in DOMAIN new /\ new[File!Parent(y)].dir
      <4>1. CASE z = from
        <5>1. y = to
            BY <1>4, <3>2, <4>1
        <5>2. ~File!Under(from, File!Parent(to))
            BY <1>3, UnderParent
        <5>3. QED
            BY <1>5, <5>1, <5>2
      <4>2. CASE z # from
        <5>1. /\ z # <<>> /\ File!Under(from, File!Parent(z))
              /\ File!Parent(y) = R(File!Parent(z))
            BY <1>4, <3>2, <4>2
        <5>2. File!Parent(z) \in DOMAIN nodes /\ nodes[File!Parent(z)].dir
            BY <5>1 DEF TreeOk
        <5>3. QED
            BY <1>4, <5>1, <5>2
      <4>3. QED
          BY <4>1, <4>2
    <3>3. QED
        BY <1>6, <3>1, <3>2
  <2>3. QED
      BY <2>1, <2>2 DEF TreeOk
<1>8. ASSUME NEW y \in DOMAIN new
      PROVE  \/ y \in DOMAIN nodes /\ ~File!Under(from, y)
             \/ File!Under(to, y)
    BY <1>4, <1>6
<1>9. QED
    BY <1>1, <1>5, <1>7, <1>8

-----------------------------------------------------------------------------
StepsOf == [none   |-> {"idle"},
            read   |-> {"stat", "get", "stream", "done"},
            write  |-> {"put", "confirm", "done"},
            mkdir  |-> {"mkcol", "confirm", "done"},
            delete |-> {"delete", "done"},
            move   |-> {"move", "confirm", "done"},
            shares |-> {"settings", "inventory", "done"}]

CallType ==
  [op : DOMAIN StepsOf, at : File!Steps, account : Accounts, root : Seq(Segments),
   path : Seq(Segments), to : Seq(Segments), overwrite : BOOLEAN, size : Nat, got : Nat,
   entries : SUBSET Seq(STRING), answer : File!Answers, done : BOOLEAN]

\* A call that works on files does so below the root of its account, never
\* deletes that root, and has done its request once it confirms it.
CallOk(c) ==
  /\ c.at \in StepsOf[c.op]
  /\ (c.at = "done") = (c.answer # "none")
  /\ c.at \notin {"idle", "done"} /\ c.op # "shares" => c.root = RootOf[c.account]
  /\ c.at = "delete" => c.path # <<>>
  /\ c.at = "confirm" => c.done
  /\ c.done => c.at \in {"confirm", "done"}
  /\ c.got <= TransferLimit
  /\ c.answer = "ok" /\ c.op \in {"write", "mkdir", "move", "delete"} => c.done
  /\ c.answer = "ok" /\ c.op = "read" => c.got = c.size
  /\ c.answer = "refused" => ~c.done

FilesInv ==
  /\ linked \in Accounts
  /\ call \in [Calls -> CallType]
  /\ \A p \in Calls : CallOk(call[p])
  /\ DOMAIN tree = Accounts /\ \A a \in Accounts : TreeOk(tree[a])
  /\ File!RootStays

LEMMA FilesAssumptions ==
    /\ RootOf \in [Accounts -> Seq(Segments)]
    /\ \A a \in Accounts : \A x \in Shared[a] :
         x \in Seq(STRING) /\ File!Under(File!Parent(x), RootOf[a])
    /\ GivenPaths \subseteq Seq(STRING) /\ Destinations \subseteq Seq(STRING)
    /\ TransferLimit \in Nat \ {0} /\ Sizes \subseteq Nat
    BY ToolsAssumption DEF ToolsAssumption, File!ToolsAssumption, Segments

LEMMA SegmentsAreStrings ==
    ASSUME NEW x \in Seq(Segments)
    PROVE  x \in Seq(STRING)
<1>1. Len(x) \in Nat /\ \A i \in 1..Len(x) : x[i] \in STRING
    BY ElementOfSeq DEF Segments
<1>2. x = [i \in 1..Len(x) |-> x[i]]
    OBVIOUS
<1>3. QED
    BY <1>1, <1>2, SeqDef

\* The paths of a call are below its root, at it exactly for the empty path.
LEMMA UrlBelow ==
    ASSUME NEW top \in Seq(Segments), NEW path \in Seq(Segments)
    PROVE  /\ File!Url(top, path) \in Seq(STRING) /\ File!Under(top, File!Url(top, path))
           /\ (path = <<>>) <=> (File!Url(top, path) = top)
<1>1. PICK u : u = File!Url(top, path)
    OBVIOUS
<1>2. u = top \o path
    BY <1>1, UrlPlain
<1>3. top \in Seq(STRING) /\ path \in Seq(STRING)
    BY SegmentsAreStrings
<1>4. /\ u \in Seq(STRING) /\ Len(u) = Len(top) + Len(path)
      /\ Len(top) \in Nat /\ Len(path) \in Nat
    BY <1>2, <1>3, Concat
<1>5. File!Under(top, u)
    BY <1>2, <1>3, UnderFacts
<1>6. path = <<>> => u = top
    BY <1>2, <1>3
<1>7. u = top => path = <<>>
  <2>1. u = top => Len(path) = 0
      BY <1>4
  <2>2. QED
      BY <1>3, <2>1, EmptySeq
<1>8. QED
    BY <1>1, <1>4, <1>5, <1>6, <1>7

LEMMA CallPaths ==
    ASSUME FilesInv, NEW p \in Calls
    PROVE  /\ call[p] \in CallType /\ CallOk(call[p]) /\ call[p].account \in Accounts
           /\ call[p].root \in Seq(Segments) /\ call[p].root \in Seq(STRING)
           /\ File!Target(p) \in Seq(STRING) /\ File!Under(call[p].root, File!Target(p))
           /\ (call[p].path = <<>>) <=> (File!Target(p) = call[p].root)
           /\ File!Destination(p) \in Seq(STRING)
           /\ File!Under(call[p].root, File!Destination(p))
           /\ (call[p].to = <<>>) <=> (File!Destination(p) = call[p].root)
           /\ TreeOk(File!Nodes(p))
<1>1. /\ call[p] \in CallType /\ CallOk(call[p]) /\ call[p].account \in Accounts
      /\ call[p].root \in Seq(Segments)
      /\ call[p].path \in Seq(Segments) /\ call[p].to \in Seq(Segments)
    BY DEF FilesInv, CallType
<1>2. TreeOk(File!Nodes(p))
    BY <1>1 DEF FilesInv, File!Nodes
<1>3. QED
    BY <1>1, <1>2, UrlBelow, SegmentsAreStrings DEF File!Target, File!Destination

-----------------------------------------------------------------------------
\* What a step of a call may do to the nodes of its account.
SameNode(old, new, x) ==
  /\ (x \in DOMAIN old) = (x \in DOMAIN new)
  /\ x \in DOMAIN old => new[x] = old[x]

Confined(c, target, old, new) ==
  /\ \A x \in DOMAIN old \union DOMAIN new : SameNode(old, new, x) \/ File!Under(c.root, x)
  /\ ~c.overwrite => \A x \in DOMAIN old :
       \/ SameNode(old, new, x)
       \/ x \notin DOMAIN new /\ c.op \in {"move", "delete"} /\ File!Under(target, x)
  /\ RootOf[c.account] \in DOMAIN old =>
       \/ RootOf[c.account] \in DOMAIN new
       \/ c.op = "move" /\ c.to = <<>> /\ c.overwrite

Effect(p) ==
  /\ linked' = linked
  /\ \E c \in CallType :
       /\ CallOk(c) /\ call' = [call EXCEPT ![p] = c]
       /\ call[p].op = "move" => /\ c.op = "move" /\ c.account = call[p].account
                                 /\ c.to = call[p].to /\ c.overwrite = call[p].overwrite
  /\ \/ tree' = tree
     \/ \E nodes :
          /\ tree' = [tree EXCEPT ![call[p].account] = nodes]
          /\ TreeOk(nodes) /\ Confined(call[p], File!Target(p), File!Nodes(p), nodes)

LEMMA EffectKeeps ==
    ASSUME FilesInv, NEW p \in Calls, Effect(p)
    PROVE  FilesInv' /\ File!OnlyBelowRoot /\ File!NothingReplacedUnasked
<1>1. PICK c \in CallType :
        /\ CallOk(c) /\ call' = [call EXCEPT ![p] = c]
        /\ call[p].op = "move" => /\ c.op = "move" /\ c.account = call[p].account
                                  /\ c.to = call[p].to /\ c.overwrite = call[p].overwrite
    BY DEF Effect
<1>2. /\ call \in [Calls -> CallType] /\ call[p] \in CallType /\ call[p].account \in Accounts
      /\ DOMAIN tree = Accounts
    BY DEF FilesInv, CallType
<1>3. /\ call' \in [Calls -> CallType] /\ call'[p] = c
      /\ \A q \in Calls : q # p => call'[q] = call[q]
    BY <1>1, <1>2
<1>4. \A q \in Calls : CallOk(call'[q])
    BY <1>1, <1>3 DEF FilesInv
<1>5. /\ DOMAIN tree' = Accounts
      /\ \A a \in Accounts : TreeOk(tree'[a])
      /\ \A a \in Accounts : a # call[p].account => tree'[a] = tree[a]
      /\ \/ tree'[call[p].account] = tree[call[p].account]
         \/ Confined(call[p], File!Target(p), File!Nodes(p), tree'[call[p].account])
  <2>1. CASE tree' = tree
      BY <1>2, <2>1 DEF FilesInv
  <2>2. ASSUME NEW nodes, tree' = [tree EXCEPT ![call[p].account] = nodes], TreeOk(nodes),
               Confined(call[p], File!Target(p), File!Nodes(p), nodes)
        PROVE  /\ DOMAIN tree' = Accounts
               /\ tree'[call[p].account] = nodes
               /\ \A a \in Accounts : a # call[p].account => tree'[a] = tree[a]
      BY <1>2, <2>2 DEF FilesInv
  <2>3. CASE \E nodes :
               /\ tree' = [tree EXCEPT ![call[p].account] = nodes]
               /\ TreeOk(nodes) /\ Confined(call[p], File!Target(p), File!Nodes(p), nodes)
      BY <2>2, <2>3 DEF FilesInv
  <2>4. QED
      BY <2>1, <2>3 DEF Effect
<1>6. File!RootStays'
  <2> SUFFICES ASSUME NEW a \in Accounts
               PROVE  \/ RootOf[a] \in DOMAIN tree'[a]
                      \/ \E q \in Calls : call'[q].op = "move" /\ call'[q].account = a
                                          /\ call'[q].to = <<>> /\ call'[q].overwrite
      BY DEF File!RootStays
  <2>1. ASSUME NEW q \in Calls, call[q].op = "move", call[q].account = a,
               call[q].to = <<>>, call[q].overwrite
        PROVE  call'[q].op = "move" /\ call'[q].account = a
               /\ call'[q].to = <<>> /\ call'[q].overwrite
      BY <1>1, <1>3, <2>1
  <2>2. CASE RootOf[a] \notin DOMAIN tree[a]
      BY <2>1, <2>2 DEF FilesInv, File!RootStays
  <2>3. CASE RootOf[a] \in DOMAIN tree[a] /\ a # call[p].account
      BY <1>5, <2>3
  <2>4. CASE RootOf[a] \in DOMAIN tree[a] /\ a = call[p].account
      BY <1>5, <2>1, <2>4 DEF Confined, File!Nodes
  <2>5. QED
      BY <2>2, <2>3, <2>4
<1>7. FilesInv'
    BY <1>2, <1>3, <1>4, <1>5, <1>6 DEF FilesInv, Effect
<1>8. File!OnlyBelowRoot
  <2> SUFFICES ASSUME NEW q \in Calls, File!Acts(q), NEW a \in Accounts,
                      NEW x \in DOMAIN tree[a] \union DOMAIN tree'[a]
               PROVE  File!Same(a, x) \/ (a = call[q].account /\ File!Under(call[q].root, x))
      BY DEF File!OnlyBelowRoot
  <2>1. q = p
      BY <1>3 DEF File!Acts
  <2>2. CASE a # call[p].account \/ tree'[call[p].account] = tree[call[p].account]
      BY <1>5, <2>2 DEF File!Same
  <2>3. CASE a = call[p].account /\ Confined(call[p], File!Target(p), File!Nodes(p), tree'[a])
      BY <2>1, <2>3 DEF Confined, SameNode, File!Same, File!Nodes
  <2>4. QED
      BY <1>5, <2>2, <2>3
<1>9. File!NothingReplacedUnasked
  <2> SUFFICES ASSUME NEW q \in Calls, File!Acts(q), ~call[q].overwrite,
                      NEW x \in DOMAIN File!Nodes(q)
               PROVE  \/ File!Same(call[q].account, x)
                      \/ /\ x \notin DOMAIN tree'[call[q].account]
                         /\ call[q].op \in {"move", "delete"} /\ File!Under(File!Target(q), x)
      BY DEF File!NothingReplacedUnasked
  <2>1. q = p
      BY <1>3 DEF File!Acts
  <2>2. CASE tree'[call[p].account] = tree[call[p].account]
      BY <2>1, <2>2 DEF File!Same
  <2>3. CASE Confined(call[p], File!Target(p), File!Nodes(p), tree'[call[p].account])
      BY <2>1, <2>3 DEF Confined, SameNode, File!Same, File!Nodes
  <2>4. QED
      BY <1>5, <2>2, <2>3
<1>10. QED
    BY <1>7, <1>8, <1>9

-----------------------------------------------------------------------------
\* The steps of a call.
FieldsOk(f) ==
  /\ f \in CallType /\ f.answer = "none" /\ ~f.done /\ f.got = 0

LEMMA FreshOk ==
    ASSUME Accounts # {}
    PROVE  FieldsOk(File!Fresh) /\ CallOk(File!Fresh) /\ File!Fresh.op = "none"
           /\ File!Fresh.at = "idle"
<1>1. PICK a \in Accounts : a = CHOOSE b \in Accounts : TRUE
    OBVIOUS
<1>2. <<>> \in Seq(Segments) /\ 0 <= TransferLimit
    BY FilesAssumptions
<1>3. /\ DOMAIN StepsOf = {"none", "read", "write", "mkdir", "delete", "move", "shares"}
      /\ StepsOf["none"] = {"idle"}
    BY DEF StepsOf
<1>4. File!Fresh = [op |-> "none", at |-> "idle", account |-> a,
                    root |-> <<>>, path |-> <<>>, to |-> <<>>, overwrite |-> FALSE, size |-> 0,
                    got |-> 0, entries |-> {}, answer |-> "none", done |-> FALSE]
    BY <1>1 DEF File!Fresh
<1>5. File!Fresh \in CallType
    BY <1>2, <1>3, <1>4 DEF CallType, File!Steps, File!Answers
<1>6. QED
    BY <1>2, <1>3, <1>4, <1>5 DEF CallOk, FieldsOk

LEMMA StepsAre ==
    /\ DOMAIN StepsOf = {"none", "read", "write", "mkdir", "delete", "move", "shares"}
    /\ StepsOf["none"] = {"idle"}
    /\ StepsOf["read"] = {"stat", "get", "stream", "done"}
    /\ StepsOf["write"] = {"put", "confirm", "done"}
    /\ StepsOf["mkdir"] = {"mkcol", "confirm", "done"}
    /\ StepsOf["delete"] = {"delete", "done"}
    /\ StepsOf["move"] = {"move", "confirm", "done"}
    /\ StepsOf["shares"] = {"settings", "inventory", "done"}
    BY DEF StepsOf

\* A call at a step is of the operation that has the step.
LEMMA StepTells ==
    ASSUME NEW c \in CallType, CallOk(c)
    PROVE  /\ c.at = "idle" => c.op = "none"
           /\ c.at \in {"stat", "get", "stream"} => c.op = "read"
           /\ c.at = "put" => c.op = "write"
           /\ c.at = "mkcol" => c.op = "mkdir"
           /\ c.at = "delete" => c.op = "delete"
           /\ c.at = "move" => c.op = "move"
           /\ c.at = "confirm" => c.op \in {"write", "mkdir", "move"}
           /\ c.at \in {"settings", "inventory"} => c.op = "shares"
    BY StepsAre DEF CallType, CallOk

LEMMA BeginEffect ==
    ASSUME FilesInv, NEW p \in Calls, NEW op \in DOMAIN StepsOf \ {"none"},
           NEW first \in StepsOf[op] \ {"done", "confirm"}, NEW fields,
           FieldsOk(fields), first = "delete" => fields.path # <<>>,
           File!Begin(p, op, first, fields)
    PROVE  Effect(p)
<1> DEFINE c == [fields EXCEPT !.op = op, !.account = linked, !.root = RootOf[linked],
                               !.at = first]
<1>1. linked \in Accounts /\ RootOf[linked] \in Seq(Segments)
    BY FilesAssumptions DEF FilesInv
<1>2. first \in File!Steps /\ first \notin {"done", "confirm"}
    BY StepsAre DEF File!Steps
<1>3. c \in CallType
    BY <1>1, <1>2 DEF FieldsOk, CallType
<1>4. /\ c.op = op /\ c.at = first /\ c.account = linked /\ c.root = RootOf[linked]
      /\ c.path = fields.path /\ c.answer = "none" /\ ~c.done /\ c.got = 0
    BY DEF FieldsOk, CallType
<1>5. call[p].at = "idle" /\ call' = [call EXCEPT ![p] = c]
      /\ linked' = linked /\ tree' = tree
    BY DEF File!Begin
<1>6. call[p].op = "none"
    BY <1>5, CallPaths, StepTells
<1> HIDE DEF c
<1>7. CallOk(c)
    BY <1>2, <1>4, FilesAssumptions DEF CallOk
<1>8. QED
    BY <1>3, <1>5, <1>6, <1>7 DEF Effect

LEMMA RefuseEffect ==
    ASSUME FilesInv, NEW p \in Calls, NEW op \in DOMAIN StepsOf \ {"none"}, File!Refuse(p, op)
    PROVE  Effect(p)
<1> DEFINE c == [File!Fresh EXCEPT !.op = op, !.at = "done", !.answer = "refused"]
<1>1. FieldsOk(File!Fresh)
    BY FreshOk DEF FilesInv
<1>2. c \in CallType
    BY <1>1 DEF FieldsOk, CallType, File!Steps, File!Answers
<1>3. c.op = op /\ c.at = "done" /\ c.answer = "refused" /\ ~c.done /\ c.got = 0
    BY <1>1 DEF FieldsOk, CallType
<1>4. call[p].at = "idle" /\ call' = [call EXCEPT ![p] = c]
      /\ linked' = linked /\ tree' = tree
    BY DEF File!Refuse
<1>5. call[p].op = "none"
    BY <1>4, CallPaths, StepTells
<1> HIDE DEF c
<1>6. CallOk(c)
    BY <1>3, StepsAre, FilesAssumptions DEF CallOk
<1>7. QED
    BY <1>2, <1>4, <1>5, <1>6 DEF Effect

\* The paths and fields a call begins with.
LEMMA FieldsGiven ==
    ASSUME Accounts # {}, NEW path \in Seq(Segments), NEW to \in Seq(Segments),
           NEW size \in Nat, NEW overwrite \in BOOLEAN
    PROVE  /\ FieldsOk([File!Fresh EXCEPT !.path = path])
           /\ [File!Fresh EXCEPT !.path = path].path = path
           /\ FieldsOk([File!Fresh EXCEPT !.path = path, !.size = size, !.overwrite = overwrite])
           /\ FieldsOk([File!Fresh EXCEPT !.path = path, !.to = to, !.overwrite = overwrite])
<1>1. FieldsOk(File!Fresh)
    BY FreshOk
<1>2. QED
    BY <1>1 DEF FieldsOk, CallType

LEMMA BeginOnPathEffect ==
    ASSUME FilesInv, NEW p \in Calls, File!BeginOnPath(p)
    PROVE  Effect(p)
<1>1. PICK op \in DOMAIN File!FirstStep, raw \in GivenPaths :
        IF File!Normal(raw) = {} \/ \E path \in File!Normal(raw) : File!RefusesPath(op, path)
          THEN File!Refuse(p, op)
          ELSE \E path \in File!Normal(raw) :
                 File!Begin(p, op, File!FirstStep[op], [File!Fresh EXCEPT !.path = path])
    BY DEF File!BeginOnPath
<1>2. /\ op \in {"read", "mkdir", "delete"} /\ op \in DOMAIN StepsOf \ {"none"}
      /\ File!FirstStep[op] \in StepsOf[op] \ {"done", "confirm"}
      /\ File!FirstStep[op] = "delete" => op = "delete"
    BY StepsAre DEF File!FirstStep
<1>3. CASE File!Refuse(p, op)
    BY <1>2, <1>3, RefuseEffect
<1>4. ASSUME NEW path \in File!Normal(raw), ~File!RefusesPath(op, path),
             File!Begin(p, op, File!FirstStep[op], [File!Fresh EXCEPT !.path = path])
      PROVE  Effect(p)
  <2>1. path \in Seq(Segments) /\ Accounts # {}
      BY FilesAssumptions, NormalIs DEF FilesInv
  <2>2. FieldsOk([File!Fresh EXCEPT !.path = path])
        /\ [File!Fresh EXCEPT !.path = path].path = path
      BY <2>1, FieldsGiven
  <2>3. op = "delete" => path # <<>>
      BY <1>4 DEF File!RefusesPath
  <2>4. QED
      BY <1>2, <1>4, <2>2, <2>3, BeginEffect
<1>5. QED
    BY <1>1, <1>3, <1>4

LEMMA BeginWriteEffect ==
    ASSUME FilesInv, NEW p \in Calls, File!BeginWrite(p)
    PROVE  Effect(p)
<1>1. PICK raw \in GivenPaths, size \in Sizes, overwrite \in BOOLEAN :
        IF File!Normal(raw) = {} \/ size > TransferLimit THEN File!Refuse(p, "write")
        ELSE \E path \in File!Normal(raw) :
               File!Begin(p, "write", "put", [File!Fresh EXCEPT !.path = path, !.size = size,
                                                                !.overwrite = overwrite])
    BY DEF File!BeginWrite
<1>2. "write" \in DOMAIN StepsOf \ {"none"} /\ "put" \in StepsOf["write"] \ {"done", "confirm"}
    BY StepsAre
<1>3. CASE File!Refuse(p, "write")
    BY <1>2, <1>3, RefuseEffect
<1>4. ASSUME NEW path \in File!Normal(raw),
             File!Begin(p, "write", "put", [File!Fresh EXCEPT !.path = path, !.size = size,
                                                              !.overwrite = overwrite])
      PROVE  Effect(p)
  <2>1. path \in Seq(Segments) /\ Accounts # {} /\ size \in Nat
      BY FilesAssumptions, NormalIs DEF FilesInv
  <2>2. FieldsOk([File!Fresh EXCEPT !.path = path, !.size = size, !.overwrite = overwrite])
      BY <2>1, FieldsGiven
  <2>3. QED
      BY <1>2, <1>4, <2>2, BeginEffect
<1>5. QED
    BY <1>1, <1>3, <1>4

LEMMA BeginMoveEffect ==
    ASSUME FilesInv, NEW p \in Calls, File!BeginMove(p)
    PROVE  Effect(p)
<1>1. PICK raw \in GivenPaths, dest \in Destinations, overwrite \in BOOLEAN :
        IF File!Normal(raw) = {} \/ File!Normal(dest) = {} THEN File!Refuse(p, "move")
        ELSE \E path \in File!Normal(raw), to \in File!Normal(dest) :
               File!Begin(p, "move", "move", [File!Fresh EXCEPT !.path = path, !.to = to,
                                                                !.overwrite = overwrite])
    BY DEF File!BeginMove
<1>2. "move" \in DOMAIN StepsOf \ {"none"} /\ "move" \in StepsOf["move"] \ {"done", "confirm"}
    BY StepsAre
<1>3. CASE File!Refuse(p, "move")
    BY <1>2, <1>3, RefuseEffect
<1>4. ASSUME NEW path \in File!Normal(raw), NEW to \in File!Normal(dest),
             File!Begin(p, "move", "move", [File!Fresh EXCEPT !.path = path, !.to = to,
                                                              !.overwrite = overwrite])
      PROVE  Effect(p)
  <2>1. path \in Seq(Segments) /\ to \in Seq(Segments) /\ Accounts # {}
      BY FilesAssumptions, NormalIs DEF FilesInv
  <2>2. FieldsOk([File!Fresh EXCEPT !.path = path, !.to = to, !.overwrite = overwrite])
      BY <2>1, FieldsGiven
  <2>3. QED
      BY <1>2, <1>4, <2>2, BeginEffect
<1>5. QED
    BY <1>1, <1>3, <1>4

LEMMA BeginSharesEffect ==
    ASSUME FilesInv, NEW p \in Calls, File!BeginShares(p)
    PROVE  Effect(p)
<1>1. PICK raw \in GivenPaths :
        IF File!Normal(raw) = {} THEN File!Refuse(p, "shares")
        ELSE \E path \in File!Normal(raw) :
               File!Begin(p, "shares", "settings", [File!Fresh EXCEPT !.path = path])
    BY DEF File!BeginShares
<1>2. /\ "shares" \in DOMAIN StepsOf \ {"none"}
      /\ "settings" \in StepsOf["shares"] \ {"done", "confirm"}
    BY StepsAre
<1>3. CASE File!Refuse(p, "shares")
    BY <1>2, <1>3, RefuseEffect
<1>4. ASSUME NEW path \in File!Normal(raw),
             File!Begin(p, "shares", "settings", [File!Fresh EXCEPT !.path = path])
      PROVE  Effect(p)
  <2>1. path \in Seq(Segments) /\ Accounts # {}
      BY FilesAssumptions, NormalIs DEF FilesInv
  <2>2. FieldsOk([File!Fresh EXCEPT !.path = path])
      BY <2>1, FieldsGiven
  <2>3. QED
      BY <1>2, <1>4, <2>2, BeginEffect
<1>5. QED
    BY <1>1, <1>3, <1>4

\* A call is done, with an answer that is true of it.
LEMMA FinishEffect ==
    ASSUME FilesInv, NEW p \in Calls, NEW reply \in File!Answers \ {"none"},
           call[p].at \notin {"idle", "done"},
           reply = "ok" /\ call[p].op = "read" => call[p].got = call[p].size,
           reply = "ok" /\ call[p].op \in {"write", "mkdir", "move", "delete"} => call[p].done,
           reply = "refused" => ~call[p].done,
           File!Finish(p, reply), tree' = tree, linked' = linked
    PROVE  Effect(p)
<1> DEFINE c == [call[p] EXCEPT !.at = "done", !.answer = reply]
<1>1. call \in [Calls -> CallType] /\ call[p] \in CallType /\ CallOk(call[p])
    BY DEF FilesInv
<1>2. call' = [call EXCEPT ![p] = c]
    BY <1>1 DEF File!Finish, CallType
<1>3. c \in CallType
    BY <1>1 DEF CallType, File!Steps, File!Answers
<1>4. /\ c.at = "done" /\ c.answer = reply /\ c.op = call[p].op /\ c.done = call[p].done
      /\ c.got = call[p].got /\ c.size = call[p].size /\ c.account = call[p].account
      /\ c.to = call[p].to /\ c.overwrite = call[p].overwrite /\ c.root = call[p].root
      /\ c.path = call[p].path
    BY <1>1 DEF CallType
<1>5. "done" \in StepsOf[call[p].op]
    BY <1>1, StepsAre DEF CallOk, CallType
<1> HIDE DEF c
<1>6. CallOk(c)
    BY <1>1, <1>4, <1>5 DEF CallOk, File!Answers
<1>7. QED
    BY <1>2, <1>3, <1>4, <1>6 DEF Effect

LEMMA StatEffect ==
    ASSUME FilesInv, NEW p \in Calls, File!Stat(p)
    PROVE  Effect(p)
<1>1. /\ call[p].at = "stat" /\ call[p].op = "read" /\ ~call[p].done
      /\ call[p] \in CallType /\ CallOk(call[p]) /\ call \in [Calls -> CallType]
      /\ tree' = tree /\ linked' = linked
    BY CallPaths, StepTells DEF File!Stat, CallOk, FilesInv
<1>2. File!Finish(p, "refused") \/ File!Finish(p, "error") \/ File!Goto(p, "get")
    BY DEF File!Stat
<1>3. CASE File!Finish(p, "refused") \/ File!Finish(p, "error")
    BY <1>1, <1>3, FinishEffect DEF File!Answers
<1>4. CASE File!Goto(p, "get")
  <2> DEFINE c == [call[p] EXCEPT !.at = "get"]
  <2>1. call' = [call EXCEPT ![p] = c]
      BY <1>1, <1>4 DEF File!Goto, CallType
  <2>2. c \in CallType
      BY <1>1 DEF CallType, File!Steps
  <2>3. CallOk(c)
      BY <1>1, StepsAre DEF CallOk, CallType
  <2> HIDE DEF c
  <2>4. QED
      BY <1>1, <2>1, <2>2, <2>3 DEF Effect
<1>5. QED
    BY <1>2, <1>3, <1>4

LEMMA GetEffect ==
    ASSUME FilesInv, NEW p \in Calls, File!Get(p)
    PROVE  Effect(p)
<1>1. /\ call[p].at = "get" /\ call[p].op = "read" /\ ~call[p].done
      /\ call[p] \in CallType /\ CallOk(call[p]) /\ call \in [Calls -> CallType]
      /\ tree' = tree /\ linked' = linked
    BY CallPaths, StepTells DEF File!Get, CallOk, FilesInv
<1>2. PICK size : size = File!Nodes(p)[File!Target(p)].size
    OBVIOUS
<1>3. \/ File!Finish(p, "error")
      \/ /\ call' = [call EXCEPT ![p].at = "stream", ![p].size = size]
         /\ File!Exists(p, File!Target(p))
    BY <1>2 DEF File!Get
<1>4. CASE File!Finish(p, "error")
    BY <1>1, <1>4, FinishEffect DEF File!Answers
<1>5. CASE /\ call' = [call EXCEPT ![p].at = "stream", ![p].size = size]
           /\ File!Exists(p, File!Target(p))
  <2> DEFINE c == [call[p] EXCEPT !.at = "stream", !.size = size]
  <2>1. call' = [call EXCEPT ![p] = c]
      BY <1>1, <1>5 DEF CallType
  <2>2. size \in Nat
      BY <1>2, <1>5, CallPaths DEF TreeOk, File!Exists
  <2>3. c \in CallType
      BY <1>1, <2>2 DEF CallType, File!Steps
  <2>4. CallOk(c)
      BY <1>1, StepsAre DEF CallOk, CallType
  <2> HIDE DEF c
  <2>5. QED
      BY <1>1, <2>1, <2>3, <2>4 DEF Effect
<1>6. QED
    BY <1>3, <1>4, <1>5

LEMMA StreamEffect ==
    ASSUME FilesInv, NEW p \in Calls, File!Stream(p)
    PROVE  Effect(p)
<1>1. /\ call[p].at = "stream" /\ call[p].op = "read" /\ ~call[p].done
      /\ call[p] \in CallType /\ CallOk(call[p]) /\ call \in [Calls -> CallType]
      /\ tree' = tree /\ linked' = linked
    BY CallPaths, StepTells DEF File!Stream, CallOk, FilesInv
<1>2. \/ File!Finish(p, "error")
      \/ call[p].got = call[p].size /\ File!Finish(p, "ok")
      \/ \E n \in 1..call[p].size - call[p].got :
           File!Fits(p, n) /\ call' = [call EXCEPT ![p].got = @ + n]
    BY DEF File!Stream
<1>3. CASE File!Finish(p, "error")
    BY <1>1, <1>3, FinishEffect DEF File!Answers
<1>4. CASE call[p].got = call[p].size /\ File!Finish(p, "ok")
    BY <1>1, <1>4, FinishEffect DEF File!Answers
<1>5. ASSUME NEW n \in 1..call[p].size - call[p].got, File!Fits(p, n),
             call' = [call EXCEPT ![p].got = @ + n]
      PROVE  Effect(p)
  <2> DEFINE c == [call[p] EXCEPT !.got = @ + n]
  <2>1. call' = [call EXCEPT ![p] = c]
      BY <1>1, <1>5 DEF CallType
  <2>2. call[p].got \in Nat /\ call[p].got + n \in Nat /\ call[p].got + n <= TransferLimit
      BY <1>1, <1>5 DEF CallType, File!Fits
  <2>3. c \in CallType
      BY <1>1, <2>2 DEF CallType
  <2>4. CallOk(c)
      BY <1>1, <2>2, StepsAre DEF CallOk, CallType
  <2> HIDE DEF c
  <2>5. QED
      BY <1>1, <2>1, <2>3, <2>4 DEF Effect
<1>6. QED
    BY <1>2, <1>3, <1>4, <1>5

LEMMA ConfirmEffect ==
    ASSUME FilesInv, NEW p \in Calls, File!Confirm(p)
    PROVE  Effect(p)
<1>1. /\ call[p].at = "confirm" /\ call[p].op # "read" /\ call[p].done
      /\ tree' = tree /\ linked' = linked
    BY CallPaths, StepTells DEF File!Confirm, CallOk
<1>2. File!Finish(p, "ok") \/ File!Finish(p, "error")
    BY DEF File!Confirm
<1>3. QED
    BY <1>1, <1>2, FinishEffect DEF File!Answers

LEMMA ShareSettingsEffect ==
    ASSUME FilesInv, NEW p \in Calls, File!ShareSettings(p)
    PROVE  Effect(p)
<1> DEFINE c == [call[p] EXCEPT !.account = linked, !.at = "inventory"]
<1>1. /\ call[p].at = "settings" /\ call[p].op = "shares"
      /\ call[p] \in CallType /\ CallOk(call[p]) /\ call \in [Calls -> CallType]
      /\ tree' = tree /\ linked' = linked /\ linked \in Accounts
    BY CallPaths, StepTells DEF File!ShareSettings, FilesInv
<1>2. call' = [call EXCEPT ![p] = c]
    BY <1>1 DEF File!ShareSettings, CallType
<1>3. c \in CallType
    BY <1>1 DEF CallType, File!Steps
<1>4. CallOk(c)
    BY <1>1, StepsAre DEF CallOk, CallType
<1> HIDE DEF c
<1>5. QED
    BY <1>1, <1>2, <1>3, <1>4 DEF Effect

LEMMA InventoryEffect ==
    ASSUME FilesInv, NEW p \in Calls, File!Inventory(p)
    PROVE  Effect(p)
<1>1. /\ call[p].at = "inventory" /\ call[p].op = "shares" /\ ~call[p].done
      /\ call[p] \in CallType /\ CallOk(call[p]) /\ call \in [Calls -> CallType]
      /\ tree' = tree /\ linked' = linked
    BY CallPaths, StepTells DEF File!Inventory, FilesInv, CallOk
<1>2. CASE File!Finish(p, "error")
    BY <1>1, <1>2, FinishEffect DEF File!Answers
<1>3. ASSUME NEW listed \in SUBSET Shared[call[p].account],
             call' = [call EXCEPT ![p].at = "done", ![p].answer = "ok", ![p].entries = listed]
      PROVE  Effect(p)
  <2> DEFINE c == [call[p] EXCEPT !.at = "done", !.answer = "ok", !.entries = listed]
  <2>1. call' = [call EXCEPT ![p] = c]
      BY <1>1, <1>3 DEF CallType
  <2>2. listed \in SUBSET Seq(STRING)
      BY <1>1, FilesAssumptions DEF CallType
  <2>3. c \in CallType
      BY <1>1, <2>2 DEF CallType, File!Steps, File!Answers
  <2>4. CallOk(c)
      BY <1>1, StepsAre DEF CallOk, CallType
  <2> HIDE DEF c
  <2>5. QED
      BY <1>1, <2>1, <2>3, <2>4 DEF Effect
<1> DEFINE Found(subfiles) ==
             {x \in Shared[call[p].account] :
                /\ File!Under(call[p].root, x)
                /\ IF subfiles THEN File!Under(call[p].root \o call[p].path, x)
                   ELSE x = call[p].root \o call[p].path}
<1>4. \/ File!Finish(p, "error")
      \/ \E subfiles \in BOOLEAN :
           call' = [call EXCEPT ![p].at = "done", ![p].answer = "ok",
                                ![p].entries = Found(subfiles)]
    BY DEF File!Inventory
<1>5. \A subfiles : Found(subfiles) \in SUBSET Shared[call[p].account]
    OBVIOUS
<1> HIDE DEF Found
<1>6. QED
    BY <1>2, <1>3, <1>4, <1>5

\* A request that changes the nodes of the account, its answer lost or not.
LEMMA PerformsEffect ==
    ASSUME FilesInv, NEW p \in Calls, NEW nodes, NEW step \in {"confirm", "done"},
           step \in StepsOf[call[p].op], call[p].at \notin {"idle", "confirm", "done"},
           call[p].op # "read", File!Performs(p, nodes, step), linked' = linked,
           TreeOk(nodes), Confined(call[p], File!Target(p), File!Nodes(p), nodes)
    PROVE  Effect(p)
<1>1. call \in [Calls -> CallType] /\ call[p] \in CallType /\ CallOk(call[p])
    BY DEF FilesInv
<1>2. PICK lost \in BOOLEAN :
        call' = [call EXCEPT ![p].done = TRUE,
                             ![p].at = IF lost \/ step = "done" THEN "done" ELSE step,
                             ![p].answer = IF lost THEN "error"
                                           ELSE IF step = "done" THEN "ok" ELSE "none"]
    BY DEF File!Performs
<1>3. PICK next, reply :
        /\ next = IF lost \/ step = "done" THEN "done" ELSE step
        /\ reply = IF lost THEN "error" ELSE IF step = "done" THEN "ok" ELSE "none"
    OBVIOUS
<1> DEFINE c == [call[p] EXCEPT !.done = TRUE, !.at = next, !.answer = reply]
<1>4. call' = [call EXCEPT ![p] = c]
    BY <1>1, <1>2, <1>3 DEF CallType
<1>5. /\ next \in {"confirm", "done"} /\ reply \in {"ok", "error", "none"}
      /\ (next = "done") = (reply # "none") /\ next \in StepsOf[call[p].op]
    BY <1>1, <1>3, StepsAre DEF CallType
<1>6. c \in CallType
    BY <1>1, <1>5 DEF CallType, File!Steps, File!Answers
<1>7. /\ c.at = next /\ c.answer = reply /\ c.op = call[p].op /\ c.done
      /\ c.got = call[p].got /\ c.size = call[p].size /\ c.account = call[p].account
      /\ c.to = call[p].to /\ c.overwrite = call[p].overwrite /\ c.root = call[p].root
      /\ c.path = call[p].path
    BY <1>1 DEF CallType
<1>8. call[p].op # "shares" => call[p].root = RootOf[call[p].account]
    BY <1>1 DEF CallOk
<1> HIDE DEF c
<1>9. CallOk(c)
    BY <1>1, <1>5, <1>7, <1>8 DEF CallOk
<1>10. tree' = [tree EXCEPT ![call[p].account] = nodes]
    BY DEF File!Performs
<1>11. QED
    BY <1>4, <1>6, <1>7, <1>9, <1>10 DEF Effect

\* What a writing call works with.
LEMMA WritingCall ==
    ASSUME FilesInv, NEW p \in Calls, call[p].at \in {"put", "mkcol", "delete", "move"}
    PROVE  /\ call[p].root = RootOf[call[p].account]
           /\ ~call[p].done /\ call[p].op # "read"
    BY CallPaths, StepTells DEF CallOk

LEMMA FailsEffect ==
    ASSUME FilesInv, NEW p \in Calls, File!Fails(p), linked' = linked,
           call[p].at \in {"put", "mkcol", "delete", "move"}
    PROVE  Effect(p)
    BY WritingCall, FinishEffect DEF File!Fails, File!Answers

\* Something new, or in place of a file when that is asked for.
LEMMA WithConfined ==
    ASSUME FilesInv, NEW p \in Calls, NEW node, Sized(node),
           File!MayPut(p)
    PROVE  /\ TreeOk(File!With(File!Nodes(p), File!Target(p), node))
           /\ Confined(call[p], File!Target(p), File!Nodes(p),
                       File!With(File!Nodes(p), File!Target(p), node))
<1>1. PICK old, x, new :
        old = File!Nodes(p) /\ x = File!Target(p) /\ new = File!With(old, x, node)
    OBVIOUS
<1>2. TreeOk(old) /\ x \in Seq(STRING) /\ Writable(old, x)
    BY <1>1, CallPaths DEF File!MayPut, File!HasParent, File!Exists, Writable
<1>3. File!Under(call[p].root, x) /\ (x \in DOMAIN old => call[p].overwrite)
    BY <1>1, CallPaths DEF File!MayPut, File!Exists
<1>4. /\ TreeOk(new) /\ DOMAIN new = DOMAIN old \union {x}
      /\ \A y \in DOMAIN old : y # x => new[y] = old[y]
  <2>1. /\ TreeOk(File!With(old, x, node))
        /\ DOMAIN File!With(old, x, node) = DOMAIN old \union {x}
        /\ \A y \in DOMAIN old : y # x => File!With(old, x, node)[y] = old[y]
      BY <1>2, WithOk
  <2>2. QED
      BY Zenon, <1>1, <2>1
<1>5. Confined(call[p], x, old, new)
    BY <1>2, <1>3, <1>4 DEF Confined, SameNode
<1>6. QED
    BY <1>1, <1>4, <1>5

LEMMA PutEffect ==
    ASSUME FilesInv, NEW p \in Calls, File!Put(p)
    PROVE  Effect(p)
<1>1. call[p].at = "put" /\ linked' = linked
    BY DEF File!Put
<1>2. CASE File!Fails(p)
    BY <1>1, <1>2, FailsEffect
<1>3. CASE /\ File!MayPut(p)
           /\ File!Performs(p, File!With(File!Nodes(p), File!Target(p),
                                         File!File(call[p].size, p)), "confirm")
  <2>1. Sized(File!File(call[p].size, p))
      BY CallPaths DEF File!File, CallType, Sized
  <2>2. call[p].op = "write" /\ "confirm" \in StepsOf[call[p].op]
      BY <1>1, CallPaths, StepTells, StepsAre
  <2>3. QED
      BY <1>1, <1>3, <2>1, <2>2, WithConfined, PerformsEffect
<1>4. QED
    BY <1>2, <1>3 DEF File!Put

LEMMA MkcolEffect ==
    ASSUME FilesInv, NEW p \in Calls, File!Mkcol(p)
    PROVE  Effect(p)
<1>1. call[p].at = "mkcol" /\ linked' = linked
    BY DEF File!Mkcol
<1>2. CASE File!Fails(p)
    BY <1>1, <1>2, FailsEffect
<1>3. CASE /\ File!HasParent(p, File!Target(p)) /\ ~File!Exists(p, File!Target(p))
           /\ File!Performs(p, File!With(File!Nodes(p), File!Target(p), File!Folder), "confirm")
  <2>1. Sized(File!Folder)
      BY DEF File!Folder, Sized
  <2>2. call[p].op = "mkdir" /\ "confirm" \in StepsOf[call[p].op]
      BY <1>1, CallPaths, StepTells, StepsAre
  <2>3. QED
      BY <1>1, <1>3, <2>1, <2>2, WithConfined, PerformsEffect DEF File!MayPut
<1>4. QED
    BY <1>2, <1>3 DEF File!Mkcol

\* The root is not below what is below it.
LEMMA RootNotUnder ==
    ASSUME NEW top \in Seq(STRING), NEW x \in Seq(STRING), File!Under(top, x), x # top
    PROVE  ~File!Under(x, top)
<1>1. Len(top) <= Len(x) /\ Len(top) \in Nat /\ Len(x) \in Nat
    BY UnderElements
<1>2. Len(top) # Len(x)
    BY <1>1, UnderFacts
<1>3. QED
    BY <1>1, <1>2, UnderElements

LEMMA DeleteEffect ==
    ASSUME FilesInv, NEW p \in Calls, File!Delete(p)
    PROVE  Effect(p)
<1>1. call[p].at = "delete" /\ linked' = linked
    BY DEF File!Delete
<1>2. CASE File!Fails(p)
    BY <1>1, <1>2, FailsEffect
<1>3. CASE File!Performs(p, File!Without(File!Nodes(p), File!Target(p)), "done")
  <2>1. PICK old, x, new :
          old = File!Nodes(p) /\ x = File!Target(p) /\ new = File!Without(old, x)
      OBVIOUS
  <2>2. /\ TreeOk(old) /\ x \in Seq(STRING) /\ File!Under(call[p].root, x)
        /\ call[p].root \in Seq(STRING) /\ call[p].root = RootOf[call[p].account]
        /\ x # call[p].root
      BY <1>1, <2>1, CallPaths, WritingCall DEF CallOk
  <2>3. call[p].op = "delete" /\ "done" \in StepsOf[call[p].op]
      BY <1>1, CallPaths, StepTells, StepsAre
  <2>4. /\ TreeOk(new) /\ DOMAIN new = {y \in DOMAIN old : ~File!Under(x, y)}
        /\ \A y \in DOMAIN old : ~File!Under(x, y) => new[y] = old[y]
    <3>1. /\ TreeOk(File!Without(old, x))
          /\ DOMAIN File!Without(old, x) = {y \in DOMAIN old : ~File!Under(x, y)}
          /\ \A y \in DOMAIN old : ~File!Under(x, y) => File!Without(old, x)[y] = old[y]
        BY <2>2, WithoutOk
    <3>2. QED
        BY Zenon, <2>1, <3>1
  <2>5. \A y \in DOMAIN old : File!Under(x, y) => File!Under(call[p].root, y)
      BY <2>2, UnderTransitive DEF TreeOk
  <2>6. ~File!Under(x, call[p].root)
      BY <2>2, RootNotUnder
  <2>7. Confined(call[p], x, old, new)
      BY <2>2, <2>3, <2>4, <2>5, <2>6 DEF Confined, SameNode
  <2>8. QED
      BY <1>1, <1>3, <2>1, <2>3, <2>4, <2>7, PerformsEffect
<1>4. QED
    BY <1>2, <1>3 DEF File!Delete

LEMMA MoveEffect ==
    ASSUME FilesInv, NEW p \in Calls, File!Move(p)
    PROVE  Effect(p)
<1>1. PICK old, from, to, cleared, c :
        /\ old = File!Nodes(p) /\ from = File!Target(p) /\ to = File!Destination(p)
        /\ cleared = File!Without(old, to) /\ c = call[p]
    OBVIOUS
<1>2. /\ c.at = "move" /\ linked' = linked /\ c \in CallType /\ CallOk(c) /\ c.op = "move"
      /\ TreeOk(old) /\ from \in Seq(STRING) /\ to \in Seq(STRING)
      /\ c.root \in Seq(STRING) /\ c.root = RootOf[c.account]
      /\ File!Under(c.root, from) /\ File!Under(c.root, to)
      /\ to # c.root <=> c.to # <<>>
    BY <1>1, CallPaths, StepTells, WritingCall DEF File!Move
<1>3. CASE File!Fails(p)
    BY <1>1, <1>2, <1>3, FailsEffect
<1>4. ASSUME from \in DOMAIN old, to # <<>>, File!Parent(to) \in DOMAIN old,
             old[File!Parent(to)].dir, ~File!Under(from, to),
             c.overwrite \/ to \notin DOMAIN old
      PROVE  /\ TreeOk(cleared) /\ DOMAIN cleared = {y \in DOMAIN old : ~File!Under(to, y)}
             /\ \A y \in DOMAIN old : ~File!Under(to, y) => cleared[y] = old[y]
             /\ \A y \in DOMAIN old : File!Under(to, y) => File!Under(c.root, y) /\ c.overwrite
             /\ \A y \in DOMAIN old : File!Under(from, y) => File!Under(c.root, y)
             /\ \A y \in Seq(STRING) : File!Under(to, y) => File!Under(c.root, y)
             /\ c.root # from /\ ~File!Under(from, c.root)
             /\ File!Under(to, c.root) => c.to = <<>>
             /\ \A y \in DOMAIN old : y \in Seq(STRING)
  <2>1. /\ TreeOk(File!Without(old, to))
        /\ DOMAIN File!Without(old, to) = {y \in DOMAIN old : ~File!Under(to, y)}
        /\ \A y \in DOMAIN old : ~File!Under(to, y) => File!Without(old, to)[y] = old[y]
      BY <1>2, WithoutOk
  <2>2. \A y \in DOMAIN old : y \in Seq(STRING)
      BY <1>2 DEF TreeOk
  <2>3. \A y \in Seq(STRING) : /\ File!Under(to, y) => File!Under(c.root, y)
                               /\ File!Under(from, y) => File!Under(c.root, y)
      BY <1>2, UnderTransitive
  <2>4. ~c.overwrite => \A y \in DOMAIN old : ~File!Under(to, y)
      BY <1>2, <1>4, NothingBelow
  <2>5. c.root # from
      BY <1>2, <1>4
  <2>6. ~File!Under(from, c.root) /\ (File!Under(to, c.root) => to = c.root)
      BY <1>2, <2>5, RootNotUnder
  <2>7. TreeOk(cleared) /\ DOMAIN cleared = {y \in DOMAIN old : ~File!Under(to, y)}
        /\ \A y \in DOMAIN old : ~File!Under(to, y) => cleared[y] = old[y]
      BY Zenon, <1>1, <2>1
  <2>8. QED
      BY <1>2, <2>2, <2>3, <2>4, <2>5, <2>6, <2>7
<1>5. CASE /\ File!Exists(p, from) /\ File!HasParent(p, to) /\ ~File!Under(from, to)
           /\ File!MayMove(p) /\ File!Under(to, from)
           /\ tree' = [tree EXCEPT ![call[p].account] = cleared] /\ File!Finish(p, "error")
  <2>1. /\ from \in DOMAIN old /\ to # <<>> /\ File!Parent(to) \in DOMAIN old
        /\ old[File!Parent(to)].dir /\ ~File!Under(from, to)
        /\ c.overwrite \/ to \notin DOMAIN old
      BY <1>1, <1>5 DEF File!Exists, File!HasParent, File!MayMove
  <2>2. Confined(c, from, old, cleared)
      BY <1>2, <1>4, <2>1 DEF Confined, SameNode
  <2> DEFINE d == [call[p] EXCEPT !.at = "done", !.answer = "error"]
  <2>3. call \in [Calls -> CallType] /\ call[p] \in CallType /\ CallOk(call[p])
      BY DEF FilesInv
  <2>4. call' = [call EXCEPT ![p] = d]
      BY <1>5, <2>3 DEF File!Finish, CallType
  <2>5. d \in CallType
      BY <2>3 DEF CallType, File!Steps, File!Answers
  <2>6. CallOk(d) /\ d.op = call[p].op /\ d.account = call[p].account /\ d.to = call[p].to
        /\ d.overwrite = call[p].overwrite
      BY <1>1, <1>2, <2>3, StepsAre DEF CallOk, CallType
  <2> HIDE DEF d
  <2>7. QED
      BY <1>1, <1>2, <1>4, <1>5, <2>1, <2>2, <2>4, <2>5, <2>6 DEF Effect
<1>6. CASE /\ File!Exists(p, from) /\ File!HasParent(p, to) /\ ~File!Under(from, to)
           /\ File!MayMove(p) /\ ~File!Under(to, from)
           /\ File!Performs(p, File!Moved(cleared, from, to), "confirm")
  <2>1. /\ from \in DOMAIN old /\ to # <<>> /\ File!Parent(to) \in DOMAIN old
        /\ old[File!Parent(to)].dir /\ ~File!Under(from, to)
        /\ c.overwrite \/ to \notin DOMAIN old
      BY <1>1, <1>6 DEF File!Exists, File!HasParent, File!MayMove
  <2>2. PICK new : new = File!Moved(cleared, from, to)
      OBVIOUS
  <2>3. /\ from \in DOMAIN cleared /\ File!Parent(to) \in DOMAIN cleared
        /\ cleared[File!Parent(to)].dir /\ \A y \in DOMAIN cleared : ~File!Under(to, y)
    <3>1. ~File!Under(to, File!Parent(to))
        BY <1>2, <2>1, UnderParent
    <3>2. QED
        BY <1>4, <1>6, <2>1, <3>1
  <2>4. /\ TreeOk(File!Moved(cleared, from, to))
        /\ \A y \in DOMAIN cleared : ~File!Under(from, y) =>
             /\ y \in DOMAIN File!Moved(cleared, from, to)
             /\ File!Moved(cleared, from, to)[y] = cleared[y]
        /\ \A y \in DOMAIN File!Moved(cleared, from, to) :
             \/ y \in DOMAIN cleared /\ ~File!Under(from, y)
             \/ File!Under(to, y)
      BY <1>2, <1>4, <2>1, <2>3, MovedOk
  <2>5. /\ TreeOk(new)
        /\ \A y \in DOMAIN cleared : ~File!Under(from, y) =>
             y \in DOMAIN new /\ new[y] = cleared[y]
        /\ \A y \in DOMAIN new :
             \/ y \in DOMAIN cleared /\ ~File!Under(from, y)
             \/ File!Under(to, y)
      BY Zenon, <2>2, <2>4
  <2>6. ASSUME NEW y \in DOMAIN old \union DOMAIN new
        PROVE  SameNode(old, new, y) \/ File!Under(c.root, y)
    <3>1. y \in Seq(STRING)
        BY <1>4, <2>1, <2>5 DEF TreeOk
    <3>2. CASE File!Under(to, y)
        BY <1>4, <2>1, <3>1, <3>2
    <3>3. CASE y \in DOMAIN old /\ File!Under(from, y)
        BY <1>4, <2>1, <3>3
    <3>4. CASE y \in DOMAIN old /\ ~File!Under(to, y) /\ ~File!Under(from, y)
        BY <1>4, <2>1, <2>5, <3>4 DEF SameNode
    <3>5. QED
        BY <1>4, <2>1, <2>5, <3>2, <3>3, <3>4
  <2>7. ASSUME ~c.overwrite, NEW y \in DOMAIN old
        PROVE  \/ SameNode(old, new, y)
               \/ y \notin DOMAIN new /\ File!Under(from, y)
    <3>1. ~File!Under(to, y)
        BY <1>4, <2>1, <2>7
    <3>2. CASE File!Under(from, y)
        BY <2>5, <3>1, <3>2
    <3>3. CASE ~File!Under(from, y)
        BY <1>4, <2>1, <2>5, <3>1, <3>3 DEF SameNode
    <3>4. QED
        BY <3>2, <3>3
  <2>8. c.root \in DOMAIN old => c.root \in DOMAIN new \/ (c.to = <<>> /\ c.overwrite)
    <3>1. CASE File!Under(to, c.root)
        BY <1>4, <2>1, <3>1
    <3>2. CASE ~File!Under(to, c.root)
        BY <1>4, <2>1, <2>5, <3>2
    <3>3. QED
        BY <3>1, <3>2
  <2>9. Confined(c, from, old, new)
      BY <1>2, <2>6, <2>7, <2>8 DEF Confined
  <2>10. call[p].op # "read" /\ "confirm" \in StepsOf[call[p].op]
      BY <1>1, <1>2, StepsAre
  <2>11. QED
      BY <1>1, <1>2, <1>6, <2>2, <2>5, <2>9, <2>10, PerformsEffect
<1>7. QED
    BY <1>1, <1>3, <1>5, <1>6 DEF File!Move

-----------------------------------------------------------------------------
\* The nodes above the root, and what is shared.
LEMMA FilesInit ==
    ASSUME File!Init
    PROVE  FilesInv
<1>1. linked \in Accounts
    BY DEF File!Init
<1>2. File!Fresh \in CallType /\ CallOk(File!Fresh)
    BY <1>1, FreshOk DEF FieldsOk
<1>3. call \in [Calls -> CallType] /\ \A p \in Calls : CallOk(call[p])
    BY <1>2 DEF File!Init
<1>4. ASSUME NEW a \in Accounts
      PROVE  TreeOk(tree[a]) /\ RootOf[a] \in DOMAIN tree[a]
  <2>1. PICK top, nodes : top = RootOf[a] /\ nodes = tree[a]
      OBVIOUS
  <2>2. /\ top \in Seq(STRING) /\ Len(top) \in Nat
        /\ \A x \in Shared[a] : x \in Seq(STRING) /\ File!Under(File!Parent(x), top)
      BY <2>1, FilesAssumptions, SegmentsAreStrings
  <2>3. /\ DOMAIN nodes = {SubSeq(top, 1, i) : i \in 0..Len(top)} \union Shared[a]
        /\ \A x \in DOMAIN nodes :
             nodes[x] = IF File!Under(x, top) THEN File!Folder ELSE File!File(1, File!Owner)
      BY <2>1 DEF File!Init
  <2>4. ASSUME NEW x \in Seq(STRING), File!Under(x, top)
        PROVE  x \in DOMAIN nodes
    <3>1. x = SubSeq(top, 1, Len(x)) /\ Len(x) \in 0..Len(top)
        BY <2>2, <2>4 DEF File!Under
    <3>2. QED
        BY <2>3, <3>1
  <2>5. ASSUME NEW i \in 0..Len(top)
        PROVE  SubSeq(top, 1, i) \in Seq(STRING) /\ File!Under(SubSeq(top, 1, i), top)
    <3>1. PICK x : x = SubSeq(top, 1, i)
        OBVIOUS
    <3>2. /\ x \in Seq(STRING) /\ Len(x) = (IF 1 <= i THEN i - 1 + 1 ELSE 0)
          /\ \A j \in 1..i - 1 + 1 : x[j] = top[1 + j - 1]
      <4>1. \A j \in 1..i : top[j] \in STRING
          BY <2>2, ElementOfSeq
      <4>2. 1 \in Int /\ i \in Int
          BY <2>2
      <4>3. QED
          BY <3>1, <4>1, <4>2, SubSeqProperties
    <3>3. Len(x) = i /\ \A j \in 1..Len(x) : x[j] = top[j]
        BY <2>2, <3>2
    <3>4. File!Under(x, top)
        BY <2>2, <3>2, <3>3, UnderIntro
    <3>5. QED
        BY <3>1, <3>2, <3>4
  <2>6. ASSUME NEW x \in DOMAIN nodes
        PROVE  /\ x \in Seq(STRING) /\ nodes[x].size \in Nat
               /\ x # <<>> => /\ File!Parent(x) \in Seq(STRING)
                              /\ File!Under(File!Parent(x), top)
    <3>1. nodes[x].size \in Nat
        BY <2>3 DEF File!Folder, File!File
    <3>2. x \in Seq(STRING) /\ (x \in Shared[a] \/ File!Under(x, top))
        BY <2>2, <2>3, <2>5
    <3>3. x # <<>> => File!Parent(x) \in Seq(STRING)
        BY <3>2, ParentElements
    <3>4. x # <<>> => File!Under(File!Parent(x), x)
      <4>1. x # <<>> => /\ Len(File!Parent(x)) <= Len(x) 
                        /\ \A j \in 1..Len(File!Parent(x)) : File!Parent(x)[j] = x[j]
          BY <3>2, ParentElements
      <4>2. QED
          BY <3>2, <3>3, <4>1, UnderIntro
    <3>5. x # <<>> => File!Under(File!Parent(x), top)
        BY <2>2, <3>2, <3>3, <3>4, UnderTransitive
    <3>6. QED
        BY <3>1, <3>2, <3>3, <3>5
  <2>7. TreeOk(nodes)
    <3>1. ASSUME NEW x \in DOMAIN nodes, x # <<>>
          PROVE  File!Parent(x) \in DOMAIN nodes /\ nodes[File!Parent(x)].dir
      <4>1. File!Parent(x) \in DOMAIN nodes
          BY <2>4, <2>6, <3>1
      <4>2. nodes[File!Parent(x)] = File!Folder
          BY <2>3, <2>6, <3>1, <4>1
      <4>3. QED
          BY <4>1, <4>2 DEF File!Folder
    <3>2. QED
        BY <2>6, <3>1 DEF TreeOk
  <2>8. top \in DOMAIN nodes
      BY <2>2, <2>4, UnderFacts
  <2>9. QED
      BY <2>1, <2>7, <2>8
<1>5. DOMAIN tree = Accounts
    BY DEF File!Init
<1>6. QED
    BY <1>1, <1>3, <1>4, <1>5 DEF FilesInv, File!RootStays

LEMMA OwnerKeeps ==
    ASSUME FilesInv, File!OwnerChanges
    PROVE  FilesInv' /\ File!OnlyBelowRoot /\ File!NothingReplacedUnasked
<1>1. PICK a \in Accounts :
        \E x \in {RootOf[a] \o path : path \in UNION {File!Normal(raw) : raw \in GivenPaths}} :
          /\ x # RootOf[a]
          /\ \/ \E size \in Sizes :
                  /\ File!Parent(x) \in DOMAIN tree[a] /\ tree[a][File!Parent(x)].dir
                  /\ x \in DOMAIN tree[a] => ~tree[a][x].dir
                  /\ File!Change(File!With(tree[a], x, File!File(size, File!Owner)), a)
             \/ x \in DOMAIN tree[a] /\ File!Change(File!Without(tree[a], x), a)
    BY DEF File!OwnerChanges
<1>2. PICK x \in {RootOf[a] \o path : path \in UNION {File!Normal(raw) : raw \in GivenPaths}} :
        /\ x # RootOf[a]
        /\ \/ \E size \in Sizes :
                /\ File!Parent(x) \in DOMAIN tree[a] /\ tree[a][File!Parent(x)].dir
                /\ x \in DOMAIN tree[a] => ~tree[a][x].dir
                /\ File!Change(File!With(tree[a], x, File!File(size, File!Owner)), a)
           \/ x \in DOMAIN tree[a] /\ File!Change(File!Without(tree[a], x), a)
    BY <1>1
<1>3. PICK raw \in GivenPaths : \E path \in File!Normal(raw) : x = RootOf[a] \o path
    OBVIOUS
<1>4. PICK path \in File!Normal(raw) : x = RootOf[a] \o path
    BY <1>3
<1>5. RootOf[a] \in Seq(STRING) /\ path \in Seq(STRING)
    BY FilesAssumptions, NormalIs, SegmentsAreStrings
<1>6. x \in Seq(STRING) /\ File!Under(RootOf[a], x) /\ x # <<>>
  <2>1. x \in Seq(STRING) /\ Len(x) = Len(RootOf[a]) + Len(path)
        /\ Len(RootOf[a]) \in Nat /\ Len(path) \in Nat
      BY <1>4, <1>5, Concat
  <2>2. x # <<>>
    <3>1. path # <<>>
        BY <1>2, <1>4, <1>5
    <3>2. Len(path) # 0
        BY <1>5, <3>1, EmptySeq
    <3>3. QED
        BY <2>1, <3>2, EmptySeq
  <2>3. QED
      BY <1>4, <1>5, <2>1, <2>2, UnderFacts
<1>7. ~File!Under(x, RootOf[a])
    BY <1>2, <1>5, <1>6, RootNotUnder
<1>8. ASSUME NEW nodes, File!Change(nodes, a), TreeOk(nodes),
             RootOf[a] \in DOMAIN tree[a] => RootOf[a] \in DOMAIN nodes
      PROVE  FilesInv' /\ File!OnlyBelowRoot /\ File!NothingReplacedUnasked
  <2>1. /\ tree' = [tree EXCEPT ![a] = nodes] /\ linked' = linked /\ call' = call
        /\ DOMAIN tree = Accounts
      BY <1>8 DEF File!Change, FilesInv
  <2>2. /\ DOMAIN tree' = Accounts /\ tree'[a] = nodes
        /\ \A b \in Accounts : b # a => tree'[b] = tree[b]
      BY <2>1
  <2>3. File!RootStays'
      BY <1>8, <2>1, <2>2 DEF FilesInv, File!RootStays
  <2>4. \A b \in Accounts : TreeOk(tree'[b])
      BY <1>8, <2>2 DEF FilesInv
  <2>5. FilesInv'
      BY <2>1, <2>2, <2>3, <2>4 DEF FilesInv
  <2>6. QED
      BY <2>1, <2>5 DEF File!OnlyBelowRoot, File!NothingReplacedUnasked, File!Acts
<1>9. TreeOk(tree[a])
    BY DEF FilesInv
<1>10. CASE \E size \in Sizes :
             /\ File!Parent(x) \in DOMAIN tree[a] /\ tree[a][File!Parent(x)].dir
             /\ x \in DOMAIN tree[a] => ~tree[a][x].dir
             /\ File!Change(File!With(tree[a], x, File!File(size, File!Owner)), a)
  <2>1. PICK size \in Sizes :
          /\ File!Parent(x) \in DOMAIN tree[a] /\ tree[a][File!Parent(x)].dir
          /\ x \in DOMAIN tree[a] => ~tree[a][x].dir
          /\ File!Change(File!With(tree[a], x, File!File(size, File!Owner)), a)
      BY <1>10
  <2>2. PICK old, node : old = tree[a] /\ node = File!File(size, File!Owner)
      OBVIOUS
  <2>3. TreeOk(old) /\ Writable(old, x) /\ Sized(node)
      BY <1>6, <1>9, <2>1, <2>2, FilesAssumptions DEF Writable, Sized, File!File
  <2>4. TreeOk(File!With(old, x, node)) /\ DOMAIN File!With(old, x, node) = DOMAIN old \union {x}
      BY <1>6, <2>3, WithOk
  <2>5. QED
      BY <1>8, <2>1, <2>2, <2>4
<1>11. CASE x \in DOMAIN tree[a] /\ File!Change(File!Without(tree[a], x), a)
  <2>1. /\ TreeOk(File!Without(tree[a], x))
        /\ DOMAIN File!Without(tree[a], x) = {y \in DOMAIN tree[a] : ~File!Under(x, y)}
      BY <1>6, <1>9, WithoutOk
  <2>2. QED
      BY <1>7, <1>8, <1>11, <2>1
<1>12. QED
    BY <1>2, <1>10, <1>11

LEMMA RelinkKeeps ==
    ASSUME FilesInv, File!Relink
    PROVE  FilesInv' /\ File!OnlyBelowRoot /\ File!NothingReplacedUnasked
<1>1. linked' \in Accounts /\ tree' = tree /\ call' = call
    BY DEF File!Relink
<1>2. File!RootStays'
    BY <1>1 DEF FilesInv, File!RootStays
<1>3. FilesInv'
    BY <1>1, <1>2 DEF FilesInv
<1>4. QED
    BY <1>1, <1>3 DEF File!OnlyBelowRoot, File!NothingReplacedUnasked, File!Acts

LEMMA FilesStep ==
    ASSUME FilesInv, File!Next
    PROVE  FilesInv' /\ File!OnlyBelowRoot /\ File!NothingReplacedUnasked
<1>1. ASSUME NEW p \in Calls, Effect(p)
      PROVE  FilesInv' /\ File!OnlyBelowRoot /\ File!NothingReplacedUnasked
    BY <1>1, EffectKeeps
<1>2. QED
    BY <1>1, BeginOnPathEffect, BeginWriteEffect, BeginMoveEffect, BeginSharesEffect,
       StatEffect, GetEffect, StreamEffect, PutEffect, MkcolEffect, DeleteEffect, MoveEffect,
       ConfirmEffect, ShareSettingsEffect, InventoryEffect, OwnerKeeps, RelinkKeeps
       DEF File!Next

LEMMA FilesStutter ==
    ASSUME FilesInv, UNCHANGED filesVars
    PROVE  FilesInv' /\ File!OnlyBelowRoot /\ File!NothingReplacedUnasked
<1>1. linked' = linked /\ tree' = tree /\ call' = call
    BY DEF filesVars
<1>2. File!RootStays'
    BY <1>1 DEF FilesInv, File!RootStays
<1>3. FilesInv'
    BY <1>1, <1>2 DEF FilesInv
<1>4. QED
    BY <1>1, <1>3 DEF File!OnlyBelowRoot, File!NothingReplacedUnasked, File!Acts

LEMMA FilesSay == FilesInv =>
    File!TypeOK /\ File!TransferBounded /\ File!AnswersHonest /\ File!RootStays
<1> SUFFICES ASSUME FilesInv
             PROVE  File!TypeOK /\ File!TransferBounded /\ File!AnswersHonest /\ File!RootStays
    OBVIOUS
<1>1. \A p \in Calls : call[p] \in CallType /\ CallOk(call[p])
    BY DEF FilesInv
<1>2. File!TypeOK
  <2>1. \A p \in Calls : /\ call[p].at \in File!Steps /\ call[p].answer \in File!Answers
                         /\ (call[p].at = "done") = (call[p].answer # "none")
      BY <1>1 DEF CallOk, CallType
  <2>2. QED
      BY <2>1 DEF FilesInv, TreeOk, File!TypeOK
<1>3. File!TransferBounded /\ File!AnswersHonest
    BY <1>1 DEF CallOk, File!TransferBounded, File!AnswersHonest
<1>4. QED
    BY <1>2, <1>3 DEF FilesInv

(***************************************************************************)
(* The inventories of apps (AppInventory).                                 *)
(***************************************************************************)

Kinds == Inventory!Inventories
Nobody == Inventory!Nobody
ItemSets == [Kinds -> SUBSET Inventory!Items]

ReportType ==
  [at : {"idle", "client", "capabilities", "navigation", "providers", "report",
         "reported", "error"},
   client : Servers \union {Nobody}, found : ItemSets, warned : SUBSET Kinds,
   during : SUBSET (Servers \union {Nobody}), ever : ItemSets, always : ItemSets,
   crowded : SUBSET Kinds]

\* The inventories that a call has asked for, by its step.
Asked(step) == CASE step = "providers" -> {"navigation"}
                 [] step \in {"report", "reported"} -> Kinds
                 [] OTHER -> {}

\* What was found of an inventory, or why it is not all.
FoundHonestly(r, i) ==
  /\ i \in r.warned \/ i \in r.crowded \/ r.always[i] \ {Odd} \subseteq r.found[i]
  /\ r.found[i] \subseteq r.ever[i] \union {FilesApp}
  /\ i \in r.crowded => Cardinality(r.found[i]) >= ItemLimit - 1

\* A call after NewClient knows an account of the tenant, and between what
\* that account offered always and at some time lies what it offers now.
ReportInv(r) ==
  /\ r.at # "idle" => account \in r.during
  /\ r.at = "client" => r.crowded = {} /\ \A i \in Kinds : r.found[i] = {}
  /\ r.at \notin {"idle", "client", "error"} =>
       /\ r.client \in Servers /\ r.client \in r.during
       /\ \A i \in Kinds : /\ r.always[i] \subseteq offered[r.client][i]
                           /\ offered[r.client][i] \subseteq r.ever[i]
                           /\ i \in Asked(r.at) => FoundHonestly(r, i)
                           /\ i \notin Asked(r.at) => i \notin r.crowded /\ r.found[i] = {}

InventoryInv ==
  /\ account \in Servers \union {Nobody}
  /\ offered \in [Servers -> ItemSets]
  /\ report \in [Reports -> ReportType]
  /\ \A c \in Reports : ReportInv(report[c])

\* An instance has finite sets of its own, which are the same.
LEMMA SameCardinality ==
    /\ \A S : Inventory!IsFiniteSet(S) <=> IsFiniteSet(S)
    /\ \A S : Inventory!Cardinality(S) = Cardinality(S)
<1>1. \A S : Inventory!IsFiniteSet(S) <=> IsFiniteSet(S)
    BY DEF IsFiniteSet, Inventory!IsFiniteSet
<1>2. \A S : Inventory!Cardinality(S) = Cardinality(S)
    BY DEF Cardinality, Inventory!Cardinality
<1>3. QED
    BY <1>1, <1>2

LEMMA ItemsFinite == IsFiniteSet(Inventory!Items) /\ ItemLimit \in Nat \ {0}
<1>1. IsFiniteSet(Apps) /\ ItemLimit \in Nat \ {0}
    BY ToolsAssumption, SameCardinality DEF ToolsAssumption, Inventory!InventoryAssumption
<1>2. QED
    BY <1>1, FS_AddElement DEF Inventory!Items

LEMMA IdleReport == Inventory!Idle \in ReportType
    BY DEF Inventory!Idle, ReportType, ItemSets, Kinds, Nobody, Inventory!Nobody

LEMMA InventoryInit == Inventory!Init => InventoryInv
<1> SUFFICES ASSUME Inventory!Init PROVE InventoryInv
    OBVIOUS
<1>1. FilesApp \in Inventory!Items
    BY ToolsAssumption DEF ToolsAssumption, Inventory!InventoryAssumption, Inventory!Items
<1>2. offered \in [Servers -> ItemSets] /\ account \in Servers \union {Nobody}
    BY <1>1 DEF Inventory!Init, ItemSets, Kinds
<1>3. report \in [Reports -> ReportType]
    BY IdleReport DEF Inventory!Init
<1>4. \A c \in Reports : ReportInv(report[c])
    BY DEF Inventory!Init, Inventory!Idle, ReportInv
<1>5. QED
    BY <1>2, <1>3, <1>4 DEF InventoryInv

(* A step of one call. *)
LEMMA ReportBecomes ==
    ASSUME InventoryInv, NEW c \in Reports, NEW r \in ReportType, ReportInv(r),
           Inventory!Become(c, r), Inventory!Stay
    PROVE  InventoryInv'
<1>1. UNCHANGED <<account, offered>> /\ report' = [report EXCEPT ![c] = r]
    BY DEF Inventory!Become, Inventory!Stay
<1>2. \A s \in ReportType : ReportInv(s) => ReportInv(s)'
    BY <1>1 DEF ReportInv, FoundHonestly
<1>3. \A d \in Reports : report'[d] \in ReportType /\ ReportInv(report'[d])
    BY <1>1 DEF InventoryInv
<1>4. QED
    BY <1>1, <1>2, <1>3 DEF InventoryInv

LEMMA BeginReport ==
    ASSUME InventoryInv, NEW c \in Reports, Inventory!Begin(c)
    PROVE  InventoryInv'
<1> DEFINE r == [Inventory!Idle EXCEPT !.at = IF account = Nobody THEN "error" ELSE "client",
                                       !.during = {account}]
<1>1. Inventory!Become(c, r) /\ Inventory!Stay
    BY DEF Inventory!Begin, Nobody
<1>2. /\ r.at \in {"error", "client"} /\ r.during = {account}
      /\ r.crowded = {} /\ r \in ReportType /\ \A i \in Kinds : r.found[i] = {}
    BY IdleReport DEF ReportType, InventoryInv, Inventory!Idle, Kinds
<1>3. ReportInv(r)
    BY <1>2 DEF ReportInv
<1>4. QED
    BY <1>1, <1>2, <1>3, ReportBecomes

LEMMA ClientOfReport ==
    ASSUME InventoryInv, NEW c \in Reports, Inventory!NewClient(c)
    PROVE  InventoryInv'
<1>1. /\ report[c] \in ReportType /\ report[c].at = "client" /\ ReportInv(report[c])
      /\ Inventory!Stay
    BY DEF Inventory!NewClient, InventoryInv
<1>2. CASE account = Nobody
  <2> DEFINE r == [report[c] EXCEPT !.at = "error"]
  <2>1. Inventory!Become(c, r)
      BY <1>2 DEF Inventory!NewClient, Inventory!AccountFor, Nobody
  <2>2. r \in ReportType /\ ReportInv(r)
      BY <1>1 DEF ReportType, ReportInv
  <2>3. QED
      BY <1>1, <2>1, <2>2, ReportBecomes
<1>3. CASE account # Nobody
  <2> DEFINE r == [report[c] EXCEPT !.at = "capabilities", !.client = account,
                                   !.ever = offered[account], !.always = offered[account]]
  <2>1. Inventory!Become(c, r)
      BY <1>3 DEF Inventory!NewClient, Inventory!AccountFor, Nobody
  <2>2. account \in Servers /\ offered[account] \in ItemSets
      BY <1>3 DEF InventoryInv
  <2>3. r \in ReportType
      BY <1>1, <2>2 DEF ReportType
  <2>4. /\ r.at = "capabilities" /\ r.client = account /\ r.during = report[c].during
        /\ r.ever = offered[account] /\ r.always = offered[account]
        /\ r.crowded = report[c].crowded /\ r.found = report[c].found
      BY <1>1 DEF ReportType
  <2>5. ReportInv(r)
      BY <1>1, <2>2, <2>4 DEF ReportInv, Asked
  <2>6. QED
      BY <1>1, <2>1, <2>3, <2>5, ReportBecomes
<1>4. QED
    BY <1>2, <1>3

LEMMA FirstRequest ==
    ASSUME InventoryInv, NEW c \in Reports, Inventory!GetCapabilities(c)
    PROVE  InventoryInv'
<1>1. /\ report[c] \in ReportType /\ report[c].at = "capabilities" /\ ReportInv(report[c])
    BY DEF Inventory!GetCapabilities, InventoryInv
<1>2. PICK next \in {"navigation", "error"} :
        Inventory!Become(c, [report[c] EXCEPT !.at = next])
    BY DEF Inventory!GetCapabilities
<1> DEFINE r == [report[c] EXCEPT !.at = next]
<1>3. r \in ReportType /\ ReportInv(r)
    BY <1>1 DEF ReportType, ReportInv, Asked, FoundHonestly
<1>4. QED
    BY <1>2, <1>3, ReportBecomes DEF Inventory!GetCapabilities

\* What asking for one inventory changes, whatever it gave.
AskedFor(r, s, i) ==
  /\ r.at = i /\ s.at = Inventory!After[i] /\ s.client = r.client /\ s.during = r.during
  /\ s.ever = r.ever /\ s.always = r.always
  /\ \A j \in Kinds \ {i} : /\ s.found[j] = r.found[j]
                            /\ j \in s.warned <=> j \in r.warned
                            /\ j \in s.crowded <=> j \in r.crowded

LEMMA OneMoreAsked ==
    ASSUME NEW i \in Kinds, NEW r \in ReportType, NEW s, AskedFor(r, s, i), ReportInv(r),
           i \notin r.crowded => FoundHonestly(s, i)
    PROVE  ReportInv(s)
<1>1. CASE i = "navigation"
    BY <1>1 DEF ReportInv, AskedFor, Asked, Inventory!After, FoundHonestly, Kinds,
                Inventory!Inventories
<1>2. CASE i = "providers"
    BY <1>2 DEF ReportInv, AskedFor, Asked, Inventory!After, FoundHonestly, Kinds,
                Inventory!Inventories
<1>3. QED
    BY <1>1, <1>2 DEF Kinds, Inventory!Inventories

LEMMA NextStep ==
    ASSUME NEW i \in Kinds
    PROVE  /\ i \in {"navigation", "providers"}
           /\ Inventory!After[i] \in {"providers", "report"}
    BY DEF Kinds, Inventory!Inventories, Inventory!After

(* Of a list that is too long, Limit items are looked at, of which one may *)
(* be no app.                                                              *)
LEMMA TakenItems ==
    ASSUME NEW items \in SUBSET Inventory!Items, NEW t \in Inventory!Take(items)
    PROVE  /\ t \subseteq items
           /\ Cardinality(items) > ItemLimit => Cardinality(t \ {Odd}) >= ItemLimit - 1
           /\ ~(Cardinality(items) > ItemLimit) => t = items
<1>1. IsFiniteSet(items) /\ ItemLimit \in Nat
    BY ItemsFinite, FS_Subset
<1>2. /\ t \subseteq items
      /\ Cardinality(t) = IF Cardinality(items) > ItemLimit THEN ItemLimit
                          ELSE Cardinality(items)
    BY SameCardinality DEF Inventory!Take
<1>3. IsFiniteSet(t) /\ Cardinality(t) \in Nat /\ Cardinality(items) \in Nat
    BY <1>1, <1>2, FS_Subset, FS_CardinalityType
<1>4. Cardinality(t \ {Odd}) >= Cardinality(t) - 1
  <2>1. Odd \in t => Cardinality(t \ {Odd}) = Cardinality(t) - 1
      BY <1>3, FS_RemoveElement
  <2>2. Odd \notin t => t \ {Odd} = t
      OBVIOUS
  <2>3. QED
      BY <1>3, <2>1, <2>2
<1>5. t # items => Cardinality(t) < Cardinality(items)
    BY <1>1, <1>2, FS_Subset
<1>6. QED
    BY <1>1, <1>2, <1>3, <1>4, <1>5

LEMMA InventoryGot ==
    ASSUME InventoryInv, NEW c \in Reports, NEW i \in Kinds, Inventory!Get(c, i)
    PROVE  InventoryInv'
<1> DEFINE items == offered[report[c].client][i]
<1>1. /\ report[c] \in ReportType /\ report[c].at = i /\ ReportInv(report[c])
    BY DEF Inventory!Get, InventoryInv
<1>2. /\ items \in SUBSET Inventory!Items
      /\ report[c].always[i] \subseteq items /\ items \subseteq report[c].ever[i]
    BY <1>1, NextStep DEF ReportInv, InventoryInv, ItemSets
<1>3. PICK t \in Inventory!Take(items) :
        Inventory!Become(c, [report[c] EXCEPT
           !.at = Inventory!After[i], !.found[i] = t \ {Odd},
           !.crowded = IF Inventory!Cardinality(items) > ItemLimit
                       THEN @ \union {i} ELSE @])
    BY DEF Inventory!Get
<1> DEFINE r == [report[c] EXCEPT
           !.at = Inventory!After[i], !.found[i] = t \ {Odd},
           !.crowded = IF Inventory!Cardinality(items) > ItemLimit
                       THEN @ \union {i} ELSE @]
<1>4. /\ t \subseteq items
      /\ Cardinality(items) > ItemLimit => Cardinality(t \ {Odd}) >= ItemLimit - 1
      /\ ~(Cardinality(items) > ItemLimit) => t = items
    BY <1>2, TakenItems
<1>5. r = [at |-> Inventory!After[i], client |-> report[c].client,
           found |-> [report[c].found EXCEPT ![i] = t \ {Odd}],
           warned |-> report[c].warned, during |-> report[c].during,
           ever |-> report[c].ever, always |-> report[c].always,
           crowded |-> IF Cardinality(items) > ItemLimit THEN report[c].crowded \union {i}
                       ELSE report[c].crowded]
  <2>1. r = [report[c] EXCEPT !.at = Inventory!After[i],
                !.found = [report[c].found EXCEPT ![i] = t \ {Odd}],
                !.crowded = IF Cardinality(items) > ItemLimit
                            THEN report[c].crowded \union {i} ELSE report[c].crowded]
      BY SameCardinality
  <2> HIDE DEF r
  <2>2. QED
      BY <1>1, <2>1 DEF ReportType
<1> HIDE DEF r
<1>6. r \in ReportType
  <2>1. [report[c].found EXCEPT ![i] = t \ {Odd}] \in ItemSets
      BY <1>1, <1>2, <1>4 DEF ReportType, ItemSets
  <2>2. QED
      BY <1>1, <1>5, <2>1, NextStep DEF ReportType
<1>7. AskedFor(report[c], r, i) /\ r.found[i] = t \ {Odd}
    BY <1>1, <1>5 DEF AskedFor, ReportType, ItemSets
<1>8. i \notin report[c].crowded => FoundHonestly(r, i)
  <2>1. r.always = report[c].always /\ r.ever = report[c].ever
      BY <1>7 DEF AskedFor
  <2>2. i \in r.crowded => i \in report[c].crowded \/ Cardinality(items) > ItemLimit
      BY <1>5
  <2>3. i \notin r.crowded => ~(Cardinality(items) > ItemLimit)
      BY <1>5
  <2>4. QED
      BY <1>2, <1>4, <1>7, <2>1, <2>2, <2>3 DEF FoundHonestly
<1>9. ReportInv(r)
    BY <1>1, <1>7, <1>8, OneMoreAsked
<1>10. Inventory!Become(c, r) /\ Inventory!Stay
    BY <1>3 DEF Inventory!Get, r
<1>11. QED
    BY <1>6, <1>9, <1>10, ReportBecomes

LEMMA InventoryUnavailable ==
    ASSUME InventoryInv, NEW c \in Reports, NEW i \in Kinds, Inventory!Unavailable(c, i)
    PROVE  InventoryInv'
<1>1. /\ report[c] \in ReportType /\ report[c].at = i /\ ReportInv(report[c])
    BY DEF Inventory!Unavailable, InventoryInv
<1> DEFINE r == [report[c] EXCEPT !.at = Inventory!After[i], !.warned = report[c].warned \union {i}]
<1>2. Inventory!Become(c, r) /\ Inventory!Stay
    BY DEF Inventory!Unavailable, Inventory!Warn
<1>3. /\ r \in ReportType /\ r.found = report[c].found /\ i \in r.warned
      /\ r.crowded = report[c].crowded
      /\ AskedFor(report[c], r, i)
    BY <1>1, NextStep DEF ReportType, AskedFor
<1> HIDE DEF r
<1>4. i \notin report[c].crowded => FoundHonestly(r, i)
  <2>1. report[c].found[i] = {}
      BY <1>1, NextStep DEF ReportInv, Asked
  <2>2. QED
      BY <1>3, <2>1 DEF FoundHonestly
<1>5. QED
    BY <1>1, <1>2, <1>3, <1>4, OneMoreAsked, ReportBecomes

LEMMA InventoryUnanswered ==
    ASSUME InventoryInv, NEW c \in Reports, NEW i \in Kinds, Inventory!Unanswered(c, i)
    PROVE  InventoryInv'
<1>1. /\ report[c] \in ReportType /\ report[c].at = i /\ ReportInv(report[c])
    BY DEF Inventory!Unanswered, InventoryInv
<1> DEFINE r == [report[c] EXCEPT !.at = "error"]
<1>2. r \in ReportType /\ r.at = "error" /\ r.during = report[c].during
    BY <1>1 DEF ReportType
<1>3. ReportInv(r)
    BY <1>1, <1>2, NextStep DEF ReportInv
<1>4. QED
    BY <1>2, <1>3, ReportBecomes DEF Inventory!Unanswered

LEMMA ReportWritten ==
    ASSUME InventoryInv, NEW c \in Reports, Inventory!Report(c)
    PROVE  InventoryInv'
<1>1. /\ report[c] \in ReportType /\ report[c].at = "report" /\ ReportInv(report[c])
    BY DEF Inventory!Report, InventoryInv
<1> DEFINE all == report[c].found["navigation"] \union {FilesApp}
           r == [report[c] EXCEPT !.at = "reported",
                                  !.found = [report[c].found EXCEPT !["navigation"] = all]]
<1>2. Inventory!Become(c, r) /\ Inventory!Stay
    BY <1>1 DEF Inventory!Report
<1>3. FilesApp \in Inventory!Items
    BY ToolsAssumption DEF ToolsAssumption, Inventory!InventoryAssumption, Inventory!Items
<1>4. report[c].found \in ItemSets
    BY <1>1 DEF ReportType
<1>5. [report[c].found EXCEPT !["navigation"] = all] \in ItemSets
    BY <1>3, <1>4 DEF ItemSets, Kinds, Inventory!Inventories
<1>6. r \in ReportType
    BY <1>1, <1>5 DEF ReportType
<1>7. /\ r.at = "reported" /\ r.client = report[c].client /\ r.during = report[c].during
      /\ r.ever = report[c].ever /\ r.always = report[c].always
      /\ r.warned = report[c].warned /\ r.crowded = report[c].crowded
      /\ r.found = [report[c].found EXCEPT !["navigation"] = all]
    BY <1>1 DEF ReportType
<1>8. \A i \in Kinds : r.found[i] = IF i = "navigation" THEN all ELSE report[c].found[i]
    BY <1>4, <1>7 DEF ItemSets
<1> HIDE DEF r
<1>9. \A i \in Kinds : FoundHonestly(r, i)
  <2> SUFFICES ASSUME NEW i \in Kinds PROVE FoundHonestly(r, i)
      OBVIOUS
  <2>1. FoundHonestly(report[c], i)
      BY <1>1 DEF ReportInv, Asked
  <2>2. /\ report[c].found[i] \subseteq r.found[i]
        /\ r.found[i] \subseteq report[c].found[i] \union {FilesApp}
      BY <1>8
  <2>3. i \in r.crowded => Cardinality(r.found[i]) >= ItemLimit - 1
    <3>1. IsFiniteSet(r.found[i])
        BY <1>4, <2>2, <1>3, ItemsFinite, FS_Subset DEF ItemSets
    <3>2. /\ Cardinality(report[c].found[i]) <= Cardinality(r.found[i])
          /\ Cardinality(r.found[i]) \in Nat
          /\ Cardinality(report[c].found[i]) \in Nat
        BY <2>2, <3>1, FS_Subset, FS_CardinalityType
    <3>3. QED
        BY <1>7, <2>1, <3>2, ItemsFinite DEF FoundHonestly
  <2>4. QED
      BY <1>7, <2>1, <2>2, <2>3 DEF FoundHonestly
<1>10. ReportInv(r)
    BY <1>1, <1>7, <1>9 DEF ReportInv, Asked
<1>11. QED
    BY <1>2, <1>6, <1>10, ReportBecomes

\* The owner connects another account, or none.
LEMMA Relinked ==
    ASSUME InventoryInv, Inventory!Relink
    PROVE  InventoryInv'
<1>1. PICK s \in Servers \union {Nobody} :
        /\ account' = s
        /\ report' = [c \in Reports |-> [report[c] EXCEPT !.during = report[c].during \union {s}]]
    BY DEF Inventory!Relink, Nobody
<1>2. UNCHANGED offered
    BY DEF Inventory!Relink
<1>3. \A c \in Reports : /\ report'[c] \in ReportType
                         /\ ReportInv(report[c]) => ReportInv(report[c])'
  <2> SUFFICES ASSUME NEW c \in Reports
               PROVE  /\ report'[c] \in ReportType
                      /\ ReportInv(report[c]) => ReportInv(report[c])'
      OBVIOUS
  <2>1. report[c] \in ReportType
      BY DEF InventoryInv
  <2>2. report'[c] = [report[c] EXCEPT !.during = report[c].during \union {s}]
      BY <1>1
  <2>3. QED
      BY <1>1, <1>2, <2>1, <2>2 DEF ReportType, ReportInv, FoundHonestly, Asked
<1>4. QED
    BY <1>1, <1>2, <1>3 DEF InventoryInv

\* A server offers other items in one inventory.
LEMMA Changed ==
    ASSUME InventoryInv, Inventory!Change
    PROVE  InventoryInv'
<1>1. PICK s \in Servers, k \in Kinds, items \in SUBSET Inventory!Items :
        /\ offered' = [offered EXCEPT ![s][k] = items]
        /\ report' = [c \in Reports |->
             IF report[c].client # s THEN report[c]
             ELSE [report[c] EXCEPT !.ever[k] = @ \union items,
                                    !.always[k] = @ \intersect items]]
    BY DEF Inventory!Change, Kinds
<1>2. UNCHANGED account
    BY DEF Inventory!Change
<1>3. /\ offered' = [offered EXCEPT ![s] = [offered[s] EXCEPT ![k] = items]]
      /\ offered \in [Servers -> ItemSets]
    BY <1>1 DEF InventoryInv
<1>4. /\ offered' \in [Servers -> ItemSets]
      /\ \A t \in Servers \ {s} : offered'[t] = offered[t]
      /\ \A i \in Kinds : offered'[s][i] = IF i = k THEN items ELSE offered[s][i]
    BY <1>3 DEF ItemSets
<1>5. \A c \in Reports : /\ report'[c] \in ReportType
                         /\ ReportInv(report[c])'
  <2> SUFFICES ASSUME NEW c \in Reports
               PROVE  report'[c] \in ReportType /\ ReportInv(report[c])'
      OBVIOUS
  <2>1. report[c] \in ReportType /\ ReportInv(report[c])
      BY DEF InventoryInv
  <2>2. CASE report[c].client # s
    <3>1. report'[c] = report[c]
        BY <1>1, <2>2
    <3>2. QED
        BY <1>2, <1>4, <2>1, <2>2, <3>1 DEF ReportInv, FoundHonestly
  <2>3. CASE report[c].client = s
    <3> DEFINE ever == [report[c].ever EXCEPT ![k] = report[c].ever[k] \union items]
               always == [report[c].always EXCEPT ![k] = report[c].always[k] \intersect items]
    <3>1. report'[c] = [report[c] EXCEPT !.ever = ever, !.always = always]
      <4>1. report'[c] = [report[c] EXCEPT !.ever[k] = @ \union items,
                                    !.always[k] = @ \intersect items]
          BY <1>1, <2>3
      <4>2. QED
          BY <4>1
    <3>2. ever \in ItemSets /\ always \in ItemSets
        BY <2>1 DEF ReportType, ItemSets
    <3>3. \A i \in Kinds :
            /\ ever[i] = IF i = k THEN report[c].ever[i] \union items ELSE report[c].ever[i]
            /\ always[i] = IF i = k THEN report[c].always[i] \intersect items
                           ELSE report[c].always[i]
        BY <2>1 DEF ReportType, ItemSets
    <3> HIDE DEF ever, always
    <3>4. /\ report'[c] \in ReportType
          /\ report'[c].at = report[c].at /\ report'[c].client = report[c].client
          /\ report'[c].during = report[c].during /\ report'[c].found = report[c].found
          /\ report'[c].warned = report[c].warned /\ report'[c].crowded = report[c].crowded
          /\ report'[c].ever = ever /\ report'[c].always = always
        BY <2>1, <3>1, <3>2 DEF ReportType
    <3>5. \A i \in Kinds : FoundHonestly(report[c], i) => FoundHonestly(report'[c], i)
        BY <3>3, <3>4 DEF FoundHonestly
    <3>6. report[c].at \notin {"idle", "client", "error"} =>
            \A i \in Kinds : /\ always[i] \subseteq offered'[s][i]
                             /\ offered'[s][i] \subseteq ever[i]
        BY <1>4, <2>1, <2>3, <3>3 DEF ReportInv
    <3>7. ReportInv(report[c])'
        BY <1>2, <2>1, <2>3, <3>4, <3>5, <3>6 DEF ReportInv
    <3>8. QED
        BY <3>4, <3>7
  <2>4. QED
      BY <2>2, <2>3
<1>6. report' \in [Reports -> ReportType]
    BY <1>1, <1>5
<1>7. QED
    BY <1>2, <1>4, <1>5, <1>6 DEF InventoryInv

LEMMA InventoryStep ==
    ASSUME InventoryInv, Inventory!Next
    PROVE  InventoryInv'
    BY Relinked, Changed, BeginReport, ClientOfReport, FirstRequest, InventoryGot,
       InventoryUnavailable, InventoryUnanswered, ReportWritten
       DEF Inventory!Next, Inventory!Work, Kinds

LEMMA InventorySays == InventoryInv =>
    /\ Inventory!AbsenceIsHonest /\ Inventory!PresenceIsHonest /\ Inventory!ReportsOwnAccount
<1> SUFFICES ASSUME InventoryInv
             PROVE  /\ Inventory!AbsenceIsHonest /\ Inventory!PresenceIsHonest
                    /\ Inventory!ReportsOwnAccount
    OBVIOUS
<1>1. \A c \in Reports : Inventory!Reported(c) =>
        /\ report[c].client \in report[c].during
        /\ \A i \in Kinds : FoundHonestly(report[c], i)
    BY DEF InventoryInv, ReportInv, Asked, Inventory!Reported
<1>2. QED
    BY <1>1, SameCardinality DEF FoundHonestly, Inventory!AbsenceIsHonest, Kinds,
       Inventory!PresenceIsHonest, Inventory!ReportsOwnAccount

-----------------------------------------------------------------------------
(***************************************************************************)
(* The keys of a capability document (CapabilityKeys).                     *)
(***************************************************************************)

LEMMA KeyOperators ==
    /\ \A S : Key!Cardinality(S) = Cardinality(S)
    /\ \A f : Key!IsInjective(f) <=> \A a, b \in DOMAIN f : f[a] = f[b] => a = b
    /\ \A s : Key!ToSet(s) = {s[i] : i \in DOMAIN s}
    /\ \A s : Key!Front(s) = SubSeq(s, 1, Len(s) - 1)
    /\ \A s : Key!Last(s) = s[Len(s)]
<1>1. \A S : Key!Cardinality(S) = Cardinality(S)
    BY DEF Cardinality, Key!Cardinality
<1>2. /\ \A f : Key!IsInjective(f) <=> \A a, b \in DOMAIN f : f[a] = f[b] => a = b
      /\ \A s : Key!ToSet(s) = {s[i] : i \in DOMAIN s}
    BY DEF Key!IsInjective, Key!ToSet
<1>3. \A s : Key!Front(s) = SubSeq(s, 1, Len(s) - 1)
    BY DEF Key!Front
<1>4. \A s : Key!Last(s) = s[Len(s)]
    BY DEF Key!Last
<1>5. QED
    BY <1>1, <1>2, <1>3, <1>4

Increasing(q) == \A k, l \in DOMAIN q : k < l => q[k] < q[l]

Sorted(S) == \E q \in [1..Cardinality(S) -> S] : Increasing(q)

\* A finite set of numbers can be put in order: take its least element away.
LEMMA OrderedExists ==
    ASSUME NEW U \in SUBSET Nat, IsFiniteSet(U)
    PROVE  Sorted(U)
<1> DEFINE T == {k \in Nat : \E S \in SUBSET Nat : /\ IsFiniteSet(S) /\ Cardinality(S) = k
                                                   /\ ~Sorted(S)}
<1>1. ASSUME T # {} PROVE FALSE
  <2>1. T \in SUBSET Nat
      OBVIOUS
  <2>2. PICK n \in T : \A k \in T : n <= k
    <3> HIDE DEF T
    <3>1. QED
        BY <1>1, <2>1, Smallest
  <2>3. PICK S \in SUBSET Nat : IsFiniteSet(S) /\ Cardinality(S) = n /\ ~Sorted(S)
      BY <2>2
  <2>4. n \in Nat /\ \A k \in T : n <= k
      BY <2>2
  <2>5. CASE S = {}
    <3>1. Cardinality(S) = 0
        BY <2>5, FS_EmptySet
    <3>2. [i \in 1..0 |-> 0] \in [1..0 -> S] /\ Increasing([i \in 1..0 |-> 0])
        BY DEF Increasing
    <3>3. QED
        BY <2>3, <3>1, <3>2 DEF Sorted
  <2>6. CASE S # {}
    <3>1. PICK m \in S : \A k \in S : m <= k
        BY <2>6, Smallest
    <3>2. PICK R : R = S \ {m}
        OBVIOUS
    <3>3. IsFiniteSet(R) /\ Cardinality(R) = n - 1 /\ R \in SUBSET Nat /\ Cardinality(R) \in Nat
        BY <2>3, <3>1, <3>2, FS_RemoveElement, FS_CardinalityType
    <3>4. PICK r : r = Cardinality(R)
        OBVIOUS
    <3>5. r \in Nat /\ n = r + 1 /\ ~(n <= r)
        BY <2>4, <3>3, <3>4
    <3>6. r \notin T
      <4> HIDE DEF T
      <4>1. QED
          BY <2>4, <3>5
    <3>7. PICK q \in [1..r -> R] : Increasing(q)
        BY <3>3, <3>4, <3>5, <3>6 DEF Sorted
    <3>8. PICK p : p = [i \in 1..r + 1 |-> IF i = 1 THEN m ELSE q[i - 1]]
        OBVIOUS
    <3>9. \A i \in 1..r + 1 : i # 1 => i - 1 \in 1..r
        BY <3>5
    <3>10. p \in [1..r + 1 -> S]
        BY <3>1, <3>2, <3>7, <3>8, <3>9
    <3>11. Increasing(p)
      <4> SUFFICES ASSUME NEW k \in 1..r + 1, NEW l \in 1..r + 1, k < l
                   PROVE  p[k] < p[l]
          BY <3>10 DEF Increasing
      <4>1. l # 1 /\ l - 1 \in 1..r /\ p[l] = q[l - 1]
        <5>1. l # 1
            BY <3>5
        <5>2. QED
            BY <3>8, <3>9, <5>1
      <4>2. q[l - 1] \in S /\ q[l - 1] # m /\ q[l - 1] \in Nat
          BY <3>2, <3>7, <4>1
      <4>3. CASE k = 1
        <5>1. p[k] = m /\ m \in Nat
            BY <3>1, <3>8, <4>3
        <5>2. QED
            BY <3>1, <4>1, <4>2, <5>1
      <4>4. CASE k # 1
        <5>1. k - 1 \in 1..r /\ p[k] = q[k - 1] /\ k - 1 < l - 1
            BY <3>5, <3>8, <3>9, <4>4
        <5>2. q[k - 1] < q[l - 1]
            BY <3>7, <4>1, <5>1 DEF Increasing
        <5>3. QED
            BY <4>1, <5>1, <5>2
      <4>5. QED
          BY <4>3, <4>4
    <3>12. QED
        BY <2>3, <3>5, <3>10, <3>11 DEF Sorted
  <2>7. QED
      BY <2>5, <2>6
<1>2. Cardinality(U) \in Nat /\ (~Sorted(U) => Cardinality(U) \in T)
    BY FS_CardinalityType
<1>3. QED
    BY <1>1, <1>2

KeyIn == capabilities.in
KeyNames == capabilities.names

\* B: the containers still to be searched, those on the stack and below it.
ToSearch(B, up, s) ==
  /\ \A i \in B : (\E k \in DOMAIN s : s[k] = i) \/ (up[i] # 0 /\ up[i] \in B)
  /\ \A i \in DOMAIN up : up[i] # 0 /\ up[i] \in B => i \in B
  /\ \A k \in DOMAIN s : s[k] \in B /\ ~(up[s[k]] # 0 /\ up[s[k]] \in B)

DocumentOk(n, up, names) ==
  /\ up \in [1..n -> 0..(n - 1)] /\ names \in [1..n -> SUBSET Names]
  /\ up[1] = 0 /\ \A i \in 1..n : up[i] < i /\ (i # 1 => up[i] # 0)

StackOk(s, n) ==
  /\ s \in Seq(1..n)
  /\ \A k, l \in 1..Len(s) : s[k] = s[l] => k = l

KeysInvOf(n, B) ==
  /\ n \in Nat \ {0} /\ DocumentOk(n, KeyIn, KeyNames)
  /\ StackOk(stack, n)
  /\ B \in SUBSET (1..n)
  /\ keys \subseteq Key!AllKeys
  /\ visited \in Nat /\ done \in BOOLEAN
  /\ visited <= MaxNodes =>
       /\ ToSearch(B, KeyIn, stack)
       /\ \A i \in 1..n \ B : KeyNames[i] \subseteq keys
       /\ visited = Cardinality(1..n \ B)
  /\ visited > MaxNodes => done /\ n > MaxNodes
  /\ done /\ visited <= MaxNodes => stack = <<>>

KeysInv == \E n, B : KeysInvOf(n, B)

LEMMA KeysInit == Key!Init => KeysInv
<1> SUFFICES ASSUME Key!Init PROVE KeysInv
    OBVIOUS
<1>1. PICK n \in 1..Containers :
        capabilities \in
          [in : {f \in [1..n -> 0..(n - 1)] : f[1] = 0 /\ \A i \in 2..n : f[i] \in 1..(i - 1)},
           names : [1..n -> SUBSET Names]]
    BY DEF Key!Init, Key!Documents
<1>2. n \in Nat \ {0} /\ MaxNodes \in Nat \ {0}
    BY ToolsAssumption DEF ToolsAssumption, Key!KeysAssumption
<1>3. /\ KeyIn \in [1..n -> 0..(n - 1)] /\ KeyNames \in [1..n -> SUBSET Names]
      /\ KeyIn[1] = 0 /\ \A i \in 2..n : KeyIn[i] \in 1..(i - 1)
    BY <1>1 DEF KeyIn, KeyNames
<1>4. DocumentOk(n, KeyIn, KeyNames)
  <2>1. \A i \in 1..n : i = 1 \/ i \in 2..n
      BY <1>2
  <2>2. \A i \in 1..n : KeyIn[i] < i /\ (i # 1 => KeyIn[i] # 0)
      BY <1>2, <1>3, <2>1
  <2>3. QED
      BY <1>3, <2>2 DEF DocumentOk
<1>5. /\ stack = <<1>> /\ visited = 0 /\ keys = {} /\ done = FALSE
    BY DEF Key!Init
<1>6. 1 \in 1..n /\ StackOk(stack, n)
    BY <1>2, <1>5 DEF StackOk
<1>7. ToSearch(1..n, KeyIn, stack)
  <2>1. DOMAIN KeyIn = 1..n /\ DOMAIN stack = {1} /\ stack[1] = 1
      BY <1>3, <1>5
  <2>2. \A i \in 1..n : i = 1 \/ (KeyIn[i] # 0 /\ KeyIn[i] \in 1..n)
      BY <1>2, <1>4 DEF DocumentOk
  <2>3. QED
      BY <1>3, <2>1, <2>2, <1>6 DEF ToSearch
<1>8. 1..n \ 1..n = {} /\ Cardinality({}) = 0
    BY FS_EmptySet
<1>9. visited = Cardinality(1..n \ 1..n) /\ keys \subseteq Key!AllKeys
    BY <1>5, <1>8
<1>10. /\ ~(visited > MaxNodes) /\ visited \in Nat
       /\ ~done /\ done \in BOOLEAN
  <2>1. ~(visited > MaxNodes) /\ visited \in Nat
      BY <1>2, <1>5
  <2>2. ~done /\ done \in BOOLEAN
      BY <1>5, Zenon
  <2>3. QED
      BY <2>1, <2>2
<1>11. KeysInvOf(n, 1..n)
    BY <1>2, <1>4, <1>6, <1>7, <1>9, <1>10 DEF KeysInvOf
<1>12. QED
    BY <1>11 DEF KeysInv

\* q has the containers in c, each once.
ListsChildren(q, c, up, n) ==
  /\ q \in Seq(1..n)
  /\ \A k, l \in 1..Len(q) : q[k] = q[l] => k = l
  /\ \A k \in 1..Len(q) : up[q[k]] = c
  /\ \A i \in 1..n : up[i] = c => \E k \in 1..Len(q) : q[k] = i

LEMMA ChildrenInOrder ==
    ASSUME NEW n \in Nat, NEW B, KeysInvOf(n, B), NEW c \in 1..n
    PROVE  ListsChildren(Key!InOrder(c), c, KeyIn, n)
<1>1. PICK S : S = Key!Children(c)
    OBVIOUS
<1>2. S = {j \in 1..n : KeyIn[j] = c}
    BY <1>1 DEF KeysInvOf, DocumentOk, KeyIn, Key!Children
<1>3. S \in SUBSET (1..n)
    BY <1>2
<1>4. PICK m : m = Cardinality(S)
    OBVIOUS
<1>5. IsFiniteSet(S) /\ m \in Nat /\ \E q \in [1..m -> S] : Increasing(q)
  <2>1. S \in SUBSET Nat /\ IsFiniteSet(S)
    <3>1. n \in Nat
        BY DEF KeysInvOf
    <3>2. IsFiniteSet(1..n)
        BY <3>1, FS_Interval
    <3>3. IsFiniteSet(S)
        BY <1>3, <3>2, FS_Subset
    <3>4. QED
        BY <1>3, <3>1, <3>3
  <2>2. QED
      BY <1>4, <2>1, OrderedExists, FS_CardinalityType DEF Sorted
<1>6. PICK q : q = Key!InOrder(c)
    OBVIOUS
<1>7. q = CHOOSE p \in [1..m -> S] : \A k, l \in DOMAIN p : k < l => p[k] < p[l]
    BY <1>1, <1>4, <1>6, KeyOperators, Zenon DEF Key!InOrder
<1>8. q \in [1..m -> S] /\ Increasing(q)
    BY <1>5, <1>7 DEF Increasing
<1>9. \A k, l \in 1..m : q[k] = q[l] => k = l
  <2> SUFFICES ASSUME NEW k \in 1..m, NEW l \in 1..m, k < l PROVE q[k] # q[l]
      BY <1>5
  <2>1. q[k] < q[l] /\ q[k] \in 1..n /\ q[l] \in 1..n
      BY <1>3, <1>8 DEF Increasing
  <2>2. QED
      BY <2>1
<1>10. \A i \in S : \E k \in 1..m : q[k] = i
  <2>1. q \in Injection(1..m, S)
      BY <1>8, <1>9 DEF Injection, IsInjective
  <2>2. Cardinality(1..m) = m
      BY <1>5, FS_Interval
  <2>3. q \in Surjection(1..m, S)
      BY <1>4, <1>5, <2>1, <2>2, FS_Injection
  <2>4. QED
      BY <2>3 DEF Surjection
<1>11. q \in Seq(1..n) /\ Len(q) = m
  <2>1. q \in [1..m -> 1..n]
      BY <1>3, <1>8
  <2>2. QED
      BY <1>5, <2>1
<1>12. QED
    BY <1>2, <1>6, <1>8, <1>9, <1>10, <1>11 DEF ListsChildren

\* f is s without its last element c.
Popped(f, s, c, n) ==
  \E h \in Nat :
    /\ Len(s) = h + 1 /\ s[h + 1] = c
    /\ f \in Seq(1..n) /\ Len(f) = h /\ \A k \in 1..h : f[k] = s[k]

\* One container taken from the stack, its children pushed in its place.
LEMMA OneSearched ==
    ASSUME NEW n \in Nat \ {0}, NEW B \in SUBSET (1..n), NEW s, NEW f, NEW q, NEW c,
           NEW up, NEW names, DocumentOk(n, up, names),
           StackOk(s, n), ToSearch(B, up, s), Popped(f, s, c, n), ListsChildren(q, c, up, n)
    PROVE  /\ c \in B /\ StackOk(f \o q, n) /\ ToSearch(B \ {c}, up, f \o q)
<1>h. PICK h \in Nat :
        /\ Len(s) = h + 1 /\ s[h + 1] = c
        /\ f \in Seq(1..n) /\ Len(f) = h /\ \A k \in 1..h : f[k] = s[k]
    BY DEF Popped
<1>q. /\ q \in Seq(1..n)
      /\ \A k, l \in 1..Len(q) : q[k] = q[l] => k = l
      /\ \A k \in 1..Len(q) : up[q[k]] = c
      /\ \A i \in 1..n : up[i] = c => \E k \in 1..Len(q) : q[k] = i
    BY DEF ListsChildren
<1>t. PICK t : t = f \o q
    OBVIOUS
<1>1. /\ Len(q) \in Nat /\ t \in Seq(1..n) /\ Len(t) = h + Len(q)
      /\ \A k \in 1..h : t[k] = f[k]
      /\ \A k \in 1..Len(q) : t[h + k] = q[k]
  <2>1. Len(q) \in Nat
      BY <1>q
  <2>2. /\ t \in Seq(1..n) /\ Len(t) = h + Len(q)
        /\ \A i \in 1..h + Len(q) : t[i] = IF i <= h THEN f[i] ELSE q[i - h]
      BY <1>h, <1>q, <1>t, ConcatProperties
  <2>3. \A k \in 1..Len(q) : h + k \in 1..h + Len(q) /\ ~(h + k <= h) /\ h + k - h = k
      BY <2>1, <1>h
  <2>4. \A k \in 1..h : k \in 1..h + Len(q) /\ k <= h
      BY <2>1, <1>h
  <2>5. QED
      BY <2>1, <2>2, <2>3, <2>4
<1>2. \A k \in 1..h + Len(q) : k \in 1..h \/ (k - h \in 1..Len(q) /\ t[k] = q[k - h])
  <2>1. \A k \in 1..h + Len(q) : k \notin 1..h => k - h \in 1..Len(q) /\ h + (k - h) = k
      BY <1>1, <1>h
  <2>2. QED
      BY <1>1, <2>1
<1>3. /\ DOMAIN s = 1..h + 1 /\ DOMAIN t = 1..h + Len(q) /\ DOMAIN up = 1..n
      /\ h + 1 \in 1..h + 1 /\ \A k \in 1..h : k \in 1..h + 1 /\ k # h + 1
      /\ \A k \in 1..h + 1 : k \in 1..h \/ k = h + 1
    BY <1>1, <1>h DEF StackOk, DocumentOk
<1>4. \A k \in 1..h : s[k] \in B /\ ~(up[s[k]] # 0 /\ up[s[k]] \in B) /\ s[k] # c
    BY <1>3, <1>h DEF ToSearch, StackOk
<1>5. c \in B /\ ~(up[c] # 0 /\ up[c] \in B) /\ c \in 1..n /\ c # 0
  <2>1. h + 1 \in DOMAIN s /\ s[h + 1] = c
      BY <1>3, <1>h
  <2>2. c \in B /\ ~(up[c] # 0 /\ up[c] \in B)
      BY <2>1 DEF ToSearch
  <2>3. QED
      BY <2>2
<1>6. \A k \in 1..Len(q) : q[k] \in 1..n /\ q[k] \in B /\ q[k] # c
  <2>1. \A k \in 1..Len(q) : q[k] \in 1..n
      BY <1>q, ElementOfSeq
  <2>2. \A k \in 1..Len(q) : up[q[k]] = c
      BY <1>q
  <2>3. \A i \in 1..n : up[i] = c => i \in B
      BY <1>3, <1>5 DEF ToSearch
  <2>4. \A i \in 1..n : up[i] = c => i # c
      BY DEF DocumentOk
  <2>5. QED
      BY <2>1, <2>2, <2>3, <2>4
<1>7. StackOk(t, n)
  <2> SUFFICES ASSUME NEW k \in 1..h + Len(q), NEW l \in 1..h + Len(q), t[k] = t[l]
               PROVE  k = l
      BY <1>1 DEF StackOk
  <2>1. \A i \in 1..h : \A j \in 1..h + Len(q) : j \notin 1..h => t[i] # t[j]
    <3> SUFFICES ASSUME NEW i \in 1..h, NEW j \in 1..h + Len(q), j \notin 1..h, t[i] = t[j]
                 PROVE  FALSE
        OBVIOUS
    <3>1. up[t[j]] = c
      <4>1. j - h \in 1..Len(q) /\ t[j] = q[j - h]
          BY <1>2
      <4>2. QED
          BY <1>q, <4>1
    <3>2. ~(up[t[i]] # 0 /\ up[t[i]] \in B)
      <4>1. t[i] = s[i]
          BY <1>1, <1>h
      <4>2. QED
          BY <1>4, <4>1
    <3>3. QED
        BY <1>5, <3>1, <3>2
  <2>2. CASE k \in 1..h
    <3>1. l \in 1..h
        BY <2>1, <2>2
    <3>2. s[k] = s[l]
        BY <1>1, <1>h, <2>2, <3>1
    <3>3. k \in 1..Len(s) /\ l \in 1..Len(s)
        BY <1>3, <1>h, <2>2, <3>1
    <3>4. QED
        BY <3>2, <3>3 DEF StackOk
  <2>3. CASE k \notin 1..h
    <3>1. l \notin 1..h
        BY <2>1, <2>3
    <3>2. /\ k - h \in 1..Len(q) /\ t[k] = q[k - h]
          /\ l - h \in 1..Len(q) /\ t[l] = q[l - h]
        BY <1>2, <2>3, <3>1
    <3>3. k - h = l - h
        BY <1>q, <3>2
    <3>4. QED
        BY <3>3
  <2>4. QED
      BY <2>2, <2>3
<1>8. ASSUME NEW i \in B \ {c}
      PROVE  (\E k \in DOMAIN t : t[k] = i) \/ (up[i] # 0 /\ up[i] \in B \ {c})
  <2>1. CASE \E k \in DOMAIN s : s[k] = i
    <3>1. PICK k \in 1..h + 1 : s[k] = i
        BY <1>3, <2>1
    <3>2. k \in 1..h /\ t[k] = i
        BY <1>1, <1>3, <1>h, <3>1
    <3>3. k \in DOMAIN t
        BY <1>1, <1>3, <3>2
    <3>4. QED
        BY <3>2, <3>3
  <2>2. CASE up[i] = c
    <3>1. PICK k \in 1..Len(q) : q[k] = i
        BY <1>q, <2>2
    <3>2. h + k \in DOMAIN t /\ t[h + k] = i
        BY <1>1, <1>3, <3>1
    <3>3. QED
        BY <3>2
  <2>3. QED
      BY <2>1, <2>2 DEF ToSearch
<1>9. ASSUME NEW i \in 1..n, up[i] # 0, up[i] \in B \ {c}
      PROVE  i \in B \ {c}
    BY <1>3, <1>5, <1>9 DEF ToSearch
<1>10. ASSUME NEW k \in 1..h + Len(q)
       PROVE  t[k] \in B \ {c} /\ ~(up[t[k]] # 0 /\ up[t[k]] \in B \ {c})
  <2>1. CASE k \in 1..h
      BY <1>1, <1>4, <1>h, <2>1
  <2>2. CASE k \notin 1..h
    <3>1. k - h \in 1..Len(q) /\ t[k] = q[k - h]
        BY <1>2, <2>2
    <3>2. t[k] \in B \ {c} /\ up[t[k]] = c
        BY <1>6, <1>q, <3>1
    <3>3. QED
        BY <3>2
  <2>3. QED
      BY <2>1, <2>2
<1>11. ToSearch(B \ {c}, up, t)
    BY <1>3, <1>8, <1>9, <1>10 DEF ToSearch
<1>12. QED
    BY <1>5, <1>7, <1>11, <1>t

LEMMA KeysStep ==
    ASSUME KeysInv, Key!Next
    PROVE  KeysInv'
<1>1. PICK n, B : KeysInvOf(n, B)
    BY DEF KeysInv
<1>2. /\ n \in Nat \ {0} /\ DocumentOk(n, KeyIn, KeyNames) /\ StackOk(stack, n)
      /\ B \in SUBSET (1..n) /\ keys \subseteq Key!AllKeys /\ visited \in Nat
    BY <1>1 DEF KeysInvOf
<1>3. capabilities' = capabilities /\ ~done
    BY DEF Key!Next, Key!Visit, Key!Finish
<1>4. MaxNodes \in Nat \ {0}
    BY ToolsAssumption DEF ToolsAssumption, Key!KeysAssumption
<1>5. /\ visited <= MaxNodes
      /\ ToSearch(B, KeyIn, stack)
      /\ \A i \in 1..n \ B : KeyNames[i] \subseteq keys
      /\ visited = Cardinality(1..n \ B)
  <2>1. ~(visited > MaxNodes)
      BY <1>1, <1>3 DEF KeysInvOf
  <2>2. visited <= MaxNodes
      BY <1>2, <1>4, <2>1
  <2>3. QED
      BY <1>1, <2>2 DEF KeysInvOf
<1>6. KeyIn' = KeyIn /\ KeyNames' = KeyNames /\ Key!AllKeys' = Key!AllKeys
    BY <1>3 DEF KeyIn, KeyNames, Key!AllKeys
<1>7. CASE Key!Finish
  <2>1. stack' = stack /\ keys' = keys /\ visited' = visited /\ stack = <<>> /\ done' = TRUE
      BY <1>7 DEF Key!Finish
  <2>2. KeysInvOf(n, B)'
      BY <1>2, <1>4, <1>5, <1>6, <2>1 DEF KeysInvOf
  <2>3. QED
      BY <2>2 DEF KeysInv
<1>8. CASE Key!Visit
  <2>1. stack # <<>> /\ visited' = visited + 1
      BY <1>8 DEF Key!Visit
  <2>2. PICK h : h = Len(stack) - 1
      OBVIOUS
  <2>3. stack \in Seq(1..n)
      BY <1>2 DEF StackOk
  <2>4. h \in Nat /\ Len(stack) = h + 1 /\ \A k \in 1..h + 1 : stack[k] \in 1..n
    <3>1. Len(stack) \in Nat \ {0}
        BY <2>1, <2>3, EmptySeq
    <3>2. \A k \in 1..Len(stack) : stack[k] \in 1..n
        BY <2>3, ElementOfSeq
    <3>3. QED
        BY <2>2, <3>1, <3>2
  <2>5. PICK f : f = Key!Front(stack)
      OBVIOUS
  <2>6. f \in Seq(1..n) /\ Len(f) = h /\ \A k \in 1..h : f[k] = stack[k]
    <3>1. f = SubSeq(stack, 1, h)
        BY <2>2, <2>5, KeyOperators, Zenon
    <3>2. \A i \in 1..h : stack[i] \in 1..n
        BY <2>4
    <3>3. /\ SubSeq(stack, 1, h) \in Seq(1..n)
          /\ Len(SubSeq(stack, 1, h)) = IF 1 <= h THEN h - 1 + 1 ELSE 0
          /\ \A i \in 1..h - 1 + 1 : SubSeq(stack, 1, h)[i] = stack[1 + i - 1]
      <4>1. 1 \in Int /\ h \in Int
          BY <2>4
      <4>2. QED
          BY <3>2, <4>1, SubSeqProperties
    <3>4. QED
        BY <2>4, <3>1, <3>3
  <2>7. PICK c : c = stack[h + 1]
      OBVIOUS
  <2>8. Key!Last(stack) = c /\ c \in 1..n /\ h + 1 \in 1..Len(stack)
      BY <2>4, <2>7, KeyOperators
  <2>9. c \in B
    <3>1. h + 1 \in DOMAIN stack
        BY <2>3, <2>8
    <3>2. QED
        BY <1>5, <2>7, <3>1 DEF ToSearch
  <2>10. /\ IsFiniteSet(1..n) /\ Cardinality(1..n) = n
         /\ Cardinality(1..n \ (B \ {c})) = visited + 1
         /\ Cardinality(1..n \ (B \ {c})) <= n
    <3>1. IsFiniteSet(1..n) /\ Cardinality(1..n) = n
        BY <1>2, FS_Interval
    <3>2. IsFiniteSet(1..n \ B)
        BY <3>1, FS_Subset
    <3>3. 1..n \ (B \ {c}) = (1..n \ B) \union {c} /\ c \notin 1..n \ B
        BY <2>8, <2>9
    <3>4. Cardinality((1..n \ B) \union {c}) = visited + 1
        BY <1>5, <3>2, <3>3, FS_AddElement
    <3>5. Cardinality(1..n \ (B \ {c})) <= n
        BY <3>1, FS_Subset
    <3>6. QED
        BY <3>1, <3>3, <3>4, <3>5
  <2>11. StackOk(f, n)
      BY <1>2, <2>4, <2>6 DEF StackOk
  <2>p. Popped(f, stack, c, n)
      BY <2>4, <2>6, <2>7 DEF Popped
  <2>12. CASE Key!PastBound
    <3>1. done' = TRUE /\ stack' = f /\ keys' = keys /\ visited + 1 > MaxNodes
        BY <1>8, <2>5, <2>12 DEF Key!Visit, Key!PastBound
    <3>2. visited' > MaxNodes /\ n > MaxNodes /\ ~(visited' <= MaxNodes) /\ visited' \in Nat
        BY <1>2, <1>4, <2>1, <2>10, <3>1
    <3>3. KeysInvOf(n, B)'
        BY <1>2, <1>6, <2>11, <3>1, <3>2 DEF KeysInvOf
    <3>4. QED
        BY <3>3 DEF KeysInv
  <2>13. CASE ~Key!PastBound
    <3>1. PICK q : q = Key!InOrder(c)
        OBVIOUS
    <3>2. /\ done' = done /\ stack' = f \o q /\ keys' = keys \union KeyNames[c]
          /\ ~(visited + 1 > MaxNodes)
        BY <1>8, <2>5, <2>8, <2>13, <3>1, Zenon
           DEF Key!Visit, Key!PastBound, Key!Pushed, KeyNames
    <3>3. ListsChildren(q, c, KeyIn, n)
        BY <1>1, <1>2, <2>8, <3>1, ChildrenInOrder
    <3>4. StackOk(stack', n) /\ ToSearch(B \ {c}, KeyIn, stack')
        BY <1>2, <1>5, <2>p, <3>2, <3>3, OneSearched
    <3>5. keys' \subseteq Key!AllKeys
      <4>1. KeyNames[c] \subseteq Key!AllKeys
        <5>1. c \in DOMAIN KeyIn
            BY <1>2, <2>8 DEF DocumentOk
        <5>2. QED
            BY <5>1 DEF KeyIn, KeyNames, Key!AllKeys
      <4>2. QED
          BY <1>2, <3>2, <4>1
    <3>6. \A i \in 1..n \ (B \ {c}) : KeyNames[i] \subseteq keys'
        BY <1>5, <3>2
    <3>7. /\ visited' \in Nat /\ visited' <= MaxNodes /\ ~(visited' > MaxNodes)
          /\ ~done' /\ done' \in BOOLEAN
      <4>1. visited' \in Nat /\ visited' <= MaxNodes /\ ~(visited' > MaxNodes)
          BY <1>2, <1>4, <2>1, <3>2
      <4>2. ~done' /\ done' \in BOOLEAN
        <5>1. done \in BOOLEAN
            BY <1>1 DEF KeysInvOf
        <5>2. QED
            BY <1>3, <3>2, <5>1, Zenon
      <4>3. QED
          BY <4>1, <4>2
    <3>8. KeysInvOf(n, B \ {c})'
        BY <1>2, <1>6, <2>1, <2>10, <3>4, <3>5, <3>6, <3>7 DEF KeysInvOf
    <3>9. QED
        BY <3>8 DEF KeysInv
  <2>14. QED
      BY <2>12, <2>13
<1>9. QED
    BY <1>7, <1>8 DEF Key!Next

\* What is below the stack, as NothingForgotten defines it.
BelowOf(s, up, n) ==
  CHOOSE g : g = [i \in 1..n |->
    (\E k \in DOMAIN s : s[k] = i) \/ (up[i] # 0 /\ g[up[i]])]

LEMMA BelowIs ==
    ASSUME NEW n \in Nat \ {0}, NEW B \in SUBSET (1..n), NEW up, NEW names, NEW s,
           DocumentOk(n, up, names), ToSearch(B, up, s), s \in Seq(1..n)
    PROVE  \A i \in 1..n : BelowOf(s, up, n)[i] <=> i \in B
<1> DEFINE E(g) == [i \in 1..n |->
                     (\E k \in DOMAIN s : s[k] = i) \/ (up[i] # 0 /\ g[up[i]])]
           below == BelowOf(s, up, n)
<1>1. \A i \in 1..n : up[i] # 0 => up[i] \in 1..n
    BY DEF DocumentOk
<1>2. PICK g : g = [i \in 1..n |-> i \in B]
    OBVIOUS
<1>3. g = E(g)
  <2>1. \A i \in 1..n : g[i] = (i \in B)
      BY <1>2
  <2>2. ASSUME NEW i \in 1..n
        PROVE  (i \in B) <=> (\E k \in DOMAIN s : s[k] = i) \/ (up[i] # 0 /\ up[i] \in B)
      BY DEF ToSearch, DocumentOk
  <2>3. ASSUME NEW i \in 1..n
        PROVE  (i \in B) = ((\E k \in DOMAIN s : s[k] = i) \/ (up[i] # 0 /\ g[up[i]]))
    <3>1. up[i] # 0 => (g[up[i]] <=> up[i] \in B)
        BY <1>1, <2>1, Zenon
    <3>2. (i \in B) <=> ((\E k \in DOMAIN s : s[k] = i) \/ (up[i] # 0 /\ g[up[i]]))
        BY <2>2, <3>1, Zenon
    <3>3. QED
        BY <3>2, SMT
  <2>4. QED
      BY <1>2, <2>3, Zenon
<1>4. below = E(below)
  <2>1. below = CHOOSE x : x = E(x)
      BY DEF BelowOf
  <2> HIDE DEF E, below
  <2>2. QED
      BY <1>3, <2>1
<1> HIDE DEF below
<1>5. \A i \in 1..n :
        below[i] = ((\E k \in DOMAIN s : s[k] = i) \/ (up[i] # 0 /\ below[up[i]]))
    BY <1>4, Zenon
<1> DEFINE T == {i \in 1..n : ~(below[i] <=> i \in B)}
<1>6. ASSUME T # {} PROVE FALSE
  <2>1. T \in SUBSET Nat
      OBVIOUS
  <2>2. PICK m \in T : \A k \in T : m <= k
    <3> HIDE DEF T
    <3>1. QED
        BY <1>6, <2>1, Smallest
  <2>3. m \in 1..n /\ ~(below[m] <=> m \in B)
      BY <2>2
  <2>4. up[m] # 0 => (below[up[m]] <=> up[m] \in B)
    <3> SUFFICES ASSUME up[m] # 0 PROVE below[up[m]] <=> up[m] \in B
        OBVIOUS
    <3>1. up[m] \in 1..n /\ ~(m <= up[m])
        BY <1>1, <2>3 DEF DocumentOk
    <3>2. up[m] \notin T
      <4> HIDE DEF T
      <4>1. QED
          BY <2>2, <3>1
    <3>3. QED
        BY <3>1, <3>2
  <2>5. (m \in B) <=> (\E k \in DOMAIN s : s[k] = m) \/ (up[m] # 0 /\ up[m] \in B)
      BY <2>3 DEF ToSearch, DocumentOk
  <2>6. QED
      BY <1>5, <2>3, <2>4, <2>5
<1>7. QED
    BY <1>6 DEF below

LEMMA KeysSay == KeysInv => Key!KeysExact /\ Key!NothingForgotten
<1> SUFFICES ASSUME KeysInv PROVE Key!KeysExact /\ Key!NothingForgotten
    OBVIOUS
<1>1. PICK n, B : KeysInvOf(n, B)
    BY DEF KeysInv
<1>2. /\ n \in Nat \ {0} /\ DocumentOk(n, KeyIn, KeyNames) /\ StackOk(stack, n)
      /\ B \in SUBSET (1..n) /\ keys \subseteq Key!AllKeys /\ visited \in Nat
      /\ DOMAIN KeyIn = 1..n
    BY <1>1 DEF KeysInvOf, DocumentOk
<1>3. MaxNodes \in Nat \ {0}
    BY ToolsAssumption DEF ToolsAssumption, Key!KeysAssumption
<1>4. ASSUME done, n <= MaxNodes PROVE Key!AllKeys \subseteq keys
  <2>1. visited <= MaxNodes
      BY <1>1, <1>2, <1>3, <1>4 DEF KeysInvOf
  <2>2. /\ stack = <<>> /\ ToSearch(B, KeyIn, stack)
        /\ \A i \in 1..n \ B : KeyNames[i] \subseteq keys
      BY <1>1, <1>4, <2>1 DEF KeysInvOf
  <2>3. ASSUME B # {} PROVE FALSE
    <3>1. B \in SUBSET Nat
        BY <1>2
    <3>2. PICK m \in B : \A k \in B : m <= k
        BY <2>3, <3>1, Smallest
    <3>3. KeyIn[m] \in B
        BY <2>2 DEF ToSearch
    <3>4. KeyIn[m] < m /\ m \in Nat /\ KeyIn[m] \in Nat
        BY <1>2, <3>1, <3>3 DEF DocumentOk
    <3>5. QED
        BY <3>2, <3>3, <3>4
  <2>4. \A i \in DOMAIN capabilities.in : capabilities.names[i] \subseteq keys
      BY <1>2, <2>2, <2>3 DEF KeyIn, KeyNames
  <2>5. QED
      BY <2>4 DEF Key!AllKeys
<1>5. Key!Cardinality(DOMAIN capabilities.in) = n
  <2>1. Cardinality(1..n) = n
      BY <1>2, FS_Interval
  <2>2. QED
      BY <1>2, <2>1, KeyOperators DEF KeyIn
<1>6. Key!KeysExact
    BY <1>2, <1>4, <1>5 DEF Key!KeysExact
<1>7. Key!IsInjective(stack)
  <2>1. DOMAIN stack = 1..Len(stack)
      BY <1>2 DEF StackOk
  <2>2. \A a, b \in DOMAIN stack : stack[a] = stack[b] => a = b
      BY <1>2, <2>1 DEF StackOk
  <2>3. QED
      BY <2>2, KeyOperators
<1> DEFINE below == CHOOSE g : g = [i \in DOMAIN capabilities.in |->
                      i \in Key!ToSet(stack)
                      \/ (capabilities.in[i] # 0 /\ g[capabilities.in[i]])]
<1>8. ASSUME visited <= MaxNodes
      PROVE  /\ \A i \in DOMAIN capabilities.in :
                  ~below[i] => capabilities.names[i] \subseteq keys
             /\ visited = Key!Cardinality({i \in DOMAIN capabilities.in : ~below[i]})
  <2>1. /\ ToSearch(B, KeyIn, stack) /\ visited = Cardinality(1..n \ B)
        /\ \A i \in 1..n \ B : KeyNames[i] \subseteq keys
      BY <1>1, <1>8 DEF KeysInvOf
  <2>2. below = BelowOf(stack, KeyIn, n)
    <3>1. \A i : i \in Key!ToSet(stack) <=> \E k \in DOMAIN stack : stack[k] = i
        BY KeyOperators
    <3> DEFINE D(g) == [i \in DOMAIN capabilities.in |->
                         i \in Key!ToSet(stack)
                         \/ (capabilities.in[i] # 0 /\ g[capabilities.in[i]])]
               E(g) == [i \in 1..n |-> (\E k \in DOMAIN stack : stack[k] = i)
                                       \/ (KeyIn[i] # 0 /\ g[KeyIn[i]])]
    <3>2. \A g : D(g) = E(g)
        BY <1>2, <3>1, Zenon DEF KeyIn
    <3>3. below = (CHOOSE g : g = D(g)) /\ BelowOf(stack, KeyIn, n) = (CHOOSE g : g = E(g))
        BY DEF BelowOf
    <3> HIDE DEF D, E, below
    <3>4. QED
        BY <3>2, <3>3, Zenon
  <2> HIDE DEF below
  <2>3. \A i \in 1..n : below[i] <=> i \in B
      BY <1>2, <2>1, <2>2, BelowIs DEF StackOk
  <2>4. {i \in DOMAIN capabilities.in : ~below[i]} = 1..n \ B
      BY <1>2, <2>3 DEF KeyIn
  <2>5. QED
      BY <1>2, <2>1, <2>3, <2>4, KeyOperators DEF KeyIn, KeyNames
<1>9. Key!NothingForgotten
    BY <1>7, <1>8, Zenon DEF Key!NothingForgotten
<1>10. QED
    BY <1>6, <1>9

-----------------------------------------------------------------------------
(***************************************************************************)
(* The search (FileSearch): sets in order, the tree, the walk.             *)
(***************************************************************************)

\* The sequence of a set of numbers in order.
Ordered(U, m) == CHOOSE p \in [1..m -> U] : \A k, l \in 1..m : k < l => p[k] < p[l]

Lists(q, U, m) ==
  /\ m \in Nat /\ q \in [1..m -> U]
  /\ \A k, l \in 1..m : k < l => q[k] < q[l]
  /\ \A k, l \in 1..m : q[k] = q[l] => k = l
  /\ \A i \in U : \E k \in 1..m : q[k] = i

LEMMA OrderedIs ==
    ASSUME NEW U \in SUBSET Nat, IsFiniteSet(U)
    PROVE  Lists(Ordered(U, Cardinality(U)), U, Cardinality(U))
<1>a. PICK m : m = Cardinality(U)
    OBVIOUS
<1>b. PICK q : q = Ordered(U, m)
    OBVIOUS
<1>1. m \in Nat
    BY <1>a, FS_CardinalityType
<1>2. \E p \in [1..m -> U] : \A k, l \in 1..m : k < l => p[k] < p[l]
  <2>1. PICK p \in [1..m -> U] : Increasing(p)
      BY <1>a, OrderedExists DEF Sorted
  <2>2. DOMAIN p = 1..m
      BY <2>1
  <2>3. QED
      BY <2>1, <2>2 DEF Increasing
<1>3. q \in [1..m -> U] /\ \A k, l \in 1..m : k < l => q[k] < q[l]
    BY <1>2, <1>b DEF Ordered
<1>4. \A k, l \in 1..m : q[k] = q[l] => k = l
  <2> SUFFICES ASSUME NEW k \in 1..m, NEW l \in 1..m, k < l PROVE q[k] # q[l]
      BY <1>1
  <2>1. q[k] < q[l] /\ q[k] \in Nat /\ q[l] \in Nat
      BY <1>3
  <2>2. QED
      BY <2>1
<1>5. \A i \in U : \E k \in 1..m : q[k] = i
  <2>1. q \in Injection(1..m, U)
    <3>1. DOMAIN q = 1..m
        BY <1>3
    <3>2. QED
        BY <1>3, <1>4, <3>1, Zenon DEF Injection, IsInjective
  <2>2. IsFiniteSet(1..m) /\ Cardinality(1..m) = m
      BY <1>1, FS_Interval
  <2>3. q \in Surjection(1..m, U)
      BY <1>a, <2>1, <2>2, FS_Injection
  <2>4. QED
      BY <2>3 DEF Surjection
<1>6. QED
    BY <1>1, <1>3, <1>4, <1>5, <1>a, <1>b DEF Lists

LEMMA Bounded ==
    ASSUME NEW U \in SUBSET Nat, IsFiniteSet(U)
    PROVE  \E n \in Nat : \A u \in U : u <= n
<1>1. PICK m : m = Cardinality(U)
    OBVIOUS
<1>2. PICK q : q = Ordered(U, m)
    OBVIOUS
<1>3. /\ m \in Nat /\ q \in [1..m -> U]
      /\ \A k, l \in 1..m : k < l => q[k] < q[l]
      /\ \A i \in U : \E k \in 1..m : q[k] = i
    BY <1>1, <1>2, OrderedIs DEF Lists
<1>4. CASE m = 0
    BY <1>3, <1>4
<1>5. CASE m # 0
  <2>1. m \in 1..m /\ \A k \in 1..m : k = m \/ k < m
      BY <1>3, <1>5
  <2>2. \A k \in 1..m : q[k] \in Nat /\ (k = m \/ q[k] < q[m])
      BY <1>3, <2>1
  <2>3. \A u \in U : u <= q[m]
    <3>1. \A k \in 1..m : q[k] <= q[m]
        BY <2>1, <2>2
    <3>2. QED
        BY <1>3, <3>1
  <2>4. QED
      BY <2>1, <2>2, <2>3
<1>6. QED
    BY <1>4, <1>5

-----------------------------------------------------------------------------
(* Paths of entries. *)

LEMMA SearchAssumptions ==
    /\ IsFiniteSet(Entries) /\ Entries \subseteq Nat \ {0}
    /\ MaxResults \in Nat \ {0} /\ MaxDepth \in Nat /\ MaxScanned \in Nat
    /\ \A S : Search!Cardinality(S) = Cardinality(S)
<1>1. \A S : Search!IsFiniteSet(S) <=> IsFiniteSet(S)
    BY DEF IsFiniteSet, Search!IsFiniteSet
<1>2. \A S : Search!Cardinality(S) = Cardinality(S)
    BY DEF Cardinality, Search!Cardinality
<1>3. QED
    BY <1>1, <1>2, ToolsAssumption DEF ToolsAssumption, Search!SearchAssumption

EntryPath == Seq(Entries)

LEMMA EntryPaths ==
    ASSUME NEW x \in EntryPath
    PROVE  /\ Len(x) \in Nat /\ x \in Seq(Entries) /\ DOMAIN x = 1..Len(x)
           /\ \A i \in 1..Len(x) : x[i] \in Entries
           /\ x # <<>> <=> Len(x) # 0
<1>1. x \in Seq(Entries)
    BY DEF EntryPath
<1>2. \A i \in 1..Len(x) : x[i] \in Entries
    BY <1>1, ElementOfSeq
<1>3. x # <<>> <=> Len(x) # 0
    BY <1>1, EmptySeq
<1>4. QED
    BY <1>1, <1>2, <1>3

LEMMA Below ==
    ASSUME NEW x \in EntryPath, NEW y \in EntryPath
    PROVE  Search!Under(x, y) <=> Len(x) <= Len(y) /\ \A i \in 1..Len(x) : x[i] = y[i]
    BY DEF Search!Under, EntryPath

LEMMA SameEntries ==
    ASSUME NEW x \in EntryPath, NEW y \in EntryPath, Len(x) = Len(y),
           \A i \in 1..Len(x) : x[i] = y[i]
    PROVE  x = y
    BY SeqEqual DEF EntryPath

LEMMA ParentIs ==
    ASSUME NEW x \in EntryPath, Len(x) # 0
    PROVE  /\ Search!Parent(x) \in EntryPath /\ Len(Search!Parent(x)) = Len(x) - 1
           /\ \A i \in 1..Len(x) - 1 : Search!Parent(x)[i] = x[i]
<1>1. PICK n : n = Len(x) - 1
    OBVIOUS
<1>2. n \in Nat /\ Len(x) = n + 1 /\ 1 \in Int /\ n \in Int
    BY <1>1, EntryPaths
<1>3. \A i \in 1..n : x[i] \in Entries
    BY <1>2, EntryPaths
<1>4. /\ SubSeq(x, 1, n) \in Seq(Entries)
      /\ Len(SubSeq(x, 1, n)) = IF 1 <= n THEN n - 1 + 1 ELSE 0
      /\ \A i \in 1..n - 1 + 1 : SubSeq(x, 1, n)[i] = x[1 + i - 1]
    BY <1>2, <1>3, SubSeqProperties
<1>5. Search!Parent(x) = SubSeq(x, 1, n)
    BY <1>1 DEF Search!Parent
<1>6. QED
    BY <1>2, <1>4, <1>5 DEF EntryPath

\* The folders on the way to an entry are there.
TreeAt(where) ==
  /\ where \in [Entries -> EntryPath]
  /\ \A e \in Entries : Len(where[e]) # 0 /\ where[e][Len(where[e])] = e
  /\ \A e \in Entries, k \in Nat : 1 <= k /\ k < Len(where[e]) =>
       \E g \in folders : Len(where[g]) = k /\ Search!Under(where[g], where[e])

\* r is x, moved into t with its first a - 1 segments left behind.
MovedIs(r, x, t, a) ==
  /\ r \in EntryPath /\ Len(r) = Len(t) + (Len(x) - a) + 1
  /\ \A i \in 1..Len(t) : r[i] = t[i]
  /\ \A i \in Len(t) + 1..Len(r) : r[i] = x[i - Len(t) + a - 1]

LEMMA MovedPath ==
    ASSUME NEW x \in EntryPath, NEW t \in EntryPath, NEW a \in 1..Len(x)
    PROVE  MovedIs(t \o SubSeq(x, a, Len(x)), x, t, a)
<1>1. Len(x) \in Nat /\ Len(t) \in Nat /\ \A i \in 1..Len(x) : x[i] \in Entries
    BY EntryPaths
<1>2. PICK s : s = SubSeq(x, a, Len(x))
    OBVIOUS
<1>3. a \in Int /\ Len(x) \in Int /\ \A i \in a..Len(x) : x[i] \in Entries
    BY <1>1
<1>4. /\ s \in Seq(Entries)
      /\ Len(s) = IF a <= Len(x) THEN Len(x) - a + 1 ELSE 0
      /\ \A i \in 1..Len(x) - a + 1 : s[i] = x[a + i - 1]
    BY <1>2, <1>3, SubSeqProperties
<1>5. Len(s) = Len(x) - a + 1
    BY <1>1, <1>4
<1>6. PICK r : r = t \o s
    OBVIOUS
<1>7. /\ r \in Seq(Entries) /\ Len(r) = Len(t) + Len(s)
      /\ \A i \in 1..Len(t) + Len(s) : r[i] = IF i <= Len(t) THEN t[i] ELSE s[i - Len(t)]
    BY <1>4, <1>6, ConcatProperties DEF EntryPath
<1>8. \A i \in 1..Len(t) : r[i] = t[i]
    BY <1>1, <1>5, <1>7
<1>9. ASSUME NEW i \in Len(t) + 1..Len(r) PROVE r[i] = x[i - Len(t) + a - 1]
  <2>1. i \in 1..Len(t) + Len(s) /\ ~(i <= Len(t)) /\ i - Len(t) \in 1..Len(x) - a + 1
      BY <1>1, <1>5, <1>7
  <2>2. r[i] = s[i - Len(t)] /\ s[i - Len(t)] = x[a + (i - Len(t)) - 1]
      BY <1>4, <1>7, <2>1
  <2>3. a + (i - Len(t)) - 1 = i - Len(t) + a - 1
      BY <1>1, <2>1
  <2>4. QED
      BY <2>2, <2>3
<1>10. Len(r) = Len(t) + (Len(x) - a) + 1
    BY <1>1, <1>5, <1>7
<1>11. QED
    BY <1>2, <1>6, <1>7, <1>8, <1>9, <1>10 DEF MovedIs, EntryPath

LEMMA BelowTransitive ==
    ASSUME NEW x \in EntryPath, NEW y \in EntryPath, NEW z \in EntryPath,
           Search!Under(x, y), Search!Under(y, z)
    PROVE  Search!Under(x, z)
<1>1. Len(x) \in Nat /\ Len(y) \in Nat /\ Len(z) \in Nat
    BY EntryPaths
<1>2. QED
    BY <1>1, Below

\* Two beginnings of a path, one of which is no longer than the other.
LEMMA BelowBoth ==
    ASSUME NEW x \in EntryPath, NEW y \in EntryPath, NEW z \in EntryPath,
           Search!Under(x, z), Search!Under(y, z), Len(x) <= Len(y)
    PROVE  Search!Under(x, y)
<1>1. Len(x) \in Nat /\ Len(y) \in Nat /\ Len(z) \in Nat
    BY EntryPaths
<1>2. QED
    BY <1>1, Below

\* e, and what is below it, is moved into t.
MovedBy(where, e, t) ==
  where = [d \in Entries |->
            IF Search!Under(place[e], place[d])
              THEN t \o SubSeq(place[d], Len(place[e]), Len(place[d])) ELSE place[d]]

LEMMA MovedTree ==
    ASSUME TreeAt(place), folders \subseteq Entries, NEW e \in Entries, NEW t \in EntryPath,
           t = <<>> \/ \E f \in folders : place[f] = t,
           ~Search!Under(place[e], t),
           NEW where, MovedBy(where, e, t)
    PROVE  TreeAt(where)
<1> DEFINE a == Len(place[e])
<1>1. /\ \A d \in Entries : place[d] \in EntryPath /\ Len(place[d]) \in Nat \ {0}
      /\ a \in Nat \ {0} /\ Len(t) \in Nat
    BY EntryPaths DEF TreeAt
<1>2. \A d \in Entries : Search!Under(place[e], place[d]) =>
        a \in 1..Len(place[d]) /\ MovedIs(where[d], place[d], t, a)
  <2> SUFFICES ASSUME NEW d \in Entries, Search!Under(place[e], place[d])
               PROVE  a \in 1..Len(place[d]) /\ MovedIs(where[d], place[d], t, a)
      OBVIOUS
  <2>1. a \in 1..Len(place[d])
      BY <1>1, Below
  <2>2. where[d] = t \o SubSeq(place[d], a, Len(place[d]))
      BY DEF MovedBy
  <2>3. QED
      BY <1>1, <2>1, <2>2, MovedPath
<1>3. \A d \in Entries : ~Search!Under(place[e], place[d]) => where[d] = place[d]
    BY DEF MovedBy
<1>4. where \in [Entries -> EntryPath]
  <2>1. \A d \in Entries : where[d] \in EntryPath
      BY <1>1, <1>2, <1>3 DEF MovedIs
  <2>2. QED
      BY <2>1 DEF MovedBy
<1> HIDE DEF a
<1>5. ASSUME NEW d \in Entries PROVE Len(where[d]) # 0 /\ where[d][Len(where[d])] = d
  <2>1. CASE Search!Under(place[e], place[d])
    <3>1. /\ a \in 1..Len(place[d])
          /\ Len(where[d]) = Len(t) + (Len(place[d]) - a) + 1
          /\ \A i \in Len(t) + 1..Len(where[d]) : where[d][i] = place[d][i - Len(t) + a - 1]
        BY <1>2, <2>1 DEF MovedIs
    <3>2. /\ Len(where[d]) # 0 /\ Len(where[d]) \in Len(t) + 1..Len(where[d])
          /\ Len(where[d]) - Len(t) + a - 1 = Len(place[d])
      <4>1. PICK n : n = Len(place[d])
          OBVIOUS
      <4>2. PICK l : l = Len(t)
          OBVIOUS
      <4>3. PICK h : h = Len(where[d])
          OBVIOUS
      <4>4. n \in Nat /\ l \in Nat /\ a \in Nat /\ 1 <= a /\ a <= n /\ h = l + (n - a) + 1
          BY <1>1, <3>1, <4>1, <4>2, <4>3
      <4>5. h # 0 /\ h \in l + 1..h /\ h - l + a - 1 = n
          BY <4>4
      <4>6. QED
          BY <4>1, <4>2, <4>3, <4>5
    <3>3. QED
        BY <3>1, <3>2 DEF TreeAt
  <2>2. CASE ~Search!Under(place[e], place[d])
      BY <1>3, <2>2 DEF TreeAt
  <2>3. QED
      BY <2>1, <2>2
<1>n. \A d \in Entries : Len(place[d]) \in Nat \ {0}
    BY <1>1
<1>6. ASSUME NEW d \in Entries, NEW k \in Nat, 1 <= k, k < Len(where[d])
      PROVE  \E g \in folders : Len(where[g]) = k /\ Search!Under(where[g], where[d])
  <2>1. CASE ~Search!Under(place[e], place[d])
    <3>1. PICK g \in folders : Len(place[g]) = k /\ Search!Under(place[g], place[d])
        BY <1>3, <1>6, <2>1 DEF TreeAt
    <3>2. ~Search!Under(place[e], place[g])
        BY <1>1, <2>1, <3>1, BelowTransitive
    <3>3. QED
        BY <1>3, <2>1, <3>1, <3>2
  <2>2. CASE Search!Under(place[e], place[d])
    <3>1. /\ a \in 1..Len(place[d]) /\ where[d] \in EntryPath
          /\ Len(where[d]) = Len(t) + (Len(place[d]) - a) + 1
          /\ \A i \in 1..Len(t) : where[d][i] = t[i]
          /\ \A i \in Len(t) + 1..Len(where[d]) : where[d][i] = place[d][i - Len(t) + a - 1]
        BY <1>2, <2>2 DEF MovedIs
    <3>2. Search!Under(t, where[d])
      <4>1. Len(t) <= Len(where[d])
        <5>1. Len(t) \in Nat /\ Len(place[d]) \in Nat /\ a \in 1..Len(place[d])
            BY <1>1, <3>1
        <5>2. QED
            BY <3>1, <5>1
      <4>2. QED
          BY <3>1, <4>1, Below
    <3>3. CASE k <= Len(t)
      <4>1. PICK f \in folders : place[f] = t
        <5>1. Len(t) # 0
            BY <1>1, <1>6, <3>3
        <5>2. QED
            BY <5>1
      <4>2. PICK g \in folders : Len(place[g]) = k /\ Search!Under(place[g], t)
        <5>1. CASE k = Len(t)
          <6>1. Search!Under(place[f], t)
              BY <1>1, <4>1, Below
          <6>2. QED
              BY <4>1, <5>1, <6>1
        <5>2. CASE k # Len(t)
          <6>1. k < Len(place[f]) /\ f \in Entries
              BY <1>1, <3>3, <4>1, <5>2
          <6>2. QED
              BY <1>6, <4>1, <6>1 DEF TreeAt
        <5>3. QED
            BY <5>1, <5>2
      <4>3. ~Search!Under(place[e], place[g]) /\ where[g] = place[g]
          BY <1>1, <1>3, <4>2, BelowTransitive
      <4>4. Search!Under(where[g], where[d])
          BY <1>1, <3>1, <3>2, <4>2, <4>3, BelowTransitive
      <4>5. QED
          BY <4>2, <4>3, <4>4
    <3>4. CASE ~(k <= Len(t))
      <4>1. PICK m : m = k - Len(t) + a - 1
          OBVIOUS
      <4>2. m \in Nat /\ 1 <= m /\ a <= m /\ m < Len(place[d]) /\ k = Len(t) + (m - a) + 1
        <5>1. PICK n : n = Len(place[d])
            OBVIOUS
        <5>2. PICK l : l = Len(t)
            OBVIOUS
        <5>3. /\ n \in Nat /\ l \in Nat /\ a \in Nat /\ 1 <= a /\ a <= n
              /\ k < l + (n - a) + 1 /\ ~(k <= l) /\ m = k - l + a - 1
            BY <1>1, <1>6, <3>1, <3>4, <4>1, <5>1, <5>2
        <5>4. k \in Int /\ m \in Int
            BY <5>3
        <5>5. a <= m /\ k = l + (m - a) + 1
            BY <5>3, <5>4
        <5>6. m < n
            BY <5>3, <5>4
        <5>7. m \in Nat /\ 1 <= m
            BY <5>3, <5>4, <5>5
        <5>8. QED
            BY <5>1, <5>2, <5>5, <5>6, <5>7
      <4>3. PICK g \in folders : Len(place[g]) = m /\ Search!Under(place[g], place[d])
          BY <4>2 DEF TreeAt
      <4>4. Search!Under(place[e], place[g])
          BY <1>1, <2>2, <4>2, <4>3, BelowBoth DEF a
      <4>5. /\ where[g] \in EntryPath
            /\ Len(where[g]) = Len(t) + (Len(place[g]) - a) + 1
            /\ \A i \in 1..Len(t) : where[g][i] = t[i]
            /\ \A i \in Len(t) + 1..Len(where[g]) :
                 where[g][i] = place[g][i - Len(t) + a - 1]
          BY <1>2, <4>4 DEF MovedIs
      <4>6. Len(where[g]) = k
          BY <1>1, <4>2, <4>3, <4>5
      <4>7. ASSUME NEW i \in 1..k PROVE where[g][i] = where[d][i]
        <5>1. CASE i <= Len(t)
          <6>1. i \in 1..Len(t)
              BY <1>1, <5>1
          <6>2. QED
              BY <3>1, <4>5, <6>1
        <5>2. CASE ~(i <= Len(t))
          <6>1. /\ i \in Len(t) + 1..Len(where[g]) /\ i \in Len(t) + 1..Len(where[d])
                /\ i - Len(t) + a - 1 \in 1..Len(place[g])
            <7>1. PICK l : l = Len(t)
                OBVIOUS
            <7>2. /\ l \in Nat /\ a \in Nat /\ 1 <= a /\ a <= m /\ m \in Nat
                  /\ k = l + (m - a) + 1 /\ ~(i <= l) /\ i \in 1..k /\ k < Len(where[d])
                BY <1>1, <1>6, <4>2, <5>2, <7>1
            <7>3. Len(where[d]) \in Nat
                BY <3>1, EntryPaths
            <7>4. i \in l + 1..k /\ i \in l + 1..Len(where[d]) /\ i - l + a - 1 \in 1..m
                BY <7>2, <7>3
            <7>5. QED
                BY <4>3, <4>6, <7>1, <7>4
          <6>2. place[g][i - Len(t) + a - 1] = place[d][i - Len(t) + a - 1]
            <7>1. \A j \in 1..Len(place[g]) : place[g][j] = place[d][j]
                BY <1>1, <4>3, Below
            <7>2. QED
                BY <6>1, <7>1
          <6>3. QED
              BY <3>1, <4>5, <6>1, <6>2
        <5>3. QED
            BY <5>1, <5>2
      <4>8. Search!Under(where[g], where[d])
        <5>1. Len(where[g]) <= Len(where[d])
          <6>1. Len(where[d]) \in Nat
              BY <3>1, EntryPaths
          <6>2. QED
              BY <1>6, <4>6, <6>1
        <5>2. QED
            BY <3>1, <4>5, <4>6, <4>7, <5>1, Below
      <4>9. QED
          BY <4>6, <4>8
    <3>5. QED
        BY <3>3, <3>4
  <2>3. QED
      BY <2>1, <2>2
<1>7. \A d \in Entries, k \in Nat : 1 <= k /\ k < Len(where[d]) =>
        \E g \in folders : Len(where[g]) = k /\ Search!Under(where[g], where[d])
    BY <1>6
<1>8. QED
    BY <1>4, <1>5, <1>7, Zenon DEF TreeAt

-----------------------------------------------------------------------------
(* The walk: while the folder h is listed. *)

\* t is s with x at its end.
Extends(t, s, x) ==
  /\ Len(s) \in Nat /\ Len(t) = Len(s) + 1
  /\ \A i \in 1..Len(s) : t[i] = s[i]
  /\ t[Len(s) + 1] = x

LEMMA Appended ==
    ASSUME NEW S, NEW s \in Seq(S), NEW x \in S
    PROVE  Append(s, x) \in Seq(S) /\ Extends(Append(s, x), s, x)
<1>1. Len(s) \in Nat /\ Append(s, x) \in Seq(S) /\ Len(Append(s, x)) = Len(s) + 1
    OBVIOUS
<1>2. \A i \in 1..Len(s) : Append(s, x)[i] = s[i]
    OBVIOUS
<1>3. Append(s, x)[Len(s) + 1] = x
    OBVIOUS
<1>4. QED
    BY <1>1, <1>2, <1>3 DEF Extends

\* What holds of the elements of s and of x holds of those of t.
LEMMA ExtendsElements ==
    ASSUME NEW s, NEW t, NEW x, Extends(t, s, x), NEW i \in 1..Len(t)
    PROVE  (i \in 1..Len(s) /\ t[i] = s[i]) \/ (i = Len(s) + 1 /\ t[i] = x)
    BY DEF Extends

Has(s, p) == \E i \in 1..Len(s) : s[i] = p
Waiting(q, p) == \E i \in 1..Len(q) : q[i].path = p
Folders == [path : EntryPath, depth : Nat]

LEMMA ExtendsHas ==
    ASSUME NEW s, NEW t, NEW x, Extends(t, s, x), NEW p
    PROVE  /\ Has(t, p) <=> Has(s, p) \/ p = x
           /\ Waiting(t, p) <=> Waiting(s, p) \/ p = x.path
<1>1. /\ Len(s) \in Nat /\ Len(t) = Len(s) + 1 /\ \A i \in 1..Len(s) : t[i] = s[i]
      /\ t[Len(s) + 1] = x
      /\ Len(s) + 1 \in 1..Len(t) /\ \A i \in 1..Len(s) : i \in 1..Len(t)
      /\ \A i \in 1..Len(t) : i \in 1..Len(s) \/ i = Len(s) + 1
    BY DEF Extends
<1>2. QED
    BY <1>1 DEF Has, Waiting

Ahead(f, h) ==
  /\ f.depth = Len(f.path) /\ f.depth <= MaxDepth /\ f.path # h
  /\ Len(h) <= f.depth /\ f.depth <= Len(h) + 1

\* The folders that wait are the rest of a level and the next one, and what is
\* found is no deeper; no folder waits with, or after, one it is in.
Phase(rs, q, h) ==
  /\ h \in EntryPath /\ Len(h) <= MaxDepth
  /\ rs \in Seq(EntryPath) /\ q \in Seq(Folders)
  /\ \A i \in 1..Len(q) : Ahead(q[i], h)
  /\ \A i, k \in 1..Len(q) : i < k => q[i].path # q[k].path /\ q[i].depth <= q[k].depth
  /\ \A i, k \in 1..Len(q) : Len(q[k].path) # 0 => Search!Parent(q[k].path) # q[i].path
  /\ \A i \in 1..Len(rs) : Len(rs[i]) # 0 /\ Len(rs[i]) <= Len(h) + 1
  /\ \A i, k \in 1..Len(rs) : i < k => rs[i] # rs[k] /\ Len(rs[i]) <= Len(rs[k])
  /\ \A i \in 1..Len(rs), k \in 1..Len(q) : Search!Parent(rs[i]) # q[k].path

\* c is an entry of the folder h.
EntryOf(c, h) ==
  c \in EntryPath /\ Len(c) = Len(h) + 1 /\ Len(c) # 0 /\ Search!Parent(c) = h

LEMMA PhaseFacts ==
    ASSUME NEW rs, NEW q, NEW h, Phase(rs, q, h)
    PROVE  /\ h \in EntryPath /\ Len(h) \in Nat /\ MaxDepth \in Nat
           /\ rs \in Seq(EntryPath) /\ Len(rs) \in Nat
           /\ \A i \in 1..Len(rs) : rs[i] \in EntryPath /\ Len(rs[i]) \in Nat
           /\ q \in Seq(Folders) /\ Len(q) \in Nat
           /\ \A i \in 1..Len(q) : /\ q[i] \in Folders /\ q[i].path \in EntryPath
                                   /\ Len(q[i].path) \in Nat /\ q[i].depth \in Nat
<1>1. h \in EntryPath /\ rs \in Seq(EntryPath) /\ q \in Seq(Folders)
    BY DEF Phase
<1>2. \A i \in 1..Len(rs) : rs[i] \in EntryPath
    BY <1>1, ElementOfSeq
<1>3. \A i \in 1..Len(q) : q[i] \in Folders
    BY <1>1, ElementOfSeq
<1>4. \A i \in 1..Len(q) : q[i].path \in EntryPath /\ q[i].depth \in Nat
    BY <1>3 DEF Folders
<1>5. Len(rs) \in Nat /\ Len(q) \in Nat /\ MaxDepth \in Nat
    BY <1>1, SearchAssumptions
<1>6. QED
    BY <1>1, <1>2, <1>3, <1>4, <1>5, EntryPaths

\* A hit is reported.
LEMMA PhaseFound ==
    ASSUME NEW rs, NEW q, NEW h, Phase(rs, q, h), NEW c, EntryOf(c, h), ~Has(rs, c)
    PROVE  Phase(Append(rs, c), q, h)
<1>1. PICK t : t = Append(rs, c)
    OBVIOUS
<1>2. t \in Seq(EntryPath) /\ Extends(t, rs, c)
    BY <1>1, PhaseFacts, Appended DEF EntryOf
<1>3. Len(t) \in Nat /\ Len(rs) \in Nat /\ Len(h) \in Nat /\ Len(t) = Len(rs) + 1
    BY <1>2, PhaseFacts DEF Extends
<1>4. \A i \in 1..Len(t) : Len(t[i]) # 0 /\ Len(t[i]) <= Len(h) + 1
  <2> SUFFICES ASSUME NEW i \in 1..Len(t)
               PROVE  Len(t[i]) # 0 /\ Len(t[i]) <= Len(h) + 1
      OBVIOUS
  <2>1. CASE i \in 1..Len(rs) /\ t[i] = rs[i]
      BY <2>1 DEF Phase
  <2>2. CASE t[i] = c
      BY <1>3, <2>2 DEF EntryOf
  <2>3. QED
      BY <1>2, <2>1, <2>2, ExtendsElements
<1>5. \A i, k \in 1..Len(t) : i < k => t[i] # t[k] /\ Len(t[i]) <= Len(t[k])
  <2> SUFFICES ASSUME NEW i \in 1..Len(t), NEW k \in 1..Len(t), i < k
               PROVE  t[i] # t[k] /\ Len(t[i]) <= Len(t[k])
      OBVIOUS
  <2>1. i \in 1..Len(rs) /\ t[i] = rs[i]
    <3>1. i # Len(rs) + 1
        BY <1>3
    <3>2. QED
        BY <1>2, <3>1, ExtendsElements
  <2>2. CASE k \in 1..Len(rs) /\ t[k] = rs[k]
      BY <2>1, <2>2 DEF Phase
  <2>3. CASE t[k] = c
    <3>1. t[i] # c
        BY <2>1 DEF Has
    <3>2. Len(t[i]) <= Len(h) + 1
        BY <1>4
    <3>3. QED
        BY <2>3, <3>1, <3>2 DEF EntryOf
  <2>4. QED
      BY <1>2, <2>2, <2>3, ExtendsElements
<1>6. \A i \in 1..Len(t), k \in 1..Len(q) : Search!Parent(t[i]) # q[k].path
  <2> SUFFICES ASSUME NEW i \in 1..Len(t), NEW k \in 1..Len(q)
               PROVE  Search!Parent(t[i]) # q[k].path
      OBVIOUS
  <2>1. CASE i \in 1..Len(rs) /\ t[i] = rs[i]
      BY <2>1 DEF Phase
  <2>2. CASE t[i] = c
    <3>1. q[k].path # h
        BY DEF Phase, Ahead
    <3>2. QED
        BY <2>2, <3>1 DEF EntryOf
  <2>3. QED
      BY <1>2, <2>1, <2>2, ExtendsElements
<1>7. Phase(t, q, h)
    BY <1>2, <1>4, <1>5, <1>6 DEF Phase
<1>8. QED
    BY <1>1, <1>7

\* A folder is put at the end of the queue.
LEMMA PhaseQueued ==
    ASSUME NEW rs, NEW q, NEW h, Phase(rs, q, h), NEW c, EntryOf(c, h), ~Waiting(q, c),
           Len(h) < MaxDepth
    PROVE  Phase(rs, Append(q, [path |-> c, depth |-> Len(h) + 1]), h)
<1>1. PICK x : x = [path |-> c, depth |-> Len(h) + 1]
    OBVIOUS
<1>2. /\ Len(h) \in Nat /\ Len(q) \in Nat /\ Len(rs) \in Nat /\ MaxDepth \in Nat
      /\ c \in EntryPath /\ Len(c) = Len(h) + 1 /\ Search!Parent(c) = h
    BY PhaseFacts DEF EntryOf
<1>3. x \in Folders /\ x.path = c /\ x.depth = Len(h) + 1
    BY <1>1, <1>2 DEF Folders
<1>4. PICK t : t = Append(q, x)
    OBVIOUS
<1>5. t \in Seq(Folders) /\ Extends(t, q, x)
    BY <1>3, <1>4, PhaseFacts, Appended
<1>6. Len(t) = Len(q) + 1
    BY <1>5 DEF Extends
<1>7. \A i \in 1..Len(t) : Ahead(t[i], h)
  <2>1. Ahead(x, h)
    <3>1. c # h
        BY <1>2
    <3>2. QED
        BY <1>2, <1>3, <3>1 DEF Ahead
  <2>2. QED
      BY <1>5, <2>1, ExtendsElements DEF Phase
<1>8. \A i \in 1..Len(q) : q[i].path # c /\ q[i].depth <= x.depth
    BY <1>3, PhaseFacts DEF Waiting, Phase, Ahead
<1>9. \A i, k \in 1..Len(t) : i < k => t[i].path # t[k].path /\ t[i].depth <= t[k].depth
  <2> SUFFICES ASSUME NEW i \in 1..Len(t), NEW k \in 1..Len(t), i < k
               PROVE  t[i].path # t[k].path /\ t[i].depth <= t[k].depth
      OBVIOUS
  <2>1. i \in 1..Len(q) /\ t[i] = q[i]
    <3>1. i # Len(q) + 1
        BY <1>2, <1>6
    <3>2. QED
        BY <1>5, <3>1, ExtendsElements
  <2>2. CASE k \in 1..Len(q) /\ t[k] = q[k]
      BY <2>1, <2>2 DEF Phase
  <2>3. CASE t[k] = x
      BY <1>3, <1>8, <2>1, <2>3
  <2>4. QED
      BY <1>5, <2>2, <2>3, ExtendsElements
<1>10. \A p \in EntryPath : Len(p) # 0 /\ Len(p) <= Len(h) + 1 => Search!Parent(p) # c
  <2> SUFFICES ASSUME NEW p \in EntryPath, Len(p) # 0, Len(p) <= Len(h) + 1,
                      Search!Parent(p) = c
               PROVE  FALSE
      OBVIOUS
  <2>1. Len(c) = Len(p) - 1 /\ Len(p) \in Nat
      BY ParentIs, EntryPaths
  <2>2. QED
      BY <1>2, <2>1
<1>11. \A i, k \in 1..Len(t) : Len(t[k].path) # 0 => Search!Parent(t[k].path) # t[i].path
  <2> SUFFICES ASSUME NEW i \in 1..Len(t), NEW k \in 1..Len(t), Len(t[k].path) # 0
               PROVE  Search!Parent(t[k].path) # t[i].path
      OBVIOUS
  <2>1. CASE t[i] = x
    <3>1. t[k] \in Folders /\ Ahead(t[k], h)
        BY <1>5, <1>7, ElementOfSeq
    <3>2. t[k].path \in EntryPath /\ Len(t[k].path) <= Len(h) + 1
        BY <3>1 DEF Folders, Ahead
    <3>3. QED
        BY <1>3, <1>10, <2>1, <3>2
  <2>2. CASE i \in 1..Len(q) /\ t[i] = q[i]
    <3>1. CASE k \in 1..Len(q) /\ t[k] = q[k]
        BY <2>2, <3>1 DEF Phase
    <3>2. CASE t[k] = x
      <4>1. q[i].path # h
          BY <2>2 DEF Phase, Ahead
      <4>2. QED
          BY <1>2, <1>3, <2>2, <3>2, <4>1
    <3>3. QED
        BY <1>5, <3>1, <3>2, ExtendsElements
  <2>3. QED
      BY <1>5, <2>1, <2>2, ExtendsElements
<1>12. \A i \in 1..Len(rs), k \in 1..Len(t) : Search!Parent(rs[i]) # t[k].path
  <2> SUFFICES ASSUME NEW i \in 1..Len(rs), NEW k \in 1..Len(t)
               PROVE  Search!Parent(rs[i]) # t[k].path
      OBVIOUS
  <2>1. CASE k \in 1..Len(q) /\ t[k] = q[k]
      BY <2>1 DEF Phase
  <2>2. CASE t[k] = x
    <3>1. rs[i] \in EntryPath /\ Len(rs[i]) # 0 /\ Len(rs[i]) <= Len(h) + 1
        BY PhaseFacts DEF Phase
    <3>2. QED
        BY <1>3, <1>10, <2>2, <3>1
  <2>3. QED
      BY <1>5, <2>1, <2>2, ExtendsElements
<1>13. Phase(rs, t, h)
    BY <1>5, <1>7, <1>9, <1>11, <1>12 DEF Phase
<1>14. QED
    BY <1>1, <1>4, <1>13

LEMMA PhaseCleared ==
    ASSUME NEW rs, NEW q, NEW h, Phase(rs, q, h)
    PROVE  Phase(rs, <<>>, h)
<1>1. <<>> \in Seq(Folders) /\ Len(<<>>) = 0 /\ 1..0 = {}
    BY EmptySeq
<1>2. QED
    BY <1>1 DEF Phase

\* What is found and what waits between two listings.
WalkOk(rs, q) ==
  /\ rs \in Seq(EntryPath) /\ q \in Seq(Folders)
  /\ \A i \in 1..Len(q) : q[i].depth = Len(q[i].path) /\ q[i].depth <= MaxDepth
  /\ \A i, k \in 1..Len(q) : i < k =>
       q[i].path # q[k].path /\ q[i].depth <= q[k].depth /\ q[k].depth <= q[i].depth + 1
  /\ \A i, k \in 1..Len(q) : Len(q[k].path) # 0 => Search!Parent(q[k].path) # q[i].path
  /\ \A i \in 1..Len(rs) : Len(rs[i]) # 0 /\ Len(rs[i]) <= MaxDepth + 1
  /\ \A i, k \in 1..Len(rs) : i < k => rs[i] # rs[k] /\ Len(rs[i]) <= Len(rs[k])
  /\ \A i \in 1..Len(rs), k \in 1..Len(q) :
       Search!Parent(rs[i]) # q[k].path /\ Len(rs[i]) <= q[k].depth + 1

LEMMA PhaseEnds ==
    ASSUME NEW rs, NEW q, NEW h, Phase(rs, q, h)
    PROVE  WalkOk(rs, q)
<1>1. /\ Len(h) \in Nat /\ MaxDepth \in Nat /\ Len(h) <= MaxDepth
      /\ \A i \in 1..Len(rs) : Len(rs[i]) \in Nat
      /\ \A i \in 1..Len(q) : q[i].depth \in Nat /\ Len(q[i].path) \in Nat
  <2>1. Len(h) <= MaxDepth
      BY DEF Phase
  <2>2. \A i \in 1..Len(rs) : Len(rs[i]) \in Nat
      BY PhaseFacts
  <2>3. \A i \in 1..Len(q) : q[i].depth \in Nat /\ Len(q[i].path) \in Nat
      BY PhaseFacts
  <2>4. Len(h) \in Nat /\ MaxDepth \in Nat
      BY PhaseFacts
  <2>5. QED
      BY <2>1, <2>2, <2>3, <2>4
<1>2. \A i \in 1..Len(q) : /\ q[i].depth = Len(q[i].path) /\ q[i].depth <= MaxDepth
                           /\ Len(h) <= q[i].depth /\ q[i].depth <= Len(h) + 1
    BY DEF Phase, Ahead
<1>3. \A i, k \in 1..Len(q) : q[k].depth <= q[i].depth + 1
    BY <1>1, <1>2
<1>4. \A i \in 1..Len(rs) : Len(rs[i]) # 0 /\ Len(rs[i]) <= Len(h) + 1
    BY DEF Phase
<1>5. \A i \in 1..Len(rs) : Len(rs[i]) <= MaxDepth + 1
    BY <1>1, <1>4
<1>6. \A i \in 1..Len(rs), k \in 1..Len(q) : Len(rs[i]) <= q[k].depth + 1
    BY <1>1, <1>2, <1>4
<1>7. QED
    BY <1>2, <1>3, <1>4, <1>5, <1>6 DEF Phase, WalkOk

LEMMA PhaseBegins ==
    ASSUME NEW rs, NEW q, WalkOk(rs, q), q # <<>>
    PROVE  /\ Head(q).path \in EntryPath /\ Head(q).depth = Len(Head(q).path)
           /\ Phase(rs, Tail(q), Head(q).path)
           /\ \A c : EntryOf(c, Head(q).path) => ~Has(rs, c) /\ ~Waiting(Tail(q), c)
           /\ \A p : Waiting(q, p) => p = Head(q).path \/ Waiting(Tail(q), p)
<1>1. q \in Seq(Folders) /\ rs \in Seq(EntryPath)
    BY DEF WalkOk
<1>2. Len(q) \in Nat /\ 1 \in 1..Len(q)
    BY <1>1, EmptySeq
<1>3. PICK h : h = q[1].path
    OBVIOUS
<1>4. Head(q) = q[1] /\ q[1] \in Folders
    BY <1>1, <1>2, ElementOfSeq
<1>5. /\ h \in EntryPath /\ q[1].depth = Len(h) /\ Len(h) <= MaxDepth /\ Len(h) \in Nat
      /\ MaxDepth \in Nat
    BY <1>2, <1>3, <1>4, EntryPaths, SearchAssumptions DEF Folders, WalkOk
<1>6. PICK t : t = Tail(q)
    OBVIOUS
<1>7. t \in Seq(Folders) /\ Len(t) = Len(q) - 1 /\ \A i \in 1..Len(t) : t[i] = q[i + 1]
    BY <1>1, <1>6, HeadTailProperties
<1>8. /\ Len(t) \in Nat
      /\ \A i \in 1..Len(t) : i + 1 \in 1..Len(q) /\ 1 < i + 1 /\ t[i] = q[i + 1]
      /\ \A i \in 1..Len(q) : i = 1 \/ (i - 1 \in 1..Len(t) /\ t[i - 1] = q[i])
    BY <1>2, <1>7
<1>9. \A i \in 1..Len(t) : Ahead(t[i], h)
  <2> SUFFICES ASSUME NEW i \in 1..Len(t) PROVE Ahead(t[i], h)
      OBVIOUS
  <2>1. i + 1 \in 1..Len(q) /\ 1 < i + 1 /\ t[i] = q[i + 1]
      BY <1>8
  <2>2. /\ q[1].path # q[i + 1].path /\ q[1].depth <= q[i + 1].depth
        /\ q[i + 1].depth <= q[1].depth + 1
      BY <1>2, <2>1 DEF WalkOk
  <2>3. q[i + 1].depth = Len(q[i + 1].path) /\ q[i + 1].depth <= MaxDepth
      BY <2>1 DEF WalkOk
  <2>4. QED
      BY <1>3, <1>5, <2>1, <2>2, <2>3 DEF Ahead
<1>10. \A i, k \in 1..Len(t) : i < k => t[i].path # t[k].path /\ t[i].depth <= t[k].depth
  <2> SUFFICES ASSUME NEW i \in 1..Len(t), NEW k \in 1..Len(t), i < k
               PROVE  t[i].path # t[k].path /\ t[i].depth <= t[k].depth
      OBVIOUS
  <2>1. /\ i + 1 \in 1..Len(q) /\ k + 1 \in 1..Len(q) /\ i + 1 < k + 1
        /\ t[i] = q[i + 1] /\ t[k] = q[k + 1]
      BY <1>8
  <2>2. QED
      BY <2>1 DEF WalkOk
<1>11. \A i, k \in 1..Len(t) : Len(t[k].path) # 0 => Search!Parent(t[k].path) # t[i].path
  <2> SUFFICES ASSUME NEW i \in 1..Len(t), NEW k \in 1..Len(t), Len(t[k].path) # 0
               PROVE  Search!Parent(t[k].path) # t[i].path
      OBVIOUS
  <2>1. /\ i + 1 \in 1..Len(q) /\ k + 1 \in 1..Len(q)
        /\ t[i] = q[i + 1] /\ t[k] = q[k + 1]
      BY <1>8
  <2>2. QED
      BY <2>1 DEF WalkOk
<1>12. \A i \in 1..Len(rs) : /\ Len(rs[i]) # 0 /\ Len(rs[i]) <= Len(h) + 1
                             /\ Search!Parent(rs[i]) # h
    BY <1>2, <1>3, <1>5 DEF WalkOk
<1>13. \A i \in 1..Len(rs), k \in 1..Len(t) : Search!Parent(rs[i]) # t[k].path
    BY <1>8 DEF WalkOk
<1>14. Phase(rs, t, h)
    BY <1>1, <1>5, <1>7, <1>9, <1>10, <1>11, <1>12, <1>13 DEF Phase, WalkOk
<1>15. \A c : EntryOf(c, h) => ~Has(rs, c) /\ ~Waiting(t, c)
  <2> SUFFICES ASSUME NEW c, EntryOf(c, h) PROVE ~Has(rs, c) /\ ~Waiting(t, c)
      OBVIOUS
  <2>1. ~Has(rs, c)
      BY <1>12 DEF EntryOf, Has
  <2>2. ASSUME NEW i \in 1..Len(t), t[i].path = c PROVE FALSE
    <3>1. q[i + 1].path = c /\ i + 1 \in 1..Len(q)
        BY <1>8, <2>2
    <3>2. QED
        BY <1>2, <1>3, <3>1 DEF WalkOk, EntryOf
  <2>3. QED
      BY <2>1, <2>2 DEF Waiting
<1>16. \A p : Waiting(q, p) => p = h \/ Waiting(t, p)
    BY <1>3, <1>8 DEF Waiting
<1>17. QED
    BY <1>3, <1>4, <1>5, <1>6, <1>14, <1>15, <1>16

\* The caps of the search.
CapsOk(rs, scanned, truncated, q) ==
  /\ scanned \in Nat /\ scanned <= MaxScanned + 1 /\ truncated \in BOOLEAN
  /\ Len(rs) <= MaxResults /\ Len(rs) <= scanned /\ Len(rs) <= MaxScanned
  /\ truncated = FALSE => scanned <= MaxScanned /\ Len(rs) < MaxResults
  /\ truncated = TRUE => q = <<>>

Walks == [results : Seq(EntryPath), scanned : Nat, truncated : BOOLEAN, queue : Seq(Folders)]

\* The entries of the folder h.
Items(items, h) ==
  /\ items \in Seq(EntryPath) /\ \A k \in 1..Len(items) : EntryOf(items[k], h)
  /\ \A i, k \in 1..Len(items) : items[i] = items[k] => i = k

\* After j entries of the folder h, of a walk that had found rs while q waited.
Loop(got, j, items, h, rs, q) ==
  /\ got \in Walks
  /\ Phase(got.results, got.queue, h)
  /\ CapsOk(got.results, got.scanned, got.truncated, got.queue)
  /\ \A k \in 1..Len(items) : j < k => ~Has(got.results, items[k]) /\ ~Waiting(got.queue, items[k])
  /\ got.truncated = FALSE =>
       /\ \A p : Has(rs, p) => Has(got.results, p)
       /\ \A p : Waiting(q, p) => Waiting(got.queue, p)
       /\ \A k \in 1..j :
            /\ Search!Last(items[k]) \in matching => Has(got.results, items[k])
            /\ Search!Last(items[k]) \in folders /\ Len(h) < MaxDepth =>
                 Waiting(got.queue, items[k])

LEMMA LookStep ==
    ASSUME NEW got, NEW items, NEW h, NEW rs, NEW q, NEW j \in Nat, j + 1 \in 1..Len(items),
           Items(items, h), Loop(got, j, items, h, rs, q)
    PROVE  Loop(Search!Look(got, items[j + 1], Len(h)), j + 1, items, h, rs, q)
<1>1. PICK c : c = items[j + 1]
    OBVIOUS
<1>2. PICK new : new = Search!Look(got, c, Len(h))
    OBVIOUS
<1>3. /\ EntryOf(c, h) /\ c \in EntryPath
      /\ ~Has(got.results, c) /\ ~Waiting(got.queue, c)
  <2>1. j < j + 1
      OBVIOUS
  <2>2. QED
      BY <1>1, <2>1 DEF Items, Loop, EntryOf
<1>4. /\ got \in Walks /\ Phase(got.results, got.queue, h)
      /\ CapsOk(got.results, got.scanned, got.truncated, got.queue)
      /\ Len(got.results) \in Nat /\ Len(h) \in Nat
    BY PhaseFacts DEF Loop
<1>5. \A k \in 1..Len(items) : j + 1 < k =>
        items[k] # c /\ ~Has(got.results, items[k]) /\ ~Waiting(got.queue, items[k])
  <2> SUFFICES ASSUME NEW k \in 1..Len(items), j + 1 < k
               PROVE  items[k] # c /\ ~Has(got.results, items[k]) /\ ~Waiting(got.queue, items[k])
      OBVIOUS
  <2>1. j < k /\ k # j + 1
      OBVIOUS
  <2>2. QED
      BY <1>1, <2>1 DEF Items, Loop
<1> DEFINE hit == Search!Last(c) \in matching
           results == IF hit THEN Append(got.results, c) ELSE got.results
           scanned == got.scanned + 1
           queued == IF Search!Descends(c, Len(h)) THEN Search!Enqueue(got.queue, c, Len(h))
                     ELSE got.queue
<1>6. /\ Phase(results, got.queue, h)
      /\ results \in Seq(EntryPath)
      /\ \A p : Has(results, p) <=> Has(got.results, p) \/ (hit /\ p = c)
      /\ Len(results) <= Len(got.results) + 1 /\ Len(results) \in Nat
      /\ ~hit => results = got.results
  <2>1. CASE ~hit
      BY <1>4, <2>1, PhaseFacts
  <2>2. CASE hit
    <3>1. PICK t : t = Append(got.results, c)
        OBVIOUS
    <3>2. t \in Seq(EntryPath) /\ Extends(t, got.results, c)
        BY <1>3, <1>4, <3>1, PhaseFacts, Appended
    <3>3. Phase(t, got.queue, h)
        BY <1>3, <1>4, <3>1, PhaseFound
    <3>4. \A p : Has(t, p) <=> Has(got.results, p) \/ p = c
        BY <3>2, ExtendsHas
    <3>5. Len(t) = Len(got.results) + 1
        BY <3>2 DEF Extends
    <3>6. results = t
        BY <2>2, <3>1
    <3> HIDE DEF results, hit
    <3>7. QED
        BY <1>4, <2>2, <3>2, <3>3, <3>4, <3>5, <3>6
  <2>3. QED
      BY <2>1, <2>2
<1>7. /\ Phase(results, queued, h) /\ queued \in Seq(Folders)
      /\ \A p : Waiting(got.queue, p) => Waiting(queued, p)
      /\ \A p : Waiting(queued, p) => Waiting(got.queue, p) \/ p = c
      /\ Search!Last(c) \in folders /\ Len(h) < MaxDepth => Waiting(queued, c)
  <2> HIDE DEF results, hit
  <2>1. CASE ~Search!Descends(c, Len(h))
    <3>1. queued = got.queue
        BY <2>1
    <3>2. ~(Search!Last(c) \in folders /\ Len(h) < MaxDepth)
        BY <2>1 DEF Search!Descends
    <3> HIDE DEF queued
    <3>3. QED
        BY <1>4, <1>6, <3>1, <3>2, PhaseFacts
  <2>2. CASE Search!Descends(c, Len(h))
    <3>1. PICK x : x = [path |-> c, depth |-> Len(h) + 1]
        OBVIOUS
    <3>2. x \in Folders /\ x.path = c
        BY <1>3, <1>4, <3>1 DEF Folders
    <3>3. PICK t : t = Append(got.queue, x)
        OBVIOUS
    <3>4. t \in Seq(Folders) /\ Extends(t, got.queue, x)
        BY <1>4, <3>2, <3>3, PhaseFacts, Appended
    <3>5. Len(h) < MaxDepth
        BY <2>2 DEF Search!Descends
    <3>6. Phase(results, t, h)
        BY <1>3, <1>6, <3>1, <3>3, <3>5, PhaseQueued
    <3>7. \A p : Waiting(t, p) <=> Waiting(got.queue, p) \/ p = c
        BY <3>2, <3>4, ExtendsHas
    <3>8. queued = t
        BY <2>2, <3>1, <3>3 DEF Search!Enqueue
    <3> HIDE DEF queued
    <3>9. QED
        BY <3>4, <3>6, <3>7, <3>8
  <2>3. QED
      BY <2>1, <2>2
<1>8. /\ MaxResults \in Nat \ {0} /\ MaxScanned \in Nat
      /\ got.scanned \in Nat /\ scanned \in Nat /\ got.truncated \in BOOLEAN
      /\ Len(got.results) <= got.scanned
    BY <1>4, SearchAssumptions DEF CapsOk
<1>9. new = IF got.truncated THEN got
            ELSE IF scanned > MaxScanned
              THEN [got EXCEPT !.scanned = scanned, !.truncated = TRUE, !.queue = <<>>]
            ELSE IF hit /\ Search!Enough(results)
              THEN [results |-> results, scanned |-> scanned, truncated |-> TRUE, queue |-> <<>>]
            ELSE [results |-> results, scanned |-> scanned, truncated |-> FALSE,
                  queue |-> queued]
    BY <1>2 DEF Search!Look
<1> HIDE DEF hit, results, queued
<1>10. <<>> \in Seq(Folders) /\ \A p : ~Waiting(<<>>, p)
    BY EmptySeq DEF Waiting
<1>11. CASE got.truncated
  <2>1. new = got /\ got.truncated = TRUE
      BY <1>8, <1>9, <1>11
  <2>2. QED
      BY <1>1, <1>2, <1>4, <1>5, <2>1 DEF Loop
<1>12. CASE ~got.truncated /\ scanned > MaxScanned
  <2>1. new = [got EXCEPT !.scanned = scanned, !.truncated = TRUE, !.queue = <<>>]
      BY <1>9, <1>12
  <2>2. /\ new \in Walks /\ new.results = got.results /\ new.scanned = scanned
        /\ new.truncated = TRUE /\ new.queue = <<>>
      BY <1>4, <1>8, <1>10, <2>1 DEF Walks
  <2>3. got.truncated = FALSE
      BY <1>8, <1>12
  <2>4. Phase(got.results, <<>>, h)
      BY <1>4, PhaseCleared
  <2>5. CapsOk(new.results, new.scanned, new.truncated, new.queue)
    <3>1. got.scanned <= MaxScanned /\ Len(got.results) < MaxResults
        BY <1>4, <2>3 DEF CapsOk
    <3>2. scanned <= MaxScanned + 1 /\ Len(got.results) <= MaxResults
          /\ Len(got.results) <= scanned /\ Len(got.results) <= MaxScanned
      <4>1. PICK l : l = Len(got.results)
          OBVIOUS
      <4>2. l \in Nat /\ l <= got.scanned
          BY <1>4, <1>8, <4>1
      <4>3. scanned = got.scanned + 1
          OBVIOUS
      <4>4. scanned <= MaxScanned + 1 /\ l <= MaxResults /\ l <= scanned /\ l <= MaxScanned
          BY <1>8, <3>1, <4>1, <4>2, <4>3
      <4>5. QED
          BY <4>1, <4>4
    <3>3. Len(got.results) \in Nat /\ scanned \in Nat /\ MaxScanned \in Nat
        BY <1>4, <1>8, SearchAssumptions DEF Walks
    <3>4. QED
        BY <1>8, <2>2, <3>2, <3>3 DEF CapsOk
  <2>6. Loop(new, j + 1, items, h, rs, q)
      BY <1>5, <1>10, <2>2, <2>4, <2>5 DEF Loop
  <2>7. QED
      BY <1>1, <1>2, <2>6
<1>13. CASE ~got.truncated /\ ~(scanned > MaxScanned)
  <2>1. /\ got.truncated = FALSE /\ scanned <= MaxScanned /\ Len(got.results) < MaxResults
        /\ scanned <= MaxScanned + 1
        /\ Len(results) <= MaxResults /\ Len(results) <= scanned /\ Len(results) <= MaxScanned
    <3>1. got.truncated = FALSE
        BY <1>8, <1>13
    <3>2. Len(got.results) < MaxResults
        BY <1>4, <3>1 DEF CapsOk
    <3>3. scanned = got.scanned + 1 /\ scanned <= MaxScanned /\ scanned <= MaxScanned + 1
        BY <1>8, <1>13
    <3>4. Len(results) <= MaxResults
        BY <1>4, <1>6, <1>8, <3>2
    <3>5. Len(results) <= scanned
        BY <1>4, <1>6, <1>8, <3>3
    <3>6. QED
        BY <1>6, <1>8, <3>1, <3>2, <3>3, <3>4, <3>5
  <2>2. CASE hit /\ Search!Enough(results)
    <3>1. new = [results |-> results, scanned |-> scanned, truncated |-> TRUE, queue |-> <<>>]
        BY <1>9, <1>13, <2>2
    <3>2. /\ new \in Walks /\ new.results = results /\ new.scanned = scanned
          /\ new.truncated = TRUE /\ new.queue = <<>>
        BY <1>6, <1>8, <1>10, <3>1 DEF Walks
    <3>3. Phase(results, <<>>, h)
        BY <1>6, PhaseCleared
    <3>4. CapsOk(new.results, new.scanned, new.truncated, new.queue)
        BY <1>8, <2>1, <3>2 DEF CapsOk
    <3>5. Loop(new, j + 1, items, h, rs, q)
        BY <1>5, <1>6, <1>10, <3>2, <3>3, <3>4 DEF Loop
    <3>6. QED
        BY <1>1, <1>2, <3>5
  <2>3. CASE ~(hit /\ Search!Enough(results))
    <3>1. new = [results |-> results, scanned |-> scanned, truncated |-> FALSE,
                 queue |-> queued]
        BY <1>9, <1>13, <2>3
    <3>2. /\ new \in Walks /\ new.results = results /\ new.scanned = scanned
          /\ new.truncated = FALSE /\ new.queue = queued
        BY <1>6, <1>7, <1>8, <3>1 DEF Walks
    <3>3. Len(results) < MaxResults
      <4>1. CASE hit
          BY <1>6, <1>8, <2>3, <4>1 DEF Search!Enough
      <4>2. CASE ~hit
          BY <1>6, <2>1, <4>2
      <4>3. QED
          BY <4>1, <4>2
    <3>4. CapsOk(new.results, new.scanned, new.truncated, new.queue)
        BY <1>8, <2>1, <3>2, <3>3 DEF CapsOk
    <3>5. /\ \A p : Has(rs, p) => Has(results, p)
          /\ \A p : Waiting(q, p) => Waiting(queued, p)
        BY <1>6, <1>7, <2>1 DEF Loop
    <3>6. ASSUME NEW k \in 1..j + 1
          PROVE  /\ Search!Last(items[k]) \in matching => Has(results, items[k])
                 /\ Search!Last(items[k]) \in folders /\ Len(h) < MaxDepth =>
                      Waiting(queued, items[k])
      <4>1. CASE k = j + 1
          BY <1>1, <1>6, <1>7, <4>1 DEF hit
      <4>2. CASE k # j + 1
        <5>1. k \in 1..j
            BY <4>2
        <5>2. QED
            BY <1>6, <1>7, <2>1, <5>1 DEF Loop
      <4>3. QED
          BY <4>1, <4>2
    <3>7. \A k \in 1..Len(items) : j + 1 < k => ~Has(results, items[k]) /\ ~Waiting(queued, items[k])
        BY <1>5, <1>6, <1>7
    <3>8. Loop(new, j + 1, items, h, rs, q)
        BY <1>7, <3>2, <3>4, <3>5, <3>6, <3>7 DEF Loop
    <3>9. QED
        BY <1>1, <1>2, <3>8
  <2>4. QED
      BY <2>2, <2>3
<1>14. QED
    BY <1>11, <1>12, <1>13

\* Steps one after the other: n of them, each a function on the same set.
Steps(step, n, S) == n \in Nat /\ step \in [1..n -> [S -> S]]
Iterates(f, step, n, S, x) ==
  f \in [0..n -> S] /\ f[0] = x /\ \A i \in 1..n : f[i] = step[i][f[i - 1]]

LEMMA Iterated ==
    ASSUME NEW S, NEW n, NEW step, Steps(step, n, S), NEW x \in S
    PROVE  \E f : Iterates(f, step, n, S, x)
<1>0. n \in Nat /\ step \in [1..n -> [S -> S]] /\ n \in 0..n
    BY DEF Steps
<1> DEFINE Has_(k) == \E f \in [0..k -> S] :
                        f[0] = x /\ \A i \in 1..k : f[i] = step[i][f[i - 1]]
           T == {k \in 0..n : ~Has_(k)}
<1>1. SUFFICES ASSUME T # {} PROVE FALSE
  <2>1. T = {} => Has_(n)
      BY <1>0
  <2>2. QED
      BY <2>1 DEF Iterates
<1>2. PICK m \in T : \A k \in T : m <= k
  <2>1. T \in SUBSET Nat
      BY <1>0
  <2> HIDE DEF T
  <2>2. QED
      BY <1>1, <2>1, Smallest
<1>3. m \in 0..n /\ ~Has_(m)
    BY <1>2
<1>4. CASE m = 0
  <2>1. PICK f : f = [i \in 0..0 |-> x]
      OBVIOUS
  <2>2. f \in [0..0 -> S] /\ f[0] = x
      BY <2>1
  <2>3. \A i \in 1..0 : f[i] = step[i][f[i - 1]]
      OBVIOUS
  <2>4. QED
      BY <1>3, <1>4, <2>2, <2>3
<1>5. CASE m # 0
  <2>1. m \in 1..n /\ m - 1 \in 0..n /\ ~(m <= m - 1)
      BY <1>0, <1>3, <1>5
  <2>2. m - 1 \notin T
    <3> HIDE DEF T
    <3>1. QED
        BY <1>2, <2>1
  <2>3. PICK f \in [0..m - 1 -> S] :
          f[0] = x /\ \A i \in 1..m - 1 : f[i] = step[i][f[i - 1]]
      BY <2>1, <2>2
  <2>4. PICK last \in S : last = step[m][f[m - 1]]
    <3>1. step[m] \in [S -> S] /\ f[m - 1] \in S
        BY <1>0, <2>1, <2>3
    <3>2. QED
        BY <3>1
  <2>5. PICK g : g = [i \in 0..m |-> IF i = m THEN last ELSE f[i]]
      OBVIOUS
  <2>6. g \in [0..m -> S] /\ g[m] = last /\ \A i \in 0..m - 1 : g[i] = f[i]
    <3>1. /\ m \in 0..m
          /\ \A i \in 0..m : i # m => i \in 0..m - 1
          /\ \A i \in 0..m - 1 : i \in 0..m /\ i # m
        BY <2>1
    <3>2. g \in [0..m -> S]
        BY <2>3, <2>4, <2>5, <3>1
    <3>3. QED
        BY <2>5, <3>1, <3>2
  <2>7. g[0] = x
      BY <2>1, <2>3, <2>6
  <2>8. ASSUME NEW i \in 1..m PROVE g[i] = step[i][g[i - 1]]
    <3>1. i - 1 \in 0..m - 1 /\ g[i - 1] = f[i - 1]
        BY <2>1, <2>6
    <3>2. CASE i = m
        BY <2>4, <2>6, <3>1, <3>2
    <3>3. CASE i # m
      <4>1. i \in 1..m - 1 /\ i \in 0..m - 1
          BY <2>1, <3>3
      <4>2. QED
          BY <2>3, <2>6, <3>1, <4>1
    <3>4. QED
        BY <3>2, <3>3
  <2>9. QED
      BY <1>3, <2>6, <2>7, <2>8
<1>6. QED
    BY <1>4, <1>5

\* The loop over the entries of a listing.
LEMMA LookTyped ==
    ASSUME NEW got \in Walks, NEW c \in EntryPath, NEW d \in Nat
    PROVE  Search!Look(got, c, d) \in Walks
<1>1. PICK rs \in Seq(EntryPath) :
        rs = IF Search!Last(c) \in matching THEN Append(got.results, c) ELSE got.results
  <2>1. got.results \in Seq(EntryPath)
      BY DEF Walks
  <2>2. Append(got.results, c) \in Seq(EntryPath)
      BY <2>1
  <2>3. QED
      BY <2>1, <2>2
<1>2. PICK q \in Seq(Folders) :
        q = IF Search!Descends(c, d) THEN Search!Enqueue(got.queue, c, d) ELSE got.queue
  <2>1. [path |-> c, depth |-> d + 1] \in Folders
      BY DEF Folders
  <2>2. got.queue \in Seq(Folders)
      BY DEF Walks
  <2>3. Append(got.queue, [path |-> c, depth |-> d + 1]) \in Seq(Folders)
      BY <2>1, <2>2
  <2>4. QED
      BY <2>2, <2>3 DEF Search!Enqueue
<1>3. got.scanned + 1 \in Nat /\ <<>> \in Seq(Folders)
    BY EmptySeq DEF Walks
<1>4. PICK new : new = Search!Look(got, c, d)
    OBVIOUS
<1>5. \/ new = got
      \/ new = [got EXCEPT !.scanned = got.scanned + 1, !.truncated = TRUE, !.queue = <<>>]
      \/ new = [results |-> rs, scanned |-> got.scanned + 1, truncated |-> TRUE, queue |-> <<>>]
      \/ new = [results |-> rs, scanned |-> got.scanned + 1, truncated |-> FALSE, queue |-> q]
    BY <1>1, <1>2, <1>4 DEF Search!Look
<1>6. CASE new = [got EXCEPT !.scanned = got.scanned + 1, !.truncated = TRUE, !.queue = <<>>]
    BY <1>3, <1>4, <1>6 DEF Walks
<1>7. \A b \in BOOLEAN, w \in Seq(Folders) :
        [results |-> rs, scanned |-> got.scanned + 1, truncated |-> b, queue |-> w] \in Walks
    BY <1>3 DEF Walks
<1>8. QED
    BY <1>3, <1>4, <1>5, <1>6, <1>7

LEMMA LookAtAll ==
    ASSUME NEW items, NEW h, Items(items, h),
           found \in [results : Seq(EntryPath), scanned : Nat, truncated : BOOLEAN],
           NEW q, q = Tail(queue), Phase(found.results, q, h),
           CapsOk(found.results, found.scanned, FALSE, q),
           \A c : EntryOf(c, h) => ~Has(found.results, c) /\ ~Waiting(q, c)
    PROVE  Loop(Search!LookAt(items, Len(h)), Len(items), items, h, found.results, q)
<1> DEFINE n == Len(items)
           start == [results |-> found.results, scanned |-> found.scanned,
                     truncated |-> FALSE, queue |-> Tail(queue)]
           E(f) == [i \in 0..n |-> IF i = 0 THEN start
                                   ELSE Search!Look(f[i - 1], items[i], Len(h))]
           after == CHOOSE f : f = E(f)
<1>1. /\ n \in Nat /\ Len(h) \in Nat /\ \A i \in 1..n : items[i] \in EntryPath
      /\ n \in 0..n /\ 0 \in 0..n
    BY PhaseFacts, ElementOfSeq DEF Items
<1>2. start \in Walks
    BY PhaseFacts DEF Walks
<1>3. Loop(start, 0, items, h, found.results, q)
  <2>1. /\ start.results = found.results /\ start.scanned = found.scanned
        /\ start.truncated = FALSE /\ start.queue = q
      OBVIOUS
  <2> HIDE DEF start
  <2>2. \A k \in 1..Len(items) : ~Has(found.results, items[k]) /\ ~Waiting(q, items[k])
      BY DEF Items
  <2>3. /\ Phase(start.results, start.queue, h)
        /\ CapsOk(start.results, start.scanned, start.truncated, start.queue)
        /\ \A k \in 1..Len(items) : ~Has(start.results, items[k]) /\ ~Waiting(start.queue, items[k])
        /\ \A p : Has(found.results, p) => Has(start.results, p)
        /\ \A p : Waiting(q, p) => Waiting(start.queue, p)
      BY <2>1, <2>2
  <2>4. 1..0 = {}
      OBVIOUS
  <2>5. QED
      BY <1>2, <2>3, <2>4 DEF Loop
<1>4. Search!LookAt(items, Len(h)) = after[n]
    BY DEF Search!LookAt
<1> HIDE DEF start
<1>5. PICK step : step = [i \in 1..n |-> [g \in Walks |-> Search!Look(g, items[i], Len(h))]]
    OBVIOUS
<1>6. step \in [1..n -> [Walks -> Walks]]
    BY <1>1, <1>5, LookTyped
<1>7. PICK f \in [0..n -> Walks] : f[0] = start /\ \A i \in 1..n : f[i] = step[i][f[i - 1]]
  <2> HIDE DEF n
  <2>1. Steps(step, n, Walks)
      BY <1>1, <1>6 DEF Steps
  <2>2. PICK f : Iterates(f, step, n, Walks, start)
      BY <1>2, <2>1, Iterated
  <2>3. QED
      BY <2>2 DEF Iterates
<1>8. f = E(f)
  <2>1. ASSUME NEW i \in 0..n
        PROVE  f[i] = IF i = 0 THEN start ELSE Search!Look(f[i - 1], items[i], Len(h))
    <3>1. CASE i = 0
        BY <1>7, <3>1
    <3>2. CASE i # 0
      <4>1. i \in 1..n /\ f[i - 1] \in Walks
          BY <1>1, <1>7, <3>2
      <4>2. QED
          BY <1>5, <1>7, <3>2, <4>1
    <3>3. QED
        BY <3>1, <3>2
  <2> HIDE DEF n
  <2>2. QED
      BY <1>7, <2>1
<1>9. after = E(after)
  <2> HIDE DEF E
  <2>1. QED
      BY <1>8
<1> HIDE DEF after, n
<1>10. \A i \in 0..n : after[i] = IF i = 0 THEN start
                                  ELSE Search!Look(after[i - 1], items[i], Len(h))
    BY <1>9
<1> DEFINE T == {i \in 0..n : ~Loop(after[i], i, items, h, found.results, q)}
<1>11. ASSUME T # {} PROVE FALSE
  <2>1. T \in SUBSET Nat
      OBVIOUS
  <2>2. PICK m \in T : \A k \in T : m <= k
    <3> HIDE DEF T
    <3>1. QED
        BY <1>11, <2>1, Smallest
  <2>3. m \in 0..n /\ ~Loop(after[m], m, items, h, found.results, q)
      BY <2>2
  <2>4. CASE m = 0
      BY <1>1, <1>3, <1>10, <2>3, <2>4
  <2>5. CASE m # 0
    <3>1. PICK j : j = m - 1
        OBVIOUS
    <3>2. j \in 0..n /\ j \in Nat /\ j + 1 = m /\ ~(m <= j) /\ j + 1 \in 1..n
        BY <1>1, <2>3, <2>5, <3>1
    <3>3. j \notin T
      <4> HIDE DEF T
      <4>1. QED
          BY <2>2, <3>2
    <3>4. Loop(after[j], j, items, h, found.results, q)
        BY <3>2, <3>3
    <3>5. Loop(Search!Look(after[j], items[j + 1], Len(h)), j + 1, items, h, found.results, q)
        BY <3>2, <3>4, LookStep DEF n
    <3>6. after[m] = Search!Look(after[j], items[j + 1], Len(h))
        BY <1>10, <2>3, <2>5, <3>1, <3>2
    <3>7. QED
        BY <2>3, <3>2, <3>5, <3>6
  <2>6. QED
      BY <2>4, <2>5
<1>12. Loop(after[n], n, items, h, found.results, q)
    BY <1>1, <1>11
<1>13. QED
    BY <1>4, <1>12 DEF n

-----------------------------------------------------------------------------
(* The steps of a search. *)

\* What stayed where it was is found, or some folder it is in still waits.
Covered(where, gone, rs, q) ==
  \A e \in Entries \ gone : Len(where[e]) <= MaxDepth + 1 =>
    \/ e \in matching => Has(rs, where[e])
    \/ \E p \in EntryPath : /\ Waiting(q, p) /\ Len(p) < Len(where[e])
                            /\ Search!Under(p, where[e])

SearchInv ==
  /\ folders \in SUBSET Entries /\ matching \in SUBSET Entries
  /\ TreeAt(place)
  /\ found \in [results : Seq(EntryPath), scanned : Nat, truncated : BOOLEAN]
  /\ answer \in {"none", "ok", "error"}
  /\ WalkOk(found.results, queue)
  /\ CapsOk(found.results, found.scanned, found.truncated, queue)
  /\ plain /\ found.truncated = FALSE => Covered(place, moved, found.results, queue)
  /\ answer = "ok" => queue = <<>>

\* An entry is found at one place only.
LEMMA PlacesDiffer ==
    ASSUME TreeAt(place), NEW d \in Entries, NEW e \in Entries, place[d] = place[e]
    PROVE  d = e
    BY DEF TreeAt

LEMMA ListingIs ==
    ASSUME TreeAt(place), NEW h \in EntryPath
    PROVE  /\ Items(Search!Listing(h), h)
           /\ plain => \A e \in Entries : Search!Parent(place[e]) = h =>
                \E k \in 1..Len(Search!Listing(h)) : Search!Listing(h)[k] = place[e]
<1>0. CASE ~plain
  <2>1. Search!Listing(h) = <<>>
      BY <1>0, Zenon DEF Search!Listing
  <2>2. Items(<<>>, h)
      BY EmptySeq DEF Items
  <2>3. QED
      BY <1>0, <2>1, <2>2
<1> SUFFICES ASSUME plain
             PROVE  /\ Items(Search!Listing(h), h)
                    /\ \A e \in Entries : Search!Parent(place[e]) = h =>
                         \E k \in 1..Len(Search!Listing(h)) : Search!Listing(h)[k] = place[e]
    BY <1>0
<1>1. PICK U : U = Search!Children(h)
    OBVIOUS
<1>2. U = {e \in Entries : Search!Parent(place[e]) = h}
    BY <1>1 DEF Search!Children
<1>3. U \in SUBSET Nat /\ IsFiniteSet(U)
    BY <1>2, SearchAssumptions, FS_Subset
<1>4. PICK m : m = Cardinality(U)
    OBVIOUS
<1>5. PICK q : q = Ordered(U, m)
    OBVIOUS
<1>6. /\ m \in Nat /\ q \in [1..m -> U]
      /\ \A k, l \in 1..m : q[k] = q[l] => k = l
      /\ \A i \in U : \E k \in 1..m : q[k] = i
    BY <1>3, <1>4, <1>5, OrderedIs DEF Lists
<1>7. Search!InOrder(U) = q
    BY <1>4, <1>5, SearchAssumptions, Zenon DEF Search!InOrder, Ordered
<1>8. PICK items : items = Search!Listing(h)
    OBVIOUS
<1>9. items = [i \in 1..m |-> place[q[i]]]
    BY <1>1, <1>4, <1>7, <1>8, SearchAssumptions, Zenon DEF Search!Listing
<1>10. \A i \in 1..m : q[i] \in Entries /\ EntryOf(place[q[i]], h)
  <2> SUFFICES ASSUME NEW i \in 1..m
               PROVE  q[i] \in Entries /\ EntryOf(place[q[i]], h)
      OBVIOUS
  <2>1. q[i] \in Entries /\ Search!Parent(place[q[i]]) = h
      BY <1>2, <1>6
  <2>2. place[q[i]] \in EntryPath /\ Len(place[q[i]]) # 0 /\ Len(place[q[i]]) \in Nat
      BY <2>1, EntryPaths DEF TreeAt
  <2>3. Len(h) = Len(place[q[i]]) - 1
      BY <2>1, <2>2, ParentIs
  <2>4. QED
      BY <2>1, <2>2, <2>3 DEF EntryOf
<1>11. items \in Seq(EntryPath) /\ Len(items) = m
  <2>1. items \in [1..m -> EntryPath]
      BY <1>9, <1>10 DEF EntryOf
  <2>2. QED
      BY <1>6, <2>1
<1>12. \A i \in 1..m : items[i] = place[q[i]]
    BY <1>9
<1>13. \A i, k \in 1..m : items[i] = items[k] => i = k
    BY <1>6, <1>10, <1>12, PlacesDiffer
<1>14. Items(items, h)
    BY <1>10, <1>11, <1>12, <1>13 DEF Items
<1>15. \A e \in Entries : Search!Parent(place[e]) = h => \E k \in 1..m : items[k] = place[e]
    BY <1>2, <1>6, <1>12
<1>16. QED
    BY <1>8, <1>11, <1>14, <1>15

LEMMA ListNextKeeps ==
    ASSUME SearchInv, Search!ListNext
    PROVE  SearchInv'
<1>1. /\ answer = "none" /\ queue # <<>>
      /\ place' = place /\ folders' = folders /\ matching' = matching
      /\ answer' = answer /\ moved' = moved /\ plain' = plain
    BY DEF Search!ListNext, Search!tree
<1>2. PICK h : h = Head(queue).path
    OBVIOUS
<1>3. PICK q : q = Tail(queue)
    OBVIOUS
<1>4. /\ h \in EntryPath /\ Head(queue).depth = Len(h) /\ Phase(found.results, q, h)
      /\ \A c : EntryOf(c, h) => ~Has(found.results, c) /\ ~Waiting(q, c)
      /\ \A p : Waiting(queue, p) => p = h \/ Waiting(q, p)
    BY <1>1, <1>2, <1>3, PhaseBegins DEF SearchInv
<1>5. found.truncated = FALSE
    BY <1>1 DEF SearchInv, CapsOk
<1>6. /\ found \in [results : Seq(EntryPath), scanned : Nat, truncated : BOOLEAN]
      /\ TreeAt(place) /\ folders \in SUBSET Entries /\ matching \in SUBSET Entries
      /\ plain => Covered(place, moved, found.results, queue)
    BY <1>5 DEF SearchInv
<1>7. CapsOk(found.results, found.scanned, FALSE, q)
    BY <1>5 DEF SearchInv, CapsOk
<1>8. PICK items : items = Search!Listing(h)
    OBVIOUS
<1>9. /\ Items(items, h)
      /\ plain => \A e \in Entries : Search!Parent(place[e]) = h =>
           \E k \in 1..Len(items) : items[k] = place[e]
    BY <1>4, <1>6, <1>8, ListingIs
<1>10. PICK got : got = Search!LookAt(items, Len(h))
    OBVIOUS
<1>11. Loop(got, Len(items), items, h, found.results, q)
    BY <1>3, <1>4, <1>6, <1>7, <1>9, <1>10, LookAtAll
<1>12. /\ found' = [results |-> got.results, scanned |-> got.scanned,
                    truncated |-> got.truncated]
       /\ queue' = got.queue
    BY <1>2, <1>4, <1>8, <1>10, Zenon DEF Search!ListNext
<1>13. got \in Walks /\ Phase(got.results, got.queue, h)
       /\ CapsOk(got.results, got.scanned, got.truncated, got.queue)
    BY <1>11 DEF Loop
<1>14. /\ found' \in [results : Seq(EntryPath), scanned : Nat, truncated : BOOLEAN]
       /\ found'.results = got.results /\ found'.scanned = got.scanned
       /\ found'.truncated = got.truncated
    BY <1>12, <1>13 DEF Walks
<1>15. ASSUME plain, got.truncated = FALSE PROVE Covered(place, moved, got.results, got.queue)
  <2>0. Covered(place, moved, found.results, queue)
      BY <1>6, <1>15, Zenon
  <2>1. /\ \A p : Has(found.results, p) => Has(got.results, p)
        /\ \A p : Waiting(q, p) => Waiting(got.queue, p)
        /\ \A k \in 1..Len(items) :
            /\ Search!Last(items[k]) \in matching => Has(got.results, items[k])
            /\ Search!Last(items[k]) \in folders /\ Len(h) < MaxDepth =>
                 Waiting(got.queue, items[k])
      BY <1>11, <1>15 DEF Loop
  <2> SUFFICES ASSUME NEW e \in Entries \ moved, Len(place[e]) <= MaxDepth + 1
               PROVE  \/ e \in matching => Has(got.results, place[e])
                      \/ \E p \in EntryPath :
                           /\ Waiting(got.queue, p) /\ Len(p) < Len(place[e])
                           /\ Search!Under(p, place[e])
      BY DEF Covered
  <2>2. CASE e \in matching => Has(found.results, place[e])
      BY <2>1, <2>2
  <2>3. ASSUME NEW p \in EntryPath, Waiting(queue, p), Len(p) < Len(place[e]),
               Search!Under(p, place[e])
        PROVE  \/ e \in matching => Has(got.results, place[e])
               \/ \E w \in EntryPath :
                    /\ Waiting(got.queue, w) /\ Len(w) < Len(place[e])
                    /\ Search!Under(w, place[e])
    <3>1. CASE p # h
        BY <1>4, <2>1, <2>3, <3>1
    <3>2. CASE p = h
      <4>1. /\ place[e] \in EntryPath /\ Len(place[e]) # 0 /\ Len(place[e]) \in Nat
            /\ place[e][Len(place[e])] = e /\ Len(h) \in Nat /\ MaxDepth \in Nat
          BY <1>4, <1>6, EntryPaths, SearchAssumptions DEF TreeAt
      <4>2. CASE Len(place[e]) = Len(h) + 1
        <5>1. Search!Parent(place[e]) = h
          <6>1. /\ Search!Parent(place[e]) \in EntryPath
                /\ Len(Search!Parent(place[e])) = Len(h)
                /\ \A i \in 1..Len(h) : Search!Parent(place[e])[i] = place[e][i]
            <7>1. Len(place[e]) - 1 = Len(h)
                BY <4>1, <4>2
            <7>2. /\ Search!Parent(place[e]) \in EntryPath
                  /\ Len(Search!Parent(place[e])) = Len(place[e]) - 1
                  /\ \A i \in 1..Len(place[e]) - 1 : Search!Parent(place[e])[i] = place[e][i]
                BY <4>1, ParentIs
            <7>3. QED
                BY <7>1, <7>2, Zenon
          <6>2. \A i \in 1..Len(h) : h[i] = place[e][i]
              BY <2>3, <3>2, <4>1, Below
          <6>3. QED
              BY <1>4, <6>1, <6>2, SameEntries
        <5>2. PICK k \in 1..Len(items) : items[k] = place[e]
            BY <1>9, <1>15, <5>1
        <5>3. Search!Last(items[k]) = e
            BY <4>1, <5>2 DEF Search!Last
        <5>4. QED
            BY <2>1, <5>2, <5>3
      <4>3. CASE Len(place[e]) # Len(h) + 1
        <5>1. PICK j : j = Len(h) + 1
            OBVIOUS
        <5>2. j \in Nat /\ 1 <= j /\ j < Len(place[e]) /\ Len(h) < MaxDepth
            BY <2>3, <3>2, <4>1, <4>3, <5>1
        <5>3. PICK g \in folders : Len(place[g]) = j /\ Search!Under(place[g], place[e])
            BY <1>6, <5>2 DEF TreeAt
        <5>4. g \in Entries /\ place[g] \in EntryPath /\ place[g][j] = g
            BY <1>6, <5>3 DEF TreeAt
        <5>5. Search!Parent(place[g]) = h
          <6>1. /\ Search!Parent(place[g]) \in EntryPath
                /\ Len(Search!Parent(place[g])) = Len(h)
                /\ \A i \in 1..Len(h) : Search!Parent(place[g])[i] = place[g][i]
            <7>1. Len(place[g]) - 1 = Len(h) /\ Len(place[g]) # 0
                BY <4>1, <5>1, <5>3
            <7>2. /\ Search!Parent(place[g]) \in EntryPath
                  /\ Len(Search!Parent(place[g])) = Len(place[g]) - 1
                  /\ \A i \in 1..Len(place[g]) - 1 : Search!Parent(place[g])[i] = place[g][i]
                BY <5>4, <7>1, ParentIs
            <7>3. QED
                BY <7>1, <7>2, Zenon
          <6>2. \A i \in 1..Len(h) : h[i] = place[e][i]
              BY <2>3, <3>2, <4>1, Below
          <6>3. \A i \in 1..Len(h) : place[g][i] = place[e][i]
            <7>1. \A i \in 1..Len(place[g]) : place[g][i] = place[e][i]
                BY <4>1, <5>3, <5>4, Below
            <7>2. Len(h) \in Nat /\ Len(place[g]) = Len(h) + 1
                BY <4>1, <5>1, <5>3
            <7>3. QED
                BY <7>1, <7>2
          <6>4. QED
              BY <1>4, <6>1, <6>2, <6>3, SameEntries
        <5>6. PICK k \in 1..Len(items) : items[k] = place[g]
            BY <1>9, <1>15, <5>4, <5>5
        <5>7. Search!Last(items[k]) = g
            BY <5>3, <5>4, <5>6 DEF Search!Last
        <5>8. Waiting(got.queue, place[g])
            BY <2>1, <5>2, <5>3, <5>6, <5>7
        <5>9. QED
            BY <5>2, <5>3, <5>4, <5>8
      <4>4. QED
          BY <4>2, <4>3
    <3>3. QED
        BY <3>1, <3>2
  <2>4. QED
      BY <2>0, <2>2, <2>3 DEF Covered
<1>16. WalkOk(got.results, got.queue)
    BY <1>13, PhaseEnds
<1>17. /\ TreeAt(place)' /\ folders' \in SUBSET Entries /\ matching' \in SUBSET Entries
       /\ answer' = "none"
    BY <1>1, <1>6 DEF TreeAt, Search!Under
<1>18. WalkOk(found'.results, queue')
    BY <1>12, <1>14, <1>16
<1>19. CapsOk(found'.results, found'.scanned, found'.truncated, queue')
    BY <1>12, <1>13, <1>14
<1>20. plain' /\ found'.truncated = FALSE => Covered(place, moved, found.results, queue)'
    BY <1>1, <1>12, <1>14, <1>15 DEF Covered, Has, Waiting, Search!Under
<1>21. QED
    BY <1>14, <1>17, <1>18, <1>19, <1>20
       DEF SearchInv, WalkOk, CapsOk, Search!Parent

\* Every entry is below an earlier one, or at the top.
LEMMA PlacesAre ==
    ASSUME folders \in SUBSET Entries, NEW up \in [Entries -> folders \union {Search!Start}],
           \A e \in Entries : up[e] < e
    PROVE  TreeAt(Search!PlacesIn(up))
<1> DEFINE S == [Entries -> EntryPath]
           E(g) == [e \in Entries |-> IF up[e] = Search!Start THEN <<e>> ELSE Append(g[up[e]], e)]
           places == CHOOSE g : g = E(g)
<1>1. /\ Entries \subseteq Nat \ {0}
      /\ \A e \in Entries : up[e] \in Nat /\ (up[e] # Search!Start => up[e] \in folders)
      /\ \A e \in Entries : up[e] # Search!Start => up[e] \in Entries
  <2>1. Entries \subseteq Nat \ {0} /\ Search!Start = 0
      BY SearchAssumptions DEF Search!Start
  <2>2. \A e \in Entries : up[e] = Search!Start \/ up[e] \in folders
      OBVIOUS
  <2>3. \A f \in folders : f \in Entries /\ f \in Nat
      BY <2>1
  <2>4. ASSUME NEW e \in Entries PROVE up[e] \in Nat
    <3>1. CASE up[e] = Search!Start
        BY <2>1, <3>1
    <3>2. CASE up[e] \in folders
        BY <2>3, <3>2
    <3>3. QED
        BY <2>2, <3>1, <3>2
  <2>5. QED
      BY <2>1, <2>2, <2>3, <2>4, Zenon
<1>2. \A g \in S : E(g) \in S
  <2> SUFFICES ASSUME NEW g \in S, NEW e \in Entries
               PROVE  (IF up[e] = Search!Start THEN <<e>> ELSE Append(g[up[e]], e)) \in EntryPath
      OBVIOUS
  <2>1. <<e>> \in Seq(Entries)
      OBVIOUS
  <2>2. up[e] # Search!Start => Append(g[up[e]], e) \in Seq(Entries)
      BY <1>1 DEF EntryPath
  <2>3. QED
      BY <2>1, <2>2 DEF EntryPath
<1>3. PICK n \in Nat : \A e \in Entries : e <= n
    BY SearchAssumptions, Bounded
<1>4. \E g \in S : g = E(g)
  <2>1. PICK step : step = [i \in 1..n + 1 |-> [g \in S |-> E(g)]]
      OBVIOUS
  <2>2. PICK x : x = [e \in Entries |-> <<>>]
      OBVIOUS
  <2>3. x \in S
      BY <2>2, EmptySeq DEF EntryPath
  <2>4. step \in [1..n + 1 -> [S -> S]]
    <3>1. [g \in S |-> E(g)] \in [S -> S]
      <4> HIDE DEF S, E
      <4>1. QED
          BY <1>2
    <3> HIDE DEF S, E
    <3>2. QED
        BY <2>1, <3>1
  <2> HIDE DEF S
  <2>5. Steps(step, n + 1, S)
      BY <2>4 DEF Steps
  <2>6. PICK f : Iterates(f, step, n + 1, S, x)
      BY <2>3, <2>5, Iterated
  <2>7. /\ f \in [0..n + 1 -> S]
        /\ \A i \in 0..n : f[i] \in S /\ f[i + 1] = E(f[i])
    <3>1. f \in [0..n + 1 -> S] /\ \A i \in 1..n + 1 : f[i] = step[i][f[i - 1]]
        BY <2>6 DEF Iterates
    <3>2. ASSUME NEW i \in 0..n PROVE f[i] \in S /\ f[i + 1] = E(f[i])
      <4>1. i + 1 \in 1..n + 1 /\ i + 1 - 1 = i /\ i \in 0..n + 1
          OBVIOUS
      <4>2. f[i] \in S /\ f[i + 1] = step[i + 1][f[i]]
          BY <3>1, <4>1
      <4> HIDE DEF E
      <4>3. QED
          BY <2>1, <4>1, <4>2
    <3>3. QED
        BY <3>1, <3>2
  <2> DEFINE Settled(k) == \A e \in Entries : e <= k => f[k][e] = f[k + 1][e]
             T == {k \in 0..n : ~Settled(k)}
  <2>8. ASSUME T # {} PROVE FALSE
    <3>1. T \in SUBSET Nat
        OBVIOUS
    <3>2. PICK m \in T : \A k \in T : m <= k
      <4> HIDE DEF T
      <4>1. QED
          BY <2>8, <3>1, Smallest
    <3>3. PICK e \in Entries : e <= m /\ f[m][e] # f[m + 1][e]
        BY <3>2
    <3>4. m \in 1..n /\ m - 1 \in 0..n /\ m - 1 + 1 = m /\ m \in 0..n /\ ~(m <= m - 1)
        BY <1>1, <3>2, <3>3
    <3>5. m - 1 \notin T
      <4> HIDE DEF T
      <4>1. QED
          BY <3>2, <3>4
    <3>6. f[m] = E(f[m - 1]) /\ f[m + 1] = E(f[m])
      <4> HIDE DEF E
      <4>1. QED
          BY <2>7, <3>4
    <3>7. up[e] # Search!Start => f[m - 1][up[e]] = f[m][up[e]]
      <4>1. up[e] # Search!Start => up[e] \in Entries /\ up[e] <= m - 1
          BY <1>1, <3>3, <3>4
      <4>2. QED
          BY <3>4, <3>5, <4>1
    <3>8. QED
        BY <3>3, <3>6, <3>7
  <2>9. \A e \in Entries : f[n][e] = f[n + 1][e]
    <3>1. n \in 0..n
        BY <1>3
    <3>2. QED
        BY <1>3, <2>8, <3>1
  <2>10. f[n] \in S /\ f[n + 1] = E(f[n])
    <3>1. n \in 0..n
        BY <1>3
    <3> HIDE DEF E
    <3>2. QED
        BY <2>7, <3>1
  <2>11. E(f[n]) \in S
    <3> HIDE DEF E
    <3>1. QED
        BY <1>2, <2>10
  <2>12. f[n] = E(f[n])
    <3>1. f[n + 1] \in S
        BY <2>10, <2>11
    <3>2. f[n] = f[n + 1]
      <4>1. PICK a : a = f[n]
          OBVIOUS
      <4>2. PICK b : b = f[n + 1]
          OBVIOUS
      <4>3. a \in S /\ b \in S /\ \A e \in Entries : a[e] = b[e]
        <5> HIDE DEF E, S
        <5>1. QED
            BY <2>9, <2>10, <3>1, <4>1, <4>2
      <4>4. a = b
          BY <4>3 DEF S
      <4>5. QED
          BY <4>1, <4>2, <4>4
    <3> HIDE DEF E
    <3>3. QED
        BY <2>10, <3>2
  <2>13. QED
      BY <2>10, <2>12
<1>5. places = E(places)
  <2> HIDE DEF E, S
  <2>1. QED
      BY <1>4
<1>6. Search!PlacesIn(up) = places
    BY DEF Search!PlacesIn
<1> HIDE DEF places
<1>7. \A e \in Entries : places[e] = IF up[e] = Search!Start THEN <<e>> ELSE Append(places[up[e]], e)
    BY <1>5
<1> DEFINE Q == {e \in Entries : places[e] \notin EntryPath}
<1>p. ASSUME Q # {} PROVE FALSE
  <2>1. Q \in SUBSET Nat
      BY <1>1
  <2>2. PICK e \in Q : \A k \in Q : e <= k
    <3> HIDE DEF Q
    <3>1. QED
        BY <1>p, <2>1, Smallest
  <2>3. e \in Entries /\ places[e] \notin EntryPath
      BY <2>2
  <2>4. CASE up[e] = Search!Start
    <3>1. places[e] = <<e>>
        BY <1>7, <2>3, <2>4
    <3>2. <<e>> \in Seq(Entries)
        BY <2>3
    <3>3. QED
        BY <2>3, <3>1, <3>2 DEF EntryPath
  <2>5. CASE up[e] # Search!Start
    <3>1. PICK u : u = up[e]
        OBVIOUS
    <3>2. u \in Entries /\ ~(e <= u)
        BY <1>1, <2>3, <2>5, <3>1
    <3>3. u \notin Q
      <4> HIDE DEF Q
      <4>1. QED
          BY <2>2, <3>2
    <3>4. places[u] \in Seq(Entries)
        BY <3>2, <3>3 DEF EntryPath
    <3>5. Append(places[u], e) \in Seq(Entries)
        BY <2>3, <3>4
    <3>6. places[e] = Append(places[u], e)
        BY <1>7, <2>3, <2>5, <3>1
    <3>7. QED
        BY <2>3, <3>5, <3>6 DEF EntryPath
  <2>6. QED
      BY <2>4, <2>5
<1> DEFINE Right(e) ==
             /\ places[e] \in EntryPath /\ Len(places[e]) # 0 /\ places[e][Len(places[e])] = e
             /\ \A k \in Nat : 1 <= k /\ k < Len(places[e]) =>
                  \E g \in folders : Len(places[g]) = k /\ Search!Under(places[g], places[e])
           T == {e \in Entries : ~Right(e)}
<1>8. ASSUME T # {} PROVE FALSE
  <2>1. T \in SUBSET Nat
      BY <1>1
  <2>2. PICK e \in T : \A k \in T : e <= k
    <3> HIDE DEF T
    <3>1. QED
        BY <1>8, <2>1, Smallest
  <2>3. e \in Entries /\ ~Right(e)
      BY <2>2
  <2>4. CASE up[e] = Search!Start
    <3>1. places[e] = <<e>>
        BY <1>7, <2>3, <2>4
    <3>2. <<e>> \in Seq(Entries) /\ Len(<<e>>) = 1 /\ <<e>>[1] = e
        BY <2>3
    <3>3. Right(e)
        BY <3>1, <3>2 DEF EntryPath
    <3>4. QED
        BY <2>3, <3>3
  <2>5. CASE up[e] # Search!Start
    <3>1. PICK u : u = up[e]
        OBVIOUS
    <3>2. u \in folders /\ u \in Entries /\ u < e /\ ~(e <= u)
        BY <1>1, <2>3, <2>5, <3>1
    <3>3. u \notin T
      <4> HIDE DEF T
      <4>1. QED
          BY <2>2, <3>2
    <3>4. Right(u)
        BY <3>2, <3>3
    <3>5. PICK x : x = places[u]
        OBVIOUS
    <3>6. x \in EntryPath /\ x \in Seq(Entries) /\ Len(x) \in Nat /\ Len(x) # 0
        BY <3>4, <3>5, EntryPaths
    <3>7. PICK y : y = places[e]
        OBVIOUS
    <3>8. y = Append(x, e)
        BY <1>7, <2>3, <2>5, <3>1, <3>5, <3>7
    <3>9. y \in EntryPath /\ Len(y) = Len(x) + 1 /\ y[Len(y)] = e /\ \A i \in 1..Len(x) : y[i] = x[i]
      <4>1. y \in Seq(Entries) /\ Extends(y, x, e)
          BY <2>3, <3>6, <3>8, Appended
      <4>2. QED
          BY <4>1 DEF Extends, EntryPath
    <3>10. Search!Under(x, y)
      <4>1. Len(x) <= Len(y)
          BY <3>6, <3>9
      <4>2. QED
          BY <3>6, <3>9, <4>1, Below
    <3>11. ASSUME NEW k \in Nat, 1 <= k, k < Len(y)
           PROVE  \E g \in folders : Len(places[g]) = k /\ Search!Under(places[g], y)
      <4>1. CASE k = Len(x)
          BY <3>2, <3>5, <3>10, <4>1
      <4>2. CASE k # Len(x)
        <5>1. k < Len(x)
            BY <3>6, <3>9, <3>11, <4>2
        <5>2. PICK g \in folders : Len(places[g]) = k /\ Search!Under(places[g], x)
            BY <3>4, <3>5, <3>11, <5>1
        <5>3. places[g] \in EntryPath
            BY <1>p
        <5>4. QED
            BY <3>6, <3>9, <3>10, <5>2, <5>3, BelowTransitive
      <4>3. QED
          BY <4>1, <4>2
    <3>12. Right(e)
        BY <3>6, <3>7, <3>9, <3>11
    <3>13. QED
        BY <2>3, <3>12
  <2>6. QED
      BY <2>4, <2>5
<1>9. \A e \in Entries : Right(e)
    BY <1>8
<1>10. places \in S
  <2>1. places = [e \in Entries |-> places[e]]
      BY <1>5
  <2>2. QED
      BY <1>9, <2>1
<1>11. TreeAt(places)
    BY <1>9, <1>10 DEF TreeAt
<1>12. QED
    BY <1>6, <1>11

LEMMA SearchInit == Search!Init => SearchInv
<1> SUFFICES ASSUME Search!Init PROVE SearchInv
    OBVIOUS
<1>1. folders \in SUBSET Entries /\ matching \in SUBSET Entries
    BY DEF Search!Init
<1>2. TreeAt(place)
    BY <1>1, PlacesAre DEF Search!Init
<1>3. PICK x : x = [path |-> <<>>, depth |-> 0]
    OBVIOUS
<1>4. <<>> \in EntryPath /\ Len(<<>>) = 0
    BY EmptySeq DEF EntryPath
<1>5. x \in Folders /\ x.path = <<>> /\ x.depth = 0
    BY <1>3, <1>4 DEF Folders
<1>6. /\ queue = <<x>> /\ answer = "none" /\ moved = {}
      /\ found = [results |-> <<>>, scanned |-> 0, truncated |-> FALSE]
    BY <1>3 DEF Search!Init
<1>7. /\ queue \in Seq(Folders) /\ Len(queue) = 1 /\ queue[1] = x
      /\ \A i \in 1..Len(queue) : i = 1
    BY <1>5, <1>6
<1>8. <<>> \in Seq(EntryPath) /\ Len(<<>>) = 0
    BY EmptySeq
<1>9. /\ found.results = <<>> /\ found.scanned = 0 /\ found.truncated = FALSE
      /\ found \in [results : Seq(EntryPath), scanned : Nat, truncated : BOOLEAN]
    BY <1>6, <1>8
<1>10. WalkOk(found.results, queue)
  <2>1. \A i \in 1..Len(queue) : queue[i].depth = 0 /\ Len(queue[i].path) = 0
      BY <1>4, <1>5, <1>7
  <2>2. \A i, k \in 1..Len(queue) : ~(i < k)
      BY <1>7
  <2>3. QED
      BY <1>7, <1>8, <1>9, <2>1, <2>2, SearchAssumptions DEF WalkOk
<1>11. CapsOk(found.results, found.scanned, found.truncated, queue)
    BY <1>8, <1>9, SearchAssumptions DEF CapsOk
<1>12. Covered(place, moved, found.results, queue)
  <2>1. Waiting(queue, <<>>)
      BY <1>5, <1>7 DEF Waiting
  <2>2. \A e \in Entries : 0 < Len(place[e]) /\ Search!Under(<<>>, place[e])
    <3> SUFFICES ASSUME NEW e \in Entries PROVE 0 < Len(place[e]) /\ Search!Under(<<>>, place[e])
        OBVIOUS
    <3>1. place[e] \in EntryPath /\ Len(place[e]) \in Nat \ {0}
        BY <1>2, EntryPaths DEF TreeAt
    <3>2. QED
        BY <1>4, <3>1, Below
  <2>3. QED
      BY <1>4, <2>1, <2>2 DEF Covered
<1>13. QED
    BY <1>1, <1>2, <1>6, <1>9, <1>10, <1>11, <1>12 DEF SearchInv

LEMMA SearchRests ==
    ASSUME SearchInv, place' = place, folders' = folders, matching' = matching,
           plain' = plain, queue' = queue, found' = found, moved' = moved,
           answer' \in {"none", "ok", "error"}, answer' = "ok" => queue = <<>>
    PROVE  SearchInv'
<1>1. TreeAt(place)'
    BY DEF SearchInv, TreeAt, Search!Under
<1>2. WalkOk(found.results, queue)' /\ CapsOk(found.results, found.scanned, found.truncated, queue)'
  <2>1. WalkOk(found'.results, queue')
    <3>1. WalkOk(found.results, queue)
        BY DEF SearchInv
    <3>2. QED
        BY <3>1, Zenon
  <2>2. CapsOk(found.results, found.scanned, found.truncated, queue)'
      BY DEF SearchInv, CapsOk
  <2>3. QED
      BY <2>1, <2>2
<1>3. (plain /\ found.truncated = FALSE => Covered(place, moved, found.results, queue))'
    BY DEF SearchInv, Covered, Has, Waiting, Search!Under
<1>4. QED
    BY <1>1, <1>2, <1>3 DEF SearchInv

LEMMA OwnerMovesKeeps ==
    ASSUME SearchInv, Search!OwnerMoves
    PROVE  SearchInv'
<1>1. /\ folders' = folders /\ matching' = matching /\ plain' = plain
      /\ queue' = queue /\ found' = found /\ answer' = answer
    BY DEF Search!OwnerMoves
<1>2. PICK e \in Entries, t \in {<<>>} \union {place[f] : f \in folders} :
        /\ ~Search!Under(place[e], t)
        /\ MovedBy(place', e, t)
        /\ moved' = moved \union {d \in Entries : Search!Under(place[e], place[d])}
    BY DEF Search!OwnerMoves, MovedBy
<1>3. folders \in SUBSET Entries /\ TreeAt(place)
    BY DEF SearchInv
<1>4. t \in EntryPath /\ (t = <<>> \/ \E f \in folders : place[f] = t)
  <2>1. <<>> \in EntryPath
      BY EmptySeq DEF EntryPath
  <2>2. \A f \in folders : place[f] \in EntryPath
      BY <1>3 DEF TreeAt
  <2>3. QED
      BY <2>1, <2>2
<1>5. TreeAt(place')
    BY <1>2, <1>3, <1>4, MovedTree
<1>6. \A d \in Entries \ moved' : d \notin moved /\ place'[d] = place[d]
    BY <1>2 DEF MovedBy
<1>7. ASSUME plain, found.truncated = FALSE
      PROVE  Covered(place', moved', found.results, queue)
    BY <1>6, <1>7 DEF SearchInv, Covered
<1>8. TreeAt(place)'
    BY <1>1, <1>5 DEF TreeAt, Search!Under
<1>9. WalkOk(found.results, queue)' /\ CapsOk(found.results, found.scanned, found.truncated, queue)'
  <2>1. WalkOk(found'.results, queue')
    <3>1. WalkOk(found.results, queue)
        BY DEF SearchInv
    <3>2. QED
        BY <1>1, <3>1, Zenon
  <2>2. CapsOk(found'.results, found'.scanned, found'.truncated, queue')
    <3>1. CapsOk(found.results, found.scanned, found.truncated, queue)
        BY DEF SearchInv
    <3>2. QED
        BY <1>1, <3>1, Zenon
  <2>3. QED
      BY <2>1, <2>2
<1>10. (plain /\ found.truncated = FALSE => Covered(place, moved, found.results, queue))'
    BY <1>1, <1>7 DEF Covered, Has, Waiting, Search!Under
<1>11. QED
    BY <1>1, <1>8, <1>9, <1>10 DEF SearchInv

LEMMA SearchStep ==
    ASSUME SearchInv, Search!Next
    PROVE  SearchInv'
<1>1. CASE Search!ListNext
    BY <1>1, ListNextKeeps
<1>2. CASE Search!OwnerMoves
    BY <1>2, OwnerMovesKeeps
<1>3. CASE Search!ListFails
    BY <1>3, SearchRests DEF Search!ListFails, Search!tree
<1>4. CASE Search!Answer
    BY <1>4, SearchRests DEF Search!Answer, Search!tree
<1>5. QED
    BY <1>1, <1>2, <1>3, <1>4 DEF Search!Next

LEMMA SearchSays == SearchInv =>
    /\ Search!TypeOK /\ Search!CapsHold
    /\ Search!CompleteUnlessTruncated /\ Search!NearestFirst
<1> SUFFICES ASSUME SearchInv
             PROVE  /\ Search!TypeOK /\ Search!CapsHold
                    /\ Search!CompleteUnlessTruncated /\ Search!NearestFirst
    OBVIOUS
<1>1. /\ WalkOk(found.results, queue)
      /\ CapsOk(found.results, found.scanned, found.truncated, queue)
      /\ MaxScanned \in Nat
    BY SearchAssumptions DEF SearchInv
<1>2. queue \in Seq(Folders) /\ found.results \in Seq(EntryPath)
    BY <1>1 DEF WalkOk
<1>3. DOMAIN queue = 1..Len(queue) /\ DOMAIN found.results = 1..Len(found.results)
    BY <1>2
<1>4. Search!TypeOK
    BY <1>1, <1>3 DEF SearchInv, WalkOk, CapsOk, Search!TypeOK
<1>5. Search!CapsHold
  <2>1. \A p \in Search!Results : Len(p) <= MaxDepth + 1
      BY <1>1, <1>3 DEF WalkOk, Search!Results
  <2>2. Len(found.results) <= Search!Scanned
      BY <1>1 DEF CapsOk, Search!Scanned
  <2>3. QED
      BY <1>1, <2>1, <2>2 DEF CapsOk, Search!CapsHold
<1>6. Search!NearestFirst
    BY <1>1, <1>3 DEF WalkOk, Search!NearestFirst
<1>7. Search!CompleteUnlessTruncated
  <2> SUFFICES ASSUME answer = "ok", ~found.truncated, plain, NEW e \in matching \ moved,
                      Len(place[e]) <= MaxDepth + 1
               PROVE  place[e] \in Search!Results
      BY DEF Search!CompleteUnlessTruncated
  <2>1. queue = <<>> /\ e \in Entries \ moved /\ found.truncated = FALSE
      BY <1>1 DEF SearchInv, CapsOk
  <2>2. \A p : ~Waiting(queue, p)
      BY <2>1, EmptySeq DEF Waiting
  <2>3. Has(found.results, place[e])
      BY <2>1, <2>2 DEF SearchInv, Covered
  <2>4. QED
      BY <1>3, <2>3 DEF Has, Search!Results
<1>8. QED
    BY <1>4, <1>5, <1>6, <1>7

-----------------------------------------------------------------------------
(***************************************************************************)
(* The paths (PathBoundary): segments, URLs, and the answers.              *)
(***************************************************************************)

LEMMA ElementsIn ==
    ASSUME NEW S, NEW T, NEW x \in Seq(S), \A i \in 1..Len(x) : x[i] \in T
    PROVE  x \in Seq(T)
<1>1. Len(x) \in Nat /\ x \in [1..Len(x) -> S]
    BY LenProperties
<1>2. x \in [1..Len(x) -> T]
    BY <1>1
<1>3. QED
    BY <1>1, <1>2, SeqDef

\* What stands between two slashes, and the names.  (That "" is a string is
\* not known to the provers.)
Regular == {s \in STRING \union {""} : Path!Segment(s)}
Plain == Regular \ {"", ".", ".."}

LEMMA PathFacts ==
    /\ "" \in Regular /\ Plain \subseteq Regular /\ "//" \notin Regular
    /\ DOMAIN Quoted \ {"//"} \subseteq Plain /\ "//" \in DOMAIN Quoted
    /\ AccountNodes \subseteq Seq(Plain) /\ <<>> \in AccountNodes
    /\ \A x \in AccountNodes : \A i \in 1..Len(x) : x[i] # Quoted["//"]
    /\ Roots \subseteq Seq(Regular) /\ Paths \subseteq Seq(Regular)
    /\ \A n \in DOMAIN Lead : Lead[n] \in Regular
    /\ \A n \in DOMAIN Trail : Trail[n] \in Regular
    /\ \A n \in DOMAIN Cut : Cut[n] \in Seq(Regular)
<1>1. DOMAIN Quoted \ {"//"} \subseteq Plain /\ "//" \in DOMAIN Quoted
    BY ToolsAssumption DEF Path!PathAssumption, Plain, Regular, Path!Segment
<1>2. "" \in Regular /\ Plain \subseteq Regular /\ "//" \notin Regular
  <2>1. "" # "//" /\ \A n \in DOMAIN Quoted : Quoted[n] # ""
      BY ToolsAssumption DEF Path!PathAssumption
  <2>2. Path!Segment("") /\ ~Path!Segment("//")
      BY <2>1, Zenon DEF Path!Segment
  <2>3. Plain \subseteq Regular
      BY DEF Plain
  <2>4. QED
      BY <2>2, <2>3, Zenon DEF Regular
<1>3. /\ AccountNodes \subseteq Seq(Plain) /\ <<>> \in AccountNodes
      /\ \A x \in AccountNodes : \A i \in 1..Len(x) : x[i] # Quoted["//"]
  <2>1. /\ AccountNodes \subseteq Seq(DOMAIN Quoted \ {"//", Quoted["//"]})
        /\ <<>> \in AccountNodes
      BY ToolsAssumption DEF Path!PathAssumption
  <2>2. DOMAIN Quoted \ {"//", Quoted["//"]} \subseteq Plain
      BY <1>1
  <2>3. AccountNodes \subseteq Seq(Plain)
      BY <2>1, <2>2, SeqMonotonic
  <2>4. ASSUME NEW x \in AccountNodes, NEW i \in 1..Len(x) PROVE x[i] # Quoted["//"]
    <3>1. x \in Seq(DOMAIN Quoted \ {"//", Quoted["//"]})
        BY <2>1
    <3>2. x[i] \in DOMAIN Quoted \ {"//", Quoted["//"]}
        BY <3>1, ElementOfSeq
    <3>3. QED
        BY <3>2
  <2>5. QED
      BY <2>1, <2>3, <2>4
<1>4. ASSUME NEW raw \in Roots \union Paths PROVE raw \in Seq(Regular)
  <2>1. raw \in Seq(STRING) /\ \A i \in DOMAIN raw : Path!Segment(raw[i])
      BY ToolsAssumption DEF Path!PathAssumption
  <2>2. DOMAIN raw = 1..Len(raw)
      BY <2>1
  <2>3. \A i \in 1..Len(raw) : raw[i] \in Regular
      BY <2>1, <2>2, ElementOfSeq DEF Regular
  <2>4. QED
      BY <2>1, <2>3, ElementsIn
<1>5. /\ \A n \in DOMAIN Lead : Lead[n] \in Regular
      /\ \A n \in DOMAIN Trail : Trail[n] \in Regular
    BY ToolsAssumption DEF Path!PathAssumption, Regular
<1>6. ASSUME NEW n \in DOMAIN Cut PROVE Cut[n] \in Seq(Regular)
  <2>1. Cut[n] \in Seq(STRING) /\ \A i \in DOMAIN Cut[n] : Path!Segment(Cut[n][i])
      BY ToolsAssumption DEF Path!PathAssumption
  <2>2. DOMAIN Cut[n] = 1..Len(Cut[n])
      BY <2>1
  <2>3. \A i \in 1..Len(Cut[n]) : Cut[n][i] \in Regular
      BY <2>1, <2>2, ElementOfSeq DEF Regular
  <2>4. QED
      BY <2>1, <2>3, ElementsIn
<1>7. QED
    BY <1>1, <1>2, <1>3, <1>4, <1>5, <1>6

LEMMA Unquoted ==
    ASSUME NEW s \in Regular \union {"//"}
    PROVE  Path!unquote(Path!quote(s)) = s
<1>1. CASE s \in DOMAIN Quoted
  <2>1. Path!quote(s) = Quoted[s]
      BY <1>1 DEF Path!quote
  <2>2. \A n \in DOMAIN Quoted : Quoted[n] = Quoted[s] => n = s
      BY <1>1, ToolsAssumption DEF Path!PathAssumption
  <2>3. (CHOOSE n \in DOMAIN Quoted : Quoted[n] = Quoted[s]) = s
      BY <1>1, <2>2
  <2>4. QED
      BY <1>1, <2>1, <2>3 DEF Path!unquote
<1>2. CASE s \notin DOMAIN Quoted
  <2>1. \A n \in DOMAIN Quoted : Quoted[n] # s
      BY <1>2, PathFacts DEF Regular, Path!Segment
  <2>2. QED
      BY <1>2, <2>1 DEF Path!quote, Path!unquote
<1>3. QED
    BY <1>1, <1>2

-----------------------------------------------------------------------------
(* strip() and the replaced backslashes leave segments, and change nothing   *)
(* of a path that survives them.                                             *)

LEMMA StripIs ==
    ASSUME NEW raw \in Seq(Regular)
    PROVE  /\ Path!strip(raw) \in Seq(Regular)
           /\ Path!Survives(raw) => Path!strip(raw) = raw
<1> DEFINE first(i) == IF i = 1 THEN Path!lstrip(raw[i]) ELSE raw[i]
           kept(i) == IF i = Len(raw) THEN Path!rstrip(first(i)) ELSE first(i)
<1>1. Len(raw) \in Nat /\ DOMAIN raw = 1..Len(raw) /\ \A i \in 1..Len(raw) : raw[i] \in Regular
    BY ElementOfSeq, LenProperties
<1>2. PICK s : s = Path!strip(raw)
    OBVIOUS
<1>3. s = [i \in 1..Len(raw) |-> kept(i)]
    BY <1>1, <1>2 DEF Path!strip
<1>4. \A n \in Regular : Path!lstrip(n) \in Regular /\ Path!rstrip(n) \in Regular
    BY PathFacts DEF Path!lstrip, Path!rstrip
<1>5. \A i \in 1..Len(raw) : kept(i) \in Regular
    BY <1>1, <1>4
<1>6. s \in Seq(Regular) /\ Len(s) = Len(raw) /\ \A i \in 1..Len(raw) : s[i] = kept(i)
  <2> HIDE DEF kept
  <2>1. s \in [1..Len(raw) -> Regular]
      BY <1>3, <1>5
  <2>2. QED
      BY <1>1, <1>3, <2>1
<1>7. ASSUME Path!Survives(raw) PROVE s = raw
  <2>1. \A i \in 1..Len(raw) : /\ i = 1 => raw[i] \notin DOMAIN Lead
                               /\ i = Len(raw) => raw[i] \notin DOMAIN Trail
      BY <1>1, <1>7 DEF Path!Survives
  <2>2. \A i \in 1..Len(raw) : kept(i) = raw[i]
      BY <2>1 DEF Path!lstrip, Path!rstrip
  <2> HIDE DEF kept
  <2>3. QED
      BY <1>6, <2>2, SeqEqual
<1>8. QED
    BY <1>2, <1>6, <1>7

LEMMA SlashedIs ==
    ASSUME NEW raw \in Seq(Regular)
    PROVE  /\ Path!Slashed(raw) \in Seq(Regular)
           /\ Path!Survives(raw) => Path!Slashed(raw) = raw
<1> DEFINE n == Len(raw)
           cut == [i \in 1..n |-> IF raw[i] \in DOMAIN Cut THEN Cut[raw[i]] ELSE <<raw[i]>>]
           step == [i \in 1..n |-> [t \in Seq(Regular) |-> t \o cut[i]]]
           E(f) == [i \in 0..n |->
                     IF i = 0 THEN <<>>
                     ELSE f[i - 1] \o (IF raw[i] \in DOMAIN Cut THEN Cut[raw[i]] ELSE <<raw[i]>>)]
           put == CHOOSE f : f = E(f)
<1>1. n \in Nat /\ DOMAIN raw = 1..n /\ \A i \in 1..n : raw[i] \in Regular
    BY ElementOfSeq, LenProperties
<1>2. Path!Slashed(raw) = put[n]
    BY DEF Path!Slashed
<1>3. \A i \in 1..n : cut[i] \in Seq(Regular)
  <2> SUFFICES ASSUME NEW i \in 1..n PROVE cut[i] \in Seq(Regular)
      OBVIOUS
  <2>1. <<raw[i]>> \in Seq(Regular)
      BY <1>1
  <2>2. cut[i] = IF raw[i] \in DOMAIN Cut THEN Cut[raw[i]] ELSE <<raw[i]>>
      OBVIOUS
  <2> HIDE DEF cut
  <2>3. QED
      BY <2>1, <2>2, PathFacts
<1>4. \A i \in 1..n : \A t \in Seq(Regular) : t \o cut[i] \in Seq(Regular)
    BY <1>3, ConcatProperties
<1>5. Steps(step, n, Seq(Regular))
  <2> HIDE DEF cut, n
  <2>1. \A i \in 1..n : [t \in Seq(Regular) |-> t \o cut[i]] \in [Seq(Regular) -> Seq(Regular)]
      BY <1>4
  <2>2. step \in [1..n -> [Seq(Regular) -> Seq(Regular)]]
      BY <2>1
  <2> HIDE DEF step
  <2>3. QED
      BY <1>1, <2>2 DEF Steps
<1>6. PICK f : Iterates(f, step, n, Seq(Regular), <<>>)
  <2> HIDE DEF step, n
  <2>1. <<>> \in Seq(Regular)
      BY EmptySeq
  <2>2. QED
      BY <1>5, <2>1, Iterated
<1>7. /\ f \in [0..n -> Seq(Regular)] /\ f[0] = <<>>
      /\ \A i \in 1..n : f[i] = f[i - 1] \o cut[i]
  <2>1. /\ f \in [0..n -> Seq(Regular)] /\ f[0] = <<>>
        /\ \A i \in 1..n : f[i] = step[i][f[i - 1]]
    <3> HIDE DEF step, n
    <3>1. QED
        BY <1>6 DEF Iterates
  <2>2. ASSUME NEW i \in 1..n PROVE f[i] = f[i - 1] \o cut[i]
    <3> HIDE DEF cut, n
    <3>1. f[i - 1] \in Seq(Regular)
        BY <1>1, <2>1
    <3>2. QED
        BY <2>1, <3>1
  <2>3. QED
      BY <2>1, <2>2
<1>8. f = E(f)
  <2>1. ASSUME NEW i \in 0..n PROVE f[i] = E(f)[i]
    <3>1. CASE i = 0
        BY <1>7, <3>1
    <3>2. CASE i # 0
      <4>1. i \in 1..n
          BY <1>1, <3>2
      <4>2. QED
          BY <1>7, <3>2, <4>1
    <3>3. QED
        BY <3>1, <3>2
  <2>2. QED
      BY <1>7, <2>1
<1>9. put = E(put)
  <2> HIDE DEF E
  <2>1. QED
      BY <1>8
<1> HIDE DEF put
<1>10. put[0] = <<>> /\ \A i \in 1..n : put[i] = put[i - 1] \o cut[i]
  <2>1. \A i \in 0..n : put[i] = E(put)[i]
      BY <1>9
  <2>2. 0 \in 0..n /\ \A i \in 1..n : i \in 0..n /\ i # 0
      BY <1>1
  <2>3. QED
      BY <2>1, <2>2
<1> HIDE DEF E, step
<1>11. Path!Survives(raw) => \A i \in 1..n : cut[i] = <<raw[i]>>
    BY <1>1 DEF Path!Survives
<1> HIDE DEF cut
<1> DEFINE Good(i) == /\ put[i] \in Seq(Regular)
                      /\ Path!Survives(raw) => put[i] = SubSeq(raw, 1, i)
           T == {i \in 0..n : ~Good(i)}
<1>12. ASSUME T # {} PROVE FALSE
  <2>1. T \in SUBSET Nat
    <3> HIDE DEF Good
    <3>1. QED
        BY <1>1
  <2>2. PICK m \in T : \A k \in T : m <= k
    <3> HIDE DEF T
    <3>1. QED
        BY <1>12, <2>1, Smallest
  <2>3. m \in 0..n /\ ~Good(m)
      BY <2>2
  <2>4. CASE m = 0
    <3>1. SubSeq(raw, 1, 0) = <<>> /\ <<>> \in Seq(Regular)
        BY SubSeqEmpty, EmptySeq
    <3>2. QED
        BY <1>10, <2>3, <2>4, <3>1
  <2>5. CASE m # 0
    <3>1. m \in 1..n /\ m - 1 \in 0..n /\ ~(m <= m - 1)
        BY <1>1, <2>3, <2>5
    <3>2. m - 1 \notin T
      <4> HIDE DEF T
      <4>1. QED
          BY <2>2, <3>1
    <3>3. Good(m - 1)
        BY <3>1, <3>2
    <3>4. put[m] = put[m - 1] \o cut[m]
        BY <1>10, <3>1
    <3>5. put[m] \in Seq(Regular)
        BY <1>4, <3>1, <3>3, <3>4
    <3>6. ASSUME Path!Survives(raw) PROVE put[m] = SubSeq(raw, 1, m)
      <4>1. SubSeq(raw, 1, m) = SubSeq(raw, 1, m - 1) \o <<raw[m]>>
        <5> HIDE DEF T, Good
        <5>1. 1 \in 1..Len(raw) /\ m \in 1..Len(raw)
            BY <1>1, <3>1
        <5>2. QED
            BY <5>1, SubSeqRecursiveSecond
      <4>2. QED
          BY <1>11, <3>1, <3>3, <3>4, <3>6, <4>1
    <3>7. QED
        BY <2>3, <3>5, <3>6
  <2>6. QED
      BY <2>4, <2>5
<1>13. n \in 0..n /\ SubSeq(raw, 1, n) = raw
    BY <1>1, SubSeqFull
<1>14. QED
    BY <1>2, <1>12, <1>13

LEMMA CleanedIs ==
    ASSUME NEW raw \in Seq(Regular)
    PROVE  /\ Path!Slashed(Path!strip(raw)) \in Seq(Regular)
           /\ Path!Survives(raw) => Path!Slashed(Path!strip(raw)) = raw
    BY StripIs, SlashedIs

\* The segments of a path, without the empty ones and ".".
LEMMA PartsAre ==
    ASSUME NEW raw \in Seq(Regular)
    PROVE  /\ Path!Parts(raw) \in Seq(Regular \ {"", "."})
           /\ raw \in Seq(Regular \ {"", "."}) => Path!Parts(raw) = raw
<1> DEFINE E(f) == [i \in 0..Len(raw) |->
                     IF i = 0 THEN <<>>
                     ELSE IF raw[i] \in {"", "."} THEN f[i - 1] ELSE Append(f[i - 1], raw[i])]
           kept == CHOOSE f : f = E(f)
           S == Regular \ {"", "."}
<1>1. Path!Parts(raw) = kept[Len(raw)]
    BY DEF Path!Parts
<1>2. Len(raw) \in Nat /\ \A i \in 1..Len(raw) : raw[i] \in Regular
    BY ElementOfSeq
<1>3. PICK g \in [0..Len(raw) -> Seq(Regular)] : Kept(raw, g, Len(raw))
  <2>1. Len(raw) \in 0..Len(raw)
      BY <1>2
  <2>2. QED
      BY <2>1, KeptExists
<1>4. g = E(g)
  <2>1. \A i \in 0..Len(raw) : g[i] = E(g)[i]
      BY <1>3 DEF Kept
  <2>2. QED
      BY <1>3, <2>1
<1>5. kept = E(kept)
  <2> HIDE DEF E
  <2>1. QED
      BY <1>4
<1> HIDE DEF kept
<1>6. ASSUME NEW i \in 0..Len(raw)
      PROVE  kept[i] = IF i = 0 THEN <<>>
                       ELSE IF raw[i] \in {"", "."} THEN kept[i - 1]
                       ELSE Append(kept[i - 1], raw[i])
  <2>1. kept[i] = E(kept)[i]
      BY <1>5
  <2>2. QED
      BY <2>1
<1> DEFINE Good(i) == /\ kept[i] \in Seq(S)
                      /\ raw \in Seq(S) => kept[i] = SubSeq(raw, 1, i)
           T == {i \in 0..Len(raw) : ~Good(i)}
<1> HIDE DEF E
<1>7. ASSUME T # {} PROVE FALSE
  <2>1. T \in SUBSET Nat
    <3> HIDE DEF Good
    <3>1. QED
        BY <1>2
  <2>2. PICK m \in T : \A k \in T : m <= k
    <3> HIDE DEF T
    <3>1. QED
        BY <1>7, <2>1, Smallest
  <2>3. m \in 0..Len(raw) /\ ~Good(m)
      BY <2>2
  <2> HIDE DEF S
  <2>4. CASE m = 0
    <3>1. kept[m] = <<>>
        BY <1>6, <2>3, <2>4
    <3>2. <<>> \in Seq(S)
        BY EmptySeq
    <3>3. SubSeq(raw, 1, 0) = <<>>
      <4>1. raw \in Seq(Regular)
          OBVIOUS
      <4>2. QED
          BY <4>1, SubSeqEmpty
    <3>4. QED
        BY <2>3, <2>4, <3>1, <3>2, <3>3
  <2>5. CASE m # 0
    <3>1. m \in 1..Len(raw) /\ m - 1 \in 0..Len(raw) /\ m - 1 \notin T
      <4>1. m \in 1..Len(raw) /\ m - 1 \in 0..Len(raw) /\ ~(m <= m - 1)
        <5> HIDE DEF T, Good
        <5>1. QED
            BY <1>2, <2>3, <2>5
      <4> HIDE DEF T
      <4>2. QED
          BY <2>2, <4>1
    <3>2. Good(m - 1)
        BY <3>1
    <3>3. raw[m] \in Regular
        BY <1>2, <3>1
    <3>4. kept[m] = IF raw[m] \in {"", "."} THEN kept[m - 1] ELSE Append(kept[m - 1], raw[m])
        BY <1>6, <2>3, <2>5
    <3>5. kept[m] \in Seq(S)
      <4>1. CASE raw[m] \in {"", "."}
          BY <3>2, <3>4, <4>1
      <4>2. CASE raw[m] \notin {"", "."}
        <5>1. raw[m] \in S /\ kept[m - 1] \in Seq(S)
            BY <3>2, <3>3, <4>2 DEF S
        <5>2. PICK t \in Seq(S) : t = kept[m - 1]
            BY <5>1
        <5>3. Append(t, raw[m]) \in Seq(S)
            BY <5>1, <5>2
        <5>4. QED
            BY <3>4, <4>2, <5>2, <5>3
      <4>3. QED
          BY <4>1, <4>2
    <3>6. ASSUME raw \in Seq(S) PROVE kept[m] = SubSeq(raw, 1, m)
      <4>1. raw[m] \notin {"", "."}
        <5>1. raw[m] \in S
            BY <3>1, <3>6, ElementOfSeq
        <5>2. QED
            BY <5>1 DEF S
      <4>2. SubSeq(raw, 1, m) = Append(SubSeq(raw, 1, m - 1), raw[m])
        <5> HIDE DEF T
        <5>1. raw \in Seq(Regular)
            OBVIOUS
        <5>2. QED
            BY <3>1, <5>1, SubSeqRecursiveSecond
      <4>3. QED
          BY <3>2, <3>4, <3>6, <4>1, <4>2
    <3>7. QED
        BY <2>3, <3>5, <3>6
  <2>6. QED
      BY <2>4, <2>5
<1>8. Len(raw) \in 0..Len(raw) /\ SubSeq(raw, 1, Len(raw)) = raw
    BY <1>2, SubSeqFull
<1>9. QED
    BY <1>1, <1>7, <1>8

LEMMA PrefixElements ==
    ASSUME NEW x \in Seq(STRING), NEW y \in Seq(STRING)
    PROVE  Path!IsPrefix(x, y) <=> Len(x) <= Len(y) /\ \A i \in 1..Len(x) : x[i] = y[i]
<1>1. SubSeq(x, 1, Len(x)) = x
    BY SubSeqFull
<1>2. QED
    BY <1>1, UnderElements DEF Path!IsPrefix, File!Under

LEMMA PrefixSays ==
    ASSUME NEW S, NEW x \in Seq(S), NEW y \in Seq(S), Path!IsPrefix(x, y)
    PROVE  Len(x) <= Len(y) /\ \A i \in 1..Len(x) : x[i] = y[i]
    BY DEF Path!IsPrefix

LEMMA PlainStrings ==
    ASSUME NEW x \in Seq(Plain)
    PROVE  x \in Seq(STRING) /\ Len(x) \in Nat
<1>1. Plain \subseteq STRING
    BY DEF Plain, Regular
<1>2. QED
    BY <1>1, SeqMonotonic, LenProperties

-----------------------------------------------------------------------------
(* Roots. *)

\* The roots that settings accept, and how many of their slashes are a part.
Accepted == [slashes : 1..2, parts : Seq(Plain)]
Extra(p) == p.slashes - 1

\* The parts of an accepted path are names.
LEMMA PartsPlain ==
    ASSUME NEW raw \in Seq(Regular), ~Path!Contains(Path!Parts(raw), "..")
    PROVE  Path!Parts(raw) \in Seq(Plain)
<1>1. PICK p : p = Path!Parts(raw)
    OBVIOUS
<1>2. p \in Seq(Regular \ {"", "."}) /\ Len(p) \in Nat
  <2>1. p \in Seq(Regular \ {"", "."})
      BY <1>1, PartsAre
  <2>2. QED
      BY <2>1, LenProperties
<1>3. \A i \in 1..Len(p) : p[i] # ".."
    BY <1>1 DEF Path!Contains
<1>4. ASSUME NEW i \in 1..Len(p) PROVE p[i] \in Plain
  <2>1. p[i] \in Regular \ {"", "."}
      BY <1>2, ElementOfSeq
  <2>2. QED
      BY <1>3, <2>1 DEF Plain
<1>5. QED
    BY <1>1, <1>2, <1>4, ElementsIn

LEMMA SlashesAre ==
    ASSUME NEW raw \in Seq(Regular)
    PROVE  Path!Slashes(raw) \in Nat
<1>1. Len(raw) \in Nat /\ Len(raw) - 1 \in Int
    BY LenProperties
<1>2. IsFiniteSet(1..(Len(raw) - 1))
    BY <1>1, FS_Interval
<1>3. IsFiniteSet({i \in 1..(Len(raw) - 1) : \A j \in 1..i : raw[j] = ""})
    BY <1>2, FS_Subset
<1>4. \A S : Path!Cardinality(S) = Cardinality(S)
    BY DEF Cardinality, Path!Cardinality
<1>5. Path!Slashes(raw) = Cardinality({i \in 1..(Len(raw) - 1) : \A j \in 1..i : raw[j] = ""})
    BY <1>4, Zenon DEF Path!Slashes
<1>6. QED
    BY <1>3, <1>5, FS_CardinalityType

LEMMA AcceptedRoot ==
    ASSUME NEW raw \in Seq(Regular), NEW p \in Path!normalize_root_path(raw)
    PROVE  p \in Accepted
<1>1. PICK clean \in Seq(Regular) : clean = Path!strip(raw)
    BY StripIs
<1>2. p = Path!PurePosixPath(clean) /\ Path!Accepts(p)
    BY <1>1 DEF Path!normalize_root_path
<1>3. PICK k \in Nat : k = Path!Slashes(clean)
    BY SlashesAre
<1>4. p = [slashes |-> IF k > 2 THEN 1 ELSE k, parts |-> Path!Parts(clean)]
    BY <1>2, <1>3 DEF Path!PurePosixPath
<1>5. p.slashes > 0 /\ ~Path!Contains(Path!Parts(clean), "..")
    BY <1>2, <1>4 DEF Path!Accepts
<1>6. Path!Parts(clean) \in Seq(Plain)
    BY <1>5, PartsPlain
<1>7. (IF k > 2 THEN 1 ELSE k) \in 1..2
    BY <1>4, <1>5
<1>8. QED
    BY <1>4, <1>6, <1>7 DEF Accepted

LEMMA ConnectionRoot ==
    ASSUME NEW raw \in Seq(Regular), NEW p \in Path!InConnection(raw)
    PROVE  p \in Accepted
<1>1. PICK q \in Path!normalize_root_path(raw) : p \in Path!normalize_root_path(Path!Written(q))
    BY DEF Path!InConnection
<1>2. q \in Accepted
    BY <1>1, AcceptedRoot
<1>3. Path!Written(q) \in Seq(Regular)
  <2>0. PICK e \in Regular : e = ""
      BY PathFacts
  <2>1. PICK lead : lead = [i \in 1..q.slashes |-> e]
      OBVIOUS
  <2>2. lead \in Seq(Regular)
    <3>1. lead \in [1..q.slashes -> Regular] /\ q.slashes \in Nat
        BY <1>2, <2>1 DEF Accepted
    <3>2. QED
        BY <3>1, SeqDef
  <2>3. q.parts \in Seq(Regular) /\ <<e>> \in Seq(Regular)
    <3>1. q.parts \in Seq(Plain) /\ Plain \subseteq Regular
        BY <1>2, PathFacts DEF Accepted
    <3>2. q.parts \in Seq(Regular)
        BY <3>1, SeqMonotonic
    <3>3. QED
        BY <3>2
  <2>4. PICK rest \in Seq(Regular) : rest = IF q.parts = <<>> THEN <<e>> ELSE q.parts
      BY <2>3
  <2>5. Path!Written(q) = lead \o rest
      BY <2>0, <2>1, <2>4, Zenon DEF Path!Written
  <2>6. QED
      BY <2>2, <2>4, <2>5, ConcatProperties
<1>4. QED
    BY <1>1, <1>3, AcceptedRoot

-----------------------------------------------------------------------------
(* URLs. *)

\* One segment of a URL for the account, one for every part of the root.
LEMMA BaseUrlIs ==
    ASSUME root \in Accepted
    PROVE  /\ Path!base_url \in Seq({Path!quote(s) : s \in Plain \union {User, "//"}})
           /\ Len(Path!base_url) = 1 + Extra(root) + Len(root.parts)
           /\ \A i \in 1..Len(root.parts) :
                Path!base_url[i + 1 + Extra(root)] = Path!quote(root.parts[i])
           /\ root.slashes = 2 => Path!base_url[2] = Path!quote("//")
<1>1. PICK Q : Q = {Path!quote(s) : s \in Plain \union {User, "//"}}
    OBVIOUS
<1>2. PICK parts \in Seq(Plain) : parts = root.parts
    BY DEF Accepted
<1>3. PICK q : q = [i \in DOMAIN parts |-> Path!quote(parts[i])]
    OBVIOUS
<1>4. PICK d : d = Extra(root)
    OBVIOUS
<1>5. d \in 0..1 /\ (root.slashes = 2 <=> d = 1) /\ Len(parts) \in Nat
    BY <1>4, LenProperties DEF Accepted, Extra
<1>6. q \in Seq(Q) /\ Len(q) = Len(parts) /\ \A i \in 1..Len(parts) : q[i] = Path!quote(parts[i])
  <2>1. DOMAIN parts = 1..Len(parts) /\ \A i \in 1..Len(parts) : parts[i] \in Plain
      BY LenProperties, ElementOfSeq
  <2>2. q \in [1..Len(parts) -> Q]
      BY <1>1, <1>3, <2>1
  <2>3. QED
      BY <1>3, <1>5, <2>1, <2>2
<1>7. PICK a : a = <<Path!quote(User)>> \o (IF root.slashes = 2 THEN <<Path!quote("//")>> ELSE <<>>)
    OBVIOUS
<1>8. /\ a \in Seq(Q) /\ Len(a) = 1 + d
      /\ root.slashes = 2 => a[2] = Path!quote("//")
  <2>1. Path!quote(User) \in Q /\ Path!quote("//") \in Q
      BY <1>1
  <2>2. PICK u \in Q : u = Path!quote(User)
      BY <2>1
  <2>3. PICK v \in Q : v = Path!quote("//")
      BY <2>1
  <2>4. CASE root.slashes = 2
    <3>1. a = <<u>> \o <<v>> /\ d = 1
        BY <1>5, <1>7, <2>2, <2>3, <2>4
    <3>2. QED
        BY <2>3, <2>4, <3>1
  <2>5. CASE root.slashes # 2
    <3>1. a = <<u>> \o <<>> /\ d = 0
        BY <1>5, <1>7, <2>2, <2>5
    <3>2. QED
        BY <2>5, <3>1
  <2>6. QED
      BY <2>4, <2>5
<1>9. Path!base_url = a \o q
    BY <1>2, <1>3, <1>7 DEF Path!base_url
<1>10. /\ a \o q \in Seq(Q) /\ Len(a \o q) = Len(a) + Len(q)
       /\ \A i \in 1..Len(a) + Len(q) : (a \o q)[i] = IF i <= Len(a) THEN a[i] ELSE q[i - Len(a)]
  <2>1. a \in Seq(Q) /\ q \in Seq(Q)
      BY <1>6, <1>8
  <2>2. QED
      BY <2>1, ConcatProperties, Zenon
<1>11. PICK b : b = Path!base_url
    OBVIOUS
<1>12. /\ b \in Seq(Q) /\ Len(b) = 1 + d + Len(parts)
       /\ \A i \in 1..1 + d + Len(parts) : b[i] = IF i <= 1 + d THEN a[i] ELSE q[i - (1 + d)]
    BY <1>6, <1>8, <1>9, <1>10, <1>11, Zenon
<1>13. ASSUME NEW i \in 1..Len(parts) PROVE b[i + 1 + d] = Path!quote(parts[i])
  <2>1. PICK k : k = i + 1 + d
      OBVIOUS
  <2>2. k \in 1..1 + d + Len(parts) /\ ~(k <= 1 + d) /\ k - (1 + d) = i
      BY <1>5, <2>1
  <2>3. b[k] = q[i]
      BY <1>12, <2>2
  <2>4. QED
      BY <1>6, <2>1, <2>3
<1>14. root.slashes = 2 => b[2] = Path!quote("//")
  <2>1. root.slashes = 2 => 2 \in 1..1 + d + Len(parts) /\ 2 <= 1 + d
      BY <1>5
  <2>2. QED
      BY <1>8, <1>12, <2>1
<1>15. QED
    BY <1>1, <1>2, <1>4, <1>11, <1>12, <1>13, <1>14

\* The URL of a path below a root leads there.
LEMMA ServedIs ==
    ASSUME NEW parts \in Seq(Plain), NEW path \in Seq(Plain),
           root \in Accepted, root.parts = parts
    PROVE  Path!Served(Path!_url(path)) = parts \o path
<1>1. PICK p : p = parts \o path
    OBVIOUS
<1>2. /\ p \in Seq(Plain) /\ Len(p) = Len(parts) + Len(path)
      /\ Len(p) \in Nat /\ Len(parts) \in Nat /\ Len(path) \in Nat
      /\ \A i \in 1..Len(p) : p[i] = IF i <= Len(parts) THEN parts[i] ELSE path[i - Len(parts)]
    BY <1>1
<1>3. \A i \in 1..Len(p) : p[i] \in Regular /\ p[i] # ".." /\ p[i] # "//"
  <2>1. \A i \in 1..Len(p) : p[i] \in Plain
      BY <1>2, ElementOfSeq
  <2>2. QED
      BY <2>1, PathFacts DEF Plain
<1>4. PICK u : u = Path!_url(path)
    OBVIOUS
<1>0. PICK d \in 0..1 : d = Extra(root) /\ (root.slashes = 2 <=> d = 1)
    BY DEF Accepted, Extra
<1>5. /\ Len(u) = Len(p) + 1 + d /\ DOMAIN u = 1..Len(u)
      /\ \A i \in 1..Len(p) : u[i + 1 + d] = Path!quote(p[i])
      /\ d = 1 => u[2] = Path!quote("//")
  <2>1. PICK Q : Q = {Path!quote(s) : s \in Plain \union {User, "//"}}
      OBVIOUS
  <2>2. PICK r : r = [i \in DOMAIN path |-> Path!quote(path[i])]
      OBVIOUS
  <2>3. r \in Seq(Q) /\ Len(r) = Len(path) /\ \A i \in 1..Len(path) : r[i] = Path!quote(path[i])
    <3>1. DOMAIN path = 1..Len(path) /\ \A i \in 1..Len(path) : path[i] \in Plain
        BY <1>2, ElementOfSeq
    <3>2. r \in [1..Len(path) -> Q]
        BY <2>1, <2>2, <3>1
    <3>3. QED
        BY <1>2, <2>2, <3>1, <3>2
  <2>4. PICK b : b = Path!base_url
      OBVIOUS
  <2>5. /\ b \in Seq(Q) /\ Len(b) = 1 + d + Len(parts)
        /\ \A i \in 1..Len(parts) : b[i + 1 + d] = Path!quote(parts[i])
        /\ d = 1 => b[2] = Path!quote("//")
      BY <1>0, <2>1, <2>4, BaseUrlIs
  <2>6. u = b \o r
      BY <1>4, <2>2, <2>4 DEF Path!_url
  <2>7. /\ u \in Seq(Q) /\ Len(u) = Len(b) + Len(path)
        /\ \A i \in 1..Len(b) + Len(path) : u[i] = IF i <= Len(b) THEN b[i] ELSE r[i - Len(b)]
    <3>1. /\ b \o r \in Seq(Q) /\ Len(b \o r) = Len(b) + Len(r)
          /\ \A i \in 1..Len(b) + Len(r) : (b \o r)[i] = IF i <= Len(b) THEN b[i] ELSE r[i - Len(b)]
      <4>1. b \in Seq(Q) /\ r \in Seq(Q)
          BY <2>3, <2>5
      <4>2. QED
          BY <4>1, ConcatProperties, Zenon
    <3>2. QED
        BY <2>3, <2>6, <3>1, Zenon
  <2>8. ASSUME NEW i \in 1..Len(p) PROVE u[i + 1 + d] = Path!quote(p[i])
    <3>1. PICK k : k = i + 1 + d
        OBVIOUS
    <3>2. CASE i <= Len(parts)
      <4>1. k \in 1..Len(b) + Len(path) /\ k <= Len(b) /\ i \in 1..Len(parts)
          BY <1>2, <2>5, <3>1, <3>2
      <4>2. u[k] = b[k] /\ p[i] = parts[i]
          BY <1>2, <2>7, <3>2, <4>1
      <4>3. QED
          BY <2>5, <3>1, <4>1, <4>2
    <3>3. CASE ~(i <= Len(parts))
      <4>1. PICK j : j = i - Len(parts)
          OBVIOUS
      <4>2. /\ k \in 1..Len(b) + Len(path) /\ ~(k <= Len(b)) /\ j \in 1..Len(path)
            /\ k - Len(b) = j
          BY <1>2, <2>5, <3>1, <3>3, <4>1
      <4>3. u[k] = r[j] /\ p[i] = path[j]
          BY <1>2, <2>7, <3>3, <4>1, <4>2
      <4>4. QED
          BY <2>3, <3>1, <4>2, <4>3
    <3>4. QED
        BY <3>2, <3>3
  <2>9. ASSUME d = 1 PROVE u[2] = Path!quote("//")
    <3>1. 2 \in 1..Len(b) + Len(path) /\ 2 <= Len(b)
        BY <1>2, <2>5, <2>9
    <3>2. QED
        BY <2>5, <2>7, <2>9, <3>1
  <2>10. QED
      BY <1>2, <2>5, <2>7, <2>8, <2>9
<1> DEFINE n == Len(p) + 1 + d
           names == [i \in DOMAIN u |-> Path!unquote(u[i])]
           E(f) == [i \in 1..n |->
                     IF i = 1 THEN <<>>
                     ELSE IF names[i] = "//" THEN f[i - 1]
                     ELSE IF names[i] = ".."
                       THEN (IF f[i - 1] = <<>> THEN <<>> ELSE Path!Front(f[i - 1]))
                     ELSE Append(f[i - 1], names[i])]
           at_ == CHOOSE f : f = E(f)
           reached == [i \in 1..n |-> IF i <= 1 + d THEN <<>> ELSE SubSeq(p, 1, i - 1 - d)]
<1>6. /\ Len(names) = n /\ n \in Nat
      /\ \A i \in 1..Len(p) : names[i + 1 + d] = p[i]
      /\ d = 1 => names[2] = "//"
  <2>1. Len(names) = n /\ n \in Nat
      BY <1>2, <1>5
  <2>2. \A i \in 1..Len(p) : i + 1 + d \in DOMAIN u
      BY <1>2, <1>5
  <2>3. \A i \in 1..Len(p) : names[i + 1 + d] = Path!unquote(Path!quote(p[i]))
      BY <1>5, <2>2
  <2>4. d = 1 => 2 \in DOMAIN u
      BY <1>2, <1>5
  <2>5. d = 1 => names[2] = Path!unquote(Path!quote("//"))
      BY <1>5, <2>4
  <2> HIDE DEF names, n
  <2>6. d = 1 => names[2] = "//"
      BY <2>5, Unquoted
  <2>7. \A i \in 1..Len(p) : names[i + 1 + d] = p[i]
      BY <1>3, <2>3, Unquoted
  <2>8. QED
      BY <2>1, <2>6, <2>7
<1>7. Path!Served(u) = at_[n]
  <2>1. Path!Served(u) =
          (CHOOSE f : f = [i \in 1..Len(names) |->
                     IF i = 1 THEN <<>>
                     ELSE IF names[i] = "//" THEN f[i - 1]
                     ELSE IF names[i] = ".."
                       THEN (IF f[i - 1] = <<>> THEN <<>> ELSE Path!Front(f[i - 1]))
                     ELSE Append(f[i - 1], names[i])])[Len(names)]
      BY DEF Path!Served
  <2> HIDE DEF names, n
  <2>2. QED
      BY <1>6, <2>1
<1> HIDE DEF names
<1>8. ASSUME NEW i \in 1..n, i > 1 + d
      PROVE  /\ i - 1 \in 1..n /\ i # 1 /\ names[i] # "//" /\ names[i] # ".."
             /\ reached[i] = Append(reached[i - 1], names[i])
  <2>1. PICK k : k = i - 1 - d
      OBVIOUS
  <2>2. /\ k \in 1..Len(p) /\ i = k + 1 + d /\ i # 1 /\ i - 1 \in 1..n /\ ~(i <= 1 + d)
        /\ (i - 1 <= 1 + d <=> k = 1) /\ (i - 1) - 1 - d = k - 1
      BY <1>2, <1>8, <2>1
  <2>3. names[i] = p[k]
      BY <1>6, <2>2
  <2>4. SubSeq(p, 1, k) = SubSeq(p, 1, k - 1) \o <<p[k]>>
    <3>1. 1 \in 1..Len(p) /\ k \in 1..Len(p)
        BY <1>2, <2>2
    <3>2. QED
        BY <1>2, <3>1, SubSeqRecursiveSecond
  <2>5. SubSeq(p, 1, k - 1) \in Seq(Plain) /\ p[k] \in Plain
    <3> HIDE DEF reached
    <3>1. k - 1 \in Int /\ 1 \in Int /\ \A j \in 1..k - 1 : j \in 1..Len(p)
        BY <1>2, <2>2
    <3>2. \A j \in 1..k - 1 : p[j] \in Plain
        BY <1>2, <3>1, ElementOfSeq
    <3>3. QED
        BY <1>2, <2>2, <3>1, <3>2, SubSeqProperties, ElementOfSeq
  <2>6. SubSeq(p, 1, k) = Append(SubSeq(p, 1, k - 1), p[k])
      BY <2>4, <2>5, AppendIsConcat
  <2>7. reached[i] = SubSeq(p, 1, k)
      BY <2>1, <2>2
  <2>8. reached[i - 1] = SubSeq(p, 1, k - 1)
    <3>1. CASE k = 1
      <4>1. reached[i - 1] = <<>>
          BY <2>2, <3>1
      <4>2. SubSeq(p, 1, 0) = <<>>
          BY SubSeqEmpty
      <4> HIDE DEF reached
      <4>3. k - 1 = 0
          BY <3>1
      <4>4. QED
          BY <4>1, <4>2, <4>3
    <3>2. CASE k # 1
        BY <2>2, <3>2
    <3>3. QED
        BY <3>1, <3>2
  <2> HIDE DEF reached
  <2>9. QED
      BY <1>3, <2>2, <2>3, <2>6, <2>7, <2>8
<1>9. ASSUME NEW i \in 1..n, i <= 1 + d
      PROVE  /\ reached[i] = <<>>
             /\ i = 1 \/ (i # 1 /\ names[i] = "//" /\ i - 1 \in 1..n /\ i - 1 <= 1 + d)
  <2>1. reached[i] = <<>>
      BY <1>9
  <2> HIDE DEF reached
  <2>2. CASE i = 1
      BY <2>1, <2>2
  <2>3. CASE i # 1
    <3>1. i = 2 /\ d = 1 /\ i - 1 \in 1..n /\ i - 1 <= 1 + d
        BY <1>2, <1>9, <2>3
    <3>2. QED
        BY <1>6, <2>1, <2>3, <3>1
  <2>4. QED
      BY <2>2, <2>3
<1>10. \A i \in 1..n : i <= 1 + d \/ i > 1 + d
    BY <1>6
<1>11. reached = E(reached)
  <2>1. ASSUME NEW i \in 1..n PROVE reached[i] = E(reached)[i]
    <3> HIDE DEF reached
    <3>1. E(reached)[i] = IF i = 1 THEN <<>>
                          ELSE IF names[i] = "//" THEN reached[i - 1]
                          ELSE IF names[i] = ".."
                            THEN (IF reached[i - 1] = <<>> THEN <<>>
                                  ELSE Path!Front(reached[i - 1]))
                          ELSE Append(reached[i - 1], names[i])
        OBVIOUS
    <3> HIDE DEF E
    <3>2. CASE i <= 1 + d
        BY <1>9, <3>1, <3>2
    <3>3. CASE i > 1 + d
        BY <1>8, <3>1, <3>3
    <3>4. QED
        BY <1>10, <3>2, <3>3
  <2>2. QED
      BY <2>1
<1>12. at_ = E(at_)
  <2> HIDE DEF reached, E
  <2>1. QED
      BY <1>11
<1> HIDE DEF at_
<1>13. ASSUME NEW i \in 1..n
       PROVE  at_[i] = IF i = 1 THEN <<>>
                       ELSE IF names[i] = "//" THEN at_[i - 1]
                       ELSE IF names[i] = ".."
                         THEN (IF at_[i - 1] = <<>> THEN <<>> ELSE Path!Front(at_[i - 1]))
                       ELSE Append(at_[i - 1], names[i])
  <2>1. at_[i] = E(at_)[i]
      BY <1>12
  <2>2. QED
      BY <2>1
<1> HIDE DEF E, reached
<1> DEFINE T == {i \in 1..n : at_[i] # reached[i]}
<1>14. ASSUME T # {} PROVE FALSE
  <2>1. T \in SUBSET Nat
      BY <1>2
  <2>2. PICK m \in T : \A k \in T : m <= k
    <3> HIDE DEF T
    <3>1. QED
        BY <1>14, <2>1, Smallest
  <2>3. m \in 1..n /\ at_[m] # reached[m]
      BY <2>2
  <2>4. m - 1 \in 1..n => at_[m - 1] = reached[m - 1]
    <3>1. m - 1 \in 1..n => m - 1 \notin T
      <4>1. ~(m <= m - 1)
          BY <1>6, <2>3
      <4> HIDE DEF T
      <4>2. QED
          BY <2>2, <4>1
    <3>2. QED
        BY <3>1
  <2> HIDE DEF T
  <2>5. CASE m <= 1 + d
    <3>1. CASE m = 1
        BY <1>9, <1>13, <2>3, <2>5, <3>1
    <3>2. CASE m # 1
      <4>1. names[m] = "//" /\ m - 1 \in 1..n /\ m - 1 <= 1 + d /\ reached[m] = <<>>
          BY <1>9, <2>3, <2>5, <3>2
      <4>2. reached[m - 1] = <<>>
          BY <1>9, <4>1
      <4>3. QED
          BY <1>13, <2>3, <2>4, <3>2, <4>1, <4>2
    <3>3. QED
        BY <3>1, <3>2
  <2>6. CASE m > 1 + d
    <3>1. /\ m - 1 \in 1..n /\ m # 1 /\ names[m] # "//" /\ names[m] # ".."
          /\ reached[m] = Append(reached[m - 1], names[m])
        BY <1>8, <2>3, <2>6
    <3>2. at_[m] = Append(at_[m - 1], names[m])
        BY <1>13, <2>3, <3>1
    <3>3. QED
        BY <2>3, <2>4, <3>1, <3>2
  <2>7. QED
      BY <1>10, <2>3, <2>5, <2>6
<1>15. at_[n] = p
  <2>1. n \in 1..n /\ n - 1 - d = Len(p) /\ (n <= 1 + d => Len(p) = 0)
      BY <1>2
  <2>2. SubSeq(p, 1, Len(p)) = p /\ (Len(p) = 0 => p = <<>>)
      BY <1>2, SubSeqFull
  <2>3. reached[n] = p
      BY <2>1, <2>2 DEF reached
  <2>4. QED
      BY <1>14, <2>1, <2>3
<1>16. QED
    BY <1>1, <1>4, <1>7, <1>15

\* What is left of a node's path after the root.
LEMMA EntryIs ==
    ASSUME root \in Accepted, root.slashes = 1, NEW x \in Seq(Plain), Path!IsPrefix(root.parts, x)
    PROVE  Path!Entry(x) \in Seq(Plain) /\ x = root.parts \o Path!Entry(x)
<1>1. PICK parts : parts = root.parts
    OBVIOUS
<1>2. /\ parts \in Seq(Plain) /\ x \in Seq(Plain) /\ parts \in Seq(STRING) /\ x \in Seq(STRING)
      /\ Len(parts) \in Nat /\ Len(x) \in Nat
    BY <1>1, PlainStrings DEF Accepted
<1>3. Len(parts) <= Len(x) /\ \A i \in 1..Len(parts) : parts[i] = x[i]
    BY <1>1, <1>2, PrefixElements
<1>4. Len(Path!base_url) = Len(parts) + 1
    BY <1>1, <1>2, BaseUrlIs DEF Extra
<1>5. PICK w : w = <<User>> \o x
    OBVIOUS
<1>6. Len(w) = Len(x) + 1 /\ \A i \in 1..Len(x) : w[i + 1] = x[i]
  <2>1. PICK a : a = <<User>>
      OBVIOUS
  <2>2. PICK Q : Q = Plain \union {User}
      OBVIOUS
  <2>3. a \in Seq(Q) /\ Len(a) = 1 /\ x \in Seq(Q)
      BY <1>2, <2>1, <2>2
  <2>4. /\ Len(a \o x) = Len(a) + Len(x)
        /\ \A i \in 1..Len(a) + Len(x) : (a \o x)[i] = IF i <= Len(a) THEN a[i] ELSE x[i - Len(a)]
      BY <2>3, ConcatProperties
  <2>5. w = a \o x
      BY <1>5, <2>1
  <2>6. ASSUME NEW i \in 1..Len(x) PROVE w[i + 1] = x[i]
    <3>1. PICK k : k = i + 1
        OBVIOUS
    <3>2. k \in 1..1 + Len(x) /\ ~(k <= 1) /\ k - 1 = i
        BY <1>2, <3>1
    <3>3. QED
        BY <2>3, <2>4, <2>5, <3>1, <3>2
  <2>7. QED
      BY <1>2, <2>3, <2>4, <2>5, <2>6
<1>7. PICK l \in Nat : l = Len(parts)
    BY <1>2
<1>8. PICK n \in Nat : n = Len(x)
    BY <1>2
<1>9. PICK e : e = SubSeq(w, l + 2, n + 1)
    OBVIOUS
<1>10. /\ e \in Seq(Plain) /\ Len(e) = n - l
       /\ \A i \in 1..n - l : e[i] = x[l + i]
  <2>1. l + 2 \in Int /\ n + 1 \in Int /\ l <= n
      BY <1>3, <1>7, <1>8
  <2>2. ASSUME NEW i \in l + 2..n + 1 PROVE w[i] = x[i - 1] /\ w[i] \in Plain
    <3>1. PICK k : k = i - 1
        OBVIOUS
    <3>2. k \in 1..n /\ i = k + 1
        BY <2>1, <3>1
    <3>3. w[i] = x[k]
        BY <1>6, <1>8, <3>2
    <3>4. x[k] \in Plain
        BY <1>2, <1>8, <3>2, ElementOfSeq
    <3>5. QED
        BY <3>1, <3>3, <3>4
  <2>3. /\ e \in Seq(Plain)
        /\ Len(e) = IF l + 2 <= n + 1 THEN (n + 1) - (l + 2) + 1 ELSE 0
        /\ \A i \in 1..(n + 1) - (l + 2) + 1 : e[i] = w[(l + 2) + i - 1]
      BY <1>9, <2>1, <2>2, SubSeqProperties
  <2>4. Len(e) = n - l
      BY <2>1, <2>3
  <2>5. ASSUME NEW i \in 1..n - l PROVE e[i] = x[l + i]
    <3>1. PICK k : k = (l + 2) + i - 1
        OBVIOUS
    <3>2. k \in l + 2..n + 1 /\ k - 1 = l + i /\ i \in 1..(n + 1) - (l + 2) + 1
        BY <2>1, <3>1
    <3>3. QED
        BY <2>2, <2>3, <3>1, <3>2
  <2>6. QED
      BY <2>3, <2>4, <2>5
<1>11. Path!Entry(x) = e
  <2>1. Len(Path!base_url) + 1 = l + 2
      BY <1>4, <1>7
  <2>2. QED
      BY <1>5, <1>8, <1>9, <2>1 DEF Path!Entry
<1>12. x = parts \o e
  <2>1. PICK y : y = parts \o e
      OBVIOUS
  <2>2. /\ y \in Seq(Plain) /\ Len(y) = Len(parts) + Len(e)
        /\ \A i \in 1..Len(parts) + Len(e) :
             y[i] = IF i <= Len(parts) THEN parts[i] ELSE e[i - Len(parts)]
      BY <1>2, <1>10, <2>1, ConcatProperties
  <2>3. Len(y) = n /\ l <= n
      BY <1>3, <1>7, <1>8, <1>10, <2>2
  <2>4. ASSUME NEW i \in 1..n PROVE x[i] = y[i]
    <3>1. CASE i <= l
      <4>1. i \in 1..l
          BY <3>1
      <4>2. x[i] = parts[i]
          BY <1>3, <1>7, <4>1
      <4>3. y[i] = parts[i]
          BY <1>7, <2>2, <2>3, <3>1
      <4>4. QED
          BY <4>2, <4>3
    <3>2. CASE ~(i <= l)
      <4>1. PICK k : k = i - l
          OBVIOUS
      <4>2. k \in 1..n - l /\ l + k = i
          BY <3>2, <4>1
      <4>3. y[i] = e[k]
          BY <1>7, <2>2, <2>3, <3>2, <4>1
      <4>4. QED
          BY <1>10, <4>2, <4>3
    <3>3. QED
        BY <3>1, <3>2
  <2>5. QED
      BY <1>2, <1>8, <2>1, <2>2, <2>3, <2>4, SeqEqual
<1>13. QED
    BY <1>1, <1>10, <1>11, <1>12

\* A root of two slashes is the beginning of no node's path: "//" is quoted in
\* URLs, and no node has the name it is quoted to.
LEMMA NothingBelowBase ==
    ASSUME root \in Accepted, root.slashes = 2, NEW x \in AccountNodes
    PROVE  ~Path!BelowBase(x)
<1>1. PICK b : b = Path!base_url
    OBVIOUS
<1>2. PICK w : w = <<User>> \o x
    OBVIOUS
<1>3. PICK Q : Q = {Path!quote(s) : s \in Plain \union {User, "//"}}
    OBVIOUS
<1>4. b \in Seq(Q) /\ Len(b) \in Nat /\ 2 <= Len(b) /\ b[2] = Quoted["//"]
  <2>1. b \in Seq(Q) /\ Len(b) = 1 + Extra(root) + Len(root.parts) /\ b[2] = Path!quote("//")
      BY <1>1, <1>3, BaseUrlIs
  <2>2. Path!quote("//") = Quoted["//"]
      BY PathFacts DEF Path!quote
  <2>3. Extra(root) = 1 /\ Len(root.parts) \in Nat
      BY LenProperties DEF Extra, Accepted
  <2>4. QED
      BY <2>1, <2>2, <2>3
<1>5. /\ w \in Seq(Plain \union {User}) /\ Len(w) = Len(x) + 1 /\ Len(x) \in Nat
      /\ Len(x) >= 1 => w[2] = x[1]
  <2>1. PICK a : a = <<User>>
      OBVIOUS
  <2>2. a \in Seq(Plain \union {User}) /\ Len(a) = 1 /\ x \in Seq(Plain \union {User})
    <3>1. x \in Seq(Plain)
        BY PathFacts
    <3>2. QED
        BY <2>1, <3>1, SeqMonotonic
  <2>3. /\ a \o x \in Seq(Plain \union {User}) /\ Len(a \o x) = Len(a) + Len(x)
        /\ \A i \in 1..Len(a) + Len(x) : (a \o x)[i] = IF i <= Len(a) THEN a[i] ELSE x[i - Len(a)]
      BY <2>2, ConcatProperties, Zenon
  <2>4. Len(x) \in Nat
      BY <2>2, LenProperties
  <2>5. ASSUME Len(x) >= 1 PROVE w[2] = x[1]
    <3>1. 2 \in 1..Len(a) + Len(x) /\ ~(2 <= Len(a)) /\ 2 - Len(a) = 1
        BY <2>2, <2>4, <2>5
    <3>2. QED
        BY <1>2, <2>1, <2>3, <3>1
  <2>6. w = a \o x
      BY <1>2, <2>1
  <2>7. QED
      BY <2>2, <2>3, <2>4, <2>5, <2>6
<1>6. ASSUME Path!IsPrefix(b, w) PROVE FALSE
  <2>1. PICK S : S = Q \union (Plain \union {User})
      OBVIOUS
  <2>2. b \in Seq(S) /\ w \in Seq(S)
      BY <1>4, <1>5, <2>1, SeqMonotonic
  <2>3. Len(b) <= Len(w) /\ \A i \in 1..Len(b) : b[i] = w[i]
      BY <1>6, <2>2, PrefixSays
  <2>4. Len(x) >= 1 /\ 1 \in 1..Len(x) /\ 2 \in 1..Len(b)
      BY <1>4, <1>5, <2>3
  <2>5. x[1] = Quoted["//"]
      BY <1>4, <1>5, <2>3, <2>4
  <2>6. QED
      BY <2>4, <2>5, PathFacts
<1>7. QED
    BY <1>1, <1>2, <1>6 DEF Path!BelowBase

\* A path that has something in front of it goes on from there.
LEMMA Continued ==
    ASSUME NEW x \in Seq(STRING), NEW y \in Seq(STRING)
    PROVE  x \o y \in Seq(STRING) /\ Path!IsPrefix(x, x \o y)
<1>1. PICK z : z = x \o y
    OBVIOUS
<1>2. /\ z \in Seq(STRING) /\ Len(z) = Len(x) + Len(y) /\ Len(x) \in Nat /\ Len(y) \in Nat
      /\ \A i \in 1..Len(x) + Len(y) : z[i] = IF i <= Len(x) THEN x[i] ELSE y[i - Len(x)]
    BY <1>1, Concat
<1>3. Len(x) <= Len(z) /\ \A i \in 1..Len(x) : x[i] = z[i]
    BY <1>2
<1>4. QED
    BY <1>1, <1>2, <1>3, PrefixElements

LEMMA SameRest ==
    ASSUME NEW x \in Seq(Plain), NEW y \in Seq(Plain), NEW z \in Seq(Plain), x \o y = x \o z
    PROVE  y = z
<1>1. PICK w : w = x \o y
    OBVIOUS
<1>2. /\ Len(x) \in Nat /\ Len(y) \in Nat /\ Len(z) \in Nat
      /\ Len(w) = Len(x) + Len(y) /\ Len(w) = Len(x) + Len(z)
      /\ \A i \in 1..Len(x) + Len(y) : w[i] = IF i <= Len(x) THEN x[i] ELSE y[i - Len(x)]
      /\ \A i \in 1..Len(x) + Len(z) : w[i] = IF i <= Len(x) THEN x[i] ELSE z[i - Len(x)]
  <2>1. Len(x) \in Nat /\ Len(y) \in Nat /\ Len(z) \in Nat
      BY PlainStrings
  <2>2. /\ Len(x \o y) = Len(x) + Len(y)
        /\ \A i \in 1..Len(x) + Len(y) :
             (x \o y)[i] = IF i <= Len(x) THEN x[i] ELSE y[i - Len(x)]
      BY ConcatProperties
  <2>3. /\ Len(x \o z) = Len(x) + Len(z)
        /\ \A i \in 1..Len(x) + Len(z) :
             (x \o z)[i] = IF i <= Len(x) THEN x[i] ELSE z[i - Len(x)]
      BY ConcatProperties
  <2>4. QED
      BY <1>1, <2>1, <2>2, <2>3, Zenon
<1>3. Len(y) = Len(z)
    BY <1>2
<1>4. ASSUME NEW i \in 1..Len(y) PROVE y[i] = z[i]
  <2>1. PICK k : k = Len(x) + i
      OBVIOUS
  <2>2. k \in 1..Len(x) + Len(y) /\ ~(k <= Len(x)) /\ k - Len(x) = i
      BY <1>2, <2>1
  <2>3. QED
      BY <1>2, <1>3, <2>2
<1>5. QED
    BY <1>3, <1>4, SeqEqual

LEMMA PrefixTransitive ==
    ASSUME NEW x \in Seq(STRING), NEW y \in Seq(STRING), NEW z \in Seq(STRING),
           Path!IsPrefix(x, y), Path!IsPrefix(y, z)
    PROVE  Path!IsPrefix(x, z)
    BY PrefixElements

-----------------------------------------------------------------------------
(* The answers. *)

RootOk == root \in Accepted \/ root = Path!Unusable

ListingOk(root_, l) ==
  /\ l # {} => root_ \in Accepted
  /\ \A e \in l : /\ e.node \in AccountNodes /\ e.path \in Seq(Plain)
                  /\ e.node = root_.parts \o e.path

OpenedOk(root_, o) ==
  /\ o \in [asked : AccountNodes, path : Seq(Plain), got : Seq(STRING)]
  /\ o.asked = o.got \/ ~Path!Survives(o.path)
  /\ o # Path!None => Path!IsPrefix(root_.parts, o.got)

PathsInv ==
  /\ RootOk /\ ListingOk(root, listing) /\ OpenedOk(root, opened)
  /\ folder # <<"none">> => folder \in Seq(STRING) /\ Path!IsPrefix(root.parts, folder)
  /\ shared \subseteq AccountNodes
  /\ \A x \in shared : Path!IsPrefix(root.parts \o within, x)

\* Nothing has been answered yet.
LEMMA NothingAnswered ==
    /\ Path!None \in [asked : AccountNodes, path : Seq(Plain), got : Seq(STRING)]
    /\ Path!None.asked = Path!None.got
    BY PathFacts, EmptySeq DEF Path!None

\* What WebDAVClient makes of a path are names.
LEMMA RelativeIs ==
    ASSUME NEW raw \in Seq(Regular), NEW path \in Path!_normalize_relative(raw)
    PROVE  /\ path \in Seq(Plain)
           /\ path = Path!Parts(Path!Slashed(Path!strip(raw)))
<1>1. /\ path = Path!Parts(Path!Slashed(Path!strip(raw)))
      /\ ~Path!Contains(Path!Parts(Path!Slashed(Path!strip(raw))), "..")
    BY DEF Path!_normalize_relative
<1>2. QED
    BY <1>1, CleanedIs, PartsPlain

LEMMA PathsInit ==
    ASSUME Path!Init
    PROVE  PathsInv
<1>1. PICK raw \in Roots : root \in Path!normalize_root_path(raw) \union Path!InConnection(raw)
    BY DEF Path!Init
<1>2. root \in Accepted
    BY <1>1, PathFacts, AcceptedRoot, ConnectionRoot
<1>3. /\ listing = {} /\ folder = <<"none">> /\ shared = {} /\ opened = Path!None
    BY DEF Path!Init
<1>4. QED
    BY <1>2, <1>3, NothingAnswered DEF PathsInv, RootOk, ListingOk, OpenedOk

LEMMA RootKeeps ==
    ASSUME Path!set_nextcloud_root
    PROVE  PathsInv'
<1>1. PICK raw \in Roots :
        /\ root' \in IF Path!InConnection(raw) = {} THEN {Path!Unusable} ELSE Path!InConnection(raw)
        /\ listing' = {} /\ folder' = <<"none">> /\ shared' = {} /\ opened' = Path!None
    BY DEF Path!set_nextcloud_root
<1>2. root' \in Accepted \/ root' = Path!Unusable
    BY <1>1, PathFacts, ConnectionRoot
<1>3. QED
    BY <1>1, <1>2, NothingAnswered DEF PathsInv, RootOk, ListingOk, OpenedOk, Path!IsPrefix

LEMMA ListKeeps ==
    ASSUME PathsInv, Path!list_files
    PROVE  PathsInv'
<1>0. PICK raw \in Paths : \E path \in Path!_normalize_relative(raw) :
        /\ root # Path!Unusable
        /\ folder' = Path!Served(Path!_url(path)) /\ folder' \in AccountNodes
        /\ listing' = {[node |-> x, path |-> Path!Entry(x)] :
                         x \in {y \in {folder'} \union Path!Children(folder') :
                                  Path!BelowBase(y) /\ ~Path!IsSelf(path, Path!Entry(y))}}
        /\ UNCHANGED <<root, shared, within, opened>>
    BY DEF Path!list_files
<1>1. PICK path \in Path!_normalize_relative(raw) :
        /\ root # Path!Unusable
        /\ folder' = Path!Served(Path!_url(path)) /\ folder' \in AccountNodes
        /\ listing' = {[node |-> x, path |-> Path!Entry(x)] :
                         x \in {y \in {folder'} \union Path!Children(folder') :
                                  Path!BelowBase(y) /\ ~Path!IsSelf(path, Path!Entry(y))}}
        /\ UNCHANGED <<root, shared, within, opened>>
    BY <1>0
<1>2. path \in Seq(Plain)
    BY PathFacts, RelativeIs
<1>3. root \in Accepted /\ root.parts \in Seq(Plain) /\ root.slashes \in 1..2
    BY <1>1 DEF PathsInv, RootOk, Accepted
<1>4. folder' = root.parts \o path
    BY <1>1, <1>2, <1>3, ServedIs
<1>5. /\ folder' \in Seq(STRING) /\ folder' \in Seq(Plain)
      /\ Path!IsPrefix(root.parts, folder')
    BY <1>2, <1>3, <1>4, Continued, PlainStrings, ConcatProperties
<1>6. ASSUME root.slashes = 1, NEW e \in listing'
      PROVE  /\ e.node \in AccountNodes /\ e.path \in Seq(Plain)
             /\ e.node = root.parts \o e.path
  <2>1. Path!Entry(folder') = path
    <3>1. /\ Path!Entry(folder') \in Seq(Plain)
          /\ folder' = root.parts \o Path!Entry(folder')
        BY <1>3, <1>5, <1>6, EntryIs
    <3>2. QED
        BY <1>2, <1>3, <1>4, <3>1, SameRest
  <2>2. PICK x \in {folder'} \union Path!Children(folder') :
          /\ e = [node |-> x, path |-> Path!Entry(x)]
          /\ ~Path!IsSelf(path, Path!Entry(x))
      BY <1>1
  <2>3. x # folder'
      BY <2>1, <2>2 DEF Path!IsSelf
  <2>4. x \in AccountNodes /\ Path!IsPrefix(folder', x)
      BY <2>2, <2>3 DEF Path!Children
  <2>5. x \in Seq(Plain)
      BY <2>4, PathFacts
  <2>6. Path!IsPrefix(root.parts, x)
      BY <1>3, <1>5, <2>4, <2>5, PrefixTransitive, PlainStrings
  <2>7. QED
      BY <1>3, <1>6, <2>2, <2>4, <2>5, <2>6, EntryIs
<1>7. ASSUME root.slashes = 2, NEW e \in listing' PROVE FALSE
  <2>1. PICK x \in {folder'} \union Path!Children(folder') : Path!BelowBase(x)
      BY <1>1
  <2>2. x \in AccountNodes
      BY <1>1, <2>1 DEF Path!Children
  <2>3. QED
      BY <1>3, <1>7, <2>1, <2>2, NothingBelowBase
<1>8. ListingOk(root', listing')
  <2>1. root' = root
      BY <1>1
  <2>2. ASSUME NEW e \in listing'
        PROVE  /\ e.node \in AccountNodes /\ e.path \in Seq(Plain)
               /\ e.node = root.parts \o e.path
    <3>1. root.slashes = 1
        BY <1>3, <1>7
    <3>2. QED
        BY <1>6, <3>1
  <2>3. QED
      BY <1>3, <2>1, <2>2 DEF ListingOk
<1>9. QED
    BY <1>1, <1>5, <1>8 DEF PathsInv, RootOk, ListingOk, OpenedOk, Path!IsPrefix

LEMMA InfoKeeps ==
    ASSUME PathsInv, Path!get_file_info
    PROVE  PathsInv'
<1>0. PICK e \in listing : \E path \in Path!_normalize_relative(e.path) :
        /\ opened' = [asked |-> e.node, path |-> e.path, got |-> Path!Served(Path!_url(path))]
        /\ UNCHANGED <<root, listing, folder, shared, within>>
    BY DEF Path!get_file_info
<1>1. PICK path \in Path!_normalize_relative(e.path) :
        /\ opened' = [asked |-> e.node, path |-> e.path, got |-> Path!Served(Path!_url(path))]
        /\ UNCHANGED <<root, listing, folder, shared, within>>
    BY <1>0
<1>2. /\ e.node \in AccountNodes /\ e.path \in Seq(Plain) /\ e.node = root.parts \o e.path
      /\ root \in Accepted /\ root.parts \in Seq(Plain)
    BY DEF PathsInv, ListingOk, Accepted
<1>3. e.path \in Seq(Regular) /\ e.path \in Seq(Regular \ {"", "."})
  <2>1. Plain \subseteq Regular /\ Plain \subseteq Regular \ {"", "."}
      BY DEF Plain
  <2>2. QED
      BY <1>2, <2>1, SeqMonotonic
<1>4. path \in Seq(Plain) /\ path = Path!Parts(Path!Slashed(Path!strip(e.path)))
    BY <1>3, RelativeIs
<1>5. Path!Survives(e.path) => path = e.path
    BY <1>3, <1>4, CleanedIs, PartsAre
<1>6. PICK got : got = Path!Served(Path!_url(path))
    OBVIOUS
<1>7. got = root.parts \o path
    BY <1>2, <1>4, <1>6, ServedIs
<1>8. got \in Seq(STRING) /\ Path!IsPrefix(root.parts, got)
    BY <1>2, <1>4, <1>7, Continued, PlainStrings
<1>9. opened' = [asked |-> e.node, path |-> e.path, got |-> got]
    BY <1>1, <1>6
<1>10. OpenedOk(root', opened')
  <2>1. root' = root
      BY <1>1
  <2>2. e.node = got \/ ~Path!Survives(e.path)
      BY <1>2, <1>5, <1>7
  <2>3. QED
      BY <1>2, <1>8, <1>9, <2>1, <2>2 DEF OpenedOk
<1>11. QED
    BY <1>1, <1>10 DEF PathsInv, RootOk, ListingOk, OpenedOk, Path!IsPrefix, Path!Survives

LEMMA SharesKeep ==
    ASSUME PathsInv, Path!list_nextcloud_shares
    PROVE  PathsInv'
<1>0. PICK raw \in Paths, subfiles \in BOOLEAN :
        \E path \in IF Path!strip(raw) = <<"">> THEN {<<>>} ELSE Path!normalize_relative_path(raw) :
          /\ root # Path!Unusable
          /\ shared' = {x \in AccountNodes : Path!Shown(path, subfiles, x)}
          /\ within' = path
          /\ UNCHANGED <<root, listing, folder, opened>>
    BY Zenon DEF Path!list_nextcloud_shares
<1>1. PICK path :
        /\ shared' = {x \in AccountNodes : Path!Shown(path, subfiles, x)}
        /\ within' = path
        /\ UNCHANGED <<root, listing, folder, opened>>
    BY <1>0
<1>2. shared' \subseteq AccountNodes /\ \A x \in shared' : Path!IsPrefix(root.parts \o path, x)
    BY <1>1 DEF Path!Shown, Path!BelowRoot
<1>3. QED
    BY <1>1, <1>2 DEF PathsInv, RootOk, ListingOk, OpenedOk, Path!IsPrefix, Path!Survives

LEMMA PathsStep ==
    ASSUME PathsInv, Path!Next
    PROVE  PathsInv'
    BY RootKeeps, ListKeeps, InfoKeeps, SharesKeep DEF Path!Next

LEMMA PathsSay == PathsInv =>
    Path!TypeOK /\ Path!NothingOutside /\ Path!EntriesLeadBack /\ Path!SharesInside
<1> SUFFICES ASSUME PathsInv
             PROVE  /\ Path!TypeOK /\ Path!NothingOutside
                    /\ Path!EntriesLeadBack /\ Path!SharesInside
    OBVIOUS
<1>1. /\ root.slashes \in 0..2 /\ root.parts \in Seq(Plain)
      /\ root.parts \in Seq(STRING) /\ Len(root.parts) \in Nat
  <2>1. root.slashes \in 0..2 /\ root.parts \in Seq(Plain)
    <3>1. CASE root \in Accepted
        BY <3>1 DEF Accepted
    <3>2. CASE root = Path!Unusable
      <4>1. root.slashes = 0 /\ root.parts = <<>>
          BY <3>2 DEF Path!Unusable
      <4>2. QED
          BY <4>1, EmptySeq
    <3>3. QED
        BY <3>1, <3>2 DEF PathsInv, RootOk
  <2>2. QED
      BY <2>1, PlainStrings
<1>2. \A e \in listing : e.node \in AccountNodes /\ Path!IsPrefix(root.parts, e.node)
  <2> SUFFICES ASSUME NEW e \in listing
               PROVE  e.node \in AccountNodes /\ Path!IsPrefix(root.parts, e.node)
      OBVIOUS
  <2>1. e.node \in AccountNodes /\ e.path \in Seq(Plain) /\ e.node = root.parts \o e.path
      BY DEF PathsInv, ListingOk
  <2>2. QED
      BY <1>1, <2>1, Continued, PlainStrings
<1>3. ~Path!Contains(root.parts, "..")
  <2>1. \A i \in 1..Len(root.parts) : root.parts[i] \in Plain
      BY <1>1, ElementOfSeq
  <2>2. QED
      BY <2>1 DEF Path!Contains, Plain
<1>4. opened \in [asked : AccountNodes, path : Seq(STRING), got : Seq(STRING)]
  <2>1. opened \in [asked : AccountNodes, path : Seq(Plain), got : Seq(STRING)]
      BY DEF PathsInv, OpenedOk
  <2>2. Seq(Plain) \subseteq Seq(STRING)
      BY PlainStrings
  <2>3. QED
      BY <2>1, <2>2
<1>5. Path!TypeOK
    BY <1>1, <1>2, <1>4 DEF PathsInv, Path!TypeOK
<1>6. Path!NothingOutside
    BY <1>2, <1>3 DEF PathsInv, OpenedOk, Path!NothingOutside
<1>7. QED
    BY <1>5, <1>6 DEF PathsInv, OpenedOk, Path!EntriesLeadBack, Path!SharesInside

-----------------------------------------------------------------------------
(***************************************************************************)
(* The review of an invoice (InvoiceReview): texts, pages, fields.         *)
(***************************************************************************)

Lines == Invoice!Items
Texts == Seq(Lines)

\* y goes on where x ends.
Begins(x, y) == Len(x) <= Len(y) /\ \A i \in 1..Len(x) : x[i] = y[i]

LEMMA TextLen ==
    ASSUME NEW x \in Texts
    PROVE  Len(x) \in Nat /\ \A i \in 1..Len(x) : x[i] \in Lines
    BY LenProperties, ElementOfSeq DEF Texts

LEMMA BeginsIs ==
    ASSUME NEW x \in Texts, NEW y \in Texts
    PROVE  /\ Begins(x, x)
           /\ Invoice!IsPrefix(x, y) <=> Begins(x, y)
<1>1. SubSeq(x, 1, Len(x)) = x
    BY SubSeqFull DEF Texts
<1>2. Begins(x, x)
    BY TextLen DEF Begins
<1>3. ASSUME Len(x) <= Len(y)
      PROVE  SubSeq(y, 1, Len(x)) = x <=> \A i \in 1..Len(x) : x[i] = y[i]
  <2>1. PICK n \in Nat : n = Len(x)
      BY TextLen
  <2>2. \A i \in 1..n : y[i] \in Lines
      BY <1>3, <2>1, TextLen
  <2>3. PICK z : z = SubSeq(y, 1, n)
      OBVIOUS
  <2>4. 1 \in Int /\ n \in Int
      BY <2>1
  <2>5. /\ z \in Seq(Lines) /\ Len(z) = IF 1 <= n THEN n - 1 + 1 ELSE 0
        /\ \A i \in 1..n - 1 + 1 : z[i] = y[1 + i - 1]
      BY <2>2, <2>3, <2>4, SubSeqProperties
  <2>6. Len(z) = n /\ \A i \in 1..n : z[i] = y[i]
      BY <2>1, <2>5
  <2>7. ASSUME \A i \in 1..n : x[i] = y[i] PROVE z = x
      BY <2>1, <2>5, <2>6, <2>7, SeqEqual DEF Texts
  <2>8. QED
      BY <2>1, <2>3, <2>6, <2>7
<1>4. QED
    BY <1>1, <1>2, <1>3 DEF Begins, Invoice!IsPrefix

LEMMA BeginsTransitive ==
    ASSUME NEW x \in Texts, NEW y \in Texts, NEW z \in Texts, Begins(x, y), Begins(y, z)
    PROVE  Begins(x, z)
    BY TextLen DEF Begins

LEMMA BeginsAll ==
    ASSUME NEW x \in Texts, NEW y \in Texts, Begins(x, y), Len(x) = Len(y)
    PROVE  x = y
    BY SeqEqual DEF Begins, Texts

\* One more at the end, and another text at the end.
LEMMA TextAppended ==
    ASSUME NEW x \in Texts, NEW c \in Lines
    PROVE  Append(x, c) \in Texts /\ Begins(x, Append(x, c))
<1>1. PICK t : t = Append(x, c)
    OBVIOUS
<1>2. t \in Seq(Lines) /\ Len(t) = Len(x) + 1 /\ \A i \in 1..Len(x) : t[i] = x[i]
    BY <1>1 DEF Texts
<1>3. QED
    BY <1>1, <1>2, TextLen DEF Begins, Texts

LEMMA TextsJoined ==
    ASSUME NEW x \in Texts, NEW y \in Texts, NEW z \in Texts, Begins(y, z)
    PROVE  x \o y \in Texts /\ Begins(x, x \o y) /\ Begins(x \o y, x \o z)
<1>1. PICK u : u = x \o y
    OBVIOUS
<1>2. PICK v : v = x \o z
    OBVIOUS
<1>3. /\ u \in Texts /\ Len(u) = Len(x) + Len(y)
      /\ \A i \in 1..Len(x) + Len(y) : u[i] = IF i <= Len(x) THEN x[i] ELSE y[i - Len(x)]
    BY <1>1, ConcatProperties DEF Texts
<1>4. /\ v \in Texts /\ Len(v) = Len(x) + Len(z)
      /\ \A i \in 1..Len(x) + Len(z) : v[i] = IF i <= Len(x) THEN x[i] ELSE z[i - Len(x)]
    BY <1>2, ConcatProperties DEF Texts
<1>5. Len(x) \in Nat /\ Len(y) \in Nat /\ Len(z) \in Nat
    BY TextLen
<1>6. Begins(x, u)
  <2>1. Len(x) <= Len(u)
      BY <1>3, <1>5
  <2>2. \A i \in 1..Len(x) : x[i] = u[i]
      BY <1>3, <1>5
  <2>3. QED
      BY <2>1, <2>2 DEF Begins
<1>7. Begins(u, v)
  <2>1. Len(y) <= Len(z) /\ \A i \in 1..Len(y) : y[i] = z[i]
      BY DEF Begins
  <2>2. Len(u) <= Len(v)
      BY <1>3, <1>4, <1>5, <2>1
  <2>3. ASSUME NEW i \in 1..Len(u) PROVE u[i] = v[i]
    <3>1. i \in 1..Len(x) + Len(y) /\ i \in 1..Len(x) + Len(z)
        BY <1>3, <1>5, <2>1
    <3>2. CASE i <= Len(x)
        BY <1>3, <1>4, <3>1, <3>2
    <3>3. CASE ~(i <= Len(x))
      <4>1. i - Len(x) \in 1..Len(y)
          BY <1>5, <3>1, <3>3
      <4>2. QED
          BY <1>3, <1>4, <2>1, <3>1, <3>3, <4>1
    <3>4. QED
        BY <3>2, <3>3
  <2>4. QED
      BY <2>2, <2>3 DEF Begins
<1>8. QED
    BY <1>1, <1>2, <1>3, <1>6, <1>7

\* What grows with every step only grows.
LEMMA OnlyGrows ==
    ASSUME NEW n \in Nat, NEW f \in [0..n -> Texts],
           \A i \in 1..n : Begins(f[i - 1], f[i]),
           NEW k \in 0..n
    PROVE  Begins(f[k], f[n])
<1> DEFINE T == {j \in k..n : ~Begins(f[k], f[j])}
<1>1. ASSUME T # {} PROVE FALSE
  <2>1. T \in SUBSET Nat
      OBVIOUS
  <2>2. PICK m \in T : \A j \in T : m <= j
    <3> HIDE DEF T
    <3>1. QED
        BY <1>1, <2>1, Smallest
  <2>3. m \in k..n /\ ~Begins(f[k], f[m])
      BY <2>2
  <2>4. CASE m = k
      BY <2>3, <2>4, BeginsIs
  <2>5. CASE m # k
    <3>1. m - 1 \in k..n /\ ~(m <= m - 1) /\ m \in 1..n /\ m - 1 \in 0..n /\ m \in 0..n
        BY <2>3, <2>5
    <3>2. m - 1 \notin T
      <4> HIDE DEF T
      <4>1. QED
          BY <2>2, <3>1
    <3>3. Begins(f[k], f[m - 1]) /\ Begins(f[m - 1], f[m])
        BY <3>1, <3>2
    <3>4. f[k] \in Texts /\ f[m - 1] \in Texts /\ f[m] \in Texts
        BY <3>1
    <3>5. QED
        BY <2>3, <3>3, <3>4, BeginsTransitive
  <2>6. QED
      BY <2>4, <2>5
<1>2. QED
    BY <1>1

\* As long as the steps are the same, so is what they lead to.
LEMMA SameSteps ==
    ASSUME NEW S, NEW x, NEW n, NEW step, NEW f, Iterates(f, step, n, S, x),
           NEW m, NEW other, NEW g, Iterates(g, other, m, S, x),
           n \in Nat, m \in Nat, NEW k \in Nat, k <= n, k <= m,
           \A i \in 1..k : step[i] = other[i]
    PROVE  f[k] = g[k]
<1> DEFINE T == {j \in 0..k : f[j] # g[j]}
<1>1. ASSUME T # {} PROVE FALSE
  <2>1. T \in SUBSET Nat
      OBVIOUS
  <2>2. PICK l \in T : \A j \in T : l <= j
    <3> HIDE DEF T
    <3>1. QED
        BY <1>1, <2>1, Smallest
  <2>3. l \in 0..k /\ f[l] # g[l]
      BY <2>2
  <2>4. CASE l = 0
      BY <2>3, <2>4 DEF Iterates
  <2>5. CASE l # 0
    <3>1. l - 1 \in 0..k /\ ~(l <= l - 1) /\ l \in 1..k /\ l \in 1..n /\ l \in 1..m
        BY <2>3, <2>5
    <3>2. l - 1 \notin T
      <4> HIDE DEF T
      <4>1. QED
          BY <2>2, <3>1
    <3>3. f[l - 1] = g[l - 1]
        BY <3>1, <3>2
    <3>4. f[l] = step[l][f[l - 1]] /\ g[l] = other[l][g[l - 1]]
        BY <3>1 DEF Iterates
    <3>5. QED
        BY <2>3, <3>1, <3>3, <3>4
  <2>6. QED
      BY <2>4, <2>5
<1>2. k \in 0..k
    OBVIOUS
<1>3. QED
    BY <1>1, <1>2

\* The NULs are left out one by one.
NulSteps(text) ==
  [i \in 1..Len(text) |->
     [t \in Texts |-> IF text[i] = Invoice!Nul THEN t ELSE Append(t, text[i])]]

LEMMA WithoutNulsIs ==
    ASSUME NEW text \in Texts
    PROVE  \E f : /\ Iterates(f, NulSteps(text), Len(text), Texts, <<>>)
                  /\ \A i \in 1..Len(text) : Begins(f[i - 1], f[i])
                  /\ Invoice!WithoutNuls(text) = f[Len(text)]
<1> DEFINE n == Len(text)
           E(f) == [i \in 0..n |->
                     IF i = 0 THEN <<>>
                     ELSE IF text[i] = Invoice!Nul THEN f[i - 1]
                     ELSE Append(f[i - 1], text[i])]
           kept == CHOOSE f : f = E(f)
<1>1. n \in Nat /\ n \in 0..n /\ \A i \in 1..n : text[i] \in Lines
    BY TextLen
<1>2. Invoice!WithoutNuls(text) = kept[n]
    BY DEF Invoice!WithoutNuls
<1>3. PICK step : step = NulSteps(text)
    OBVIOUS
<1>4. \A i \in 1..n : \A t \in Texts :
        step[i][t] = IF text[i] = Invoice!Nul THEN t ELSE Append(t, text[i])
    BY <1>3 DEF NulSteps
<1>5. \A i \in 1..n : \A t \in Texts : step[i][t] \in Texts /\ Begins(t, step[i][t])
    BY <1>1, <1>4, TextAppended, BeginsIs
<1>6. step \in [1..n -> [Texts -> Texts]]
  <2>1. \A i \in 1..n : step[i] \in [Texts -> Texts]
    <3> SUFFICES ASSUME NEW i \in 1..n PROVE step[i] \in [Texts -> Texts]
        OBVIOUS
    <3>1. step[i] = [t \in Texts |-> IF text[i] = Invoice!Nul THEN t ELSE Append(t, text[i])]
        BY <1>3 DEF NulSteps
    <3>2. \A t \in Texts : step[i][t] \in Texts
        BY <1>5
    <3>3. QED
        BY <3>1, <3>2
  <2>2. QED
      BY <1>3, <2>1 DEF NulSteps
<1>7. <<>> \in Texts
    BY EmptySeq DEF Texts
<1> HIDE DEF n
<1>8. PICK f : Iterates(f, step, n, Texts, <<>>)
  <2>1. Steps(step, n, Texts)
      BY <1>1, <1>6 DEF Steps
  <2>2. QED
      BY <1>7, <2>1, Iterated
<1>9. /\ f \in [0..n -> Texts] /\ f[0] = <<>>
      /\ \A i \in 1..n : f[i] = step[i][f[i - 1]] /\ f[i - 1] \in Texts
    BY <1>1, <1>8 DEF Iterates
<1>10. f = E(f)
  <2>1. ASSUME NEW i \in 0..n PROVE f[i] = E(f)[i]
    <3>1. CASE i = 0
        BY <1>9, <3>1
    <3>2. CASE i # 0
      <4>1. i \in 1..n
          BY <1>1, <3>2
      <4>2. QED
          BY <1>4, <1>9, <3>2, <4>1
    <3>3. QED
        BY <3>1, <3>2
  <2>2. QED
      BY <1>9, <2>1
<1>11. kept = E(kept)
  <2> HIDE DEF E
  <2>1. QED
      BY <1>10
<1> HIDE DEF kept
<1> DEFINE T == {i \in 0..n : kept[i] # f[i]}
<1>12. ASSUME NEW i \in 0..n
       PROVE  kept[i] = IF i = 0 THEN <<>>
                        ELSE IF text[i] = Invoice!Nul THEN kept[i - 1]
                        ELSE Append(kept[i - 1], text[i])
  <2>1. kept[i] = E(kept)[i]
      BY <1>11
  <2>2. QED
      BY <2>1
<1>13. ASSUME NEW i \in 0..n
       PROVE  f[i] = IF i = 0 THEN <<>>
                     ELSE IF text[i] = Invoice!Nul THEN f[i - 1]
                     ELSE Append(f[i - 1], text[i])
  <2>1. f[i] = E(f)[i]
      BY <1>10
  <2>2. QED
      BY <2>1
<1> HIDE DEF E
<1>14. ASSUME T # {} PROVE FALSE
  <2>1. T \in SUBSET Nat
      BY <1>1
  <2>2. PICK m \in T : \A k \in T : m <= k
    <3> HIDE DEF T
    <3>1. QED
        BY <1>14, <2>1, Smallest
  <2>3. m \in 0..n /\ kept[m] # f[m]
      BY <2>2
  <2>4. CASE m = 0
      BY <1>12, <1>13, <2>3, <2>4
  <2>5. CASE m # 0
    <3>1. m - 1 \in 0..n /\ ~(m <= m - 1)
        BY <1>1, <2>3, <2>5
    <3>2. m - 1 \notin T
      <4> HIDE DEF T
      <4>1. QED
          BY <2>2, <3>1
    <3>3. kept[m - 1] = f[m - 1]
        BY <3>1, <3>2
    <3>4. QED
        BY <1>12, <1>13, <2>3, <2>5, <3>3
  <2>6. QED
      BY <2>4, <2>5
<1>15. kept[n] = f[n]
    BY <1>1, <1>14
<1>16. \A i \in 1..n : Begins(f[i - 1], f[i])
    BY <1>5, <1>9
<1>17. QED
    BY <1>2, <1>3, <1>8, <1>15, <1>16 DEF n

LEMMA WithoutNulsOf ==
    ASSUME NEW x \in Texts, NEW y \in Texts, Begins(x, y)
    PROVE  /\ Invoice!WithoutNuls(x) \in Texts /\ Invoice!WithoutNuls(y) \in Texts
           /\ Begins(Invoice!WithoutNuls(x), Invoice!WithoutNuls(y))
<1>1. PICK f : /\ Iterates(f, NulSteps(x), Len(x), Texts, <<>>)
               /\ Invoice!WithoutNuls(x) = f[Len(x)]
    BY WithoutNulsIs
<1>2. PICK g : /\ Iterates(g, NulSteps(y), Len(y), Texts, <<>>)
               /\ \A i \in 1..Len(y) : Begins(g[i - 1], g[i])
               /\ Invoice!WithoutNuls(y) = g[Len(y)]
    BY WithoutNulsIs
<1>3. Len(x) \in Nat /\ Len(y) \in Nat /\ Len(x) <= Len(y) /\ \A i \in 1..Len(x) : x[i] = y[i]
    BY TextLen DEF Begins
<1>4. \A i \in 1..Len(x) : NulSteps(x)[i] = NulSteps(y)[i]
  <2>1. \A i \in 1..Len(x) : i \in 1..Len(y)
      BY <1>3
  <2>2. QED
      BY <1>3, <2>1 DEF NulSteps
<1>5. f[Len(x)] = g[Len(x)]
    BY <1>1, <1>2, <1>3, <1>4, SameSteps
<1>6. g \in [0..Len(y) -> Texts] /\ Len(x) \in 0..Len(y) /\ Len(y) \in 0..Len(y)
    BY <1>2, <1>3 DEF Iterates
<1>7. Begins(g[Len(x)], g[Len(y)])
    BY <1>2, <1>3, <1>6, OnlyGrows
<1>8. QED
    BY <1>1, <1>2, <1>5, <1>6, <1>7

\* The pages are put together one by one.
JoinSteps(parts) ==
  [i \in 1..Len(parts) |->
     [t \in Texts |-> IF i = 1 THEN parts[i] ELSE t \o <<Invoice!Break>> \o parts[i]]]

LEMMA BreakIs == Invoice!Break \in Lines /\ <<Invoice!Break>> \in Texts /\ <<>> \in Texts
<1>1. Invoice!Break \in Lines
  <2>1. Invoice!Break = [is |-> "break", value |-> {}, currency |-> {}]
      BY DEF Invoice!Break, Invoice!Item
  <2>2. "break" \in Invoice!ItemKinds
      BY DEF Invoice!ItemKinds
  <2>3. {} \in SUBSET Int
      OBVIOUS
  <2>4. {} \in SUBSET STRING
      OBVIOUS
  <2>5. QED
      BY <2>1, <2>2, <2>3, <2>4, Zenon DEF Lines, Invoice!Items
<1>2. QED
    BY <1>1 DEF Texts

LEMMA PartAdded ==
    ASSUME NEW t \in Texts, NEW x \in Texts, NEW y \in Texts, Begins(x, y)
    PROVE  /\ t \o <<Invoice!Break>> \o x \in Texts
           /\ Begins(t, t \o <<Invoice!Break>> \o x)
           /\ Begins(t \o <<Invoice!Break>> \o x, t \o <<Invoice!Break>> \o y)
<1>1. PICK u : u = t \o <<Invoice!Break>>
    OBVIOUS
<1>2. u \in Texts /\ Begins(t, u)
  <2>1. Begins(<<Invoice!Break>>, <<Invoice!Break>>)
      BY BreakIs, BeginsIs
  <2>2. QED
      BY <1>1, <2>1, BreakIs, TextsJoined
<1>3. u \o x \in Texts /\ Begins(u, u \o x) /\ Begins(u \o x, u \o y)
    BY <1>2, TextsJoined
<1>4. QED
    BY <1>1, <1>2, <1>3, BeginsTransitive

LEMMA JoinedIs ==
    ASSUME NEW parts \in Seq(Texts)
    PROVE  \E f : /\ Iterates(f, JoinSteps(parts), Len(parts), Texts, <<>>)
                  /\ \A i \in 1..Len(parts) : Begins(f[i - 1], f[i])
                  /\ Invoice!Joined(parts) = f[Len(parts)]
<1> DEFINE n == Len(parts)
           E(f) == [i \in 0..n |->
                     IF i = 0 THEN <<>>
                     ELSE IF i = 1 THEN parts[i]
                     ELSE f[i - 1] \o <<Invoice!Break>> \o parts[i]]
           upTo == CHOOSE f : f = E(f)
<1>1. n \in Nat /\ n \in 0..n /\ \A i \in 1..n : parts[i] \in Texts
    BY LenProperties, ElementOfSeq
<1>2. Invoice!Joined(parts) = upTo[n]
    BY DEF Invoice!Joined
<1>3. PICK step : step = JoinSteps(parts)
    OBVIOUS
<1>4. \A i \in 1..n : \A t \in Texts :
        step[i][t] = IF i = 1 THEN parts[i] ELSE t \o <<Invoice!Break>> \o parts[i]
    BY <1>3 DEF JoinSteps
<1>5. \A i \in 1..n : \A t \in Texts : step[i][t] \in Texts /\ (i # 1 => Begins(t, step[i][t]))
    BY <1>1, <1>4, PartAdded, BeginsIs
<1>6. step \in [1..n -> [Texts -> Texts]]
  <2>1. \A i \in 1..n : step[i] \in [Texts -> Texts]
    <3> SUFFICES ASSUME NEW i \in 1..n PROVE step[i] \in [Texts -> Texts]
        OBVIOUS
    <3>1. step[i] = [t \in Texts |-> IF i = 1 THEN parts[i] ELSE t \o <<Invoice!Break>> \o parts[i]]
        BY <1>3 DEF JoinSteps
    <3>2. \A t \in Texts : step[i][t] \in Texts
        BY <1>5
    <3>3. QED
        BY <3>1, <3>2
  <2>2. QED
      BY <1>3, <2>1 DEF JoinSteps
<1> HIDE DEF n
<1>7. PICK f : Iterates(f, step, n, Texts, <<>>)
  <2>1. Steps(step, n, Texts)
      BY <1>1, <1>6 DEF Steps
  <2>2. QED
      BY <2>1, BreakIs, Iterated
<1>8. /\ f \in [0..n -> Texts] /\ f[0] = <<>>
      /\ \A i \in 1..n : f[i] = step[i][f[i - 1]] /\ f[i - 1] \in Texts
    BY <1>1, <1>7 DEF Iterates
<1>9. f = E(f)
  <2>1. ASSUME NEW i \in 0..n PROVE f[i] = E(f)[i]
    <3>1. CASE i = 0
        BY <1>8, <3>1
    <3>2. CASE i # 0
      <4>1. i \in 1..n
          BY <1>1, <3>2
      <4>2. QED
          BY <1>4, <1>8, <3>2, <4>1
    <3>3. QED
        BY <3>1, <3>2
  <2>2. QED
      BY <1>8, <2>1
<1>10. upTo = E(upTo)
  <2> HIDE DEF E
  <2>1. QED
      BY <1>9
<1> HIDE DEF upTo
<1> DEFINE T == {i \in 0..n : upTo[i] # f[i]}
<1>11. ASSUME NEW i \in 0..n
       PROVE  upTo[i] = IF i = 0 THEN <<>>
                        ELSE IF i = 1 THEN parts[i]
                        ELSE upTo[i - 1] \o <<Invoice!Break>> \o parts[i]
  <2>1. upTo[i] = E(upTo)[i]
      BY <1>10
  <2>2. QED
      BY <2>1
<1>12. ASSUME NEW i \in 0..n
       PROVE  f[i] = IF i = 0 THEN <<>>
                     ELSE IF i = 1 THEN parts[i]
                     ELSE f[i - 1] \o <<Invoice!Break>> \o parts[i]
  <2>1. f[i] = E(f)[i]
      BY <1>9
  <2>2. QED
      BY <2>1
<1> HIDE DEF E
<1>13. ASSUME T # {} PROVE FALSE
  <2>1. T \in SUBSET Nat
      BY <1>1
  <2>2. PICK m \in T : \A k \in T : m <= k
    <3> HIDE DEF T
    <3>1. QED
        BY <1>13, <2>1, Smallest
  <2>3. m \in 0..n /\ upTo[m] # f[m]
      BY <2>2
  <2>4. CASE m = 0
      BY <1>11, <1>12, <2>3, <2>4
  <2>5. CASE m # 0
    <3>1. m - 1 \in 0..n /\ ~(m <= m - 1)
        BY <1>1, <2>3, <2>5
    <3>2. m - 1 \notin T
      <4> HIDE DEF T
      <4>1. QED
          BY <2>2, <3>1
    <3>3. upTo[m - 1] = f[m - 1]
        BY <3>1, <3>2
    <3>4. QED
        BY <1>11, <1>12, <2>3, <2>5, <3>3
  <2>6. QED
      BY <2>4, <2>5
<1>14. upTo[n] = f[n]
    BY <1>1, <1>13
<1>15. ASSUME NEW i \in 1..n PROVE Begins(f[i - 1], f[i])
  <2>1. CASE i = 1
    <3>1. f[i - 1] = <<>> /\ Len(f[i - 1]) = 0 /\ f[i] \in Texts
        BY <1>1, <1>8, <2>1, EmptySeq
    <3>2. Len(f[i]) \in Nat /\ 1..0 = {}
        BY <3>1, TextLen
    <3>3. QED
        BY <3>1, <3>2 DEF Begins
  <2>2. CASE i # 1
      BY <1>5, <1>8, <2>2
  <2>3. QED
      BY <2>1, <2>2
<1>16. QED
    BY <1>2, <1>3, <1>7, <1>14, <1>15 DEF n

\* parts is what is kept of the pages: the last one may be cut.
CutOff(parts, pages) ==
  /\ parts \in Seq(Texts) /\ Len(parts) <= Len(pages)
  /\ \A i \in 1..Len(parts) : IF i < Len(parts) THEN parts[i] = pages[i] ELSE Begins(parts[i], pages[i])

LEMMA JoinedOf ==
    ASSUME NEW pages \in Seq(Texts), NEW parts, CutOff(parts, pages)
    PROVE  /\ Invoice!Joined(parts) \in Texts /\ Invoice!Joined(pages) \in Texts
           /\ Begins(Invoice!Joined(parts), Invoice!Joined(pages))
<1>1. PICK n : n = Len(parts)
    OBVIOUS
<1>2. PICK m : m = Len(pages)
    OBVIOUS
<1>3. /\ n \in Nat /\ m \in Nat /\ n <= m /\ parts \in Seq(Texts)
      /\ \A i \in 1..n : IF i < n THEN parts[i] = pages[i] ELSE Begins(parts[i], pages[i])
      /\ \A i \in 1..n : parts[i] \in Texts
      /\ \A i \in 1..m : pages[i] \in Texts
    BY <1>1, <1>2, LenProperties, ElementOfSeq DEF CutOff
<1>4. PICK f : Iterates(f, JoinSteps(parts), n, Texts, <<>>) /\ Invoice!Joined(parts) = f[n]
    BY <1>1, <1>3, JoinedIs
<1>5. PICK g : /\ Iterates(g, JoinSteps(pages), m, Texts, <<>>)
               /\ \A i \in 1..m : Begins(g[i - 1], g[i])
               /\ Invoice!Joined(pages) = g[m]
    BY <1>2, JoinedIs
<1>6. /\ f \in [0..n -> Texts] /\ f[0] = <<>> /\ g \in [0..m -> Texts] /\ g[0] = <<>>
      /\ \A i \in 1..n : f[i] = JoinSteps(parts)[i][f[i - 1]]
      /\ \A i \in 1..m : g[i] = JoinSteps(pages)[i][g[i - 1]]
    BY <1>4, <1>5 DEF Iterates
<1>7. n \in 0..m /\ m \in 0..m /\ n \in 0..n
    BY <1>3
<1>8. Begins(g[n], g[m])
    BY <1>3, <1>5, <1>6, <1>7, OnlyGrows
<1>9. Begins(f[n], g[n])
  <2>1. CASE n = 0
      BY <1>6, <2>1, BreakIs, BeginsIs
  <2>2. CASE n # 0
    <3>1. n - 1 \in Nat /\ n - 1 <= n /\ n - 1 <= m /\ n \in 1..n /\ n \in 1..m
          /\ n - 1 \in 0..n /\ n - 1 \in 0..m
        BY <1>3, <2>2
    <3>2. \A i \in 1..n - 1 : JoinSteps(parts)[i] = JoinSteps(pages)[i]
      <4>1. \A i \in 1..n - 1 : i \in 1..n /\ i \in 1..m /\ parts[i] = pages[i]
          BY <1>3, <3>1
      <4>2. QED
          BY <1>1, <1>2, <4>1 DEF JoinSteps
    <3>3. f[n - 1] = g[n - 1]
        BY <1>3, <1>4, <1>5, <3>1, <3>2, SameSteps
    <3>4. Begins(parts[n], pages[n]) /\ parts[n] \in Texts /\ pages[n] \in Texts
          /\ g[n - 1] \in Texts
        BY <1>3, <1>6, <3>1
    <3>5. /\ f[n] = IF n = 1 THEN parts[n] ELSE g[n - 1] \o <<Invoice!Break>> \o parts[n]
          /\ g[n] = IF n = 1 THEN pages[n] ELSE g[n - 1] \o <<Invoice!Break>> \o pages[n]
      <4>1. PICK t \in Texts : t = g[n - 1]
          BY <3>4
      <4>2. f[n] = JoinSteps(parts)[n][t] /\ g[n] = JoinSteps(pages)[n][t]
          BY <1>6, <3>1, <3>3, <4>1
      <4>3. JoinSteps(parts)[n][t] = IF n = 1 THEN parts[n] ELSE t \o <<Invoice!Break>> \o parts[n]
          BY <1>1, <3>1 DEF JoinSteps
      <4>4. JoinSteps(pages)[n][t] = IF n = 1 THEN pages[n] ELSE t \o <<Invoice!Break>> \o pages[n]
          BY <1>2, <3>1 DEF JoinSteps
      <4>5. QED
          BY <4>1, <4>2, <4>3, <4>4, Zenon
    <3>6. QED
        BY <3>4, <3>5, PartAdded
  <2>3. QED
      BY <2>1, <2>2
<1>10. QED
    BY <1>4, <1>5, <1>6, <1>7, <1>8, <1>9, BeginsTransitive

\* What the loop over the pages has after i of them.
Takings == [parts : Seq(Texts), left : Int, cut : BOOLEAN]

Taken(got, i, pages) ==
  /\ got \in Takings
  /\ Len(got.parts) <= i
  /\ \A k \in 1..Len(got.parts) :
       IF k < Len(got.parts) THEN got.parts[k] = pages[k] ELSE Begins(got.parts[k], pages[k])
  /\ got.cut = FALSE => Len(got.parts) = i /\ \A k \in 1..i : got.parts[k] = pages[k]

\* Another part.
LEMMA PartTaken ==
    ASSUME NEW parts \in Seq(Texts), NEW t \in Texts
    PROVE  /\ Append(parts, t) \in Seq(Texts) /\ Len(Append(parts, t)) = Len(parts) + 1
           /\ Len(parts) \in Nat /\ Append(parts, t)[Len(parts) + 1] = t
           /\ \A k \in 1..Len(parts) : Append(parts, t)[k] = parts[k]
    BY AppendProperties, LenProperties

LEMMA PageCut ==
    ASSUME NEW page \in Texts, NEW left \in Int, Len(page) > left
    PROVE  SubSeq(page, 1, left) \in Texts /\ Begins(SubSeq(page, 1, left), page)
<1>1. PICK t : t = SubSeq(page, 1, left)
    OBVIOUS
<1>2. Len(page) \in Nat /\ 1 \in Int /\ \A i \in 1..left : page[i] \in Lines
    BY TextLen
<1>3. /\ t \in Seq(Lines) /\ Len(t) = IF 1 <= left THEN left - 1 + 1 ELSE 0
      /\ \A i \in 1..left - 1 + 1 : t[i] = page[1 + i - 1]
    BY <1>1, <1>2, SubSeqProperties
<1>4. Len(t) <= Len(page) /\ \A i \in 1..Len(t) : t[i] = page[i]
    BY <1>2, <1>3
<1>5. QED
    BY <1>1, <1>3, <1>4 DEF Texts, Begins

LEMMA PageTaken ==
    ASSUME NEW got \in Takings, NEW page \in Texts
    PROVE  /\ Invoice!TakePage(got, page) \in Takings
           /\ got.cut => Invoice!TakePage(got, page) = got
           /\ ~got.cut => \E t \in Texts :
                /\ Begins(t, page)
                /\ Invoice!TakePage(got, page).parts = Append(got.parts, t)
                /\ Invoice!TakePage(got, page).cut = FALSE => t = page
<1>1. got.parts \in Seq(Texts) /\ got.left \in Int /\ got.cut \in BOOLEAN /\ Len(page) \in Nat
    BY TextLen DEF Takings
<1>2. PICK new : new = Invoice!TakePage(got, page)
    OBVIOUS
<1>3. CASE got.cut
    BY <1>3 DEF Invoice!TakePage
<1>4. CASE ~got.cut /\ Len(page) > got.left
  <2>1. PICK t : t = SubSeq(page, 1, got.left)
      OBVIOUS
  <2>2. t \in Texts /\ Begins(t, page)
      BY <1>1, <1>4, <2>1, PageCut
  <2>3. new = [got EXCEPT !.parts = Append(@, t), !.cut = TRUE]
      BY <1>2, <1>4, <2>1 DEF Invoice!TakePage
  <2>4. PICK p : p = Append(got.parts, t)
      OBVIOUS
  <2>5. p \in Seq(Texts)
      BY <1>1, <2>2, <2>4, PartTaken
  <2>6. new \in Takings /\ new.parts = p /\ new.cut = TRUE
      BY <1>1, <2>3, <2>4, <2>5 DEF Takings
  <2>7. QED
      BY <1>2, <1>4, <2>2, <2>4, <2>6
<1>5. CASE ~got.cut /\ ~(Len(page) > got.left)
  <2>1. PICK p : p = Append(got.parts, page)
      OBVIOUS
  <2>2. p \in Seq(Texts)
      BY <1>1, <2>1, PartTaken
  <2>3. PICK l : l = got.left - Len(page) - 1
      OBVIOUS
  <2>4. new = [parts |-> p, left |-> l, cut |-> l <= 0]
      BY <1>2, <1>5, <2>1, <2>3 DEF Invoice!TakePage
  <2>5. l \in Int /\ (l <= 0) \in BOOLEAN
      BY <1>1, <2>3
  <2>6. new \in Takings /\ new.parts = p
      BY <2>2, <2>4, <2>5 DEF Takings
  <2>7. Begins(page, page)
      BY BeginsIs
  <2>8. QED
      BY <1>2, <1>5, <2>1, <2>6, <2>7
<1>6. QED
    BY <1>1, <1>3, <1>4, <1>5

LEMMA TakingsStep ==
    ASSUME NEW pages \in Seq(Texts), NEW i \in 1..Len(pages), NEW got, Taken(got, i - 1, pages)
    PROVE  Taken(Invoice!TakePage(got, pages[i]), i, pages)
<1>1. pages[i] \in Texts /\ i \in Nat /\ i - 1 \in Nat
    BY LenProperties, ElementOfSeq
<1>2. PICK new : new = Invoice!TakePage(got, pages[i])
    OBVIOUS
<1>3. /\ got \in Takings /\ got.cut \in BOOLEAN /\ got.parts \in Seq(Texts)
      /\ Len(got.parts) \in Nat /\ Len(got.parts) <= i - 1
    BY LenProperties DEF Taken, Takings
<1>4. new \in Takings /\ new.cut \in BOOLEAN
    BY <1>1, <1>2, <1>3, PageTaken DEF Takings
<1>5. CASE got.cut = TRUE
  <2>1. new = got
      BY <1>1, <1>2, <1>3, <1>5, PageTaken
  <2>2. Len(got.parts) <= i
      BY <1>1, <1>3
  <2>3. QED
      BY <1>2, <1>5, <2>1, <2>2 DEF Taken
<1>6. CASE got.cut = FALSE
  <2>1. PICK t \in Texts : /\ Begins(t, pages[i]) /\ new.parts = Append(got.parts, t)
                           /\ new.cut = FALSE => t = pages[i]
      BY <1>1, <1>2, <1>3, <1>6, PageTaken
  <2>2. Len(got.parts) = i - 1 /\ \A k \in 1..i - 1 : got.parts[k] = pages[k]
      BY <1>6 DEF Taken
  <2>3. PICK p : p = new.parts
      OBVIOUS
  <2>4. Len(p) = i /\ p[i] = t /\ \A k \in 1..i - 1 : p[k] = pages[k]
    <3>1. /\ Len(p) = Len(got.parts) + 1 /\ p[Len(got.parts) + 1] = t
          /\ \A k \in 1..Len(got.parts) : p[k] = got.parts[k]
        BY <1>3, <2>1, <2>3, PartTaken
    <3>2. Len(got.parts) + 1 = i
        BY <1>1, <2>2
    <3>3. QED
        BY <2>2, <3>1, <3>2
  <2>5. \A k \in 1..Len(p) : IF k < Len(p) THEN p[k] = pages[k] ELSE Begins(p[k], pages[k])
    <3> SUFFICES ASSUME NEW k \in 1..i
                 PROVE  IF k < i THEN p[k] = pages[k] ELSE Begins(p[k], pages[k])
        BY <2>4
    <3>1. CASE k < i
      <4>1. k \in 1..i - 1
          BY <1>1, <3>1
      <4>2. QED
          BY <2>4, <3>1, <4>1
    <3>2. CASE ~(k < i)
      <4>1. k = i
          BY <1>1, <3>2
      <4>2. QED
          BY <2>1, <2>4, <3>2, <4>1
    <3>3. QED
        BY <3>1, <3>2
  <2>6. new.cut = FALSE => \A k \in 1..i : p[k] = pages[k]
    <3> SUFFICES ASSUME new.cut = FALSE, NEW k \in 1..i PROVE p[k] = pages[k]
        OBVIOUS
    <3>1. k = i \/ k \in 1..i - 1
        BY <1>1
    <3>2. QED
        BY <2>1, <2>4, <3>1
  <2>7. Len(p) <= i
      BY <1>1, <2>4
  <2>8. QED
      BY <1>2, <1>4, <2>3, <2>4, <2>5, <2>6, <2>7 DEF Taken
<1>7. QED
    BY <1>3, <1>5, <1>6

\* The pages are taken one by one.
PageSteps(pages) ==
  [i \in 1..Len(pages) |-> [got \in Takings |-> Invoice!TakePage(got, pages[i])]]

LEMMA TakePagesIs ==
    ASSUME NEW pages \in Seq(Texts), MaxCharacters \in Int
    PROVE  Taken(Invoice!TakePages(pages), Len(pages), pages)
<1> DEFINE n == Len(pages)
           none == [parts |-> <<>>, left |-> MaxCharacters, cut |-> FALSE]
           E(f) == [i \in 0..n |->
                     IF i = 0 THEN [parts |-> <<>>, left |-> MaxCharacters, cut |-> FALSE]
                     ELSE Invoice!TakePage(f[i - 1], pages[i])]
           after == CHOOSE f : f = E(f)
<1>1. n \in Nat /\ n \in 0..n /\ \A i \in 1..n : pages[i] \in Texts
    BY LenProperties, ElementOfSeq
<1>2. Invoice!TakePages(pages) = after[n]
    BY DEF Invoice!TakePages
<1>3. none \in Takings /\ none.parts = <<>>
    BY EmptySeq DEF Takings
<1>4. PICK step : step = PageSteps(pages)
    OBVIOUS
<1>5. \A i \in 1..n : \A t \in Takings : step[i][t] = Invoice!TakePage(t, pages[i])
    BY <1>4 DEF PageSteps
<1>6. \A i \in 1..n : \A t \in Takings : step[i][t] \in Takings
    BY <1>1, <1>5, PageTaken
<1>7. step \in [1..n -> [Takings -> Takings]]
  <2>1. \A i \in 1..n : step[i] \in [Takings -> Takings]
    <3> SUFFICES ASSUME NEW i \in 1..n PROVE step[i] \in [Takings -> Takings]
        OBVIOUS
    <3>1. step[i] = [t \in Takings |-> Invoice!TakePage(t, pages[i])]
        BY <1>4 DEF PageSteps
    <3>2. \A t \in Takings : step[i][t] \in Takings
        BY <1>6
    <3>3. QED
        BY <3>1, <3>2
  <2>2. QED
      BY <1>4, <2>1 DEF PageSteps
<1> HIDE DEF n
<1>8. PICK start : start = none
    OBVIOUS
<1>9. start \in Takings /\ start.parts = <<>> /\ start = [parts |-> <<>>, left |-> MaxCharacters, cut |-> FALSE]
    BY <1>3, <1>8
<1> HIDE DEF none
<1>10. PICK f : Iterates(f, step, n, Takings, start)
  <2>1. Steps(step, n, Takings)
      BY <1>1, <1>7 DEF Steps
  <2>2. QED
      BY <1>9, <2>1, Iterated
<1>11. /\ f \in [0..n -> Takings] /\ f[0] = start
       /\ \A i \in 1..n : f[i] = step[i][f[i - 1]] /\ f[i - 1] \in Takings
  <2>1. \A i \in 1..n : i - 1 \in 0..n
      BY <1>1
  <2>2. QED
      BY <1>10, <2>1 DEF Iterates
<1>12. f = E(f)
  <2>1. ASSUME NEW i \in 0..n PROVE f[i] = E(f)[i]
    <3>1. CASE i = 0
        BY <1>9, <1>11, <3>1
    <3>2. CASE i # 0
      <4>1. i \in 1..n
          BY <1>1, <3>2
      <4>2. QED
          BY <1>5, <1>11, <3>2, <4>1
    <3>3. QED
        BY <3>1, <3>2
  <2>2. QED
      BY <1>11, <2>1
<1>13. after = E(after)
  <2> HIDE DEF E
  <2>1. QED
      BY <1>12
<1> HIDE DEF after
<1>14. ASSUME NEW i \in 0..n
       PROVE  after[i] = IF i = 0 THEN [parts |-> <<>>, left |-> MaxCharacters, cut |-> FALSE]
                         ELSE Invoice!TakePage(after[i - 1], pages[i])
  <2>1. after[i] = E(after)[i]
      BY <1>13
  <2>2. QED
      BY <2>1
<1> HIDE DEF E
<1> DEFINE T == {i \in 0..n : ~Taken(after[i], i, pages)}
<1>15. ASSUME T # {} PROVE FALSE
  <2>1. T \in SUBSET Nat
      BY <1>1
  <2>2. PICK m \in T : \A k \in T : m <= k
    <3> HIDE DEF T
    <3>1. QED
        BY <1>15, <2>1, Smallest
  <2>3. m \in 0..n /\ ~Taken(after[m], m, pages)
      BY <2>2
  <2>4. CASE m = 0
    <3>1. after[m] = start
        BY <1>9, <1>14, <2>3, <2>4
    <3>2. Len(start.parts) = 0
        BY <1>9, EmptySeq
    <3>3. QED
        BY <1>9, <2>3, <2>4, <3>1, <3>2 DEF Taken
  <2>5. CASE m # 0
    <3>1. m - 1 \in 0..n /\ ~(m <= m - 1) /\ m \in 1..n
        BY <1>1, <2>3, <2>5
    <3>2. m - 1 \notin T
      <4> HIDE DEF T
      <4>1. QED
          BY <2>2, <3>1
    <3>3. Taken(after[m - 1], m - 1, pages)
        BY <3>1, <3>2
    <3>4. m \in 1..Len(pages)
        BY <3>1 DEF n
    <3>5. Taken(Invoice!TakePage(after[m - 1], pages[m]), m, pages)
        BY <3>3, <3>4, TakingsStep
    <3>6. after[m] = Invoice!TakePage(after[m - 1], pages[m])
        BY <1>14, <2>3, <2>5
    <3>7. QED
        BY <2>3, <3>5, <3>6
  <2>6. QED
      BY <2>4, <2>5
<1>16. Taken(after[n], n, pages)
    BY <1>1, <1>15
<1>17. QED
    BY <1>2, <1>16 DEF n

\* What is read of a document and what there is in it.
LEMMA PagesRead ==
    ASSUME NEW pages \in Seq(Texts), NEW got, Taken(got, Len(pages), pages)
    PROVE  /\ Invoice!Joined(got.parts) \in Texts /\ Invoice!Joined(pages) \in Texts
           /\ Begins(Invoice!Joined(got.parts), Invoice!Joined(pages))
           /\ got.cut \in BOOLEAN
           /\ got.cut = FALSE => got.parts = pages
<1>1. /\ got.parts \in Seq(Texts) /\ got.cut \in BOOLEAN
      /\ Len(got.parts) <= Len(pages)
    BY DEF Taken, Takings
<1>2. CutOff(got.parts, pages)
    BY <1>1 DEF Taken, CutOff
<1>3. got.cut = FALSE => got.parts = pages
  <2> SUFFICES ASSUME got.cut = FALSE PROVE got.parts = pages
      OBVIOUS
  <2>1. Len(got.parts) = Len(pages) /\ \A k \in 1..Len(pages) : got.parts[k] = pages[k]
      BY DEF Taken
  <2>2. QED
      BY <1>1, <2>1, SeqEqual
<1>4. QED
    BY <1>1, <1>2, <1>3, JoinedOf

\* One text is its own page.
LEMMA OnePage ==
    ASSUME NEW pages \in Seq(Texts), Len(pages) = 1
    PROVE  pages[1] \in Texts /\ Invoice!Joined(pages) = pages[1]
<1>1. pages[1] \in Texts
    BY ElementOfSeq
<1>2. PICK f : /\ Iterates(f, JoinSteps(pages), 1, Texts, <<>>)
               /\ Invoice!Joined(pages) = f[1]
    BY JoinedIs
<1>3. 1 \in 1..1 /\ 1 - 1 = 0 /\ f[0] = <<>>
    BY <1>2 DEF Iterates
<1>4. f[1] = JoinSteps(pages)[1][<<>>]
    BY <1>2, <1>3 DEF Iterates
<1>5. JoinSteps(pages)[1][<<>>] = pages[1]
    BY <1>3, BreakIs DEF JoinSteps
<1>6. QED
    BY <1>1, <1>2, <1>4, <1>5

\* An extraction: the text begins the whole, and is the whole unless it says so.
Extraction(got, whole) ==
  /\ got.text \in Texts /\ Begins(got.text, whole)
  /\ Len(got.text) <= MaxCharacters
  /\ got.text = whole \/ got.warning # "none"

LEMMA BoundedIs ==
    ASSUME NEW x \in Texts, NEW y \in Texts, Begins(x, y), NEW cut \in BOOLEAN, cut = FALSE => x = y,
           NEW method, MaxCharacters \in Nat
    PROVE  Extraction(Invoice!Bounded(method, x, cut), Invoice!WithoutNuls(y))
<1>1. PICK a : a = Invoice!WithoutNuls(x)
    OBVIOUS
<1>2. PICK b : b = Invoice!WithoutNuls(y)
    OBVIOUS
<1>3. a \in Texts /\ b \in Texts /\ Begins(a, b) /\ (cut = FALSE => a = b) /\ Len(a) \in Nat
    BY <1>1, <1>2, WithoutNulsOf, TextLen
<1>4. PICK n : n = Invoice!Shortest(Len(a), MaxCharacters)
    OBVIOUS
<1>5. n \in Nat /\ n <= Len(a) /\ n <= MaxCharacters /\ (n = Len(a) \/ Len(a) > MaxCharacters)
    BY <1>3, <1>4 DEF Invoice!Shortest
<1>6. PICK t : t = SubSeq(a, 1, n)
    OBVIOUS
<1>7. t \in Texts /\ Begins(t, a) /\ Len(t) = n /\ (n = Len(a) => t = a)
  <2>1. \A i \in 1..n : a[i] \in Lines
      BY <1>3, <1>5, TextLen
  <2>2. n \in Int /\ 1 \in Int
      BY <1>5
  <2>3. /\ t \in Seq(Lines) /\ Len(t) = IF 1 <= n THEN n - 1 + 1 ELSE 0
        /\ \A i \in 1..n - 1 + 1 : t[i] = a[1 + i - 1]
      BY <1>6, <2>1, <2>2, SubSeqProperties
  <2>4. Len(t) = n /\ \A i \in 1..n : t[i] = a[i]
      BY <1>5, <2>3
  <2>5. t \in Texts /\ Begins(t, a)
      BY <1>5, <2>3, <2>4 DEF Begins, Texts
  <2>6. QED
      BY <1>3, <2>4, <2>5, BeginsAll
<1>8. Begins(t, b)
    BY <1>3, <1>7, BeginsTransitive
<1>9. PICK got : got = Invoice!Bounded(method, x, cut)
    OBVIOUS
<1>10. /\ got.text = t
       /\ got.warning = IF cut \/ Len(a) > MaxCharacters THEN "truncated" ELSE "none"
    BY <1>1, <1>4, <1>6, <1>9 DEF Invoice!Bounded
<1>11. got.text = b \/ got.warning # "none"
    BY <1>3, <1>5, <1>7, <1>10
<1>12. Len(got.text) <= MaxCharacters
    BY <1>5, <1>7, <1>10
<1>13. QED
    BY <1>2, <1>7, <1>8, <1>9, <1>10, <1>11, <1>12 DEF Extraction

LEMMA InvoiceAssumptions ==
          /\ MaxCharacters \in Nat /\ MaxCharacters \in Int /\ MaxPages \in Nat
          /\ \A d \in Invoices :
               /\ d.kind \in Invoice!Kinds /\ d.pages \in Seq(Texts)
               /\ d.kind \in {"text", "xml"} => Len(d.pages) = 1
<1>1. MaxCharacters \in Nat \ {0} /\ MaxPages \in Nat
    BY ToolsAssumption DEF Invoice!ReviewAssumption
<1>2. QED
    BY <1>1, ToolsAssumption DEF Invoice!ReviewAssumption, Texts, Lines

\* The review of what has been extracted.
ElementsRead == IF extracted.text = <<>> THEN Invoice!NoElements ELSE Invoice!XmlFields(invoice)
FieldsRead == Invoice!Fields(extracted.text, ElementsRead)

ReviewOf ==
  [fields |-> FieldsRead, checks |-> Invoice!Checks(extracted.warning, FieldsRead),
   status |-> Invoice!Status(extracted.text, Invoice!Checks(extracted.warning, FieldsRead))]

InvoiceInv ==
  /\ invoice \in Invoices
  /\ at \in {"received", "extracted", "done", "raised"}
  /\ at = "received" => extracted = Invoice!NotExtracted
  /\ at # "received" => Extraction(extracted, Invoice!WholeText(invoice))
  /\ Invoice!WholeText(invoice) \in Texts
  /\ review = IF at = "done" THEN ReviewOf ELSE Invoice!NotReviewed

LEMMA WholeTextIs ==
    ASSUME NEW d \in Invoices
    PROVE  Invoice!WholeText(d) \in Texts
<1>1. d.pages \in Seq(Texts)
    BY InvoiceAssumptions
<1>2. PICK f : /\ Iterates(f, JoinSteps(d.pages), Len(d.pages), Texts, <<>>)
               /\ Invoice!Joined(d.pages) = f[Len(d.pages)]
    BY <1>1, JoinedIs
<1>3. Invoice!Joined(d.pages) \in Texts
  <2>1. PICK n : n = Len(d.pages)
      OBVIOUS
  <2>2. n \in 0..n
      BY <1>1, <2>1, LenProperties
  <2>3. QED
      BY <1>2, <2>1, <2>2 DEF Iterates
<1>4. PICK t : t = Invoice!Joined(d.pages)
    OBVIOUS
<1>5. Invoice!WithoutNuls(t) \in Texts
    BY <1>3, <1>4, BeginsIs, WithoutNulsOf
<1>6. QED
    BY <1>4, <1>5, BreakIs DEF Invoice!WholeText

LEMMA NothingRead ==
    ASSUME NEW method, NEW warning, warning # "none", NEW whole \in Texts
    PROVE  Extraction(Invoice!Unread(method, warning), whole)
<1>1. PICK got : got = Invoice!Unread(method, warning)
    OBVIOUS
<1>2. got.text = <<>> /\ got.warning = warning
    BY <1>1 DEF Invoice!Unread
<1>3. <<>> \in Texts /\ Len(<<>>) = 0
    BY EmptySeq, BreakIs
<1>4. Len(whole) \in Nat /\ 1..0 = {}
    BY TextLen
<1>5. Begins(<<>>, whole)
    BY <1>3, <1>4 DEF Begins
<1>6. 0 <= MaxCharacters
    BY InvoiceAssumptions
<1>7. QED
    BY <1>1, <1>2, <1>3, <1>5, <1>6 DEF Extraction

LEMMA InvoiceInit == Invoice!Init => InvoiceInv
    BY WholeTextIs DEF Invoice!Init, InvoiceInv

LEMMA ExtractPdfGives ==
    ASSUME invoice \in Invoices, Invoice!ExtractPdf
    PROVE  Extraction(extracted', Invoice!WholeText(invoice))
<1>1. /\ invoice.pages \in Seq(Texts) /\ invoice.kind = "pdf"
      /\ Invoice!WholeText(invoice) \in Texts
      /\ Invoice!WholeText(invoice) = Invoice!WithoutNuls(Invoice!Joined(invoice.pages))
    BY InvoiceAssumptions, WholeTextIs DEF Invoice!ExtractPdf, Invoice!WholeText
<1>2. CASE Len(invoice.pages) > MaxPages
  <2>1. extracted' = Invoice!Unread("manual_review", "too many pages")
      BY <1>2 DEF Invoice!ExtractPdf
  <2>2. QED
      BY <1>1, <2>1, NothingRead
<1>3. CASE ~(Len(invoice.pages) > MaxPages)
  <2>1. PICK got : got = Invoice!TakePages(invoice.pages)
      OBVIOUS
  <2>2. PICK read : read = Invoice!Joined(got.parts)
      OBVIOUS
  <2>3. PICK all : all = Invoice!Joined(invoice.pages)
      OBVIOUS
  <2>4. Taken(got, Len(invoice.pages), invoice.pages)
      BY <1>1, <2>1, TakePagesIs, InvoiceAssumptions
  <2>5. /\ read \in Texts /\ all \in Texts /\ Begins(read, all) /\ got.cut \in BOOLEAN
        /\ got.cut = FALSE => read = all
      BY <1>1, <2>2, <2>3, <2>4, PagesRead
  <2>6. PICK result : result = Invoice!Bounded("pypdf", read, got.cut)
      OBVIOUS
  <2>7. Extraction(result, Invoice!WithoutNuls(all))
      BY <2>5, <2>6, BoundedIs, InvoiceAssumptions
  <2>8. extracted' = IF Invoice!IsBlank(result.text)
                       THEN Invoice!Unread("ocr_required", "no extractable text") ELSE result
      BY <1>3, <2>1, <2>2, <2>6 DEF Invoice!ExtractPdf
  <2>9. Extraction(Invoice!Unread("ocr_required", "no extractable text"), Invoice!WholeText(invoice))
      BY <1>1, NothingRead
  <2>10. QED
      BY <1>1, <2>3, <2>7, <2>8, <2>9
<1>4. QED
    BY <1>2, <1>3

LEMMA ExtractTextGives ==
    ASSUME invoice \in Invoices, Invoice!ExtractText
    PROVE  Extraction(extracted', Invoice!WholeText(invoice))
<1>1. /\ invoice.pages \in Seq(Texts) /\ Len(invoice.pages) = 1
      /\ Invoice!WholeText(invoice) = Invoice!WithoutNuls(Invoice!Joined(invoice.pages))
    BY InvoiceAssumptions DEF Invoice!ExtractText, Invoice!WholeText
<1>2. PICK t : t = invoice.pages[1]
    OBVIOUS
<1>3. t \in Texts /\ Invoice!Joined(invoice.pages) = t
    BY <1>1, <1>2, OnePage
<1>4. extracted' = Invoice!Bounded(invoice.kind, t, FALSE)
    BY <1>2 DEF Invoice!ExtractText
<1>5. Begins(t, t)
    BY <1>3, BeginsIs
<1>6. PICK kind : kind = invoice.kind
    OBVIOUS
<1>7. Extraction(Invoice!Bounded(kind, t, FALSE), Invoice!WithoutNuls(t))
    BY <1>3, <1>5, BoundedIs, InvoiceAssumptions
<1>8. QED
    BY <1>1, <1>3, <1>4, <1>6, <1>7

LEMMA ExtractNothingGives ==
    ASSUME invoice \in Invoices, Invoice!ExtractNothing
    PROVE  Extraction(extracted', Invoice!WholeText(invoice))
<1>1. PICK kind : kind = invoice.kind
    OBVIOUS
<1>2. kind # "none" /\ extracted' = Invoice!Unread("manual_review", kind)
    BY <1>1 DEF Invoice!ExtractNothing
<1>3. QED
    BY <1>2, WholeTextIs, NothingRead

LEMMA InvoiceStep ==
    ASSUME InvoiceInv, Invoice!Next
    PROVE  InvoiceInv'
<1>1. /\ invoice' = invoice /\ invoice \in Invoices
      /\ Invoice!WholeText(invoice) \in Texts
      /\ Invoice!WholeText(invoice') = Invoice!WholeText(invoice)
    BY DEF Invoice!Next, Invoice!Extract, Invoice!Review, InvoiceInv
<1>2. CASE Invoice!Extract
  <2>1. at' = "extracted" /\ review' = Invoice!NotReviewed
      BY <1>2 DEF Invoice!Extract, InvoiceInv
  <2>2. Extraction(extracted', Invoice!WholeText(invoice))
      BY <1>1, <1>2, ExtractPdfGives, ExtractTextGives, ExtractNothingGives DEF Invoice!Extract
  <2>3. QED
      BY <1>1, <2>1, <2>2 DEF InvoiceInv
<1>3. CASE Invoice!Review
  <2>1. /\ extracted' = extracted /\ at = "extracted"
        /\ Extraction(extracted, Invoice!WholeText(invoice))
        /\ review = Invoice!NotReviewed
      BY <1>3 DEF Invoice!Review, InvoiceInv
  <2>2. CASE at' = "raised" /\ review' = review
      BY <1>1, <2>1, <2>2 DEF InvoiceInv
  <2>3. CASE at' = "done" /\ review' = ReviewOf
    <3>1. ReviewOf' = ReviewOf
        BY <1>1, <2>1 DEF ReviewOf, FieldsRead, ElementsRead
    <3>2. QED
        BY <1>1, <2>1, <2>3, <3>1 DEF InvoiceInv
  <2>4. QED
      BY <1>3, <2>2, <2>3 DEF Invoice!Review, ReviewOf, FieldsRead, ElementsRead
<1>4. QED
    BY <1>2, <1>3 DEF Invoice!Next

\* A check that sends a person to the document is one of the checks made.
LEMMA ManualChecks ==
    ASSUME NEW warning, NEW fields
    PROVE  /\ \A c \in Invoice!Checks(warning, fields) : c.outcome \in Invoice!Outcomes
           /\ warning # "none" => \E c \in Invoice!Checks(warning, fields) : c.outcome = "manual"
           /\ \A f \in Invoice!Required : fields[f] = {} =>
                \E c \in Invoice!Checks(warning, fields) : c.outcome = "manual"
<1>1. \A code, about, outcome :
        Invoice!Check(code, about, outcome).outcome = outcome
    BY DEF Invoice!Check
<1>2. \A c \in Invoice!Checks(warning, fields) : c.outcome \in Invoice!Outcomes
  <2> SUFFICES ASSUME NEW c \in Invoice!Checks(warning, fields) PROVE c.outcome \in Invoice!Outcomes
      OBVIOUS
  <2>1. \/ c.outcome = "manual" \/ c.outcome = "passed" \/ c.outcome = "warning"
      BY <1>1 DEF Invoice!Checks
  <2>2. QED
      BY <2>1 DEF Invoice!Outcomes
<1>3. ASSUME warning # "none"
      PROVE  \E c \in Invoice!Checks(warning, fields) : c.outcome = "manual"
  <2>1. Invoice!Check("extraction_warning", "all", "manual") \in Invoice!Checks(warning, fields)
      BY <1>3 DEF Invoice!Checks
  <2>2. QED
      BY <1>1, <2>1
<1>4. ASSUME NEW f \in Invoice!Required, fields[f] = {}
      PROVE  \E c \in Invoice!Checks(warning, fields) : c.outcome = "manual"
  <2>1. Invoice!Check("missing", f, "manual") \in Invoice!Checks(warning, fields)
      BY <1>4 DEF Invoice!Checks
  <2>2. QED
      BY <1>1, <2>1
<1>5. QED
    BY <1>2, <1>3, <1>4

LEMMA NothingIsBlank == Invoice!IsBlank(<<>>)
    BY EmptySeq DEF Invoice!IsBlank

\* A field that is missing has no readable value after its first label.
LEMMA MissingLine ==
    ASSUME NEW text \in Texts, NEW f \in Invoice!Required,
           Invoice!LabeledValue(text, f) = {},
           NEW i \in DOMAIN text,
           Invoice!LabelsIn(text[i]) \intersect Invoice!Labels[f] # {}, text[i].value # {}
    PROVE  \E k \in 1..i : /\ Invoice!Garbled \in text[k].value
                           /\ Invoice!LabelsIn(text[k]) \intersect Invoice!Labels[f] # {}
<1> DEFINE hits == {k \in DOMAIN text : /\ Invoice!LabelsIn(text[k]) \intersect Invoice!Labels[f] # {}
                                        /\ text[k].value # {}}
           least == CHOOSE k \in hits : \A j \in hits : k <= j
<1>1. DOMAIN text = 1..Len(text) /\ Len(text) \in Nat
    BY TextLen, LenProperties DEF Texts
<1>2. i \in hits /\ hits \in SUBSET Nat
    BY <1>1
<1>3. least \in hits /\ \A j \in hits : least <= j
  <2> HIDE DEF hits
  <2>1. \E k \in hits : \A j \in hits : k <= j
      BY <1>2, Smallest
  <2>2. QED
      BY <2>1
<1>4. Invoice!Labeled(text, f) = text[least]
  <2>1. hits # {}
      BY <1>2
  <2>2. QED
      BY <2>1 DEF Invoice!Labeled
<1>5. PICK k : k = least
    OBVIOUS
<1>6. /\ k \in 1..i /\ text[k].value # {} /\ Invoice!Labeled(text, f) = text[k]
      /\ Invoice!LabelsIn(text[k]) \intersect Invoice!Labels[f] # {}
  <2>1. k \in hits /\ k <= i
      BY <1>2, <1>3, <1>5
  <2>2. k \in 1..i
      BY <1>1, <2>1
  <2>3. QED
      BY <1>4, <1>5, <2>1, <2>2
<1>7. Invoice!Garbled \in text[k].value
    BY <1>6 DEF Invoice!LabeledValue
<1>8. QED
    BY <1>6, <1>7

\* What the elements leave open is looked for in the lines.
LEMMA FieldIs ==
    ASSUME NEW text, NEW elements, NEW f \in Invoice!FieldNames
    PROVE  /\ elements[f] # {} => Invoice!Fields(text, elements)[f] = elements[f]
           /\ elements[f] = {} => Invoice!Fields(text, elements)[f] = Invoice!LabeledValue(text, f)
<1>1. f # "currency"
    BY DEF Invoice!FieldNames
<1>2. QED
    BY <1>1 DEF Invoice!Fields, Invoice!First

LEMMA InvoiceSays ==
    ASSUME InvoiceInv
    PROVE  /\ Invoice!TypeOK /\ Invoice!NoSilentCut /\ Invoice!TextBounded
           /\ Invoice!ReadyMeansRead /\ Invoice!MissingIsMissing /\ Invoice!ElementsFirst
<1>1. PICK whole : whole = Invoice!WholeText(invoice)
    OBVIOUS
<1>2. PICK fields : fields = FieldsRead
    OBVIOUS
<1>3. PICK checks : checks = Invoice!Checks(extracted.warning, fields)
    OBVIOUS
<1>4. at = "done" => /\ review.fields = fields /\ review.checks = checks
                     /\ review.status = Invoice!Status(extracted.text, checks)
    BY <1>2, <1>3 DEF InvoiceInv, ReviewOf
<1>5. /\ whole \in Texts /\ at \in {"received", "extracted", "done", "raised"}
      /\ at # "received" => Extraction(extracted, whole)
      /\ at = "received" => extracted = Invoice!NotExtracted
      /\ at # "done" => review = Invoice!NotReviewed
      /\ invoice \in Invoices /\ invoice.kind \in Invoice!Kinds
    BY <1>1, InvoiceAssumptions DEF InvoiceInv
<1>6. /\ \A c \in checks : c.outcome \in Invoice!Outcomes
      /\ extracted.warning # "none" => \E c \in checks : c.outcome = "manual"
      /\ \A f \in Invoice!Required : fields[f] = {} => \E c \in checks : c.outcome = "manual"
    BY <1>3, ManualChecks
<1>7. Invoice!TypeOK
  <2>1. at = "done" => review.status \in Invoice!Statuses \ {"none"}
      BY <1>4 DEF Invoice!Status, Invoice!Statuses
  <2>2. QED
      BY <1>4, <1>5, <1>6, <2>1 DEF Invoice!TypeOK
<1>8. Invoice!NoSilentCut
  <2> SUFFICES ASSUME at # "received", extracted.text # whole
               PROVE  /\ extracted.warning # "none"
                      /\ at = "done" => review.status = "manual_review_required"
      BY <1>1 DEF Invoice!NoSilentCut
  <2>1. extracted.warning # "none"
      BY <1>5 DEF Extraction
  <2>2. QED
      BY <1>4, <1>6, <2>1 DEF Invoice!Status
<1>9. Invoice!TextBounded
  <2>1. CASE at = "received"
    <3>1. extracted.text = <<>>
        BY <1>5, <2>1 DEF Invoice!NotExtracted
    <3>2. Len(<<>>) = 0 /\ Begins(<<>>, whole) /\ <<>> \in Texts
      <4>1. Len(<<>>) = 0 /\ <<>> \in Texts /\ 1..0 = {} /\ Len(whole) \in Nat
          BY <1>5, EmptySeq, BreakIs, TextLen
      <4>2. QED
          BY <4>1 DEF Begins
    <3>3. Invoice!IsPrefix(<<>>, whole)
        BY <1>5, <3>2, BeginsIs
    <3>4. 0 <= MaxCharacters
        BY InvoiceAssumptions
    <3>5. QED
        BY <1>1, <3>1, <3>2, <3>3, <3>4 DEF Invoice!TextBounded
  <2>2. CASE at # "received"
    <3>1. PICK t : t = extracted.text
        OBVIOUS
    <3>2. t \in Texts /\ Begins(t, whole) /\ Len(t) <= MaxCharacters
        BY <1>5, <2>2, <3>1 DEF Extraction
    <3>3. Invoice!IsPrefix(t, whole)
        BY <1>5, <3>2, BeginsIs
    <3>4. QED
        BY <1>1, <3>1, <3>2, <3>3 DEF Invoice!TextBounded
  <2>3. QED
      BY <2>1, <2>2
<1>10. Invoice!ReadyMeansRead
  <2> SUFFICES ASSUME at = "done", review.status = "ready_for_human_review"
               PROVE  /\ \A f \in Invoice!Required : review.fields[f] # {}
                      /\ review.fields = Invoice!Fields(whole, Invoice!XmlFields(invoice))
                      /\ ~Invoice!IsBlank(whole)
      BY <1>1 DEF Invoice!ReadyMeansRead
  <2>1. ~Invoice!IsBlank(extracted.text) /\ ~\E c \in checks : c.outcome = "manual"
      BY <1>4 DEF Invoice!Status
  <2>2. extracted.text = whole
      BY <1>5, <1>6, <2>1 DEF Extraction
  <2>3. extracted.text # <<>>
      BY <2>1, NothingIsBlank
  <2>4. fields = Invoice!Fields(whole, Invoice!XmlFields(invoice))
      BY <1>2, <2>2, <2>3 DEF FieldsRead, ElementsRead
  <2>5. QED
      BY <1>4, <1>6, <2>1, <2>2, <2>4
<1>11. Invoice!MissingIsMissing
  <2> SUFFICES ASSUME at = "done", extracted.warning = "none",
                      NEW f \in Invoice!Required, review.fields[f] = {},
                      NEW i \in DOMAIN whole,
                      Invoice!LabelsIn(whole[i]) \intersect Invoice!Labels[f] # {},
                      whole[i].value # {}
               PROVE  \E k \in 1..i : /\ Invoice!Garbled \in whole[k].value
                                      /\ Invoice!LabelsIn(whole[k]) \intersect Invoice!Labels[f] # {}
      BY <1>1 DEF Invoice!MissingIsMissing
  <2>1. extracted.text = whole
      BY <1>5 DEF Extraction
  <2>2. f \in Invoice!FieldNames
      BY DEF Invoice!Required, Invoice!FieldNames
  <2>3. Invoice!LabeledValue(whole, f) = {}
      BY <1>2, <1>4, <2>1, <2>2, FieldIs DEF FieldsRead
  <2>4. QED
      BY <1>5, <2>3, MissingLine
<1>12. Invoice!ElementsFirst
  <2> SUFFICES ASSUME at = "done", extracted.text # <<>>,
                      NEW f \in Invoice!FieldNames, Invoice!XmlFields(invoice)[f] # {}
               PROVE  review.fields[f] = Invoice!XmlFields(invoice)[f]
      BY DEF Invoice!ElementsFirst
  <2>1. QED
      BY <1>2, <1>4, FieldIs DEF FieldsRead, ElementsRead
<1>13. QED
    BY <1>7, <1>8, <1>9, <1>10, <1>11, <1>12

-----------------------------------------------------------------------------
(***************************************************************************)
(* The theorems.                                                           *)
(***************************************************************************)

FilesInvariant == tool = "files" => FilesInv

LEMMA FilesInvariantKept ==
    /\ Init => FilesInvariant
    /\ FilesInvariant /\ [Next]_vars =>
         /\ FilesInvariant'
         /\ tool = "files" => File!OnlyBelowRoot /\ File!NothingReplacedUnasked
<1>1. Init => FilesInvariant
    BY FilesInit DEF Init, FilesInvariant
<1>2. ASSUME FilesInvariant, [Next]_vars
      PROVE  /\ FilesInvariant'
             /\ tool = "files" => File!OnlyBelowRoot /\ File!NothingReplacedUnasked
  <2>1. tool' = tool
      BY <1>2 DEF Next, FilesNext, SearchNext, PathsNext, InventoryNext, KeysNext, InvoiceNext,
         vars
  <2>2. CASE tool # "files"
      BY <2>1, <2>2 DEF FilesInvariant
  <2>3. CASE tool = "files" /\ FilesNext
      BY <1>2, <2>1, <2>3, FilesStep DEF FilesInvariant, FilesNext
  <2>4. CASE tool = "files" /\ UNCHANGED vars
      BY <1>2, <2>1, <2>4, FilesStutter DEF FilesInvariant, vars
  <2>5. QED
      BY <1>2, <2>2, <2>3, <2>4
         DEF Next, SearchNext, PathsNext, InventoryNext, KeysNext, InvoiceNext
<1>3. QED
    BY <1>1, <1>2

(* The file tools keep no more of a download than the transfer limit,      *)
(* answer what happened and leave the root where it is: any calls, files   *)
(* and paths, and any changes by others in between.                        *)
THEOREM FileToolsAreHonest == Spec => []FileToolsHonest
<1>1. FilesInvariant => FileToolsHonest
    BY FilesSay DEF FilesInvariant, FileToolsHonest
<1>2. QED
    BY <1>1, FilesInvariantKept, PTL DEF Spec

(* No call changes anything outside the root of the connection it resolved,*)
(* and without overwrite none replaces what is there at that moment.       *)
THEOREM ChangesAreConfined == Spec => ChangesConfined
<1>1. FilesInvariant /\ [Next]_vars =>
        [tool = "files" => File!OnlyBelowRoot /\ File!NothingReplacedUnasked]_vars
    BY FilesInvariantKept
<1>2. QED
    BY <1>1, FilesInvariantKept, PTL DEF Spec, ChangesConfined

(* A report of apps never shows a failure as an absence, has nothing that  *)
(* was not there, and is of an account the tenant was connected to in the  *)
(* call: any calls, accounts, apps and limit, and any number of changes by *)
(* the owner in between.                                                   *)
THEOREM InventoriesAreHonest == Spec => []InventoryHonest
<1> DEFINE Inv == tool = "inventory" => InventoryInv
<1>1. Init => Inv
    BY InventoryInit DEF Init
<1>2. Inv /\ [Next]_vars => Inv'
  <2> SUFFICES ASSUME Inv, [Next]_vars, tool' = "inventory" PROVE InventoryInv'
      OBVIOUS
  <2>1. CASE InventoryNext
      BY <2>1, InventoryStep DEF InventoryNext
  <2>2. CASE UNCHANGED vars
      BY <2>2 DEF vars, inventoryVars, InventoryInv, ReportInv, FoundHonestly
  <2>3. QED
      BY <2>1, <2>2 DEF Next, FilesNext, SearchNext, PathsNext, KeysNext, InvoiceNext
<1>3. Inv => InventoryHonest
    BY InventorySays DEF InventoryHonest
<1>4. QED
    BY <1>1, <1>2, <1>3, PTL DEF Spec

(* A capability document within the bound gives all its keys and no others,*)
(* no container is searched twice and none is left out: any document of    *)
(* any depth, and any bound.                                               *)
THEOREM KeysAreExact == Spec => []KeysExact
<1> DEFINE Inv == tool = "keys" => KeysInv
<1>1. Init => Inv
    BY KeysInit DEF Init
<1>2. Inv /\ [Next]_vars => Inv'
  <2> SUFFICES ASSUME Inv, [Next]_vars, tool' = "keys" PROVE KeysInv'
      OBVIOUS
  <2>1. CASE KeysNext
      BY <2>1, KeysStep DEF KeysNext
  <2>2. CASE UNCHANGED vars
      BY <2>2 DEF vars, keysVars, KeysInv, KeysInvOf, KeyIn, KeyNames, Key!AllKeys
  <2>3. QED
      BY <2>1, <2>2 DEF Next, FilesNext, SearchNext, PathsNext, InventoryNext, InvoiceNext
<1>3. Inv => KeysExact
    BY KeysSay DEF KeysExact
<1>4. QED
    BY <1>1, <1>2, <1>3, PTL DEF Spec

(* A search stays within its caps, and an answer that is not truncated is  *)
(* complete, without repetition and nearest first: any tree, any caps, and *)
(* any number of moves by the owner during the search.                     *)
THEOREM SearchesAreHonest == Spec => []SearchHonest
<1> DEFINE Inv == tool = "search" => SearchInv
<1>1. Init => Inv
    BY SearchInit DEF Init
<1>2. Inv /\ [Next]_vars => Inv'
  <2> SUFFICES ASSUME Inv, [Next]_vars, tool' = "search" PROVE SearchInv'
      OBVIOUS
  <2>1. CASE SearchNext
      BY <2>1, SearchStep DEF SearchNext
  <2>2. CASE UNCHANGED vars
    <3>1. /\ SearchInv /\ place' = place /\ folders' = folders /\ matching' = matching /\ plain' = plain
          /\ queue' = queue /\ found' = found /\ moved' = moved /\ answer' = answer
        BY <2>2 DEF vars, searchVars
    <3>2. answer' \in {"none", "ok", "error"} /\ (answer' = "ok" => queue = <<>>)
        BY <3>1 DEF SearchInv
    <3>3. QED
        BY <3>1, <3>2, SearchRests
  <2>3. QED
      BY <2>1, <2>2 DEF Next, FilesNext, PathsNext, InventoryNext, KeysNext, InvoiceNext
<1>3. Inv => SearchHonest
    BY SearchSays DEF SearchHonest
<1>4. QED
    BY <1>1, <1>2, <1>3, PTL DEF Spec

(* Whatever blanks, backslashes, dots, slashes and empty segments a          *)
(* configured root and a given path have, nothing outside the root is listed, *)
(* opened or shown among the shares: any account, any names, any roots, those *)
(* of two slashes included.  The path of a listed entry leads back to it      *)
(* unless it begins or ends with a blank or has a backslash, and never        *)
(* outside the root (config.py:9-34, providers/webdav.py:58-83, 212-240,      *)
(* server.py:341-372).                                                        *)
THEOREM PathsStayInside == Spec => []PathsInside
<1> DEFINE Inv == tool = "paths" => PathsInv
<1>1. Init => Inv
    BY PathsInit DEF Init
<1>2. Inv /\ [Next]_vars => Inv'
  <2> SUFFICES ASSUME Inv, [Next]_vars, tool' = "paths" PROVE PathsInv'
      OBVIOUS
  <2>1. CASE PathsNext
      BY <2>1, PathsStep DEF PathsNext
  <2>2. CASE UNCHANGED vars
      BY <2>2 DEF vars, pathsVars, PathsInv, RootOk, ListingOk, OpenedOk, Path!IsPrefix, Path!Survives
  <2>3. QED
      BY <2>1, <2>2 DEF Next, FilesNext, SearchNext, InventoryNext, KeysNext, InvoiceNext
<1>3. Inv => PathsInside
    BY PathsSay DEF PathsInside
<1>4. QED
    BY <1>1, <1>2, <1>3, PTL DEF Spec

(* A review of an invoice is honest about what was read: nothing is cut    *)
(* silently, the text keeps its limit, "ready" rests on the whole document *)
(* and a missing field is missing: any documents, any limits.              *)
THEOREM ReviewsAreHonest == Spec => []ReviewHonest
<1> DEFINE Inv == tool = "invoice" => InvoiceInv
<1>1. Init => Inv
    BY InvoiceInit DEF Init
<1>2. Inv /\ [Next]_vars => Inv'
  <2> SUFFICES ASSUME Inv, [Next]_vars, tool' = "invoice" PROVE InvoiceInv'
      OBVIOUS
  <2>1. CASE InvoiceNext
      BY <2>1, InvoiceStep DEF InvoiceNext
  <2>2. CASE UNCHANGED vars
    <3>1. /\ InvoiceInv /\ invoice' = invoice /\ at' = at
          /\ extracted' = extracted /\ review' = review
        BY <2>2 DEF vars, invoiceVars
    <3>2. /\ ReviewOf' = ReviewOf
          /\ Invoice!WholeText(invoice') = Invoice!WholeText(invoice)
        BY <3>1 DEF ReviewOf, FieldsRead, ElementsRead
    <3>3. QED
        BY <3>1, <3>2 DEF InvoiceInv
  <2>3. QED
      BY <2>1, <2>2 DEF Next, FilesNext, SearchNext, PathsNext, InventoryNext, KeysNext
<1>3. Inv => ReviewHonest
    BY InvoiceSays DEF ReviewHonest
<1>4. QED
    BY <1>1, <1>2, <1>3, PTL DEF Spec
=============================================================================
