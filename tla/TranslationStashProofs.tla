----------------------- MODULE TranslationStashProofs -----------------------
(* Proofs about TranslationStash: translated entries are first in the       *)
(* stash, every access is at one place and nobody's answer is lost, and the *)
(* stash implements PageTranslation.                                        *)
EXTENDS TranslationStash, FiniteSetTheorems, SequenceTheorems, TLAPS

WF == INSTANCE WellFoundedInduction

USE TranslationAssumption

-----------------------------------------------------------------------------
(* What the operations on sequences give *)

LEMMA LeastOf ==
  ASSUME NEW T, T \subseteq Nat, T # {}
  PROVE  \E x \in T : \A y \in T : x <= y
<1>1. PICK R : WF!IsWellFoundedOn(R, Nat) /\ \A x, y \in Nat : x < y => <<x, y>> \in R
  <2> DEFINE R == WF!OpToRel(<, Nat)
  <2>1. WF!IsWellFoundedOn(R, Nat)
    BY WF!NatLessThanWellFounded
  <2>2. \A x, y \in Nat : x < y => <<x, y>> \in R
    BY DEF WF!OpToRel
  <2> HIDE DEF R
  <2> QED BY <2>1, <2>2
<1>2. PICK x \in T : \A y \in T : ~ (<<y, x>> \in R)
  <2>1. WF!IsWellFoundedOn(R, Nat)
    BY <1>1
  <2> QED BY <2>1, WF!WFMin
<1>3. ASSUME NEW y \in T PROVE x <= y
  <2>1. x \in Nat /\ y \in Nat /\ ~(y < x)
    BY <1>1, <1>2
  <2> QED BY <2>1
<1> QED BY <1>3

\* Entries that are all of different accesses.
Distinct(s) == \A i, j \in DOMAIN s : s[i].id = s[j].id => i = j

Ids(S) == {e.id : e \in S}

\* r has those of the first n elements of s that are in T, each once.
Selects(r, s, T, n) ==
  /\ r \in Seq(ToSet(s))
  /\ \E f \in [1..Len(r) -> 1..n] :
       /\ \A k \in 1..Len(r) : r[k] = s[f[k]] /\ r[k] \in T
       /\ \A k, l \in 1..Len(r) : f[k] = f[l] => k = l
       /\ \A i \in 1..n : s[i] \in T => \E k \in 1..Len(r) : f[k] = i

\* The values of the recursion of Picked up to n.
Grows(g, s, T, n) ==
  /\ g[0] = <<>>
  /\ \A k \in 1..n : g[k] = IF s[k] \in T THEN Append(g[k - 1], s[k]) ELSE g[k - 1]

LEMMA GrowsExist ==
  ASSUME NEW s, NEW T, NEW n \in Nat
  PROVE  \E g : Grows(g, s, T, n)
<1> DEFINE N == {m \in Nat : ~ \E g : Grows(g, s, T, m)}
<1>1. ASSUME N # {} PROVE FALSE
  <2>1. PICK m \in N : \A k \in N : m <= k
    BY <1>1, LeastOf
  <2>2. m # 0
    <3>1. Grows([k \in {0} |-> <<>>], s, T, 0)
      BY DEF Grows
    <3> QED BY <2>1, <3>1
  <2>3. m \in Nat /\ m - 1 \in Nat /\ m - 1 \notin N
    BY <2>1, <2>2
  <2>4. PICK g : Grows(g, s, T, m - 1)
    BY <2>3
  <2> DEFINE h == [k \in 0..m |-> IF k = m THEN IF s[m] \in T THEN Append(g[m - 1], s[m]) ELSE g[m - 1]
                                   ELSE g[k]]
  <2>5. h[0] = <<>>
    BY <2>2, <2>3, <2>4 DEF Grows
  <2>6. ASSUME NEW k \in 1..m
        PROVE  h[k] = IF s[k] \in T THEN Append(h[k - 1], s[k]) ELSE h[k - 1]
    <3>1. k \in 0..m /\ k - 1 \in 0..m /\ k - 1 # m /\ h[k - 1] = g[k - 1]
      BY <2>3
    <3>2. CASE k = m
      BY <3>1, <3>2
    <3>3. CASE k # m
      <4>1. k \in 1..m - 1 /\ h[k] = g[k]
        BY <2>3, <3>1, <3>3
      <4> QED BY <2>4, <3>1, <4>1 DEF Grows
    <3> QED BY <3>2, <3>3
  <2>7. Grows(h, s, T, m)
    BY <2>5, <2>6 DEF Grows
  <2> QED BY <2>1, <2>7
<1> QED BY <1>1

LEMMA GrowsAgree ==
  ASSUME NEW s, NEW T, NEW n \in Nat, NEW m \in Nat, NEW g, NEW h,
         Grows(g, s, T, n), Grows(h, s, T, m), NEW k \in 0..n, k <= m
  PROVE  g[k] = h[k]
<1> DEFINE N == {j \in Nat : j <= n /\ j <= m /\ g[j] # h[j]}
<1>1. ASSUME N # {} PROVE FALSE
  <2>1. PICK j \in N : \A i \in N : j <= i
    BY <1>1, LeastOf
  <2>2. j # 0
    BY <2>1 DEF Grows
  <2>3. j - 1 \in Nat /\ j - 1 \notin N /\ j \in 1..n /\ j \in 1..m
    BY <2>1, <2>2
  <2>4. g[j - 1] = h[j - 1]
    BY <2>3
  <2> QED BY <2>1, <2>3, <2>4 DEF Grows
<1> QED BY <1>1

\* Picked is the last value of such a recursion.
LEMMA PickedGrows ==
  ASSUME NEW S, NEW s \in Seq(S), NEW T
  PROVE  \E g : Grows(g, s, T, Len(s)) /\ Picked(s, T) = g[Len(s)]
<1> DEFINE f == [n \in Nat |-> (CHOOSE g : Grows(g, s, T, n))[n]]
           Next1(u) == [n \in Nat |-> IF n = 0 THEN <<>>
                                      ELSE IF s[n] \in T THEN Append(u[n - 1], s[n])
                                      ELSE u[n - 1]]
<1>1. \A n \in Nat : Grows(CHOOSE g : Grows(g, s, T, n), s, T, n)
  BY GrowsExist
<1>2. \A n \in Nat : f[n] = IF n = 0 THEN <<>>
                            ELSE IF s[n] \in T THEN Append(f[n - 1], s[n]) ELSE f[n - 1]
  <2> TAKE n \in Nat
  <2>1. n = 0 => f[n] = <<>>
    <3>1. PICK g : g = CHOOSE h : Grows(h, s, T, n)
      OBVIOUS
    <3>2. Grows(g, s, T, n) /\ f[n] = g[n]
      BY <1>1, <3>1
    <3> HIDE DEF f
    <3> QED BY <3>2 DEF Grows
  <2>2. ASSUME n # 0
        PROVE  f[n] = IF s[n] \in T THEN Append(f[n - 1], s[n]) ELSE f[n - 1]
    <3> DEFINE g == CHOOSE g : Grows(g, s, T, n)
               h == CHOOSE h : Grows(h, s, T, n - 1)
    <3>1. n - 1 \in Nat /\ n - 1 \in 0..n - 1 /\ n \in 1..n
      BY <2>2
    <3>2. Grows(g, s, T, n) /\ Grows(h, s, T, n - 1) /\ f[n] = g[n] /\ f[n - 1] = h[n - 1]
      BY <1>1, <3>1
    <3> HIDE DEF g, h, f
    <3>3. g[n - 1] = h[n - 1]
      BY <3>1, <3>2, GrowsAgree
    <3>4. g[n] = IF s[n] \in T THEN Append(g[n - 1], s[n]) ELSE g[n - 1]
      BY <3>1, <3>2 DEF Grows
    <3> QED BY <3>2, <3>3, <3>4
  <2> QED BY <2>1, <2>2
<1>3. f = Next1(f)
  <2>1. f = [n \in Nat |-> f[n]]
    OBVIOUS
  <2> HIDE DEF f
  <2> QED BY <1>2, <2>1
<1> HIDE DEF f
<1> DEFINE u == CHOOSE x : x = Next1(x)
<1>4. Picked(s, T) = u[Len(s)]
  BY DEF Picked
<1>5. u = Next1(u)
  <2> HIDE DEF Next1
  <2> QED BY <1>3
<1> HIDE DEF u
<1>6. Len(s) \in Nat
  BY LenProperties
<1>7. Grows(u, s, T, Len(s))
  <2>1. u[0] = <<>>
    BY <1>5
  <2>2. ASSUME NEW k \in 1..Len(s)
        PROVE  u[k] = IF s[k] \in T THEN Append(u[k - 1], s[k]) ELSE u[k - 1]
    <3>1. k \in Nat /\ k # 0
      BY <1>6
    <3> QED BY <1>5, <3>1
  <2> QED BY <2>1, <2>2 DEF Grows
<1> QED BY <1>4, <1>7

\* So it has the elements of s that are in T, each once.
LEMMA PickedSelects ==
  ASSUME NEW S, NEW s \in Seq(S), NEW T
  PROVE  Selects(Picked(s, T), s, T, Len(s))
<1>1. PICK g : Grows(g, s, T, Len(s)) /\ Picked(s, T) = g[Len(s)]
  BY PickedGrows
<1>2. Len(s) \in Nat /\ DOMAIN s = 1..Len(s)
  BY LenProperties
<1> DEFINE N == {k \in Nat : k <= Len(s) /\ ~ Selects(g[k], s, T, k)}
<1>3. ASSUME N # {} PROVE FALSE
  <2>1. PICK k \in N : \A j \in N : k <= j
    BY <1>3, LeastOf
  <2>2. k # 0
    <3>1. Selects(<<>>, s, T, 0)
      <4>1. Len(<<>>) = 0 /\ <<>> \in Seq(ToSet(s))
        BY EmptySeq
      <4>2. PICK r : r = <<>>
        OBVIOUS
      <4>3. r \in Seq(ToSet(s)) /\ \A j \in 1..Len(r) : FALSE
        BY <4>1, <4>2
      <4>4. [j \in 1..Len(r) |-> 1] \in [1..Len(r) -> 1..0] /\ \A j \in 1..0 : FALSE
        BY <4>3
      <4>5. Selects(r, s, T, 0)
        BY <4>3, <4>4 DEF Selects
      <4> QED BY <4>2, <4>5
    <3> QED BY <1>1, <2>1, <3>1 DEF Grows
  <2>3. k - 1 \in Nat /\ k - 1 \notin N /\ k \in 1..Len(s)
    BY <1>2, <2>1, <2>2
  <2>4. Selects(g[k - 1], s, T, k - 1)
    BY <1>2, <2>1, <2>3
  <2>5. PICK r : r = g[k - 1]
    OBVIOUS
  <2>6. PICK f \in [1..Len(r) -> 1..k - 1] :
          /\ \A j \in 1..Len(r) : r[j] = s[f[j]] /\ r[j] \in T
          /\ \A j, l \in 1..Len(r) : f[j] = f[l] => j = l
          /\ \A i \in 1..k - 1 : s[i] \in T => \E j \in 1..Len(r) : f[j] = i
    BY <2>4, <2>5 DEF Selects
  <2>7. r \in Seq(ToSet(s)) /\ Len(r) \in Nat
    BY <2>4, <2>5, LenProperties DEF Selects
  <2>8. CASE s[k] \in T
    <3>1. s[k] \in ToSet(s)
      BY <1>2, <2>3 DEF ToSet
    <3>2. PICK a : a = Append(r, s[k])
      OBVIOUS
    <3>3. /\ a \in Seq(ToSet(s)) /\ Len(a) = Len(r) + 1 /\ a[Len(a)] = s[k]
          /\ \A j \in 1..Len(r) : a[j] = r[j]
      BY <2>7, <3>1, <3>2, AppendProperties
    <3>4. \A j \in 1..Len(a) : j # Len(a) => j \in 1..Len(r)
      BY <2>7, <3>3
    <3> DEFINE h == [j \in 1..Len(a) |-> IF j = Len(a) THEN k ELSE f[j]]
    <3>5. /\ Len(a) \in 1..Len(a) /\ h[Len(a)] = k
          /\ \A j \in 1..Len(r) : j \in 1..Len(a) /\ h[j] = f[j]
      BY <2>7, <3>3
    <3>6. \A j \in 1..Len(r) : f[j] \in 1..k /\ f[j] # k
      BY <2>3, <2>6
    <3>7. h \in [1..Len(a) -> 1..k]
      BY <2>3, <3>4, <3>6
    <3> HIDE DEF h
    <3>8. \A j \in 1..Len(a) : a[j] = s[h[j]] /\ a[j] \in T
      BY <2>6, <2>8, <3>3, <3>4, <3>5
    <3>9. \A j, l \in 1..Len(a) : h[j] = h[l] => j = l
      BY <2>6, <3>4, <3>5, <3>6
    <3>10. ASSUME NEW i \in 1..k, s[i] \in T PROVE \E j \in 1..Len(a) : h[j] = i
      <4>1. CASE i = k
        BY <3>5, <4>1
      <4>2. CASE i # k
        <5>1. i \in 1..k - 1
          BY <2>3, <4>2
        <5> QED BY <2>6, <3>5, <3>10, <5>1
      <4> QED BY <4>1, <4>2
    <3>11. g[k] = a
      BY <1>1, <2>3, <2>5, <2>8, <3>2 DEF Grows
    <3>12. Selects(a, s, T, k)
      BY <3>3, <3>7, <3>8, <3>9, <3>10 DEF Selects
    <3> QED BY <2>1, <3>11, <3>12
  <2>9. CASE s[k] \notin T
    <3>1. g[k] = r
      BY <1>1, <2>3, <2>5, <2>9 DEF Grows
    <3>2. f \in [1..Len(r) -> 1..k]
      BY <2>3, <2>6
    <3>3. \A i \in 1..k : s[i] \in T => i \in 1..k - 1
      BY <2>3, <2>9
    <3>4. \A i \in 1..k : s[i] \in T => \E j \in 1..Len(r) : f[j] = i
      BY <2>6, <3>3
    <3>5. /\ r \in Seq(ToSet(s))
          /\ \A j \in 1..Len(r) : r[j] = s[f[j]] /\ r[j] \in T
          /\ \A j, l \in 1..Len(r) : f[j] = f[l] => j = l
      BY <2>6, <2>7
    <3>6. Selects(r, s, T, k)
      BY <3>2, <3>4, <3>5 DEF Selects
    <3> QED BY <2>1, <3>1, <3>6
  <2> QED BY <2>8, <2>9
<1> QED BY <1>1, <1>2, <1>3

\* What a set of entries needs to know of sequences.
LEMMA InSeq ==
  ASSUME NEW s \in Seq(Entry)
  PROVE  /\ Len(s) \in Nat /\ DOMAIN s = 1..Len(s) /\ ToSet(s) \subseteq Entry
         /\ \A i \in 1..Len(s) : s[i] \in ToSet(s)
         /\ \A e \in ToSet(s) : \E i \in 1..Len(s) : e = s[i]
<1>1. Len(s) \in Nat /\ DOMAIN s = 1..Len(s) /\ \A i \in 1..Len(s) : s[i] \in Entry
  BY LenProperties, ElementOfSeq
<1> QED BY <1>1 DEF ToSet

LEMMA PickedEntries ==
  ASSUME NEW s \in Seq(Entry), NEW T
  PROVE  /\ Picked(s, T) \in Seq(Entry) /\ ToSet(Picked(s, T)) = ToSet(s) \cap T
         /\ Distinct(s) => Distinct(Picked(s, T))
<1>1. PICK r : r = Picked(s, T)
  OBVIOUS
<1>2. Selects(r, s, T, Len(s))
  BY <1>1, PickedSelects
<1>3. PICK f \in [1..Len(r) -> 1..Len(s)] :
          /\ \A k \in 1..Len(r) : r[k] = s[f[k]] /\ r[k] \in T
          /\ \A k, l \in 1..Len(r) : f[k] = f[l] => k = l
          /\ \A i \in 1..Len(s) : s[i] \in T => \E k \in 1..Len(r) : f[k] = i
  BY <1>2 DEF Selects
<1>4. r \in Seq(Entry)
  <2>1. r \in Seq(ToSet(s)) /\ ToSet(s) \subseteq Entry
    BY <1>2, InSeq DEF Selects
  <2> QED BY <2>1, SeqMonotonic
<1>5. ToSet(r) = ToSet(s) \cap T
  <2>1. ASSUME NEW e \in ToSet(r) PROVE e \in ToSet(s) \cap T
    <3>1. PICK k \in 1..Len(r) : e = r[k]
      BY <1>4, <2>1, InSeq
    <3> QED BY <1>3, <3>1, InSeq
  <2>2. ASSUME NEW e \in ToSet(s) \cap T PROVE e \in ToSet(r)
    <3>1. PICK i \in 1..Len(s) : e = s[i]
      BY <2>2, InSeq
    <3>2. PICK k \in 1..Len(r) : f[k] = i
      BY <1>3, <2>2, <3>1
    <3> QED BY <1>3, <1>4, <3>1, <3>2, InSeq
  <2> QED BY <2>1, <2>2
<1>6. ASSUME Distinct(s) PROVE Distinct(r)
  <2>1. DOMAIN s = 1..Len(s) /\ DOMAIN r = 1..Len(r)
    BY <1>4, InSeq
  <2> QED BY <1>3, <1>6, <2>1 DEF Distinct
<1> QED BY <1>1, <1>4, <1>5, <1>6

Apart(A, B) == \A e \in A, f \in B : e.id # f.id

\* Translated entries are first.
Ordered(s) == \A i, j \in DOMAIN s : i < j /\ IsTranslated(s[j]) => IsTranslated(s[i])

LEMMA Joined ==
  ASSUME NEW s \in Seq(Entry), NEW t \in Seq(Entry)
  PROVE  /\ s \o t \in Seq(Entry) /\ ToSet(s \o t) = ToSet(s) \cup ToSet(t)
         /\ Len(s \o t) = Len(s) + Len(t)
         /\ Distinct(s \o t) <=> Distinct(s) /\ Distinct(t) /\ Apart(ToSet(s), ToSet(t))
         /\ ToSet(s) \subseteq Translated /\ Ordered(t) => Ordered(s \o t)
         /\ Ordered(s) /\ ToSet(t) \subseteq Untranslated => Ordered(s \o t)
<1>1. PICK r : r = s \o t
  OBVIOUS
<1>2. /\ Len(s) \in Nat /\ Len(t) \in Nat /\ DOMAIN s = 1..Len(s) /\ DOMAIN t = 1..Len(t)
      /\ \A i \in 1..Len(s) : s[i] \in ToSet(s)
      /\ \A i \in 1..Len(t) : t[i] \in ToSet(t)
  BY InSeq
<1>3. /\ r \in Seq(Entry) /\ Len(r) = Len(s) + Len(t) /\ DOMAIN r = 1..Len(r)
      /\ \A i \in 1..Len(r) : r[i] = IF i <= Len(s) THEN s[i] ELSE t[i - Len(s)]
  BY <1>1, ConcatProperties, InSeq
<1>4. \A i \in 1..Len(r) : \/ i \in 1..Len(s) /\ r[i] = s[i]
                           \/ i > Len(s) /\ i - Len(s) \in 1..Len(t) /\ r[i] = t[i - Len(s)]
  BY <1>2, <1>3
<1>5. /\ \A i \in 1..Len(s) : i \in 1..Len(r) /\ r[i] = s[i]
      /\ \A i \in 1..Len(t) : i + Len(s) \in 1..Len(r) /\ r[i + Len(s)] = t[i]
  <2>1. Len(s) \in Nat /\ Len(t) \in Nat /\ Len(r) = Len(s) + Len(t)
    BY <1>2, <1>3
  <2>2. ASSUME NEW i \in 1..Len(s) PROVE i \in 1..Len(r) /\ i <= Len(s)
    BY <2>1
  <2>3. ASSUME NEW i \in 1..Len(t)
        PROVE  i + Len(s) \in 1..Len(r) /\ ~(i + Len(s) <= Len(s)) /\ (i + Len(s)) - Len(s) = i
    BY <2>1
  <2> QED BY <1>3, <2>2, <2>3
<1>6. ToSet(r) = ToSet(s) \cup ToSet(t)
  <2>1. ASSUME NEW e \in ToSet(r) PROVE e \in ToSet(s) \cup ToSet(t)
    <3>1. PICK i \in 1..Len(r) : e = r[i]
      BY <1>3, <2>1, InSeq
    <3> QED BY <1>2, <1>4, <3>1
  <2>2. ASSUME NEW e \in ToSet(s) \cup ToSet(t) PROVE e \in ToSet(r)
    <3>1. CASE e \in ToSet(s)
      <4>1. PICK i \in 1..Len(s) : e = s[i]
        BY <3>1, InSeq
      <4> QED BY <1>3, <1>5, <4>1, InSeq
    <3>2. CASE e \in ToSet(t)
      <4>1. PICK i \in 1..Len(t) : e = t[i]
        BY <3>2, InSeq
      <4> QED BY <1>3, <1>5, <4>1, InSeq
    <3> QED BY <2>2, <3>1, <3>2
  <2> QED BY <2>1, <2>2
<1>7. ASSUME Distinct(s), Distinct(t), Apart(ToSet(s), ToSet(t)) PROVE Distinct(r)
  <2> SUFFICES ASSUME NEW i \in 1..Len(r), NEW j \in 1..Len(r), r[i].id = r[j].id PROVE i = j
    BY <1>3 DEF Distinct
  <2>1. CASE i \in 1..Len(s) /\ r[i] = s[i] /\ j \in 1..Len(s) /\ r[j] = s[j]
    BY <1>2, <1>7, <2>1 DEF Distinct
  <2>2. CASE /\ i > Len(s) /\ i - Len(s) \in 1..Len(t) /\ r[i] = t[i - Len(s)]
             /\ j > Len(s) /\ j - Len(s) \in 1..Len(t) /\ r[j] = t[j - Len(s)]
    <3>1. i - Len(s) = j - Len(s)
      BY <1>2, <1>7, <2>2 DEF Distinct
    <3> QED BY <1>2, <1>3, <3>1
  <2>3. CASE i \in 1..Len(s) /\ r[i] = s[i] /\ j - Len(s) \in 1..Len(t) /\ r[j] = t[j - Len(s)]
    BY <1>2, <1>7, <2>3 DEF Apart
  <2>4. CASE j \in 1..Len(s) /\ r[j] = s[j] /\ i - Len(s) \in 1..Len(t) /\ r[i] = t[i - Len(s)]
    BY <1>2, <1>7, <2>4 DEF Apart
  <2> QED BY <1>4, <2>1, <2>2, <2>3, <2>4
<1>8. ASSUME ToSet(s) \subseteq Translated, Ordered(t) PROVE Ordered(r)
  <2> SUFFICES ASSUME NEW i \in 1..Len(r), NEW j \in 1..Len(r), i < j, IsTranslated(r[j])
               PROVE  IsTranslated(r[i])
    BY <1>3 DEF Ordered
  <2>1. CASE i \in 1..Len(s) /\ r[i] = s[i]
    BY <1>2, <1>8, <2>1 DEF Translated
  <2>2. CASE i > Len(s) /\ i - Len(s) \in 1..Len(t) /\ r[i] = t[i - Len(s)]
    <3>1. j - Len(s) \in 1..Len(t) /\ r[j] = t[j - Len(s)] /\ i - Len(s) < j - Len(s)
      BY <1>2, <1>3, <1>4, <2>2
    <3> QED BY <1>2, <1>8, <2>2, <3>1 DEF Ordered
  <2> QED BY <1>4, <2>1, <2>2
<1>9. ASSUME Ordered(s), ToSet(t) \subseteq Untranslated PROVE Ordered(r)
  <2> SUFFICES ASSUME NEW i \in 1..Len(r), NEW j \in 1..Len(r), i < j, IsTranslated(r[j])
               PROVE  IsTranslated(r[i])
    BY <1>3 DEF Ordered
  <2>1. ~(j - Len(s) \in 1..Len(t) /\ r[j] = t[j - Len(s)])
    BY <1>2, <1>9 DEF Untranslated, IsTranslated, IsUntranslated
  <2>2. j \in 1..Len(s) /\ r[j] = s[j]
    BY <1>4, <2>1
  <2>3. i \in 1..Len(s) /\ r[i] = s[i]
    <3>1. i \in 1..Len(s)
      <4>1. Len(s) \in Nat /\ i \in Int /\ i >= 1 /\ i < j /\ j <= Len(s) /\ j \in Int
        BY <1>2, <1>3, <2>2
      <4> QED BY <4>1
    <3> QED BY <1>5, <3>1
  <2> QED BY <1>2, <1>9, <2>2, <2>3 DEF Ordered
<1>10. ASSUME Distinct(r) PROVE Distinct(s) /\ Distinct(t) /\ Apart(ToSet(s), ToSet(t))
  <2>1. \A i, j \in 1..Len(r) : r[i].id = r[j].id => i = j
    BY <1>3, <1>10 DEF Distinct
  <2>2. Distinct(s)
    BY <1>2, <1>5, <2>1 DEF Distinct
  <2>3. Distinct(t)
    <3> SUFFICES ASSUME NEW i \in 1..Len(t), NEW j \in 1..Len(t), t[i].id = t[j].id PROVE i = j
      BY <1>2 DEF Distinct
    <3>1. i + Len(s) = j + Len(s)
      BY <1>5, <2>1
    <3> QED BY <1>2, <3>1
  <2>4. ASSUME NEW e \in ToSet(s), NEW f \in ToSet(t) PROVE e.id # f.id
    <3>1. PICK i \in 1..Len(s) : e = s[i]
      BY InSeq
    <3>2. PICK j \in 1..Len(t) : f = t[j]
      BY InSeq
    <3>3. i # j + Len(s)
      BY <1>2
    <3> QED BY <1>5, <2>1, <3>1, <3>2, <3>3
  <2> QED BY <2>2, <2>3, <2>4 DEF Apart
<1> QED BY <1>1, <1>3, <1>6, <1>7, <1>8, <1>9, <1>10

\* A sequence is cut after n elements.
LEMMA Cut ==
  ASSUME NEW s \in Seq(Entry), NEW n \in 0..Len(s)
  PROVE  \E a, b \in Seq(Entry) :
           /\ a = SubSeq(s, 1, n) /\ b = SubSeq(s, n + 1, Len(s))
           /\ s = a \o b /\ Len(a) = n /\ Len(b) = Len(s) - n
           /\ \A i \in 1..n : a[i] = s[i]
           /\ \A i \in 1..Len(b) : b[i] = s[n + i]
<1> DEFINE a == SubSeq(s, 1, n)
           b == SubSeq(s, n + 1, Len(s))
<1>1. /\ Len(s) \in Nat /\ n \in Nat /\ n <= Len(s)
      /\ \A i \in 1..Len(s) : s[i] \in Entry
  BY InSeq, ElementOfSeq
<1>2. a \in Seq(Entry) /\ Len(a) = n /\ \A i \in 1..n : a[i] = s[i]
  <2>1. \A i \in 1..n : s[i] \in Entry
    BY <1>1
  <2>2. /\ a \in Seq(Entry) /\ Len(a) = IF 1 <= n THEN n - 1 + 1 ELSE 0
        /\ \A i \in 1..n - 1 + 1 : a[i] = s[1 + i - 1]
    BY <1>1, <2>1, SubSeqProperties
  <2> QED BY <1>1, <2>2
<1>3. b \in Seq(Entry) /\ Len(b) = Len(s) - n /\ \A i \in 1..Len(b) : b[i] = s[n + i]
  <2>1. \A i \in n + 1..Len(s) : s[i] \in Entry
    BY <1>1
  <2>2. /\ b \in Seq(Entry) /\ Len(b) = IF n + 1 <= Len(s) THEN Len(s) - (n + 1) + 1 ELSE 0
        /\ \A i \in 1..Len(s) - (n + 1) + 1 : b[i] = s[(n + 1) + i - 1]
    BY <1>1, <2>1, SubSeqProperties
  <2>3. n \in Nat /\ Len(s) \in Nat /\ n <= Len(s)
    BY <1>1
  <2> HIDE DEF b
  <2>4. Len(b) = Len(s) - n
    BY <2>2, <2>3
  <2>5. ASSUME NEW i \in 1..Len(b)
        PROVE  i \in 1..Len(s) - (n + 1) + 1 /\ (n + 1) + i - 1 = n + i
    BY <2>3, <2>4
  <2> QED BY <2>2, <2>4, <2>5
<1>4. s = a \o b
  <2>1. 1 \in 1..Len(s) + 1 /\ n \in 1 - 1..Len(s) /\ Len(s) \in n..Len(s)
    BY <1>1
  <2>2. a \o b = SubSeq(s, 1, Len(s))
    BY <2>1, ConcatAdjacentSubSeq
  <2> QED BY <2>2, SubSeqFull
<1>5. a = SubSeq(s, 1, n) /\ b = SubSeq(s, n + 1, Len(s))
  OBVIOUS
<1> HIDE DEF a, b
<1> QED BY <1>2, <1>3, <1>4, <1>5

\* Each element is changed, and keeps its number.
LEMMA Changed ==
  ASSUME NEW s \in Seq(Entry), NEW F, NEW r \in [DOMAIN s -> Entry],
         \A i \in DOMAIN s : r[i] = F[s[i]],
         \A e \in ToSet(s) : F[e] \in Entry /\ F[e].id = e.id
  PROVE  /\ r \in Seq(Entry) /\ Len(r) = Len(s)
         /\ ToSet(r) = {F[e] : e \in ToSet(s)}
         /\ Distinct(s) => Distinct(r)
         /\ (\A e \in ToSet(s) : F[e].is_translated = e.is_translated) /\ Ordered(s) => Ordered(r)
<1>1. /\ Len(s) \in Nat /\ DOMAIN s = 1..Len(s)
      /\ \A i \in 1..Len(s) : s[i] \in ToSet(s)
      /\ \A e \in ToSet(s) : \E i \in 1..Len(s) : e = s[i]
  BY InSeq
<1>2. r \in [1..Len(s) -> Entry] /\ \A i \in 1..Len(s) : r[i] = F[s[i]]
  BY <1>1
<1>3. r \in Seq(Entry) /\ Len(r) = Len(s) /\ DOMAIN r = 1..Len(s)
  <2>1. r \in Seq(Entry)
    BY <1>1, <1>2, SeqDef
  <2>2. DOMAIN r = 1..Len(r) /\ Len(r) \in Nat /\ DOMAIN r = 1..Len(s)
    BY <1>2, <2>1, LenProperties
  <2>3. Len(r) = Len(s)
    BY <1>1, <2>2
  <2> QED BY <2>1, <2>2, <2>3
<1>4. ToSet(r) = {F[e] : e \in ToSet(s)}
  BY <1>1, <1>2, <1>3 DEF ToSet
<1>5. Distinct(s) => Distinct(r)
  BY <1>1, <1>2, <1>3 DEF Distinct
<1>6. ASSUME \A e \in ToSet(s) : F[e].is_translated = e.is_translated, Ordered(s) PROVE Ordered(r)
  BY <1>1, <1>2, <1>3, <1>6 DEF Ordered, IsTranslated
<1> QED BY <1>3, <1>4, <1>5, <1>6

\* An entry after the answer for page v.
Answered(e, v) == IF MatchesVpage(e, v) THEN Marked(e, v) ELSE e

LEMMA AnsweredEntry ==
  ASSUME NEW e \in Entry, NEW v \in Vpage
  PROVE  /\ Answered(e, v) \in Entry /\ Answered(e, v).id = e.id
         /\ Answered(e, v).v_page = e.v_page
         /\ Answered(e, v).translate_issued = e.translate_issued
         /\ MatchesVpage(e, v) => Answered(e, v).is_translated /\ Answered(e, v).page = PageOf[v]
         /\ ~MatchesVpage(e, v) => Answered(e, v) = e
BY DEF Answered, Marked, Entry, TranslationAssumption

LEMMA MarkedEntries ==
  ASSUME NEW s \in Seq(Entry), NEW v \in Vpage
  PROVE  /\ MarkedAll(s, v) \in Seq(Entry) /\ Len(MarkedAll(s, v)) = Len(s)
         /\ ToSet(MarkedAll(s, v)) = {Answered(e, v) : e \in ToSet(s)}
         /\ Distinct(s) => Distinct(MarkedAll(s, v))
<1> DEFINE F == [e \in Entry |-> Answered(e, v)]
<1>1. \A i \in DOMAIN s : s[i] \in Entry
  BY LenProperties, ElementOfSeq
<1>2. MarkedAll(s, v) = [i \in DOMAIN s |-> F[s[i]]]
  BY <1>1 DEF MarkedAll, Answered
<1>3. \A e \in Entry : F[e] = Answered(e, v)
  OBVIOUS
<1> HIDE DEF F
<1>4. \A e \in ToSet(s) : F[e] \in Entry /\ F[e].id = e.id
  BY <1>3, AnsweredEntry, InSeq
<1>5. {F[e] : e \in ToSet(s)} = {Answered(e, v) : e \in ToSet(s)}
  BY <1>3, InSeq
<1>6. PICK r : r = MarkedAll(s, v)
  OBVIOUS
<1>7. r = [i \in DOMAIN s |-> F[s[i]]]
  BY <1>2, <1>6
<1>8. /\ r \in Seq(Entry) /\ Len(r) = Len(s) /\ ToSet(r) = {F[e] : e \in ToSet(s)}
      /\ Distinct(s) => Distinct(r)
  <2>1. \A e \in ToSet(s) : F[e] \in Entry /\ F[e].id = e.id
    BY <1>4
  <2>2. r \in [DOMAIN s -> Entry] /\ \A i \in DOMAIN s : r[i] = F[s[i]]
    BY <1>1, <1>3, <1>7, AnsweredEntry
  <2>3. /\ r \in Seq(Entry) /\ Len(r) = Len(s)
        /\ ToSet(r) = {F[e] : e \in ToSet(s)}
        /\ Distinct(s) => Distinct(r)
        /\ (\A e \in ToSet(s) : F[e].is_translated = e.is_translated) /\ Ordered(s) => Ordered(r)
    BY <2>1, <2>2, Changed
  <2> QED BY <2>3
<1> QED BY <1>5, <1>6, <1>8

\* What is taken from the stash and what remains.
LEMMA RestartedEntries ==
  ASSUME NEW s \in Seq(Entry), NEW v \in Vpage, Ordered(s)
  PROVE  /\ Restarted(s, v) \in Seq(Entry) /\ Ordered(Restarted(s, v))
         /\ ToSet(Restarted(s, v)) = {Answered(e, v) : e \in ToSet(s)}
         /\ Distinct(s) => Distinct(Restarted(s, v))
<1> DEFINE I == {i \in 1..Len(s) : IsUntranslated(s[i])}
           k == SelectInSeq(s, IsUntranslated)
<1>1. /\ Len(s) \in Nat /\ DOMAIN s = 1..Len(s)
      /\ \A i \in 1..Len(s) : s[i] \in Entry /\ s[i] \in ToSet(s)
  BY InSeq, ElementOfSeq
<1>2. CASE I = {}
  <2>1. k = 0
    BY <1>2 DEF SelectInSeq
  <2>2. Restarted(s, v) = s
    BY <2>1 DEF Restarted
  <2>3. ASSUME NEW e \in ToSet(s) PROVE Answered(e, v) = e
    <3>1. PICK i \in 1..Len(s) : e = s[i]
      BY InSeq
    <3>2. ~ IsUntranslated(e)
      BY <1>2, <3>1
    <3> QED BY <3>2 DEF Answered, MatchesVpage
  <2>4. {Answered(e, v) : e \in ToSet(s)} = ToSet(s)
    BY <2>3
  <2> QED BY <2>2, <2>4
<1>3. CASE I # {}
  <2>1. k \in I /\ \A i \in I : k <= i
    <3>1. I \subseteq Nat
      OBVIOUS
    <3>2. PICK j \in I : \A i \in I : j <= i
      BY <1>3, <3>1, LeastOf
    <3>3. k = Min(I)
      BY <1>3 DEF SelectInSeq
    <3> HIDE DEF I, k
    <3> QED BY <3>2, <3>3 DEF Min
  <2>2. k \in 1..Len(s) /\ IsUntranslated(s[k]) /\ \A i \in 1..Len(s) : i < k => IsTranslated(s[i])
    <3>1. k \in 1..Len(s) /\ IsUntranslated(s[k])
      BY <2>1
    <3>2. ASSUME NEW i \in 1..Len(s), i < k PROVE IsTranslated(s[i])
      <4>1. i \notin I
        <5> HIDE DEF I, k
        <5> QED BY <1>1, <2>1, <3>1, <3>2
      <4> QED BY <4>1 DEF IsTranslated, IsUntranslated
    <3> QED BY <3>1, <3>2
  <2> HIDE DEF I
  <2> DEFINE a == SubSeq(s, 1, k - 1)
             rest == SubSeq(s, k, Len(s))
             M == {e \in Entry : MatchesVpage(e, v)}
             O == {e \in Entry : ~MatchesVpage(e, v)}
             m == Picked(rest, M)
             r == [i \in DOMAIN m |-> Marked(m[i], v)]
             o == Picked(rest, O)
  <2>3. Restarted(s, v) = (a \o r) \o o
    <3>1. k # 0
      BY <1>1, <2>2
    <3> QED BY <3>1 DEF Restarted
  <2> HIDE DEF k
  <2>4. /\ a \in Seq(Entry) /\ rest \in Seq(Entry) /\ Len(a) = k - 1 /\ s = a \o rest
        /\ Len(rest) = Len(s) - (k - 1)
        /\ \A i \in 1..k - 1 : a[i] = s[i]
        /\ \A i \in 1..Len(rest) : rest[i] = s[(k - 1) + i]
    <3>1. PICK n : n = k - 1
      OBVIOUS
    <3>2. n \in 0..Len(s) /\ k = n + 1
      BY <1>1, <2>2, <3>1
    <3>3. \E x, y \in Seq(Entry) :
            /\ x = SubSeq(s, 1, n) /\ y = SubSeq(s, n + 1, Len(s))
            /\ s = x \o y /\ Len(x) = n /\ Len(y) = Len(s) - n
            /\ \A i \in 1..n : x[i] = s[i]
            /\ \A i \in 1..Len(y) : y[i] = s[n + i]
      BY <3>2, Cut
    <3>4. a = SubSeq(s, 1, n) /\ rest = SubSeq(s, n + 1, Len(s))
      BY <3>1, <3>2
    <3> HIDE DEF a, rest
    <3> QED BY <3>1, <3>3, <3>4
  <2> HIDE DEF a, rest
  <2>5. ToSet(a) \subseteq Translated
    <3> SUFFICES ASSUME NEW e \in ToSet(a) PROVE e \in Translated
      OBVIOUS
    <3>1. PICK i \in 1..Len(a) : e = a[i]
      BY <2>4, InSeq
    <3>2. i \in 1..k - 1 /\ i \in 1..Len(s) /\ i < k
      BY <1>1, <2>2, <2>4
    <3> QED BY <1>1, <2>2, <2>4, <3>1, <3>2 DEF Translated
  <2>6. ToSet(rest) \subseteq Untranslated
    <3> SUFFICES ASSUME NEW e \in ToSet(rest) PROVE e \in Untranslated
      OBVIOUS
    <3>1. e \in Entry
      BY <2>4, InSeq
    <3>2. PICK i \in 1..Len(rest) : e = rest[i]
      BY <2>4, InSeq
    <3>3. PICK j : j = (k - 1) + i
      OBVIOUS
    <3>4. j \in 1..Len(s) /\ (j = k \/ k < j)
      BY <1>1, <2>2, <2>4, <3>3
    <3>5. e = s[j]
      BY <2>4, <3>2, <3>3
    <3>6. ~ IsTranslated(s[j])
      BY <1>1, <2>2, <3>4 DEF Ordered, IsTranslated, IsUntranslated
    <3> QED BY <3>1, <3>5, <3>6 DEF Untranslated, IsTranslated, IsUntranslated
  <2>7. /\ m \in Seq(Entry) /\ ToSet(m) = ToSet(rest) \cap M
        /\ o \in Seq(Entry) /\ ToSet(o) = ToSet(rest) \cap O
        /\ Distinct(rest) => Distinct(m) /\ Distinct(o)
    BY <2>4, PickedEntries
  <2> HIDE DEF m, o
  <2>8. /\ r \in Seq(Entry) /\ ToSet(r) = {Answered(e, v) : e \in ToSet(m)}
        /\ Distinct(m) => Distinct(r)
    <3>1. \A i \in DOMAIN m : MatchesVpage(m[i], v)
      <4>1. \A i \in DOMAIN m : m[i] \in ToSet(m)
        BY <2>7, InSeq
      <4> QED BY <2>7, <4>1
    <3>2. r = MarkedAll(m, v)
      BY <3>1 DEF MarkedAll
    <3> HIDE DEF r
    <3>3. PICK x : x = MarkedAll(m, v)
      OBVIOUS
    <3>4. /\ x \in Seq(Entry) /\ ToSet(x) = {Answered(e, v) : e \in ToSet(m)}
          /\ Distinct(m) => Distinct(x)
      BY <2>7, <3>3, MarkedEntries
    <3> QED BY <3>2, <3>3, <3>4
  <2> HIDE DEF r
  <2>9. /\ \A e \in ToSet(a) : Answered(e, v) = e /\ e \in Entry
        /\ \A e \in ToSet(o) : Answered(e, v) = e /\ e \in Entry
        /\ \A e \in ToSet(m) : MatchesVpage(e, v) /\ e \in Entry
        /\ ToSet(rest) = ToSet(m) \cup ToSet(o)
    <3>1. ToSet(rest) \subseteq Entry
      BY <2>4, InSeq
    <3> QED BY <2>5, <2>7, <3>1 DEF Answered, MatchesVpage, Translated, IsTranslated, IsUntranslated
  <2>10. ToSet(r) \subseteq Translated /\ ToSet(o) \subseteq Untranslated
    BY <2>6, <2>7, <2>8, <2>9, AnsweredEntry DEF Translated, IsTranslated
  <2>11. Ordered(a)
    <3>1. \A i \in DOMAIN a : IsTranslated(a[i])
      BY <2>4, <2>5, InSeq DEF Translated
    <3> QED BY <3>1 DEF Ordered
  <2>12. /\ a \o r \in Seq(Entry) /\ ToSet(a \o r) = ToSet(a) \cup ToSet(r)
         /\ Ordered(a \o r)
         /\ Distinct(a) /\ Distinct(r) /\ Apart(ToSet(a), ToSet(r)) => Distinct(a \o r)
    <3>1. Ordered(r)
      <4>1. \A i \in DOMAIN r : IsTranslated(r[i])
        BY <2>8, <2>10, InSeq DEF Translated
      <4> QED BY <4>1 DEF Ordered
    <3> QED BY <2>4, <2>5, <2>8, <3>1, Joined
  <2> DEFINE t == a \o r
  <2>13. /\ t \o o \in Seq(Entry) /\ ToSet(t \o o) = ToSet(t) \cup ToSet(o)
         /\ Ordered(t \o o)
         /\ Distinct(t) /\ Distinct(o) /\ Apart(ToSet(t), ToSet(o)) => Distinct(t \o o)
    <3>1. t \in Seq(Entry) /\ Ordered(t)
      BY <2>12
    <3> HIDE DEF t
    <3> QED BY <2>7, <2>10, <3>1, Joined
  <2>14. ToSet(t) \cup ToSet(o) = {Answered(e, v) : e \in ToSet(s)}
    <3>1. ToSet(s) = ToSet(a) \cup ToSet(rest)
      BY <2>4, Joined
    <3> QED BY <2>8, <2>9, <2>12, <3>1
  <2>15. ASSUME Distinct(s) PROVE Distinct(t \o o)
    <3>1. Distinct(a) /\ Distinct(rest) /\ Apart(ToSet(a), ToSet(rest))
      BY <2>4, <2>15, Joined
    <3>2. Distinct(r) /\ Distinct(o)
      BY <2>7, <2>8, <3>1
    <3>3. \A x \in ToSet(r) : \E e \in ToSet(m) : x.id = e.id
      <4> SUFFICES ASSUME NEW x \in ToSet(r) PROVE \E e \in ToSet(m) : x.id = e.id
        OBVIOUS
      <4>1. PICK e \in ToSet(m) : x = Answered(e, v)
        BY <2>8
      <4>2. e \in Entry
        BY <2>9, <4>1
      <4>3. Answered(e, v).id = e.id
        BY <4>2, AnsweredEntry
      <4> QED BY <4>1, <4>3
    <3>4. Apart(ToSet(a), ToSet(r)) /\ Apart(ToSet(a), ToSet(o))
      BY <2>9, <3>1, <3>3 DEF Apart
    <3>5. Apart(ToSet(m), ToSet(o))
      <4> SUFFICES ASSUME NEW e \in ToSet(m), NEW f \in ToSet(o), e.id = f.id PROVE FALSE
        BY DEF Apart
      <4>1. PICK i \in 1..Len(rest) : e = rest[i]
        BY <2>4, <2>9, InSeq
      <4>2. PICK j \in 1..Len(rest) : f = rest[j]
        BY <2>4, <2>9, InSeq
      <4>3. DOMAIN rest = 1..Len(rest)
        BY <2>4, InSeq
      <4>4. e = f
        BY <3>1, <4>1, <4>2, <4>3 DEF Distinct
      <4> QED BY <2>7, <4>4
    <3>6. Apart(ToSet(t), ToSet(o))
      BY <2>12, <3>3, <3>4, <3>5 DEF Apart
    <3> QED BY <2>12, <2>13, <3>1, <3>2, <3>4, <3>6
  <2> QED BY <2>3, <2>13, <2>14, <2>15
<1> QED BY <1>2, <1>3

\* An entry when the requests of ids are accepted.
Issued(e, ids) == [e EXCEPT !.translate_issued = @ \/ e.id \in ids]

LEMMA IssuedEntry ==
  ASSUME NEW e \in Entry, NEW ids
  PROVE  /\ Issued(e, ids) \in Entry /\ Issued(e, ids).id = e.id
         /\ Issued(e, ids).v_page = e.v_page /\ Issued(e, ids).page = e.page
         /\ Issued(e, ids).is_translated = e.is_translated
         /\ Issued(e, ids).translate_issued = (e.translate_issued \/ e.id \in ids)
BY DEF Issued, Entry

LEMMA IssuedEntries ==
  ASSUME NEW s \in Seq(Entry), NEW ids
  PROVE  /\ IssuedIn(s, ids) \in Seq(Entry) /\ Len(IssuedIn(s, ids)) = Len(s)
         /\ ToSet(IssuedIn(s, ids)) = {Issued(e, ids) : e \in ToSet(s)}
         /\ Distinct(s) => Distinct(IssuedIn(s, ids))
         /\ Ordered(s) => Ordered(IssuedIn(s, ids))
<1> DEFINE F == [e \in Entry |-> Issued(e, ids)]
<1>1. \A i \in DOMAIN s : s[i] \in Entry
  BY LenProperties, ElementOfSeq
<1>2. PICK r : r = IssuedIn(s, ids)
  OBVIOUS
<1>3. r = [i \in DOMAIN s |-> F[s[i]]]
  BY <1>1, <1>2 DEF IssuedIn, Issued
<1>4. \A e \in Entry : F[e] = Issued(e, ids)
  OBVIOUS
<1> HIDE DEF F
<1>5. \A e \in ToSet(s) : F[e] \in Entry /\ F[e].id = e.id /\ F[e].is_translated = e.is_translated
  BY <1>4, IssuedEntry, InSeq
<1>6. /\ r \in Seq(Entry) /\ Len(r) = Len(s) /\ ToSet(r) = {F[e] : e \in ToSet(s)}
      /\ Distinct(s) => Distinct(r)
      /\ Ordered(s) => Ordered(r)
  <2>1. \A e \in ToSet(s) : F[e] \in Entry /\ F[e].id = e.id
    BY <1>5
  <2>2. \A e \in ToSet(s) : F[e].is_translated = e.is_translated
    BY <1>5
  <2>3. r \in [DOMAIN s -> Entry] /\ \A i \in DOMAIN s : r[i] = F[s[i]]
    BY <1>1, <1>3, <1>4, IssuedEntry
  <2>4. /\ r \in Seq(Entry) /\ Len(r) = Len(s)
        /\ ToSet(r) = {F[e] : e \in ToSet(s)}
        /\ Distinct(s) => Distinct(r)
        /\ (\A e \in ToSet(s) : F[e].is_translated = e.is_translated) /\ Ordered(s) => Ordered(r)
    BY <2>1, <2>3, Changed
  <2> QED BY <2>2, <2>4
<1>7. {F[e] : e \in ToSet(s)} = {Issued(e, ids) : e \in ToSet(s)}
  BY <1>4, InSeq
<1> QED BY <1>2, <1>6, <1>7

LEMMA AppendedEntry ==
  ASSUME NEW s \in Seq(Entry), NEW e \in Entry
  PROVE  /\ Append(s, e) \in Seq(Entry) /\ ToSet(Append(s, e)) = ToSet(s) \cup {e}
         /\ Len(Append(s, e)) = Len(s) + 1
         /\ Distinct(s) /\ Apart(ToSet(s), {e}) => Distinct(Append(s, e))
<1>1. PICK t : t = <<e>>
  OBVIOUS
<1>2. t \in Seq(Entry) /\ Len(t) = 1 /\ t[1] = e /\ DOMAIN t = 1..1
  BY <1>1
<1>3. ToSet(t) = {e} /\ Distinct(t)
  BY <1>2 DEF ToSet, Distinct
<1>4. Append(s, e) = s \o t
  BY <1>1, AppendIsConcat
<1>5. PICK x : x = s \o t
  OBVIOUS
<1>6. /\ x \in Seq(Entry) /\ ToSet(x) = ToSet(s) \cup ToSet(t) /\ Len(x) = Len(s) + Len(t)
      /\ Distinct(s) /\ Distinct(t) /\ Apart(ToSet(s), ToSet(t)) => Distinct(x)
  BY <1>2, <1>5, Joined
<1> QED BY <1>2, <1>3, <1>4, <1>5, <1>6

LEMMA TakenFirst ==
  ASSUME NEW s \in Seq(Entry), s # <<>>
  PROVE  /\ Head(s) \in Entry /\ Tail(s) \in Seq(Entry) /\ ToSet(s) = ToSet(Tail(s)) \cup {Head(s)}
         /\ Distinct(s) => Distinct(Tail(s)) /\ Apart({Head(s)}, ToSet(Tail(s)))
         /\ Ordered(s) => Ordered(Tail(s))
<1>1. /\ Head(s) \in Entry /\ Tail(s) \in Seq(Entry) /\ Len(Tail(s)) = Len(s) - 1
      /\ \A i \in 1..Len(Tail(s)) : Tail(s)[i] = s[i + 1]
  BY HeadTailProperties
<1>2. Len(s) \in Nat /\ Len(s) >= 1 /\ DOMAIN s = 1..Len(s) /\ Head(s) = s[1]
  BY EmptySeq, LenProperties
<1>3. PICK t : t = Tail(s)
  OBVIOUS
<1>4. PICK h : h = <<Head(s)>>
  OBVIOUS
<1>5. h \in Seq(Entry) /\ Len(h) = 1 /\ h[1] = Head(s) /\ DOMAIN h = 1..1
  BY <1>1, <1>4
<1>6. ToSet(h) = {Head(s)}
  BY <1>5 DEF ToSet
<1>7. s = h \o t
  <2>1. t \in Seq(Entry) /\ Len(t) = Len(s) - 1 /\ \A i \in 1..Len(t) : t[i] = s[i + 1]
    BY <1>1, <1>3
  <2>2. /\ h \o t \in Seq(Entry) /\ Len(h \o t) = 1 + Len(t)
        /\ \A i \in 1..1 + Len(t) : (h \o t)[i] = IF i <= 1 THEN h[i] ELSE t[i - 1]
    <3>1. /\ h \o t \in Seq(Entry) /\ Len(h \o t) = Len(h) + Len(t)
          /\ \A i \in 1..Len(h) + Len(t) : (h \o t)[i] = IF i <= Len(h) THEN h[i] ELSE t[i - Len(h)]
      <4>1. h \in Seq(Entry) /\ t \in Seq(Entry)
        BY <1>5, <2>1
      <4> QED BY <4>1, ConcatProperties
    <3>2. PICK n : n = Len(h)
      OBVIOUS
    <3>3. n = 1
      BY <1>5, <3>2
    <3> QED BY <3>1, <3>2, <3>3
  <2>3. PICK x : x = h \o t
    OBVIOUS
  <2>4. x \in Seq(Entry) /\ Len(s) = Len(x)
    <3>1. x \in Seq(Entry) /\ Len(x) = 1 + Len(t)
      BY <2>2, <2>3
    <3>2. Len(t) = Len(s) - 1 /\ Len(s) \in Nat
      BY <1>2, <2>1
    <3> QED BY <3>1, <3>2
  <2>5. ASSUME NEW i \in 1..Len(s) PROVE s[i] = x[i]
    <3>1. i = 1 \/ (i - 1 \in 1..Len(t) /\ (i - 1) + 1 = i /\ ~(i <= 1))
      BY <1>2, <2>1
    <3>2. i \in 1..1 + Len(t)
      BY <1>2, <2>1
    <3>3. CASE i = 1
      BY <1>2, <1>5, <2>2, <2>3, <3>2, <3>3
    <3>4. CASE i # 1
      BY <2>1, <2>2, <2>3, <3>1, <3>2, <3>4
    <3> QED BY <3>3, <3>4
  <2> QED BY <2>3, <2>4, <2>5, SeqEqual
<1>8. ASSUME Ordered(s) PROVE Ordered(t)
  <2> SUFFICES ASSUME NEW i \in 1..Len(t), NEW j \in 1..Len(t), i < j, IsTranslated(t[j])
               PROVE  IsTranslated(t[i])
    BY <1>1, <1>3, InSeq DEF Ordered
  <2>1. i + 1 \in 1..Len(s) /\ j + 1 \in 1..Len(s) /\ i + 1 < j + 1
    BY <1>1, <1>2, <1>3
  <2>2. t[i] = s[i + 1] /\ t[j] = s[j + 1]
    BY <1>1, <1>3
  <2> QED BY <1>2, <1>8, <2>1, <2>2 DEF Ordered
<1>9. t \in Seq(Entry)
  BY <1>1, <1>3
<1>10. ToSet(s) = ToSet(t) \cup {Head(s)} /\ (Distinct(s) => Distinct(t) /\ Apart({Head(s)}, ToSet(t)))
  <2>1. PICK x : x = h \o t
    OBVIOUS
  <2>2. ToSet(x) = ToSet(h) \cup ToSet(t) /\ (Distinct(x) => Distinct(t) /\ Apart(ToSet(h), ToSet(t)))
    BY <1>5, <1>9, <2>1, Joined
  <2> QED BY <1>6, <1>7, <2>1, <2>2
<1> QED BY <1>1, <1>3, <1>8, <1>10

LEMMA AccessesAreFinite ==
  ASSUME NEW S \in SUBSET Access
  PROVE  IsFiniteSet(S) /\ Cardinality(S) \in Nat /\ \A T \in SUBSET S : Cardinality(T) <= Cardinality(S)
<1>1. IsFiniteSet(Access)
  BY FS_Interval DEF Access, TranslationAssumption
<1>2. IsFiniteSet(S)
  BY <1>1, FS_Subset
<1> QED BY <1>2, FS_Subset, FS_CardinalityType

LEMMA IdsAreAccesses ==
  ASSUME NEW S \in SUBSET Entry
  PROVE  Ids(S) \subseteq Access
BY DEF Ids, Entry

\* Entries that are all of different accesses are as many as these.
LEMMA IdsCount ==
  ASSUME NEW s \in Seq(Entry), Distinct(s)
  PROVE  Cardinality(Ids(ToSet(s))) = Len(s)
<1>1. Len(s) \in Nat /\ DOMAIN s = 1..Len(s) /\ \A i \in 1..Len(s) : s[i] \in ToSet(s)
  BY InSeq
<1> DEFINE f == [i \in 1..Len(s) |-> s[i].id]
           D == 1..Len(s)
<1>2. f \in [D -> Ids(ToSet(s))]
  BY <1>1 DEF Ids
<1>3. \A i, j \in D : f[i] = f[j] => i = j
  BY <1>1 DEF Distinct
<1>4. \A x \in Ids(ToSet(s)) : \E i \in D : f[i] = x
  <2> SUFFICES ASSUME NEW x \in Ids(ToSet(s)) PROVE \E i \in D : f[i] = x
    OBVIOUS
  <2>1. PICK e \in ToSet(s) : x = e.id
    BY DEF Ids
  <2>2. PICK i \in 1..Len(s) : e = s[i]
    BY InSeq
  <2> QED BY <2>1, <2>2
<1>5. IsFiniteSet(D) /\ Cardinality(D) = Len(s)
  <2>1. PICK n : n = Len(s)
    OBVIOUS
  <2>2. n \in Nat /\ n \in Int /\ 1 \in Int
    BY <1>1, <2>1
  <2>3. IsFiniteSet(1..n) /\ Cardinality(1..n) = IF 1 > n THEN 0 ELSE n - 1 + 1
    BY <2>2, FS_Interval
  <2>4. IsFiniteSet(1..n) /\ Cardinality(1..n) = n
    BY <2>2, <2>3
  <2> QED BY <2>1, <2>4
<1> HIDE DEF f, D
<1>6. f \in Bijection(D, Ids(ToSet(s)))
  BY <1>2, <1>3, <1>4 DEF Bijection, Injection, Surjection, IsInjective
<1>7. ExistsBijection(D, Ids(ToSet(s)))
  BY <1>6 DEF ExistsBijection
<1> QED BY <1>5, <1>7, FS_Bijection

-----------------------------------------------------------------------------
(* The inductive invariant *)

InFlight == ToSet(inflight_tag_check)
Stashed == ToSet(translation_stash)

\* Every access is at one place.
OnlyOnce ==
  Distinct(inflight_tag_check) /\ Distinct(translation_stash) /\ Apart(InFlight, Stashed)

\* What an entry is owed, or has.
Served(e) ==
  /\ e.id <= arrived
  /\ e.v_page = NoPage => IsTranslated(e)
  /\ e.v_page # NoPage /\ IsTranslated(e) => e.page = PageOf[e.v_page]
  /\ e.translate_issued /\ IsUntranslated(e) => <<e.id, e.v_page>> \in outstanding

\* Who is in the stash, or may go there.
HeldIn(S, T) == Ids(T) \cup Ids({e \in S : IsUntranslated(e)})

HasRoom == Cardinality(HeldIn(InFlight, Stashed)) <= MSHR_SIZE - 1 + TagChecks

Inv ==
  /\ TypeOK /\ Ordered(translation_stash) /\ OnlyOnce
  /\ \A e \in InFlight \cup Stashed : Served(e)
  /\ HasRoom

LEMMA InvIs ==
  ASSUME Inv
  PROVE  /\ inflight_tag_check \in Seq(Entry) /\ translation_stash \in Seq(Entry)
         /\ InFlight \subseteq Entry /\ Stashed \subseteq Entry
         /\ arrived \in Nat /\ arrived <= MaxAccesses /\ outstanding \subseteq Access \X Vpage
         /\ Len(inflight_tag_check) \in Nat /\ Len(inflight_tag_check) <= TagChecks
         /\ Distinct(inflight_tag_check) /\ Distinct(translation_stash) /\ Apart(InFlight, Stashed)
<1>1. arrived \in 0..MaxAccesses /\ MaxAccesses \in Nat
  BY DEF Inv, TypeOK, TranslationAssumption
<1>2. /\ inflight_tag_check \in Seq(Entry) /\ translation_stash \in Seq(Entry)
      /\ outstanding \subseteq Access \X Vpage /\ Len(inflight_tag_check) <= TagChecks
  BY DEF Inv, TypeOK
<1> QED BY <1>1, <1>2, InSeq DEF Inv, OnlyOnce, InFlight, Stashed

\* The stash has no more entries than may come there.
LEMMA StashFits ==
  ASSUME NEW f \in Seq(Entry), NEW s \in Seq(Entry), Distinct(s)
  PROVE  /\ Len(s) <= Cardinality(HeldIn(ToSet(f), ToSet(s)))
         /\ HeldIn(ToSet(f), ToSet(s)) \subseteq Access
<1>1. HeldIn(ToSet(f), ToSet(s)) \subseteq Access
  <2>1. ToSet(f) \subseteq Entry /\ ToSet(s) \subseteq Entry
    BY InSeq
  <2> QED BY <2>1, IdsAreAccesses DEF HeldIn
<1>2. Ids(ToSet(s)) \subseteq HeldIn(ToSet(f), ToSet(s))
  BY DEF HeldIn
<1> QED BY <1>1, <1>2, IdsCount, AccessesAreFinite

\* Nobody comes who was not counted before.
LEMMA RoomKept ==
  ASSUME Inv, inflight_tag_check' \in Seq(Entry), translation_stash' \in Seq(Entry),
         HeldIn(InFlight', Stashed') \subseteq HeldIn(InFlight, Stashed)
  PROVE  HasRoom'
<1> DEFINE H == HeldIn(InFlight, Stashed)
           I == HeldIn(InFlight', Stashed')
<1>1. H \subseteq Access
  BY InvIs, StashFits DEF InFlight, Stashed
<1>2. Cardinality(H) \in Nat /\ Cardinality(I) \in Nat /\ Cardinality(I) <= Cardinality(H)
  <2>1. I \in SUBSET H /\ I \in SUBSET Access
    BY <1>1
  <2> HIDE DEF H, I
  <2> QED BY <1>1, <2>1, AccessesAreFinite
<1>3. Cardinality(H) <= MSHR_SIZE - 1 + TagChecks
  BY DEF Inv, HasRoom
<1>4. MSHR_SIZE \in Nat /\ TagChecks \in Nat
  BY DEF TranslationAssumption
<1> HIDE DEF H, I
<1>5. Cardinality(I) <= MSHR_SIZE - 1 + TagChecks
  BY <1>2, <1>3, <1>4
<1> QED BY <1>5 DEF HasRoom, I

LEMMA InvAgain ==
  ASSUME arrived' \in 0..MaxAccesses, outstanding' \subseteq Access \X Vpage,
         inflight_tag_check' \in Seq(Entry), Len(inflight_tag_check') <= TagChecks,
         translation_stash' \in Seq(Entry), Ordered(translation_stash'),
         OnlyOnce', HasRoom', \A e \in InFlight' \cup Stashed' : Served(e)'
  PROVE  Inv'
<1> DEFINE s == translation_stash'
           c == Cardinality(HeldIn(InFlight', Stashed'))
<1>1. Len(s) <= c /\ Len(s) \in Nat /\ c \in Nat
  <2>1. Distinct(translation_stash')
    BY DEF OnlyOnce
  <2>2. /\ Len(s) <= Cardinality(HeldIn(ToSet(inflight_tag_check'), ToSet(s)))
        /\ HeldIn(ToSet(inflight_tag_check'), ToSet(s)) \subseteq Access
    BY <2>1, StashFits
  <2>3. InFlight' = ToSet(inflight_tag_check') /\ Stashed' = ToSet(s)
    BY DEF InFlight, Stashed
  <2> QED BY <2>2, <2>3, AccessesAreFinite, LenProperties
<1>2. c <= MSHR_SIZE - 1 + TagChecks /\ MSHR_SIZE \in Nat /\ TagChecks \in Nat
  BY DEF HasRoom, TranslationAssumption
<1> HIDE DEF s, c
<1>3. Len(s) <= MSHR_SIZE - 1 + TagChecks
  BY <1>1, <1>2
<1>4. TypeOK'
  BY <1>3 DEF TypeOK, s
<1> QED BY <1>4 DEF Inv

-----------------------------------------------------------------------------
(* What the steps do with the entries *)

LEMMA FromStashMoves ==
  ASSUME Inv, FromStash
  PROVE  /\ Inv' /\ InFlight' \cup Stashed' = InFlight \cup Stashed
<1> DEFINE h == Head(translation_stash)
<1>1. /\ inflight_tag_check' = Append(inflight_tag_check, h) /\ translation_stash' = Tail(translation_stash)
      /\ arrived' = arrived /\ outstanding' = outstanding
      /\ translation_stash # <<>> /\ IsTranslated(h) /\ Len(inflight_tag_check) < TagChecks
  BY DEF FromStash, StashIsAhead, HasBandwidth
<1>2. /\ h \in Entry /\ translation_stash' \in Seq(Entry) /\ Stashed = Stashed' \cup {h}
      /\ Distinct(translation_stash') /\ Apart({h}, Stashed')
      /\ Ordered(translation_stash')
  BY <1>1, InvIs, TakenFirst DEF Stashed, Inv
<1>3. h \in Stashed
  BY <1>2
<1> HIDE DEF h
<1>4. Apart(InFlight, {h})
  BY <1>3, InvIs DEF Apart
<1>5. /\ inflight_tag_check' \in Seq(Entry) /\ InFlight' = InFlight \cup {h}
      /\ Len(inflight_tag_check') = Len(inflight_tag_check) + 1
      /\ Distinct(inflight_tag_check')
  BY <1>1, <1>2, <1>4, InvIs, AppendedEntry DEF InFlight
<1>6. OnlyOnce'
  <2>1. Apart(InFlight', Stashed')
    BY <1>2, <1>5, InvIs DEF Apart
  <2> QED BY <1>2, <1>5, <2>1 DEF OnlyOnce
<1>7. HasRoom'
  <2>1. HeldIn(InFlight', Stashed') \subseteq HeldIn(InFlight, Stashed)
    BY <1>1, <1>2, <1>5 DEF HeldIn, Ids, IsTranslated, IsUntranslated
  <2> QED BY <1>2, <1>5, <2>1, RoomKept
<1>8. InFlight' \cup Stashed' = InFlight \cup Stashed
  BY <1>2, <1>5
<1>9. \A e \in InFlight' \cup Stashed' : Served(e)'
  BY <1>1, <1>8 DEF Served, Inv
<1>10. Len(inflight_tag_check') <= TagChecks
  BY <1>1, <1>5, InvIs DEF TranslationAssumption
<1>11. arrived' \in 0..MaxAccesses /\ outstanding' \subseteq Access \X Vpage
  BY <1>1, InvIs DEF Inv, TypeOK
<1> QED BY <1>2, <1>5, <1>6, <1>7, <1>8, <1>9, <1>10, <1>11, InvAgain

LEMMA FromAboveAdds ==
  ASSUME Inv, NEW v \in Vpage \cup {NoPage}, FromAbove(v)
  PROVE  /\ Inv' /\ Stashed' = Stashed /\ arrived + 1 \in Access /\ arrived \in Nat
         /\ \E e \in Entry :
              /\ InFlight' = InFlight \cup {e} /\ e.id = arrived + 1 /\ e.v_page = v
              /\ e.is_translated = (v = NoPage)
<1> DEFINE e == [id |-> arrived + 1, v_page |-> v, page |-> NoPage,
                 is_translated |-> v = NoPage, translate_issued |-> FALSE]
<1>1. /\ arrived' = arrived + 1 /\ inflight_tag_check' = Append(inflight_tag_check, e)
      /\ translation_stash' = translation_stash /\ outstanding' = outstanding
      /\ Len(inflight_tag_check) < TagChecks /\ arrived < MaxAccesses
      /\ Len(translation_stash) < MSHR_SIZE \/ v = NoPage
  BY DEF FromAbove, HasBandwidth, CanTranslate
<1>2. arrived + 1 \in Access /\ arrived' \in 0..MaxAccesses
  BY <1>1, InvIs DEF Access, TranslationAssumption
<1>3. /\ e \in Entry /\ e.id = arrived + 1 /\ e.v_page = v /\ e.is_translated = (v = NoPage)
      /\ e.translate_issued = FALSE
  BY <1>2 DEF Entry
<1>4. (v = NoPage => IsTranslated(e)) /\ (v # NoPage => ~ IsTranslated(e)) /\ ~ e.translate_issued
  BY DEF IsTranslated
<1> HIDE DEF e
<1>5. Stashed' = Stashed
  BY <1>1 DEF Stashed
<1>6. \A d \in InFlight \cup Stashed : d.id # e.id
  <2> SUFFICES ASSUME NEW d \in InFlight \cup Stashed PROVE d.id # e.id
    OBVIOUS
  <2>1. d.id <= arrived /\ d.id \in Access
    BY InvIs DEF Inv, Served, Entry
  <2> QED BY <1>3, <2>1, InvIs DEF Access
<1>7. /\ inflight_tag_check' \in Seq(Entry) /\ InFlight' = InFlight \cup {e}
      /\ Len(inflight_tag_check') = Len(inflight_tag_check) + 1
      /\ Distinct(inflight_tag_check')
  <2>1. Apart(InFlight, {e})
    BY <1>6 DEF Apart
  <2> QED BY <1>1, <1>3, <2>1, InvIs, AppendedEntry DEF InFlight
<1>8. OnlyOnce'
  <2>1. Apart(InFlight', Stashed')
    BY <1>5, <1>6, <1>7, InvIs DEF Apart
  <2> QED BY <1>1, <1>7, <2>1, InvIs DEF OnlyOnce
<1>9. HasRoom'
  <2>1. CASE v = NoPage
    <3>1. HeldIn(InFlight', Stashed') \subseteq HeldIn(InFlight, Stashed)
      <4>1. {d \in InFlight' : IsUntranslated(d)} = {d \in InFlight : IsUntranslated(d)}
        BY <1>7, <1>4, <2>1 DEF IsTranslated, IsUntranslated
      <4> QED BY <1>5, <4>1 DEF HeldIn
    <3> QED BY <1>1, <1>7, <3>1, InvIs, RoomKept
  <2>2. CASE v # NoPage
    <3>1. HeldIn(InFlight', Stashed') \subseteq Ids(InFlight') \cup Ids(Stashed)
      BY <1>5 DEF HeldIn, Ids
    <3>2. Cardinality(Ids(InFlight')) = Len(inflight_tag_check')
      BY <1>7, IdsCount DEF InFlight
    <3>3. Cardinality(Ids(Stashed)) = Len(translation_stash)
      BY InvIs, IdsCount DEF Stashed
    <3>4. Ids(InFlight') \subseteq Access /\ Ids(Stashed) \subseteq Access
      <4>1. InFlight' \subseteq Entry
        BY <1>7, InSeq DEF InFlight
      <4> QED BY <4>1, InvIs, IdsAreAccesses
    <3> DEFINE A == Ids(InFlight')
               B == Ids(Stashed)
               H == HeldIn(InFlight', Stashed')
    <3>5. IsFiniteSet(A) /\ IsFiniteSet(B)
      BY <3>4, AccessesAreFinite
    <3>6. A \cap B \subseteq Access /\ A \cup B \subseteq Access
      BY <3>4
    <3>7. H \in SUBSET (A \cup B)
      BY <3>1
    <3>8. Cardinality(A) = Len(inflight_tag_check) + 1 /\ Cardinality(B) = Len(translation_stash)
      BY <1>7, <3>2, <3>3
    <3> HIDE DEF A, B, H
    <3>9. Cardinality(A \cup B) = Cardinality(A) + Cardinality(B) - Cardinality(A \cap B)
      BY <3>5, FS_Union
    <3>10. Cardinality(A \cap B) \in Nat
      BY <3>6, AccessesAreFinite
    <3>11. Cardinality(H) <= Cardinality(A \cup B) /\ Cardinality(H) \in Nat /\ Cardinality(A \cup B) \in Nat
      <4>1. H \in SUBSET Access
        BY <3>6, <3>7
      <4> QED BY <3>6, <3>7, <4>1, AccessesAreFinite
    <3>12. Len(translation_stash) \in Nat /\ Len(inflight_tag_check) \in Nat
      BY InvIs, LenProperties
    <3>13. /\ MSHR_SIZE \in Nat /\ TagChecks \in Nat
           /\ Len(translation_stash) < MSHR_SIZE /\ Len(inflight_tag_check) < TagChecks
      BY <1>1, <2>2 DEF TranslationAssumption
    <3>14. Cardinality(H) <= MSHR_SIZE - 1 + TagChecks
      BY <3>8, <3>9, <3>10, <3>11, <3>12, <3>13
    <3> QED BY <3>14 DEF HasRoom, H
  <2> QED BY <2>1, <2>2
<1>10. \A d \in InFlight' \cup Stashed' : Served(d)'
  <2> SUFFICES ASSUME NEW d \in InFlight' \cup Stashed' PROVE Served(d)'
    OBVIOUS
  <2>1. CASE d = e
    <3>1. e.id <= arrived'
      BY <1>1, <1>3, InvIs
    <3> QED BY <1>3, <1>4, <2>1, <3>1 DEF Served
  <2>2. CASE d # e
    <3>1. d \in InFlight \cup Stashed /\ d \in Entry
      BY <1>5, <1>7, <2>2, InvIs
    <3>2. Served(d)
      BY <3>1 DEF Inv
    <3>3. d.id <= arrived'
      <4>1. d.id <= arrived /\ d.id \in Int
        BY <3>1, <3>2 DEF Served, Entry, Access
      <4> QED BY <1>1, <4>1, InvIs
    <3> QED BY <1>1, <3>2, <3>3 DEF Served
  <2> QED BY <2>1, <2>2
<1>11. Len(inflight_tag_check') <= TagChecks
  BY <1>1, <1>7, InvIs DEF TranslationAssumption
<1>12. Inv'
  <2>1. Ordered(translation_stash') /\ translation_stash' \in Seq(Entry)
    BY <1>1, InvIs DEF Inv
  <2>2. outstanding' \subseteq Access \X Vpage
    BY <1>1, InvIs
  <2> QED BY <1>2, <1>7, <1>8, <1>9, <1>10, <1>11, <2>1, <2>2, InvAgain
<1> QED BY <1>2, <1>3, <1>5, <1>7, <1>12, InvIs

LEMMA SameEntry ==
  ASSUME Inv, NEW e \in InFlight \cup Stashed, NEW f \in InFlight \cup Stashed, e.id = f.id
  PROVE  e = f
<1>1. ASSUME NEW s \in Seq(Entry), Distinct(s), e \in ToSet(s), f \in ToSet(s) PROVE e = f
  <2>1. PICK i \in 1..Len(s) : e = s[i]
    BY <1>1, InSeq
  <2>2. PICK j \in 1..Len(s) : f = s[j]
    BY <1>1, InSeq
  <2>3. DOMAIN s = 1..Len(s)
    BY InSeq
  <2> QED BY <1>1, <2>1, <2>2, <2>3 DEF Distinct
<1>2. CASE e \in InFlight /\ f \in InFlight
  BY <1>1, <1>2, InvIs DEF InFlight
<1>3. CASE e \in Stashed /\ f \in Stashed
  BY <1>1, <1>3, InvIs DEF Stashed
<1>4. ~(e \in InFlight /\ f \in Stashed) /\ ~(f \in InFlight /\ e \in Stashed)
  BY InvIs DEF Apart
<1> QED BY <1>2, <1>3, <1>4

\* Both containers are changed entry by entry, and keep the numbers.
LEMMA OnlyOnceKept ==
  ASSUME Inv, NEW F, Distinct(inflight_tag_check'), Distinct(translation_stash'),
         InFlight' = {F[e] : e \in InFlight}, Stashed' = {F[e] : e \in Stashed},
         \A e \in InFlight \cup Stashed : F[e].id = e.id
  PROVE  OnlyOnce'
<1>1. Apart(InFlight', Stashed')
  BY InvIs DEF Apart
<1> QED BY <1>1 DEF OnlyOnce

\* Afterwards nobody in flight is untranslated who was not before.
LEMMA HeldKept ==
  ASSUME NEW S, NEW T, NEW F,
         \A e \in S \cup T : F[e].id = e.id,
         \A e \in S : IsUntranslated(F[e]) => IsUntranslated(e)
  PROVE  HeldIn({F[e] : e \in S}, {F[e] : e \in T}) \subseteq HeldIn(S, T)
BY DEF HeldIn, Ids

LEMMA IssueMarks ==
  ASSUME Inv, IssueTranslations
  PROVE  /\ Inv'
         /\ \E ids : /\ InFlight' = {Issued(e, ids) : e \in InFlight}
                     /\ Stashed' = {Issued(e, ids) : e \in Stashed}
<1>1. PICK n \in 1..Len(Unissued) :
        LET accepted == ToSet(SubSeq(Unissued, 1, n))
            ids == {e.id : e \in accepted}
        IN /\ outstanding' = outstanding \cup {<<e.id, e.v_page>> : e \in accepted}
           /\ inflight_tag_check' = IssuedIn(inflight_tag_check, ids)
           /\ translation_stash' = IssuedIn(translation_stash, ids)
           /\ UNCHANGED arrived
  BY DEF IssueTranslations
<1> DEFINE accepted == ToSet(SubSeq(Unissued, 1, n))
           ids == {e.id : e \in accepted}
<1>2. /\ outstanding' = outstanding \cup {<<e.id, e.v_page>> : e \in accepted}
      /\ inflight_tag_check' = IssuedIn(inflight_tag_check, ids)
      /\ translation_stash' = IssuedIn(translation_stash, ids)
      /\ arrived' = arrived
  BY <1>1
<1>3. accepted \subseteq (InFlight \cup Stashed) \cap Untranslated
  <2> DEFINE T == {e \in Untranslated : ~e.translate_issued}
  <2>1. Entries \in Seq(Entry) /\ ToSet(Entries) = InFlight \cup Stashed
    BY InvIs, Joined DEF Entries, InFlight, Stashed
  <2>2. PICK u : u = Unissued
    OBVIOUS
  <2>3. u = Picked(Entries, T)
    BY <2>2 DEF Unissued, ToIssue
  <2>4. u \in Seq(Entry) /\ ToSet(u) = ToSet(Entries) \cap T
    <3> HIDE DEF T
    <3> QED BY <2>1, <2>3, PickedEntries
  <2>5. n \in 0..Len(u)
    BY <2>2
  <2>6. PICK a, b \in Seq(Entry) :
          /\ a = SubSeq(u, 1, n) /\ b = SubSeq(u, n + 1, Len(u))
          /\ u = a \o b /\ Len(a) = n /\ Len(b) = Len(u) - n
          /\ \A i \in 1..n : a[i] = u[i]
          /\ \A i \in 1..Len(b) : b[i] = u[n + i]
    <3>1. u \in Seq(Entry)
      BY <2>4
    <3> QED BY <2>5, <3>1, Cut
  <2>7. ToSet(u) = ToSet(a) \cup ToSet(b)
    BY <2>6, Joined
  <2>8. ToSet(a) \subseteq (InFlight \cup Stashed) \cap T
    BY <2>1, <2>4, <2>7
  <2> QED BY <2>2, <2>6, <2>8
<1> HIDE DEF accepted
<1>4. \A e \in accepted : e.id \in Access /\ e.v_page \in Vpage
  <2> SUFFICES ASSUME NEW e \in accepted PROVE e.id \in Access /\ e.v_page \in Vpage
    OBVIOUS
  <2>1. e \in Entry /\ Served(e) /\ ~ IsTranslated(e)
    BY <1>3 DEF Inv, Untranslated, IsTranslated, IsUntranslated
  <2> QED BY <2>1 DEF Served, Entry
<1> DEFINE F == [e \in Entry |-> Issued(e, ids)]
<1>5. \A e \in Entry : F[e] = Issued(e, ids)
  OBVIOUS
<1> HIDE DEF ids, F
<1>6. /\ inflight_tag_check' \in Seq(Entry) /\ Len(inflight_tag_check') = Len(inflight_tag_check)
      /\ translation_stash' \in Seq(Entry) /\ Ordered(translation_stash')
      /\ Distinct(inflight_tag_check') /\ Distinct(translation_stash')
      /\ InFlight' = {Issued(e, ids) : e \in InFlight}
      /\ Stashed' = {Issued(e, ids) : e \in Stashed}
  <2>1. Ordered(translation_stash)
    BY DEF Inv
  <2>2. /\ inflight_tag_check \in Seq(Entry) /\ Distinct(inflight_tag_check)
        /\ translation_stash \in Seq(Entry) /\ Distinct(translation_stash)
    BY InvIs
  <2>3. PICK s : s = inflight_tag_check
    OBVIOUS
  <2>4. PICK z : z = translation_stash
    OBVIOUS
  <2>5. /\ IssuedIn(s, ids) \in Seq(Entry) /\ Len(IssuedIn(s, ids)) = Len(s)
        /\ ToSet(IssuedIn(s, ids)) = {Issued(e, ids) : e \in ToSet(s)}
        /\ Distinct(s) => Distinct(IssuedIn(s, ids))
        /\ Ordered(s) => Ordered(IssuedIn(s, ids))
    BY <2>2, <2>3, IssuedEntries
  <2>6. /\ IssuedIn(z, ids) \in Seq(Entry) /\ Len(IssuedIn(z, ids)) = Len(z)
        /\ ToSet(IssuedIn(z, ids)) = {Issued(e, ids) : e \in ToSet(z)}
        /\ Distinct(z) => Distinct(IssuedIn(z, ids))
        /\ Ordered(z) => Ordered(IssuedIn(z, ids))
    BY <2>2, <2>4, IssuedEntries
  <2> QED BY <1>2, <2>1, <2>2, <2>3, <2>4, <2>5, <2>6 DEF InFlight, Stashed
<1>7. /\ InFlight' = {F[e] : e \in InFlight} /\ Stashed' = {F[e] : e \in Stashed}
      /\ \A e \in InFlight \cup Stashed : F[e].id = e.id /\ F[e].is_translated = e.is_translated
  <2>1. InFlight \cup Stashed \subseteq Entry
    BY InvIs
  <2>2. \A e \in InFlight \cup Stashed : F[e] = Issued(e, ids)
    BY <1>5, <2>1
  <2>3. \A e \in InFlight \cup Stashed : F[e].id = e.id /\ F[e].is_translated = e.is_translated
    BY <2>1, <2>2, IssuedEntry
  <2>4. InFlight' = {F[e] : e \in InFlight}
    BY <1>6, <2>2
  <2>5. Stashed' = {F[e] : e \in Stashed}
    BY <1>6, <2>2
  <2> QED BY <2>3, <2>4, <2>5
<1>8. OnlyOnce'
  BY <1>6, <1>7, OnlyOnceKept
<1>9. HasRoom'
  <2>1. \A e \in InFlight : IsUntranslated(F[e]) => IsUntranslated(e)
    BY <1>7 DEF IsUntranslated
  <2>2. HeldIn(InFlight', Stashed') \subseteq HeldIn(InFlight, Stashed)
    BY <1>7, <2>1, HeldKept
  <2> QED BY <1>6, <2>2, RoomKept
<1>10. \A d \in InFlight' \cup Stashed' : Served(d)'
  <2> SUFFICES ASSUME NEW d \in InFlight' \cup Stashed' PROVE Served(d)'
    OBVIOUS
  <2>1. PICK e \in InFlight \cup Stashed : d = Issued(e, ids)
    BY <1>6
  <2>2. /\ e \in Entry /\ Served(e) /\ d.id = e.id /\ d.v_page = e.v_page /\ d.page = e.page
        /\ d.is_translated = e.is_translated
        /\ d.translate_issued = (e.translate_issued \/ e.id \in ids)
    BY <2>1, InvIs, IssuedEntry DEF Inv
  <2>3. ASSUME d.translate_issued, IsUntranslated(d) PROVE <<d.id, d.v_page>> \in outstanding'
    <3>1. CASE e.translate_issued
      BY <1>2, <2>2, <2>3, <3>1 DEF Served, IsUntranslated
    <3>2. CASE e.id \in ids
      <4>1. PICK x \in accepted : x.id = e.id
        BY <3>2 DEF ids
      <4>2. x = e
        BY <1>3, <4>1, SameEntry
      <4> QED BY <1>2, <2>2, <4>1, <4>2
    <3> QED BY <2>2, <2>3, <3>1, <3>2
  <2> QED BY <1>2, <2>2, <2>3 DEF Served, IsTranslated
<1>11. outstanding' \subseteq Access \X Vpage /\ arrived' \in 0..MaxAccesses
  BY <1>2, <1>4, InvIs DEF Inv, TypeOK
<1>12. Inv'
  BY <1>6, <1>8, <1>9, <1>10, <1>11, InvIs, InvAgain
<1> QED BY <1>6, <1>12

LEMMA FinishAnswers ==
  ASSUME Inv, NEW S \in SUBSET outstanding, FinishTranslation(S)
  PROVE  /\ Inv'
         /\ \E v \in Vpage : /\ InFlight' = {Answered(e, v) : e \in InFlight}
                             /\ Stashed' = {Answered(e, v) : e \in Stashed}
<1>1. PICK x \in S : /\ translation_stash' = Restarted(translation_stash, x[2])
                     /\ inflight_tag_check' = MarkedAll(inflight_tag_check, x[2])
  BY DEF FinishTranslation
<1>2. outstanding' = outstanding \ S /\ arrived' = arrived /\ \A y \in S : x[2] = y[2]
  BY DEF FinishTranslation
<1> DEFINE v == x[2]
<1>3. v \in Vpage
  BY InvIs
<1>4. /\ translation_stash' = Restarted(translation_stash, v)
      /\ inflight_tag_check' = MarkedAll(inflight_tag_check, v)
      /\ \A y \in S : y[2] = v
  BY <1>1, <1>2
<1> HIDE DEF v
<1>5. /\ inflight_tag_check' \in Seq(Entry) /\ Len(inflight_tag_check') = Len(inflight_tag_check)
      /\ translation_stash' \in Seq(Entry) /\ Ordered(translation_stash')
      /\ Distinct(inflight_tag_check') /\ Distinct(translation_stash')
      /\ InFlight' = {Answered(e, v) : e \in InFlight}
      /\ Stashed' = {Answered(e, v) : e \in Stashed}
  <2>1. Ordered(translation_stash)
    BY DEF Inv
  <2>2. /\ inflight_tag_check' \in Seq(Entry) /\ Len(inflight_tag_check') = Len(inflight_tag_check)
        /\ Distinct(inflight_tag_check') /\ InFlight' = {Answered(e, v) : e \in InFlight}
    BY <1>3, <1>4, InvIs, MarkedEntries DEF InFlight
  <2>3. /\ translation_stash' \in Seq(Entry) /\ Ordered(translation_stash')
        /\ Distinct(translation_stash') /\ Stashed' = {Answered(e, v) : e \in Stashed}
    BY <1>3, <1>4, <2>1, InvIs, RestartedEntries DEF Stashed
  <2> QED BY <2>2, <2>3
<1> DEFINE F == [e \in Entry |-> Answered(e, v)]
<1>6. \A e \in Entry : F[e] = Answered(e, v)
  OBVIOUS
<1> HIDE DEF F
<1>7. /\ InFlight' = {F[e] : e \in InFlight} /\ Stashed' = {F[e] : e \in Stashed}
      /\ \A e \in InFlight \cup Stashed : F[e].id = e.id
  <2>1. \A e \in InFlight \cup Stashed : F[e] = Answered(e, v) /\ e \in Entry
    BY <1>6, InvIs
  <2>2. \A e \in InFlight \cup Stashed : F[e].id = e.id
    BY <1>3, <2>1, AnsweredEntry
  <2> QED BY <1>5, <2>1, <2>2
<1>8. OnlyOnce'
  BY <1>5, <1>7, OnlyOnceKept
<1>9. HasRoom'
  <2>1. \A e \in InFlight : IsUntranslated(F[e]) => IsUntranslated(e)
    BY <1>3, <1>6, InvIs, AnsweredEntry DEF IsUntranslated
  <2>2. HeldIn(InFlight', Stashed') \subseteq HeldIn(InFlight, Stashed)
    BY <1>7, <2>1, HeldKept
  <2> QED BY <1>5, <2>2, RoomKept
<1>10. \A d \in InFlight' \cup Stashed' : Served(d)'
  <2> SUFFICES ASSUME NEW d \in InFlight' \cup Stashed' PROVE Served(d)'
    OBVIOUS
  <2>1. PICK e \in InFlight \cup Stashed : d = Answered(e, v)
    BY <1>5
  <2>2. e \in Entry /\ Served(e)
    BY InvIs DEF Inv
  <2>3. CASE MatchesVpage(e, v)
    <3>1. /\ d.id = e.id /\ d.v_page = v /\ d.is_translated /\ d.page = PageOf[v]
      BY <1>3, <2>1, <2>2, <2>3, AnsweredEntry DEF MatchesVpage
    <3>2. v # NoPage
      BY <1>3 DEF TranslationAssumption
    <3> QED BY <1>2, <2>2, <3>1, <3>2 DEF Served, IsTranslated, IsUntranslated
  <2>4. CASE ~ MatchesVpage(e, v)
    <3>1. d = e
      BY <1>3, <2>1, <2>2, <2>4, AnsweredEntry
    <3>2. IsUntranslated(e) => <<e.id, e.v_page>> \notin S
      BY <1>4, <2>4 DEF MatchesVpage
    <3> QED BY <1>2, <2>2, <3>1, <3>2 DEF Served
  <2> QED BY <2>3, <2>4
<1>11. outstanding' \subseteq Access \X Vpage /\ arrived' \in 0..MaxAccesses
  BY <1>2, InvIs DEF Inv, TypeOK
<1>12. Inv'
  BY <1>5, <1>8, <1>9, <1>10, <1>11, InvIs, InvAgain
<1> QED BY <1>3, <1>5, <1>12

LEMMA CheckTagsSorts ==
  ASSUME Inv, NEW n \in DOMAIN inflight_tag_check, CheckTags(n)
  PROVE  /\ Inv' /\ InFlight' \cup Stashed' \subseteq InFlight \cup Stashed
         /\ \A e \in InFlight \cup Stashed : IsUntranslated(e) => e \in InFlight' \cup Stashed'
<1> DEFINE ready == SubSeq(inflight_tag_check, 1, n)
           later == SubSeq(inflight_tag_check, n + 1, Len(inflight_tag_check))
           translated == Picked(ready, Translated)
           untranslated == Picked(ready, Untranslated)
<1>1. PICK checked \in SUBSET ToSet(translated) :
        /\ translation_stash' = translation_stash \o untranslated
        /\ inflight_tag_check' = Picked(translated, ToSet(translated) \ checked) \o later
        /\ UNCHANGED <<arrived, outstanding>>
  BY DEF CheckTags
<1> DEFINE stay == Picked(translated, ToSet(translated) \ checked)
<1>2. /\ translation_stash' = translation_stash \o untranslated
      /\ inflight_tag_check' = stay \o later
      /\ arrived' = arrived /\ outstanding' = outstanding
  BY <1>1
<1>3. /\ ready \in Seq(Entry) /\ later \in Seq(Entry)
      /\ inflight_tag_check = ready \o later
  <2>1. PICK s : s = inflight_tag_check
    OBVIOUS
  <2>2. s \in Seq(Entry) /\ n \in 0..Len(s)
    BY <2>1, InvIs, InSeq
  <2>3. PICK a, b \in Seq(Entry) :
          /\ a = SubSeq(s, 1, n) /\ b = SubSeq(s, n + 1, Len(s))
          /\ s = a \o b /\ Len(a) = n /\ Len(b) = Len(s) - n
          /\ \A i \in 1..n : a[i] = s[i]
          /\ \A i \in 1..Len(b) : b[i] = s[n + i]
    BY <2>2, Cut
  <2> QED BY <2>1, <2>3
<1> HIDE DEF ready, later
<1>4. /\ InFlight = ToSet(ready) \cup ToSet(later)
      /\ Distinct(ready) /\ Distinct(later) /\ Apart(ToSet(ready), ToSet(later))
  <2>1. PICK s : s = inflight_tag_check
    OBVIOUS
  <2>2. s = ready \o later /\ Distinct(s) /\ InFlight = ToSet(s)
    BY <1>3, <2>1, InvIs DEF InFlight
  <2> QED BY <1>3, <2>2, Joined
<1>5. /\ translated \in Seq(Entry) /\ ToSet(translated) = ToSet(ready) \cap Translated
      /\ Distinct(translated)
      /\ untranslated \in Seq(Entry) /\ ToSet(untranslated) = ToSet(ready) \cap Untranslated
      /\ Distinct(untranslated)
  BY <1>3, <1>4, PickedEntries
<1> HIDE DEF translated, untranslated
<1>6. /\ stay \in Seq(Entry) /\ ToSet(stay) = ToSet(translated) \ checked
      /\ Distinct(stay)
  <2>1. PICK T : T = ToSet(translated) \ checked
    OBVIOUS
  <2>2. ToSet(translated) \cap T = T
    BY <2>1
  <2> QED BY <1>5, <2>1, <2>2, PickedEntries
<1> HIDE DEF stay
<1>7. /\ inflight_tag_check' \in Seq(Entry) /\ InFlight' = ToSet(stay) \cup ToSet(later)
      /\ Distinct(inflight_tag_check')
  <2>1. Apart(ToSet(stay), ToSet(later))
    BY <1>4, <1>5, <1>6 DEF Apart
  <2>2. PICK r : r = stay \o later
    OBVIOUS
  <2>3. r \in Seq(Entry) /\ ToSet(r) = ToSet(stay) \cup ToSet(later) /\ Distinct(r)
    BY <1>3, <1>4, <1>6, <2>1, <2>2, Joined
  <2> QED BY <1>2, <2>2, <2>3 DEF InFlight
<1>8. /\ translation_stash' \in Seq(Entry) /\ Stashed' = Stashed \cup ToSet(untranslated)
      /\ Distinct(translation_stash') /\ Ordered(translation_stash')
  <2>1. Apart(Stashed, ToSet(untranslated))
    BY <1>4, <1>5, InvIs DEF Apart
  <2>2. PICK s : s = translation_stash
    OBVIOUS
  <2>3. s \in Seq(Entry) /\ Distinct(s) /\ Ordered(s) /\ ToSet(s) = Stashed
    BY <2>2, InvIs DEF Inv, Stashed
  <2>4. PICK r : r = s \o untranslated
    OBVIOUS
  <2>5. ToSet(untranslated) \subseteq Untranslated
    BY <1>5
  <2>6. /\ r \in Seq(Entry) /\ ToSet(r) = ToSet(s) \cup ToSet(untranslated)
        /\ Distinct(r) /\ Ordered(r)
    BY <1>5, <2>1, <2>3, <2>4, <2>5, Joined
  <2> QED BY <1>2, <2>2, <2>3, <2>4, <2>6 DEF Stashed
<1>9. /\ InFlight' \subseteq InFlight
      /\ InFlight' \cup Stashed' \subseteq InFlight \cup Stashed
      /\ \A e \in InFlight \cup Stashed : IsUntranslated(e) => e \in InFlight' \cup Stashed'
  <2>1. InFlight' \subseteq InFlight /\ Stashed' \subseteq InFlight \cup Stashed
    BY <1>4, <1>5, <1>6, <1>7, <1>8
  <2>2. ASSUME NEW e \in InFlight \cup Stashed, IsUntranslated(e) PROVE e \in InFlight' \cup Stashed'
    <3>1. CASE e \in ToSet(ready)
      <4>1. e \in Untranslated
        BY <2>2, InvIs DEF Untranslated
      <4> QED BY <1>5, <1>8, <3>1, <4>1
    <3> QED BY <1>4, <1>7, <1>8, <3>1
  <2> QED BY <2>1, <2>2
<1>10. OnlyOnce'
  <2>1. ToSet(untranslated) \subseteq ToSet(ready) /\ ToSet(stay) \subseteq ToSet(ready)
    BY <1>5, <1>6
  <2>2. \A e \in ToSet(stay), f \in ToSet(untranslated) : e.id # f.id
    <3> SUFFICES ASSUME NEW e \in ToSet(stay), NEW f \in ToSet(untranslated), e.id = f.id PROVE FALSE
      OBVIOUS
    <3>1. e = f
      BY <1>4, <2>1, SameEntry
    <3>2. e \in Translated /\ e \in Untranslated
      BY <1>5, <1>6, <3>1
    <3> QED BY <3>2 DEF Translated, Untranslated, IsTranslated, IsUntranslated
  <2>3. Apart(InFlight', Stashed')
    BY <1>4, <1>7, <1>8, <1>9, <2>1, <2>2, InvIs DEF Apart
  <2> QED BY <1>7, <1>8, <2>3 DEF OnlyOnce
<1>11. Len(inflight_tag_check') <= TagChecks
  <2>1. Ids(InFlight') \subseteq Ids(InFlight)
    BY <1>9 DEF Ids
  <2>2. Ids(InFlight) \subseteq Access
    BY InvIs, IdsAreAccesses
  <2>3. /\ Cardinality(Ids(InFlight)) = Len(inflight_tag_check)
        /\ Cardinality(Ids(InFlight')) = Len(inflight_tag_check')
    BY <1>7, InvIs, IdsCount DEF InFlight
  <2>4. Cardinality(Ids(InFlight')) <= Cardinality(Ids(InFlight))
    BY <2>1, <2>2, AccessesAreFinite
  <2>5. Len(inflight_tag_check') \in Nat /\ TagChecks \in Nat
    BY <1>7, LenProperties DEF TranslationAssumption
  <2> QED BY <2>3, <2>4, <2>5, InvIs
<1>12. HasRoom'
  <2>1. \A e \in Stashed' : e \in Stashed \/ (e \in InFlight /\ IsUntranslated(e))
    BY <1>4, <1>5, <1>8 DEF Untranslated
  <2>2. HeldIn(InFlight', Stashed') \subseteq HeldIn(InFlight, Stashed)
    BY <1>9, <2>1 DEF HeldIn, Ids
  <2> QED BY <1>7, <1>8, <2>2, RoomKept
<1>13. \A e \in InFlight' \cup Stashed' : Served(e)'
  BY <1>2, <1>9 DEF Served, Inv
<1>14. outstanding' \subseteq Access \X Vpage /\ arrived' \in 0..MaxAccesses
  BY <1>2, InvIs DEF Inv, TypeOK
<1>15. Inv'
  BY <1>7, <1>8, <1>10, <1>11, <1>12, <1>13, <1>14, InvAgain
<1> QED BY <1>9, <1>15

-----------------------------------------------------------------------------
(* The stash is in order *)

LEMMA Initially == Init => Inv
<1> SUFFICES ASSUME Init PROVE Inv
  OBVIOUS
<1>1. /\ inflight_tag_check = <<>> /\ translation_stash = <<>> /\ arrived = 0 /\ outstanding = {}
  BY DEF Init
<1>2. /\ MaxAccesses \in Nat /\ TagChecks \in Nat \ {0} /\ MSHR_SIZE \in Nat \ {0}
  BY DEF TranslationAssumption
<1>3. PICK e : e = <<>>
  OBVIOUS
<1>4. e \in Seq(Entry) /\ Len(e) = 0 /\ DOMAIN e = 1..0
  BY <1>3, EmptySeq
<1>5. \A i \in 1..0 : FALSE
  OBVIOUS
<1>6. Distinct(e) /\ Ordered(e) /\ ToSet(e) = {}
  BY <1>4, <1>5 DEF Distinct, Ordered, ToSet
<1>7. InFlight = {} /\ Stashed = {}
  BY <1>1, <1>3, <1>6 DEF InFlight, Stashed
<1>8. Cardinality(HeldIn(InFlight, Stashed)) = 0
  <2>1. HeldIn(InFlight, Stashed) = {}
    BY <1>7 DEF HeldIn, Ids
  <2> QED BY <2>1, FS_EmptySet
<1>9. TypeOK
  <2>1. arrived \in 0..MaxAccesses /\ outstanding \subseteq Access \X Vpage
    BY <1>1, <1>2
  <2>2. 0 <= TagChecks /\ 0 <= MSHR_SIZE - 1 + TagChecks
    BY <1>2
  <2> QED BY <1>1, <1>3, <1>4, <2>1, <2>2 DEF TypeOK
<1>10. OnlyOnce /\ Ordered(translation_stash)
  BY <1>1, <1>3, <1>6, <1>7 DEF OnlyOnce, Apart
<1>11. HasRoom
  BY <1>2, <1>8 DEF HasRoom
<1> QED BY <1>7, <1>9, <1>10, <1>11 DEF Inv

LEMMA Invariance == Spec => []Inv
<1>1. Inv /\ [Next]_vars => Inv'
  <2> SUFFICES ASSUME Inv, [Next]_vars PROVE Inv'
    OBVIOUS
  <2>1. ASSUME NEW S \in SUBSET outstanding, FinishTranslation(S) PROVE Inv'
    BY <2>1, FinishAnswers
  <2>2. CASE FromStash
    BY <2>2, FromStashMoves
  <2>3. CASE IssueTranslations
    BY <2>3, IssueMarks
  <2>4. ASSUME NEW n \in DOMAIN inflight_tag_check, CheckTags(n) PROVE Inv'
    BY <2>4, CheckTagsSorts
  <2>5. ASSUME NEW v \in Vpage \cup {NoPage}, FromAbove(v) PROVE Inv'
    BY <2>5, FromAboveAdds
  <2>6. CASE UNCHANGED vars
    BY <2>6 DEF vars, Inv, TypeOK, OnlyOnce, InFlight, Stashed, Served, HasRoom
  <2> QED BY <2>1, <2>2, <2>3, <2>4, <2>5, <2>6 DEF Next, Operate, Done
<1> QED BY <1>1, Initially, PTL DEF Spec

\* In every state the stash holds its translated entries first, it has no more than
\* MSHR_SIZE - 1 entries and those that were in flight, every access is at one
\* place, and the request of one that waits is not answered (cache.cc:456-513, 635-662).
THEOREM TheStashIsInOrder == Spec => []StashInOrder
<1>1. Inv => StashInOrder
  <2> SUFFICES ASSUME Inv PROVE StashInOrder
    OBVIOUS
  <2>1. PICK r : r = Entries
    OBVIOUS
  <2>2. ToSet(r) = InFlight \cup Stashed /\ Distinct(r)
    BY <2>1, InvIs, Joined DEF Entries, InFlight, Stashed
  <2>3. EveryTranslationIsOwed
    BY <2>1, <2>2 DEF EveryTranslationIsOwed, Distinct, Inv, Served
  <2> QED BY <2>3 DEF StashInOrder, Inv, TranslatedFirst, Ordered
<1> QED BY <1>1, Invariance, PTL

-----------------------------------------------------------------------------
(* The stash implements PageTranslation *)

LEMMA VirtualIs ==
  ASSUME Inv
  PROVE  Virtual = {e \in InFlight \cup Stashed : e.v_page # NoPage}
<1>1. PICK r : r = Entries
  OBVIOUS
<1>2. ToSet(r) = InFlight \cup Stashed
  BY <1>1, InvIs, Joined DEF Entries, InFlight, Stashed
<1> QED BY <1>1, <1>2 DEF Virtual

LEMMA VirtualWillBe ==
  ASSUME Inv'
  PROVE  Virtual' = {e \in InFlight' \cup Stashed' : e.v_page # NoPage}
<1>1. PICK r : r = Entries'
  OBVIOUS
<1>2. inflight_tag_check' \in Seq(Entry) /\ translation_stash' \in Seq(Entry)
  BY DEF Inv, TypeOK
<1>3. ToSet(r) = InFlight' \cup Stashed'
  BY <1>1, <1>2, Joined DEF Entries, InFlight, Stashed
<1> QED BY <1>1, <1>3 DEF Virtual

LEMMA NothingImplements ==
  ASSUME Virtual' = Virtual
  PROVE  [Translation!Next]_Translation!abstractVars
BY DEF Translation!abstractVars, Pending, Answers, Mapping

LEMMA FromAboveImplements ==
  ASSUME Inv, NEW v \in Vpage \cup {NoPage}, FromAbove(v)
  PROVE  [Translation!Next]_Translation!abstractVars
<1>1. Inv' /\ Stashed' = Stashed /\ arrived + 1 \in Access /\ arrived \in Nat
  BY FromAboveAdds
<1>2. PICK e \in Entry : /\ InFlight' = InFlight \cup {e} /\ e.id = arrived + 1 /\ e.v_page = v
                         /\ e.is_translated = (v = NoPage)
  BY FromAboveAdds
<1>3. CASE v = NoPage
  <2>1. Virtual' = Virtual
    BY <1>1, <1>2, <1>3, VirtualIs, VirtualWillBe
  <2> QED BY <2>1, NothingImplements
<1>4. CASE v \in Vpage
  <2>1. v # NoPage
    BY <1>4 DEF TranslationAssumption
  <2>2. Virtual' = Virtual \cup {e}
    BY <1>1, <1>2, <2>1, VirtualIs, VirtualWillBe
  <2>3. IsUntranslated(e) /\ ~ IsTranslated(e)
    BY <1>2, <2>1 DEF IsUntranslated, IsTranslated
  <2>4. Pending' = Pending \cup {<<arrived + 1, v>>}
    BY <1>2, <2>2, <2>3 DEF Pending
  <2>5. Answers' = Answers
    BY <2>2, <2>3 DEF Answers
  <2>6. \A w \in Pending \cup Answers : w[1] # arrived + 1
    <3>1. \A x \in Virtual : x.id # arrived + 1
      <4> SUFFICES ASSUME NEW x \in Virtual PROVE x.id # arrived + 1
        OBVIOUS
      <4>1. x.id <= arrived /\ x.id \in Access
        <5>1. x \in InFlight \cup Stashed /\ x \in Entry
          BY VirtualIs, InvIs
        <5>2. Served(x)
          BY <5>1 DEF Inv
        <5> QED BY <5>1, <5>2 DEF Served, Entry
      <4> QED BY <1>1, <4>1 DEF Access
    <3> QED BY <3>1 DEF Pending, Answers
  <2>7. Mapping' = Mapping
    BY DEF Mapping
  <2>8. Translation!Ask(arrived + 1, v)
    BY <2>4, <2>5, <2>6, <2>7 DEF Translation!Ask
  <2> QED BY <1>1, <1>4, <2>8 DEF Translation!Next
<1> QED BY <1>3, <1>4

\* Requests change nothing that is seen from above.
LEMMA IssueImplements ==
  ASSUME Inv, IssueTranslations
  PROVE  [Translation!Next]_Translation!abstractVars
<1>1. Inv'
  BY IssueMarks
<1>2. PICK ids : /\ InFlight' = {Issued(e, ids) : e \in InFlight}
                 /\ Stashed' = {Issued(e, ids) : e \in Stashed}
  BY IssueMarks
<1>3. \A e \in InFlight \cup Stashed :
        /\ Issued(e, ids).id = e.id /\ Issued(e, ids).v_page = e.v_page /\ Issued(e, ids).page = e.page
        /\ Issued(e, ids).is_translated = e.is_translated
  BY InvIs, IssuedEntry
<1>4. Virtual' = {Issued(e, ids) : e \in Virtual}
  BY <1>1, <1>2, <1>3, VirtualIs, VirtualWillBe
<1>5. \A e \in Virtual : e \in InFlight \cup Stashed
  BY VirtualIs
<1>6. Pending' = Pending
  BY <1>3, <1>4, <1>5 DEF Pending, IsUntranslated
<1>7. Answers' = Answers
  BY <1>3, <1>4, <1>5 DEF Answers, IsTranslated
<1> QED BY <1>6, <1>7 DEF Translation!abstractVars, Mapping

\* An answer serves every access of its page.
LEMMA FinishImplements ==
  ASSUME Inv, NEW S \in SUBSET outstanding, FinishTranslation(S)
  PROVE  [Translation!Next]_Translation!abstractVars
<1>1. Inv'
  BY FinishAnswers
<1>2. PICK v \in Vpage : /\ InFlight' = {Answered(e, v) : e \in InFlight}
                         /\ Stashed' = {Answered(e, v) : e \in Stashed}
  BY FinishAnswers
<1>3. \A e \in InFlight \cup Stashed :
        /\ Answered(e, v).id = e.id /\ Answered(e, v).v_page = e.v_page
        /\ MatchesVpage(e, v) => Answered(e, v).is_translated /\ Answered(e, v).page = PageOf[v]
        /\ ~MatchesVpage(e, v) => Answered(e, v) = e
  BY InvIs, AnsweredEntry
<1>4. Virtual' = {Answered(e, v) : e \in Virtual}
  BY <1>1, <1>2, <1>3, VirtualIs, VirtualWillBe
<1>5. \A e \in Virtual : e \in InFlight \cup Stashed /\ e \in Entry
  BY VirtualIs, InvIs
<1> DEFINE M == {e \in Virtual : MatchesVpage(e, v)}
           A == {<<e.id, v>> : e \in M}
           p == PageOf[v]
<1>6. CASE M = {}
  <2>1. \A e \in Virtual : Answered(e, v) = e
    BY <1>3, <1>5, <1>6
  <2>2. Virtual' = Virtual
    BY <1>4, <2>1
  <2> QED BY <2>2, NothingImplements
<1>7. CASE M # {}
  <2>1. \A e \in M : e.v_page = v /\ IsUntranslated(e) /\ e \in Virtual
    BY DEF MatchesVpage
  <2>2. \A e \in Virtual : e \notin M => Answered(e, v) = e /\ ~(e.v_page = v /\ IsUntranslated(e))
    BY <1>3, <1>5 DEF MatchesVpage
  <2>3. \A e \in M : /\ Answered(e, v).id = e.id /\ Answered(e, v).v_page = v
                     /\ Answered(e, v).page = p
                     /\ IsTranslated(Answered(e, v)) /\ ~ IsUntranslated(Answered(e, v))
    BY <1>3, <1>5, <2>1 DEF IsTranslated, IsUntranslated
  <2> HIDE DEF M, p
  <2>4. A # {} /\ A \subseteq {w \in Pending : w[2] = v}
    <3>1. A # {}
      BY <1>7
    <3>2. ASSUME NEW e \in M PROVE <<e.id, v>> \in Pending
      BY <2>1 DEF Pending
    <3> QED BY <3>1, <3>2
  <2>5. Pending' = Pending \ A
    <3>1. ASSUME NEW w \in Pending' PROVE w \in Pending \ A
      <4>1. PICK e \in Virtual : w = <<Answered(e, v).id, Answered(e, v).v_page>> /\ IsUntranslated(Answered(e, v))
        BY <1>4, <3>1 DEF Pending
      <4>2. e \notin M
        BY <2>3, <4>1
      <4>3. w = <<e.id, e.v_page>> /\ IsUntranslated(e) /\ e.v_page # v
        BY <2>2, <4>1, <4>2
      <4> QED BY <4>3 DEF Pending
    <3>2. ASSUME NEW w \in Pending \ A PROVE w \in Pending'
      <4>1. PICK e \in Virtual : w = <<e.id, e.v_page>> /\ IsUntranslated(e)
        BY <3>2 DEF Pending
      <4>2. e \notin M
        BY <2>1, <3>2, <4>1
      <4>3. Answered(e, v) = e /\ e \in Virtual'
        BY <1>4, <2>2, <4>2
      <4> QED BY <4>1, <4>3 DEF Pending
    <3> QED BY <3>1, <3>2
  <2> DEFINE B == {<<w[1], v, p>> : w \in A}
  <2>6. Answers' = Answers \cup B
    <3>1. B = {<<e.id, v, p>> : e \in M}
      <4>1. \A e \in M : <<e.id, v>> \in A /\ <<e.id, v>>[1] = e.id
        OBVIOUS
      <4>2. \A w \in A : \E e \in M : w[1] = e.id
        OBVIOUS
      <4> HIDE DEF A
      <4> QED BY <4>1, <4>2
    <3>2. ASSUME NEW w \in Answers' PROVE w \in Answers \cup B
      <4>1. PICK e \in Virtual : /\ w = <<Answered(e, v).id, Answered(e, v).v_page, Answered(e, v).page>>
                                 /\ IsTranslated(Answered(e, v))
        BY <1>4, <3>2 DEF Answers
      <4>2. CASE e \in M
        BY <2>3, <3>1, <4>1, <4>2
      <4>3. CASE e \notin M
        BY <2>2, <4>1, <4>3 DEF Answers
      <4> QED BY <4>2, <4>3
    <3>3. ASSUME NEW w \in Answers PROVE w \in Answers'
      <4>1. PICK e \in Virtual : w = <<e.id, e.v_page, e.page>> /\ IsTranslated(e)
        BY <3>3 DEF Answers
      <4>2. e \notin M
        BY <2>1, <4>1 DEF IsTranslated, IsUntranslated
      <4>3. Answered(e, v) = e /\ e \in Virtual'
        BY <1>4, <2>2, <4>2
      <4> QED BY <4>1, <4>3 DEF Answers
    <3>4. ASSUME NEW w \in B PROVE w \in Answers'
      <4>1. PICK e \in M : w = <<e.id, v, p>>
        BY <3>1, <3>4
      <4>2. Answered(e, v) \in Virtual'
        BY <1>4, <2>1
      <4>3. w = <<Answered(e, v).id, Answered(e, v).v_page, Answered(e, v).page>>
        BY <2>3, <4>1
      <4> QED BY <2>3, <4>2, <4>3 DEF Answers
    <3> QED BY <3>2, <3>3, <3>4
  <2>7. <<v, p>> \in Mapping /\ Mapping' = Mapping /\ p \in Page
    BY DEF Mapping, p, TranslationAssumption
  <2> HIDE DEF A
  <2>8. Translation!Answer(v, p)
    BY <2>4, <2>5, <2>6, <2>7 DEF Translation!Answer
  <2> QED BY <2>7, <2>8 DEF Translation!Next
<1> QED BY <1>6, <1>7

\* What is checked is picked up.
LEMMA CheckTagsImplements ==
  ASSUME Inv, NEW n \in DOMAIN inflight_tag_check, CheckTags(n)
  PROVE  [Translation!Next]_Translation!abstractVars
<1>1. /\ Inv' /\ InFlight' \cup Stashed' \subseteq InFlight \cup Stashed
      /\ \A e \in InFlight \cup Stashed : IsUntranslated(e) => e \in InFlight' \cup Stashed'
  BY CheckTagsSorts
<1>2. Virtual' \subseteq Virtual /\ \A e \in Virtual : IsUntranslated(e) => e \in Virtual'
  BY <1>1, VirtualIs, VirtualWillBe
<1>3. Pending' = Pending
  BY <1>2 DEF Pending
<1>4. Answers' \subseteq Answers
  BY <1>2 DEF Answers
<1> DEFINE A == Answers \ Answers'
<1>5. A \in SUBSET Answers /\ Answers' = Answers \ A
  BY <1>4
<1>6. Mapping' = Mapping
  BY DEF Mapping
<1> HIDE DEF A
<1>7. Translation!PickUp(A)
  BY <1>3, <1>5, <1>6 DEF Translation!PickUp
<1> QED BY <1>5, <1>7 DEF Translation!Next

\* Every access with a virtual address is translated once, to the page that its
\* virtual page has, whoever's request brought the answer, and leaves the cache only
\* after that: for any number of accesses and pages, and all sizes of the stash and
\* of what is in flight (cache.cc:456-513, 635-690).
THEOREM AccessesGetTheirPages == Spec => EveryAccessGetsItsPage
<1>1. Init => Translation!Init
  <2> SUFFICES ASSUME Init PROVE Translation!Init
    OBVIOUS
  <2>1. InFlight = {} /\ Stashed = {}
    <3>1. PICK e : e = <<>>
      OBVIOUS
    <3>2. DOMAIN e = 1..0
      BY <3>1, EmptySeq
    <3>3. \A i \in 1..0 : FALSE
      OBVIOUS
    <3> QED BY <3>1, <3>2, <3>3 DEF Init, InFlight, Stashed, ToSet
  <2>2. Virtual = {}
    BY <2>1, Initially, VirtualIs
  <2>3. Pending = {} /\ Answers = {}
    BY <2>2 DEF Pending, Answers
  <2>4. \A v \in Vpage : PageOf[v] \in Page
    BY DEF TranslationAssumption
  <2>5. Mapping \subseteq (Vpage \X Page) /\ \A m, k \in Mapping : m[1] = k[1] => m = k
    BY <2>4 DEF Mapping
  <2> QED BY <2>3, <2>5 DEF Translation!Init, Translation!Mapped
<1>2. Inv /\ [Next]_vars => [Translation!Next]_Translation!abstractVars
  <2> SUFFICES ASSUME Inv, [Next]_vars PROVE [Translation!Next]_Translation!abstractVars
    OBVIOUS
  <2>1. ASSUME NEW S \in SUBSET outstanding, FinishTranslation(S)
        PROVE  [Translation!Next]_Translation!abstractVars
    BY <2>1, FinishImplements
  <2>2. CASE FromStash
    <3>1. Virtual' = Virtual
      BY <2>2, FromStashMoves, VirtualIs, VirtualWillBe
    <3> QED BY <3>1, NothingImplements
  <2>3. CASE IssueTranslations
    BY <2>3, IssueImplements
  <2>4. ASSUME NEW n \in DOMAIN inflight_tag_check, CheckTags(n)
        PROVE  [Translation!Next]_Translation!abstractVars
    BY <2>4, CheckTagsImplements
  <2>5. ASSUME NEW v \in Vpage \cup {NoPage}, FromAbove(v)
        PROVE  [Translation!Next]_Translation!abstractVars
    BY <2>5, FromAboveImplements
  <2>6. CASE UNCHANGED vars
    <3>1. Virtual' = Virtual
      BY <2>6 DEF vars, Virtual, Entries
    <3> QED BY <3>1, NothingImplements
  <2> QED BY <2>1, <2>2, <2>3, <2>4, <2>5, <2>6 DEF Next, Operate, Done
<1> QED BY <1>1, <1>2, Invariance, PTL DEF Spec, EveryAccessGetsItsPage, Translation!Spec
=============================================================================
