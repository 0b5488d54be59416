--------------------------- MODULE ChannelProofs ---------------------------
(* Proofs about Channel.                                                    *)
EXTENDS Channel, SequenceTheorems, TLAPS

USE ChannelAssumption

-----------------------------------------------------------------------------
(* Sequences *)

\* Taking entry j out of q shifts the later entries down and touches no other.
LEMMA RemoveAtProps ==
  ASSUME NEW S, NEW q \in Seq(S), NEW j \in 1..Len(q)
  PROVE  /\ RemoveAt(q, j) \in Seq(S)
         /\ Len(RemoveAt(q, j)) = Len(q) - 1
         /\ \A k \in 1..(Len(q) - 1) :
              RemoveAt(q, j)[k] = IF k < j THEN q[k] ELSE q[k + 1]
<1> DEFINE front == SubSeq(q, 1, j - 1)
           back == SubSeq(q, j + 1, Len(q))
<1>1. /\ Len(q) \in Nat
      /\ \A i \in 1..Len(q) : q[i] \in S
  BY LenProperties, ElementOfSeq
<1>2. /\ front \in Seq(S)
      /\ Len(front) = j - 1
      /\ \A i \in 1..(j - 1) : front[i] = q[i]
  <2>1. \A i \in 1..(j - 1) : q[i] \in S
    BY <1>1
  <2>2. /\ front \in Seq(S)
        /\ Len(front) = IF 1 <= j - 1 THEN (j - 1) - 1 + 1 ELSE 0
        /\ \A i \in 1..((j - 1) - 1 + 1) : front[i] = q[1 + i - 1]
    BY <1>1, <2>1, SubSeqProperties
  <2> QED BY <1>1, <2>2
<1>3. /\ back \in Seq(S)
      /\ Len(back) = Len(q) - j
      /\ \A i \in 1..(Len(q) - j) : back[i] = q[j + i]
  <2>1. \A i \in (j + 1)..Len(q) : q[i] \in S
    BY <1>1
  <2>2. /\ back \in Seq(S)
        /\ Len(back) = IF j + 1 <= Len(q) THEN Len(q) - (j + 1) + 1 ELSE 0
        /\ \A i \in 1..(Len(q) - (j + 1) + 1) : back[i] = q[(j + 1) + i - 1]
    BY <1>1, <2>1, SubSeqProperties
  <2> QED BY <1>1, <2>2
<1>4. /\ front \o back \in Seq(S)
      /\ Len(front \o back) = Len(front) + Len(back)
      /\ \A i \in 1..(Len(front) + Len(back)) :
           (front \o back)[i] = IF i <= Len(front) THEN front[i] ELSE back[i - Len(front)]
  BY <1>2, <1>3, ConcatProperties
<1>5. RemoveAt(q, j) = front \o back
  BY DEF RemoveAt
<1> HIDE DEF front, back
<1>6. Len(front) + Len(back) = Len(q) - 1
  BY <1>1, <1>2, <1>3
<1>7. ASSUME NEW k \in 1..(Len(q) - 1)
      PROVE  (front \o back)[k] = IF k < j THEN q[k] ELSE q[k + 1]
  <2>1. CASE k < j
    BY <2>1, <1>1, <1>2, <1>4, <1>6
  <2>2. CASE ~(k < j)
    <3>1. k - Len(front) \in 1..(Len(q) - j) /\ ~(k <= Len(front)) /\ j + (k - Len(front)) = k + 1
      BY <2>2, <1>1, <1>2
    <3> QED BY <3>1, <2>2, <1>3, <1>4, <1>6
  <2> QED BY <2>1, <2>2
<1> QED BY <1>4, <1>5, <1>6, <1>7
-----------------------------------------------------------------------------
(* A queue of requests, and the ids and tokens that wait in it *)

QueueOK(q) == q \in Seq(Request) /\ DistinctIn(q) /\ AskedIffAwaited(ToSet(q))

Tags(q) == {WriteTag(x) : x \in ToSet(q)}

LEMMA InToSet ==
  ASSUME NEW S, NEW q \in Seq(S)
  PROVE  /\ Len(q) \in Nat
         /\ \A k \in 1..Len(q) : q[k] \in S /\ q[k] \in ToSet(q)
         /\ \A x \in ToSet(q) : \E k \in 1..Len(q) : x = q[k]
BY LenProperties, ElementOfSeq DEF ToSet

LEMMA InWaiting ==
  ASSUME NEW S, NEW q \in Seq(S), NEW i
  PROVE  i \in WaitingIn(ToSet(q)) <=> \E k \in 1..Len(q) : i \in q[k].instr_depend_on_me
<1>1. i \in WaitingIn(ToSet(q)) <=> \E x \in ToSet(q) : i \in x.instr_depend_on_me
  BY DEF WaitingIn
<1> QED BY <1>1, InToSet

LEMMA InPending ==
  ASSUME NEW S, NEW q \in Seq(S), NEW w
  PROVE  w \in PendingIn(ToSet(q)) <=> \E k \in 1..Len(q) : w \in Tokens(q[k])
<1>1. w \in PendingIn(ToSet(q)) <=> \E x \in ToSet(q) : w \in Tokens(x)
  BY DEF PendingIn
<1> QED BY <1>1, InToSet

LEMMA InTags ==
  ASSUME NEW S, NEW q \in Seq(S), NEW w
  PROVE  w \in Tags(q) <=> \E k \in 1..Len(q) : w = WriteTag(q[k])
<1>1. w \in Tags(q) <=> \E x \in ToSet(q) : w = WriteTag(x)
  BY DEF Tags
<1> QED BY <1>1, InToSet

\* Tokens carry the id that waits, so requests that share no id share no token.
LEMMA TokensOfId ==
  ASSUME NEW x, NEW w \in Tokens(x)
  PROVE  /\ x.response_requested
         /\ w[1] \in x.instr_depend_on_me
         /\ w = <<w[1], BlockOf(x.address), x.is_translated>>
<1>1. x.response_requested /\ w \in x.instr_depend_on_me \X {BlockOf(x.address)} \X {x.is_translated}
  BY DEF Tokens
<1> QED BY <1>1

LEMMA TokensIntro ==
  ASSUME NEW x, NEW i \in x.instr_depend_on_me, x.response_requested
  PROVE  <<i, BlockOf(x.address), x.is_translated>> \in Tokens(x)
BY DEF Tokens
-----------------------------------------------------------------------------
(* What the operations do to a queue *)

LEMMA MergeIntoType ==
  ASSUME NEW x \in Request, NEW p \in Request
  PROVE  /\ MergeInto(x, p) \in Request
         /\ MergeInto(x, p).address = x.address
         /\ MergeInto(x, p).is_translated = x.is_translated
         /\ MergeInto(x, p).response_requested = (x.response_requested \/ p.response_requested)
         /\ MergeInto(x, p).instr_depend_on_me = x.instr_depend_on_me \cup p.instr_depend_on_me
BY DEF MergeInto, Request

\* Where entry k of the queue was before entry j was taken out.
OldIndex(k, j) == IF k < j THEN k ELSE k + 1

\* Entry l of the merged queue's predecessor as the merge leaves it.
AfterMerge(q, j, i, l) == IF l = i THEN MergeInto(q[i], q[j]) ELSE q[l]

\* Every entry of the merged queue is an old one, entry i with the ids of j added.
LEMMA MergedShape ==
  ASSUME NEW q \in Seq(Request), NEW j \in 1..Len(q), NEW i \in 1..(j - 1)
  PROVE  /\ Merged(q, j, i) \in Seq(Request)
         /\ Len(Merged(q, j, i)) = Len(q) - 1
         /\ \A k \in 1..(Len(q) - 1) :
              /\ OldIndex(k, j) \in 1..Len(q) /\ OldIndex(k, j) # j
              /\ Merged(q, j, i)[k] = AfterMerge(q, j, i, OldIndex(k, j))
<1> DEFINE q1 == [q EXCEPT ![i] = MergeInto(@, q[j])]
<1>1. /\ Len(q) \in Nat /\ i \in 1..Len(q)
      /\ q[i] \in Request /\ q[j] \in Request
  BY InToSet
<1>2. MergeInto(q[i], q[j]) \in Request
  BY <1>1, MergeIntoType
<1>3. /\ q1 \in Seq(Request)
      /\ Len(q1) = Len(q)
      /\ \A l \in 1..Len(q) : q1[l] = IF l = i THEN MergeInto(q[i], q[j]) ELSE q[l]
  BY <1>1, <1>2, ExceptSeq
<1>4. Merged(q, j, i) = RemoveAt(q1, j)
  BY DEF Merged
<1> HIDE DEF q1
<1>5. /\ RemoveAt(q1, j) \in Seq(Request)
      /\ Len(RemoveAt(q1, j)) = Len(q) - 1
      /\ \A k \in 1..(Len(q) - 1) :
           RemoveAt(q1, j)[k] = IF k < j THEN q1[k] ELSE q1[k + 1]
  BY <1>3, RemoveAtProps
<1> QED
  <2>1. ASSUME NEW k \in 1..(Len(q) - 1)
        PROVE  RemoveAt(q1, j)[k] = q1[OldIndex(k, j)]
    BY <1>5 DEF OldIndex
  <2>2. \A k \in 1..(Len(q) - 1) : OldIndex(k, j) \in 1..Len(q) /\ OldIndex(k, j) # j
    BY <1>1 DEF OldIndex
  <2> QED BY <1>3, <1>4, <1>5, <2>1, <2>2 DEF AfterMerge

\* The other direction: every old entry but j is somewhere in the merged queue.
LEMMA MergedCovers ==
  ASSUME NEW q \in Seq(Request), NEW j \in 1..Len(q), NEW i \in 1..(j - 1),
         NEW l \in 1..Len(q), l # j
  PROVE  \E k \in 1..(Len(q) - 1) :
           Merged(q, j, i)[k] = AfterMerge(q, j, i, l)
<1>1. Len(q) \in Nat
  BY InToSet
<1>2. CASE l < j
  <2>1. l \in 1..(Len(q) - 1)
    BY <1>1, <1>2
  <2>2. Merged(q, j, i)[l] = AfterMerge(q, j, i, l)
    BY <1>2, <2>1, MergedShape DEF OldIndex
  <2> QED BY <2>1, <2>2
<1>3. CASE l > j
  <2>1. l - 1 \in 1..(Len(q) - 1) /\ ~(l - 1 < j) /\ (l - 1) + 1 = l
    BY <1>1, <1>3
  <2>2. Merged(q, j, i)[l - 1] = AfterMerge(q, j, i, l)
    BY <2>1, MergedShape DEF OldIndex
  <2> QED BY <2>1, <2>2
<1> QED BY <1>1, <1>2, <1>3
LEMMA MergedFacts ==
  ASSUME NEW q \in Seq(Request), NEW j \in 1..Len(q), NEW i \in 1..(j - 1)
  PROVE  /\ Len(q) \in Nat
         /\ Merged(q, j, i) \in Seq(Request) /\ Len(Merged(q, j, i)) = Len(q) - 1
         /\ i \in 1..Len(q) /\ i # j /\ q[i] \in Request /\ q[j] \in Request
<1>1. Len(q) \in Nat /\ \A k \in 1..Len(q) : q[k] \in Request
  BY InToSet
<1>2. Merged(q, j, i) \in Seq(Request) /\ Len(Merged(q, j, i)) = Len(q) - 1
  BY MergedShape
<1>3. i \in 1..Len(q) /\ i # j
  BY <1>1
<1> QED BY <1>1, <1>2, <1>3

\* A merge moves the ids of request j to request i, and no other id.
LEMMA MergedWaiting ==
  ASSUME NEW q \in Seq(Request), NEW j \in 1..Len(q), NEW i \in 1..(j - 1)
  PROVE  WaitingIn(ToSet(Merged(q, j, i))) = WaitingIn(ToSet(q))
<1> DEFINE m == Merged(q, j, i)
           old(l) == q[l].instr_depend_on_me
           new(k) == m[k].instr_depend_on_me
<1>1. Len(q) \in Nat /\ m \in Seq(Request) /\ Len(m) = Len(q) - 1
      /\ i \in 1..Len(q) /\ i # j /\ q[i] \in Request /\ q[j] \in Request
  BY MergedFacts
<1>2. MergeInto(q[i], q[j]).instr_depend_on_me = old(i) \cup old(j)
  BY <1>1, MergeIntoType
<1>3. ASSUME NEW x, NEW k \in 1..Len(m), x \in new(k)
      PROVE  \E l \in 1..Len(q) : x \in old(l)
  <2>1. OldIndex(k, j) \in 1..Len(q) /\ m[k] = AfterMerge(q, j, i, OldIndex(k, j))
    BY <1>1, MergedShape
  <2> HIDE DEF m
  <2>2. CASE OldIndex(k, j) = i
    BY <1>1, <1>2, <1>3, <2>1, <2>2 DEF AfterMerge
  <2>3. CASE OldIndex(k, j) # i
    BY <1>3, <2>1, <2>3 DEF AfterMerge
  <2> QED BY <2>2, <2>3
<1>4. ASSUME NEW x, NEW l \in 1..Len(q), x \in old(l)
      PROVE  \E k \in 1..Len(m) : x \in new(k)
  <2>1. \A n \in 1..Len(q) : n # j => \E k \in 1..Len(m) : m[k] = AfterMerge(q, j, i, n)
    BY <1>1, MergedCovers
  <2> HIDE DEF m
  <2>2. CASE l = j \/ l = i
    <3>1. PICK k \in 1..Len(m) : m[k] = MergeInto(q[i], q[j])
      BY <1>1, <2>1 DEF AfterMerge
    <3> QED BY <1>2, <1>4, <2>2, <3>1
  <2>3. CASE l # j /\ l # i
    BY <1>4, <2>1, <2>3 DEF AfterMerge
  <2> QED BY <2>2, <2>3
<1> HIDE DEF m
<1>5. \A x : x \in WaitingIn(ToSet(m)) <=> x \in WaitingIn(ToSet(q))
  <2>1. \A x : x \in WaitingIn(ToSet(m)) <=> \E k \in 1..Len(m) : x \in new(k)
    BY <1>1, InWaiting
  <2>2. \A x : x \in WaitingIn(ToSet(q)) <=> \E l \in 1..Len(q) : x \in old(l)
    BY InWaiting
  <2> QED BY <2>1, <2>2, <1>3, <1>4
<1> QED BY <1>5 DEF m

LEMMA MergedOK ==
  ASSUME NEW q, QueueOK(q), NEW j \in 1..Len(q), NEW i \in 1..(j - 1)
  PROVE  QueueOK(Merged(q, j, i))
<1> DEFINE m == Merged(q, j, i)
           pos(k) == OldIndex(k, j)
<1>0. q \in Seq(Request) /\ DistinctIn(q) /\ AskedIffAwaited(ToSet(q))
  BY DEF QueueOK
<1>1. Len(q) \in Nat /\ m \in Seq(Request) /\ Len(m) = Len(q) - 1
      /\ i \in 1..Len(q) /\ i # j /\ q[i] \in Request /\ q[j] \in Request
  BY <1>0, MergedFacts
<1>2. \A k \in 1..Len(m) :
        /\ pos(k) \in 1..Len(q) /\ pos(k) # j
        /\ m[k] = IF pos(k) = i THEN MergeInto(q[i], q[j]) ELSE q[pos(k)]
  <2>1. \A k \in 1..(Len(q) - 1) :
          /\ OldIndex(k, j) \in 1..Len(q) /\ OldIndex(k, j) # j
          /\ Merged(q, j, i)[k] = AfterMerge(q, j, i, OldIndex(k, j))
    BY <1>0, MergedShape
  <2> QED BY <1>1, <2>1 DEF AfterMerge
<1>3. MergeInto(q[i], q[j]).instr_depend_on_me
        = q[i].instr_depend_on_me \cup q[j].instr_depend_on_me
      /\ MergeInto(q[i], q[j]).response_requested
        = (q[i].response_requested \/ q[j].response_requested)
  BY <1>1, MergeIntoType
<1>4. \A l, n \in 1..Len(q) : l # n => q[l].instr_depend_on_me \cap q[n].instr_depend_on_me = {}
  BY <1>0 DEF DistinctIn, Disjoint
<1>5. \A l \in 1..Len(q) : q[l].response_requested <=> q[l].instr_depend_on_me # {}
  BY <1>0, InToSet DEF AskedIffAwaited
<1>6. \A k, n \in 1..Len(m) : k # n => pos(k) # pos(n)
  BY <1>1 DEF OldIndex
<1> HIDE DEF m, pos
<1>7. DistinctIn(m)
  <2> SUFFICES ASSUME NEW k \in 1..Len(m), NEW n \in 1..Len(m), k # n
               PROVE  m[k].instr_depend_on_me \cap m[n].instr_depend_on_me = {}
    BY DEF DistinctIn, Disjoint
  <2>1. pos(k) \in 1..Len(q) /\ pos(n) \in 1..Len(q) /\ pos(k) # pos(n) /\ pos(k) # j /\ pos(n) # j
    BY <1>2, <1>6
  <2>2. CASE pos(k) = i
    BY <1>1, <1>2, <1>3, <1>4, <2>1, <2>2
  <2>3. CASE pos(n) = i
    BY <1>1, <1>2, <1>3, <1>4, <2>1, <2>3
  <2>4. CASE pos(k) # i /\ pos(n) # i
    BY <1>2, <1>4, <2>1, <2>4
  <2> QED BY <2>2, <2>3, <2>4
<1>8. \A k \in 1..Len(m) : m[k].response_requested <=> m[k].instr_depend_on_me # {}
  <2> TAKE k \in 1..Len(m)
  <2>1. CASE pos(k) = i
    BY <1>1, <1>2, <1>3, <1>5, <2>1
  <2>2. CASE pos(k) # i
    BY <1>2, <1>5, <2>2
  <2> QED BY <2>1, <2>2
<1>9. AskedIffAwaited(ToSet(m))
  <2>1. \A x \in ToSet(m) : \E k \in 1..Len(m) : x = m[k]
    BY <1>1, InToSet
  <2> QED BY <1>8, <2>1 DEF AskedIffAwaited
<1> QED BY <1>1, <1>7, <1>9 DEF QueueOK, m
\* A merge into a request for the same block and translation loses no token.
LEMMA MergedPending ==
  ASSUME NEW q, QueueOK(q), NEW j \in 1..Len(q), NEW i \in 1..(j - 1),
         BlockOf(q[i].address) = BlockOf(q[j].address), q[i].is_translated = q[j].is_translated
  PROVE  PendingIn(ToSet(Merged(q, j, i))) = PendingIn(ToSet(q))
<1> DEFINE m == Merged(q, j, i)
<1>0. q \in Seq(Request) /\ AskedIffAwaited(ToSet(q))
  BY DEF QueueOK
<1>1. Len(q) \in Nat /\ m \in Seq(Request) /\ Len(m) = Len(q) - 1
      /\ i \in 1..Len(q) /\ i # j /\ q[i] \in Request /\ q[j] \in Request
  BY <1>0, MergedFacts
<1>2. \A k \in 1..Len(m) :
        OldIndex(k, j) \in 1..Len(q) /\ m[k] = AfterMerge(q, j, i, OldIndex(k, j))
  BY <1>0, <1>1, MergedShape
<1>3. \A n \in 1..Len(q) : n # j => \E k \in 1..Len(m) : m[k] = AfterMerge(q, j, i, n)
  BY <1>0, <1>1, MergedCovers
<1> HIDE DEF m
<1>4. \A l \in 1..Len(q) : q[l].response_requested <=> q[l].instr_depend_on_me # {}
  BY <1>0, InToSet DEF AskedIffAwaited
<1>5. Tokens(MergeInto(q[i], q[j])) = Tokens(q[i]) \cup Tokens(q[j])
  <2> DEFINE x == MergeInto(q[i], q[j])
  <2>1. /\ x.address = q[i].address /\ x.is_translated = q[i].is_translated
        /\ x.response_requested = (q[i].response_requested \/ q[j].response_requested)
        /\ x.instr_depend_on_me = q[i].instr_depend_on_me \cup q[j].instr_depend_on_me
    BY <1>1, MergeIntoType
  <2> HIDE DEF x
  <2>2. Tokens(x) = x.instr_depend_on_me \X {BlockOf(q[i].address)} \X {q[i].is_translated}
    BY <1>1, <1>4, <2>1 DEF Tokens
  <2>3. Tokens(q[i]) = q[i].instr_depend_on_me \X {BlockOf(q[i].address)} \X {q[i].is_translated}
    BY <1>1, <1>4 DEF Tokens
  <2>4. Tokens(q[j]) = q[j].instr_depend_on_me \X {BlockOf(q[i].address)} \X {q[i].is_translated}
    BY <1>1, <1>4 DEF Tokens
  <2> QED BY <2>1, <2>2, <2>3, <2>4 DEF x
<1>6. ASSUME NEW w, NEW k \in 1..Len(m), w \in Tokens(m[k])
      PROVE  \E l \in 1..Len(q) : w \in Tokens(q[l])
  BY <1>1, <1>2, <1>5, <1>6 DEF AfterMerge
<1>7. ASSUME NEW w, NEW l \in 1..Len(q), w \in Tokens(q[l])
      PROVE  \E k \in 1..Len(m) : w \in Tokens(m[k])
  <2>1. CASE l = j \/ l = i
    <3>1. PICK k \in 1..Len(m) : m[k] = MergeInto(q[i], q[j])
      BY <1>1, <1>3 DEF AfterMerge
    <3> QED BY <1>5, <1>7, <2>1, <3>1
  <2>2. CASE l # j /\ l # i
    BY <1>3, <1>7, <2>2 DEF AfterMerge
  <2> QED BY <2>1, <2>2
<1>8. \A w : w \in PendingIn(ToSet(m)) <=> w \in PendingIn(ToSet(q))
  <2>1. \A w : w \in PendingIn(ToSet(m)) <=> \E k \in 1..Len(m) : w \in Tokens(m[k])
    BY <1>1, InPending
  <2>2. \A w : w \in PendingIn(ToSet(q)) <=> \E l \in 1..Len(q) : w \in Tokens(q[l])
    BY <1>0, InPending
  <2> QED BY <2>1, <2>2, <1>6, <1>7
<1>9. PendingIn(ToSet(m)) = PendingIn(ToSet(q))
  BY <1>8 DEF PendingIn
<1> QED BY <1>9 DEF m

\* A merge into a write with the same tag loses no tag.
LEMMA MergedTags ==
  ASSUME NEW q \in Seq(Request), NEW j \in 1..Len(q), NEW i \in 1..(j - 1),
         WriteTag(q[i]) = WriteTag(q[j])
  PROVE  Tags(Merged(q, j, i)) = Tags(q)
<1> DEFINE m == Merged(q, j, i)
<1>1. Len(q) \in Nat /\ m \in Seq(Request) /\ Len(m) = Len(q) - 1
      /\ i \in 1..Len(q) /\ i # j /\ q[i] \in Request /\ q[j] \in Request
  BY MergedFacts
<1>2. \A k \in 1..Len(m) :
        OldIndex(k, j) \in 1..Len(q) /\ m[k] = AfterMerge(q, j, i, OldIndex(k, j))
  BY <1>1, MergedShape
<1>3. \A n \in 1..Len(q) : n # j => \E k \in 1..Len(m) : m[k] = AfterMerge(q, j, i, n)
  BY <1>1, MergedCovers
<1> HIDE DEF m
<1>4. WriteTag(MergeInto(q[i], q[j])) = WriteTag(q[i])
  BY <1>1, MergeIntoType DEF WriteTag
<1>5. \A l \in 1..Len(q) : WriteTag(AfterMerge(q, j, i, l)) = WriteTag(q[l])
  BY <1>4 DEF AfterMerge
<1>6. ASSUME NEW w
      PROVE  (\E k \in 1..Len(m) : w = WriteTag(m[k])) <=> (\E l \in 1..Len(q) : w = WriteTag(q[l]))
  <2>1. ASSUME NEW k \in 1..Len(m), w = WriteTag(m[k])
        PROVE  \E l \in 1..Len(q) : w = WriteTag(q[l])
    BY <1>2, <1>5, <2>1
  <2>2. ASSUME NEW l \in 1..Len(q), w = WriteTag(q[l])
        PROVE  \E k \in 1..Len(m) : w = WriteTag(m[k])
    <3>1. CASE l = j
      <4>1. PICK k \in 1..Len(m) : m[k] = AfterMerge(q, j, i, i)
        BY <1>1, <1>3
      <4> QED BY <1>1, <1>5, <2>2, <3>1, <4>1
    <3>2. CASE l # j
      BY <1>3, <1>5, <2>2, <3>2
    <3> QED BY <3>1, <3>2
  <2> QED BY <2>1, <2>2
<1>7. \A w : w \in Tags(m) <=> w \in Tags(q)
  <2>1. \A w : w \in Tags(m) <=> \E k \in 1..Len(m) : w = WriteTag(m[k])
    BY <1>1, InTags
  <2>2. \A w : w \in Tags(q) <=> \E l \in 1..Len(q) : w = WriteTag(q[l])
    BY InTags
  <2> QED BY <2>1, <2>2, <1>6
<1>8. Tags(m) = Tags(q)
  BY <1>7 DEF Tags
<1> QED BY <1>8 DEF m
\* Taking request j out of a queue takes its ids and its tokens out, and no others.
LEMMA RemovedProps ==
  ASSUME NEW q, QueueOK(q), NEW j \in 1..Len(q)
  PROVE  /\ QueueOK(RemoveAt(q, j))
         /\ Len(RemoveAt(q, j)) = Len(q) - 1
         /\ WaitingIn(ToSet(RemoveAt(q, j))) = WaitingIn(ToSet(q)) \ q[j].instr_depend_on_me
         /\ PendingIn(ToSet(RemoveAt(q, j))) = PendingIn(ToSet(q)) \ Tokens(q[j])
         /\ Tags(RemoveAt(q, j)) \cup {WriteTag(q[j])} = Tags(q)
<1> DEFINE m == RemoveAt(q, j)
<1>0. q \in Seq(Request) /\ DistinctIn(q) /\ AskedIffAwaited(ToSet(q)) /\ Len(q) \in Nat
  BY InToSet DEF QueueOK
<1>1. m \in Seq(Request) /\ Len(m) = Len(q) - 1
  BY <1>0, RemoveAtProps
<1>2. \A k \in 1..Len(m) : OldIndex(k, j) \in (1..Len(q)) \ {j} /\ m[k] = q[OldIndex(k, j)]
  <2>1. \A k \in 1..(Len(q) - 1) : m[k] = IF k < j THEN q[k] ELSE q[k + 1]
    BY <1>0, RemoveAtProps
  <2> HIDE DEF m
  <2> QED BY <1>0, <1>1, <2>1 DEF OldIndex
<1>3. \A l \in 1..Len(q) : l # j => \E k \in 1..Len(m) : OldIndex(k, j) = l
  <2> SUFFICES ASSUME NEW l \in 1..Len(q), l # j
               PROVE  \E k \in 1..(Len(q) - 1) : OldIndex(k, j) = l
    BY <1>1
  <2>1. CASE l < j
    <3>1. l \in 1..(Len(q) - 1) /\ OldIndex(l, j) = l
      BY <1>0, <2>1 DEF OldIndex
    <3> QED BY <3>1
  <2>2. CASE l > j
    <3>1. l - 1 \in 1..(Len(q) - 1) /\ OldIndex(l - 1, j) = l
      BY <1>0, <2>2 DEF OldIndex
    <3> QED BY <3>1
  <2> QED BY <1>0, <2>1, <2>2
<1>4. \A k, n \in 1..Len(m) : k # n => OldIndex(k, j) # OldIndex(n, j)
  BY <1>0, <1>1 DEF OldIndex
<1> HIDE DEF m
<1>5. \A l, n \in 1..Len(q) : l # n => q[l].instr_depend_on_me \cap q[n].instr_depend_on_me = {}
  BY <1>0 DEF DistinctIn, Disjoint
<1>6. \A l \in 1..Len(q) : l # j => Tokens(q[l]) \cap Tokens(q[j]) = {}
  <2> SUFFICES ASSUME NEW l \in 1..Len(q), l # j, NEW w \in Tokens(q[l]), w \in Tokens(q[j])
               PROVE  FALSE
    OBVIOUS
  <2>1. w[1] \in q[l].instr_depend_on_me /\ w[1] \in q[j].instr_depend_on_me
    BY TokensOfId
  <2> QED BY <1>5, <2>1
<1>7. DistinctIn(m)
  BY <1>2, <1>4, <1>5 DEF DistinctIn, Disjoint
<1>8. AskedIffAwaited(ToSet(m))
  <2>1. \A x \in ToSet(m) : \E k \in 1..Len(m) : x = m[k]
    BY <1>1, InToSet
  <2>2. \A k \in 1..Len(m) : m[k] \in ToSet(q)
    BY <1>0, <1>2, InToSet
  <2> QED BY <1>0, <2>1, <2>2 DEF AskedIffAwaited
<1>9. WaitingIn(ToSet(m)) = WaitingIn(ToSet(q)) \ q[j].instr_depend_on_me
  <2>1. \A x : x \in WaitingIn(ToSet(m)) <=> \E k \in 1..Len(m) : x \in m[k].instr_depend_on_me
    BY <1>1, InWaiting
  <2>2. \A x : x \in WaitingIn(ToSet(q)) <=> \E l \in 1..Len(q) : x \in q[l].instr_depend_on_me
    BY <1>0, InWaiting
  <2>3. ASSUME NEW x
        PROVE  (\E k \in 1..Len(m) : x \in m[k].instr_depend_on_me)
                 <=> (\E l \in 1..Len(q) : l # j /\ x \in q[l].instr_depend_on_me)
    BY <1>2, <1>3
  <2>4. ASSUME NEW x
        PROVE  (\E l \in 1..Len(q) : l # j /\ x \in q[l].instr_depend_on_me)
                 <=> (\E l \in 1..Len(q) : x \in q[l].instr_depend_on_me) /\ x \notin q[j].instr_depend_on_me
    BY <1>5
  <2> QED BY <2>1, <2>2, <2>3, <2>4
<1>10. PendingIn(ToSet(m)) = PendingIn(ToSet(q)) \ Tokens(q[j])
  <2>1. \A x : x \in PendingIn(ToSet(m)) <=> \E k \in 1..Len(m) : x \in Tokens(m[k])
    BY <1>1, InPending
  <2>2. \A x : x \in PendingIn(ToSet(q)) <=> \E l \in 1..Len(q) : x \in Tokens(q[l])
    BY <1>0, InPending
  <2>3. ASSUME NEW x
        PROVE  (\E k \in 1..Len(m) : x \in Tokens(m[k]))
                 <=> (\E l \in 1..Len(q) : l # j /\ x \in Tokens(q[l]))
    BY <1>2, <1>3
  <2>4. ASSUME NEW x
        PROVE  (\E l \in 1..Len(q) : l # j /\ x \in Tokens(q[l]))
                 <=> (\E l \in 1..Len(q) : x \in Tokens(q[l])) /\ x \notin Tokens(q[j])
    BY <1>6
  <2> QED BY <2>1, <2>2, <2>3, <2>4
<1>11. Tags(m) \cup {WriteTag(q[j])} = Tags(q)
  <2>1. \A x : x \in Tags(m) <=> \E k \in 1..Len(m) : x = WriteTag(m[k])
    BY <1>1, InTags
  <2>2. \A x : x \in Tags(q) <=> \E l \in 1..Len(q) : x = WriteTag(q[l])
    BY <1>0, InTags
  <2>3. ASSUME NEW x
        PROVE  (\E k \in 1..Len(m) : x = WriteTag(m[k]))
                 <=> (\E l \in 1..Len(q) : l # j /\ x = WriteTag(q[l]))
    BY <1>2, <1>3
  <2>4. \A x : x \in Tags(m) <=> (\E l \in 1..Len(q) : l # j /\ x = WriteTag(q[l]))
    BY <2>1, <2>3
  <2>5. \A x : x \in Tags(q) <=> x \in Tags(m) \/ x = WriteTag(q[j])
    <3>1. j \in 1..Len(q)
      OBVIOUS
    <3> QED BY <3>1, <2>2, <2>4
  <2> QED BY <2>5
<1> QED BY <1>1, <1>7, <1>8, <1>9, <1>10, <1>11 DEF QueueOK, m

\* transform_while_n takes requests from the front.
LEMMA TailIsRemoveAt ==
  ASSUME NEW S, NEW q \in Seq(S), q # <<>>
  PROVE  /\ 1 \in 1..Len(q)
         /\ Tail(q) = RemoveAt(q, 1)
         /\ Head(q) = q[1]
<1>1. Len(q) \in Nat /\ Len(q) # 0
  BY LenProperties, EmptySeq
<1>2. /\ Tail(q) \in Seq(S) /\ Len(Tail(q)) = Len(q) - 1
      /\ \A k \in 1..(Len(q) - 1) : Tail(q)[k] = q[k + 1]
  BY <1>1, HeadTailProperties
<1>3. /\ RemoveAt(q, 1) \in Seq(S) /\ Len(RemoveAt(q, 1)) = Len(q) - 1
      /\ \A k \in 1..(Len(q) - 1) : RemoveAt(q, 1)[k] = IF k < 1 THEN q[k] ELSE q[k + 1]
  <2>1. 1 \in 1..Len(q)
    BY <1>1
  <2> QED BY <2>1, RemoveAtProps
<1>4. \A k \in 1..Len(Tail(q)) : Tail(q)[k] = RemoveAt(q, 1)[k]
  BY <1>1, <1>2, <1>3
<1>5. Len(Tail(q)) = Len(RemoveAt(q, 1))
  BY <1>2, <1>3
<1>6. Tail(q) = RemoveAt(q, 1)
  BY <1>2, <1>3, <1>4, <1>5, SeqEqual
<1> QED BY <1>1, <1>6
\* Marking a request as checked changes nothing that waits.
LEMMA MarkedProps ==
  ASSUME NEW q, QueueOK(q), NEW j \in 1..Len(q)
  PROVE  /\ QueueOK(Marked(q, j))
         /\ Len(Marked(q, j)) = Len(q)
         /\ WaitingIn(ToSet(Marked(q, j))) = WaitingIn(ToSet(q))
         /\ PendingIn(ToSet(Marked(q, j))) = PendingIn(ToSet(q))
         /\ Tags(Marked(q, j)) = Tags(q)
<1> DEFINE y == [q[j] EXCEPT !.forward_checked = TRUE]
           m == [q EXCEPT ![j] = y]
<1>0. q \in Seq(Request) /\ DistinctIn(q) /\ AskedIffAwaited(ToSet(q)) /\ Len(q) \in Nat
  BY InToSet DEF QueueOK
<1>1. q[j] \in Request
  BY <1>0, InToSet
<1>2. /\ y \in Request
      /\ y.address = q[j].address /\ y.is_translated = q[j].is_translated
      /\ y.response_requested = q[j].response_requested
      /\ y.instr_depend_on_me = q[j].instr_depend_on_me
  BY <1>1 DEF Request
<1>3. Tokens(y) = Tokens(q[j]) /\ WriteTag(y) = WriteTag(q[j])
  BY <1>2 DEF Tokens, WriteTag
<1>4. Marked(q, j) = m
  BY DEF Marked
<1> HIDE DEF y
<1>5. /\ m \in Seq(Request) /\ Len(m) = Len(q)
      /\ \A k \in 1..Len(q) : m[k] = IF k = j THEN y ELSE q[k]
  BY <1>0, <1>2, ExceptSeq
<1> HIDE DEF m
<1>6. \A k \in 1..Len(q) :
        /\ m[k].instr_depend_on_me = q[k].instr_depend_on_me
        /\ m[k].response_requested = q[k].response_requested
        /\ Tokens(m[k]) = Tokens(q[k])
        /\ WriteTag(m[k]) = WriteTag(q[k])
  BY <1>2, <1>3, <1>5
<1>7. DistinctIn(m)
  BY <1>0, <1>5, <1>6 DEF DistinctIn, Disjoint
<1>8. AskedIffAwaited(ToSet(m))
  <2>1. \A x \in ToSet(m) : \E k \in 1..Len(q) : x = m[k]
    BY <1>5, InToSet
  <2>2. \A k \in 1..Len(q) : q[k] \in ToSet(q)
    BY <1>0, InToSet
  <2> QED BY <1>0, <1>6, <2>1, <2>2 DEF AskedIffAwaited
<1>9. WaitingIn(ToSet(m)) = WaitingIn(ToSet(q))
  <2>1. \A x : x \in WaitingIn(ToSet(m)) <=> \E k \in 1..Len(m) : x \in m[k].instr_depend_on_me
    BY <1>5, InWaiting
  <2>2. \A x : x \in WaitingIn(ToSet(q)) <=> \E l \in 1..Len(q) : x \in q[l].instr_depend_on_me
    BY <1>0, InWaiting
  <2>3. \A x : x \in WaitingIn(ToSet(m)) <=> x \in WaitingIn(ToSet(q))
    BY <1>5, <1>6, <2>1, <2>2
  <2> QED BY <2>3 DEF WaitingIn
<1>10. PendingIn(ToSet(m)) = PendingIn(ToSet(q))
  <2>1. \A x : x \in PendingIn(ToSet(m)) <=> \E k \in 1..Len(m) : x \in Tokens(m[k])
    BY <1>5, InPending
  <2>2. \A x : x \in PendingIn(ToSet(q)) <=> \E l \in 1..Len(q) : x \in Tokens(q[l])
    BY <1>0, InPending
  <2>3. \A x : x \in PendingIn(ToSet(m)) <=> x \in PendingIn(ToSet(q))
    BY <1>5, <1>6, <2>1, <2>2
  <2> QED BY <2>3 DEF PendingIn
<1>11. Tags(m) = Tags(q)
  <2>1. \A x : x \in Tags(m) <=> \E k \in 1..Len(m) : x = WriteTag(m[k])
    BY <1>5, InTags
  <2>2. \A x : x \in Tags(q) <=> \E l \in 1..Len(q) : x = WriteTag(q[l])
    BY <1>0, InTags
  <2>3. \A x : x \in Tags(m) <=> x \in Tags(q)
    BY <1>5, <1>6, <2>1, <2>2
  <2> QED BY <2>3 DEF Tags
<1> QED BY <1>4, <1>5, <1>7, <1>8, <1>9, <1>10, <1>11 DEF QueueOK

\* A request at the back of the queue adds its ids, none of which waited in it.
LEMMA AppendProps ==
  ASSUME NEW q, QueueOK(q), NEW x \in Request,
         x.response_requested <=> x.instr_depend_on_me # {},
         x.instr_depend_on_me \cap WaitingIn(ToSet(q)) = {}
  PROVE  /\ QueueOK(Append(q, x))
         /\ Len(Append(q, x)) = Len(q) + 1
         /\ WaitingIn(ToSet(Append(q, x))) = WaitingIn(ToSet(q)) \cup x.instr_depend_on_me
         /\ PendingIn(ToSet(Append(q, x))) = PendingIn(ToSet(q)) \cup Tokens(x)
         /\ Tags(Append(q, x)) = Tags(q) \cup {WriteTag(x)}
<1> DEFINE m == Append(q, x)
<1>0. q \in Seq(Request) /\ DistinctIn(q) /\ AskedIffAwaited(ToSet(q)) /\ Len(q) \in Nat
  BY InToSet DEF QueueOK
<1>1. /\ m \in Seq(Request) /\ Len(m) = Len(q) + 1
      /\ \A k \in 1..Len(q) : m[k] = q[k]
      /\ m[Len(q) + 1] = x
  BY <1>0, AppendProperties
<1> HIDE DEF m
<1>2. ToSet(m) = ToSet(q) \cup {x}
  <2>1. \A y \in ToSet(m) : \E k \in 1..(Len(q) + 1) : y = m[k]
    BY <1>1, InToSet
  <2>2. \A k \in 1..(Len(q) + 1) : k = Len(q) + 1 \/ k \in 1..Len(q)
    BY <1>0
  <2>3. \A y \in ToSet(m) : y = x \/ y \in ToSet(q)
    BY <1>0, <1>1, <2>1, <2>2, InToSet
  <2>4. \A k \in 1..Len(q) : k \in 1..Len(m)
    BY <1>0, <1>1
  <2>5. \A y \in ToSet(q) : y \in ToSet(m)
    BY <1>0, <1>1, <2>4, InToSet
  <2>6. x \in ToSet(m)
    BY <1>0, <1>1, InToSet
  <2> QED BY <2>3, <2>5, <2>6
<1>3. \A k \in 1..Len(q) : q[k].instr_depend_on_me \cap x.instr_depend_on_me = {}
  BY <1>0, InWaiting
<1>4. DistinctIn(m)
  <2> SUFFICES ASSUME NEW k \in 1..Len(m), NEW n \in 1..Len(m), k # n
               PROVE  m[k].instr_depend_on_me \cap m[n].instr_depend_on_me = {}
    BY DEF DistinctIn, Disjoint
  <2>1. CASE k \in 1..Len(q) /\ n \in 1..Len(q)
    BY <1>0, <1>1, <2>1 DEF DistinctIn, Disjoint
  <2>2. CASE k = Len(q) + 1 /\ n \in 1..Len(q)
    BY <1>1, <1>3, <2>2
  <2>3. CASE n = Len(q) + 1 /\ k \in 1..Len(q)
    BY <1>1, <1>3, <2>3
  <2> QED BY <1>0, <1>1, <2>1, <2>2, <2>3
<1>5. AskedIffAwaited(ToSet(m))
  BY <1>0, <1>2 DEF AskedIffAwaited
<1>6. WaitingIn(ToSet(m)) = WaitingIn(ToSet(q)) \cup x.instr_depend_on_me
  BY <1>2 DEF WaitingIn
<1>7. PendingIn(ToSet(m)) = PendingIn(ToSet(q)) \cup Tokens(x)
  BY <1>2 DEF PendingIn
<1>8. Tags(m) = Tags(q) \cup {WriteTag(x)}
  BY <1>2 DEF Tags
<1> QED BY <1>1, <1>4, <1>5, <1>6, <1>7, <1>8 DEF QueueOK, m
\* One iteration of a merging loop: whether the request is merged or kept, the
\* same ids wait; for blocks (read_shamt) they wait for the same, for writes
\* (write_shamt) the same writes are owed.
LEMMA MergeOrMarkProps ==
  ASSUME NEW q, QueueOK(q), NEW j \in 1..Len(q), NEW shamt
  PROVE  LET m == MergeOrMark(q, j, shamt)
         IN  /\ QueueOK(m)
             /\ Len(m) <= Len(q)
             /\ WaitingIn(ToSet(m)) = WaitingIn(ToSet(q))
             /\ shamt = read_shamt => PendingIn(ToSet(m)) = PendingIn(ToSet(q))
             /\ shamt = write_shamt => Tags(m) = Tags(q)
<1>0. q \in Seq(Request) /\ Len(q) \in Nat
  BY InToSet DEF QueueOK
<1>1. CASE Collides(q, j - 1, q[j], shamt)
  <2> DEFINE i == CHOOSE n \in 1..(j - 1) : CollidesAt(q, j - 1, q[j], shamt, n)
  <2>1. i \in 1..(j - 1) /\ CollidesAt(q, j - 1, q[j], shamt, i)
    BY <1>1 DEF Collides, CollidesAt
  <2>2. MergeOrMark(q, j, shamt) = Merged(q, j, i)
    BY <1>1 DEF MergeOrMark
  <2> HIDE DEF i
  <2>3. /\ SliceUpper(q[i].address, shamt) = SliceUpper(q[j].address, shamt)
        /\ q[i].is_translated = q[j].is_translated
    BY <2>1 DEF CollidesAt, SameSlice
  <2>4. QueueOK(Merged(q, j, i)) /\ WaitingIn(ToSet(Merged(q, j, i))) = WaitingIn(ToSet(q))
    BY <1>0, <2>1, MergedOK, MergedWaiting
  <2>5. Len(Merged(q, j, i)) = Len(q) - 1
    BY <1>0, <2>1, MergedFacts
  <2>6. shamt = read_shamt => PendingIn(ToSet(Merged(q, j, i))) = PendingIn(ToSet(q))
    BY <2>1, <2>3, MergedPending DEF BlockOf, read_shamt
  <2>7. shamt = write_shamt => Tags(Merged(q, j, i)) = Tags(q)
    BY <1>0, <2>1, <2>3, MergedTags DEF WriteTag
  <2> QED BY <1>0, <2>2, <2>4, <2>5, <2>6, <2>7
<1>2. CASE ~Collides(q, j - 1, q[j], shamt)
  <2>1. MergeOrMark(q, j, shamt) = Marked(q, j)
    BY <1>2 DEF MergeOrMark
  <2> QED BY <1>0, <2>1, MarkedProps
<1> QED BY <1>1, <1>2

-----------------------------------------------------------------------------
(* The responses *)

LEMMA ReturnedAppend ==
  ASSUME NEW r \in Seq(Response), DistinctIn(r), NEW x \in Response,
         x.instr_depend_on_me \cap WaitingIn(ToSet(r)) = {}
  PROVE  /\ Append(r, x) \in Seq(Response)
         /\ DistinctIn(Append(r, x))
         /\ WaitingIn(ToSet(Append(r, x))) = WaitingIn(ToSet(r)) \cup x.instr_depend_on_me
         /\ AnsweredIn(ToSet(Append(r, x)))
              = AnsweredIn(ToSet(r)) \cup (x.instr_depend_on_me \X {BlockOf(x.address)})
<1> DEFINE m == Append(r, x)
<1>0. Len(r) \in Nat
  BY InToSet
<1>1. /\ m \in Seq(Response) /\ Len(m) = Len(r) + 1
      /\ \A k \in 1..Len(r) : m[k] = r[k]
      /\ m[Len(r) + 1] = x
  BY <1>0, AppendProperties
<1> HIDE DEF m
<1>2. ToSet(m) = ToSet(r) \cup {x}
  <2>1. \A y \in ToSet(m) : \E k \in 1..(Len(r) + 1) : y = m[k]
    BY <1>1, InToSet
  <2>2. \A k \in 1..(Len(r) + 1) : k = Len(r) + 1 \/ k \in 1..Len(r)
    BY <1>0
  <2>3. \A y \in ToSet(m) : y = x \/ y \in ToSet(r)
    BY <1>0, <1>1, <2>1, <2>2, InToSet
  <2>4. \A k \in 1..Len(r) : k \in 1..Len(m)
    BY <1>0, <1>1
  <2>5. \A y \in ToSet(r) : y \in ToSet(m)
    BY <1>0, <1>1, <2>4, InToSet
  <2>6. x \in ToSet(m)
    BY <1>0, <1>1, InToSet
  <2> QED BY <2>3, <2>5, <2>6
<1>3. \A k \in 1..Len(r) : r[k].instr_depend_on_me \cap x.instr_depend_on_me = {}
  BY <1>0, InWaiting
<1>4. DistinctIn(m)
  <2> SUFFICES ASSUME NEW k \in 1..Len(m), NEW n \in 1..Len(m), k # n
               PROVE  m[k].instr_depend_on_me \cap m[n].instr_depend_on_me = {}
    BY DEF DistinctIn, Disjoint
  <2>1. CASE k \in 1..Len(r) /\ n \in 1..Len(r)
    BY <1>1, <2>1 DEF DistinctIn, Disjoint
  <2>2. CASE k = Len(r) + 1 /\ n \in 1..Len(r)
    BY <1>1, <1>3, <2>2
  <2>3. CASE n = Len(r) + 1 /\ k \in 1..Len(r)
    BY <1>1, <1>3, <2>3
  <2> QED BY <1>0, <1>1, <2>1, <2>2, <2>3
<1>5. WaitingIn(ToSet(m)) = WaitingIn(ToSet(r)) \cup x.instr_depend_on_me
  BY <1>2 DEF WaitingIn
<1>6. AnsweredIn(ToSet(m)) = AnsweredIn(ToSet(r)) \cup (x.instr_depend_on_me \X {BlockOf(x.address)})
  BY <1>2 DEF AnsweredIn
<1> QED BY <1>1, <1>4, <1>5, <1>6 DEF m

LEMMA ReturnedTail ==
  ASSUME NEW r \in Seq(Response), DistinctIn(r), r # <<>>
  PROVE  /\ Tail(r) \in Seq(Response)
         /\ DistinctIn(Tail(r))
         /\ WaitingIn(ToSet(Tail(r))) \subseteq WaitingIn(ToSet(r))
         /\ AnsweredIn(ToSet(Tail(r))) \subseteq AnsweredIn(ToSet(r))
<1> DEFINE m == Tail(r)
<1>0. Len(r) \in Nat /\ Len(r) # 0
  BY InToSet, EmptySeq
<1>1. /\ m \in Seq(Response) /\ Len(m) = Len(r) - 1
      /\ \A k \in 1..Len(m) : m[k] = r[k + 1]
  BY <1>0, HeadTailProperties
<1> HIDE DEF m
<1>2. \A k \in 1..Len(m) : k + 1 \in 1..Len(r)
  BY <1>0, <1>1
<1>3. ToSet(m) \subseteq ToSet(r)
  <2>1. \A y \in ToSet(m) : \E k \in 1..Len(m) : y = r[k + 1]
    BY <1>1, InToSet
  <2>2. \A k \in 1..Len(r) : r[k] \in ToSet(r)
    BY InToSet
  <2> QED BY <1>2, <2>1, <2>2
<1>4. DistinctIn(m)
  <2> SUFFICES ASSUME NEW k \in 1..Len(m), NEW n \in 1..Len(m), k # n
               PROVE  m[k].instr_depend_on_me \cap m[n].instr_depend_on_me = {}
    BY DEF DistinctIn, Disjoint
  <2>1. k + 1 \in 1..Len(r) /\ n + 1 \in 1..Len(r) /\ k + 1 # n + 1
    BY <1>0, <1>1, <1>2
  <2>2. r[k + 1].instr_depend_on_me \cap r[n + 1].instr_depend_on_me = {}
    BY <2>1 DEF DistinctIn, Disjoint
  <2> QED BY <1>1, <2>2
<1>5. /\ WaitingIn(ToSet(m)) \subseteq WaitingIn(ToSet(r))
      /\ AnsweredIn(ToSet(m)) \subseteq AnsweredIn(ToSet(r))
  BY <1>3 DEF WaitingIn, AnsweredIn
<1> QED BY <1>1, <1>4, <1>5 DEF m
-----------------------------------------------------------------------------
(* The inductive invariant *)

Inv == TypeOK /\ IdsWaitOnce /\ WaitersWillBeAnswered

LEMMA InvQueues ==
  ASSUME Inv
  PROVE  QueueOK(RQ) /\ QueueOK(PQ) /\ QueueOK(WQ)
<1>1. QueueOK(RQ) /\ QueueOK(PQ)
  BY DEF Inv, TypeOK, IdsWaitOnce, WaitersWillBeAnswered, QueueOK
<1>2. WQ \in Seq(Request) /\ AskedIffAwaited(ToSet(WQ)) /\ WaitingIn(ToSet(WQ)) = {}
  BY DEF Inv, TypeOK, WaitersWillBeAnswered
<1>3. \A k \in 1..Len(WQ) : WQ[k].instr_depend_on_me = {}
  BY <1>2, InWaiting
<1>4. DistinctIn(WQ)
  BY <1>3 DEF DistinctIn, Disjoint
<1> QED BY <1>1, <1>2, <1>4 DEF QueueOK

LEMMA PendingIds ==
  ASSUME NEW S, NEW w \in PendingIn(S)
  PROVE  w[1] \in WaitingIn(S)
<1>1. PICK x \in S : w \in Tokens(x)
  BY DEF PendingIn
<1>2. w[1] \in x.instr_depend_on_me
  BY <1>1, TokensOfId
<1> QED BY <1>1, <1>2 DEF WaitingIn

LEMMA AnsweredIds ==
  ASSUME NEW S, NEW w \in AnsweredIn(S)
  PROVE  w[1] \in WaitingIn(S)
BY DEF AnsweredIn, WaitingIn

LEMMA NewRequestProps ==
  ASSUME NEW a \in Address, NEW t \in Translation, NEW D \in SUBSET Instr
  PROVE  LET x == NewRequest(a, t, D)
         IN  /\ x \in Request
             /\ x.response_requested <=> x.instr_depend_on_me # {}
             /\ x.instr_depend_on_me = D
             /\ Tokens(x) = D \X {BlockOf(a)} \X {t}
             /\ WriteTag(x) = <<SliceUpper(a, write_shamt), t>>
<1> DEFINE x == NewRequest(a, t, D)
<1>1. /\ x \in Request /\ x.address = a /\ x.is_translated = t
      /\ x.response_requested = (D # {}) /\ x.instr_depend_on_me = D
  BY DEF NewRequest, Request
<1> HIDE DEF x
<1>2. Tokens(x) = D \X {BlockOf(a)} \X {t}
  <2>1. CASE D = {}
    BY <1>1, <2>1 DEF Tokens
  <2>2. CASE D # {}
    BY <1>1, <2>2 DEF Tokens
  <2> QED BY <2>1, <2>2
<1> QED BY <1>1, <1>2 DEF WriteTag, x

LEMMA StepAddRQ ==
  ASSUME Inv, NEW a \in Address, NEW t \in Translation, NEW D \in SUBSET Instr,
         AddRQ(a, t, D)
  PROVE  Inv' /\ Promise!Ask(D, BlockOf(a), t)
<1> DEFINE x == NewRequest(a, t, D)
<1>1. /\ x \in Request /\ (x.response_requested <=> x.instr_depend_on_me # {})
      /\ x.instr_depend_on_me = D /\ Tokens(x) = D \X {BlockOf(a)} \X {t}
  BY NewRequestProps
<1>2. RQ' = Append(RQ, x) /\ Len(RQ) < RQ_SIZE /\ D \cap Waiting = {}
      /\ UNCHANGED <<WQ, PQ, returned, pc, inService, written>>
  BY DEF AddRQ, HasRoom
<1> HIDE DEF x
<1>3. /\ QueueOK(RQ') /\ Len(RQ') = Len(RQ) + 1
      /\ WaitingIn(ToSet(RQ')) = WaitingIn(ToSet(RQ)) \cup D
      /\ PendingIn(ToSet(RQ')) = PendingIn(ToSet(RQ)) \cup Tokens(x)
  BY <1>1, <1>2, InvQueues, AppendProps DEF Waiting
<1>4. TypeOK'
  BY <1>2, <1>3, InToSet DEF Inv, TypeOK, QueueOK
<1>5. IdsWaitOnce'
  BY <1>2, <1>3 DEF Inv, IdsWaitOnce, QueueOK, Waiting
<1>6. WaitersWillBeAnswered'
  BY <1>2, <1>3 DEF Inv, WaitersWillBeAnswered, QueueOK
<1>7. \A w \in Pending : w[1] \notin D
  BY <1>2, PendingIds DEF Pending, Waiting
<1>8. \A w \in Answered : w[1] \notin D
  BY <1>2, AnsweredIds DEF Answered, Waiting
<1>9. Pending' = Pending \cup (D \X {BlockOf(a)} \X {t})
  BY <1>1, <1>2, <1>3 DEF Pending
<1>10. UNCHANGED <<Answered, Unwritten, written>>
  BY <1>2 DEF Answered, Unwritten
<1> QED BY <1>4, <1>5, <1>6, <1>7, <1>8, <1>9, <1>10 DEF Inv, Promise!Ask
LEMMA StepAddPQ ==
  ASSUME Inv, NEW a \in Address, NEW t \in Translation, NEW D \in SUBSET Instr,
         AddPQ(a, t, D)
  PROVE  Inv' /\ Promise!Ask(D, BlockOf(a), t)
<1> DEFINE x == NewRequest(a, t, D)
<1>1. /\ x \in Request /\ (x.response_requested <=> x.instr_depend_on_me # {})
      /\ x.instr_depend_on_me = D /\ Tokens(x) = D \X {BlockOf(a)} \X {t}
  BY NewRequestProps
<1>2. PQ' = Append(PQ, x) /\ Len(PQ) < PQ_SIZE /\ D \cap Waiting = {}
      /\ UNCHANGED <<WQ, RQ, returned, pc, inService, written>>
  BY DEF AddPQ, HasRoom
<1> HIDE DEF x
<1>3. /\ QueueOK(PQ') /\ Len(PQ') = Len(PQ) + 1
      /\ WaitingIn(ToSet(PQ')) = WaitingIn(ToSet(PQ)) \cup D
      /\ PendingIn(ToSet(PQ')) = PendingIn(ToSet(PQ)) \cup Tokens(x)
  BY <1>1, <1>2, InvQueues, AppendProps DEF Waiting
<1>4. TypeOK'
  BY <1>2, <1>3, InToSet DEF Inv, TypeOK, QueueOK
<1>5. IdsWaitOnce'
  BY <1>2, <1>3 DEF Inv, IdsWaitOnce, QueueOK, Waiting
<1>6. WaitersWillBeAnswered'
  BY <1>2, <1>3 DEF Inv, WaitersWillBeAnswered, QueueOK
<1>7. \A w \in Pending : w[1] \notin D
  BY <1>2, PendingIds DEF Pending, Waiting
<1>8. \A w \in Answered : w[1] \notin D
  BY <1>2, AnsweredIds DEF Answered, Waiting
<1>9. Pending' = Pending \cup (D \X {BlockOf(a)} \X {t})
  BY <1>1, <1>2, <1>3 DEF Pending
<1>10. UNCHANGED <<Answered, Unwritten, written>>
  BY <1>2 DEF Answered, Unwritten
<1> QED BY <1>4, <1>5, <1>6, <1>7, <1>8, <1>9, <1>10 DEF Inv, Promise!Ask

LEMMA StepAddWQ ==
  ASSUME Inv, NEW a \in Address, NEW t \in Translation, AddWQ(a, t)
  PROVE  Inv' /\ Promise!Write(<<SliceUpper(a, write_shamt), t>>)
<1> DEFINE x == NewRequest(a, t, {})
<1>1. /\ x \in Request /\ (x.response_requested <=> x.instr_depend_on_me # {})
      /\ x.instr_depend_on_me = {} /\ WriteTag(x) = <<SliceUpper(a, write_shamt), t>>
  BY NewRequestProps
<1>2. WQ' = Append(WQ, x) /\ Len(WQ) < WQ_SIZE
      /\ UNCHANGED <<RQ, PQ, returned, pc, inService, written>>
  BY DEF AddWQ, HasRoom
<1> HIDE DEF x
<1>3. /\ QueueOK(WQ') /\ Len(WQ') = Len(WQ) + 1
      /\ WaitingIn(ToSet(WQ')) = WaitingIn(ToSet(WQ)) \cup {}
      /\ Tags(WQ') = Tags(WQ) \cup {WriteTag(x)}
  BY <1>1, <1>2, InvQueues, AppendProps
<1>4. TypeOK'
  BY <1>2, <1>3, InToSet DEF Inv, TypeOK, QueueOK
<1>5. IdsWaitOnce'
  BY <1>2 DEF Inv, IdsWaitOnce
<1>6. WaitersWillBeAnswered'
  BY <1>2, <1>3 DEF Inv, WaitersWillBeAnswered, QueueOK
<1>7. Unwritten' = Unwritten \cup {WriteTag(x)}
  BY <1>3 DEF Unwritten, Tags
<1>8. UNCHANGED <<Pending, Answered, written>>
  BY <1>2 DEF Pending, Answered
<1> QED BY <1>1, <1>4, <1>5, <1>6, <1>7, <1>8 DEF Inv, Promise!Write

LEMMA StepPickUp ==
  ASSUME Inv, PickUp
  PROVE  Inv' /\ \E S \in SUBSET Answered : Promise!PickUp(S)
<1>1. returned # <<>> /\ returned' = Tail(returned)
      /\ UNCHANGED <<RQ, WQ, PQ, pc, inService, written>>
  BY DEF PickUp
<1>2. /\ returned' \in Seq(Response)
      /\ DistinctIn(returned')
      /\ WaitingIn(ToSet(returned')) \subseteq WaitingIn(ToSet(returned))
      /\ AnsweredIn(ToSet(returned')) \subseteq AnsweredIn(ToSet(returned))
  BY <1>1, ReturnedTail DEF Inv, TypeOK, IdsWaitOnce
<1>3. TypeOK' /\ WaitersWillBeAnswered'
  BY <1>1, <1>2 DEF Inv, TypeOK, WaitersWillBeAnswered
<1>4. IdsWaitOnce'
  BY <1>1, <1>2 DEF Inv, IdsWaitOnce
<1>5. Answered' \subseteq Answered
  BY <1>2 DEF Answered
<1>6. Promise!PickUp(Answered \ Answered')
  BY <1>1, <1>5 DEF Promise!PickUp, Pending, Unwritten
<1> QED BY <1>3, <1>4, <1>6 DEF Inv

\* Moving from loop to loop changes only pc.
LEMMA StepControl ==
  ASSUME Inv, CheckCollision \/ EndWQ \/ EndRQ \/ EndPQ \/ EndOperate
  PROVE  Inv' /\ UNCHANGED Promise!abstractVars
<1>1. UNCHANGED <<RQ, WQ, PQ, returned, inService, written>>
      /\ pc' \in {"idle", "WQ", "RQ", "PQ", "take"}
  BY DEF CheckCollision, EndWQ, EndRQ, EndPQ, EndOperate
<1>2. Inv'
  BY <1>1 DEF Inv, TypeOK, IdsWaitOnce, WaitersWillBeAnswered
<1> QED BY <1>1, <1>2 DEF Promise!abstractVars, Pending, Answered, Unwritten

LEMMA StepScanWQ ==
  ASSUME Inv, ScanWQ
  PROVE  Inv' /\ UNCHANGED Promise!abstractVars
<1>1. PICK j \in 1..Len(WQ) : WQ' = MergeOrMark(WQ, j, write_shamt)
  BY DEF ScanWQ
<1>2. UNCHANGED <<RQ, PQ, returned, pc, inService, written>>
  BY DEF ScanWQ
<1>3. /\ QueueOK(WQ') /\ Len(WQ') <= Len(WQ)
      /\ WaitingIn(ToSet(WQ')) = WaitingIn(ToSet(WQ))
      /\ Tags(WQ') = Tags(WQ)
  BY <1>1, InvQueues, MergeOrMarkProps
<1>4. TypeOK'
  BY <1>2, <1>3, InToSet DEF Inv, TypeOK, QueueOK
<1>5. IdsWaitOnce' /\ WaitersWillBeAnswered'
  BY <1>2, <1>3 DEF Inv, IdsWaitOnce, WaitersWillBeAnswered, QueueOK
<1>6. UNCHANGED <<Pending, Answered, Unwritten, written>>
  BY <1>2, <1>3 DEF Pending, Answered, Unwritten, Tags
<1> QED BY <1>4, <1>5, <1>6 DEF Inv, Promise!abstractVars
LEMMA ResponseToProps ==
  ASSUME NEW p \in Request, p.response_requested,
         returned \in Seq(Response), DistinctIn(returned),
         p.instr_depend_on_me \cap WaitingIn(ToSet(returned)) = {},
         NEW r, r = Append(returned, ResponseTo(p))
  PROVE  /\ r \in Seq(Response) /\ DistinctIn(r)
         /\ WaitingIn(ToSet(r)) = WaitingIn(ToSet(returned)) \cup p.instr_depend_on_me
         /\ AnsweredIn(ToSet(r)) = AnsweredIn(ToSet(returned)) \cup {<<w[1], w[2]>> : w \in Tokens(p)}
<1> DEFINE x == ResponseTo(p)
<1>1. x \in Response /\ x.instr_depend_on_me = p.instr_depend_on_me /\ x.address = p.address
  BY DEF ResponseTo, Request, Response
<1> HIDE DEF x
<1>2. /\ r \in Seq(Response) /\ DistinctIn(r)
      /\ WaitingIn(ToSet(r)) = WaitingIn(ToSet(returned)) \cup p.instr_depend_on_me
      /\ AnsweredIn(ToSet(r))
           = AnsweredIn(ToSet(returned)) \cup (p.instr_depend_on_me \X {BlockOf(p.address)})
  <2>1. r = Append(returned, x)
    BY DEF x
  <2> QED BY <1>1, <2>1, ReturnedAppend
<1>3. {<<w[1], w[2]>> : w \in Tokens(p)} = p.instr_depend_on_me \X {BlockOf(p.address)}
  <2>1. ASSUME NEW w \in Tokens(p)
        PROVE  <<w[1], w[2]>> \in p.instr_depend_on_me \X {BlockOf(p.address)}
    BY <2>1, TokensOfId
  <2>2. ASSUME NEW v \in p.instr_depend_on_me \X {BlockOf(p.address)}
        PROVE  \E w \in Tokens(p) : v = <<w[1], w[2]>>
    <3>1. <<v[1], BlockOf(p.address), p.is_translated>> \in Tokens(p)
      BY TokensIntro
    <3> QED BY <3>1
  <2> QED BY <2>1, <2>2
<1> QED BY <1>2, <1>3

LEMMA ReturnedAfterProps ==
  ASSUME NEW p \in Request, p.response_requested <=> p.instr_depend_on_me # {},
         returned \in Seq(Response), DistinctIn(returned),
         p.instr_depend_on_me \cap WaitingIn(ToSet(returned)) = {},
         NEW r, r = ReturnedAfter(p)
  PROVE  /\ r \in Seq(Response) /\ DistinctIn(r)
         /\ WaitingIn(ToSet(r)) = WaitingIn(ToSet(returned)) \cup p.instr_depend_on_me
         /\ AnsweredIn(ToSet(r)) = AnsweredIn(ToSet(returned)) \cup {<<w[1], w[2]>> : w \in Tokens(p)}
<1>1. CASE p.response_requested
  BY <1>1, ResponseToProps DEF ReturnedAfter
<1>2. CASE ~p.response_requested
  BY <1>2 DEF ReturnedAfter, Tokens
<1> QED BY <1>1, <1>2

\* A read answered from the write queue (do_collision_for_return): its ids move
\* from the read queue to the responses in one step.
LEMMA StepForwardRQ ==
  ASSUME Inv, NEW j \in 1..Len(RQ),
         returned' = ReturnedAfter(RQ[j]), RQ' = RemoveAt(RQ, j),
         UNCHANGED <<WQ, PQ, pc, inService, written>>
  PROVE  Inv' /\ \E S \in SUBSET Pending : Promise!Answer(S)
<1> DEFINE p == RQ[j]
<1>1. RQ \in Seq(Request) /\ Len(RQ) \in Nat /\ p \in Request /\ p \in ToSet(RQ)
  BY InToSet DEF Inv, TypeOK
<1>2. p.response_requested <=> p.instr_depend_on_me # {}
  BY <1>1 DEF Inv, WaitersWillBeAnswered, AskedIffAwaited
<1>3. /\ QueueOK(RQ') /\ Len(RQ') = Len(RQ) - 1
      /\ WaitingIn(ToSet(RQ')) = WaitingIn(ToSet(RQ)) \ p.instr_depend_on_me
      /\ PendingIn(ToSet(RQ')) = PendingIn(ToSet(RQ)) \ Tokens(p)
  BY InvQueues, RemovedProps
<1>4. returned' = ReturnedAfter(p)
  OBVIOUS
<1>5. p.instr_depend_on_me \subseteq WaitingIn(ToSet(RQ)) /\ Tokens(p) \subseteq PendingIn(ToSet(RQ))
  BY <1>1 DEF WaitingIn, PendingIn
<1> HIDE DEF p
<1>6. /\ returned' \in Seq(Response) /\ DistinctIn(returned')
      /\ WaitingIn(ToSet(returned')) = WaitingIn(ToSet(returned)) \cup p.instr_depend_on_me
      /\ AnsweredIn(ToSet(returned')) = AnsweredIn(ToSet(returned)) \cup {<<w[1], w[2]>> : w \in Tokens(p)}
  BY <1>1, <1>2, <1>4, <1>5, ReturnedAfterProps DEF Inv, TypeOK, IdsWaitOnce
<1>7. TypeOK'
  BY <1>1, <1>3, <1>6 DEF Inv, TypeOK, QueueOK
<1>8. IdsWaitOnce'
  BY <1>3, <1>5, <1>6 DEF Inv, IdsWaitOnce, QueueOK
<1>9. WaitersWillBeAnswered'
  BY <1>3 DEF Inv, WaitersWillBeAnswered, QueueOK
<1>10. Tokens(p) \cap (PendingIn(ToSet(PQ)) \cup PendingIn(inService)) = {}
  <2> SUFFICES ASSUME NEW w \in Tokens(p), w \in PendingIn(ToSet(PQ)) \cup PendingIn(inService)
               PROVE  FALSE
    OBVIOUS
  <2>1. w[1] \in WaitingIn(ToSet(RQ))
    BY <1>5, TokensOfId
  <2>2. w[1] \in WaitingIn(ToSet(PQ)) \cup WaitingIn(inService)
    BY PendingIds
  <2> QED BY <2>1, <2>2 DEF Inv, IdsWaitOnce
<1>11. Pending' = Pending \ Tokens(p) /\ Tokens(p) \in SUBSET Pending
  BY <1>3, <1>5, <1>10 DEF Pending
<1>12. Promise!Answer(Tokens(p))
  BY <1>6, <1>11 DEF Promise!Answer, Answered, Unwritten
<1> QED BY <1>7, <1>8, <1>9, <1>11, <1>12 DEF Inv

\* A prefetch answered from the write queue (do_collision_for_return): its ids move
\* from the prefetch queue to the responses in one step.
LEMMA StepForwardPQ ==
  ASSUME Inv, NEW j \in 1..Len(PQ),
         returned' = ReturnedAfter(PQ[j]), PQ' = RemoveAt(PQ, j),
         UNCHANGED <<WQ, RQ, pc, inService, written>>
  PROVE  Inv' /\ \E S \in SUBSET Pending : Promise!Answer(S)
<1> DEFINE p == PQ[j]
<1>1. PQ \in Seq(Request) /\ Len(PQ) \in Nat /\ p \in Request /\ p \in ToSet(PQ)
  BY InToSet DEF Inv, TypeOK
<1>2. p.response_requested <=> p.instr_depend_on_me # {}
  BY <1>1 DEF Inv, WaitersWillBeAnswered, AskedIffAwaited
<1>3. /\ QueueOK(PQ') /\ Len(PQ') = Len(PQ) - 1
      /\ WaitingIn(ToSet(PQ')) = WaitingIn(ToSet(PQ)) \ p.instr_depend_on_me
      /\ PendingIn(ToSet(PQ')) = PendingIn(ToSet(PQ)) \ Tokens(p)
  BY InvQueues, RemovedProps
<1>4. returned' = ReturnedAfter(p)
  OBVIOUS
<1>5. p.instr_depend_on_me \subseteq WaitingIn(ToSet(PQ)) /\ Tokens(p) \subseteq PendingIn(ToSet(PQ))
  BY <1>1 DEF WaitingIn, PendingIn
<1> HIDE DEF p
<1>6. /\ returned' \in Seq(Response) /\ DistinctIn(returned')
      /\ WaitingIn(ToSet(returned')) = WaitingIn(ToSet(returned)) \cup p.instr_depend_on_me
      /\ AnsweredIn(ToSet(returned')) = AnsweredIn(ToSet(returned)) \cup {<<w[1], w[2]>> : w \in Tokens(p)}
  BY <1>1, <1>2, <1>4, <1>5, ReturnedAfterProps DEF Inv, TypeOK, IdsWaitOnce
<1>7. TypeOK'
  BY <1>1, <1>3, <1>6 DEF Inv, TypeOK, QueueOK
<1>8. IdsWaitOnce'
  BY <1>3, <1>5, <1>6 DEF Inv, IdsWaitOnce, QueueOK
<1>9. WaitersWillBeAnswered'
  BY <1>3 DEF Inv, WaitersWillBeAnswered, QueueOK
<1>10. Tokens(p) \cap (PendingIn(ToSet(RQ)) \cup PendingIn(inService)) = {}
  <2> SUFFICES ASSUME NEW w \in Tokens(p), w \in PendingIn(ToSet(RQ)) \cup PendingIn(inService)
               PROVE  FALSE
    OBVIOUS
  <2>1. w[1] \in WaitingIn(ToSet(PQ))
    BY <1>5, TokensOfId
  <2>2. w[1] \in WaitingIn(ToSet(RQ)) \cup WaitingIn(inService)
    BY PendingIds
  <2> QED BY <2>1, <2>2 DEF Inv, IdsWaitOnce
<1>11. Pending' = Pending \ Tokens(p) /\ Tokens(p) \in SUBSET Pending
  BY <1>3, <1>5, <1>10 DEF Pending
<1>12. Promise!Answer(Tokens(p))
  BY <1>6, <1>11 DEF Promise!Answer, Answered, Unwritten
<1> QED BY <1>7, <1>8, <1>9, <1>11, <1>12 DEF Inv

LEMMA StepScanRQ ==
  ASSUME Inv, ScanRQ
  PROVE  Inv' /\ (UNCHANGED Promise!abstractVars \/ \E S \in SUBSET Pending : Promise!Answer(S))
<1>1. PICK j \in 1..Len(RQ) :
        \/ returned' = ReturnedAfter(RQ[j]) /\ RQ' = RemoveAt(RQ, j)
        \/ RQ' = MergeOrMark(RQ, j, read_shamt) /\ UNCHANGED returned
  BY DEF ScanRQ
<1>2. UNCHANGED <<WQ, PQ, pc, inService, written>>
  BY DEF ScanRQ
<1>3. CASE returned' = ReturnedAfter(RQ[j]) /\ RQ' = RemoveAt(RQ, j)
  BY <1>2, <1>3, StepForwardRQ
<1>4. CASE RQ' = MergeOrMark(RQ, j, read_shamt) /\ UNCHANGED returned
  <2>1. /\ QueueOK(RQ') /\ Len(RQ') <= Len(RQ)
        /\ WaitingIn(ToSet(RQ')) = WaitingIn(ToSet(RQ))
        /\ PendingIn(ToSet(RQ')) = PendingIn(ToSet(RQ))
    BY <1>4, InvQueues, MergeOrMarkProps
  <2>2. TypeOK'
    BY <1>2, <1>4, <2>1, InToSet DEF Inv, TypeOK, QueueOK
  <2>3. IdsWaitOnce' /\ WaitersWillBeAnswered'
    BY <1>2, <1>4, <2>1 DEF Inv, IdsWaitOnce, WaitersWillBeAnswered, QueueOK
  <2>4. UNCHANGED <<Pending, Answered, Unwritten, written>>
    BY <1>2, <1>4, <2>1 DEF Pending, Answered, Unwritten
  <2> QED BY <2>2, <2>3, <2>4 DEF Inv, Promise!abstractVars
<1> QED BY <1>1, <1>3, <1>4

LEMMA StepScanPQ ==
  ASSUME Inv, ScanPQ
  PROVE  Inv' /\ (UNCHANGED Promise!abstractVars \/ \E S \in SUBSET Pending : Promise!Answer(S))
<1>1. PICK j \in 1..Len(PQ) :
        \/ returned' = ReturnedAfter(PQ[j]) /\ PQ' = RemoveAt(PQ, j)
        \/ PQ' = MergeOrMark(PQ, j, read_shamt) /\ UNCHANGED returned
  BY DEF ScanPQ
<1>2. UNCHANGED <<WQ, RQ, pc, inService, written>>
  BY DEF ScanPQ
<1>3. CASE returned' = ReturnedAfter(PQ[j]) /\ PQ' = RemoveAt(PQ, j)
  BY <1>2, <1>3, StepForwardPQ
<1>4. CASE PQ' = MergeOrMark(PQ, j, read_shamt) /\ UNCHANGED returned
  <2>1. /\ QueueOK(PQ') /\ Len(PQ') <= Len(PQ)
        /\ WaitingIn(ToSet(PQ')) = WaitingIn(ToSet(PQ))
        /\ PendingIn(ToSet(PQ')) = PendingIn(ToSet(PQ))
    BY <1>4, InvQueues, MergeOrMarkProps
  <2>2. TypeOK'
    BY <1>2, <1>4, <2>1, InToSet DEF Inv, TypeOK, QueueOK
  <2>3. IdsWaitOnce' /\ WaitersWillBeAnswered'
    BY <1>2, <1>4, <2>1 DEF Inv, IdsWaitOnce, WaitersWillBeAnswered, QueueOK
  <2>4. UNCHANGED <<Pending, Answered, Unwritten, written>>
    BY <1>2, <1>4, <2>1 DEF Pending, Answered, Unwritten
  <2> QED BY <2>2, <2>3, <2>4 DEF Inv, Promise!abstractVars
<1> QED BY <1>1, <1>3, <1>4

\* The cache takes a request: its ids wait there now.
LEMMA StepTakeRQ ==
  ASSUME Inv, TakeRQ
  PROVE  Inv' /\ UNCHANGED Promise!abstractVars
<1> DEFINE p == RQ[1]
<1>1. RQ \in Seq(Request) /\ Len(RQ) \in Nat /\ RQ # <<>>
      /\ RQ' = Tail(RQ) /\ inService' = Accept(Head(RQ))
      /\ UNCHANGED <<WQ, PQ, returned, pc, written>>
  BY InToSet DEF Inv, TypeOK, TakeRQ
<1>2. 1 \in 1..Len(RQ) /\ RQ' = RemoveAt(RQ, 1) /\ Head(RQ) = p
  BY <1>1, TailIsRemoveAt
<1>3. /\ QueueOK(RQ') /\ Len(RQ') = Len(RQ) - 1
      /\ WaitingIn(ToSet(RQ')) = WaitingIn(ToSet(RQ)) \ p.instr_depend_on_me
      /\ PendingIn(ToSet(RQ')) = PendingIn(ToSet(RQ)) \ Tokens(p)
  BY <1>2, InvQueues, RemovedProps
<1>4. p \in Request /\ p \in ToSet(RQ)
  BY <1>1, <1>2, InToSet
<1>5. inService' = Accept(p)
  BY <1>1, <1>2
<1>6. p.response_requested <=> p.instr_depend_on_me # {}
  BY <1>4 DEF Inv, WaitersWillBeAnswered, AskedIffAwaited
<1> HIDE DEF p
<1>7. p.instr_depend_on_me \subseteq WaitingIn(ToSet(RQ)) /\ Tokens(p) \subseteq PendingIn(ToSet(RQ))
  BY <1>4 DEF WaitingIn, PendingIn
<1>8. /\ inService' \subseteq Request
      /\ WaitingIn(inService') = WaitingIn(inService) \cup p.instr_depend_on_me
      /\ PendingIn(inService') = PendingIn(inService) \cup Tokens(p)
      /\ AskedIffAwaited(inService')
      /\ \A x, y \in inService' : x # y => Disjoint(x, y)
  <2>1. CASE p.response_requested
    <3>1. inService' = inService \cup {p}
      BY <1>5, <2>1 DEF Accept
    <3>2. \A x \in inService : x.instr_depend_on_me \cap p.instr_depend_on_me = {}
      BY <1>7 DEF Inv, IdsWaitOnce, WaitingIn
    <3>3. inService' \subseteq Request /\ AskedIffAwaited(inService')
      BY <1>4, <1>6, <3>1 DEF Inv, TypeOK, WaitersWillBeAnswered, AskedIffAwaited
    <3>4. \A x, y \in inService' : x # y => Disjoint(x, y)
      BY <3>1, <3>2 DEF Inv, IdsWaitOnce, Disjoint
    <3>5. /\ WaitingIn(inService') = WaitingIn(inService) \cup p.instr_depend_on_me
          /\ PendingIn(inService') = PendingIn(inService) \cup Tokens(p)
      BY <3>1 DEF WaitingIn, PendingIn
    <3> QED BY <3>3, <3>4, <3>5
  <2>2. CASE ~p.response_requested
    <3>1. inService' = inService /\ p.instr_depend_on_me = {} /\ Tokens(p) = {}
      BY <1>5, <1>6, <2>2 DEF Accept, Tokens
    <3> QED BY <3>1 DEF Inv, TypeOK, IdsWaitOnce, WaitersWillBeAnswered
  <2> QED BY <2>1, <2>2
<1>9. TypeOK'
  BY <1>1, <1>3, <1>8 DEF Inv, TypeOK, QueueOK
<1>10. IdsWaitOnce'
  BY <1>1, <1>3, <1>7, <1>8 DEF Inv, IdsWaitOnce, QueueOK
<1>11. WaitersWillBeAnswered'
  BY <1>1, <1>3, <1>8 DEF Inv, WaitersWillBeAnswered, QueueOK
<1>12. UNCHANGED <<Pending, Answered, Unwritten, written>>
  BY <1>1, <1>3, <1>7, <1>8 DEF Pending, Answered, Unwritten
<1> QED BY <1>9, <1>10, <1>11, <1>12 DEF Inv, Promise!abstractVars

\* The cache takes a request: its ids wait there now.
LEMMA StepTakePQ ==
  ASSUME Inv, TakePQ
  PROVE  Inv' /\ UNCHANGED Promise!abstractVars
<1> DEFINE p == PQ[1]
<1>1. PQ \in Seq(Request) /\ Len(PQ) \in Nat /\ PQ # <<>>
      /\ PQ' = Tail(PQ) /\ inService' = Accept(Head(PQ))
      /\ UNCHANGED <<WQ, RQ, returned, pc, written>>
  BY InToSet DEF Inv, TypeOK, TakePQ
<1>2. 1 \in 1..Len(PQ) /\ PQ' = RemoveAt(PQ, 1) /\ Head(PQ) = p
  BY <1>1, TailIsRemoveAt
<1>3. /\ QueueOK(PQ') /\ Len(PQ') = Len(PQ) - 1
      /\ WaitingIn(ToSet(PQ')) = WaitingIn(ToSet(PQ)) \ p.instr_depend_on_me
      /\ PendingIn(ToSet(PQ')) = PendingIn(ToSet(PQ)) \ Tokens(p)
  BY <1>2, InvQueues, RemovedProps
<1>4. p \in Request /\ p \in ToSet(PQ)
  BY <1>1, <1>2, InToSet
<1>5. inService' = Accept(p)
  BY <1>1, <1>2
<1>6. p.response_requested <=> p.instr_depend_on_me # {}
  BY <1>4 DEF Inv, WaitersWillBeAnswered, AskedIffAwaited
<1> HIDE DEF p
<1>7. p.instr_depend_on_me \subseteq WaitingIn(ToSet(PQ)) /\ Tokens(p) \subseteq PendingIn(ToSet(PQ))
  BY <1>4 DEF WaitingIn, PendingIn
<1>8. /\ inService' \subseteq Request
      /\ WaitingIn(inService') = WaitingIn(inService) \cup p.instr_depend_on_me
      /\ PendingIn(inService') = PendingIn(inService) \cup Tokens(p)
      /\ AskedIffAwaited(inService')
      /\ \A x, y \in inService' : x # y => Disjoint(x, y)
  <2>1. CASE p.response_requested
    <3>1. inService' = inService \cup {p}
      BY <1>5, <2>1 DEF Accept
    <3>2. \A x \in inService : x.instr_depend_on_me \cap p.instr_depend_on_me = {}
      BY <1>7 DEF Inv, IdsWaitOnce, WaitingIn
    <3>3. inService' \subseteq Request /\ AskedIffAwaited(inService')
      BY <1>4, <1>6, <3>1 DEF Inv, TypeOK, WaitersWillBeAnswered, AskedIffAwaited
    <3>4. \A x, y \in inService' : x # y => Disjoint(x, y)
      BY <3>1, <3>2 DEF Inv, IdsWaitOnce, Disjoint
    <3>5. /\ WaitingIn(inService') = WaitingIn(inService) \cup p.instr_depend_on_me
          /\ PendingIn(inService') = PendingIn(inService) \cup Tokens(p)
      BY <3>1 DEF WaitingIn, PendingIn
    <3> QED BY <3>3, <3>4, <3>5
  <2>2. CASE ~p.response_requested
    <3>1. inService' = inService /\ p.instr_depend_on_me = {} /\ Tokens(p) = {}
      BY <1>5, <1>6, <2>2 DEF Accept, Tokens
    <3> QED BY <3>1 DEF Inv, TypeOK, IdsWaitOnce, WaitersWillBeAnswered
  <2> QED BY <2>1, <2>2
<1>9. TypeOK'
  BY <1>1, <1>3, <1>8 DEF Inv, TypeOK, QueueOK
<1>10. IdsWaitOnce'
  BY <1>1, <1>3, <1>7, <1>8 DEF Inv, IdsWaitOnce, QueueOK
<1>11. WaitersWillBeAnswered'
  BY <1>1, <1>3, <1>8 DEF Inv, WaitersWillBeAnswered, QueueOK
<1>12. UNCHANGED <<Pending, Answered, Unwritten, written>>
  BY <1>1, <1>3, <1>7, <1>8 DEF Pending, Answered, Unwritten
<1> QED BY <1>9, <1>10, <1>11, <1>12 DEF Inv, Promise!abstractVars

LEMMA StepTakeWQ ==
  ASSUME Inv, TakeWQ
  PROVE  Inv' /\ \E w \in Unwritten : Promise!Drain(w)
<1> DEFINE p == WQ[1]
<1>1. WQ \in Seq(Request) /\ Len(WQ) \in Nat /\ WQ # <<>>
      /\ WQ' = Tail(WQ) /\ inService' = Accept(Head(WQ)) /\ written' = {WriteTag(Head(WQ))}
      /\ UNCHANGED <<RQ, PQ, returned, pc>>
  BY InToSet DEF Inv, TypeOK, TakeWQ
<1>2. 1 \in 1..Len(WQ) /\ WQ' = RemoveAt(WQ, 1) /\ Head(WQ) = p
  BY <1>1, TailIsRemoveAt
<1>3. /\ QueueOK(WQ') /\ Len(WQ') = Len(WQ) - 1
      /\ WaitingIn(ToSet(WQ')) = WaitingIn(ToSet(WQ)) \ p.instr_depend_on_me
      /\ Tags(WQ') \cup {WriteTag(p)} = Tags(WQ)
  BY <1>2, InvQueues, RemovedProps
<1>4. p \in Request /\ p \in ToSet(WQ)
  BY <1>1, <1>2, InToSet
<1>5. inService' = Accept(p) /\ written' = {WriteTag(p)}
  BY <1>1, <1>2
<1> HIDE DEF p
<1>6. p.instr_depend_on_me = {} /\ ~p.response_requested
  BY <1>4 DEF Inv, WaitersWillBeAnswered, AskedIffAwaited, WaitingIn
<1>7. inService' = inService
  BY <1>5, <1>6 DEF Accept
<1>8. WriteTag(p) \in WriteTags \X Translation
  BY <1>4 DEF Request, WriteTag, WriteTags
<1>9. TypeOK'
  <2>1. WQ' \in Seq(Request) /\ Len(WQ') <= WQ_SIZE
    BY <1>1, <1>3 DEF Inv, TypeOK, QueueOK
  <2>2. written' \subseteq (WriteTags \X Translation)
    BY <1>5, <1>8
  <2> QED BY <1>1, <1>7, <2>1, <2>2 DEF Inv, TypeOK
<1>10. IdsWaitOnce' /\ WaitersWillBeAnswered'
  BY <1>1, <1>3, <1>7 DEF Inv, IdsWaitOnce, WaitersWillBeAnswered, QueueOK
<1>11. WriteTag(p) \in Unwritten
  BY <1>4 DEF Unwritten
<1>12. \E again \in SUBSET {WriteTag(p)} : Unwritten' = (Unwritten \ {WriteTag(p)}) \cup again
  <2>1. Unwritten' \cup {WriteTag(p)} = Unwritten
    BY <1>3 DEF Unwritten, Tags
  <2> DEFINE V == Unwritten'
             w == WriteTag(p)
  <2>2. V \cup {w} = Unwritten
    BY <2>1
  <2> HIDE DEF V, w
  <2>3. \E again \in SUBSET {w} : V = (Unwritten \ {w}) \cup again
    <3>1. CASE w \in V
      <4>1. V = (Unwritten \ {w}) \cup {w}
        BY <2>2, <3>1
      <4> QED BY <4>1
    <3>2. CASE w \notin V
      <4>1. V = (Unwritten \ {w}) \cup {}
        BY <2>2, <3>2
      <4> QED BY <4>1
    <3> QED BY <3>1, <3>2
  <2> QED BY <2>3 DEF V, w
<1>13. UNCHANGED <<Pending, Answered>>
  BY <1>1, <1>7 DEF Pending, Answered
<1>14. Promise!Drain(WriteTag(p))
  BY <1>5, <1>11, <1>12, <1>13 DEF Promise!Drain
<1> QED BY <1>9, <1>10, <1>11, <1>14 DEF Inv

LEMMA StepRespond ==
  ASSUME Inv, NEW p \in inService, Respond(p)
  PROVE  Inv' /\ \E S \in SUBSET Pending : Promise!Answer(S)
<1>1. inService' = inService \ {p} /\ returned' = Append(returned, ResponseTo(p))
      /\ UNCHANGED <<RQ, WQ, PQ, pc, written>>
  BY DEF Respond
<1>2. p \in Request /\ (p.response_requested <=> p.instr_depend_on_me # {})
      /\ p.instr_depend_on_me \subseteq WaitingIn(inService)
      /\ Tokens(p) \subseteq PendingIn(inService)
  BY DEF Inv, TypeOK, WaitersWillBeAnswered, AskedIffAwaited, WaitingIn, PendingIn
<1>3. \A x \in inService : x # p => x.instr_depend_on_me \cap p.instr_depend_on_me = {}
  BY DEF Inv, IdsWaitOnce, Disjoint
<1>4. WaitingIn(inService') = WaitingIn(inService) \ p.instr_depend_on_me
  BY <1>1, <1>3 DEF WaitingIn
<1>5. PendingIn(inService') = PendingIn(inService) \ Tokens(p)
  <2>1. \A x \in inService : x # p => Tokens(x) \cap Tokens(p) = {}
    <3> SUFFICES ASSUME NEW x \in inService, x # p, NEW w \in Tokens(x), w \in Tokens(p)
                 PROVE  FALSE
      OBVIOUS
    <3>1. w[1] \in x.instr_depend_on_me /\ w[1] \in p.instr_depend_on_me
      BY TokensOfId
    <3> QED BY <1>3, <3>1
  <2> QED BY <1>1, <2>1 DEF PendingIn
<1>6. /\ returned' \in Seq(Response) /\ DistinctIn(returned')
      /\ WaitingIn(ToSet(returned')) = WaitingIn(ToSet(returned)) \cup p.instr_depend_on_me
      /\ AnsweredIn(ToSet(returned')) = AnsweredIn(ToSet(returned)) \cup {<<w[1], w[2]>> : w \in Tokens(p)}
  <2>1. returned \in Seq(Response) /\ DistinctIn(returned)
        /\ p.instr_depend_on_me \cap WaitingIn(ToSet(returned)) = {}
    BY <1>2 DEF Inv, TypeOK, IdsWaitOnce
  <2>2. CASE p.response_requested
    BY <1>1, <1>2, <2>1, <2>2, ResponseToProps
  <2>3. CASE ~p.response_requested
    <3>1. ResponseTo(p) \in Response /\ ResponseTo(p).instr_depend_on_me = {} /\ Tokens(p) = {}
          /\ p.instr_depend_on_me = {}
      BY <1>2, <2>3 DEF ResponseTo, Request, Response, Tokens
    <3>2. /\ returned' \in Seq(Response) /\ DistinctIn(returned')
          /\ WaitingIn(ToSet(returned')) = WaitingIn(ToSet(returned)) \cup {}
          /\ AnsweredIn(ToSet(returned')) = AnsweredIn(ToSet(returned)) \cup ({} \X {BlockOf(ResponseTo(p).address)})
      <4>1. returned' = Append(returned, ResponseTo(p))
        BY <1>1
      <4>2. ResponseTo(p).instr_depend_on_me \cap WaitingIn(ToSet(returned)) = {}
        BY <3>1
      <4> QED BY <4>1, <4>2, <2>1, <3>1, ReturnedAppend
    <3> QED BY <3>1, <3>2
  <2> QED BY <2>2, <2>3
<1>7. TypeOK'
  BY <1>1, <1>6 DEF Inv, TypeOK
<1>8. IdsWaitOnce'
  BY <1>1, <1>2, <1>4, <1>6 DEF Inv, IdsWaitOnce
<1>9. WaitersWillBeAnswered'
  BY <1>1 DEF Inv, WaitersWillBeAnswered, AskedIffAwaited
<1>10. Tokens(p) \cap (PendingIn(ToSet(RQ)) \cup PendingIn(ToSet(PQ))) = {}
  <2> SUFFICES ASSUME NEW w \in Tokens(p), w \in PendingIn(ToSet(RQ)) \cup PendingIn(ToSet(PQ))
               PROVE  FALSE
    OBVIOUS
  <2>1. w[1] \in WaitingIn(inService)
    BY <1>2, TokensOfId
  <2>2. w[1] \in WaitingIn(ToSet(RQ)) \cup WaitingIn(ToSet(PQ))
    BY PendingIds
  <2> QED BY <2>1, <2>2 DEF Inv, IdsWaitOnce
<1>11. Pending' = Pending \ Tokens(p) /\ Tokens(p) \in SUBSET Pending
  BY <1>1, <1>2, <1>5, <1>10 DEF Pending
<1>12. Promise!Answer(Tokens(p))
  BY <1>1, <1>6, <1>11 DEF Promise!Answer, Answered, Unwritten
<1> QED BY <1>7, <1>8, <1>9, <1>11, <1>12 DEF Inv

-----------------------------------------------------------------------------
(* The theorems *)

LEMMA InitInv == Init => Inv /\ Promise!Init
<1> SUFFICES ASSUME Init PROVE Inv /\ Promise!Init
  OBVIOUS
<1>1. RQ = <<>> /\ WQ = <<>> /\ PQ = <<>> /\ returned = <<>> /\ pc = "idle"
      /\ inService = {} /\ written = {}
  BY DEF Init
<1>2. \A S : <<>> \in Seq(S) /\ Len(<<>>) = 0
  BY EmptySeq
<1>3. ToSet(<<>>) = {}
  <2>1. <<>> \in Seq(Nat) /\ Len(<<>>) = 0
    BY <1>2
  <2>2. \A x \in ToSet(<<>>) : \E k \in 1..Len(<<>>) : x = <<>>[k]
    <3> DEFINE none == <<>>
    <3>1. none \in Seq(Nat)
      BY <2>1
    <3> HIDE DEF none
    <3>2. \A x \in ToSet(none) : \E k \in 1..Len(none) : x = none[k]
      BY <3>1, InToSet
    <3> QED BY <3>2 DEF none
  <2>3. 1..Len(<<>>) = {}
    BY <2>1
  <2> QED BY <2>2, <2>3
<1>4. TypeOK
  BY <1>1, <1>2 DEF TypeOK
<1>5. IdsWaitOnce /\ WaitersWillBeAnswered
  BY <1>1, <1>2, <1>3 DEF IdsWaitOnce, WaitersWillBeAnswered, DistinctIn, WaitingIn, AskedIffAwaited
<1>6. Promise!Init
  BY <1>1, <1>3 DEF Promise!Init, Pending, PendingIn, Answered, AnsweredIn, Unwritten
<1> QED BY <1>4, <1>5, <1>6 DEF Inv

\* Every step of the channel keeps the invariant and is a step of its promise.
LEMMA NextInv ==
  ASSUME Inv, [Next]_vars
  PROVE  Inv' /\ [Promise!Next]_(Promise!abstractVars)
<1>1. ASSUME NEW a \in Address, NEW t \in Translation, NEW D \in SUBSET Instr,
             AddRQ(a, t, D) \/ AddPQ(a, t, D)
      PROVE  Inv' /\ Promise!Next
  <2>1. Inv' /\ Promise!Ask(D, BlockOf(a), t)
    BY <1>1, StepAddRQ, StepAddPQ
  <2> QED BY <2>1 DEF Promise!Next
<1>2. ASSUME NEW a \in Address, NEW t \in Translation, AddWQ(a, t)
      PROVE  Inv' /\ Promise!Next
  <2>1. Inv' /\ Promise!Write(<<SliceUpper(a, write_shamt), t>>)
    BY <1>2, StepAddWQ
  <2>2. <<SliceUpper(a, write_shamt), t>> \in WriteTags \X Translation
    BY DEF WriteTags
  <2> QED BY <2>1, <2>2 DEF Promise!Next
<1>3. ASSUME PickUp PROVE Inv' /\ Promise!Next
  BY <1>3, StepPickUp DEF Promise!Next
<1>4. ASSUME CheckCollision \/ EndWQ \/ EndRQ \/ EndPQ \/ EndOperate
      PROVE  Inv' /\ UNCHANGED Promise!abstractVars
  BY <1>4, StepControl
<1>5. ASSUME ScanWQ \/ TakeRQ \/ TakePQ PROVE Inv' /\ UNCHANGED Promise!abstractVars
  BY <1>5, StepScanWQ, StepTakeRQ, StepTakePQ
<1>6. ASSUME ScanRQ \/ ScanPQ PROVE Inv' /\ [Promise!Next]_(Promise!abstractVars)
  BY <1>6, StepScanRQ, StepScanPQ DEF Promise!Next
<1>7. ASSUME TakeWQ PROVE Inv' /\ Promise!Next
  <2>1. Inv' /\ \E w \in Unwritten : Promise!Drain(w)
    BY <1>7, StepTakeWQ
  <2>2. Unwritten \subseteq WriteTags \X Translation
    <3>1. ASSUME NEW x \in ToSet(WQ)
          PROVE  WriteTag(x) \in WriteTags \X Translation
      <4>1. x \in Request
        BY InToSet DEF Inv, TypeOK
      <4> QED BY <4>1 DEF Request, WriteTag, WriteTags
    <3> QED BY <3>1 DEF Unwritten
  <2> QED BY <2>1, <2>2 DEF Promise!Next
<1>8. ASSUME NEW p \in inService, Respond(p) PROVE Inv' /\ Promise!Next
  BY <1>8, StepRespond DEF Promise!Next
<1>9. ASSUME UNCHANGED vars PROVE Inv' /\ UNCHANGED Promise!abstractVars
  BY <1>9 DEF vars, Inv, TypeOK, IdsWaitOnce, WaitersWillBeAnswered,
              Promise!abstractVars, Pending, Answered, Unwritten
<1> QED BY <1>1, <1>2, <1>3, <1>4, <1>5, <1>6, <1>7, <1>8, <1>9 DEF Next, Upper, Lower

\* The fields of the channel keep their types and no queue outgrows its size
\* (do_add_queue's occupancy check, channel.cc:121).
THEOREM TypeCorrect == Spec => []TypeOK
<1>1. Init => Inv
  BY InitInv
<1>2. Inv /\ [Next]_vars => Inv'
  BY NextInv
<1>3. Inv => TypeOK
  BY DEF Inv
<1> QED BY <1>1, <1>2, <1>3, PTL DEF Spec

\* No id ever waits in two places, so none is answered twice.
THEOREM EachIdWaitsOnce == Spec => []IdsWaitOnce
<1>1. Init => Inv
  BY InitInv
<1>2. Inv /\ [Next]_vars => Inv'
  BY NextInv
<1>3. Inv => IdsWaitOnce
  BY DEF Inv
<1> QED BY <1>1, <1>2, <1>3, PTL DEF Spec

\* Merges never leave ids at a request that asks for no response.
THEOREM WaitersAreAnswered == Spec => []WaitersWillBeAnswered
<1>1. Init => Inv
  BY InitInv
<1>2. Inv /\ [Next]_vars => Inv'
  BY NextInv
<1>3. Inv => WaitersWillBeAnswered
  BY DEF Inv
<1> QED BY <1>1, <1>2, <1>3, PTL DEF Spec

\* For any queue sizes, addresses and ids, the channel implements RequestReply.
THEOREM ChannelKeepsPromise == Spec => KeepsPromise
<1>1. Init => Inv /\ Promise!Init
  BY InitInv
<1>2. Inv /\ [Next]_vars => Inv' /\ [Promise!Next]_(Promise!abstractVars)
  BY NextInv
<1> QED BY <1>1, <1>2, PTL DEF Spec, Promise!Spec, KeepsPromise
=============================================================================
