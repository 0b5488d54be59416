----------------------------- MODULE CacheProofs -----------------------------
(* Proofs about Cache.                                                      *)
EXTENDS Cache, SequenceTheorems, TLAPS

WF == INSTANCE WellFoundedInduction

USE CacheAssumption

-----------------------------------------------------------------------------
(* The inductive invariant *)

\* Does i wait in the queue q, and for the block b?
In(q, i) == \E k \in 1..Len(q) : i \in q[k].instr_depend_on_me

Asks(q, i, b) == \E k \in 1..Len(q) : i \in q[k].instr_depend_on_me /\ b = q[k].address

\* Each id of S waits in one entry of q at most.
Single(q, S) ==
  \A i \in S : \A k, j \in 1..Len(q) :
    i \in q[k].instr_depend_on_me /\ i \in q[j].instr_depend_on_me => k = j

SentBy(u) == {i \in Instr : SenderOf[i] = u}

\* An id waits in one place: a tag check, a miss, or a response to its sender.  The
\* response to a merged miss goes to other channels too, which do not know the id.
Once ==
  /\ Single(inflight_tag_check, Instr) /\ Single(MSHR, Instr)
  /\ \A u \in Upper : Single(returned[u], SentBy(u))
  /\ \A i \in Instr : /\ ~(In(inflight_tag_check, i) /\ In(MSHR, i))
                      /\ ~(In(inflight_tag_check, i) /\ In(returned[SenderOf[i]], i))
                      /\ ~(In(MSHR, i) /\ In(returned[SenderOf[i]], i))

\* Does the answer to x go to the sender of everyone who waits for it?
Knows(x) == \A i \in x.instr_depend_on_me : SenderOf[i] \in x.to_return

\* Nobody waits for what is not answered: a write, or a prefetch that skips this level.
Dropped(p) == p.type = "WRITE" \/ p.skip_fill

Unattended(S) == {x \in S : x.instr_depend_on_me = {}}

KnownPacket == {p \in Packet : Knows(p) /\ (Dropped(p) => p.instr_depend_on_me = {})}

KnownMiss == {m \in Miss : Knows(m)}

Senders ==
  /\ inflight_tag_check \in Seq(KnownPacket) /\ MSHR \in Seq(KnownMiss)
  /\ internal_PQ \in Seq(Unattended(Packet)) /\ inflight_writes \in Seq(Unattended(Miss))

\* In a cache of stores, what did not hit is still not there when it is made a miss.
NotHeld(n) == \A k \in 1..Len(inflight_tag_check) : k <= n => WaysWith(inflight_tag_check[k].address) = {}

Lines ==
  match_offset_bits =>
    /\ NoBlockTwice
    /\ inflight_writes = <<>>
    /\ stage = "hits" => NotHeld(at - 1)
    /\ stage = "misses" => NotHeld(last)

Inv == TypeOK /\ EveryAnswerHasItsMiss /\ AnsweredMissesFirst /\ Once /\ Senders /\ Lines

-----------------------------------------------------------------------------
(* Sequences *)

LEMMA Entries ==
  ASSUME NEW S, NEW q \in Seq(S)
  PROVE  /\ Len(q) \in Nat /\ DOMAIN q = 1..Len(q) /\ \A k \in 1..Len(q) : q[k] \in S
         /\ q = <<>> <=> Len(q) = 0
BY LenProperties, ElementOfSeq, EmptySeq

LEMMA Appended ==
  ASSUME NEW S, NEW q \in Seq(S), NEW x \in S, NEW r, r = Append(q, x)
  PROVE  /\ r \in Seq(S) /\ Len(r) = Len(q) + 1 /\ Len(q) \in Nat
         /\ \A k \in 1..Len(q) : k \in 1..Len(r) /\ r[k] = q[k]
         /\ Len(q) + 1 \in 1..Len(r) /\ r[Len(q) + 1] = x
         /\ \A k \in 1..Len(r) : k \in 1..Len(q) \/ k = Len(q) + 1
<1>1. /\ r \in Seq(S) /\ Len(r) = Len(q) + 1 /\ Len(q) \in Nat
      /\ \A k \in 1..Len(q) : r[k] = q[k]
      /\ r[Len(q) + 1] = x
  BY AppendProperties, LenProperties
<1> QED BY <1>1

\* Taking entry j out of q shifts the later entries down and touches no other.
LEMMA RemoveAtProps ==
  ASSUME NEW S, NEW q \in Seq(S), NEW j \in 1..Len(q)
  PROVE  /\ RemoveAt(q, j) \in Seq(S)
         /\ Len(RemoveAt(q, j)) = Len(q) - 1
         /\ \A k \in 1..(Len(q) - 1) :
              RemoveAt(q, j)[k] = IF k < j THEN q[k] ELSE q[k + 1]
<1> DEFINE front == SubSeq(q, 1, j - 1)
           back == SubSeq(q, j + 1, Len(q))
<1>1. /\ Len(q) \in Nat
      /\ \A i \in 1..Len(q) : q[i] \in S
  BY LenProperties, ElementOfSeq
<1>2. /\ front \in Seq(S)
      /\ Len(front) = j - 1
      /\ \A i \in 1..(j - 1) : front[i] = q[i]
  <2>1. \A i \in 1..(j - 1) : q[i] \in S
    BY <1>1
  <2>2. /\ front \in Seq(S)
        /\ Len(front) = IF 1 <= j - 1 THEN (j - 1) - 1 + 1 ELSE 0
        /\ \A i \in 1..((j - 1) - 1 + 1) : front[i] = q[1 + i - 1]
    BY <1>1, <2>1, SubSeqProperties
  <2> QED BY <1>1, <2>2
<1>3. /\ back \in Seq(S)
      /\ Len(back) = Len(q) - j
      /\ \A i \in 1..(Len(q) - j) : back[i] = q[j + i]
  <2>1. \A i \in (j + 1)..Len(q) : q[i] \in S
    BY <1>1
  <2>2. /\ back \in Seq(S)
        /\ Len(back) = IF j + 1 <= Len(q) THEN Len(q) - (j + 1) + 1 ELSE 0
        /\ \A i \in 1..(Len(q) - (j + 1) + 1) : back[i] = q[(j + 1) + i - 1]
    BY <1>1, <2>1, SubSeqProperties
  <2> QED BY <1>1, <2>2
<1>4. RemoveAt(q, j) = front \o back
  BY DEF RemoveAt
<1> HIDE DEF front, back
<1>5. /\ front \o back \in Seq(S)
      /\ Len(front \o back) = Len(front) + Len(back)
      /\ \A i \in 1..(Len(front) + Len(back)) :
           (front \o back)[i] = IF i <= Len(front) THEN front[i] ELSE back[i - Len(front)]
  <2>1. front \in Seq(S) /\ back \in Seq(S)
    BY <1>2, <1>3
  <2> QED BY <2>1, ConcatProperties
<1>6. Len(front) + Len(back) = Len(q) - 1
  BY <1>1, <1>2, <1>3
<1>7. ASSUME NEW k \in 1..(Len(q) - 1)
      PROVE  (front \o back)[k] = IF k < j THEN q[k] ELSE q[k + 1]
  <2>1. CASE k < j
    BY <2>1, <1>1, <1>2, <1>5, <1>6
  <2>2. CASE ~(k < j)
    <3>1. k - Len(front) \in 1..(Len(q) - j) /\ ~(k <= Len(front)) /\ j + (k - Len(front)) = k + 1
      BY <2>2, <1>1, <1>2
    <3> QED BY <3>1, <2>2, <1>3, <1>5, <1>6
  <2> QED BY <2>1, <2>2
<1> QED BY <1>5, <1>4, <1>6, <1>7
\* Where the entries of q are after that: Old leads back, and nothing is lost.
Old(k, j) == IF k < j THEN k ELSE k + 1

LEMMA Removed ==
  ASSUME NEW S, NEW q \in Seq(S), NEW j \in 1..Len(q), NEW r, r = RemoveAt(q, j)
  PROVE  /\ r \in Seq(S) /\ Len(r) = Len(q) - 1 /\ Len(q) \in Nat
         /\ \A k \in 1..Len(r) : Old(k, j) \in 1..Len(q) /\ Old(k, j) # j /\ r[k] = q[Old(k, j)]
         /\ \A k, l \in 1..Len(r) : Old(k, j) = Old(l, j) => k = l
         /\ \A k \in 1..Len(q) : k # j => \E l \in 1..Len(r) : Old(l, j) = k
<1>1. /\ r \in Seq(S) /\ Len(r) = Len(q) - 1 /\ Len(q) \in Nat
      /\ \A k \in 1..(Len(q) - 1) : r[k] = IF k < j THEN q[k] ELSE q[k + 1]
  BY RemoveAtProps, LenProperties
<1>2. ASSUME NEW k \in 1..Len(r)
      PROVE  Old(k, j) \in 1..Len(q) /\ Old(k, j) # j /\ r[k] = q[Old(k, j)]
  BY <1>1 DEF Old
<1>3. ASSUME NEW k \in 1..Len(r), NEW l \in 1..Len(r), Old(k, j) = Old(l, j)
      PROVE  k = l
  BY <1>1, <1>3 DEF Old
<1>4. ASSUME NEW k \in 1..Len(q), k # j
      PROVE  \E l \in 1..Len(r) : Old(l, j) = k
  <2>1. CASE k < j
    <3>1. k \in 1..Len(r) /\ Old(k, j) = k
      BY <1>1, <2>1 DEF Old
    <3> QED BY <3>1
  <2>2. CASE ~(k < j)
    <3>1. k - 1 \in 1..Len(r) /\ Old(k - 1, j) = k
      BY <1>1, <1>4, <2>2 DEF Old
    <3> QED BY <3>1
  <2> QED BY <2>1, <2>2
<1> QED BY <1>1, <1>2, <1>3, <1>4

\* Taking the first is removing entry 1.
LEMMA Taken ==
  ASSUME NEW S, NEW q \in Seq(S), q # <<>>
  PROVE  Tail(q) = RemoveAt(q, 1) /\ Head(q) = q[1] /\ 1 \in 1..Len(q) /\ q[1] \in S
<1>1. /\ Len(q) \in Nat \ {0} /\ \A k \in 1..Len(q) : q[k] \in S
  BY Entries
<1>2. 1 \in 1..Len(q) /\ Head(q) = q[1]
  BY <1>1
<1>3. /\ Tail(q) \in Seq(S) /\ Len(Tail(q)) = Len(q) - 1
      /\ \A k \in 1..Len(Tail(q)) : Tail(q)[k] = q[k + 1]
  BY HeadTailProperties
<1>4. /\ RemoveAt(q, 1) \in Seq(S) /\ Len(RemoveAt(q, 1)) = Len(q) - 1
      /\ \A k \in 1..(Len(q) - 1) : RemoveAt(q, 1)[k] = IF k < 1 THEN q[k] ELSE q[k + 1]
  BY <1>2, RemoveAtProps
<1>5. \A k \in 1..Len(Tail(q)) : Tail(q)[k] = RemoveAt(q, 1)[k]
  BY <1>1, <1>3, <1>4
<1> QED BY <1>1, <1>2, <1>3, <1>4, <1>5, SeqEqual

LEMMA Rest ==
  ASSUME NEW S, NEW q \in Seq(S), q # <<>>, NEW r, r = Tail(q)
  PROVE  /\ r \in Seq(S) /\ Len(r) = Len(q) - 1 /\ Len(q) \in Nat \ {0} /\ Head(q) = q[1]
         /\ \A k \in 1..Len(r) : k + 1 \in 1..Len(q) /\ k + 1 # 1 /\ r[k] = q[k + 1]
         /\ \A k \in 1..Len(q) : k # 1 => k - 1 \in 1..Len(r) /\ r[k - 1] = q[k]
<1>1. Len(q) \in Nat \ {0} /\ Head(q) = q[1]
  BY Entries
<1>2. /\ r \in Seq(S) /\ Len(r) = Len(q) - 1
      /\ \A k \in 1..Len(r) : r[k] = q[k + 1]
  BY HeadTailProperties
<1>3. ASSUME NEW k \in 1..Len(q), k # 1
      PROVE  k - 1 \in 1..Len(r) /\ r[k - 1] = q[k]
  <2>1. k - 1 \in 1..Len(r) /\ (k - 1) + 1 = k
    BY <1>1, <1>2, <1>3
  <2> QED BY <1>2, <2>1
<1> QED BY <1>1, <1>2, <1>3

LEMMA LeastOf ==
  ASSUME NEW T, T \subseteq Nat, T # {}
  PROVE  \E x \in T : \A y \in T : x <= y
<1>1. PICK R : WF!IsWellFoundedOn(R, Nat) /\ \A x, y \in Nat : x < y => <<x, y>> \in R
  <2> DEFINE R == WF!OpToRel(<, Nat)
  <2>1. WF!IsWellFoundedOn(R, Nat)
    BY WF!NatLessThanWellFounded
  <2>2. \A x, y \in Nat : x < y => <<x, y>> \in R
    BY DEF WF!OpToRel
  <2> HIDE DEF R
  <2> QED BY <2>1, <2>2
<1>2. PICK x \in T : \A y \in T : ~ (<<y, x>> \in R)
  <2>1. WF!IsWellFoundedOn(R, Nat)
    BY <1>1
  <2> QED BY <2>1, WF!WFMin
<1>3. ASSUME NEW y \in T PROVE x <= y
  <2>1. x \in Nat /\ y \in Nat /\ ~(y < x)
    BY <1>1, <1>2
  <2> QED BY <2>1
<1> QED BY <1>3

\* The first of some positions.
LEMMA FirstIsLeast ==
  ASSUME NEW S \in SUBSET Nat, S # {}
  PROVE  First(S) \in S /\ \A k \in S : First(S) <= k
BY LeastOf DEF First

-----------------------------------------------------------------------------
(* Who waits in a queue *)

LEMMA AsksIn ==
  ASSUME NEW q, NEW i
  PROVE  In(q, i) <=> \E b : Asks(q, i, b)
BY DEF In, Asks

LEMMA AppendedIds ==
  ASSUME NEW R, NEW q \in Seq(R), NEW x \in R, NEW r, r = Append(q, x)
  PROVE  /\ \A i : In(r, i) <=> In(q, i) \/ i \in x.instr_depend_on_me
         /\ \A i, b : Asks(r, i, b) <=> Asks(q, i, b) \/ (i \in x.instr_depend_on_me /\ b = x.address)
<1>1. /\ \A k \in 1..Len(q) : k \in 1..Len(r) /\ r[k] = q[k]
      /\ Len(q) + 1 \in 1..Len(r) /\ r[Len(q) + 1] = x
      /\ \A k \in 1..Len(r) : k \in 1..Len(q) \/ k = Len(q) + 1
  BY Appended
<1>2. \A i : In(r, i) <=> In(q, i) \/ i \in x.instr_depend_on_me
  BY <1>1 DEF In
<1>3. \A i, b : Asks(r, i, b) <=> Asks(q, i, b) \/ (i \in x.instr_depend_on_me /\ b = x.address)
  BY <1>1 DEF Asks
<1> QED BY <1>2, <1>3

LEMMA AppendedSingle ==
  ASSUME NEW R, NEW q \in Seq(R), NEW x \in R, NEW r, r = Append(q, x),
         NEW S, Single(q, S), \A i \in S : i \in x.instr_depend_on_me => ~In(q, i)
  PROVE  Single(r, S)
<1>1. /\ \A k \in 1..Len(q) : k \in 1..Len(r) /\ r[k] = q[k]
      /\ Len(q) + 1 \in 1..Len(r) /\ r[Len(q) + 1] = x
      /\ \A k \in 1..Len(r) : k \in 1..Len(q) \/ k = Len(q) + 1
  BY Appended
<1> QED BY <1>1 DEF Single, In

LEMMA RemovedIds ==
  ASSUME NEW R, NEW q \in Seq(R), NEW j \in 1..Len(q), NEW r, r = RemoveAt(q, j), NEW S, Single(q, S)
  PROVE  /\ \A i \in S : In(r, i) <=> In(q, i) /\ i \notin q[j].instr_depend_on_me
         /\ \A i \in S : \A b : Asks(r, i, b) <=> Asks(q, i, b) /\ i \notin q[j].instr_depend_on_me
         /\ \A i \in S : i \in q[j].instr_depend_on_me => \A b : Asks(q, i, b) <=> b = q[j].address
         /\ Single(r, S)
<1>1. /\ \A k \in 1..Len(r) : Old(k, j) \in 1..Len(q) /\ Old(k, j) # j /\ r[k] = q[Old(k, j)]
      /\ \A k, l \in 1..Len(r) : Old(k, j) = Old(l, j) => k = l
      /\ \A k \in 1..Len(q) : k # j => \E l \in 1..Len(r) : Old(l, j) = k
  BY Removed
<1>2. ASSUME NEW i \in S
      PROVE  In(r, i) <=> In(q, i) /\ i \notin q[j].instr_depend_on_me
  <2>1. ASSUME NEW k \in 1..Len(r), i \in r[k].instr_depend_on_me
        PROVE  In(q, i) /\ i \notin q[j].instr_depend_on_me
    <3>1. PICK o \in 1..Len(q) : o # j /\ r[k] = q[o]
      BY <1>1
    <3> QED BY <2>1, <3>1 DEF In, Single
  <2>2. ASSUME NEW k \in 1..Len(q), i \in q[k].instr_depend_on_me, i \notin q[j].instr_depend_on_me
        PROVE  In(r, i)
    <3>1. PICK l \in 1..Len(r) : Old(l, j) = k
      BY <1>1, <2>2
    <3>2. r[l] = q[k]
      BY <1>1, <3>1
    <3> QED BY <2>2, <3>2 DEF In
  <2> QED BY <2>1, <2>2 DEF In
<1>3. ASSUME NEW i \in S, NEW b
      PROVE  Asks(r, i, b) <=> Asks(q, i, b) /\ i \notin q[j].instr_depend_on_me
  <2>1. ASSUME NEW k \in 1..Len(r), i \in r[k].instr_depend_on_me, b = r[k].address
        PROVE  Asks(q, i, b) /\ i \notin q[j].instr_depend_on_me
    BY <1>1, <2>1 DEF Asks, Single
  <2>2. ASSUME NEW k \in 1..Len(q), i \in q[k].instr_depend_on_me, b = q[k].address,
               i \notin q[j].instr_depend_on_me
        PROVE  Asks(r, i, b)
    BY <1>1, <2>2 DEF Asks
  <2> QED BY <2>1, <2>2 DEF Asks
<1>4. ASSUME NEW i \in S, i \in q[j].instr_depend_on_me, NEW b
      PROVE  Asks(q, i, b) <=> b = q[j].address
  BY <1>4 DEF Asks, Single
<1>5. Single(r, S)
  <2> SUFFICES ASSUME NEW i \in S, NEW k \in 1..Len(r), NEW l \in 1..Len(r),
                      i \in r[k].instr_depend_on_me, i \in r[l].instr_depend_on_me
               PROVE  k = l
    BY DEF Single
  <2>1. Old(k, j) = Old(l, j)
    <3>1. /\ Old(k, j) \in 1..Len(q) /\ r[k] = q[Old(k, j)]
          /\ Old(l, j) \in 1..Len(q) /\ r[l] = q[Old(l, j)]
      BY <1>1
    <3>2. i \in q[Old(k, j)].instr_depend_on_me /\ i \in q[Old(l, j)].instr_depend_on_me
      BY <3>1
    <3> QED BY <3>1, <3>2 DEF Single
  <2> QED BY <1>1, <2>1
<1> QED BY <1>2, <1>3, <1>4, <1>5

\* An entry that is changed where it is, so that others wait there too.
Changed(q, j, x) == [q EXCEPT ![j] = x]

LEMMA JoinedSingle ==
  ASSUME NEW R, NEW q \in Seq(R), NEW j \in 1..Len(q), NEW x \in R, NEW D, NEW r, r = Changed(q, j, x),
         x.instr_depend_on_me = q[j].instr_depend_on_me \cup D,
         NEW S, Single(q, S), \A i \in S : i \in D => ~In(q, i)
  PROVE  Single(r, S)
<1>0. /\ Len(r) = Len(q)
      /\ \A k \in 1..Len(q) : r[k] = IF k = j THEN x ELSE q[k]
  BY ExceptSeq DEF Changed
<1> SUFFICES ASSUME NEW i \in S, NEW k \in 1..Len(q), NEW l \in 1..Len(q),
                    i \in r[k].instr_depend_on_me, i \in r[l].instr_depend_on_me
             PROVE  k = l
  BY <1>0 DEF Single
<1>1. CASE i \in D
  <2>1. \A n \in 1..Len(q) : i \notin q[n].instr_depend_on_me
    BY <1>1 DEF In
  <2> QED BY <1>0, <2>1
<1>2. CASE i \notin D
  <2>1. i \in q[k].instr_depend_on_me /\ i \in q[l].instr_depend_on_me
    BY <1>0, <1>2
  <2> QED BY <2>1 DEF Single
<1> QED BY <1>1, <1>2

\* A merged miss is for the block of the miss there was, and both wait at it.
LEMMA MergedMissIs ==
  ASSUME NEW m \in Miss, NEW s \in Miss, m.address = s.address
  PROVE  /\ MergedMiss(m, s) \in Miss /\ MergedMiss(m, s).address = m.address
         /\ MergedMiss(m, s).instr_depend_on_me = m.instr_depend_on_me \cup s.instr_depend_on_me
         /\ MergedMiss(m, s).to_return = m.to_return \cup s.to_return
         /\ MergedMiss(m, s).data_known <=> m.data_known
         /\ MergedMiss(m, s).type \in {m.type, s.type}
BY DEF MergedMiss, Miss

Known(x) == [x EXCEPT !.data_known = TRUE]

LEMMA KnownIs ==
  ASSUME NEW x \in Miss
  PROVE  /\ Known(x) \in Miss /\ Known(x).address = x.address /\ Known(x).data_known /\ Known(x).type = x.type
         /\ Known(x).instr_depend_on_me = x.instr_depend_on_me /\ Known(x).to_return = x.to_return
BY DEF Known, Miss

\* finish_packet's exchange: entry m goes to place f with its data known.
Trade(k, m, f) == IF k = f THEN m ELSE IF k = m THEN f ELSE k

Exchanged(q, m, f) == [q EXCEPT ![m] = q[f], ![f] = Known(q[m])]

LEMMA Traded ==
  ASSUME NEW q \in Seq(Miss), NEW m \in 1..Len(q), NEW f \in 1..Len(q),
         NEW r, r = Exchanged(q, m, f)
  PROVE  /\ r \in Seq(Miss) /\ Len(r) = Len(q)
         /\ \A k \in 1..Len(q) :
              /\ Trade(k, m, f) \in 1..Len(q) /\ Trade(Trade(k, m, f), m, f) = k
              /\ r[k].address = q[Trade(k, m, f)].address
              /\ r[k].instr_depend_on_me = q[Trade(k, m, f)].instr_depend_on_me
              /\ r[k].to_return = q[Trade(k, m, f)].to_return
              /\ r[k].data_known <=> k = f \/ q[Trade(k, m, f)].data_known
<1>1. Len(q) \in Nat /\ \A k \in 1..Len(q) : q[k] \in Miss
  BY Entries
<1>2. /\ Known(q[m]) \in Miss /\ Known(q[m]).address = q[m].address /\ Known(q[m]).data_known
      /\ Known(q[m]).type = q[m].type
      /\ Known(q[m]).instr_depend_on_me = q[m].instr_depend_on_me /\ Known(q[m]).to_return = q[m].to_return
  BY <1>1, KnownIs
<1> DEFINE p == [q EXCEPT ![m] = q[f]]
<1>3. /\ p \in Seq(Miss) /\ Len(p) = Len(q)
      /\ \A k \in 1..Len(q) : p[k] = IF k = m THEN q[f] ELSE q[k]
  BY <1>1, ExceptSeq
<1>4. r = [p EXCEPT ![f] = Known(q[m])]
  BY DEF Exchanged
<1> HIDE DEF p
<1>5. /\ r \in Seq(Miss) /\ Len(r) = Len(p)
      /\ \A k \in 1..Len(p) : r[k] = IF k = f THEN Known(q[m]) ELSE p[k]
  BY <1>2, <1>3, <1>4, ExceptSeq
<1>6. \A k \in 1..Len(q) : Trade(k, m, f) \in 1..Len(q) /\ Trade(Trade(k, m, f), m, f) = k
  BY DEF Trade
<1>7. \A k \in 1..Len(q) :
        /\ r[k].address = q[Trade(k, m, f)].address
        /\ r[k].instr_depend_on_me = q[Trade(k, m, f)].instr_depend_on_me
        /\ r[k].to_return = q[Trade(k, m, f)].to_return
        /\ r[k].data_known <=> k = f \/ q[Trade(k, m, f)].data_known
  BY <1>2, <1>3, <1>5 DEF Trade
<1> QED BY <1>3, <1>5, <1>6, <1>7

LEMMA TradedTypes ==
  ASSUME NEW q \in Seq(Miss), NEW m \in 1..Len(q), NEW f \in 1..Len(q),
         NEW r, r = Exchanged(q, m, f)
  PROVE  /\ r \in Seq(Miss) /\ Len(r) = Len(q)
         /\ \A k \in 1..Len(q) : Trade(k, m, f) \in 1..Len(q) /\ r[k].type = q[Trade(k, m, f)].type
<1>1. Len(q) \in Nat /\ \A k \in 1..Len(q) : q[k] \in Miss
  BY Entries
<1>2. Known(q[m]) \in Miss /\ Known(q[m]).type = q[m].type
  BY <1>1, KnownIs
<1> DEFINE p == [q EXCEPT ![m] = q[f]]
<1>3. /\ p \in Seq(Miss) /\ Len(p) = Len(q)
      /\ \A k \in 1..Len(q) : p[k] = IF k = m THEN q[f] ELSE q[k]
  BY <1>1, ExceptSeq
<1>4. r = [p EXCEPT ![f] = Known(q[m])]
  BY DEF Exchanged
<1> HIDE DEF p
<1>5. /\ r \in Seq(Miss) /\ Len(r) = Len(p)
      /\ \A k \in 1..Len(p) : r[k] = IF k = f THEN Known(q[m]) ELSE p[k]
  BY <1>2, <1>3, <1>4, ExceptSeq
<1> QED BY <1>1, <1>2, <1>3, <1>5 DEF Trade

LEMMA TradedIds ==
  ASSUME NEW q \in Seq(Miss), NEW m \in 1..Len(q), NEW f \in 1..Len(q),
         NEW r, r = Exchanged(q, m, f)
  PROVE  /\ \A i : In(r, i) <=> In(q, i)
         /\ \A i, b : Asks(r, i, b) <=> Asks(q, i, b)
         /\ \A S : Single(q, S) => Single(r, S)
<1>1. /\ Len(r) = Len(q)
      /\ \A k \in 1..Len(q) :
           /\ Trade(k, m, f) \in 1..Len(q) /\ Trade(Trade(k, m, f), m, f) = k
           /\ r[k].address = q[Trade(k, m, f)].address
           /\ r[k].instr_depend_on_me = q[Trade(k, m, f)].instr_depend_on_me
  BY Traded
<1>2. ASSUME NEW i
      PROVE  In(r, i) <=> In(q, i)
  <2>1. ASSUME NEW k \in 1..Len(q), i \in r[k].instr_depend_on_me
        PROVE  In(q, i)
    BY <1>1, <2>1 DEF In
  <2>2. ASSUME NEW k \in 1..Len(q), i \in q[k].instr_depend_on_me
        PROVE  In(r, i)
    <3>1. Trade(k, m, f) \in 1..Len(q) /\ Trade(Trade(k, m, f), m, f) = k
      BY <1>1
    <3>2. i \in r[Trade(k, m, f)].instr_depend_on_me
      BY <1>1, <2>2, <3>1
    <3> QED BY <1>1, <3>1, <3>2 DEF In
  <2> QED BY <1>1, <2>1, <2>2 DEF In
<1>3. ASSUME NEW i, NEW b
      PROVE  Asks(r, i, b) <=> Asks(q, i, b)
  <2>1. ASSUME NEW k \in 1..Len(q), i \in r[k].instr_depend_on_me, b = r[k].address
        PROVE  Asks(q, i, b)
    BY <1>1, <2>1 DEF Asks
  <2>2. ASSUME NEW k \in 1..Len(q), i \in q[k].instr_depend_on_me, b = q[k].address
        PROVE  Asks(r, i, b)
    <3>1. Trade(k, m, f) \in 1..Len(q) /\ Trade(Trade(k, m, f), m, f) = k
      BY <1>1
    <3>2. i \in r[Trade(k, m, f)].instr_depend_on_me /\ b = r[Trade(k, m, f)].address
      BY <1>1, <2>2, <3>1
    <3> QED BY <1>1, <3>1, <3>2 DEF Asks
  <2> QED BY <1>1, <2>1, <2>2 DEF Asks
<1>4. ASSUME NEW S, Single(q, S)
      PROVE  Single(r, S)
  <2> SUFFICES ASSUME NEW i \in S, NEW k \in 1..Len(q), NEW l \in 1..Len(q),
                      i \in r[k].instr_depend_on_me, i \in r[l].instr_depend_on_me
               PROVE  k = l
    BY <1>1 DEF Single
  <2>1. Trade(k, m, f) = Trade(l, m, f)
    BY <1>1, <1>4, SMTT(30) DEF Single
  <2> QED BY <1>1, <2>1
<1> QED BY <1>2, <1>3, <1>4

-----------------------------------------------------------------------------
(* Responses *)

\* What can be answered.
Answerable(x) == x.address \in Block /\ x.instr_depend_on_me \subseteq Instr /\ x.to_return \subseteq Upper

LEMMA RespondIs ==
  ASSUME TypeOK, NEW x, Answerable(x), Respond(x)
  PROVE  /\ returned' \in [Upper -> Seq(Response)]
         /\ Answer(x) \in Response /\ Answer(x).address = x.address
         /\ Answer(x).instr_depend_on_me = x.instr_depend_on_me
         /\ \A u \in Upper : returned[u] \in Seq(Response)
         /\ \A u \in Upper : u \in x.to_return => returned'[u] = Append(returned[u], Answer(x))
         /\ \A u \in Upper : u \notin x.to_return => returned'[u] = returned[u]
<1>1. Answer(x) \in Response /\ Answer(x).address = x.address
      /\ Answer(x).instr_depend_on_me = x.instr_depend_on_me
  BY DEF Answer, Answerable, Response
<1>2. \A u \in Upper : returned[u] \in Seq(Response)
  BY DEF TypeOK
<1>3. \A u \in Upper : Append(returned[u], Answer(x)) \in Seq(Response)
  BY <1>1, <1>2, AppendProperties
<1> QED BY <1>1, <1>2, <1>3 DEF Respond

LEMMA RespondedIds ==
  ASSUME TypeOK, Once, NEW x, Answerable(x), Respond(x),
         \A i \in Instr : i \in x.instr_depend_on_me => ~In(returned[SenderOf[i]], i)
  PROVE  /\ \A u \in Upper : Single(returned'[u], SentBy(u))
         /\ \A i \in Instr : In(returned'[SenderOf[i]], i) <=>
              In(returned[SenderOf[i]], i) \/ (i \in x.instr_depend_on_me /\ SenderOf[i] \in x.to_return)
         /\ \A i \in Instr, b \in Block : Asks(returned'[SenderOf[i]], i, b) <=>
              \/ Asks(returned[SenderOf[i]], i, b)
              \/ i \in x.instr_depend_on_me /\ SenderOf[i] \in x.to_return /\ b = x.address
<1>1. /\ Answer(x) \in Response /\ Answer(x).address = x.address
      /\ Answer(x).instr_depend_on_me = x.instr_depend_on_me
      /\ \A u \in Upper : returned[u] \in Seq(Response)
      /\ \A u \in Upper : u \in x.to_return => returned'[u] = Append(returned[u], Answer(x))
      /\ \A u \in Upper : u \notin x.to_return => returned'[u] = returned[u]
  BY RespondIs
<1>2. ASSUME NEW u \in Upper, u \in x.to_return
      PROVE  /\ Single(returned'[u], SentBy(u))
             /\ \A i : In(returned'[u], i) <=> In(returned[u], i) \/ i \in x.instr_depend_on_me
             /\ \A i, b : Asks(returned'[u], i, b) <=>
                  Asks(returned[u], i, b) \/ (i \in x.instr_depend_on_me /\ b = x.address)
  <2>1. /\ \A i : In(returned'[u], i) <=> In(returned[u], i) \/ i \in Answer(x).instr_depend_on_me
        /\ \A i, b : Asks(returned'[u], i, b) <=>
             Asks(returned[u], i, b) \/ (i \in Answer(x).instr_depend_on_me /\ b = Answer(x).address)
        /\ Single(returned'[u], SentBy(u))
    <3> DEFINE q == returned[u]
               r == returned'[u]
               a == Answer(x)
    <3>1. q \in Seq(Response) /\ a \in Response /\ r = Append(q, a)
      BY <1>1, <1>2
    <3> HIDE DEF q, r, a
    <3>2. \A i : In(r, i) <=> In(q, i) \/ i \in a.instr_depend_on_me
      BY <3>1, AppendedIds
    <3>3. \A i, b : Asks(r, i, b) <=> Asks(q, i, b) \/ (i \in a.instr_depend_on_me /\ b = a.address)
      BY <3>1, AppendedIds
    <3>4. Single(q, SentBy(u)) /\ \A i \in SentBy(u) : i \in a.instr_depend_on_me => ~In(q, i)
      BY <1>1, <1>2 DEF Once, SentBy, q, a
    <3>5. Single(r, SentBy(u))
      BY <3>1, <3>4, AppendedSingle
    <3> QED BY <3>2, <3>3, <3>5 DEF q, r, a
  <2> QED BY <1>1, <2>1
<1>3. ASSUME NEW u \in Upper
      PROVE  Single(returned'[u], SentBy(u))
  BY <1>1, <1>2 DEF Once
<1>4. \A i \in Instr : SenderOf[i] \in Upper
  OBVIOUS
<1>5. ASSUME NEW i \in Instr
      PROVE  In(returned'[SenderOf[i]], i) <=>
               In(returned[SenderOf[i]], i) \/ (i \in x.instr_depend_on_me /\ SenderOf[i] \in x.to_return)
  BY <1>1, <1>2, <1>4
<1>6. ASSUME NEW i \in Instr, NEW b \in Block
      PROVE  Asks(returned'[SenderOf[i]], i, b) <=>
               \/ Asks(returned[SenderOf[i]], i, b)
               \/ i \in x.instr_depend_on_me /\ SenderOf[i] \in x.to_return /\ b = x.address
  BY <1>1, <1>2, <1>4
<1> QED BY <1>3, <1>5, <1>6

-----------------------------------------------------------------------------
(* Types *)

\* Where the actions look: a miss, a way, the entry of a tag check.
LEMMA MissOfIs ==
  ASSUME TypeOK, NEW b, MissOf(b) # {}
  PROVE  First(MissOf(b)) \in 1..Len(MSHR) /\ MSHR[First(MissOf(b))].address = b
<1>1. MissOf(b) \in SUBSET Nat
  BY DEF MissOf
<1>2. First(MissOf(b)) \in MissOf(b)
  BY <1>1, FirstIsLeast
<1> QED BY <1>2 DEF MissOf

LEMMA UnreturnedIs ==
  ASSUME TypeOK, Unreturned # {}
  PROVE  /\ First(Unreturned) \in 1..Len(MSHR) /\ ~MSHR[First(Unreturned)].data_known
         /\ \A k \in 1..Len(MSHR) : ~MSHR[k].data_known => First(Unreturned) <= k
<1>1. Unreturned \in SUBSET Nat
  BY DEF Unreturned
<1>2. First(Unreturned) \in Unreturned /\ \A k \in Unreturned : First(Unreturned) <= k
  BY <1>1, FirstIsLeast
<1> QED BY <1>2 DEF Unreturned

LEMMA FirstWayIs ==
  ASSUME NEW S \in SUBSET Way, S # {}
  PROVE  FirstWay(S) \in S
<1>1. S \in SUBSET Nat
  BY DEF Way
<1>2. \E x \in S : \A y \in S : x <= y
  BY <1>1, LeastOf
<1> QED BY <1>2 DEF FirstWay

LEMMA ThisTagIs ==
  ASSUME TypeOK, at <= last
  PROVE  at \in 1..Len(inflight_tag_check) /\ ThisTag \in Packet /\ last \in Nat \ {0}
<1>1. Len(inflight_tag_check) \in Nat /\ \A k \in 1..Len(inflight_tag_check) : inflight_tag_check[k] \in Packet
  BY Entries DEF TypeOK
<1>2. at \in 1..Len(inflight_tag_check) /\ last \in Nat \ {0}
  BY <1>1 DEF TypeOK
<1> QED BY <1>1, <1>2 DEF ThisTag

LEMMA LengthsAre ==
  ASSUME TypeOK
  PROVE  /\ Len(MSHR) \in Nat /\ Len(inflight_writes) \in Nat /\ Len(inflight_tag_check) \in Nat
         /\ Len(internal_PQ) \in Nat /\ Len(lower_returned) \in Nat
BY LenProperties DEF TypeOK

\* A fill changes one way of one set, or none, and answers.
LEMMA FillIs ==
  ASSUME TypeOK, NEW x \in Miss, Fill(x)
  PROVE  /\ block' \in [SetIndex -> [Way -> Line]]
         /\ written' \subseteq (Block \X {TRUE})
         /\ Answerable(x) /\ Respond(x) /\ returned' \in [Upper -> Seq(Response)]
<1>1. /\ x.address \in Block /\ IndexOf[x.address] \in SetIndex /\ Filled(x) \in Line
      /\ Answerable(x) /\ Respond(x)
  BY DEF Miss, Filled, Line, Answerable, Fill
<1>2. PICK w \in VictimOf(x) :
        /\ \/ /\ MustWriteBack(IndexOf[x.address], w)
              /\ written' = {<<block[IndexOf[x.address]][w].address, TRUE>>}
           \/ UNCHANGED written
        /\ block' = IF w \in Way THEN [block EXCEPT ![IndexOf[x.address]][w] = Filled(x)] ELSE block
  BY DEF Fill
<1>3. block' \in [SetIndex -> [Way -> Line]]
  BY <1>1, <1>2 DEF TypeOK
<1>4. written' \subseteq (Block \X {TRUE})
  <2>1. CASE MustWriteBack(IndexOf[x.address], w) /\ written' = {<<block[IndexOf[x.address]][w].address, TRUE>>}
    <3>1. block[IndexOf[x.address]][w] \in Line /\ block[IndexOf[x.address]][w].address # NoBlock
      BY <1>1, <2>1 DEF TypeOK, MustWriteBack
    <3>2. block[IndexOf[x.address]][w].address \in Block
      BY <3>1 DEF Line
    <3>3. <<block[IndexOf[x.address]][w].address, TRUE>> \in Block \X {TRUE}
      BY <3>2
    <3> QED BY <2>1, <3>3
  <2>2. CASE UNCHANGED written
    BY <2>2 DEF TypeOK
  <2> QED BY <1>2, <2>1, <2>2
<1>5. returned' \in [Upper -> Seq(Response)]
  BY <1>1, RespondIs
<1> QED BY <1>1, <1>3, <1>4, <1>5

LEMMA ToAllocateIs ==
  ASSUME NEW p \in Packet
  PROVE  /\ ToAllocate(p) \in Miss /\ ToAllocate(p).address = p.address /\ ~ToAllocate(p).data_known
         /\ ToAllocate(p).type = p.type
         /\ ToAllocate(p).instr_depend_on_me = p.instr_depend_on_me /\ ToAllocate(p).to_return = p.to_return
BY DEF ToAllocate, Packet, Miss

\* A tag check that is over leaves the queue.
LEMMA FinishIs ==
  ASSUME TypeOK, at <= last, Finish
  PROVE  /\ inflight_tag_check' \in Seq(Packet) /\ Len(inflight_tag_check') = Len(inflight_tag_check) - 1
         /\ last' \in 0..Len(inflight_tag_check') /\ Len(inflight_tag_check') <= MaxTags
<1>1. at \in 1..Len(inflight_tag_check) /\ last \in Nat \ {0} /\ Len(inflight_tag_check) \in Nat
  BY ThisTagIs, LengthsAre
<1>2. inflight_tag_check \in Seq(Packet) /\ inflight_tag_check' = RemoveAt(inflight_tag_check, at)
  BY DEF TypeOK, Finish
<1>3. inflight_tag_check' \in Seq(Packet) /\ Len(inflight_tag_check') = Len(inflight_tag_check) - 1
  BY <1>1, <1>2, Removed
<1> QED BY <1>1, <1>3 DEF TypeOK, Finish

\* The ways in which the actions change the queue of the misses.
MergesAt(m) ==
  /\ m \in 1..Len(MSHR) /\ MSHR[m].address = ThisTag.address
  /\ MSHR' = [MSHR EXCEPT ![m] = MergedMiss(MSHR[m], ToAllocate(ThisTag))]

LEMMA MergeMissIs ==
  ASSUME TypeOK, MergeMiss
  PROVE  \E m : MergesAt(m)
<1>1. PICK m \in MissOf(ThisTag.address) :
        MSHR' = [MSHR EXCEPT ![m] = MergedMiss(@, ToAllocate(ThisTag))]
  BY DEF MergeMiss
<1>2. MSHR' = [MSHR EXCEPT ![m] = MergedMiss(MSHR[m], ToAllocate(ThisTag))]
  BY <1>1
<1> QED BY <1>1, <1>2 DEF MissOf, MergesAt

LEMMA MergesAtIs ==
  ASSUME TypeOK, at <= last, NEW m, MergesAt(m), NEW x, x = MergedMiss(MSHR[m], ToAllocate(ThisTag))
  PROVE  /\ x \in Miss /\ MSHR' = [MSHR EXCEPT ![m] = x] /\ m \in 1..Len(MSHR)
         /\ x.address = MSHR[m].address /\ x.address = ThisTag.address
         /\ x.instr_depend_on_me = MSHR[m].instr_depend_on_me \cup ThisTag.instr_depend_on_me
         /\ x.to_return = MSHR[m].to_return \cup ThisTag.to_return
         /\ x.data_known <=> MSHR[m].data_known
         /\ x.type \in {MSHR[m].type, ThisTag.type}
         /\ MSHR' \in Seq(Miss) /\ Len(MSHR') = Len(MSHR)
         /\ \A k \in 1..Len(MSHR) : MSHR'[k] = IF k = m THEN x ELSE MSHR[k]
<1>1. /\ m \in 1..Len(MSHR) /\ MSHR[m] \in Miss /\ MSHR[m].address = ThisTag.address /\ MSHR \in Seq(Miss)
      /\ MSHR' = [MSHR EXCEPT ![m] = x]
  BY Entries DEF MergesAt, TypeOK
<1>2. /\ ToAllocate(ThisTag) \in Miss /\ ToAllocate(ThisTag).address = ThisTag.address
      /\ ToAllocate(ThisTag).type = ThisTag.type
      /\ ToAllocate(ThisTag).instr_depend_on_me = ThisTag.instr_depend_on_me
      /\ ToAllocate(ThisTag).to_return = ThisTag.to_return
  BY ThisTagIs, ToAllocateIs
<1>3. /\ x \in Miss /\ x.address = MSHR[m].address
      /\ x.instr_depend_on_me = MSHR[m].instr_depend_on_me \cup ThisTag.instr_depend_on_me
      /\ x.to_return = MSHR[m].to_return \cup ThisTag.to_return
      /\ x.data_known <=> MSHR[m].data_known
      /\ x.type \in {MSHR[m].type, ThisTag.type}
  BY <1>1, <1>2, MergedMissIs
<1>4. /\ MSHR' \in Seq(Miss) /\ Len(MSHR') = Len(MSHR)
      /\ \A k \in 1..Len(MSHR) : MSHR'[k] = IF k = m THEN x ELSE MSHR[k]
  BY <1>1, <1>3, ExceptSeq
<1> QED BY <1>1, <1>3, <1>4

LEMMA TypesKept ==
  ASSUME TypeOK, [Next]_vars
  PROVE  TypeOK'
<1>0. /\ Len(MSHR) \in Nat /\ Len(inflight_writes) \in Nat /\ Len(inflight_tag_check) \in Nat
      /\ Len(internal_PQ) \in Nat /\ Len(lower_returned) \in Nat
      /\ MSHR_SIZE \in Nat /\ PQ_SIZE \in Nat /\ MaxTags \in Nat
  BY LengthsAre
<1>1. CASE UNCHANGED vars
  BY <1>1 DEF vars, TypeOK
<1>2. ASSUME NEW b \in Block, NEW skip \in BOOLEAN, PrefetchLine(b, skip)
      PROVE  TypeOK'
  <2>1. OwnPrefetch(b, skip) \in Packet
    BY DEF OwnPrefetch, Packet, AccessType
  <2>2. internal_PQ' \in Seq(Packet) /\ Len(internal_PQ') = Len(internal_PQ) + 1
    BY <1>2, <2>1, AppendProperties DEF PrefetchLine, TypeOK
  <2>3. Len(internal_PQ') <= PQ_SIZE
    BY <1>0, <1>2, <2>2 DEF PrefetchLine
  <2> QED BY <1>2, <2>2, <2>3 DEF PrefetchLine, TypeOK, lower
<1>3. ASSUME NEW b \in Block, LowerAnswers(b)
      PROVE  TypeOK'
  <2>1. lower_returned' \in Seq(Block)
    BY <1>3, AppendProperties DEF LowerAnswers, TypeOK
  <2> QED BY <1>3, <2>1 DEF LowerAnswers, TypeOK, queues
<1>4. ASSUME NEW u \in Upper, PickUp(u)
      PROVE  TypeOK'
  <2>1. returned[u] \in Seq(Response) /\ returned[u] # <<>>
    BY <1>4 DEF PickUp, TypeOK
  <2>2. Tail(returned[u]) \in Seq(Response)
    BY <2>1, HeadTailProperties
  <2>3. returned' \in [Upper -> Seq(Response)]
    BY <1>4, <2>2 DEF PickUp, TypeOK
  <2> QED BY <1>4, <2>3 DEF PickUp, TypeOK, queues, lower
<1>5. ASSUME NEW u \in Upper, NEW t \in AccessType, NEW b \in Block, NEW D \in SUBSET Instr,
             TakeFromAbove(u, t, b, D)
      PROVE  TypeOK'
  <2>1. FromAbove(u, t, b, D) \in Packet
    BY DEF FromAbove, Packet
  <2>2. inflight_tag_check' \in Seq(Packet) /\ Len(inflight_tag_check') = Len(inflight_tag_check) + 1
    BY <1>5, <2>1, AppendProperties DEF TakeFromAbove, TypeOK
  <2>3. Len(inflight_tag_check') <= MaxTags /\ last' \in 0..Len(inflight_tag_check')
    BY <1>0, <1>5, <2>2 DEF TakeFromAbove, TypeOK
  <2> QED BY <1>5, <2>2, <2>3 DEF TakeFromAbove, TypeOK, lower
<1>6. CASE FinishPacket
  <2>1. lower_returned' \in Seq(Block)
    BY <1>6, HeadTailProperties DEF FinishPacket, TypeOK
  <2>2. PICK m \in 1..Len(MSHR), f \in 1..Len(MSHR) : MSHR' = Exchanged(MSHR, m, f)
    BY <1>6, MissOfIs, UnreturnedIs DEF FinishPacket, Exchanged, Known
  <2>3. MSHR' \in Seq(Miss) /\ Len(MSHR') = Len(MSHR)
    <3>1. MSHR \in Seq(Miss)
      BY DEF TypeOK
    <3> QED BY <2>2, <3>1, Traded
  <2> QED BY <1>6, <2>1, <2>3 DEF FinishPacket, TypeOK
<1>7. CASE FillFromMSHR
  <2>1. MSHR \in Seq(Miss) /\ MSHR # <<>>
    BY <1>7 DEF FillFromMSHR, TypeOK
  <2>2. Head(MSHR) \in Miss /\ Tail(MSHR) \in Seq(Miss) /\ Len(Tail(MSHR)) = Len(MSHR) - 1
    BY <2>1, HeadTailProperties
  <2>3. Fill(Head(MSHR)) /\ MSHR' = Tail(MSHR)
    BY <1>7 DEF FillFromMSHR
  <2>4. /\ block' \in [SetIndex -> [Way -> Line]] /\ written' \subseteq (Block \X {TRUE})
        /\ returned' \in [Upper -> Seq(Response)]
    BY <2>2, <2>3, FillIs
  <2>5. Len(MSHR') <= MSHR_SIZE
    BY <1>0, <2>2, <2>3 DEF TypeOK
  <2> QED BY <1>7, <2>2, <2>3, <2>4, <2>5 DEF FillFromMSHR, TypeOK, lower
<1>8. CASE FillFromWrites
  <2>1. inflight_writes \in Seq(Miss) /\ inflight_writes # <<>>
    BY <1>8 DEF FillFromWrites, TypeOK
  <2>2. Head(inflight_writes) \in Miss /\ Tail(inflight_writes) \in Seq(Miss)
    BY <2>1, HeadTailProperties
  <2>3. Fill(Head(inflight_writes)) /\ inflight_writes' = Tail(inflight_writes)
    BY <1>8 DEF FillFromWrites
  <2>4. /\ block' \in [SetIndex -> [Way -> Line]] /\ written' \subseteq (Block \X {TRUE})
        /\ returned' \in [Upper -> Seq(Response)]
    BY <2>2, <2>3, FillIs
  <2> QED BY <1>8, <2>2, <2>3, <2>4 DEF FillFromWrites, TypeOK, lower
<1>9. CASE TakeFromInternalPQ
  <2>1. internal_PQ \in Seq(Packet) /\ internal_PQ # <<>>
    BY <1>9 DEF TakeFromInternalPQ, TypeOK
  <2>2. Head(internal_PQ) \in Packet /\ Tail(internal_PQ) \in Seq(Packet) /\ Len(Tail(internal_PQ)) = Len(internal_PQ) - 1
    BY <2>1, HeadTailProperties
  <2>3. inflight_tag_check' \in Seq(Packet) /\ Len(inflight_tag_check') = Len(inflight_tag_check) + 1
    BY <1>9, <2>2, AppendProperties DEF TakeFromInternalPQ, TypeOK
  <2>4. /\ Len(inflight_tag_check') <= MaxTags /\ last' \in 0..Len(inflight_tag_check')
        /\ Len(internal_PQ') <= PQ_SIZE
    BY <1>0, <1>9, <2>2, <2>3 DEF TakeFromInternalPQ, TypeOK
  <2> QED BY <1>9, <2>2, <2>3, <2>4 DEF TakeFromInternalPQ, TypeOK, lower
<1>10. ASSUME NEW n \in 0..Len(inflight_tag_check), BeginTagChecks(n)
       PROVE  TypeOK'
  <2>1. at' \in Nat \ {0} /\ last' \in 0..Len(inflight_tag_check')
    BY <1>0, <1>10 DEF BeginTagChecks, queues
  <2> QED BY <1>10, <2>1 DEF BeginTagChecks, TypeOK, queues, lower
<1>11. CASE Hit
  <2>1. at <= last /\ WaysWith(ThisTag.address) \in SUBSET Way /\ WaysWith(ThisTag.address) # {} /\ Respond(ThisTag) /\ Finish
    BY <1>11 DEF Hit, WaysWith, Finish
  <2>2. FirstWay(WaysWith(ThisTag.address)) \in Way /\ ThisTag \in Packet
    BY <2>1, FirstWayIs, ThisTagIs
  <2>3. ThisTag.address \in Block /\ IndexOf[ThisTag.address] \in SetIndex
    BY <2>2 DEF Packet
  <2> DEFINE s == IndexOf[ThisTag.address]
             w == FirstWay(WaysWith(ThisTag.address))
             isWrite == ThisTag.type = "WRITE"
  <2>4. block' \in [SetIndex -> [Way -> Line]]
    <3>1. block' = [block EXCEPT ![s][w].dirty = @ \/ isWrite]
      BY <1>11 DEF Hit
    <3>2. s \in SetIndex /\ w \in Way /\ block \in [SetIndex -> [Way -> Line]]
      BY <2>2, <2>3 DEF TypeOK
    <3> HIDE DEF s, w, isWrite
    <3> DEFINE l == [block[s][w] EXCEPT !.dirty = @ \/ isWrite]
    <3>3. (block[s][w].dirty \/ isWrite) \in BOOLEAN
      OBVIOUS
    <3>4. l \in Line
      <4>1. block[s][w] \in Line
        BY <3>2
      <4> QED BY <3>3, <4>1 DEF Line
    <3>5. block' = [block EXCEPT ![s] = [block[s] EXCEPT ![w] = l]]
      BY <3>1
    <3> HIDE DEF l
    <3>6. [block[s] EXCEPT ![w] = l] \in [Way -> Line]
      BY <3>2, <3>4
    <3> QED BY <3>2, <3>5, <3>6
  <2>5. Answerable(ThisTag)
    BY <2>2 DEF Packet, Answerable
  <2>6. returned' \in [Upper -> Seq(Response)]
    BY <2>1, <2>5, RespondIs
  <2>7. /\ inflight_tag_check' \in Seq(Packet) /\ last' \in 0..Len(inflight_tag_check')
        /\ Len(inflight_tag_check') <= MaxTags
    BY <2>1, FinishIs
  <2> QED BY <1>11, <2>4, <2>6, <2>7 DEF Hit, TypeOK, lower
<1>12. CASE HandleWrite
  <2>1. at <= last /\ Finish
    BY <1>12 DEF HandleWrite, Checking
  <2>2. /\ inflight_tag_check' \in Seq(Packet) /\ last' \in 0..Len(inflight_tag_check')
        /\ Len(inflight_tag_check') <= MaxTags
    BY <2>1, FinishIs
  <2>3. ToAllocate(ThisTag) \in Miss
    BY <2>1, ThisTagIs, ToAllocateIs
  <2>4. inflight_writes' \in Seq(Miss)
    BY <1>12, <2>3, AppendProperties DEF HandleWrite, TypeOK
  <2> QED BY <1>12, <2>2, <2>4 DEF HandleWrite, TypeOK, lower
<1>13. CASE MergeMiss
  <2>1. at <= last /\ Finish
    BY <1>13 DEF MergeMiss, Checking
  <2>2. /\ inflight_tag_check' \in Seq(Packet) /\ last' \in 0..Len(inflight_tag_check')
        /\ Len(inflight_tag_check') <= MaxTags
    BY <2>1, FinishIs
  <2>3. PICK m : MergesAt(m)
    BY <1>13, MergeMissIs
  <2>4. MSHR' \in Seq(Miss) /\ Len(MSHR') = Len(MSHR)
    BY <2>1, <2>3, MergesAtIs
  <2> QED BY <1>13, <2>2, <2>4 DEF MergeMiss, TypeOK, lower
<1>14. CASE ForwardMiss
  <2>1. at <= last /\ Finish
    BY <1>14 DEF ForwardMiss, Checking
  <2>2. /\ inflight_tag_check' \in Seq(Packet) /\ last' \in 0..Len(inflight_tag_check')
        /\ Len(inflight_tag_check') <= MaxTags
    BY <2>1, FinishIs
  <2>3. ToAllocate(ThisTag) \in Miss /\ ThisTag.address \in Block
    BY <2>1, ThisTagIs, ToAllocateIs DEF Packet
  <2>4. MSHR' \in Seq(Miss) /\ Len(MSHR') <= MSHR_SIZE
    <3>1. CASE MSHR' = Append(MSHR, ToAllocate(ThisTag))
      <4>1. MSHR' \in Seq(Miss) /\ Len(MSHR') = Len(MSHR) + 1
        BY <2>3, <3>1, AppendProperties DEF TypeOK
      <4> QED BY <1>0, <1>14, <4>1 DEF ForwardMiss, HasMSHR
    <3>2. CASE UNCHANGED MSHR
      BY <3>2 DEF TypeOK
    <3> QED BY <1>14, <3>1, <3>2 DEF ForwardMiss
  <2>5. outstanding' \subseteq Block
    BY <1>14, <2>3 DEF ForwardMiss, TypeOK
  <2> QED BY <1>14, <2>2, <2>4, <2>5 DEF ForwardMiss, TypeOK
<1>15. CASE BeginCycle \/ EndReturns \/ EndFills \/ EndWrites
            \/ RefuseFillFromMSHR \/ RefuseFillFromWrites
  BY <1>15 DEF BeginCycle, EndReturns, EndFills, EndWrites,
       RefuseFillFromMSHR, RefuseFillFromWrites, RefuseFill, TypeOK, queues, lower
<1>16. CASE NoHit \/ EndHits \/ RefuseMiss \/ EndCycle
  <2>1. at' \in Nat \ {0}
    BY <1>16 DEF NoHit, EndHits, RefuseMiss, EndCycle, TypeOK
  <2>2. last' \in 0..Len(inflight_tag_check)
    BY <1>0, <1>16 DEF NoHit, EndHits, RefuseMiss, EndCycle, TypeOK
  <2> QED BY <1>16, <2>1, <2>2 DEF NoHit, EndHits, RefuseMiss, EndCycle, TypeOK, queues, lower
<1> QED BY <1>1, <1>2, <1>3, <1>4, <1>5, <1>6, <1>7, <1>8, <1>9, <1>10, <1>11, <1>12, <1>13, <1>14,
           <1>15, <1>16 DEF Next, Environment, Arrive, Operate

-----------------------------------------------------------------------------
(* Misses and answers *)

\* EveryAnswerHasItsMiss, of the queue of misses q, the requests out that the level
\* below has and the answers low on their way.
Owed(b, out, low) == b \in out \/ \E k \in 1..Len(low) : low[k] = b

Apart(q) == \A i, j \in 1..Len(q) : q[i].address = q[j].address => i = j

WaitsForOwed(q, out, low) == \A i \in 1..Len(q) : ~q[i].data_known <=> Owed(q[i].address, out, low)

OwedHasMiss(q, out, low) == \A b : Owed(b, out, low) => \E i \in 1..Len(q) : q[i].address = b

OwedOnce(out, low) ==
  /\ \A b \in out : \A k \in 1..Len(low) : low[k] # b
  /\ \A i, j \in 1..Len(low) : low[i] = low[j] => i = j

Matches(q, out, low) ==
  Apart(q) /\ WaitsForOwed(q, out, low) /\ OwedHasMiss(q, out, low) /\ OwedOnce(out, low)

KnownFirst(q) == \A i, j \in 1..Len(q) : i < j /\ q[j].data_known => q[i].data_known

LEMMA MatchesIs ==
  ASSUME lower_returned \in Seq(Block)
  PROVE  /\ EveryAnswerHasItsMiss <=> Matches(MSHR, outstanding, lower_returned)
         /\ AnsweredMissesFirst <=> KnownFirst(MSHR)
<1>1. \A b : b \in ToSet(lower_returned) <=> \E k \in 1..Len(lower_returned) : lower_returned[k] = b
  BY Entries DEF ToSet
<1>2. \A b : b \in outstanding \cup ToSet(lower_returned) <=> Owed(b, outstanding, lower_returned)
  BY <1>1 DEF Owed
<1>3. outstanding \cup ToSet(lower_returned) \subseteq {MSHR[i].address : i \in 1..Len(MSHR)}
        <=> OwedHasMiss(MSHR, outstanding, lower_returned)
  BY <1>2 DEF OwedHasMiss
<1>4. outstanding \cap ToSet(lower_returned) = {}
        <=> \A b \in outstanding : \A k \in 1..Len(lower_returned) : lower_returned[k] # b
  BY <1>1
<1>5. (\A i \in 1..Len(MSHR) : ~MSHR[i].data_known <=> MSHR[i].address \in outstanding \cup ToSet(lower_returned))
        <=> WaitsForOwed(MSHR, outstanding, lower_returned)
  BY <1>2 DEF WaitsForOwed
<1> QED BY <1>3, <1>4, <1>5 DEF EveryAnswerHasItsMiss, Matches, Apart, OwedOnce, AnsweredMissesFirst, KnownFirst

LEMMA MatchesNext ==
  ASSUME lower_returned' \in Seq(Block)
  PROVE  /\ EveryAnswerHasItsMiss' <=> Matches(MSHR', outstanding', lower_returned')
         /\ AnsweredMissesFirst' <=> KnownFirst(MSHR')
<1>1. \A b : b \in ToSet(lower_returned') <=> \E k \in 1..Len(lower_returned') : lower_returned'[k] = b
  BY Entries DEF ToSet
<1>2. \A b : b \in outstanding' \cup ToSet(lower_returned') <=> Owed(b, outstanding', lower_returned')
  BY <1>1 DEF Owed
<1>3. outstanding' \cup ToSet(lower_returned') \subseteq {MSHR'[i].address : i \in 1..Len(MSHR')}
        <=> OwedHasMiss(MSHR', outstanding', lower_returned')
  BY <1>2 DEF OwedHasMiss
<1>4. outstanding' \cap ToSet(lower_returned') = {}
        <=> \A b \in outstanding' : \A k \in 1..Len(lower_returned') : lower_returned'[k] # b
  BY <1>1
<1>5. (\A i \in 1..Len(MSHR') : ~MSHR'[i].data_known <=> MSHR'[i].address \in outstanding' \cup ToSet(lower_returned'))
        <=> WaitsForOwed(MSHR', outstanding', lower_returned')
  BY <1>2 DEF WaitsForOwed
<1> QED BY <1>3, <1>4, <1>5 DEF EveryAnswerHasItsMiss, Matches, Apart, OwedOnce, AnsweredMissesFirst, KnownFirst

\* An answer leaves the level below.
LEMMA AnswerKeepsMatches ==
  ASSUME NEW q, NEW out \in SUBSET Block, NEW low \in Seq(Block), Matches(q, out, low), NEW b \in out,
         NEW o, o = out \ {b}, NEW l, l = Append(low, b)
  PROVE  Matches(q, o, l)
<1>1. /\ \A k \in 1..Len(low) : k \in 1..Len(l) /\ l[k] = low[k]
      /\ Len(low) + 1 \in 1..Len(l) /\ l[Len(low) + 1] = b
      /\ \A k \in 1..Len(l) : k \in 1..Len(low) \/ k = Len(low) + 1
  BY Appended
<1>2. ASSUME NEW c
      PROVE  Owed(c, o, l) <=> Owed(c, out, low)
  BY <1>1 DEF Owed
<1>3. OwedOnce(o, l)
  BY <1>1 DEF OwedOnce, Matches
<1> QED BY <1>2, <1>3 DEF Matches, WaitsForOwed, OwedHasMiss

\* finish_packet: answer 1 of low is for miss m, and f is the first that waits.
LEMMA FinishKeepsMatches ==
  ASSUME NEW q \in Seq(Miss), NEW out, NEW low \in Seq(Block), Matches(q, out, low), KnownFirst(q),
         low # <<>>, NEW l, l = Tail(low),
         NEW m \in 1..Len(q), q[m].address = Head(low),
         NEW f \in 1..Len(q), ~q[f].data_known, \A k \in 1..Len(q) : ~q[k].data_known => f <= k,
         NEW r, r = Exchanged(q, m, f)
  PROVE  Matches(r, out, l) /\ KnownFirst(r)
<1> DEFINE b == q[m].address
<1>1. /\ Len(l) = Len(low) - 1 /\ Len(low) \in Nat \ {0} /\ low[1] = b
      /\ \A k \in 1..Len(l) : k + 1 \in 1..Len(low) /\ k + 1 # 1 /\ l[k] = low[k + 1]
      /\ \A k \in 1..Len(low) : k # 1 => k - 1 \in 1..Len(l) /\ l[k - 1] = low[k]
  BY Rest
<1>2. 1 \in 1..Len(low)
  BY <1>1
<1>3. ASSUME NEW c
      PROVE  Owed(c, out, l) <=> Owed(c, out, low) /\ c # b
  <2>1. ASSUME Owed(c, out, l)
        PROVE  Owed(c, out, low) /\ c # b
    <3>1. CASE c \in out
      BY <1>1, <1>2, <3>1 DEF Owed, Matches, OwedOnce
    <3>2. CASE \E k \in 1..Len(l) : l[k] = c
      <4>1. PICK k \in 1..Len(low) : k # 1 /\ low[k] = c
        BY <1>1, <3>2
      <4> QED BY <1>1, <1>2, <4>1 DEF Owed, Matches, OwedOnce
    <3> QED BY <2>1, <3>1, <3>2 DEF Owed
  <2>2. ASSUME Owed(c, out, low), c # b
        PROVE  Owed(c, out, l)
    <3>1. CASE c \in out
      BY <3>1 DEF Owed
    <3>2. CASE \E k \in 1..Len(low) : low[k] = c
      <4>1. PICK k \in 1..Len(low) : low[k] = c
        BY <3>2
      <4>2. k # 1 /\ k - 1 \in 1..Len(l) /\ l[k - 1] = c
        BY <1>1, <2>2, <4>1
      <4> QED BY <4>2 DEF Owed
    <3> QED BY <2>2, <3>1, <3>2 DEF Owed
  <2> QED BY <2>1, <2>2
<1>4. Owed(b, out, low) /\ ~q[m].data_known
  BY <1>1, <1>2 DEF Owed, Matches, WaitsForOwed
<1>5. /\ Len(r) = Len(q)
      /\ \A k \in 1..Len(q) :
           /\ Trade(k, m, f) \in 1..Len(q) /\ Trade(Trade(k, m, f), m, f) = k
           /\ r[k].address = q[Trade(k, m, f)].address
           /\ r[k].data_known <=> k = f \/ q[Trade(k, m, f)].data_known
  BY Traded
<1>6. Apart(r)
  <2> SUFFICES ASSUME NEW i \in 1..Len(q), NEW j \in 1..Len(q), r[i].address = r[j].address
               PROVE  i = j
    BY <1>5 DEF Apart
  <2>1. Trade(i, m, f) = Trade(j, m, f)
    <3>1. /\ Trade(i, m, f) \in 1..Len(q) /\ Trade(j, m, f) \in 1..Len(q)
          /\ q[Trade(i, m, f)].address = q[Trade(j, m, f)].address
      BY <1>5
    <3> QED BY <3>1 DEF Matches, Apart
  <2> QED BY <1>5, <2>1
<1>7. WaitsForOwed(r, out, l)
  <2> SUFFICES ASSUME NEW i \in 1..Len(q)
               PROVE  ~r[i].data_known <=> Owed(r[i].address, out, l)
    BY <1>5 DEF WaitsForOwed
  <2>1. r[i].address = b <=> Trade(i, m, f) = m
    <3>1. Apart(q) /\ q[m].address = b
      BY DEF Matches
    <3>2. r[i].address = q[Trade(i, m, f)].address /\ Trade(i, m, f) \in 1..Len(q)
      BY <1>5
    <3> QED BY <3>1, <3>2 DEF Apart
  <2>2. Trade(i, m, f) = m <=> i = f
    BY DEF Trade
  <2>3. ~q[Trade(i, m, f)].data_known <=> Owed(q[Trade(i, m, f)].address, out, low)
    BY <1>5 DEF Matches, WaitsForOwed
  <2> QED BY <1>3, <1>5, <2>1, <2>2, <2>3
<1>8. OwedHasMiss(r, out, l)
  <2> SUFFICES ASSUME NEW c, Owed(c, out, l)
               PROVE  \E i \in 1..Len(q) : r[i].address = c
    BY <1>5 DEF OwedHasMiss
  <2>1. PICK i \in 1..Len(q) : q[i].address = c
    BY <1>3 DEF Matches, OwedHasMiss
  <2>2. Trade(i, m, f) \in 1..Len(q) /\ r[Trade(i, m, f)].address = c
    BY <1>5, <2>1
  <2> QED BY <2>2
<1>9. OwedOnce(out, l)
  <2>1. \A c \in out : \A k \in 1..Len(l) : l[k] # c
    BY <1>1 DEF OwedOnce, Matches
  <2>2. ASSUME NEW i \in 1..Len(l), NEW j \in 1..Len(l), l[i] = l[j]
        PROVE  i = j
    <3>1. i + 1 \in 1..Len(low) /\ j + 1 \in 1..Len(low) /\ low[i + 1] = low[j + 1]
      BY <1>1, <2>2
    <3>2. i + 1 = j + 1
      BY <3>1 DEF OwedOnce, Matches
    <3> QED BY <3>2
  <2> QED BY <2>1, <2>2 DEF OwedOnce
<1>10. KnownFirst(r)
  <2>1. ASSUME NEW k \in 1..Len(q)
        PROVE  r[k].data_known <=> k = f \/ q[k].data_known
    BY <1>4, <1>5 DEF Trade
  <2> SUFFICES ASSUME NEW i \in 1..Len(q), NEW j \in 1..Len(q), i < j, r[j].data_known
               PROVE  r[i].data_known
    BY <1>5 DEF KnownFirst
  <2>2. CASE j = f
    BY <2>1, <2>2
  <2>3. CASE q[j].data_known
    BY <2>1, <2>3 DEF KnownFirst
  <2> QED BY <2>1, <2>2, <2>3
<1> QED BY <1>6, <1>7, <1>8, <1>9, <1>10 DEF Matches

\* The first miss is filled.
LEMMA FillKeepsMatches ==
  ASSUME NEW q \in Seq(Miss), NEW out, NEW low, Matches(q, out, low), KnownFirst(q),
         q # <<>>, Head(q).data_known, NEW r, r = Tail(q)
  PROVE  Matches(r, out, low) /\ KnownFirst(r)
<1>1. /\ Len(r) = Len(q) - 1 /\ Len(q) \in Nat \ {0} /\ q[1].data_known
      /\ \A k \in 1..Len(r) : k + 1 \in 1..Len(q) /\ k + 1 # 1 /\ r[k] = q[k + 1]
      /\ \A k \in 1..Len(q) : k # 1 => k - 1 \in 1..Len(r) /\ r[k - 1] = q[k]
  BY Rest
<1>2. ASSUME NEW i \in 1..Len(r), NEW j \in 1..Len(r), r[i].address = r[j].address
      PROVE  i = j
  <2>1. i + 1 \in 1..Len(q) /\ j + 1 \in 1..Len(q) /\ q[i + 1].address = q[j + 1].address
    BY <1>1, <1>2
  <2>2. i + 1 = j + 1
    BY <2>1 DEF Apart, Matches
  <2> QED BY <2>2
<1>3. Apart(r)
  BY <1>2 DEF Apart
<1>4. WaitsForOwed(r, out, low)
  BY <1>1 DEF WaitsForOwed, Matches
<1>5. OwedHasMiss(r, out, low)
  <2> SUFFICES ASSUME NEW c, Owed(c, out, low)
               PROVE  \E i \in 1..Len(r) : r[i].address = c
    BY DEF OwedHasMiss
  <2>1. PICK i \in 1..Len(q) : q[i].address = c
    BY DEF Matches, OwedHasMiss
  <2>2. i # 1
    BY <1>1, <2>1 DEF Matches, WaitsForOwed
  <2> QED BY <1>1, <2>1, <2>2
<1>6. KnownFirst(r)
  <2> SUFFICES ASSUME NEW i \in 1..Len(r), NEW j \in 1..Len(r), i < j, r[j].data_known
               PROVE  r[i].data_known
    BY DEF KnownFirst
  <2>1. i + 1 < j + 1 /\ i + 1 \in 1..Len(q) /\ j + 1 \in 1..Len(q) /\ q[j + 1].data_known
    BY <1>1
  <2>2. q[i + 1].data_known
    BY <2>1 DEF KnownFirst
  <2> QED BY <1>1, <2>2
<1> QED BY <1>3, <1>4, <1>5, <1>6 DEF Matches

\* A miss is sent on, and the level below owes its block.
LEMMA ForwardKeepsMatches ==
  ASSUME NEW q \in Seq(Miss), NEW out, NEW low, Matches(q, out, low), KnownFirst(q),
         NEW x \in Miss, ~x.data_known, \A k \in 1..Len(q) : q[k].address # x.address,
         NEW r, r = Append(q, x), NEW o, o = out \cup {x.address}
  PROVE  Matches(r, o, low) /\ KnownFirst(r)
<1>1. /\ \A k \in 1..Len(q) : k \in 1..Len(r) /\ r[k] = q[k]
      /\ Len(q) + 1 \in 1..Len(r) /\ r[Len(q) + 1] = x /\ Len(q) \in Nat
      /\ \A k \in 1..Len(r) : k \in 1..Len(q) \/ k = Len(q) + 1
  BY Appended
<1>2. ~Owed(x.address, out, low)
  BY DEF Matches, OwedHasMiss
<1>3. \A c : Owed(c, o, low) <=> Owed(c, out, low) \/ c = x.address
  BY DEF Owed
<1>4. Apart(r)
  BY <1>1 DEF Apart, Matches
<1>5. WaitsForOwed(r, o, low)
  BY <1>1, <1>3 DEF WaitsForOwed, Matches
<1>6. OwedHasMiss(r, o, low)
  BY <1>1, <1>3 DEF OwedHasMiss, Matches
<1>7. OwedOnce(o, low)
  BY <1>2 DEF OwedOnce, Matches, Owed
<1>8. KnownFirst(r)
  BY <1>1 DEF KnownFirst
<1> QED BY <1>4, <1>5, <1>6, <1>7, <1>8 DEF Matches

\* A miss is merged into the one there is for its block.
LEMMA MergeKeepsMatches ==
  ASSUME NEW q, NEW out, NEW low, Matches(q, out, low), KnownFirst(q), NEW r, Len(r) = Len(q),
         \A k \in 1..Len(q) : r[k].address = q[k].address /\ (r[k].data_known <=> q[k].data_known)
  PROVE  Matches(r, out, low) /\ KnownFirst(r)
<1>1. Apart(r) /\ WaitsForOwed(r, out, low) /\ OwedHasMiss(r, out, low) /\ OwedOnce(out, low)
  BY DEF Matches, Apart, WaitsForOwed, OwedHasMiss
<1> QED BY <1>1 DEF Matches, KnownFirst

LEMMA MissesKept ==
  ASSUME TypeOK, EveryAnswerHasItsMiss, AnsweredMissesFirst, [Next]_vars
  PROVE  EveryAnswerHasItsMiss' /\ AnsweredMissesFirst'
<1> DEFINE Good == Matches(MSHR', outstanding', lower_returned') /\ KnownFirst(MSHR')
<1>1. /\ lower_returned \in Seq(Block) /\ MSHR \in Seq(Miss) /\ outstanding \in SUBSET Block
      /\ Matches(MSHR, outstanding, lower_returned) /\ KnownFirst(MSHR)
  BY MatchesIs DEF TypeOK
<1>2. SUFFICES Good
  <2>1. lower_returned' \in Seq(Block)
    BY TypesKept DEF TypeOK
  <2> QED BY <1>2, <2>1, MatchesNext
<1> HIDE DEF Good
<1>3. CASE UNCHANGED <<MSHR, outstanding, lower_returned>>
  BY <1>1, <1>3 DEF Good
<1>4. ASSUME NEW b \in Block, LowerAnswers(b)
      PROVE  Good
  <2>1. /\ b \in outstanding /\ outstanding' = outstanding \ {b}
        /\ lower_returned' = Append(lower_returned, b) /\ MSHR' = MSHR
    BY <1>4 DEF LowerAnswers, queues
  <2>2. Matches(MSHR, outstanding', lower_returned')
    BY <1>1, <2>1, AnswerKeepsMatches
  <2> QED BY <1>1, <2>1, <2>2 DEF Good
<1>5. CASE FinishPacket
  <2> DEFINE m == First(MissOf(Head(lower_returned)))
             f == First(Unreturned)
  <2>1. /\ lower_returned # <<>> /\ lower_returned' = Tail(lower_returned) /\ outstanding' = outstanding
        /\ MSHR' = Exchanged(MSHR, m, f)
    BY <1>5 DEF FinishPacket, Exchanged, Known
  <2>2. m \in 1..Len(MSHR) /\ MSHR[m].address = Head(lower_returned)
    BY <1>5, MissOfIs DEF FinishPacket
  <2>3. /\ f \in 1..Len(MSHR) /\ ~MSHR[f].data_known
        /\ \A k \in 1..Len(MSHR) : ~MSHR[k].data_known => f <= k
    BY <1>5, UnreturnedIs DEF FinishPacket
  <2> HIDE DEF m, f
  <2>4. Matches(MSHR', outstanding, lower_returned') /\ KnownFirst(MSHR')
    BY <1>1, <2>1, <2>2, <2>3, FinishKeepsMatches
  <2> QED BY <2>1, <2>4 DEF Good
<1>6. CASE FillFromMSHR
  <2>1. /\ MSHR # <<>> /\ Head(MSHR).data_known /\ MSHR' = Tail(MSHR)
        /\ outstanding' = outstanding /\ lower_returned' = lower_returned
    BY <1>6 DEF FillFromMSHR, lower
  <2> QED BY <1>1, <2>1, FillKeepsMatches DEF Good
<1>7. CASE MergeMiss
  <2>1. at <= last /\ outstanding' = outstanding /\ lower_returned' = lower_returned
    BY <1>7 DEF MergeMiss, Checking, lower
  <2>2. PICK m : MergesAt(m)
    BY <1>7, MergeMissIs
  <2>3. PICK x : x = MergedMiss(MSHR[m], ToAllocate(ThisTag))
    OBVIOUS
  <2>4. /\ Len(MSHR') = Len(MSHR) /\ x.address = MSHR[m].address /\ (x.data_known <=> MSHR[m].data_known)
        /\ \A k \in 1..Len(MSHR) : MSHR'[k] = IF k = m THEN x ELSE MSHR[k]
    BY <2>1, <2>2, <2>3, MergesAtIs
  <2>5. \A k \in 1..Len(MSHR) : /\ MSHR'[k].address = MSHR[k].address
                                /\ MSHR'[k].data_known <=> MSHR[k].data_known
    BY <2>4
  <2> QED BY <1>1, <2>1, <2>4, <2>5, MergeKeepsMatches DEF Good
<1>8. CASE ForwardMiss
  <2>1. CASE UNCHANGED <<MSHR, outstanding>>
    BY <1>3, <1>8, <2>1 DEF ForwardMiss
  <2>2. CASE MSHR' = Append(MSHR, ToAllocate(ThisTag)) /\ outstanding' = outstanding \cup {ThisTag.address}
    <3>1. /\ ToAllocate(ThisTag) \in Miss /\ ~ToAllocate(ThisTag).data_known
          /\ ToAllocate(ThisTag).address = ThisTag.address
      BY <1>8, ThisTagIs, ToAllocateIs DEF ForwardMiss, Checking
    <3>2. lower_returned' = lower_returned /\ \A k \in 1..Len(MSHR) : MSHR[k].address # ThisTag.address
      BY <1>8 DEF ForwardMiss, MissOf
    <3> QED BY <1>1, <2>2, <3>1, <3>2, ForwardKeepsMatches DEF Good
  <2> QED BY <1>8, <2>1, <2>2 DEF ForwardMiss
<1>9. CASE UNCHANGED vars
  BY <1>3, <1>9 DEF vars
<1>10. CASE \E b \in Block, skip \in BOOLEAN : PrefetchLine(b, skip)
  BY <1>3, <1>10 DEF PrefetchLine, lower
<1>11. CASE (\E u \in Upper : PickUp(u)) \/ \E n \in 0..Len(inflight_tag_check) : BeginTagChecks(n)
  BY <1>3, <1>11 DEF PickUp, BeginTagChecks, lower, queues
<1>12. CASE Arrive
  BY <1>3, <1>12 DEF Arrive, TakeFromAbove, lower
<1>13. CASE FillFromWrites \/ TakeFromInternalPQ \/ Hit \/ HandleWrite
  BY <1>3, <1>13 DEF FillFromWrites, TakeFromInternalPQ, Hit, HandleWrite, lower
<1>14. CASE BeginCycle \/ EndReturns \/ EndFills \/ EndWrites
            \/ RefuseFillFromMSHR \/ RefuseFillFromWrites
  BY <1>3, <1>14 DEF BeginCycle, EndReturns, EndFills, EndWrites,
       RefuseFillFromMSHR, RefuseFillFromWrites, RefuseFill, queues, lower
<1>15. CASE NoHit \/ EndHits \/ RefuseMiss \/ EndCycle
  BY <1>3, <1>15 DEF NoHit, EndHits, RefuseMiss, EndCycle, queues, lower
<1> QED BY <1>4, <1>5, <1>6, <1>7, <1>8, <1>9, <1>10, <1>11, <1>12, <1>13, <1>14, <1>15
        DEF Next, Environment, Operate

-----------------------------------------------------------------------------
(* Lines *)

\* NoBlockTwice, of the lines blk and the queue q of the misses or the tag checks.
Held(blk, b) == \E w \in Way : blk[IndexOf[b]][w].address = b

OneWay(blk) ==
  \A s \in SetIndex : \A v, w \in Way :
    blk[s][v].address = blk[s][w].address /\ blk[s][v].address # NoBlock => v = w

NoneHeld(blk, q, n) == \A k \in 1..Len(q) : k <= n => ~Held(blk, q[k].address)

LinesOf(blk, q, w, t, s, a, l) ==
  match_offset_bits =>
    /\ OneWay(blk) /\ NoneHeld(blk, q, Len(q))
    /\ w = <<>>
    /\ s = "hits" => NoneHeld(blk, t, a - 1)
    /\ s = "misses" => NoneHeld(blk, t, l)

LEMMA LinesIs ==
  ASSUME TypeOK
  PROVE  Lines <=> LinesOf(block, MSHR, inflight_writes, inflight_tag_check, stage, at, last)
<1>1. \A b : WaysWith(b) = {} <=> ~Held(block, b)
  BY DEF WaysWith, Held
<1>2. Len(MSHR) \in Nat
  BY LengthsAre
<1>3. (\A i \in 1..Len(MSHR) : WaysWith(MSHR[i].address) = {}) <=> NoneHeld(block, MSHR, Len(MSHR))
  <2>1. \A i \in 1..Len(MSHR) : i <= Len(MSHR)
    BY <1>2
  <2>2. \A i \in 1..Len(MSHR) : WaysWith(MSHR[i].address) = {} <=> ~Held(block, MSHR[i].address)
    BY <1>1
  <2> HIDE DEF Held
  <2> QED BY <2>1, <2>2 DEF NoneHeld
<1>4. NoBlockTwice <=> OneWay(block) /\ NoneHeld(block, MSHR, Len(MSHR))
  BY <1>3 DEF NoBlockTwice, OneWay
<1>5. /\ NotHeld(at - 1) <=> NoneHeld(block, inflight_tag_check, at - 1)
      /\ NotHeld(last) <=> NoneHeld(block, inflight_tag_check, last)
  BY <1>1 DEF NotHeld, NoneHeld
<1> QED BY <1>4, <1>5 DEF Lines, LinesOf

LEMMA LinesNext ==
  ASSUME TypeOK'
  PROVE  Lines' <=> LinesOf(block', MSHR', inflight_writes', inflight_tag_check', stage', at', last')
<1>1. (\A b : WaysWith(b) = {} <=> ~Held(block, b))'
  BY DEF WaysWith, Held
<1>2. Len(MSHR') \in Nat
  BY LenProperties DEF TypeOK
<1>3. NoBlockTwice' <=> OneWay(block') /\ NoneHeld(block', MSHR', Len(MSHR'))
  <2>1. \A i \in 1..Len(MSHR') : i <= Len(MSHR')
    BY <1>2
  <2>2. (\A i \in 1..Len(MSHR) : WaysWith(MSHR[i].address) = {} <=> ~Held(block, MSHR[i].address))'
    BY <1>1
  <2>3. (\A i \in 1..Len(MSHR) : WaysWith(MSHR[i].address) = {})'
          <=> \A i \in 1..Len(MSHR') : ~Held(block', MSHR'[i].address)
    BY <2>2
  <2>4. (\A i \in 1..Len(MSHR') : ~Held(block', MSHR'[i].address)) <=> NoneHeld(block', MSHR', Len(MSHR'))
    BY <2>1 DEF NoneHeld
  <2> QED BY <2>3, <2>4 DEF NoBlockTwice, OneWay
<1>4. NotHeld(at - 1)' <=> NoneHeld(block', inflight_tag_check', at' - 1)
  BY <1>1 DEF NotHeld, NoneHeld
<1>5. NotHeld(last)' <=> NoneHeld(block', inflight_tag_check', last')
  BY <1>1 DEF NotHeld, NoneHeld
<1> QED BY <1>3, <1>4, <1>5 DEF Lines, LinesOf

LEMMA FillKeepsLines ==
  ASSUME TypeOK, EveryAnswerHasItsMiss, NoneHeld(block, MSHR, Len(MSHR)), OneWay(block), FillFromMSHR
  PROVE  OneWay(block') /\ NoneHeld(block', MSHR', Len(MSHR'))
<1> DEFINE x == Head(MSHR)
           s == IndexOf[x.address]
<1>1. MSHR \in Seq(Miss) /\ MSHR # <<>> /\ MSHR' = Tail(MSHR) /\ Fill(x)
  BY DEF FillFromMSHR, TypeOK
<1>2. /\ Len(MSHR') = Len(MSHR) - 1 /\ Len(MSHR) \in Nat \ {0} /\ Head(MSHR) = MSHR[1]
      /\ \A k \in 1..Len(MSHR') : k + 1 \in 1..Len(MSHR) /\ k + 1 # 1 /\ MSHR'[k] = MSHR[k + 1]
  BY <1>1, Rest
<1>3. x \in Miss /\ x.address \in Block /\ s \in SetIndex /\ ~Held(block, x.address)
  <2>1. 1 \in 1..Len(MSHR) /\ 1 <= Len(MSHR)
    BY <1>2
  <2>2. MSHR[1] \in Miss /\ ~Held(block, MSHR[1].address)
    BY <1>1, <2>1, Entries DEF NoneHeld
  <2> QED BY <1>2, <2>2 DEF Miss
<1>4. \A k \in 1..Len(MSHR') : MSHR'[k].address \in Block /\ MSHR'[k].address # x.address /\ ~Held(block, MSHR'[k].address)
  <2> SUFFICES ASSUME NEW k \in 1..Len(MSHR')
               PROVE  MSHR'[k].address \in Block /\ MSHR'[k].address # x.address /\ ~Held(block, MSHR'[k].address)
    OBVIOUS
  <2>1. MSHR'[k] = MSHR[k + 1] /\ k + 1 \in 1..Len(MSHR) /\ k + 1 # 1 /\ 1 \in 1..Len(MSHR) /\ k + 1 <= Len(MSHR)
    BY <1>2
  <2>2. MSHR[k + 1] \in Miss /\ MSHR[k + 1].address # MSHR[1].address
    BY <1>1, <2>1, Entries DEF EveryAnswerHasItsMiss
  <2> QED BY <1>2, <2>1, <2>2 DEF Miss, NoneHeld
<1>5. PICK w : block' = IF w \in Way THEN [block EXCEPT ![s][w] = Filled(x)] ELSE block
  BY <1>1 DEF Fill
<1> HIDE DEF x, s
<1>6. CASE w \notin Way
  <2>1. block' = block
    BY <1>5, <1>6
  <2> QED BY <1>4, <2>1 DEF NoneHeld
<1>7. CASE w \in Way
  <2>1. /\ \A v \in Way : block'[s][v].address = IF v = w THEN x.address ELSE block[s][v].address
        /\ \A t \in SetIndex : t # s => block'[t] = block[t]
    <3>1. block' = [block EXCEPT ![s][w] = Filled(x)] /\ block \in [SetIndex -> [Way -> Line]]
      BY <1>5, <1>7 DEF TypeOK
    <3> QED BY <1>3, <1>7, <3>1 DEF Filled
  <2>2. OneWay(block')
    <3> SUFFICES ASSUME NEW t \in SetIndex, NEW v \in Way, NEW u \in Way,
                        block'[t][v].address = block'[t][u].address, block'[t][v].address # NoBlock
                 PROVE  v = u
      BY DEF OneWay
    <3>1. CASE t # s
      BY <2>1, <3>1 DEF OneWay
    <3>2. CASE t = s
      <4>1. \A y \in Way : block[s][y].address # x.address
        BY <1>3 DEF Held, s
      <4> QED BY <1>3, <2>1, <3>2, <4>1 DEF OneWay
    <3> QED BY <3>1, <3>2
  <2>3. ASSUME NEW k \in 1..Len(MSHR')
        PROVE  ~Held(block', MSHR'[k].address)
    <3>1. IndexOf[MSHR'[k].address] \in SetIndex
      BY <1>4
    <3>2. ASSUME NEW v \in Way
          PROVE  block'[IndexOf[MSHR'[k].address]][v].address # MSHR'[k].address
      BY <1>4, <2>1, <3>1 DEF Held
    <3> QED BY <3>2 DEF Held
  <2> QED BY <2>2, <2>3 DEF NoneHeld
<1> QED BY <1>6, <1>7

\* Entries that leave the tag checks, or join the misses, and addresses that stay.
LEMMA RemoveKeepsNoneHeld ==
  ASSUME NEW blk, NEW R, NEW t \in Seq(R), NEW j \in 1..Len(t), NEW r, r = RemoveAt(t, j),
         NEW n \in Nat, NoneHeld(blk, t, n)
  PROVE  /\ NoneHeld(blk, r, n - 1)
         /\ n < j => NoneHeld(blk, r, n)
<1>1. \A k \in 1..Len(r) : Old(k, j) \in 1..Len(t) /\ r[k] = t[Old(k, j)]
  BY Removed
<1>2. \A k \in 1..Len(r) : /\ k <= n - 1 => Old(k, j) <= n
                           /\ n < j /\ k <= n => Old(k, j) <= n
  BY DEF Old
<1> QED BY <1>1, <1>2 DEF NoneHeld

LEMMA SameAddressesNoneHeld ==
  ASSUME NEW blk, NEW q, NoneHeld(blk, q, Len(q)), Len(q) \in Nat, NEW r, Len(r) = Len(q),
         \A k \in 1..Len(q) : \E j \in 1..Len(q) : r[k].address = q[j].address
  PROVE  NoneHeld(blk, r, Len(r))
BY DEF NoneHeld

LEMMA TradedNoneHeld ==
  ASSUME NEW q \in Seq(Miss), NEW m \in 1..Len(q), NEW f \in 1..Len(q),
         NEW r, r = Exchanged(q, m, f), NEW blk, NoneHeld(blk, q, Len(q))
  PROVE  NoneHeld(blk, r, Len(r))
<1>1. /\ Len(r) = Len(q)
      /\ \A k \in 1..Len(q) : /\ Trade(k, m, f) \in 1..Len(q)
                             /\ r[k].address = q[Trade(k, m, f)].address
  BY Traded
<1>2. \A k \in 1..Len(q) : \E j \in 1..Len(q) : r[k].address = q[j].address
  BY <1>1
<1>3. Len(q) \in Nat
  BY LenProperties
<1> QED BY <1>1, <1>2, <1>3 DEF NoneHeld

LEMMA HitKeepsHeld ==
  ASSUME TypeOK, Hit
  PROVE  /\ \A b \in Block : Held(block', b) <=> Held(block, b)
         /\ OneWay(block) => OneWay(block')
<1> DEFINE s == IndexOf[ThisTag.address]
           w == FirstWay(WaysWith(ThisTag.address))
<1>1. at <= last /\ WaysWith(ThisTag.address) \in SUBSET Way /\ WaysWith(ThisTag.address) # {}
  BY DEF Hit, WaysWith
<1>2. w \in Way /\ ThisTag \in Packet
  BY <1>1, FirstWayIs, ThisTagIs
<1>3. s \in SetIndex
  BY <1>2 DEF Packet
<1>4. PICK d : block' = [block EXCEPT ![s] = [block[s] EXCEPT ![w] = [block[s][w] EXCEPT !.dirty = d]]]
  BY DEF Hit
<1> HIDE DEF s, w
<1>5. block \in [SetIndex -> [Way -> Line]]
  BY DEF TypeOK
<1>6. \A t \in SetIndex : \A v \in Way : block'[t][v].address = block[t][v].address
  <2> SUFFICES ASSUME NEW t \in SetIndex, NEW v \in Way
               PROVE  block'[t][v].address = block[t][v].address
    OBVIOUS
  <2>1. [block[s][w] EXCEPT !.dirty = d].address = block[s][w].address
    BY <1>2, <1>3, <1>5 DEF Line
  <2>2. CASE t = s /\ v = w
    BY <1>2, <1>3, <1>4, <1>5, <2>1, <2>2
  <2>3. CASE ~(t = s /\ v = w)
    BY <1>2, <1>3, <1>4, <1>5, <2>3
  <2> QED BY <2>2, <2>3
<1> QED BY <1>6 DEF Held, OneWay

LEMMA LinesKept ==
  ASSUME TypeOK, EveryAnswerHasItsMiss, AnsweredMissesFirst, Lines, [Next]_vars
  PROVE  Lines'
<1> DEFINE Good == LinesOf(block', MSHR', inflight_writes', inflight_tag_check', stage', at', last')
           Lower == UNCHANGED <<block, MSHR, inflight_writes>>
<1>1. SUFFICES ASSUME match_offset_bits PROVE Good
  <2>1. TypeOK'
    BY TypesKept
  <2>2. ~match_offset_bits => Lines'
    BY DEF Lines
  <2> QED BY <1>1, <2>1, <2>2, LinesNext
<1>2. /\ OneWay(block) /\ NoneHeld(block, MSHR, Len(MSHR)) /\ inflight_writes = <<>>
      /\ stage = "hits" => NoneHeld(block, inflight_tag_check, at - 1)
      /\ stage = "misses" => NoneHeld(block, inflight_tag_check, last)
  BY <1>1, LinesIs DEF LinesOf
<1>3. /\ MSHR \in Seq(Miss) /\ inflight_tag_check \in Seq(Packet) /\ Len(MSHR) \in Nat
      /\ at \in Nat \ {0} /\ last \in Nat
  BY LengthsAre DEF TypeOK
<1>4. CASE Lower /\ stage' \notin {"hits", "misses"}
  BY <1>2, <1>4 DEF LinesOf
<1>5. CASE Lower /\ UNCHANGED <<inflight_tag_check, stage, at, last>>
  BY <1>2, <1>5 DEF LinesOf
<1> HIDE DEF Good
<1>6. CASE Environment
  BY <1>4, <1>5, <1>6 DEF Environment, PrefetchLine, LowerAnswers, PickUp, queues, Good
<1>7. CASE Arrive \/ TakeFromInternalPQ
  BY <1>4, <1>7 DEF Arrive, TakeFromAbove, TakeFromInternalPQ, Good
<1>8. CASE BeginCycle \/ EndReturns \/ EndFills \/ EndWrites \/ EndCycle
           \/ RefuseFillFromMSHR \/ RefuseFillFromWrites
  BY <1>4, <1>8 DEF BeginCycle, EndReturns, EndFills, EndWrites,
       RefuseFillFromMSHR, RefuseFillFromWrites, RefuseFill, EndCycle, queues, Good
<1>9. CASE FinishPacket
  <2>1. PICK m \in 1..Len(MSHR), f \in 1..Len(MSHR) : MSHR' = Exchanged(MSHR, m, f)
    BY <1>9, MissOfIs, UnreturnedIs DEF FinishPacket, Exchanged, Known
  <2>2. MSHR \in Seq(Miss) /\ NoneHeld(block, MSHR, Len(MSHR))
    BY <1>2, <1>3
  <2>3. PICK r : r = Exchanged(MSHR, m, f)
    OBVIOUS
  <2>4. NoneHeld(block, r, Len(r))
    BY <2>2, <2>3, TradedNoneHeld
  <2> QED BY <1>2, <1>9, <2>1, <2>3, <2>4 DEF FinishPacket, LinesOf, Good
<1>10. CASE FillFromMSHR
  <2>1. OneWay(block') /\ NoneHeld(block', MSHR', Len(MSHR'))
    BY <1>2, <1>10, FillKeepsLines
  <2> QED BY <1>2, <1>10, <2>1 DEF FillFromMSHR, LinesOf, Good
<1>11. CASE FillFromWrites
  BY <1>2, <1>11 DEF FillFromWrites
<1>12. ASSUME NEW n \in 0..Len(inflight_tag_check), BeginTagChecks(n)
       PROVE  Good
  <2>1. NoneHeld(block, inflight_tag_check, 1 - 1)
    BY DEF NoneHeld
  <2> QED BY <1>2, <1>12, <2>1 DEF BeginTagChecks, queues, LinesOf, Good
<1>13. CASE Hit
  <2>1. /\ at \in 1..Len(inflight_tag_check) /\ inflight_tag_check' = RemoveAt(inflight_tag_check, at)
        /\ UNCHANGED <<MSHR, inflight_writes, stage, at>> /\ stage = "hits" /\ at - 1 \in Nat
    BY <1>3, <1>13, ThisTagIs DEF Hit
  <2>2. NoneHeld(block, inflight_tag_check', at - 1)
    <3>1. at - 1 < at /\ NoneHeld(block, inflight_tag_check, at - 1)
      BY <1>2, <1>3, <2>1
    <3> QED BY <1>3, <2>1, <3>1, RemoveKeepsNoneHeld
  <2>3. /\ \A k \in 1..Len(inflight_tag_check') : inflight_tag_check'[k].address \in Block
        /\ \A k \in 1..Len(MSHR) : MSHR[k].address \in Block
    <3>1. /\ \A k \in 1..Len(inflight_tag_check') : inflight_tag_check'[k] \in Packet
          /\ \A k \in 1..Len(MSHR) : MSHR[k] \in Miss
      BY <1>3, TypesKept, Entries DEF TypeOK
    <3> QED BY <3>1 DEF Packet, Miss
  <2>4. \A b \in Block : Held(block', b) <=> Held(block, b)
    BY <1>13, HitKeepsHeld
  <2>5. NoneHeld(block', inflight_tag_check', at - 1) /\ NoneHeld(block', MSHR, Len(MSHR))
    BY <1>2, <2>2, <2>3, <2>4 DEF NoneHeld
  <2>6. OneWay(block')
    BY <1>2, <1>13, HitKeepsHeld
  <2> QED BY <1>2, <2>1, <2>5, <2>6 DEF LinesOf, Good
<1>14. CASE NoHit
  <2>1. ~Held(block, inflight_tag_check[at].address)
    BY <1>14 DEF NoHit, WaysWith, Held, ThisTag
  <2>2. NoneHeld(block, inflight_tag_check, at' - 1)
    BY <1>2, <1>3, <1>14, <2>1 DEF NoHit, NoneHeld
  <2> QED BY <1>2, <1>14, <2>2 DEF NoHit, queues, LinesOf, Good
<1>15. CASE EndHits
  <2>1. NoneHeld(block, inflight_tag_check, last)
    BY <1>2, <1>3, <1>15 DEF EndHits, NoneHeld
  <2> QED BY <1>2, <1>15, <2>1 DEF EndHits, queues, LinesOf, Good
<1>16. CASE HandleWrite
  BY <1>1, <1>16 DEF HandleWrite, IsWriteback
<1>17. CASE RefuseMiss
  BY <1>2, <1>17 DEF RefuseMiss, Checking, queues, LinesOf, Good
<1>18. ASSUME MergeMiss \/ ForwardMiss
       PROVE  /\ stage = "misses" /\ at <= last /\ UNCHANGED <<block, inflight_writes, stage>>
              /\ NoneHeld(block, inflight_tag_check', last') /\ ~Held(block, ThisTag.address)
  <2>1. /\ at <= last /\ inflight_tag_check' = RemoveAt(inflight_tag_check, at) /\ last' = last - 1
        /\ stage = "misses" /\ UNCHANGED <<block, inflight_writes, stage>>
    BY <1>18 DEF MergeMiss, ForwardMiss, Checking, Finish
  <2>2. at \in 1..Len(inflight_tag_check)
    BY <2>1, ThisTagIs
  <2>3. NoneHeld(block, inflight_tag_check', last')
    BY <1>2, <1>3, <2>1, <2>2, RemoveKeepsNoneHeld
  <2> QED BY <1>2, <2>1, <2>2, <2>3 DEF NoneHeld, ThisTag
<1>19. CASE MergeMiss
  <2>1. PICK m : MergesAt(m)
    BY <1>19, MergeMissIs
  <2>2. PICK x : x = MergedMiss(MSHR[m], ToAllocate(ThisTag))
    OBVIOUS
  <2>3. /\ Len(MSHR') = Len(MSHR) /\ x.address = MSHR[m].address
        /\ \A k \in 1..Len(MSHR) : MSHR'[k] = IF k = m THEN x ELSE MSHR[k]
    BY <1>18, <1>19, <2>1, <2>2, MergesAtIs
  <2>4. \A k \in 1..Len(MSHR) : \E j \in 1..Len(MSHR) : MSHR'[k].address = MSHR[j].address
    BY <2>3
  <2>5. NoneHeld(block, MSHR', Len(MSHR'))
    BY <1>2, <1>3, <2>3, <2>4, SameAddressesNoneHeld
  <2> QED BY <1>2, <1>18, <1>19, <2>5 DEF LinesOf, Good
<1>20. CASE ForwardMiss
  <2>1. CASE UNCHANGED MSHR
    BY <1>2, <1>18, <1>20, <2>1 DEF LinesOf, Good
  <2>2. CASE MSHR' = Append(MSHR, ToAllocate(ThisTag))
    <3>1. ToAllocate(ThisTag) \in Miss /\ ToAllocate(ThisTag).address = ThisTag.address
      BY <1>18, <1>20, ThisTagIs, ToAllocateIs
    <3>2. /\ \A k \in 1..Len(MSHR) : MSHR'[k] = MSHR[k]
          /\ MSHR'[Len(MSHR) + 1] = ToAllocate(ThisTag)
          /\ \A k \in 1..Len(MSHR') : k \in 1..Len(MSHR) \/ k = Len(MSHR) + 1
      BY <1>3, <2>2, <3>1, Appended
    <3>3. NoneHeld(block, MSHR', Len(MSHR'))
      BY <1>2, <1>3, <1>18, <1>20, <3>1, <3>2 DEF NoneHeld
    <3> QED BY <1>2, <1>18, <1>20, <3>3 DEF LinesOf, Good
  <2> QED BY <1>20, <2>1, <2>2 DEF ForwardMiss
<1>21. CASE UNCHANGED vars
  BY <1>5, <1>21 DEF vars, Good
<1> QED BY <1>6, <1>7, <1>8, <1>9, <1>10, <1>11, <1>12, <1>13, <1>14, <1>15, <1>16, <1>17, <1>19,
           <1>20, <1>21 DEF Next, Operate

-----------------------------------------------------------------------------
(* Senders *)

LEMMA AnsweredPacket ==
  ASSUME TypeOK, Senders, at <= last
  PROVE  /\ at \in 1..Len(inflight_tag_check) /\ ThisTag = inflight_tag_check[at]
         /\ ThisTag \in KnownPacket /\ ThisTag \in Packet /\ Answerable(ThisTag)
         /\ ToAllocate(ThisTag) \in KnownMiss
<1>1. /\ at \in 1..Len(inflight_tag_check) /\ ThisTag = inflight_tag_check[at] /\ ThisTag \in Packet
  BY ThisTagIs DEF ThisTag
<1>2. ThisTag \in KnownPacket
  BY <1>1, Entries DEF Senders
<1>3. /\ ToAllocate(ThisTag) \in Miss
      /\ ToAllocate(ThisTag).instr_depend_on_me = ThisTag.instr_depend_on_me
      /\ ToAllocate(ThisTag).to_return = ThisTag.to_return
  BY <1>1, ToAllocateIs
<1> QED BY <1>1, <1>2, <1>3 DEF KnownPacket, KnownMiss, Knows, Answerable, Packet

LEMMA SendersKept ==
  ASSUME TypeOK, Senders, [Next]_vars
  PROVE  Senders'
<1> DEFINE Tags == inflight_tag_check' \in Seq(KnownPacket)
           Misses == MSHR' \in Seq(KnownMiss)
           Prefetches == internal_PQ' \in Seq(Unattended(Packet))
           Writebacks == inflight_writes' \in Seq(Unattended(Miss))
<1>1. SUFFICES Tags /\ Misses /\ Prefetches /\ Writebacks
  BY DEF Senders, KnownPacket, KnownMiss, Knows, Dropped, Unattended
<1>2. /\ inflight_tag_check \in Seq(KnownPacket) /\ MSHR \in Seq(KnownMiss)
      /\ internal_PQ \in Seq(Unattended(Packet)) /\ inflight_writes \in Seq(Unattended(Miss))
  BY DEF Senders
<1>3. ASSUME at <= last, Finish
      PROVE  Tags
  BY <1>2, <1>3, AnsweredPacket, Removed DEF Finish
<1> HIDE DEF Tags, Misses, Prefetches, Writebacks
<1>4. /\ UNCHANGED inflight_tag_check => Tags
      /\ UNCHANGED MSHR => Misses
      /\ UNCHANGED internal_PQ => Prefetches
      /\ UNCHANGED inflight_writes => Writebacks
  BY <1>2 DEF Tags, Misses, Prefetches, Writebacks
<1>5. ASSUME NEW b \in Block, NEW skip \in BOOLEAN, PrefetchLine(b, skip)
      PROVE  Tags /\ Misses /\ Prefetches /\ Writebacks
  <2>1. OwnPrefetch(b, skip) \in Unattended(Packet)
    BY DEF OwnPrefetch, Packet, AccessType, Unattended
  <2>2. Prefetches
    BY <1>2, <1>5, <2>1, AppendProperties DEF PrefetchLine, Prefetches
  <2> QED BY <1>4, <1>5, <2>2 DEF PrefetchLine
<1>6. ASSUME NEW u \in Upper, NEW t \in AccessType, NEW b \in Block, NEW D \in SUBSET Instr,
             TakeFromAbove(u, t, b, D)
      PROVE  Tags /\ Misses /\ Prefetches /\ Writebacks
  <2>1. FromAbove(u, t, b, D) \in Packet
    BY DEF FromAbove, Packet
  <2>2. (\A i \in D : SenderOf[i] = u) /\ (t = "WRITE" => D = {})
    BY <1>6 DEF TakeFromAbove, Requests
  <2>3. FromAbove(u, t, b, D) \in KnownPacket
    BY <2>1, <2>2 DEF KnownPacket, FromAbove, Knows, Dropped
  <2>4. Tags
    BY <1>2, <1>6, <2>3, AppendProperties DEF TakeFromAbove, Tags
  <2> QED BY <1>4, <1>6, <2>4 DEF TakeFromAbove
<1>7. CASE FinishPacket
  <2>1. PICK m \in 1..Len(MSHR), f \in 1..Len(MSHR) : MSHR' = Exchanged(MSHR, m, f)
    BY <1>7, MissOfIs, UnreturnedIs DEF FinishPacket, Exchanged, Known
  <2>2. MSHR \in Seq(Miss)
    BY DEF TypeOK
  <2>3. /\ MSHR' \in Seq(Miss) /\ Len(MSHR') = Len(MSHR)
        /\ \A k \in 1..Len(MSHR) :
             /\ Trade(k, m, f) \in 1..Len(MSHR)
             /\ MSHR'[k].instr_depend_on_me = MSHR[Trade(k, m, f)].instr_depend_on_me
             /\ MSHR'[k].to_return = MSHR[Trade(k, m, f)].to_return
    BY <2>1, <2>2, Traded
  <2>4. /\ \A k \in 1..Len(MSHR') : MSHR'[k] \in Miss
        /\ \A k \in 1..Len(MSHR) : MSHR[k] \in KnownMiss
    BY <1>2, <2>3, Entries
  <2>5. \A k \in 1..Len(MSHR') : MSHR'[k] \in KnownMiss
    BY <2>3, <2>4 DEF KnownMiss, Knows
  <2>6. Misses
    <3>1. Len(MSHR') \in Nat /\ MSHR' = [k \in 1..Len(MSHR') |-> MSHR'[k]]
      BY <2>3, LenProperties
    <3>2. MSHR' \in [1..Len(MSHR') -> KnownMiss]
      BY <2>5, <3>1
    <3> QED BY <3>1, <3>2, SeqDef DEF Misses
  <2> QED BY <1>4, <1>7, <2>6 DEF FinishPacket
<1>8. CASE FillFromMSHR
  <2>1. Misses
    BY <1>2, <1>8, HeadTailProperties DEF FillFromMSHR, Misses
  <2> QED BY <1>4, <1>8, <2>1 DEF FillFromMSHR
<1>9. CASE FillFromWrites
  <2>1. Writebacks
    BY <1>2, <1>9, HeadTailProperties DEF FillFromWrites, Writebacks
  <2> QED BY <1>4, <1>9, <2>1 DEF FillFromWrites
<1>10. CASE TakeFromInternalPQ
  <2>1. Head(internal_PQ) \in Unattended(Packet) /\ Prefetches
    BY <1>2, <1>10, HeadTailProperties DEF TakeFromInternalPQ, Prefetches
  <2>2. Head(internal_PQ) \in KnownPacket
    BY <2>1 DEF Unattended, KnownPacket, Knows
  <2>3. Tags
    BY <1>2, <1>10, <2>2, AppendProperties DEF TakeFromInternalPQ, Tags
  <2> QED BY <1>4, <1>10, <2>1, <2>3 DEF TakeFromInternalPQ
<1>11. CASE Hit
  <2>1. Tags
    BY <1>3, <1>11 DEF Hit, Finish
  <2> QED BY <1>4, <1>11, <2>1 DEF Hit
<1>12. CASE HandleWrite
  <2>1. ToAllocate(ThisTag) \in Unattended(Miss)
    BY <1>12, AnsweredPacket, ToAllocateIs
       DEF HandleWrite, Checking, IsWriteback, KnownPacket, Dropped, Unattended
  <2>2. Writebacks
    BY <1>2, <1>12, <2>1, AppendProperties DEF HandleWrite, Writebacks
  <2> QED BY <1>3, <1>4, <1>12, <2>2 DEF HandleWrite, Checking
<1>13. CASE MergeMiss
  <2>1. at <= last /\ Finish
    BY <1>13 DEF MergeMiss, Checking
  <2>2. PICK m : MergesAt(m)
    BY <1>13, MergeMissIs
  <2>3. PICK x : x = MergedMiss(MSHR[m], ToAllocate(ThisTag))
    OBVIOUS
  <2>4. /\ x \in Miss /\ MSHR' = [MSHR EXCEPT ![m] = x] /\ m \in 1..Len(MSHR)
        /\ x.instr_depend_on_me = MSHR[m].instr_depend_on_me \cup ThisTag.instr_depend_on_me
        /\ x.to_return = MSHR[m].to_return \cup ThisTag.to_return
    BY <2>1, <2>2, <2>3, MergesAtIs
  <2>5. MSHR[m] \in KnownMiss /\ ThisTag \in KnownPacket
    BY <1>2, <2>1, <2>4, Entries, AnsweredPacket
  <2>6. x \in KnownMiss
    BY <2>4, <2>5 DEF KnownMiss, KnownPacket, Knows
  <2>7. Misses
    BY <1>2, <2>4, <2>6, ExceptSeq DEF Misses
  <2> QED BY <1>3, <1>4, <1>13, <2>1, <2>7 DEF MergeMiss
<1>14. CASE ForwardMiss
  <2>1. at <= last /\ Finish
    BY <1>14 DEF ForwardMiss, Checking
  <2>2. Misses
    <3>1. CASE MSHR' = Append(MSHR, ToAllocate(ThisTag))
      BY <1>2, <2>1, <3>1, AnsweredPacket, AppendProperties DEF Misses
    <3> QED BY <1>4, <1>14, <3>1 DEF ForwardMiss
  <2> QED BY <1>3, <1>4, <1>14, <2>1, <2>2 DEF ForwardMiss
<1>15. CASE UNCHANGED queues
  BY <1>4, <1>15 DEF queues
<1>16. CASE UNCHANGED vars
  BY <1>4, <1>16 DEF vars
<1>17. CASE (\E b \in Block : LowerAnswers(b)) \/ (\E u \in Upper : PickUp(u))
            \/ \E n \in 0..Len(inflight_tag_check) : BeginTagChecks(n)
  BY <1>15, <1>17 DEF LowerAnswers, PickUp, BeginTagChecks
<1>18. CASE BeginCycle \/ EndReturns \/ EndFills \/ EndWrites
            \/ RefuseFillFromMSHR \/ RefuseFillFromWrites
  BY <1>15, <1>18 DEF BeginCycle, EndReturns, EndFills, EndWrites,
       RefuseFillFromMSHR, RefuseFillFromWrites, RefuseFill
<1>19. CASE NoHit \/ EndHits \/ RefuseMiss \/ EndCycle
  BY <1>15, <1>19 DEF NoHit, EndHits, RefuseMiss, EndCycle
<1> QED BY <1>5, <1>6, <1>7, <1>8, <1>9, <1>10, <1>11, <1>12, <1>13, <1>14, <1>16, <1>17, <1>18, <1>19
        DEF Next, Environment, Arrive, Operate

-----------------------------------------------------------------------------
(* How those who wait move *)

\* Who waited at x in q does no longer, in r.
Left(q, r, x) ==
  \A i \in Instr : /\ In(r, i) <=> In(q, i) /\ i \notin x.instr_depend_on_me
                   /\ \A b : Asks(r, i, b) <=> Asks(q, i, b) /\ i \notin x.instr_depend_on_me

\* They waited there, for its block.
WasAt(q, x) ==
  \A i \in Instr : i \in x.instr_depend_on_me => In(q, i) /\ \A b : Asks(q, i, b) <=> b = x.address

\* Who waits at x joins those of q, in r.
Came(q, r, x) ==
  \A i \in Instr : /\ In(r, i) <=> In(q, i) \/ i \in x.instr_depend_on_me
                   /\ \A b : Asks(r, i, b) <=> Asks(q, i, b) \/ (i \in x.instr_depend_on_me /\ b = x.address)

\* Whoever waits at x is answered, each in the channel of its sender.
AnsweredAt(x) ==
  /\ \A u \in Upper : Single(returned'[u], SentBy(u))
  /\ \A i \in Instr :
       /\ In(returned'[SenderOf[i]], i) <=> In(returned[SenderOf[i]], i) \/ i \in x.instr_depend_on_me
       /\ \A b \in Block : Asks(returned'[SenderOf[i]], i, b) <=>
            Asks(returned[SenderOf[i]], i, b) \/ (i \in x.instr_depend_on_me /\ b = x.address)

LEMMA RemovedLeft ==
  ASSUME NEW R, NEW q \in Seq(R), NEW j \in 1..Len(q), NEW r, r = RemoveAt(q, j), Single(q, Instr),
         NEW x, x = q[j]
  PROVE  Left(q, r, x) /\ WasAt(q, x) /\ Single(r, Instr)
<1>1. /\ \A i \in Instr : In(r, i) <=> In(q, i) /\ i \notin q[j].instr_depend_on_me
      /\ \A i \in Instr : \A b : Asks(r, i, b) <=> Asks(q, i, b) /\ i \notin q[j].instr_depend_on_me
      /\ \A i \in Instr : i \in q[j].instr_depend_on_me => \A b : Asks(q, i, b) <=> b = q[j].address
      /\ Single(r, Instr)
  BY RemovedIds
<1>2. \A i \in Instr : i \in q[j].instr_depend_on_me => In(q, i)
  BY DEF In
<1> QED BY <1>1, <1>2 DEF Left, WasAt

LEMMA AppendedCame ==
  ASSUME NEW R, NEW q \in Seq(R), NEW x \in R, NEW r, r = Append(q, x)
  PROVE  Came(q, r, x)
<1>1. /\ \A i : In(r, i) <=> In(q, i) \/ i \in x.instr_depend_on_me
      /\ \A i, b : Asks(r, i, b) <=> Asks(q, i, b) \/ (i \in x.instr_depend_on_me /\ b = x.address)
  BY AppendedIds
<1> QED BY <1>1 DEF Came

LEMMA JoinedCame ==
  ASSUME NEW R, NEW q \in Seq(R), NEW j \in 1..Len(q), NEW y \in R, NEW x, NEW r, r = Changed(q, j, y),
         y.instr_depend_on_me = q[j].instr_depend_on_me \cup x.instr_depend_on_me,
         y.address = q[j].address, y.address = x.address
  PROVE  Came(q, r, x)
<1>1. Len(r) = Len(q) /\ \A k \in 1..Len(q) : r[k] = IF k = j THEN y ELSE q[k]
  BY ExceptSeq DEF Changed
<1>2. ASSUME NEW i
      PROVE  In(r, i) <=> In(q, i) \/ i \in x.instr_depend_on_me
  BY <1>1 DEF In
<1>3. ASSUME NEW i, NEW b
      PROVE  Asks(r, i, b) <=> Asks(q, i, b) \/ (i \in x.instr_depend_on_me /\ b = x.address)
  BY <1>1 DEF Asks
<1> QED BY <1>2, <1>3 DEF Came

\* The channels, where the response to x is sent.
LEMMA RespondedAt ==
  ASSUME TypeOK, Once, NEW x, Answerable(x), Knows(x), Respond(x),
         \A i \in Instr : i \in x.instr_depend_on_me => ~In(returned[SenderOf[i]], i)
  PROVE  AnsweredAt(x)
<1>1. /\ \A u \in Upper : Single(returned'[u], SentBy(u))
      /\ \A i \in Instr : In(returned'[SenderOf[i]], i) <=>
           In(returned[SenderOf[i]], i) \/ (i \in x.instr_depend_on_me /\ SenderOf[i] \in x.to_return)
      /\ \A i \in Instr, b \in Block : Asks(returned'[SenderOf[i]], i, b) <=>
           \/ Asks(returned[SenderOf[i]], i, b)
           \/ i \in x.instr_depend_on_me /\ SenderOf[i] \in x.to_return /\ b = x.address
  BY RespondedIds
<1> QED BY <1>1 DEF AnsweredAt, Knows

LEMMA FillMoves ==
  ASSUME TypeOK, Once, Senders, FillFromMSHR, NEW x, x = Head(MSHR)
  PROVE  /\ Answerable(x) /\ Left(MSHR, MSHR', x) /\ WasAt(MSHR, x) /\ Single(MSHR', Instr) /\ AnsweredAt(x)
         /\ inflight_tag_check' = inflight_tag_check
<1>1. MSHR \in Seq(KnownMiss) /\ MSHR # <<>> /\ MSHR' = Tail(MSHR) /\ Fill(x)
  BY DEF FillFromMSHR, Senders
<1>2. MSHR' = RemoveAt(MSHR, 1) /\ x = MSHR[1] /\ 1 \in 1..Len(MSHR) /\ x \in KnownMiss
  BY <1>1, Taken
<1>3. Single(MSHR, Instr)
  BY DEF Once
<1>4. Left(MSHR, MSHR', x) /\ WasAt(MSHR, x) /\ Single(MSHR', Instr)
  BY <1>1, <1>2, <1>3, RemovedLeft
<1>5. x \in Miss /\ Knows(x) /\ Respond(x)
  BY <1>1, <1>2 DEF KnownMiss, Fill
<1>6. Answerable(x)
  BY <1>5 DEF Miss, Answerable
<1>7. \A i \in Instr : i \in x.instr_depend_on_me => ~In(returned[SenderOf[i]], i)
  BY <1>4 DEF WasAt, Once
<1>8. AnsweredAt(x)
  BY <1>5, <1>6, <1>7, RespondedAt
<1> QED BY <1>4, <1>6, <1>8 DEF FillFromMSHR

LEMMA WriteMoves ==
  ASSUME TypeOK, Once, Senders, FillFromWrites, NEW x, x = Head(inflight_writes)
  PROVE  /\ Answerable(x) /\ x.instr_depend_on_me = {} /\ AnsweredAt(x)
         /\ inflight_tag_check' = inflight_tag_check /\ MSHR' = MSHR
<1>1. inflight_writes \in Seq(Unattended(Miss)) /\ inflight_writes # <<>> /\ Fill(x)
  BY DEF FillFromWrites, Senders
<1>2. x \in Unattended(Miss)
  BY <1>1, Taken
<1>3. x \in Miss /\ x.instr_depend_on_me = {} /\ Knows(x) /\ Respond(x)
  BY <1>1, <1>2 DEF Unattended, Fill, Knows
<1>4. Answerable(x)
  BY <1>3 DEF Miss, Answerable
<1>5. AnsweredAt(x)
  BY <1>3, <1>4, RespondedAt
<1> QED BY <1>3, <1>4, <1>5 DEF FillFromWrites

LEMMA HitMoves ==
  ASSUME TypeOK, Once, Senders, Hit, NEW x, x = ThisTag
  PROVE  /\ Answerable(x) /\ Left(inflight_tag_check, inflight_tag_check', x) /\ WasAt(inflight_tag_check, x)
         /\ Single(inflight_tag_check', Instr) /\ AnsweredAt(x) /\ MSHR' = MSHR
<1>1. at <= last /\ inflight_tag_check' = RemoveAt(inflight_tag_check, at) /\ Respond(x) /\ MSHR' = MSHR
  BY DEF Hit
<1>2. /\ inflight_tag_check \in Seq(KnownPacket) /\ at \in 1..Len(inflight_tag_check)
      /\ x = inflight_tag_check[at] /\ Answerable(x) /\ x \in KnownPacket
  BY <1>1, AnsweredPacket DEF Senders
<1>3. Single(inflight_tag_check, Instr)
  BY DEF Once
<1>4. /\ Left(inflight_tag_check, inflight_tag_check', x) /\ WasAt(inflight_tag_check, x)
      /\ Single(inflight_tag_check', Instr)
  BY <1>1, <1>2, <1>3, RemovedLeft
<1>5. \A i \in Instr : i \in x.instr_depend_on_me => ~In(returned[SenderOf[i]], i)
  BY <1>4 DEF WasAt, Once
<1>6. AnsweredAt(x)
  BY <1>1, <1>2, <1>5, RespondedAt DEF KnownPacket
<1> QED BY <1>1, <1>2, <1>4, <1>6

\* A tag check that misses: who waits at it goes on to a miss, if anyone does.
LEMMA FinishMoves ==
  ASSUME TypeOK, Once, Senders, at <= last, Finish, NEW x, x = ThisTag
  PROVE  /\ Left(inflight_tag_check, inflight_tag_check', x) /\ WasAt(inflight_tag_check, x)
         /\ Single(inflight_tag_check', Instr)
<1>1. /\ inflight_tag_check \in Seq(KnownPacket) /\ at \in 1..Len(inflight_tag_check)
      /\ x = inflight_tag_check[at] /\ inflight_tag_check' = RemoveAt(inflight_tag_check, at)
      /\ Single(inflight_tag_check, Instr)
  BY AnsweredPacket DEF Senders, Finish, Once
<1> QED BY <1>1, RemovedLeft

LEMMA MergeMoves ==
  ASSUME TypeOK, Once, Senders, MergeMiss, NEW x, x = ThisTag
  PROVE  /\ Left(inflight_tag_check, inflight_tag_check', x) /\ WasAt(inflight_tag_check, x)
         /\ Single(inflight_tag_check', Instr) /\ Came(MSHR, MSHR', x) /\ Single(MSHR', Instr)
         /\ returned' = returned
<1>1. at <= last /\ Finish /\ returned' = returned
  BY DEF MergeMiss, Checking
<1>2. /\ Left(inflight_tag_check, inflight_tag_check', x) /\ WasAt(inflight_tag_check, x)
      /\ Single(inflight_tag_check', Instr)
  BY <1>1, FinishMoves
<1>3. PICK m : MergesAt(m)
  BY MergeMissIs
<1>4. PICK y : y = MergedMiss(MSHR[m], ToAllocate(ThisTag))
  OBVIOUS
<1>5. PICK D : D = x.instr_depend_on_me
  OBVIOUS
<1>6. /\ y \in Miss /\ MSHR' = [MSHR EXCEPT ![m] = y] /\ m \in 1..Len(MSHR) /\ MSHR \in Seq(Miss)
      /\ y.instr_depend_on_me = MSHR[m].instr_depend_on_me \cup D
      /\ y.address = MSHR[m].address /\ y.address = x.address
  BY <1>1, <1>3, <1>4, <1>5, MergesAtIs DEF TypeOK
<1>7. MSHR' = Changed(MSHR, m, y)
  BY <1>6 DEF Changed
<1>8. MSHR[m].instr_depend_on_me \cup x.instr_depend_on_me = y.instr_depend_on_me
  BY <1>5, <1>6
<1>9. Came(MSHR, MSHR', x)
  BY <1>6, <1>7, <1>8, JoinedCame
<1>10. Single(MSHR, Instr) /\ \A i \in Instr : i \in D => ~In(MSHR, i)
  BY <1>2, <1>5 DEF Once, WasAt
<1>11. Single(MSHR', Instr)
  BY <1>6, <1>10, JoinedSingle DEF Changed
<1> QED BY <1>1, <1>2, <1>9, <1>11

LEMMA ForwardMoves ==
  ASSUME TypeOK, Once, Senders, ForwardMiss, NEW x, x = ThisTag
  PROVE  /\ Left(inflight_tag_check, inflight_tag_check', x) /\ WasAt(inflight_tag_check, x)
         /\ Single(inflight_tag_check', Instr) /\ Came(MSHR, MSHR', x) /\ Single(MSHR', Instr)
         /\ returned' = returned
<1>1. at <= last /\ Finish /\ returned' = returned
  BY DEF ForwardMiss, Checking
<1>2. /\ Left(inflight_tag_check, inflight_tag_check', x) /\ WasAt(inflight_tag_check, x)
      /\ Single(inflight_tag_check', Instr)
  BY <1>1, FinishMoves
<1>3. x \in Packet /\ x \in KnownPacket
  BY <1>1, AnsweredPacket
<1>4. CASE x.skip_fill /\ UNCHANGED MSHR
  <2>1. x.instr_depend_on_me = {}
    BY <1>3, <1>4 DEF KnownPacket, Dropped
  <2> QED BY <1>1, <1>2, <1>4, <2>1 DEF Came, Once
<1>5. CASE MSHR' = Append(MSHR, ToAllocate(x))
  <2> DEFINE y == ToAllocate(x)
  <2>1. /\ MSHR \in Seq(Miss) /\ y \in Miss /\ y.address = x.address
        /\ y.instr_depend_on_me = x.instr_depend_on_me
    BY <1>3, ToAllocateIs DEF TypeOK
  <2>2. MSHR' = Append(MSHR, y)
    BY <1>5
  <2> HIDE DEF y
  <2>3. Came(MSHR, MSHR', y)
    BY <2>1, <2>2, AppendedCame
  <2>4. Came(MSHR, MSHR', x)
    BY <2>1, <2>3 DEF Came
  <2>5. Single(MSHR, Instr) /\ \A i \in Instr : i \in y.instr_depend_on_me => ~In(MSHR, i)
    BY <1>2, <2>1 DEF Once, WasAt
  <2>6. Single(MSHR', Instr)
    BY <2>1, <2>2, <2>5, AppendedSingle
  <2> QED BY <1>1, <1>2, <2>4, <2>6
<1> QED BY <1>4, <1>5 DEF ForwardMiss

\* The requests that are taken: nobody who waits already is among them.
LEMMA WaitingIs ==
  ASSUME TypeOK, NEW i \in Instr
  PROVE  i \in Waiting <=>
           In(inflight_tag_check, i) \/ In(MSHR, i) \/ \E u \in Upper : In(returned[u], i)
<1>1. i \in WaitingAt(ToSet(inflight_tag_check)) <=> In(inflight_tag_check, i)
  <2>1. inflight_tag_check \in Seq(Packet)
    BY DEF TypeOK
  <2> QED BY <2>1, Entries DEF WaitingAt, ToSet, In
<1>2. i \in WaitingAt(ToSet(MSHR)) <=> In(MSHR, i)
  <2>1. MSHR \in Seq(Miss)
    BY DEF TypeOK
  <2> QED BY <2>1, Entries DEF WaitingAt, ToSet, In
<1>3. ASSUME NEW u \in Upper
      PROVE  i \in WaitingAt(ToSet(returned[u])) <=> In(returned[u], i)
  <2>1. returned[u] \in Seq(Response)
    BY DEF TypeOK
  <2> QED BY <2>1, Entries DEF WaitingAt, ToSet, In
<1> HIDE DEF WaitingAt
<1> QED BY <1>1, <1>2, <1>3 DEF Waiting

LEMMA TakeMoves ==
  ASSUME TypeOK, Once, NEW u \in Upper, NEW t \in AccessType, NEW b \in Block, NEW D \in SUBSET Instr,
         TakeFromAbove(u, t, b, D), NEW x, x = FromAbove(u, t, b, D)
  PROVE  /\ Came(inflight_tag_check, inflight_tag_check', x) /\ Single(inflight_tag_check', Instr)
         /\ x.address = b /\ x.instr_depend_on_me = D
         /\ \A i \in D : ~In(inflight_tag_check, i) /\ ~In(MSHR, i) /\ ~In(returned[SenderOf[i]], i)
         /\ MSHR' = MSHR /\ returned' = returned
<1>1. x \in Packet /\ x.address = b /\ x.instr_depend_on_me = D
  BY DEF FromAbove, Packet
<1>2. /\ inflight_tag_check' = Append(inflight_tag_check, x) /\ MSHR' = MSHR /\ returned' = returned
      /\ D \cap Waiting = {} /\ inflight_tag_check \in Seq(Packet)
  BY DEF TakeFromAbove, Requests, TypeOK
<1>3. \A i \in D : ~In(inflight_tag_check, i) /\ ~In(MSHR, i) /\ ~In(returned[SenderOf[i]], i)
  <2> SUFFICES ASSUME NEW i \in D
               PROVE  ~In(inflight_tag_check, i) /\ ~In(MSHR, i) /\ ~In(returned[SenderOf[i]], i)
    OBVIOUS
  <2>1. i \in Instr /\ SenderOf[i] \in Upper /\ i \notin Waiting
    BY <1>2
  <2> QED BY <2>1, WaitingIs
<1>4. Came(inflight_tag_check, inflight_tag_check', x)
  BY <1>1, <1>2, AppendedCame
<1>5. /\ Single(inflight_tag_check, Instr)
      /\ \A i \in Instr : i \in x.instr_depend_on_me => ~In(inflight_tag_check, i)
  BY <1>1, <1>3 DEF Once
<1>6. Single(inflight_tag_check', Instr)
  BY <1>1, <1>2, <1>5, AppendedSingle
<1> QED BY <1>1, <1>2, <1>3, <1>4, <1>6

\* A prefetch of the cache itself: nobody waits for it.
LEMMA PrefetchMoves ==
  ASSUME TypeOK, Once, Senders, TakeFromInternalPQ
  PROVE  /\ \A i \in Instr : /\ In(inflight_tag_check', i) <=> In(inflight_tag_check, i)
                             /\ \A b : Asks(inflight_tag_check', i, b) <=> Asks(inflight_tag_check, i, b)
         /\ Single(inflight_tag_check', Instr) /\ MSHR' = MSHR /\ returned' = returned
<1>1. PICK x : x = Head(internal_PQ)
  OBVIOUS
<1>2. x \in Packet /\ x.instr_depend_on_me = {}
  <2>1. x \in Unattended(Packet)
    BY <1>1, Taken DEF TakeFromInternalPQ, Senders
  <2> QED BY <2>1 DEF Unattended
<1>3. PICK q, r : q = inflight_tag_check /\ r = inflight_tag_check'
  OBVIOUS
<1>4. q \in Seq(Packet) /\ r = Append(q, x) /\ Single(q, Instr)
  BY <1>1, <1>3 DEF TakeFromInternalPQ, TypeOK, Once
<1>5. \A i : In(r, i) <=> In(q, i) \/ i \in x.instr_depend_on_me
  BY <1>2, <1>4, AppendedIds
<1>6. \A i, c : Asks(r, i, c) <=> Asks(q, i, c) \/ (i \in x.instr_depend_on_me /\ c = x.address)
  BY <1>2, <1>4, AppendedIds
<1>7. Single(r, Instr)
  <2>1. \A i \in Instr : i \in x.instr_depend_on_me => ~In(q, i)
    BY <1>2
  <2> QED BY <1>2, <1>4, <2>1, AppendedSingle
<1> QED BY <1>2, <1>3, <1>5, <1>6, <1>7 DEF TakeFromInternalPQ

LEMMA PickUpMoves ==
  ASSUME TypeOK, Once, NEW u \in Upper, PickUp(u), NEW x, x = Head(returned[u])
  PROVE  /\ \A v \in Upper : Single(returned'[v], SentBy(v))
         /\ \A i \in Instr :
              /\ In(returned'[SenderOf[i]], i) <=>
                   In(returned[SenderOf[i]], i) /\ ~(SenderOf[i] = u /\ i \in x.instr_depend_on_me)
              /\ \A b : Asks(returned'[SenderOf[i]], i, b) <=>
                   Asks(returned[SenderOf[i]], i, b) /\ ~(SenderOf[i] = u /\ i \in x.instr_depend_on_me)
         /\ \A i \in Instr : SenderOf[i] = u /\ i \in x.instr_depend_on_me =>
              \A b : Asks(returned[SenderOf[i]], i, b) <=> b = x.address
         /\ UNCHANGED <<inflight_tag_check, MSHR>>
<1>1. PICK q, r : q = returned[u] /\ r = Tail(q)
  OBVIOUS
<1>2. /\ q \in Seq(Response) /\ q # <<>> /\ Single(q, SentBy(u))
      /\ returned'[u] = r /\ \A v \in Upper : v # u => returned'[v] = returned[v]
  BY <1>1 DEF PickUp, TypeOK, Once
<1>3. r = RemoveAt(q, 1) /\ x = q[1] /\ 1 \in 1..Len(q)
  BY <1>1, <1>2, Taken
<1>4. /\ \A i \in SentBy(u) : In(r, i) <=> In(q, i) /\ i \notin x.instr_depend_on_me
      /\ \A i \in SentBy(u) : \A b : Asks(r, i, b) <=> Asks(q, i, b) /\ i \notin x.instr_depend_on_me
      /\ \A i \in SentBy(u) : i \in x.instr_depend_on_me => \A b : Asks(q, i, b) <=> b = x.address
      /\ Single(r, SentBy(u))
  BY <1>2, <1>3, RemovedIds
<1>5. \A v \in Upper : Single(returned'[v], SentBy(v))
  BY <1>2, <1>4 DEF Once
<1>6. ASSUME NEW i \in Instr
      PROVE  /\ In(returned'[SenderOf[i]], i) <=>
                  In(returned[SenderOf[i]], i) /\ ~(SenderOf[i] = u /\ i \in x.instr_depend_on_me)
             /\ \A b : Asks(returned'[SenderOf[i]], i, b) <=>
                  Asks(returned[SenderOf[i]], i, b) /\ ~(SenderOf[i] = u /\ i \in x.instr_depend_on_me)
             /\ SenderOf[i] = u /\ i \in x.instr_depend_on_me =>
                  \A b : Asks(returned[SenderOf[i]], i, b) <=> b = x.address
  <2>1. CASE SenderOf[i] = u
    <3>1. i \in SentBy(u)
      BY <2>1 DEF SentBy
    <3> QED BY <1>1, <1>2, <1>4, <2>1, <3>1
  <2>2. CASE SenderOf[i] # u
    <3>1. SenderOf[i] \in Upper
      OBVIOUS
    <3> QED BY <1>2, <2>2, <3>1
  <2> QED BY <2>1, <2>2
<1>7. UNCHANGED <<inflight_tag_check, MSHR>>
  BY DEF PickUp, queues
<1> QED BY <1>5, <1>6, <1>7

LEMMA ExchangeMoves ==
  ASSUME TypeOK, Once, FinishPacket
  PROVE  /\ \A i : In(MSHR', i) <=> In(MSHR, i)
         /\ \A i, b : Asks(MSHR', i, b) <=> Asks(MSHR, i, b)
         /\ Single(MSHR', Instr) /\ UNCHANGED <<inflight_tag_check, returned>>
<1>1. PICK m \in 1..Len(MSHR), f \in 1..Len(MSHR) : MSHR' = Exchanged(MSHR, m, f)
  BY MissOfIs, UnreturnedIs DEF FinishPacket, Exchanged, Known
<1>2. MSHR \in Seq(Miss) /\ Single(MSHR, Instr)
  BY DEF TypeOK, Once
<1>3. /\ \A i : In(MSHR', i) <=> In(MSHR, i)
      /\ \A i, b : Asks(MSHR', i, b) <=> Asks(MSHR, i, b)
      /\ \A S : Single(MSHR, S) => Single(MSHR', S)
  BY <1>1, <1>2, TradedIds
<1> QED BY <1>2, <1>3 DEF FinishPacket

LEMMA OnceKept ==
  ASSUME TypeOK, Once, Senders, [Next]_vars
  PROVE  Once'
<1> DEFINE Apart1(i) == ~(In(inflight_tag_check', i) /\ In(MSHR', i))
           Apart2(i) == ~(In(inflight_tag_check', i) /\ In(returned'[SenderOf[i]], i))
           Apart3(i) == ~(In(MSHR', i) /\ In(returned'[SenderOf[i]], i))
           Good == /\ Single(inflight_tag_check', Instr) /\ Single(MSHR', Instr)
                   /\ \A u \in Upper : Single(returned'[u], SentBy(u))
                   /\ \A i \in Instr : Apart1(i) /\ Apart2(i) /\ Apart3(i)
<1>1. SUFFICES Good
  BY DEF Once, Single, In, SentBy
<1>2. /\ Single(inflight_tag_check, Instr) /\ Single(MSHR, Instr)
      /\ \A u \in Upper : Single(returned[u], SentBy(u))
      /\ \A i \in Instr : /\ ~(In(inflight_tag_check, i) /\ In(MSHR, i))
                          /\ ~(In(inflight_tag_check, i) /\ In(returned[SenderOf[i]], i))
                          /\ ~(In(MSHR, i) /\ In(returned[SenderOf[i]], i))
  BY DEF Once
<1>3. CASE UNCHANGED <<inflight_tag_check, MSHR, returned>>
  BY <1>2, <1>3
<1>4. ASSUME NEW u \in Upper, PickUp(u)
      PROVE  Good
  <2>1. PICK x : x = Head(returned[u])
    OBVIOUS
  <2>2. /\ \A v \in Upper : Single(returned'[v], SentBy(v))
        /\ \A i \in Instr : In(returned'[SenderOf[i]], i) => In(returned[SenderOf[i]], i)
        /\ UNCHANGED <<inflight_tag_check, MSHR>>
    BY <1>4, <2>1, PickUpMoves
  <2> QED BY <1>2, <2>2
<1>5. ASSUME NEW u \in Upper, NEW t \in AccessType, NEW b \in Block, NEW D \in SUBSET Instr,
             TakeFromAbove(u, t, b, D)
      PROVE  Good
  <2>1. PICK x : x = FromAbove(u, t, b, D)
    OBVIOUS
  <2>2. /\ Came(inflight_tag_check, inflight_tag_check', x) /\ Single(inflight_tag_check', Instr)
        /\ x.instr_depend_on_me = D
        /\ \A i \in D : ~In(inflight_tag_check, i) /\ ~In(MSHR, i) /\ ~In(returned[SenderOf[i]], i)
        /\ MSHR' = MSHR /\ returned' = returned
    BY <1>5, <2>1, TakeMoves
  <2> QED BY <1>2, <2>2 DEF Came
<1>6. CASE TakeFromInternalPQ
  <2>1. /\ \A i \in Instr : In(inflight_tag_check', i) <=> In(inflight_tag_check, i)
        /\ Single(inflight_tag_check', Instr) /\ MSHR' = MSHR /\ returned' = returned
    BY <1>6, PrefetchMoves
  <2> QED BY <1>2, <2>1
<1>7. CASE FinishPacket
  <2>1. /\ \A i : In(MSHR', i) <=> In(MSHR, i)
        /\ Single(MSHR', Instr) /\ UNCHANGED <<inflight_tag_check, returned>>
    BY <1>7, ExchangeMoves
  <2> QED BY <1>2, <2>1
<1>8. CASE FillFromMSHR
  <2>1. PICK x : x = Head(MSHR)
    OBVIOUS
  <2>2. /\ Left(MSHR, MSHR', x) /\ WasAt(MSHR, x) /\ Single(MSHR', Instr) /\ AnsweredAt(x)
        /\ inflight_tag_check' = inflight_tag_check
    BY <1>8, <2>1, FillMoves
  <2> QED BY <1>2, <2>2 DEF Left, WasAt, AnsweredAt
<1>9. CASE FillFromWrites
  <2>1. PICK x : x = Head(inflight_writes)
    OBVIOUS
  <2>2. /\ x.instr_depend_on_me = {} /\ AnsweredAt(x)
        /\ inflight_tag_check' = inflight_tag_check /\ MSHR' = MSHR
    BY <1>9, <2>1, WriteMoves
  <2> QED BY <1>2, <2>2 DEF AnsweredAt
<1>10. CASE Hit
  <2>1. PICK x : x = ThisTag
    OBVIOUS
  <2>2. /\ Left(inflight_tag_check, inflight_tag_check', x) /\ WasAt(inflight_tag_check, x)
        /\ Single(inflight_tag_check', Instr) /\ AnsweredAt(x) /\ MSHR' = MSHR
    BY <1>10, <2>1, HitMoves
  <2> QED BY <1>2, <2>2 DEF Left, WasAt, AnsweredAt
<1>11. CASE HandleWrite
  <2>1. PICK x : x = ThisTag
    OBVIOUS
  <2>2. at <= last /\ Finish /\ MSHR' = MSHR /\ returned' = returned
    BY <1>11 DEF HandleWrite, Checking
  <2>3. Left(inflight_tag_check, inflight_tag_check', x) /\ Single(inflight_tag_check', Instr)
    BY <2>1, <2>2, FinishMoves
  <2> QED BY <1>2, <2>2, <2>3 DEF Left
<1>12. ASSUME MergeMiss \/ ForwardMiss
       PROVE  Good
  <2>1. PICK x : x = ThisTag
    OBVIOUS
  <2>2. /\ Left(inflight_tag_check, inflight_tag_check', x) /\ WasAt(inflight_tag_check, x)
        /\ Single(inflight_tag_check', Instr) /\ Came(MSHR, MSHR', x) /\ Single(MSHR', Instr)
        /\ returned' = returned
    BY <1>12, <2>1, MergeMoves, ForwardMoves
  <2> QED BY <1>2, <2>2 DEF Left, WasAt, Came
<1> HIDE DEF Good
<1>13. CASE UNCHANGED vars
  BY <1>3, <1>13 DEF vars
<1>14. CASE (\E b \in Block, skip \in BOOLEAN : PrefetchLine(b, skip)) \/ \E b \in Block : LowerAnswers(b)
  BY <1>3, <1>14 DEF PrefetchLine, LowerAnswers, queues
<1>15. CASE BeginCycle \/ EndReturns \/ EndFills \/ EndWrites
            \/ RefuseFillFromMSHR \/ RefuseFillFromWrites
            \/ \E n \in 0..Len(inflight_tag_check) : BeginTagChecks(n)
  BY <1>3, <1>15 DEF BeginCycle, EndReturns, EndFills, EndWrites,
       RefuseFillFromMSHR, RefuseFillFromWrites, RefuseFill, BeginTagChecks, queues
<1>16. CASE NoHit \/ EndHits \/ RefuseMiss \/ EndCycle
  BY <1>3, <1>16 DEF NoHit, EndHits, RefuseMiss, EndCycle, queues
<1> QED BY <1>4, <1>5, <1>6, <1>7, <1>8, <1>9, <1>10, <1>11, <1>12, <1>13, <1>14, <1>15, <1>16
        DEF Next, Environment, Arrive, Operate

-----------------------------------------------------------------------------
(* Every step of the cache keeps the invariant *)

LEMMA InitInv == Init => Inv
<1> SUFFICES ASSUME Init PROVE Inv
  OBVIOUS
<1>1. /\ \A S : <<>> \in Seq(S)
      /\ Len(<<>>) = 0 /\ ToSet(<<>>) = {}
  BY EmptySeq DEF ToSet
<1>2. TypeOK
  <2>1. block \in [SetIndex -> [Way -> Line]]
    BY DEF Init, Invalid, Line
  <2> QED BY <1>1, <2>1 DEF Init, TypeOK
<1>3. EveryAnswerHasItsMiss /\ AnsweredMissesFirst
  BY <1>1 DEF Init, EveryAnswerHasItsMiss, AnsweredMissesFirst
<1>4. Once
  <2>1. \A S : Single(<<>>, S)
    BY <1>1 DEF Single
  <2>2. \A i : ~In(<<>>, i)
    BY <1>1 DEF In
  <2> QED BY <2>1, <2>2 DEF Init, Once
<1>5. Senders
  BY <1>1 DEF Init, Senders
<1>6. Lines
  <2>1. NoBlockTwice
    <3>1. \A s \in SetIndex : \A v \in Way : block[s][v].address = NoBlock
      BY DEF Init, Invalid
    <3>2. \A i \in 1..Len(MSHR) : FALSE
      BY <1>1 DEF Init
    <3> QED BY <3>1, <3>2 DEF NoBlockTwice
  <2> QED BY <2>1 DEF Init, Lines
<1> QED BY <1>2, <1>3, <1>4, <1>5, <1>6 DEF Inv

LEMMA NextInv == Inv /\ [Next]_vars => Inv'
<1> SUFFICES ASSUME Inv, [Next]_vars PROVE Inv'
  OBVIOUS
<1>1. TypeOK /\ EveryAnswerHasItsMiss /\ AnsweredMissesFirst /\ Once /\ Senders /\ Lines
  BY DEF Inv
<1>2. TypeOK' /\ EveryAnswerHasItsMiss' /\ AnsweredMissesFirst'
  BY <1>1, TypesKept, MissesKept
<1>3. Once' /\ Senders'
  BY <1>1, OnceKept, SendersKept
<1>4. Lines'
  BY <1>1, LinesKept
<1> QED BY <1>2, <1>3, <1>4 DEF Inv

\* The inductive invariant holds in every state.
THEOREM Invariance == Spec => []Inv
<1>1. Init => Inv
  BY InitInv
<1>2. Inv /\ [Next]_vars => Inv'
  BY NextInv
<1> QED BY <1>1, <1>2, PTL DEF Spec

\* Answers find their miss: there is one for every block that the level below owes,
\* it waits, and those that were answered come first (finish_packet and handle_fill,
\* cache.cc:107-133, 169-248, 610-633).
THEOREM AnswersFindTheirMiss == Spec => []MissesMatchAnswers
<1>1. Inv => MissesMatchAnswers
  BY DEF Inv, MissesMatchAnswers
<1> QED BY <1>1, Invariance, PTL

\* In a cache of stores a block is in one way at most, and in none while a miss waits
\* for it: what did not hit is still not there when it is made a miss
\* (operate, try_hit and handle_miss, cache.cc:250-372, 500-514).
THEOREM StoreCachesHoldOneCopy == match_offset_bits => (Spec => []NoBlockTwice)
<1> SUFFICES ASSUME match_offset_bits PROVE Spec => []NoBlockTwice
  OBVIOUS
<1>1. Inv => NoBlockTwice
  BY DEF Inv, Lines
<1> QED BY <1>1, Invariance, PTL

-----------------------------------------------------------------------------
(* The cache answers everyone, as RequestReply says *)

\* Pending and Answered, of the tag checks t, the misses q and the channels r.
PendingAt(t, q) ==
  {w \in Instr \X Block \X {TRUE} : Asks(t, w[1], w[2]) \/ Asks(q, w[1], w[2])}

AnsweredIn(r) == {w \in Instr \X Block : Asks(r[SenderOf[w[1]]], w[1], w[2])}

LEMMA Triples ==
  ASSUME NEW A, NEW B, NEW T
  PROVE  /\ \A w \in A \X B \X {T} : w = <<w[1], w[2], T>> /\ w[1] \in A /\ w[2] \in B
         /\ \A i, b : <<i, b, T>> \in A \X B \X {T} <=> i \in A /\ b \in B
         /\ \A i, b, j, c : <<i, b, T>> = <<j, c, T>> <=> i = j /\ b = c
OBVIOUS

LEMMA Tokened ==
  /\ \A w \in Instr \X Block \X {TRUE} : w = <<w[1], w[2], TRUE>> /\ w[1] \in Instr /\ w[2] \in Block
  /\ \A i \in Instr, b \in Block : <<i, b, TRUE>> \in Instr \X Block \X {TRUE}
  /\ \A i, b, j, c : <<i, b, TRUE>> = <<j, c, TRUE>> <=> i = j /\ b = c
<1>1. PICK T : T = TRUE
  OBVIOUS
<1>2. /\ \A w \in Instr \X Block \X {T} : w = <<w[1], w[2], T>> /\ w[1] \in Instr /\ w[2] \in Block
      /\ \A i, b : <<i, b, T>> \in Instr \X Block \X {T} <=> i \in Instr /\ b \in Block
      /\ \A i, b, j, c : <<i, b, T>> = <<j, c, T>> <=> i = j /\ b = c
  BY Triples
<1> QED BY <1>1, <1>2

LEMMA TokensAre ==
  ASSUME NEW x, Answerable(x), Knows(x)
  PROVE  /\ Tokens(x) \subseteq Instr \X Block \X {TRUE}
         /\ \A i \in Instr, b \in Block : <<i, b, TRUE>> \in Tokens(x) <=> i \in x.instr_depend_on_me /\ b = x.address
<1> DEFINE token(i, b) == <<i, b, TRUE>>
           All == Instr \X Block \X {TRUE}
<1>1. /\ \A i \in Instr, b \in Block : token(i, b) \in All
      /\ \A i, b, j, c : token(i, b) = token(j, c) <=> i = j /\ b = c
  BY Tokened
<1>2. Tokens(x) = {token(i, x.address) : i \in {j \in x.instr_depend_on_me : SenderOf[j] \in x.to_return}}
  BY DEF Tokens
<1> HIDE DEF token, All
<1>3. \A w : w \in Tokens(x) <=> \E i \in x.instr_depend_on_me : w = token(i, x.address)
  BY <1>2 DEF Knows
<1>4. x.address \in Block /\ x.instr_depend_on_me \subseteq Instr
  BY DEF Answerable
<1>5. Tokens(x) \subseteq All
  BY <1>1, <1>3, <1>4
<1>6. \A i \in Instr, b \in Block : token(i, b) \in Tokens(x) <=> i \in x.instr_depend_on_me /\ b = x.address
  BY <1>1, <1>3
<1> QED BY <1>5, <1>6 DEF token, All

LEMMA PendingIs == Inv => Pending = PendingAt(inflight_tag_check, MSHR)
<1> SUFFICES ASSUME Inv PROVE Pending = PendingAt(inflight_tag_check, MSHR)
  OBVIOUS
<1> DEFINE X == ToSet(inflight_tag_check) \cup ToSet(MSHR)
<1>1. /\ inflight_tag_check \in Seq(KnownPacket) /\ MSHR \in Seq(KnownMiss)
  BY DEF Inv, Senders
<1>2. \A x : x \in X <=> (\E k \in 1..Len(inflight_tag_check) : inflight_tag_check[k] = x)
                         \/ (\E k \in 1..Len(MSHR) : MSHR[k] = x)
  BY <1>1, Entries DEF ToSet
<1>3. ASSUME NEW x \in X
      PROVE  Answerable(x) /\ Knows(x)
  <2>1. /\ \A k \in 1..Len(inflight_tag_check) : inflight_tag_check[k] \in KnownPacket
        /\ \A k \in 1..Len(MSHR) : MSHR[k] \in KnownMiss
    BY <1>1, Entries
  <2>2. x \in KnownPacket \/ x \in KnownMiss
    BY <1>2, <2>1
  <2> QED BY <2>2 DEF KnownPacket, KnownMiss, Packet, Miss, Answerable
<1> HIDE DEF X
<1>4. ASSUME NEW w
      PROVE  w \in Pending <=> \E x \in X : w \in Tokens(x)
  BY DEF Pending, X
<1>5. Pending \subseteq Instr \X Block \X {TRUE}
  BY <1>3, <1>4, TokensAre
<1>6. ASSUME NEW i \in Instr, NEW b \in Block
      PROVE  <<i, b, TRUE>> \in Pending <=> Asks(inflight_tag_check, i, b) \/ Asks(MSHR, i, b)
  <2>1. <<i, b, TRUE>> \in Pending <=> \E x \in X : i \in x.instr_depend_on_me /\ b = x.address
    BY <1>3, <1>4, TokensAre
  <2> QED BY <1>2, <2>1 DEF Asks
<1>7. ASSUME NEW w \in Instr \X Block \X {TRUE}
      PROVE  w \in Pending <=> w \in PendingAt(inflight_tag_check, MSHR)
  <2>1. w = <<w[1], w[2], TRUE>> /\ w[1] \in Instr /\ w[2] \in Block
    BY Tokened
  <2>2. w \in Pending <=> Asks(inflight_tag_check, w[1], w[2]) \/ Asks(MSHR, w[1], w[2])
    <3>1. <<w[1], w[2], TRUE>> \in Pending <=> Asks(inflight_tag_check, w[1], w[2]) \/ Asks(MSHR, w[1], w[2])
      BY <1>6, <2>1
    <3> QED BY <2>1, <3>1, Zenon
  <2> QED BY <2>2 DEF PendingAt
<1> QED BY <1>5, <1>7 DEF PendingAt

LEMMA AnsweredIs == Inv => Answered = AnsweredIn(returned)
<1> SUFFICES ASSUME Inv PROVE Answered = AnsweredIn(returned)
  OBVIOUS
<1>1. \A u \in Upper : returned[u] \in Seq(Response)
  BY DEF Inv, TypeOK
<1>2. ASSUME NEW u \in Upper, NEW x
      PROVE  x \in ToSet(returned[u]) <=> \E k \in 1..Len(returned[u]) : returned[u][k] = x
  BY <1>1, Entries DEF ToSet
<1>3. ASSUME NEW w
      PROVE  w \in Answered <=> \E u \in Upper : \E x \in ToSet(returned[u]) :
               \E i \in x.instr_depend_on_me : SenderOf[i] = u /\ w = <<i, x.address>>
  BY DEF Answered
<1>4. ASSUME NEW u \in Upper, NEW x \in ToSet(returned[u])
      PROVE  x.address \in Block /\ x.instr_depend_on_me \subseteq Instr
  <2>1. PICK q : q = returned[u] /\ q \in Seq(Response)
    BY <1>1
  <2>2. x \in Response
    <3>1. \A k \in 1..Len(q) : q[k] \in Response
      BY <2>1, Entries
    <3> QED BY <1>2, <2>1, <3>1
  <2> QED BY <2>2 DEF Response
<1>5. Answered \subseteq Instr \X Block
  BY <1>3, <1>4
<1>6. ASSUME NEW i \in Instr, NEW b \in Block
      PROVE  <<i, b>> \in Answered <=> Asks(returned[SenderOf[i]], i, b)
  <2>1. SenderOf[i] \in Upper
    OBVIOUS
  <2>2. <<i, b>> \in Answered <=> \E x \in ToSet(returned[SenderOf[i]]) : i \in x.instr_depend_on_me /\ b = x.address
    BY <1>3, <2>1
  <2>3. \A x : x \in ToSet(returned[SenderOf[i]]) <=>
              \E k \in 1..Len(returned[SenderOf[i]]) : returned[SenderOf[i]][k] = x
    BY <1>2, <2>1
  <2> QED BY <2>2, <2>3 DEF Asks
<1>7. ASSUME NEW w \in Instr \X Block
      PROVE  w \in Answered <=> w \in AnsweredIn(returned)
  <2>1. w = <<w[1], w[2]>> /\ w[1] \in Instr /\ w[2] \in Block
    OBVIOUS
  <2>2. w \in Answered <=> Asks(returned[SenderOf[w[1]]], w[1], w[2])
    BY <1>6, <2>1
  <2> QED BY <2>2 DEF AnsweredIn
<1> QED BY <1>5, <1>7 DEF AnsweredIn

\* Sets that hold the same ids and blocks.
LEMMA SameTokens ==
  ASSUME NEW t, NEW q, NEW t2, NEW q2,
         \A i \in Instr, b \in Block : Asks(t2, i, b) \/ Asks(q2, i, b) <=> Asks(t, i, b) \/ Asks(q, i, b)
  PROVE  PendingAt(t2, q2) = PendingAt(t, q)
BY DEF PendingAt

LEMMA SameAnswers ==
  ASSUME NEW r, NEW r2,
         \A i \in Instr, b \in Block : Asks(r2[SenderOf[i]], i, b) <=> Asks(r[SenderOf[i]], i, b)
  PROVE  AnsweredIn(r2) = AnsweredIn(r)
BY DEF AnsweredIn

\* Those of D ask for b: they are in neither set.
TokensOf(D, b) == D \X {b} \X {TRUE}

AskedBy(D, b, t, t2) == \A i \in Instr : \A c : Asks(t2, i, c) <=> Asks(t, i, c) \/ (i \in D /\ c = b)

LEMMA AsksMore ==
  ASSUME NEW D \in SUBSET Instr, NEW b \in Block, NEW t, NEW q, NEW t2, AskedBy(D, b, t, t2)
  PROVE  PendingAt(t2, q) = PendingAt(t, q) \cup TokensOf(D, b)
<1>1. PICK T : T = TRUE
  OBVIOUS
<1> DEFINE All == Instr \X Block \X {T}
           New == D \X {b} \X {T}
<1>2. New \subseteq All /\ \A w \in All : w \in New <=> w[1] \in D /\ w[2] = b
  OBVIOUS
<1>3. \A w \in All : w[1] \in Instr /\ w[2] \in Block
  OBVIOUS
<1>4. /\ PendingAt(t2, q) = {w \in All : Asks(t2, w[1], w[2]) \/ Asks(q, w[1], w[2])}
      /\ PendingAt(t, q) = {w \in All : Asks(t, w[1], w[2]) \/ Asks(q, w[1], w[2])}
  BY <1>1 DEF PendingAt
<1> HIDE DEF All, New
<1>5. PendingAt(t2, q) = PendingAt(t, q) \cup New
  BY <1>2, <1>3, <1>4 DEF AskedBy
<1> QED BY <1>1, <1>5 DEF New, TokensOf

\* Those that wait at x are answered.
AnsweredBy(x, t, q) == {w \in PendingAt(t, q) : w[1] \in x.instr_depend_on_me}

\* They all leave; they are all that waited there; they are all that is answered.
LeftBoth(x, t, q, t2, q2) ==
  \A i \in Instr, b \in Block :
    Asks(t2, i, b) \/ Asks(q2, i, b) <=> (Asks(t, i, b) \/ Asks(q, i, b)) /\ i \notin x.instr_depend_on_me

WereAtEither(x, t, q) ==
  \A i \in Instr, b \in Block : i \in x.instr_depend_on_me => (Asks(t, i, b) \/ Asks(q, i, b) <=> b = x.address)

AreAnswered(x, r, r2) ==
  \A i \in Instr, b \in Block : Asks(r2[SenderOf[i]], i, b) <=>
    Asks(r[SenderOf[i]], i, b) \/ (i \in x.instr_depend_on_me /\ b = x.address)

LEMMA AnswersMore ==
  ASSUME NEW x, Answerable(x), NEW t, NEW q, NEW t2, NEW q2, NEW r, NEW r2,
         LeftBoth(x, t, q, t2, q2), WereAtEither(x, t, q), AreAnswered(x, r, r2)
  PROVE  /\ PendingAt(t2, q2) = PendingAt(t, q) \ AnsweredBy(x, t, q)
         /\ AnsweredIn(r2) = AnsweredIn(r) \cup {<<w[1], w[2]>> : w \in AnsweredBy(x, t, q)}
<1> DEFINE All == Instr \X Block \X {TRUE}
<1>0. \A w \in All : w[1] \in Instr /\ w[2] \in Block
  BY Tokened
<1>1. PendingAt(t2, q2) = PendingAt(t, q) \ AnsweredBy(x, t, q)
  <2>1. /\ PendingAt(t2, q2) = {w \in All : Asks(t2, w[1], w[2]) \/ Asks(q2, w[1], w[2])}
        /\ PendingAt(t, q) = {w \in All : Asks(t, w[1], w[2]) \/ Asks(q, w[1], w[2])}
    BY DEF PendingAt
  <2> HIDE DEF All
  <2> QED BY <1>0, <2>1 DEF AnsweredBy, LeftBoth
<1>2. AnsweredIn(r2) = AnsweredIn(r) \cup {<<w[1], w[2]>> : w \in AnsweredBy(x, t, q)}
  <2> DEFINE New == {<<w[1], w[2]>> : w \in AnsweredBy(x, t, q)}
  <2>1. New \subseteq Instr \X Block
    <3>1. \A w \in AnsweredBy(x, t, q) : w[1] \in Instr /\ w[2] \in Block
      BY <1>0 DEF AnsweredBy, PendingAt
    <3>2. \A w \in AnsweredBy(x, t, q) : <<w[1], w[2]>> \in Instr \X Block
      BY <3>1
    <3> QED BY <3>2
  <2>2. ASSUME NEW i \in Instr, NEW b \in Block
        PROVE  <<i, b>> \in New <=> i \in x.instr_depend_on_me /\ b = x.address
    <3>1. ASSUME <<i, b>> \in New
          PROVE  i \in x.instr_depend_on_me /\ b = x.address
      <4>1. PICK w \in AnsweredBy(x, t, q) : <<i, b>> = <<w[1], w[2]>>
        BY <3>1
      <4>2. w[1] = i /\ w[2] = b /\ i \in x.instr_depend_on_me /\ (Asks(t, i, b) \/ Asks(q, i, b))
        BY <4>1 DEF AnsweredBy, PendingAt
      <4> QED BY <4>2 DEF WereAtEither
    <3>2. ASSUME i \in x.instr_depend_on_me, b = x.address
          PROVE  <<i, b>> \in New
      <4>1. <<i, b, TRUE>> \in AnsweredBy(x, t, q)
        BY <3>2 DEF AnsweredBy, PendingAt, WereAtEither
      <4> QED BY <4>1
    <3> QED BY <3>1, <3>2
  <2> HIDE DEF New
  <2>3. ASSUME NEW w \in Instr \X Block
        PROVE  w \in AnsweredIn(r2) <=> w \in AnsweredIn(r) \cup New
    <3>1. w = <<w[1], w[2]>> /\ w[1] \in Instr /\ w[2] \in Block
      OBVIOUS
    <3>2. w \in New <=> w[1] \in x.instr_depend_on_me /\ w[2] = x.address
      BY <2>2, <3>1
    <3>3. /\ w \in AnsweredIn(r2) <=> Asks(r2[SenderOf[w[1]]], w[1], w[2])
          /\ w \in AnsweredIn(r) <=> Asks(r[SenderOf[w[1]]], w[1], w[2])
      BY DEF AnsweredIn
    <3> QED BY <3>1, <3>2, <3>3 DEF AreAnswered
  <2>4. AnsweredIn(r2) = AnsweredIn(r) \cup New
    BY <2>1, <2>3 DEF AnsweredIn
  <2> QED BY <2>4 DEF New
<1> QED BY <1>1, <1>2

\* What the abstract specification sees of a step.
Stutters == UNCHANGED <<Pending, Answered>>

LEMMA AnswerStep ==
  ASSUME NEW S \in SUBSET Pending, Pending' = Pending \ S,
         Answered' = Answered \cup {<<w[1], w[2]>> : w \in S}
  PROVE  [Answers!Next]_(Answers!abstractVars)
<1>1. Answers!Answer(S)
  BY DEF Answers!Answer
<1> QED BY <1>1 DEF Answers!Next

LEMMA AskStep ==
  ASSUME NEW D \in SUBSET Instr, NEW b \in Block,
         \A w \in Pending : w[1] \notin D, \A w \in Answered : w[1] \notin D,
         Pending' = Pending \cup (D \X {b} \X {TRUE}), Answered' = Answered
  PROVE  [Answers!Next]_(Answers!abstractVars)
<1>1. Answers!Ask(D, b, TRUE)
  BY DEF Answers!Ask
<1> QED BY <1>1 DEF Answers!Next

LEMMA PickUpStep ==
  ASSUME NEW S \in SUBSET Answered, Answered' = Answered \ S, Pending' = Pending
  PROVE  [Answers!Next]_(Answers!abstractVars)
<1>1. Answers!PickUp(S)
  BY DEF Answers!PickUp
<1> QED BY <1>1 DEF Answers!Next

LEMMA StutterStep ==
  ASSUME Stutters
  PROVE  [Answers!Next]_(Answers!abstractVars)
BY DEF Stutters, Answers!abstractVars

LEMMA InitAnswers == Init => Answers!Init
<1> SUFFICES ASSUME Init PROVE Pending = {} /\ Answered = {}
  BY DEF Answers!Init
<1>1. ToSet(<<>>) = {}
  BY DEF ToSet
<1> QED BY <1>1 DEF Init, Pending, Answered

LEMMA NextAnswers == Inv /\ Inv' /\ [Next]_vars => [Answers!Next]_(Answers!abstractVars)
<1> DEFINE Good == [Answers!Next]_(Answers!abstractVars)
           t == inflight_tag_check
           q == MSHR
           r == returned
<1> SUFFICES ASSUME Inv, Inv', [Next]_vars PROVE Good
  OBVIOUS
<1>1. /\ Pending = PendingAt(t, q) /\ Answered = AnsweredIn(r)
      /\ Pending' = PendingAt(t', q') /\ Answered' = AnsweredIn(r')
  <2>1. Pending = PendingAt(inflight_tag_check, MSHR) /\ Answered = AnsweredIn(returned)
    BY PendingIs, AnsweredIs
  <2>2. (Inv => Pending = PendingAt(inflight_tag_check, MSHR))' /\ (Inv => Answered = AnsweredIn(returned))'
    BY PendingIs, AnsweredIs, PTL
  <2>3. Pending' = PendingAt(inflight_tag_check', MSHR') /\ Answered' = AnsweredIn(returned')
    BY <2>2 DEF PendingAt, AnsweredIn, Asks
  <2> QED BY <2>1, <2>3
<1>2. TypeOK /\ Once /\ Senders
  BY DEF Inv
<1>3. \A i \in Instr : \A c : /\ Asks(t, i, c) => In(t, i)
                              /\ Asks(q, i, c) => In(q, i)
                              /\ Asks(r[SenderOf[i]], i, c) => In(r[SenderOf[i]], i)
  BY AsksIn
<1>4. \A i \in Instr : /\ ~(In(t, i) /\ In(q, i))
                       /\ ~(In(t, i) /\ In(r[SenderOf[i]], i))
                       /\ ~(In(q, i) /\ In(r[SenderOf[i]], i))
  BY <1>2 DEF Once
<1> HIDE DEF Good, t, q, r
<1>5. ASSUME \A i \in Instr, b \in Block : Asks(t', i, b) \/ Asks(q', i, b) <=> Asks(t, i, b) \/ Asks(q, i, b),
             \A i \in Instr, b \in Block : Asks(r'[SenderOf[i]], i, b) <=> Asks(r[SenderOf[i]], i, b)
      PROVE  Good
  <2>1. PendingAt(t', q') = PendingAt(t, q) /\ AnsweredIn(r') = AnsweredIn(r)
    BY <1>5, SameTokens, SameAnswers
  <2>2. Stutters
    BY <1>1, <2>1 DEF Stutters
  <2> QED BY <2>2, StutterStep DEF Good
<1>6. ASSUME NEW x, Answerable(x),
             LeftBoth(x, t, q, t', q'), WereAtEither(x, t, q), AreAnswered(x, r, r')
      PROVE  Good
  <2> DEFINE S == AnsweredBy(x, t, q)
  <2>1. /\ PendingAt(t', q') = PendingAt(t, q) \ S
        /\ AnsweredIn(r') = AnsweredIn(r) \cup {<<w[1], w[2]>> : w \in S}
    <3>1. PICK t2, q2, r2 : t2 = t' /\ q2 = q' /\ r2 = r'
      OBVIOUS
    <3>2. LeftBoth(x, t, q, t2, q2) /\ WereAtEither(x, t, q) /\ AreAnswered(x, r, r2)
      BY <1>6, <3>1
    <3>3. /\ PendingAt(t2, q2) = PendingAt(t, q) \ AnsweredBy(x, t, q)
          /\ AnsweredIn(r2) = AnsweredIn(r) \cup {<<w[1], w[2]>> : w \in AnsweredBy(x, t, q)}
      BY <1>6, <3>2, AnswersMore
    <3> QED BY <3>1, <3>3
  <2>2. S \in SUBSET Pending
    BY <1>1 DEF AnsweredBy
  <2> HIDE DEF S
  <2> QED BY <1>1, <2>1, <2>2, AnswerStep DEF Good
<1>7. ASSUME NEW u \in Upper, PickUp(u)
      PROVE  Good
  <2>1. PICK x : x = Head(returned[u])
    OBVIOUS
  <2>2. /\ \A i \in Instr : \A b : Asks(r'[SenderOf[i]], i, b) <=>
             Asks(r[SenderOf[i]], i, b) /\ ~(SenderOf[i] = u /\ i \in x.instr_depend_on_me)
        /\ t' = t /\ q' = q
    BY <1>2, <1>7, <2>1, PickUpMoves DEF r, t, q
  <2> DEFINE S == {w \in AnsweredIn(r) : SenderOf[w[1]] = u /\ w[1] \in x.instr_depend_on_me}
  <2>3. AnsweredIn(r') = AnsweredIn(r) \ S
    BY <2>2 DEF AnsweredIn
  <2>4. S \in SUBSET Answered
    BY <1>1
  <2>5. Answered' = Answered \ S /\ Pending' = Pending
    BY <1>1, <2>2, <2>3
  <2> HIDE DEF S
  <2> QED BY <2>4, <2>5, PickUpStep DEF Good
<1>8. ASSUME NEW u \in Upper, NEW k \in AccessType, NEW b \in Block, NEW D \in SUBSET Instr,
             TakeFromAbove(u, k, b, D)
      PROVE  Good
  <2>1. PICK x : x = FromAbove(u, k, b, D)
    OBVIOUS
  <2>2. /\ Came(t, t', x) /\ x.address = b /\ x.instr_depend_on_me = D
        /\ \A i \in D : ~In(t, i) /\ ~In(q, i) /\ ~In(r[SenderOf[i]], i)
        /\ q' = q /\ r' = r
    BY <1>2, <1>8, <2>1, TakeMoves DEF t, q, r
  <2>3. PendingAt(t', q) = PendingAt(t, q) \cup (D \X {b} \X {TRUE})
    <3>1. \A i \in Instr : \A c : Asks(t', i, c) <=> Asks(t, i, c) \/ (i \in D /\ c = b)
      BY <2>2 DEF Came
    <3>2. PICK t2 : t2 = t'
      OBVIOUS
    <3>3. AskedBy(D, b, t, t2)
      BY <3>1, <3>2 DEF AskedBy
    <3>4. PendingAt(t2, q) = PendingAt(t, q) \cup (D \X {b} \X {TRUE})
      <4>1. PendingAt(t2, q) = PendingAt(t, q) \cup TokensOf(D, b)
        BY <3>3, AsksMore
      <4> QED BY <4>1 DEF TokensOf
    <3> QED BY <3>2, <3>4
  <2>4. Pending' = Pending \cup (D \X {b} \X {TRUE}) /\ Answered' = Answered
    BY <1>1, <2>2, <2>3
  <2>5. \A w \in Pending : w[1] \notin D
    <3>1. \A w \in Pending : Asks(t, w[1], w[2]) \/ Asks(q, w[1], w[2])
      BY <1>1 DEF PendingAt
    <3> QED BY <1>3, <2>2, <3>1
  <2>6. \A w \in Answered : w[1] \notin D
    <3>1. \A w \in Answered : Asks(r[SenderOf[w[1]]], w[1], w[2])
      BY <1>1 DEF AnsweredIn
    <3> QED BY <1>3, <2>2, <3>1
  <2> QED BY <2>4, <2>5, <2>6, AskStep DEF Good
<1>9. CASE TakeFromInternalPQ
  <2>1. /\ \A i \in Instr : \A b : Asks(t', i, b) <=> Asks(t, i, b)
        /\ q' = q /\ r' = r
    BY <1>2, <1>9, PrefetchMoves DEF t, q, r
  <2> QED BY <1>5, <2>1
<1>10. CASE FinishPacket
  <2>1. /\ \A i, b : Asks(q', i, b) <=> Asks(q, i, b)
        /\ t' = t /\ r' = r
    BY <1>2, <1>10, ExchangeMoves DEF t, q, r
  <2> QED BY <1>5, <2>1
<1>11. CASE FillFromMSHR
  <2>1. PICK x : x = Head(MSHR)
    OBVIOUS
  <2>2. Answerable(x) /\ Left(q, q', x) /\ WasAt(q, x) /\ AnsweredAt(x) /\ t' = t
    BY <1>2, <1>11, <2>1, FillMoves DEF t, q
  <2>3. LeftBoth(x, t, q, t', q')
    BY <1>3, <1>4, <2>2 DEF Left, WasAt, LeftBoth
  <2>4. WereAtEither(x, t, q)
    BY <1>3, <1>4, <2>2 DEF WasAt, WereAtEither
  <2>5. AreAnswered(x, r, r')
    BY <2>2 DEF AnsweredAt, AreAnswered, r
  <2> QED BY <1>6, <2>2, <2>3, <2>4, <2>5
<1>12. CASE FillFromWrites
  <2>1. PICK x : x = Head(inflight_writes)
    OBVIOUS
  <2>2. x.instr_depend_on_me = {} /\ AnsweredAt(x) /\ t' = t /\ q' = q
    BY <1>2, <1>12, <2>1, WriteMoves DEF t, q
  <2> QED BY <1>5, <2>2 DEF AnsweredAt, r
<1>13. CASE Hit
  <2>1. PICK x : x = ThisTag
    OBVIOUS
  <2>2. Answerable(x) /\ Left(t, t', x) /\ WasAt(t, x) /\ AnsweredAt(x) /\ q' = q
    BY <1>2, <1>13, <2>1, HitMoves DEF t, q
  <2>3. LeftBoth(x, t, q, t', q')
    BY <1>3, <1>4, <2>2 DEF Left, WasAt, LeftBoth
  <2>4. WereAtEither(x, t, q)
    BY <1>3, <1>4, <2>2 DEF WasAt, WereAtEither
  <2>5. AreAnswered(x, r, r')
    BY <2>2 DEF AnsweredAt, AreAnswered, r
  <2> QED BY <1>6, <2>2, <2>3, <2>4, <2>5
<1>14. CASE HandleWrite
  <2>1. PICK x : x = ThisTag
    OBVIOUS
  <2>2. at <= last /\ Finish /\ IsWriteback(x) /\ q' = q /\ r' = r
    BY <1>14, <2>1 DEF HandleWrite, Checking, q, r
  <2>3. Left(t, t', x)
    BY <1>2, <2>1, <2>2, FinishMoves DEF t
  <2>4. x.instr_depend_on_me = {}
    BY <1>2, <2>1, <2>2, AnsweredPacket DEF IsWriteback, KnownPacket, Dropped
  <2> QED BY <1>5, <2>2, <2>3, <2>4 DEF Left
<1>15. CASE MergeMiss \/ ForwardMiss
  <2>1. PICK x : x = ThisTag
    OBVIOUS
  <2>2. Left(t, t', x) /\ WasAt(t, x) /\ Came(q, q', x) /\ r' = r
    BY <1>2, <1>15, <2>1, MergeMoves, ForwardMoves DEF t, q, r
  <2>3. \A i \in Instr, b \in Block : Asks(t', i, b) \/ Asks(q', i, b) <=> Asks(t, i, b) \/ Asks(q, i, b)
    BY <2>2 DEF Left, WasAt, Came
  <2> QED BY <1>5, <2>2, <2>3
<1>16. CASE UNCHANGED <<inflight_tag_check, MSHR, returned>>
  BY <1>5, <1>16 DEF t, q, r
<1>17. CASE UNCHANGED vars
  BY <1>16, <1>17 DEF vars
<1>18. CASE (\E b \in Block, skip \in BOOLEAN : PrefetchLine(b, skip)) \/ \E b \in Block : LowerAnswers(b)
  BY <1>16, <1>18 DEF PrefetchLine, LowerAnswers, queues
<1>19. CASE BeginCycle \/ EndReturns \/ EndFills \/ EndWrites
            \/ RefuseFillFromMSHR \/ RefuseFillFromWrites
            \/ \E n \in 0..Len(inflight_tag_check) : BeginTagChecks(n)
  BY <1>16, <1>19 DEF BeginCycle, EndReturns, EndFills, EndWrites,
       RefuseFillFromMSHR, RefuseFillFromWrites, RefuseFill, BeginTagChecks, queues
<1>20. CASE NoHit \/ EndHits \/ RefuseMiss \/ EndCycle
  BY <1>16, <1>20 DEF NoHit, EndHits, RefuseMiss, EndCycle, queues
<1> QED BY <1>7, <1>8, <1>9, <1>10, <1>11, <1>12, <1>13, <1>14, <1>15, <1>17, <1>18, <1>19, <1>20
        DEF Next, Environment, Arrive, Operate

\* The cache implements RequestReply: whoever waits gets exactly one answer, with the
\* block asked for, through merges of misses, answers in any order and refused
\* requests (cache.cc:107-139, 242-245, 296-372, 610-633).
THEOREM CacheAnswersEveryone == Spec => AnswersEveryone
<1>1. Init => Answers!Init
  BY InitAnswers
<1>2. Inv /\ Inv' /\ [Next]_vars => [Answers!Next]_(Answers!abstractVars)
  BY NextAnswers
<1> QED BY <1>1, <1>2, Invariance, PTL DEF Spec, Answers!Spec, AnswersEveryone

-----------------------------------------------------------------------------
(* What was written is written back *)

\* A cache of writebacks has no write among its misses, and no line is dirty that
\* holds no block.
ReadMiss == {x \in Miss : x.type # "WRITE"}

WritesApart ==
  /\ ~match_offset_bits => MSHR \in Seq(ReadMiss)
  /\ \A s \in SetIndex, w \in Way : block[s][w].dirty => block[s][w].address # NoBlock

\* Unwritten, block by block.
WrittenIn(q, b) == \E k \in 1..Len(q) : q[k].type = "WRITE" /\ q[k].address = b

DirtyIn(blk, b) == \E s \in SetIndex, w \in Way : blk[s][w].dirty /\ blk[s][w].address = b

IsOwed(t, q, iw, blk, b) == WrittenIn(t, b) \/ WrittenIn(q, b) \/ WrittenIn(iw, b) \/ DirtyIn(blk, b)

IsWriteTo(x, b) == x.type = "WRITE" /\ x.address = b

LEMMA AppendedWrites ==
  ASSUME NEW R, NEW q \in Seq(R), NEW x \in R, NEW r, r = Append(q, x), NEW b
  PROVE  WrittenIn(r, b) <=> WrittenIn(q, b) \/ IsWriteTo(x, b)
<1>1. /\ \A k \in 1..Len(q) : k \in 1..Len(r) /\ r[k] = q[k]
      /\ Len(q) + 1 \in 1..Len(r) /\ r[Len(q) + 1] = x
      /\ \A k \in 1..Len(r) : k \in 1..Len(q) \/ k = Len(q) + 1
  BY Appended
<1> QED BY <1>1 DEF WrittenIn, IsWriteTo

LEMMA RemovedWrites ==
  ASSUME NEW R, NEW q \in Seq(R), NEW j \in 1..Len(q), NEW r, r = RemoveAt(q, j), NEW b
  PROVE  WrittenIn(q, b) <=> WrittenIn(r, b) \/ IsWriteTo(q[j], b)
<1>1. /\ \A k \in 1..Len(r) : Old(k, j) \in 1..Len(q) /\ r[k] = q[Old(k, j)]
      /\ \A k \in 1..Len(q) : k # j => \E l \in 1..Len(r) : Old(l, j) = k
  BY Removed
<1>2. ASSUME NEW k \in 1..Len(q), q[k].type = "WRITE", q[k].address = b
      PROVE  WrittenIn(r, b) \/ IsWriteTo(q[j], b)
  BY <1>1, <1>2 DEF WrittenIn, IsWriteTo
<1>3. ASSUME NEW k \in 1..Len(r), r[k].type = "WRITE", r[k].address = b
      PROVE  WrittenIn(q, b)
  BY <1>1, <1>3 DEF WrittenIn
<1> QED BY <1>2, <1>3 DEF WrittenIn, IsWriteTo

\* A fill: a dirty victim is written back, and the line is dirty if it was written.
LEMMA FillOwes ==
  ASSUME TypeOK, WritesApart, NEW x \in Miss, Fill(x)
  PROVE  /\ \A s \in SetIndex, w \in Way : block'[s][w].dirty => block'[s][w].address # NoBlock
         /\ \/ /\ written' = written
               /\ \A b \in Block : DirtyIn(block', b) <=> DirtyIn(block, b) \/ IsWriteTo(x, b)
            \/ \E v \in Block :
                 /\ written' = {<<v, TRUE>>} /\ DirtyIn(block, v)
                 /\ \A b \in Block : b # v => (DirtyIn(block', b) <=> DirtyIn(block, b) \/ IsWriteTo(x, b))
<1> DEFINE s == IndexOf[x.address]
<1>1. x.address \in Block /\ s \in SetIndex /\ NoBlock \notin Block
  BY DEF Miss
<1>2. PICK w \in VictimOf(x) :
        /\ \/ MustWriteBack(s, w) /\ written' = {<<block[s][w].address, TRUE>>}
           \/ ~MustWriteBack(s, w) /\ UNCHANGED written
        /\ block' = IF w \in Way THEN [block EXCEPT ![s][w] = Filled(x)] ELSE block
  BY DEF Fill
<1> HIDE DEF s
<1>3. CASE w \notin Way
  <2>1. x.type # "WRITE"
    <3>1. \A S \in SUBSET Way : S # {} => FirstWay(S) \in Way
      BY FirstWayIs
    <3>2. InvalidWays(IndexOf[x.address]) \in SUBSET Way
      BY DEF InvalidWays
    <3> QED BY <1>2, <1>3, <3>1, <3>2 DEF VictimOf
  <2>2. block' = block /\ written' = written
    BY <1>2, <1>3 DEF MustWriteBack
  <2> QED BY <2>1, <2>2 DEF WritesApart, IsWriteTo
<1>4. CASE w \in Way
  <2>1. block \in [SetIndex -> [Way -> Line]] /\ block' = [block EXCEPT ![s][w] = Filled(x)]
    BY <1>2, <1>4 DEF TypeOK
  <2>2. /\ block'[s][w].address = x.address /\ (block'[s][w].dirty <=> x.type = "WRITE")
        /\ \A y \in SetIndex, v \in Way : ~(y = s /\ v = w) => block'[y][v] = block[y][v]
    BY <1>1, <1>4, <2>1 DEF Filled
  <2>3. \A y \in SetIndex, v \in Way : block'[y][v].dirty => block'[y][v].address # NoBlock
    BY <1>1, <2>2 DEF WritesApart
  <2>4. ASSUME NEW b \in Block, ~(block[s][w].dirty /\ block[s][w].address = b)
        PROVE  DirtyIn(block', b) <=> DirtyIn(block, b) \/ IsWriteTo(x, b)
    <3>1. ASSUME DirtyIn(block', b)
          PROVE  DirtyIn(block, b) \/ IsWriteTo(x, b)
      BY <2>2, <3>1 DEF DirtyIn, IsWriteTo
    <3>2. ASSUME DirtyIn(block, b)
          PROVE  DirtyIn(block', b)
      <4>1. PICK y \in SetIndex, v \in Way : block[y][v].dirty /\ block[y][v].address = b
        BY <3>2 DEF DirtyIn
      <4>2. block'[y][v] = block[y][v]
        BY <2>2, <2>4, <4>1
      <4> QED BY <4>1, <4>2 DEF DirtyIn
    <3>3. ASSUME IsWriteTo(x, b)
          PROVE  DirtyIn(block', b)
      BY <1>1, <1>4, <2>2, <3>3 DEF DirtyIn, IsWriteTo
    <3> QED BY <3>1, <3>2, <3>3
  <2>5. CASE MustWriteBack(s, w) /\ written' = {<<block[s][w].address, TRUE>>}
    <3>1. PICK v : v = block[s][w].address
      OBVIOUS
    <3>2. block[s][w] \in Line /\ v # NoBlock /\ block[s][w].dirty
      BY <1>1, <1>4, <2>1, <2>5, <3>1 DEF MustWriteBack
    <3>3. v \in Block
      BY <3>1, <3>2 DEF Line
    <3>4. DirtyIn(block, v)
      BY <1>1, <1>4, <3>1, <3>2 DEF DirtyIn
    <3>5. \A b \in Block : b # v => (DirtyIn(block', b) <=> DirtyIn(block, b) \/ IsWriteTo(x, b))
      BY <2>4, <3>1
    <3>6. written' = {<<v, TRUE>>}
      BY <2>5, <3>1
    <3> QED BY <2>3, <3>3, <3>4, <3>5, <3>6
  <2>6. CASE ~MustWriteBack(s, w) /\ UNCHANGED written
    <3>1. ~block[s][w].dirty
      BY <1>1, <1>4, <2>6 DEF MustWriteBack, WritesApart
    <3> QED BY <2>3, <2>4, <2>6, <3>1
  <2> QED BY <1>2, <2>5, <2>6
<1> QED BY <1>3, <1>4

\* A hit: the line is dirty if it was or is written now.
LEMMA HitOwes ==
  ASSUME TypeOK, WritesApart, Hit
  PROVE  /\ \A s \in SetIndex, w \in Way : block'[s][w].dirty => block'[s][w].address # NoBlock
         /\ \A b \in Block : DirtyIn(block', b) <=> DirtyIn(block, b) \/ IsWriteTo(ThisTag, b)
<1> DEFINE s == IndexOf[ThisTag.address]
           w == FirstWay(WaysWith(ThisTag.address))
<1>1. at <= last /\ WaysWith(ThisTag.address) \in SUBSET Way /\ WaysWith(ThisTag.address) # {}
  BY DEF Hit, WaysWith
<1>2. w \in WaysWith(ThisTag.address) /\ ThisTag \in Packet
  BY <1>1, FirstWayIs, ThisTagIs
<1>3. s \in SetIndex /\ w \in Way /\ block[s][w].address = ThisTag.address /\ ThisTag.address \in Block
  BY <1>2 DEF Packet, WaysWith
<1>4. block' = [block EXCEPT ![s][w].dirty = block[s][w].dirty \/ ThisTag.type = "WRITE"]
  BY DEF Hit
<1>5. PICK d : d = (block[s][w].dirty \/ ThisTag.type = "WRITE")
  OBVIOUS
<1> HIDE DEF s, w
<1>6. block \in [SetIndex -> [Way -> Line]] /\ NoBlock \notin Block
  BY DEF TypeOK
<1>7. block' = [block EXCEPT ![s] = [block[s] EXCEPT ![w] = [block[s][w] EXCEPT !.dirty = d]]]
  BY <1>4, <1>5
<1>8. /\ block'[s][w].address = ThisTag.address /\ (block'[s][w].dirty <=> d)
      /\ \A y \in SetIndex, v \in Way : ~(y = s /\ v = w) => block'[y][v] = block[y][v]
  <2>1. PICK x : x = [block[s][w] EXCEPT !.dirty = d]
    OBVIOUS
  <2>2. x.address = ThisTag.address /\ (x.dirty <=> d)
    BY <1>3, <1>6, <2>1 DEF Line
  <2>3. block' = [block EXCEPT ![s] = [block[s] EXCEPT ![w] = x]]
    BY <1>7, <2>1
  <2>4. block'[s][w] = x
    BY <1>3, <1>6, <2>3
  <2>5. \A y \in SetIndex, v \in Way : ~(y = s /\ v = w) => block'[y][v] = block[y][v]
    BY <1>3, <1>6, <2>3
  <2> QED BY <2>2, <2>4, <2>5
<1>9. \A y \in SetIndex, v \in Way : block'[y][v].dirty => block'[y][v].address # NoBlock
  BY <1>3, <1>6, <1>8 DEF WritesApart
<1>10. ASSUME NEW b \in Block
       PROVE  DirtyIn(block', b) <=> DirtyIn(block, b) \/ IsWriteTo(ThisTag, b)
  <2>1. ASSUME DirtyIn(block', b)
        PROVE  DirtyIn(block, b) \/ IsWriteTo(ThisTag, b)
    <3>1. PICK y \in SetIndex, v \in Way : block'[y][v].dirty /\ block'[y][v].address = b
      BY <2>1 DEF DirtyIn
    <3>2. CASE ~(y = s /\ v = w)
      BY <1>8, <3>1, <3>2 DEF DirtyIn
    <3>3. CASE y = s /\ v = w
      BY <1>3, <1>5, <1>8, <3>1, <3>3 DEF DirtyIn, IsWriteTo
    <3> QED BY <3>2, <3>3
  <2>2. ASSUME DirtyIn(block, b)
        PROVE  DirtyIn(block', b)
    <3>1. PICK y \in SetIndex, v \in Way : block[y][v].dirty /\ block[y][v].address = b
      BY <2>2 DEF DirtyIn
    <3>2. CASE ~(y = s /\ v = w)
      BY <1>8, <3>1, <3>2 DEF DirtyIn
    <3>3. CASE y = s /\ v = w
      BY <1>3, <1>5, <1>8, <3>1, <3>3 DEF DirtyIn
    <3> QED BY <3>2, <3>3
  <2>3. ASSUME IsWriteTo(ThisTag, b)
        PROVE  DirtyIn(block', b)
    BY <1>3, <1>5, <1>8, <2>3 DEF DirtyIn, IsWriteTo
  <2> QED BY <2>1, <2>2, <2>3
<1> QED BY <1>9, <1>10

LEMMA WritesApartKept ==
  ASSUME TypeOK, Senders, WritesApart, [Next]_vars
  PROVE  WritesApart'
<1> DEFINE Misses == ~match_offset_bits => MSHR' \in Seq(ReadMiss)
           Dirty == \A s \in SetIndex, w \in Way : block'[s][w].dirty => block'[s][w].address # NoBlock
<1>1. SUFFICES Misses /\ Dirty
  BY DEF WritesApart, ReadMiss
<1>2. /\ UNCHANGED MSHR => Misses
      /\ UNCHANGED block => Dirty
  BY DEF WritesApart
<1> HIDE DEF Misses, Dirty
<1>3. CASE FinishPacket
  <2>1. PICK m \in 1..Len(MSHR), f \in 1..Len(MSHR) : MSHR' = Exchanged(MSHR, m, f)
    BY <1>3, MissOfIs, UnreturnedIs DEF FinishPacket, Exchanged, Known
  <2>2. MSHR \in Seq(Miss)
    BY DEF TypeOK
  <2>3. /\ MSHR' \in Seq(Miss) /\ Len(MSHR') = Len(MSHR)
        /\ \A k \in 1..Len(MSHR) : Trade(k, m, f) \in 1..Len(MSHR) /\ MSHR'[k].type = MSHR[Trade(k, m, f)].type
    BY <2>1, <2>2, TradedTypes
  <2>4. ASSUME ~match_offset_bits
        PROVE  MSHR' \in Seq(ReadMiss)
    <3>1. \A k \in 1..Len(MSHR) : MSHR[k] \in ReadMiss
      BY <2>4, Entries DEF WritesApart
    <3>2. \A k \in 1..Len(MSHR') : MSHR'[k] \in Miss
      BY <2>3, Entries
    <3>3. \A k \in 1..Len(MSHR') : MSHR'[k] \in ReadMiss
      BY <2>3, <3>1, <3>2 DEF ReadMiss
    <3>4. Len(MSHR') \in Nat /\ MSHR' = [k \in 1..Len(MSHR') |-> MSHR'[k]]
      BY <2>3, LenProperties
    <3>5. MSHR' \in [1..Len(MSHR') -> ReadMiss]
      BY <3>3, <3>4
    <3> QED BY <3>4, <3>5, SeqDef
  <2> QED BY <1>2, <1>3, <2>4 DEF FinishPacket, Misses
<1>4. CASE FillFromMSHR
  <2>1. MSHR \in Seq(Miss) /\ MSHR # <<>> /\ MSHR' = Tail(MSHR) /\ Fill(Head(MSHR))
    BY <1>4 DEF FillFromMSHR, TypeOK
  <2>2. Head(MSHR) \in Miss
    BY <2>1, HeadTailProperties
  <2>3. Dirty
    BY <2>1, <2>2, FillOwes DEF Dirty
  <2>4. Misses
    BY <2>1, HeadTailProperties DEF Misses, WritesApart
  <2> QED BY <2>3, <2>4
<1>5. CASE FillFromWrites
  <2>1. inflight_writes \in Seq(Miss) /\ inflight_writes # <<>> /\ Fill(Head(inflight_writes)) /\ UNCHANGED MSHR
    BY <1>5 DEF FillFromWrites, TypeOK
  <2>2. Head(inflight_writes) \in Miss
    BY <2>1, HeadTailProperties
  <2> QED BY <1>2, <2>1, <2>2, FillOwes DEF Dirty
<1>6. CASE Hit
  <2>1. UNCHANGED MSHR
    BY <1>6 DEF Hit
  <2> QED BY <1>2, <1>6, <2>1, HitOwes DEF Dirty
<1>7. CASE MergeMiss
  <2>1. at <= last /\ UNCHANGED block /\ ~IsWriteback(ThisTag)
    BY <1>7 DEF MergeMiss, Checking
  <2>2. PICK m : MergesAt(m)
    BY <1>7, MergeMissIs
  <2>3. PICK x : x = MergedMiss(MSHR[m], ToAllocate(ThisTag))
    OBVIOUS
  <2>4. /\ x \in Miss /\ MSHR' = [MSHR EXCEPT ![m] = x] /\ m \in 1..Len(MSHR)
        /\ x.type \in {MSHR[m].type, ThisTag.type}
    BY <2>1, <2>2, <2>3, MergesAtIs
  <2>5. ASSUME ~match_offset_bits
        PROVE  MSHR' \in Seq(ReadMiss)
    <3>1. MSHR \in Seq(ReadMiss)
      BY <2>5 DEF WritesApart
    <3>2. MSHR[m] \in ReadMiss
      BY <2>4, <3>1, Entries
    <3>3. x \in ReadMiss
      BY <2>1, <2>4, <2>5, <3>2 DEF ReadMiss, IsWriteback
    <3> QED BY <2>4, <3>1, <3>3, ExceptSeq
  <2> QED BY <1>2, <2>1, <2>5 DEF Misses
<1>8. CASE ForwardMiss
  <2>1. at <= last /\ UNCHANGED block /\ ~IsWriteback(ThisTag)
    BY <1>8 DEF ForwardMiss, Checking
  <2>2. CASE MSHR' = Append(MSHR, ToAllocate(ThisTag))
    <3>1. ToAllocate(ThisTag) \in Miss /\ ToAllocate(ThisTag).type = ThisTag.type
      BY <2>1, ThisTagIs, ToAllocateIs
    <3>2. ~match_offset_bits => ToAllocate(ThisTag) \in ReadMiss
      BY <2>1, <3>1 DEF ReadMiss, IsWriteback
    <3>3. Misses
      BY <2>2, <3>2, AppendProperties DEF WritesApart, Misses
    <3> QED BY <1>2, <2>1, <3>3
  <2> QED BY <1>2, <1>8, <2>1, <2>2 DEF ForwardMiss
<1>9. CASE UNCHANGED <<block, MSHR>>
  BY <1>2, <1>9
<1>10. CASE Environment \/ Arrive
  BY <1>9, <1>10 DEF Environment, Arrive, PrefetchLine, LowerAnswers, PickUp, TakeFromAbove, queues
<1>11. CASE TakeFromInternalPQ \/ HandleWrite \/ \E n \in 0..Len(inflight_tag_check) : BeginTagChecks(n)
  BY <1>9, <1>11 DEF TakeFromInternalPQ, HandleWrite, BeginTagChecks, queues
<1>12. CASE BeginCycle \/ EndReturns \/ EndFills \/ EndWrites
            \/ RefuseFillFromMSHR \/ RefuseFillFromWrites
  BY <1>9, <1>12 DEF BeginCycle, EndReturns, EndFills, EndWrites,
       RefuseFillFromMSHR, RefuseFillFromWrites, RefuseFill, queues
<1>13. CASE NoHit \/ EndHits \/ RefuseMiss \/ EndCycle
  BY <1>9, <1>13 DEF NoHit, EndHits, RefuseMiss, EndCycle, queues
<1>14. CASE UNCHANGED vars
  BY <1>9, <1>14 DEF vars
<1> QED BY <1>3, <1>4, <1>5, <1>6, <1>7, <1>8, <1>10, <1>11, <1>12, <1>13, <1>14 DEF Next, Operate

\* Unwritten, of the four queues and the lines.
OwedAt(t, q, iw, blk) == {w \in Block \X {TRUE} : IsOwed(t, q, iw, blk, w[1])}

LEMMA Pairs ==
  ASSUME NEW A, NEW T
  PROVE  /\ \A w \in A \X {T} : w = <<w[1], T>> /\ w[1] \in A
         /\ \A b : <<b, T>> \in A \X {T} <=> b \in A
         /\ \A b, c : <<b, T>> = <<c, T>> <=> b = c
         /\ \A b : <<b, T>>[1] = b
OBVIOUS

LEMMA UnwrittenIs ==
  ASSUME TypeOK, WritesApart
  PROVE  Unwritten = OwedAt(inflight_tag_check, MSHR, inflight_writes, block)
<1> DEFINE X == ToSet(inflight_tag_check) \cup ToSet(MSHR) \cup ToSet(inflight_writes)
           O == OwedAt(inflight_tag_check, MSHR, inflight_writes, block)
<1>1. /\ inflight_tag_check \in Seq(Packet) /\ MSHR \in Seq(Miss) /\ inflight_writes \in Seq(Miss)
      /\ block \in [SetIndex -> [Way -> Line]]
  BY DEF TypeOK
<1>2. \A x : x \in X <=> \/ \E k \in 1..Len(inflight_tag_check) : inflight_tag_check[k] = x
                         \/ \E k \in 1..Len(MSHR) : MSHR[k] = x
                         \/ \E k \in 1..Len(inflight_writes) : inflight_writes[k] = x
  BY <1>1, Entries DEF ToSet
<1>3. PICK T : T = TRUE
  OBVIOUS
<1>4. Unwritten = {<<x.address, T>> : x \in {y \in X : y.type = "WRITE"}}
          \cup {<<block[x[1]][x[2]].address, T>> : x \in {y \in SetIndex \X Way : block[y[1]][y[2]].dirty}}
  BY <1>3 DEF Unwritten
<1>5. O = {w \in Block \X {T} : IsOwed(inflight_tag_check, MSHR, inflight_writes, block, w[1])}
  BY <1>3 DEF OwedAt
<1>6. /\ \A w \in Block \X {T} : w = <<w[1], T>> /\ w[1] \in Block
      /\ \A b : <<b, T>> \in Block \X {T} <=> b \in Block
      /\ \A b, c : <<b, T>> = <<c, T>> <=> b = c
      /\ \A b : <<b, T>>[1] = b
  BY Pairs
<1> DEFINE pair(b) == <<b, T>>
           Owes(b) == IsOwed(inflight_tag_check, MSHR, inflight_writes, block, b)
           Queued == {pair(x.address) : x \in {y \in X : y.type = "WRITE"}}
           InLines == {pair(block[x[1]][x[2]].address) : x \in {y \in SetIndex \X Way : block[y[1]][y[2]].dirty}}
<1> HIDE DEF X
<1>7. \A b : Owes(b) <=> (\E x \in X : x.type = "WRITE" /\ x.address = b) \/ DirtyIn(block, b)
  BY <1>2 DEF IsOwed, WrittenIn
<1>8. ASSUME NEW x \in X
      PROVE  x.address \in Block
  <2>1. x \in Packet \/ x \in Miss
    BY <1>1, <1>2, Entries
  <2> QED BY <2>1 DEF Packet, Miss
<1>9. \A s \in SetIndex, w \in Way : block[s][w].dirty => block[s][w].address \in Block
  BY <1>1 DEF WritesApart, Line
<1>10. \A w : w \in Unwritten <=>
         \/ \E x \in X : x.type = "WRITE" /\ w = pair(x.address)
         \/ \E s \in SetIndex, v \in Way : block[s][v].dirty /\ w = pair(block[s][v].address)
  <2>1. Unwritten = Queued \cup InLines
    BY <1>4
  <2> HIDE DEF pair
  <2>2. \A w : w \in Queued <=> \E x \in X : x.type = "WRITE" /\ w = pair(x.address)
    OBVIOUS
  <2>3. \A w : w \in InLines <=> \E s \in SetIndex, v \in Way : block[s][v].dirty /\ w = pair(block[s][v].address)
    <3>1. \A x \in SetIndex \X Way : x[1] \in SetIndex /\ x[2] \in Way
      OBVIOUS
    <3>2. ASSUME NEW w \in InLines
          PROVE  \E s \in SetIndex, v \in Way : block[s][v].dirty /\ w = pair(block[s][v].address)
      <4>1. PICK x \in {y \in SetIndex \X Way : block[y[1]][y[2]].dirty} : w = pair(block[x[1]][x[2]].address)
        OBVIOUS
      <4> QED BY <3>1, <4>1
    <3>3. ASSUME NEW s \in SetIndex, NEW v \in Way, block[s][v].dirty
          PROVE  pair(block[s][v].address) \in InLines
      <4>1. PICK x : x = <<s, v>>
        OBVIOUS
      <4>2. x \in {y \in SetIndex \X Way : block[y[1]][y[2]].dirty} /\ x[1] = s /\ x[2] = v
        BY <3>3, <4>1
      <4> QED BY <4>2
    <3> QED BY <3>2, <3>3
  <2> QED BY <2>1, <2>2, <2>3
<1>11. \A w : w \in O <=> \E b \in Block : Owes(b) /\ w = pair(b)
  <2> HIDE DEF Owes
  <2>1. \A w : w \in O <=> w \in Block \X {T} /\ Owes(w[1])
    BY <1>5 DEF Owes
  <2> HIDE DEF O
  <2> QED BY <1>6, <2>1
<1> HIDE DEF O, pair, Owes, Queued, InLines
<1>12. ASSUME NEW w \in Unwritten
       PROVE  w \in O
  <2>1. CASE \E x \in X : x.type = "WRITE" /\ w = pair(x.address)
    BY <1>7, <1>8, <1>11, <2>1
  <2>2. CASE \E s \in SetIndex, v \in Way : block[s][v].dirty /\ w = pair(block[s][v].address)
    <3>1. PICK s \in SetIndex, v \in Way : block[s][v].dirty /\ w = pair(block[s][v].address)
      BY <2>2
    <3>2. DirtyIn(block, block[s][v].address)
      BY <3>1 DEF DirtyIn
    <3> QED BY <1>7, <1>9, <1>11, <3>1, <3>2
  <2> QED BY <1>10, <2>1, <2>2
<1>13. ASSUME NEW w \in O
       PROVE  w \in Unwritten
  <2>1. PICK b \in Block : Owes(b) /\ w = pair(b)
    BY <1>11
  <2>2. CASE \E x \in X : x.type = "WRITE" /\ x.address = b
    BY <1>10, <2>1, <2>2
  <2>3. CASE DirtyIn(block, b)
    <3>1. PICK s \in SetIndex, v \in Way : block[s][v].dirty /\ block[s][v].address = b
      BY <2>3 DEF DirtyIn
    <3> QED BY <1>10, <2>1, <3>1
  <2> QED BY <1>7, <2>1, <2>2, <2>3
<1> QED BY <1>12, <1>13 DEF O

LEMMA OwedStays ==
  ASSUME NEW t, NEW q, NEW iw, NEW blk, NEW t2, NEW q2, NEW iw2, NEW blk2,
         \A b \in Block : IsOwed(t2, q2, iw2, blk2, b) <=> IsOwed(t, q, iw, blk, b)
  PROVE  OwedAt(t2, q2, iw2, blk2) = OwedAt(t, q, iw, blk)
<1> HIDE DEF IsOwed
<1> QED BY DEF OwedAt

\* v is owed by then, or no longer, and all else as before.
OwedButFor(v, t, q, iw, blk, t2, q2, iw2, blk2) ==
  \A b \in Block : b # v => (IsOwed(t2, q2, iw2, blk2, b) <=> IsOwed(t, q, iw, blk, b))

LEMMA OwedChanges ==
  ASSUME NEW t, NEW q, NEW iw, NEW blk, NEW t2, NEW q2, NEW iw2, NEW blk2, NEW v \in Block,
         OwedButFor(v, t, q, iw, blk, t2, q2, iw2, blk2)
  PROVE  /\ IsOwed(t2, q2, iw2, blk2, v) => OwedAt(t2, q2, iw2, blk2) = OwedAt(t, q, iw, blk) \cup {<<v, TRUE>>}
         /\ ~IsOwed(t2, q2, iw2, blk2, v) => OwedAt(t2, q2, iw2, blk2) = OwedAt(t, q, iw, blk) \ {<<v, TRUE>>}
         /\ IsOwed(t, q, iw, blk, v) => <<v, TRUE>> \in OwedAt(t, q, iw, blk)
<1>1. PICK T : T = TRUE
  OBVIOUS
<1>2. /\ \A w \in Block \X {T} : w = <<w[1], T>> /\ w[1] \in Block
      /\ \A b : <<b, T>> \in Block \X {T} <=> b \in Block
      /\ \A b, c : <<b, T>> = <<c, T>> <=> b = c
      /\ \A b : <<b, T>>[1] = b
  BY Pairs
<1> DEFINE Before(b) == IsOwed(t, q, iw, blk, b)
           After(b) == IsOwed(t2, q2, iw2, blk2, b)
           O == {w \in Block \X {T} : Before(w[1])}
           P == {w \in Block \X {T} : After(w[1])}
<1>3. O = OwedAt(t, q, iw, blk) /\ P = OwedAt(t2, q2, iw2, blk2)
  BY <1>1 DEF OwedAt
<1>4. \A b \in Block : b # v => (After(b) <=> Before(b))
  BY DEF OwedButFor
<1> HIDE DEF Before, After
<1>5. After(v) => P = O \cup {<<v, T>>}
  BY <1>2, <1>4
<1>6. ~After(v) => P = O \ {<<v, T>>}
  BY <1>2, <1>4
<1>7. Before(v) => <<v, T>> \in O
  BY <1>2
<1> HIDE DEF O, P
<1> QED BY <1>1, <1>3, <1>5, <1>6, <1>7 DEF Before, After

LEMMA WriteStep ==
  ASSUME NEW v \in Block, Unwritten' = Unwritten \cup {<<v, TRUE>>}, written' = written
  PROVE  [WriteBacks!Next]_(WriteBacks!abstractVars)
<1>1. PICK w : w = <<v, TRUE>>
  OBVIOUS
<1>2. w \in Block \X {TRUE}
  BY <1>1
<1>3. WriteBacks!Write(w)
  BY <1>1 DEF WriteBacks!Write
<1> QED BY <1>2, <1>3 DEF WriteBacks!Next

LEMMA DrainStep ==
  ASSUME NEW v \in Block, <<v, TRUE>> \in Unwritten, written' = {<<v, TRUE>>},
         Unwritten' = Unwritten \/ Unwritten' = Unwritten \ {<<v, TRUE>>}
  PROVE  [WriteBacks!Next]_(WriteBacks!abstractVars)
<1>1. PICK w : w = <<v, TRUE>>
  OBVIOUS
<1>2. w \in Block \X {TRUE}
  BY <1>1
<1>3. \E again \in SUBSET {w} : Unwritten' = (Unwritten \ {w}) \cup again
  <2>1. CASE Unwritten' = Unwritten
    <3>1. Unwritten' = (Unwritten \ {w}) \cup {w}
      BY <1>1, <2>1
    <3> QED BY <3>1
  <2>2. CASE Unwritten' = Unwritten \ {w}
    <3>1. Unwritten' = (Unwritten \ {w}) \cup {}
      BY <2>2
    <3> QED BY <3>1
  <2> QED BY <1>1, <2>1, <2>2
<1>4. WriteBacks!Drain(w)
  BY <1>1, <1>3 DEF WriteBacks!Drain
<1> QED BY <1>2, <1>4 DEF WriteBacks!Next

LEMMA UnwrittenNow ==
  TypeOK /\ WritesApart => Unwritten = OwedAt(inflight_tag_check, MSHR, inflight_writes, block)
BY UnwrittenIs

LEMMA KeepWriteStep ==
  ASSUME Unwritten' = Unwritten, written' = written
  PROVE  [WriteBacks!Next]_(WriteBacks!abstractVars)
BY DEF WriteBacks!abstractVars

LEMMA InitWrites == Init => WritesApart /\ WriteBacks!Init
<1> SUFFICES ASSUME Init PROVE WritesApart /\ Unwritten = {} /\ written = {}
  BY DEF WriteBacks!Init
<1>1. \A s \in SetIndex, w \in Way : block[s][w].dirty = FALSE
  BY DEF Init, Invalid
<1>2. MSHR = <<>> /\ <<>> \in Seq(ReadMiss) /\ ToSet(<<>>) = {}
  BY EmptySeq DEF Init, ToSet
<1>3. WritesApart
  BY <1>1, <1>2 DEF WritesApart
<1>4. {y \in SetIndex \X Way : block[y[1]][y[2]].dirty} = {}
  BY <1>1
<1>5. inflight_tag_check = <<>> /\ inflight_writes = <<>> /\ written = {}
  BY DEF Init
<1> QED BY <1>2, <1>3, <1>4, <1>5 DEF Unwritten

LEMMA NextWrites ==
  ~match_offset_bits /\ Inv /\ WritesApart /\ Inv' /\ WritesApart' /\ [Next]_vars
    => [WriteBacks!Next]_(WriteBacks!abstractVars)
<1> DEFINE Good == [WriteBacks!Next]_(WriteBacks!abstractVars)
           t == inflight_tag_check
           q == MSHR
           iw == inflight_writes
           Owes(b) == IsOwed(inflight_tag_check, MSHR, inflight_writes, block, b)
           OwesThen(b) == IsOwed(inflight_tag_check', MSHR', inflight_writes', block', b)
<1> SUFFICES ASSUME ~match_offset_bits, Inv, WritesApart, Inv', WritesApart', [Next]_vars PROVE Good
  OBVIOUS
<1>1. /\ Unwritten = OwedAt(t, q, iw, block)
      /\ Unwritten' = OwedAt(t', q', iw', block')
  <2>1. Unwritten = OwedAt(inflight_tag_check, MSHR, inflight_writes, block)
    BY UnwrittenIs DEF Inv
  <2>2. TypeOK' /\ WritesApart'
    BY DEF Inv
  <2>3. (TypeOK /\ WritesApart => Unwritten = OwedAt(inflight_tag_check, MSHR, inflight_writes, block))'
    BY UnwrittenNow, PTL
  <2>4. Unwritten' = OwedAt(inflight_tag_check', MSHR', inflight_writes', block')
    BY <2>2, <2>3 DEF OwedAt, IsOwed, WrittenIn, DirtyIn
  <2> QED BY <2>1, <2>4
<1>2. TypeOK /\ Senders
  BY DEF Inv
<1>3. t \in Seq(Packet) /\ q \in Seq(Miss) /\ iw \in Seq(Miss)
  BY <1>2 DEF TypeOK
<1>4. \A b : /\ Owes(b) <=> WrittenIn(t, b) \/ WrittenIn(q, b) \/ WrittenIn(iw, b) \/ DirtyIn(block, b)
             /\ OwesThen(b) <=> WrittenIn(t', b) \/ WrittenIn(q', b) \/ WrittenIn(iw', b) \/ DirtyIn(block', b)
  BY DEF IsOwed
<1>5. \A b : ~WrittenIn(q, b) /\ ~WrittenIn(q', b)
  <2>1. MSHR \in Seq(ReadMiss) /\ MSHR' \in Seq(ReadMiss)
    BY DEF WritesApart, ReadMiss
  <2>2. (\A k \in 1..Len(MSHR) : MSHR[k] \in ReadMiss) /\ (\A k \in 1..Len(MSHR') : MSHR'[k] \in ReadMiss)
    BY <2>1, Entries
  <2> QED BY <2>2 DEF WrittenIn, ReadMiss
<1> HIDE DEF Good, t, q, iw, Owes, OwesThen
<1>6. ASSUME \A b \in Block : OwesThen(b) <=> Owes(b), written' = written
      PROVE  Good
  <2>1. PICK t2, q2, iw2, blk2 : t2 = t' /\ q2 = q' /\ iw2 = iw' /\ blk2 = block'
    OBVIOUS
  <2>2. \A b \in Block : IsOwed(t2, q2, iw2, blk2, b) <=> IsOwed(t, q, iw, block, b)
    BY <1>6, <2>1 DEF Owes, OwesThen, t, q, iw
  <2>3. OwedAt(t2, q2, iw2, blk2) = OwedAt(t, q, iw, block)
    BY <2>2, OwedStays
  <2> QED BY <1>1, <1>6, <2>1, <2>3, KeepWriteStep DEF Good
<1>7. ASSUME NEW v \in Block, \A b \in Block : b # v => (OwesThen(b) <=> Owes(b))
      PROVE  /\ OwesThen(v) => Unwritten' = Unwritten \cup {<<v, TRUE>>}
             /\ ~OwesThen(v) => Unwritten' = Unwritten \ {<<v, TRUE>>}
             /\ Owes(v) => <<v, TRUE>> \in Unwritten
  <2>1. PICK t2, q2, iw2, blk2 : t2 = t' /\ q2 = q' /\ iw2 = iw' /\ blk2 = block'
    OBVIOUS
  <2>2. OwedButFor(v, t, q, iw, block, t2, q2, iw2, blk2)
    BY <1>7, <2>1 DEF Owes, OwesThen, OwedButFor, t, q, iw
  <2>3. /\ IsOwed(t2, q2, iw2, blk2, v) => OwedAt(t2, q2, iw2, blk2) = OwedAt(t, q, iw, block) \cup {<<v, TRUE>>}
        /\ ~IsOwed(t2, q2, iw2, blk2, v) => OwedAt(t2, q2, iw2, blk2) = OwedAt(t, q, iw, block) \ {<<v, TRUE>>}
        /\ IsOwed(t, q, iw, block, v) => <<v, TRUE>> \in OwedAt(t, q, iw, block)
    BY <2>2, OwedChanges
  <2>4. (OwesThen(v) <=> IsOwed(t2, q2, iw2, blk2, v)) /\ (Owes(v) <=> IsOwed(t, q, iw, block, v))
    BY <2>1 DEF Owes, OwesThen, t, q, iw
  <2> QED BY <1>1, <2>1, <2>3, <2>4
\* A write, or something else, comes in.
<1>8. ASSUME NEW x \in Packet, t' = Append(t, x), UNCHANGED <<MSHR, inflight_writes, block, written>>
      PROVE  Good
  <2>1. \A b : WrittenIn(t', b) <=> WrittenIn(t, b) \/ IsWriteTo(x, b)
    BY <1>3, <1>8, AppendedWrites
  <2>2. q' = q /\ iw' = iw /\ block' = block /\ written' = written
    BY <1>8 DEF q, iw
  <2>3. \A b : OwesThen(b) <=> Owes(b) \/ IsWriteTo(x, b)
    BY <1>4, <2>1, <2>2
  <2>4. CASE x.type = "WRITE"
    <3>1. PICK v : v = x.address
      OBVIOUS
    <3>2. v \in Block /\ OwesThen(v) /\ \A b \in Block : b # v => (OwesThen(b) <=> Owes(b))
      BY <2>3, <2>4, <3>1 DEF IsWriteTo, Packet
    <3>3. Unwritten' = Unwritten \cup {<<v, TRUE>>}
      BY <1>7, <3>2
    <3> QED BY <2>2, <3>2, <3>3, WriteStep DEF Good
  <2>5. CASE x.type # "WRITE"
    BY <1>6, <2>2, <2>3, <2>5 DEF IsWriteTo
  <2> QED BY <2>4, <2>5
\* A tag check is over.
<1>9. ASSUME at <= last, Finish
      PROVE  \A b : WrittenIn(t, b) <=> WrittenIn(t', b) \/ IsWriteTo(ThisTag, b)
  BY <1>2, <1>3, <1>9, ThisTagIs, RemovedWrites DEF Finish, ThisTag, t
\* A fill with x, which leaves a queue.
<1>10. ASSUME NEW x \in Miss, Fill(x), t' = t,
              \A b : WrittenIn(q, b) \/ WrittenIn(iw, b) <=> WrittenIn(q', b) \/ WrittenIn(iw', b) \/ IsWriteTo(x, b)
       PROVE  Good
  <2>1. CASE /\ written' = written
             /\ \A b \in Block : DirtyIn(block', b) <=> DirtyIn(block, b) \/ IsWriteTo(x, b)
    BY <1>4, <1>6, <1>10, <2>1
  <2>2. CASE \E v \in Block :
               /\ written' = {<<v, TRUE>>} /\ DirtyIn(block, v)
               /\ \A b \in Block : b # v => (DirtyIn(block', b) <=> DirtyIn(block, b) \/ IsWriteTo(x, b))
    <3>1. PICK v \in Block :
               /\ written' = {<<v, TRUE>>} /\ DirtyIn(block, v)
               /\ \A b \in Block : b # v => (DirtyIn(block', b) <=> DirtyIn(block, b) \/ IsWriteTo(x, b))
      BY <2>2
    <3>2. Owes(v) /\ \A b \in Block : b # v => (OwesThen(b) <=> Owes(b))
      BY <1>4, <1>10, <3>1
    <3>3. <<v, TRUE>> \in Unwritten /\ (Unwritten' = Unwritten \cup {<<v, TRUE>>} \/ Unwritten' = Unwritten \ {<<v, TRUE>>})
      BY <1>7, <3>2
    <3>4. Unwritten' = Unwritten \/ Unwritten' = Unwritten \ {<<v, TRUE>>}
      BY <3>3
    <3> QED BY <3>1, <3>3, <3>4, DrainStep DEF Good
  <2> QED BY <1>2, <1>10, <2>1, <2>2, FillOwes
<1>11. ASSUME NEW u \in Upper, NEW k \in AccessType, NEW b \in Block, NEW D \in SUBSET Instr,
              TakeFromAbove(u, k, b, D)
       PROVE  Good
  <2>1. FromAbove(u, k, b, D) \in Packet
    BY DEF FromAbove, Packet
  <2> QED BY <1>8, <1>11, <2>1 DEF TakeFromAbove, t
<1>12. CASE TakeFromInternalPQ
  <2>1. Head(internal_PQ) \in Packet
    BY <1>2, <1>12, HeadTailProperties DEF TypeOK, TakeFromInternalPQ
  <2> QED BY <1>8, <1>12, <2>1 DEF TakeFromInternalPQ, t
<1>13. CASE FillFromMSHR
  <2>1. MSHR # <<>> /\ MSHR' = Tail(MSHR) /\ Fill(Head(MSHR)) /\ t' = t /\ iw' = iw
    BY <1>13 DEF FillFromMSHR, t, iw
  <2>2. Head(MSHR) \in Miss /\ Head(MSHR).type # "WRITE"
    <3>1. MSHR \in Seq(ReadMiss)
      BY DEF WritesApart
    <3> QED BY <2>1, <3>1, HeadTailProperties DEF ReadMiss
  <2>3. \A b : ~IsWriteTo(Head(MSHR), b)
    BY <2>2 DEF IsWriteTo
  <2> QED BY <1>5, <1>10, <2>1, <2>2, <2>3
<1>14. CASE FillFromWrites
  <2>1. iw # <<>> /\ iw' = Tail(iw) /\ Fill(Head(iw)) /\ t' = t
    BY <1>14 DEF FillFromWrites, t, iw
  <2>2. Head(iw) \in Miss /\ Head(iw) = iw[1] /\ iw' = RemoveAt(iw, 1) /\ 1 \in 1..Len(iw)
    BY <1>3, <2>1, Taken
  <2>3. \A b : WrittenIn(iw, b) <=> WrittenIn(iw', b) \/ IsWriteTo(Head(iw), b)
    BY <1>3, <2>2, RemovedWrites
  <2> QED BY <1>5, <1>10, <2>1, <2>2, <2>3
<1>15. CASE Hit
  <2>1. at <= last /\ Finish /\ q' = q /\ iw' = iw /\ written' = written
    BY <1>15 DEF Hit, Finish, q, iw
  <2>2. \A b \in Block : DirtyIn(block', b) <=> DirtyIn(block, b) \/ IsWriteTo(ThisTag, b)
    BY <1>2, <1>15, HitOwes
  <2> QED BY <1>4, <1>6, <1>9, <2>1, <2>2
<1>16. CASE HandleWrite
  <2>1. at <= last /\ Finish /\ q' = q /\ block' = block /\ written' = written /\ iw' = Append(iw, ToAllocate(ThisTag))
    BY <1>16 DEF HandleWrite, Checking, q, iw
  <2>2. /\ ToAllocate(ThisTag) \in Miss /\ ToAllocate(ThisTag).address = ThisTag.address
        /\ ToAllocate(ThisTag).type = ThisTag.type
    BY <1>2, <2>1, ThisTagIs, ToAllocateIs
  <2>3. \A b : WrittenIn(iw', b) <=> WrittenIn(iw, b) \/ IsWriteTo(ThisTag, b)
    <3>1. \A b : WrittenIn(iw', b) <=> WrittenIn(iw, b) \/ IsWriteTo(ToAllocate(ThisTag), b)
      BY <1>3, <2>1, <2>2, AppendedWrites
    <3> QED BY <2>2, <3>1 DEF IsWriteTo
  <2> QED BY <1>4, <1>6, <1>9, <2>1, <2>3
<1>17. CASE MergeMiss \/ ForwardMiss
  <2>1. /\ at <= last /\ Finish /\ iw' = iw /\ block' = block /\ written' = written
        /\ ~IsWriteback(ThisTag)
    BY <1>17 DEF MergeMiss, ForwardMiss, Checking, iw
  <2>2. \A b : ~IsWriteTo(ThisTag, b)
    BY <2>1 DEF IsWriteback, IsWriteTo
  <2> QED BY <1>4, <1>5, <1>6, <1>9, <2>1, <2>2
<1>18. CASE FinishPacket
  <2>1. t' = t /\ iw' = iw /\ block' = block /\ written' = written
    BY <1>18 DEF FinishPacket, t, iw
  <2> QED BY <1>4, <1>5, <1>6, <2>1
<1>19. CASE UNCHANGED <<inflight_tag_check, inflight_writes, block, written>>
  <2>1. t' = t /\ iw' = iw /\ block' = block /\ written' = written
    BY <1>19 DEF t, iw
  <2> QED BY <1>4, <1>5, <1>6, <2>1
<1>20. CASE Environment
  BY <1>19, <1>20 DEF Environment, PrefetchLine, LowerAnswers, PickUp, queues
<1>21. CASE BeginCycle \/ EndReturns \/ EndFills \/ EndWrites
            \/ RefuseFillFromMSHR \/ RefuseFillFromWrites
            \/ \E n \in 0..Len(inflight_tag_check) : BeginTagChecks(n)
  BY <1>19, <1>21 DEF BeginCycle, EndReturns, EndFills, EndWrites,
       RefuseFillFromMSHR, RefuseFillFromWrites, RefuseFill, BeginTagChecks, queues
<1>22. CASE NoHit \/ EndHits \/ RefuseMiss \/ EndCycle
  BY <1>19, <1>22 DEF NoHit, EndHits, RefuseMiss, EndCycle, queues
<1>23. CASE UNCHANGED vars
  BY <1>19, <1>23 DEF vars
<1> QED BY <1>11, <1>12, <1>13, <1>14, <1>15, <1>16, <1>17, <1>18, <1>20, <1>21, <1>22, <1>23
        DEF Next, Arrive, Operate

\* A cache of writebacks keeps what was written until it is written back: a block
\* that was written here is owed to the level below, in a queue or in a dirty line,
\* until a fill evicts that line and writes it there (cache.cc:141-153, 169-248, 374-390; "Blocks
\* that have been written are marked dirty", test/cpp/src/407-writeback-dirty.cc:7).
\* A cache of stores does not; the run cache_lost_dirty shows how.
THEOREM WritebacksAreKept == ~match_offset_bits => (Spec => WrittenBlocksAreDirty)
<1> SUFFICES ASSUME ~match_offset_bits PROVE Spec => WrittenBlocksAreDirty
  OBVIOUS
<1>1. Init => WritesApart /\ WriteBacks!Init
  BY InitWrites
<1>2. Inv /\ WritesApart /\ [Next]_vars => WritesApart'
  BY WritesApartKept DEF Inv
<1>3. Inv /\ WritesApart /\ Inv' /\ WritesApart' /\ [Next]_vars => [WriteBacks!Next]_(WriteBacks!abstractVars)
  BY NextWrites
<1> QED BY <1>1, <1>2, <1>3, Invariance, PTL DEF Spec, WriteBacks!Spec, WrittenBlocksAreDirty
=============================================================================
