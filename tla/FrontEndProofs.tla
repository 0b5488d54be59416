--------------------------- MODULE FrontEndProofs ---------------------------
(* Proofs about FrontEnd.                                                   *)
EXTENDS FrontEnd, SequenceTheorems, TLAPS

USE FrontEndAssumption

-----------------------------------------------------------------------------
(* The inductive invariant *)

\* How many instructions have left the fetch buffer, and the dispatch buffer.
promoted == entered - Len(IFETCH_BUFFER)
dispatched == left - Len(DISPATCH_BUFFER)

Increasing(q) == \A i, j \in 1..Len(q) : i < j => q[i].id < q[j].id

\* Instructions are numbered in program order.  The fetch buffer and the dispatch
\* buffer hold an interval each, and the two buffers between them share out what lies
\* between, each in order.
InOrder ==
  /\ 0 <= dispatched /\ left <= promoted
  /\ \A i \in 1..Len(IFETCH_BUFFER) : IFETCH_BUFFER[i].id = promoted + i
  /\ \A i \in 1..Len(DISPATCH_BUFFER) : DISPATCH_BUFFER[i].id = dispatched + i
  /\ Increasing(DIB_HIT_BUFFER) /\ Increasing(DECODE_BUFFER)
  /\ IdsOf(DIB_HIT_BUFFER) \cup IdsOf(DECODE_BUFFER) = (left + 1)..promoted
  /\ IdsOf(DIB_HIT_BUFFER) \cap IdsOf(DECODE_BUFFER) = {}

\* The mispredicted instructions of a buffer.
Missed(q) == {i \in 1..Len(q) : q[i].branch_mispredicted # "none"}

StopsFor(q) == \A i \in Missed(q) : fetch_stopped /\ q[i].id = entered

\* StopsForTheYoungest, buffer by buffer.
Stops ==
  /\ StopsFor(IFETCH_BUFFER) /\ StopsFor(DIB_HIT_BUFFER) /\ StopsFor(DECODE_BUFFER)
  /\ StopsFor(DISPATCH_BUFFER)
  /\ \A b \in backend : fetch_stopped /\ b = entered /\ b <= dispatched
  /\ fetch_stopped => \/ Missed(IFETCH_BUFFER) # {} \/ Missed(DIB_HIT_BUFFER) # {}
                      \/ Missed(DECODE_BUFFER) # {} \/ Missed(DISPATCH_BUFFER) # {}
                      \/ backend # {}

Inv == TypeOK /\ EveryFetchIsOwed /\ InOrder /\ Stops

-----------------------------------------------------------------------------
(* Sequences *)

\* The instructions of a buffer, one by one.
LEMMA Elements ==
  ASSUME NEW S, NEW q \in Seq(S)
  PROVE  Len(q) \in Nat /\ DOMAIN q = 1..Len(q) /\ \A i \in 1..Len(q) : q[i] \in S
BY LenProperties, ElementOfSeq

LEMMA FirstAndRest ==
  ASSUME NEW S, NEW q \in Seq(S), q # <<>>
  PROVE  /\ Len(q) \in Nat \ {0} /\ Head(q) = q[1] /\ q[1] \in S
         /\ Tail(q) \in Seq(S) /\ Len(Tail(q)) = Len(q) - 1
         /\ \A i \in 1..Len(Tail(q)) : Tail(q)[i] = q[i + 1]
<1>1. Len(q) \in Nat \ {0}
  BY EmptySeq
<1>2. Head(q) = q[1] /\ q[1] \in S
  BY <1>1, Elements
<1> QED BY <1>1, <1>2, HeadTailProperties

\* A sequence is known by its length and its entries.
LEMMA IsSeq ==
  ASSUME NEW S, NEW n \in Nat, NEW f \in [1..n -> S]
  PROVE  f \in Seq(S) /\ Len(f) = n
OBVIOUS

LEMMA EmptyIfShort ==
  ASSUME NEW S, NEW q \in Seq(S)
  PROVE  q = <<>> <=> Len(q) = 0
BY EmptySeq

-----------------------------------------------------------------------------
(* The buffers between fetching and dispatching *)

\* What enters a buffer, and what leaves it.
LEMMA AppendedBuffer ==
  ASSUME NEW q \in Seq(Instr), NEW x \in Instr, Increasing(q), \A n \in IdsOf(q) : n < x.id
  PROVE  /\ Increasing(Append(q, x))
         /\ IdsOf(Append(q, x)) = IdsOf(q) \cup {x.id}
<1>1. /\ Append(q, x) \in Seq(Instr) /\ Len(Append(q, x)) = Len(q) + 1
      /\ \A i \in 1..Len(q) : Append(q, x)[i] = q[i]
      /\ Append(q, x)[Len(q) + 1] = x /\ Len(q) \in Nat
      /\ \A i \in 1..Len(q) : q[i] \in Instr
  BY AppendProperties, Elements
<1> DEFINE r == Append(q, x)
<1> HIDE DEF r
<1>2. \A i \in 1..Len(r) : i \in 1..Len(q) \/ i = Len(q) + 1
  BY <1>1 DEF r
<1>3. Increasing(r)
  <2> SUFFICES ASSUME NEW i \in 1..Len(r), NEW j \in 1..Len(r), i < j
               PROVE  r[i].id < r[j].id
    BY DEF Increasing
  <2>1. i \in 1..Len(q) /\ r[i] = q[i]
    BY <1>1, <1>2 DEF r
  <2>2. CASE j \in 1..Len(q)
    BY <1>1, <2>1, <2>2 DEF Increasing, r
  <2>3. CASE j = Len(q) + 1
    BY <1>1, <2>1, <2>3 DEF IdsOf, r
  <2> QED BY <1>2, <2>2, <2>3
<1>4. \A n : n \in IdsOf(r) <=> n \in IdsOf(q) \/ n = x.id
  <2>1. ASSUME NEW n, n \in IdsOf(r)
        PROVE  n \in IdsOf(q) \/ n = x.id
    <3>1. PICK i \in 1..Len(r) : n = r[i].id
      BY <2>1 DEF IdsOf
    <3> QED BY <1>1, <1>2, <3>1 DEF IdsOf, r
  <2>2. ASSUME NEW n, n \in IdsOf(q)
        PROVE  n \in IdsOf(r)
    <3>1. PICK i \in 1..Len(q) : n = q[i].id
      BY <2>2 DEF IdsOf
    <3>2. i \in 1..Len(r) /\ r[i] = q[i]
      BY <1>1 DEF r
    <3> QED BY <3>1, <3>2 DEF IdsOf
  <2>3. x.id \in IdsOf(r)
    <3>1. Len(r) \in 1..Len(r) /\ r[Len(r)] = x
      BY <1>1 DEF r
    <3> QED BY <3>1 DEF IdsOf
  <2> QED BY <2>1, <2>2, <2>3
<1>5. IdsOf(r) = IdsOf(q) \cup {x.id}
  BY <1>4
<1> QED BY <1>3, <1>5 DEF r

LEMMA TakenBuffer ==
  ASSUME NEW q \in Seq(Instr), q # <<>>, Increasing(q)
  PROVE  /\ Increasing(Tail(q))
         /\ IdsOf(Tail(q)) = IdsOf(q) \ {q[1].id}
         /\ q[1].id \in IdsOf(q)
         /\ \A n \in IdsOf(q) : q[1].id <= n
<1> DEFINE r == Tail(q)
<1>1. /\ Len(q) \in Nat \ {0} /\ Len(r) = Len(q) - 1
      /\ \A i \in 1..Len(r) : r[i] = q[i + 1] /\ i + 1 \in 1..Len(q)
      /\ \A i \in 1..Len(q) : q[i] \in Instr /\ q[i].id \in Nat
  <2>1. \A i \in 1..Len(q) : q[i] \in Instr
    BY Elements
  <2>2. \A x \in Instr : x.id \in Nat
    BY DEF Instr, Id
  <2> QED BY <2>1, <2>2, FirstAndRest
<1> HIDE DEF r
<1>2. Increasing(r)
  BY <1>1 DEF Increasing
<1>3. 1 \in 1..Len(q) /\ \A i \in 1..Len(q) : i # 1 => q[1].id < q[i].id
  BY <1>1 DEF Increasing
<1>4. \A n : n \in IdsOf(r) <=> n \in IdsOf(q) /\ n # q[1].id
  <2>1. ASSUME NEW n, n \in IdsOf(r)
        PROVE  n \in IdsOf(q) /\ n # q[1].id
    <3>1. PICK i \in 1..Len(r) : n = r[i].id
      BY <2>1 DEF IdsOf
    <3>2. i + 1 \in 1..Len(q) /\ i + 1 # 1 /\ n = q[i + 1].id
      BY <1>1, <3>1
    <3> QED BY <1>1, <1>3, <3>2 DEF IdsOf
  <2>2. ASSUME NEW n, n \in IdsOf(q), n # q[1].id
        PROVE  n \in IdsOf(r)
    <3>1. PICK i \in 1..Len(q) : n = q[i].id
      BY <2>2 DEF IdsOf
    <3>2. i - 1 \in 1..Len(r) /\ r[i - 1] = q[i]
      <4>1. i # 1
        BY <2>2, <3>1
      <4>2. i - 1 \in 1..Len(r) /\ (i - 1) + 1 = i
        BY <1>1, <4>1
      <4> QED BY <1>1, <4>2
    <3> QED BY <3>1, <3>2 DEF IdsOf
  <2> QED BY <2>1, <2>2
<1>5. IdsOf(r) = IdsOf(q) \ {q[1].id}
  BY <1>4
<1>6. q[1].id \in IdsOf(q)
  BY <1>3 DEF IdsOf
<1>7. \A n \in IdsOf(q) : q[1].id <= n
  BY <1>1, <1>3 DEF IdsOf
<1> QED BY <1>2, <1>5, <1>6, <1>7 DEF r

-----------------------------------------------------------------------------
(* The DIB *)

Entry == [tag : Window, data : {TRUE}]

Ways == Seq(Entry)

LEMMA WithoutOne ==
  ASSUME NEW S, NEW t \in Seq(S), NEW i \in 1..Len(t)
  PROVE  /\ SubSeq(t, 1, i - 1) \o SubSeq(t, i + 1, Len(t)) \in Seq(S)
         /\ Len(SubSeq(t, 1, i - 1) \o SubSeq(t, i + 1, Len(t))) = Len(t) - 1
<1>1. Len(t) \in Nat /\ \A j \in 1..Len(t) : t[j] \in S
  BY Elements
<1>2. /\ SubSeq(t, 1, i - 1) \in Seq(S)
      /\ Len(SubSeq(t, 1, i - 1)) = IF 1 <= i - 1 THEN (i - 1) - 1 + 1 ELSE 0
  <2>1. 1 \in Int /\ i - 1 \in Int /\ \A j \in 1..(i - 1) : t[j] \in S
    BY <1>1
  <2> QED BY <2>1, SubSeqProperties
<1>3. /\ SubSeq(t, i + 1, Len(t)) \in Seq(S)
      /\ Len(SubSeq(t, i + 1, Len(t))) = IF i + 1 <= Len(t) THEN Len(t) - (i + 1) + 1 ELSE 0
  <2>1. i + 1 \in Int /\ Len(t) \in Int /\ \A j \in (i + 1)..Len(t) : t[j] \in S
    BY <1>1
  <2> QED BY <2>1, SubSeqProperties
<1> DEFINE front == SubSeq(t, 1, i - 1)
           back == SubSeq(t, i + 1, Len(t))
<1>4. front \o back \in Seq(S) /\ Len(front \o back) = Len(front) + Len(back)
  BY <1>2, <1>3, ConcatProperties
<1>5. Len(front) = i - 1 /\ Len(back) = Len(t) - i
  <2> HIDE DEF front, back
  <2>1. /\ Len(front) = IF 1 <= i - 1 THEN (i - 1) - 1 + 1 ELSE 0
        /\ Len(back) = IF i + 1 <= Len(t) THEN Len(t) - (i + 1) + 1 ELSE 0
    BY <1>2, <1>3 DEF front, back
  <2> QED BY <1>1, <2>1
<1> HIDE DEF front, back
<1>6. Len(front \o back) = Len(t) - 1
  BY <1>1, <1>4, <1>5
<1> QED BY <1>4, <1>6 DEF front, back

LEMMA LruChecked ==
  ASSUME NEW t \in Ways, NEW tag \in Window
  PROVE  Lru!Checked(t, tag) \in Ways /\ Len(Lru!Checked(t, tag)) = Len(t)
<1>1. CASE Lru!Holds(t, tag)
  <2> DEFINE i == CHOOSE i \in Lru!WaysOf(t, tag) : TRUE
             kept == SubSeq(t, 1, i - 1) \o SubSeq(t, i + 1, Len(t))
  <2>1. i \in 1..Len(t) /\ Len(t) \in Nat /\ t[i] \in Entry
    <3>1. i \in 1..Len(t)
      BY <1>1 DEF Lru!Holds, Lru!WaysOf
    <3> HIDE DEF i
    <3> QED BY <3>1, Elements DEF Ways
  <2>2. Lru!Checked(t, tag) = Append(kept, t[i])
    BY <1>1 DEF Lru!Checked, Lru!RemoveAt
  <2> HIDE DEF i
  <2>3. kept \in Ways /\ Len(kept) = Len(t) - 1
    BY <2>1, WithoutOne DEF Ways
  <2> HIDE DEF kept
  <2>4. Append(kept, t[i]) \in Ways /\ Len(Append(kept, t[i])) = Len(kept) + 1
    BY <2>1, <2>3, AppendProperties DEF Ways
  <2> QED BY <2>1, <2>2, <2>3, <2>4
<1>2. CASE ~Lru!Holds(t, tag)
  BY <1>2 DEF Lru!Checked
<1> QED BY <1>1, <1>2

LEMMA LruFilled ==
  ASSUME NEW t \in Ways, Len(t) <= DIB_WAYS, NEW tag \in Window
  PROVE  /\ Lru!Filled(t, DIB_WAYS, tag, TRUE) \in Ways
         /\ Len(Lru!Filled(t, DIB_WAYS, tag, TRUE)) <= DIB_WAYS
<1> DEFINE e == [tag |-> tag, data |-> TRUE]
<1>1. Len(t) \in Nat /\ e \in Entry
  BY LenProperties DEF Ways, Entry
<1> HIDE DEF e
<1>2. ASSUME NEW kept \in Ways, Len(kept) < DIB_WAYS
      PROVE  Append(kept, e) \in Ways /\ Len(Append(kept, e)) <= DIB_WAYS
  <2>1. Append(kept, e) \in Ways /\ Len(Append(kept, e)) = Len(kept) + 1
    BY <1>1, AppendProperties DEF Ways
  <2> QED BY <1>2, <2>1, LenProperties DEF Ways
<1>3. CASE Lru!Holds(t, tag)
  <2> DEFINE i == CHOOSE i \in Lru!WaysOf(t, tag) : TRUE
             kept == SubSeq(t, 1, i - 1) \o SubSeq(t, i + 1, Len(t))
  <2>1. i \in 1..Len(t)
    BY <1>3 DEF Lru!Holds, Lru!WaysOf
  <2>2. Lru!Filled(t, DIB_WAYS, tag, TRUE) = Append(kept, e)
    BY <1>3 DEF Lru!Filled, Lru!RemoveAt, e
  <2> HIDE DEF i
  <2>3. kept \in Ways /\ Len(kept) = Len(t) - 1
    BY <2>1, WithoutOne DEF Ways
  <2> HIDE DEF kept
  <2>4. Len(kept) < DIB_WAYS
    BY <1>1, <2>3
  <2> QED BY <1>2, <2>2, <2>3, <2>4
<1>4. CASE ~Lru!Holds(t, tag) /\ Len(t) < DIB_WAYS
  <2>1. Lru!Filled(t, DIB_WAYS, tag, TRUE) = Append(t, e)
    BY <1>4 DEF Lru!Filled, e
  <2> QED BY <1>2, <1>4, <2>1
<1>5. CASE ~Lru!Holds(t, tag) /\ ~(Len(t) < DIB_WAYS)
  <2>1. t # <<>> /\ Lru!Filled(t, DIB_WAYS, tag, TRUE) = Append(Tail(t), e)
    BY <1>1, <1>5, EmptySeq DEF Lru!Filled, e
  <2>2. Tail(t) \in Ways /\ Len(Tail(t)) = Len(t) - 1
    BY <2>1, HeadTailProperties DEF Ways
  <2>3. Len(Tail(t)) < DIB_WAYS
    BY <1>1, <1>5, <2>2
  <2> QED BY <1>2, <2>1, <2>2, <2>3
<1> QED BY <1>3, <1>4, <1>5

-----------------------------------------------------------------------------
(* Steps that change an instruction of the fetch buffer where it is *)

LEMMA Types ==
  ASSUME TypeOK
  PROVE  /\ entered \in Nat /\ left \in Nat /\ left <= entered /\ promoted \in Int /\ dispatched \in Int
         /\ Len(IFETCH_BUFFER) \in Nat /\ Len(DIB_HIT_BUFFER) \in Nat
         /\ Len(DECODE_BUFFER) \in Nat /\ Len(DISPATCH_BUFFER) \in Nat
         /\ \A i \in 1..Len(IFETCH_BUFFER) : IFETCH_BUFFER[i] \in Instr
         /\ \A i \in 1..Len(DIB_HIT_BUFFER) : DIB_HIT_BUFFER[i] \in Instr
         /\ \A i \in 1..Len(DECODE_BUFFER) : DECODE_BUFFER[i] \in Instr
         /\ \A i \in 1..Len(DISPATCH_BUFFER) : DISPATCH_BUFFER[i] \in Instr
<1>1. /\ Len(IFETCH_BUFFER) \in Nat /\ Len(DIB_HIT_BUFFER) \in Nat
      /\ Len(DECODE_BUFFER) \in Nat /\ Len(DISPATCH_BUFFER) \in Nat
      /\ \A i \in 1..Len(IFETCH_BUFFER) : IFETCH_BUFFER[i] \in Instr
      /\ \A i \in 1..Len(DIB_HIT_BUFFER) : DIB_HIT_BUFFER[i] \in Instr
      /\ \A i \in 1..Len(DECODE_BUFFER) : DECODE_BUFFER[i] \in Instr
      /\ \A i \in 1..Len(DISPATCH_BUFFER) : DISPATCH_BUFFER[i] \in Instr
  BY Elements DEF TypeOK
<1> QED BY <1>1 DEF TypeOK, promoted, dispatched

\* Each entry stays the instruction it was, whatever becomes of its flags.
SameStream(q, r) ==
  /\ Len(r) = Len(q)
  /\ \A i \in 1..Len(q) : /\ r[i].id = q[i].id /\ r[i].ip = q[i].ip
                          /\ r[i].branch_mispredicted = q[i].branch_mispredicted

LEMMA StreamKept ==
  ASSUME Inv, SameStream(IFETCH_BUFFER, IFETCH_BUFFER'),
         UNCHANGED <<DIB_HIT_BUFFER, DECODE_BUFFER, DISPATCH_BUFFER, fetch_stopped, entered, left, backend>>
  PROVE  InOrder' /\ Stops'
<1>1. promoted' = promoted /\ dispatched' = dispatched
  BY DEF promoted, dispatched, SameStream
<1>2. InOrder'
  <2>1. \A i \in 1..Len(IFETCH_BUFFER') : IFETCH_BUFFER'[i].id = promoted' + i
    BY <1>1 DEF Inv, InOrder, SameStream
  <2>2. /\ UNCHANGED <<IdsOf(DIB_HIT_BUFFER), IdsOf(DECODE_BUFFER)>>
        /\ Increasing(DIB_HIT_BUFFER)' /\ Increasing(DECODE_BUFFER)'
    BY DEF Inv, InOrder, IdsOf
  <2> QED BY <1>1, <2>1, <2>2 DEF Inv, InOrder
<1>3. Missed(IFETCH_BUFFER)' = Missed(IFETCH_BUFFER)
  BY DEF Missed, SameStream
<1>4. StopsFor(IFETCH_BUFFER)'
  BY <1>3 DEF Inv, Stops, StopsFor, SameStream, Missed
<1>5. Stops'
  BY <1>1, <1>3, <1>4 DEF Inv, Stops, StopsFor, Missed
<1> QED BY <1>2, <1>5

Waits(x) == x.fetch_issued /\ ~x.fetch_completed

Names(p, x) == p.v_address = BlockOf[x.ip] /\ x.id \in p.instr_depend_on_me

LEMMA Owed ==
  EveryFetchIsOwed <=>
    \A i \in 1..Len(IFETCH_BUFFER) : Waits(IFETCH_BUFFER[i]) =>
      \E p \in requests \cup ToSet(returned) : Names(p, IFETCH_BUFFER[i])
BY DEF EveryFetchIsOwed, Waits, Names

LEMMA OwedNext ==
  ASSUME \A i \in 1..Len(IFETCH_BUFFER') : Waits(IFETCH_BUFFER'[i]) =>
           \E p \in requests' \cup ToSet(returned') : Names(p, IFETCH_BUFFER'[i])
  PROVE  EveryFetchIsOwed'
BY DEF EveryFetchIsOwed, Waits, Names

LEMMA CheckDIBKeeps ==
  ASSUME Inv, CheckDIB
  PROVE  Inv' /\ SameStream(IFETCH_BUFFER, IFETCH_BUFFER')
<1> DEFINE q == IFETCH_BUFFER
<1>1. PICK i \in 1..Len(q) :
        /\ q' = [q EXCEPT ![i].dib_checked = TRUE,
                          ![i].fetch_completed = @ \/ Lru!Holds(DIB, q[i].ip),
                          ![i].decoded = @ \/ Lru!Holds(DIB, q[i].ip)]
        /\ DIB' = Lru!Checked(DIB, q[i].ip)
  BY DEF CheckDIB
<1>2. UNCHANGED <<DIB_HIT_BUFFER, DECODE_BUFFER, DISPATCH_BUFFER, fetch_stopped, entered, left, l1i, backend>>
  BY DEF CheckDIB
<1> DEFINE x == [q[i] EXCEPT !.dib_checked = TRUE,
                             !.fetch_completed = @ \/ Lru!Holds(DIB, q[i].ip),
                             !.decoded = @ \/ Lru!Holds(DIB, q[i].ip)]
<1>3. q \in Seq(Instr) /\ q[i] \in Instr /\ Len(q) \in Nat
  BY Types DEF Inv, TypeOK
<1>4. Lru!Holds(DIB, q[i].ip) \in BOOLEAN
  BY DEF Lru!Holds
<1>5. /\ x \in Instr /\ x.id = q[i].id /\ x.ip = q[i].ip
      /\ x.branch_mispredicted = q[i].branch_mispredicted /\ (Waits(x) => Waits(q[i]))
  BY <1>3, <1>4 DEF Instr, Waits
<1>6. q' = [q EXCEPT ![i] = x]
  BY <1>1
<1> HIDE DEF x
<1>7. /\ q' \in Seq(Instr) /\ Len(q') = Len(q)
      /\ \A j \in 1..Len(q) : q'[j] = IF j = i THEN x ELSE q[j]
  BY <1>3, <1>5, <1>6, ExceptSeq
<1>8. SameStream(IFETCH_BUFFER, IFETCH_BUFFER')
  BY <1>5, <1>7 DEF SameStream
<1>9. InOrder' /\ Stops'
  BY <1>2, <1>8, StreamKept
<1>10. EveryFetchIsOwed'
  <2>1. ASSUME NEW j \in 1..Len(q'), Waits(q'[j])
        PROVE  \E p \in requests' \cup ToSet(returned') : Names(p, q'[j])
    <3>1. j \in 1..Len(q) /\ Waits(q[j]) /\ q'[j].id = q[j].id /\ q'[j].ip = q[j].ip
      BY <1>5, <1>7, <2>1
    <3>2. \E p \in requests \cup ToSet(returned) : Names(p, q[j])
      BY <3>1, Owed DEF Inv
    <3> QED BY <1>2, <3>1, <3>2 DEF Names, l1i
  <2> QED BY <2>1, OwedNext
<1>11. TypeOK'
  <2>1. DIB \in Ways /\ Len(DIB) <= DIB_WAYS /\ q[i].ip \in Window
    BY <1>3 DEF Inv, TypeOK, Ways, Entry, Instr
  <2>2. DIB' \in Ways /\ Len(DIB') = Len(DIB)
    BY <1>1, <2>1, LruChecked
  <2> QED BY <1>2, <1>7, <2>1, <2>2 DEF Inv, TypeOK, Ways, Entry, l1i
<1> QED BY <1>8, <1>9, <1>10, <1>11 DEF Inv

LEMMA FetchChunkKeeps ==
  ASSUME Inv, NEW i \in 1..Len(IFETCH_BUFFER), FetchChunk(i)
  PROVE  Inv' /\ SameStream(IFETCH_BUFFER, IFETCH_BUFFER')
<1> DEFINE q == IFETCH_BUFFER
           c == [v_address |-> BlockOf[q[i].ip], instr_depend_on_me |-> {q[j].id : j \in Chunk(i)}]
<1>1. /\ requests' = requests \cup {c}
      /\ q' = [j \in 1..Len(q) |-> IF j \in Chunk(i) THEN [q[j] EXCEPT !.fetch_issued = TRUE] ELSE q[j]]
      /\ UNCHANGED <<DIB_HIT_BUFFER, DECODE_BUFFER, DISPATCH_BUFFER, DIB, fetch_stopped, entered, left,
                     returned, backend>>
  BY DEF FetchChunk
<1>2. q \in Seq(Instr) /\ Len(q) \in Nat /\ \A j \in 1..Len(q) : q[j] \in Instr
  BY Types DEF Inv, TypeOK
<1>3. \A j \in Chunk(i) : j \in 1..Len(q) /\ BlockOf[q[j].ip] = BlockOf[q[i].ip]
  BY <1>2 DEF Chunk, SameBlock
<1>4. \A x \in Instr : /\ [x EXCEPT !.fetch_issued = TRUE] \in Instr
                       /\ [x EXCEPT !.fetch_issued = TRUE].id = x.id
                       /\ [x EXCEPT !.fetch_issued = TRUE].ip = x.ip
                       /\ [x EXCEPT !.fetch_issued = TRUE].branch_mispredicted = x.branch_mispredicted
  BY DEF Instr
<1>5. \A j \in 1..Len(q) : /\ q'[j] \in Instr /\ q'[j].id = q[j].id /\ q'[j].ip = q[j].ip
                           /\ q'[j].branch_mispredicted = q[j].branch_mispredicted
                           /\ (j \notin Chunk(i) => q'[j] = q[j])
  BY <1>1, <1>2, <1>4
<1>6. q' \in Seq(Instr) /\ Len(q') = Len(q)
  <2>1. q' \in [1..Len(q) -> Instr]
    BY <1>1, <1>5
  <2> QED BY <1>2, <2>1, IsSeq
<1>7. SameStream(IFETCH_BUFFER, IFETCH_BUFFER')
  BY <1>5, <1>6 DEF SameStream
<1>8. InOrder' /\ Stops'
  BY <1>1, <1>7, StreamKept
<1>9. EveryFetchIsOwed'
  <2>1. ASSUME NEW j \in 1..Len(q'), Waits(q'[j])
        PROVE  \E p \in requests' \cup ToSet(returned') : Names(p, q'[j])
    <3>1. CASE j \in Chunk(i)
      <4>1. c.v_address = BlockOf[q'[j].ip] /\ q'[j].id \in c.instr_depend_on_me
        BY <1>3, <1>5, <1>6, <2>1, <3>1
      <4> HIDE DEF c
      <4> QED BY <1>1, <4>1 DEF Names
    <3>2. CASE j \notin Chunk(i)
      <4>1. \E p \in requests \cup ToSet(returned) : Names(p, q[j])
        BY <1>5, <1>6, <2>1, <3>2, Owed DEF Inv
      <4> HIDE DEF c
      <4> QED BY <1>1, <1>5, <1>6, <2>1, <3>2, <4>1
    <3> QED BY <3>1, <3>2
  <2> QED BY <2>1, OwedNext
<1>10. TypeOK'
  <2>1. c \in Packet
    <3>1. {q[j].id : j \in Chunk(i)} \in SUBSET Id
      BY <1>2, <1>3 DEF Instr
    <3>2. BlockOf[q[i].ip] \in Block
      BY <1>2 DEF Instr
    <3> QED BY <3>1, <3>2 DEF Packet
  <2> HIDE DEF c
  <2> QED BY <1>1, <1>6, <2>1 DEF Inv, TypeOK
<1> QED BY <1>7, <1>8, <1>9, <1>10 DEF Inv

LEMMA HandleReturnKeeps ==
  ASSUME Inv, HandleReturn
  PROVE  Inv' /\ SameStream(IFETCH_BUFFER, IFETCH_BUFFER')
<1> DEFINE q == IFETCH_BUFFER
           p == returned[1]
           least == Min(p.instr_depend_on_me)
           rest == p.instr_depend_on_me \ {least}
<1>1. /\ returned # <<>>
      /\ q' = [j \in 1..Len(q) |-> IF j \in Named(Head(returned)) THEN [q[j] EXCEPT !.fetch_completed = TRUE]
                                                                  ELSE q[j]]
      /\ returned' = Served(Head(returned))
      /\ UNCHANGED <<DIB_HIT_BUFFER, DECODE_BUFFER, DISPATCH_BUFFER, DIB, fetch_stopped, entered, left,
                     requests, backend>>
  BY DEF HandleReturn
<1>2. q \in Seq(Instr) /\ Len(q) \in Nat /\ \A j \in 1..Len(q) : q[j] \in Instr
  BY Types DEF Inv, TypeOK
<1>3. /\ returned \in Seq(Packet) /\ Head(returned) = p /\ p \in Packet /\ Len(returned) \in Nat \ {0}
      /\ Tail(returned) \in Seq(Packet) /\ Len(Tail(returned)) = Len(returned) - 1
      /\ \A k \in 1..Len(Tail(returned)) : Tail(returned)[k] = returned[k + 1]
  <2>1. returned \in Seq(Packet)
    BY DEF Inv, TypeOK
  <2> QED BY <1>1, <2>1, FirstAndRest
<1>4. \A x \in Instr : /\ [x EXCEPT !.fetch_completed = TRUE] \in Instr
                       /\ [x EXCEPT !.fetch_completed = TRUE].id = x.id
                       /\ [x EXCEPT !.fetch_completed = TRUE].ip = x.ip
                       /\ [x EXCEPT !.fetch_completed = TRUE].branch_mispredicted = x.branch_mispredicted
                       /\ ~Waits([x EXCEPT !.fetch_completed = TRUE])
  BY DEF Instr, Waits
<1>5. \A j \in 1..Len(q) : /\ q'[j] \in Instr /\ q'[j].id = q[j].id /\ q'[j].ip = q[j].ip
                           /\ q'[j].branch_mispredicted = q[j].branch_mispredicted
                           /\ (Waits(q'[j]) => q'[j] = q[j] /\ j \notin Named(p))
  BY <1>1, <1>2, <1>3, <1>4
<1>6. q' \in Seq(Instr) /\ Len(q') = Len(q)
  <2>1. q' \in [1..Len(q) -> Instr]
    BY <1>1, <1>5
  <2> QED BY <1>2, <2>1, IsSeq
<1>7. SameStream(IFETCH_BUFFER, IFETCH_BUFFER')
  BY <1>5, <1>6 DEF SameStream
<1>8. InOrder' /\ Stops'
  BY <1>1, <1>7, StreamKept
<1>9. /\ returned' \in Seq(Packet)
      /\ \A k \in 2..Len(returned) : returned[k] \in ToSet(returned')
      /\ rest # {} => \E s \in ToSet(returned') : s.v_address = p.v_address /\ s.instr_depend_on_me = rest
  <2>1. ToSet(Tail(returned)) = {returned[k] : k \in 2..Len(returned)}
    <3>1. \A x : x \in ToSet(Tail(returned)) <=> \E k \in 1..Len(Tail(returned)) : x = Tail(returned)[k]
      BY <1>3, Elements DEF ToSet
    <3>2. \A x : (\E k \in 1..Len(Tail(returned)) : x = Tail(returned)[k])
                   <=> \E k \in 2..Len(returned) : x = returned[k]
      <4>1. ASSUME NEW x, NEW k \in 1..Len(Tail(returned)), x = Tail(returned)[k]
            PROVE  \E l \in 2..Len(returned) : x = returned[l]
        <5>1. k + 1 \in 2..Len(returned) /\ x = returned[k + 1]
          BY <1>3, <4>1
        <5> QED BY <5>1
      <4>2. ASSUME NEW x, NEW l \in 2..Len(returned), x = returned[l]
            PROVE  \E k \in 1..Len(Tail(returned)) : x = Tail(returned)[k]
        <5>1. l - 1 \in 1..Len(Tail(returned)) /\ (l - 1) + 1 = l
          BY <1>3
        <5> QED BY <1>3, <4>2, <5>1
      <4> QED BY <4>1, <4>2
    <3> QED BY <3>1, <3>2
  <2>2. CASE rest = {}
    <3>1. returned' = Tail(returned)
      BY <1>1, <1>3, <2>2 DEF Served
    <3> QED BY <1>3, <2>1, <2>2, <3>1
  <2>3. CASE rest # {}
    <3> DEFINE s == [p EXCEPT !.instr_depend_on_me = rest]
    <3>1. s \in Packet /\ s.v_address = p.v_address /\ s.instr_depend_on_me = rest
      BY <1>3 DEF Packet
    <3>2. returned' = <<s>> \o Tail(returned)
      BY <1>1, <1>3, <2>3 DEF Served
    <3> HIDE DEF s, rest
    <3>3. /\ <<s>> \in Seq(Packet) /\ Len(<<s>>) = 1 /\ <<s>>[1] = s
      BY <3>1
    <3>4. /\ returned' \in Seq(Packet) /\ Len(returned') = 1 + Len(Tail(returned))
          /\ \A k \in 1..(1 + Len(Tail(returned))) :
               returned'[k] = IF k <= 1 THEN <<s>>[k] ELSE Tail(returned)[k - 1]
      BY <1>3, <3>2, <3>3, ConcatProperties
    <3>5. Len(returned') = Len(returned) /\ DOMAIN returned' = 1..Len(returned')
      BY <1>3, <3>4, Elements
    <3>6. s \in ToSet(returned')
      <4>1. 1 \in DOMAIN returned' /\ returned'[1] = s
        BY <1>3, <3>3, <3>4, <3>5
      <4> QED BY <4>1 DEF ToSet
    <3>7. \A k \in 2..Len(returned) : returned[k] \in ToSet(returned')
      <4> SUFFICES ASSUME NEW k \in 2..Len(returned)
                   PROVE  returned[k] \in ToSet(returned')
        OBVIOUS
      <4>1. k - 1 \in 1..Len(Tail(returned)) /\ (k - 1) + 1 = k /\ k \in 1..(1 + Len(Tail(returned))) /\ ~(k <= 1)
        BY <1>3
      <4>2. k \in DOMAIN returned' /\ returned'[k] = returned[k]
        BY <1>3, <3>4, <3>5, <4>1
      <4> QED BY <4>2 DEF ToSet
    <3> QED BY <3>1, <3>4, <3>6, <3>7
  <2> QED BY <2>2, <2>3
<1>10. EveryFetchIsOwed'
  <2> HIDE DEF p
  <2>1. ASSUME NEW j \in 1..Len(q'), Waits(q'[j])
        PROVE  \E r \in requests' \cup ToSet(returned') : Names(r, q'[j])
    <3>1. j \in 1..Len(q) /\ q'[j] = q[j] /\ j \notin Named(p)
      BY <1>5, <1>6, <2>1
    <3>2. PICK r \in requests \cup ToSet(returned) : Names(r, q[j])
      BY <2>1, <3>1, Owed DEF Inv
    <3>3. CASE r \in requests
      BY <1>1, <3>1, <3>2, <3>3
    <3>4. CASE r = p
      <4>1. q[j].id # least
        BY <2>1, <3>1, <3>2, <3>4 DEF Named, Names, Waits
      <4>2. q[j].id \in rest
        BY <3>2, <3>4, <4>1 DEF Names
      <4> HIDE DEF rest, least
      <4>3. PICK s \in ToSet(returned') : s.v_address = p.v_address /\ s.instr_depend_on_me = rest
        BY <1>9, <4>2
      <4>4. Names(s, q'[j])
        BY <3>1, <3>2, <3>4, <4>2, <4>3 DEF Names
      <4> QED BY <4>4
    <3>5. CASE r \in ToSet(returned) /\ r # p
      <4>1. PICK k \in 1..Len(returned) : r = returned[k]
        BY <1>3, <3>5, Elements DEF ToSet
      <4>2. k \in 2..Len(returned)
        BY <1>3, <3>5, <4>1 DEF p
      <4> QED BY <1>9, <3>1, <3>2, <4>1, <4>2
    <3> QED BY <3>2, <3>3, <3>4, <3>5
  <2> QED BY <2>1, OwedNext
<1>11. TypeOK'
  BY <1>1, <1>6, <1>9 DEF Inv, TypeOK
<1> QED BY <1>7, <1>8, <1>10, <1>11 DEF Inv

\* The L1I: what is answered is named by the response instead.
LEMMA L1IAnswersKeeps ==
  ASSUME Inv, NEW S \in SUBSET requests, L1IAnswers(S)
  PROVE  Inv'
<1>1. /\ \A x, y \in S : x.v_address = y.v_address
      /\ requests' = requests \ S
      /\ UNCHANGED <<buffers, DIB, fetch_stopped, entered, left, backend>>
  BY DEF L1IAnswers
<1>2. PICK z \in S :
        returned' = Append(returned, [v_address |-> z.v_address,
                                      instr_depend_on_me |-> UNION {y.instr_depend_on_me : y \in S}])
  BY DEF L1IAnswers
<1> DEFINE c == [v_address |-> z.v_address, instr_depend_on_me |-> UNION {y.instr_depend_on_me : y \in S}]
<1>3. c \in Packet
  <2>1. \A y \in S : y \in Packet
    BY DEF Inv, TypeOK
  <2>2. UNION {y.instr_depend_on_me : y \in S} \in SUBSET Id
    BY <2>1 DEF Packet
  <2> QED BY <2>1, <2>2 DEF Packet
<1>4. \A y \in S : y.v_address = c.v_address /\ y.instr_depend_on_me \subseteq c.instr_depend_on_me
  BY <1>1
<1> HIDE DEF c
<1>5. returned \in Seq(Packet) /\ returned' = Append(returned, c)
  BY <1>2 DEF Inv, TypeOK, c
<1>6. /\ returned' \in Seq(Packet) /\ Len(returned') = Len(returned) + 1 /\ Len(returned) \in Nat
      /\ \A k \in 1..Len(returned) : returned'[k] = returned[k]
      /\ returned'[Len(returned) + 1] = c
  BY <1>3, <1>5, AppendProperties, LenProperties
<1>7. /\ c \in ToSet(returned')
      /\ \A p \in ToSet(returned) : p \in ToSet(returned')
  <2>1. DOMAIN returned = 1..Len(returned) /\ DOMAIN returned' = 1..Len(returned')
    BY <1>5, <1>6, Elements
  <2> QED BY <1>6, <2>1 DEF ToSet
<1>8. EveryFetchIsOwed'
  <2>1. ASSUME NEW i \in 1..Len(IFETCH_BUFFER'), Waits(IFETCH_BUFFER'[i])
        PROVE  \E p \in requests' \cup ToSet(returned') : Names(p, IFETCH_BUFFER'[i])
    <3>1. PICK p \in requests \cup ToSet(returned) : Names(p, IFETCH_BUFFER[i])
      BY <1>1, <2>1, Owed DEF Inv, buffers
    <3>2. CASE p \in S
      <4>1. Names(c, IFETCH_BUFFER[i])
        BY <1>4, <3>1, <3>2 DEF Names
      <4> QED BY <1>1, <1>7, <4>1 DEF buffers
    <3>3. CASE p \notin S
      BY <1>1, <1>7, <3>1, <3>3 DEF buffers
    <3> QED BY <3>2, <3>3
  <2> QED BY <2>1, OwedNext
<1>9. TypeOK'
  BY <1>1, <1>6 DEF Inv, TypeOK, buffers
<1>10. InOrder' /\ Stops'
  BY <1>1, StreamKept DEF SameStream, buffers
<1> QED BY <1>8, <1>9, <1>10 DEF Inv

-----------------------------------------------------------------------------
(* Steps that move instructions *)

\* Where the instructions of the buffers stand in the program.
LEMMA Places ==
  ASSUME TypeOK, InOrder
  PROVE  /\ \A i \in 1..Len(IFETCH_BUFFER) : promoted < IFETCH_BUFFER[i].id /\ IFETCH_BUFFER[i].id <= entered
         /\ \A i \in 1..Len(DIB_HIT_BUFFER) :
              left < DIB_HIT_BUFFER[i].id /\ DIB_HIT_BUFFER[i].id <= promoted
                /\ DIB_HIT_BUFFER[i].id \in IdsOf(DIB_HIT_BUFFER)
         /\ \A i \in 1..Len(DECODE_BUFFER) :
              left < DECODE_BUFFER[i].id /\ DECODE_BUFFER[i].id <= promoted
                /\ DECODE_BUFFER[i].id \in IdsOf(DECODE_BUFFER)
         /\ \A i \in 1..Len(DISPATCH_BUFFER) :
              dispatched < DISPATCH_BUFFER[i].id /\ DISPATCH_BUFFER[i].id <= left
         /\ promoted \in Nat /\ dispatched \in Nat /\ promoted <= entered /\ dispatched <= left
<1>1. /\ \A i \in 1..Len(DIB_HIT_BUFFER) : DIB_HIT_BUFFER[i].id \in IdsOf(DIB_HIT_BUFFER)
      /\ \A i \in 1..Len(DECODE_BUFFER) : DECODE_BUFFER[i].id \in IdsOf(DECODE_BUFFER)
  BY DEF IdsOf
<1>2. \A n \in IdsOf(DIB_HIT_BUFFER) \cup IdsOf(DECODE_BUFFER) : n \in (left + 1)..promoted
  BY DEF InOrder
<1>3. \A n \in (left + 1)..promoted : left < n /\ n <= promoted
  BY Types
<1>4. promoted + Len(IFETCH_BUFFER) = entered /\ dispatched + Len(DISPATCH_BUFFER) = left
  BY Types DEF promoted, dispatched
<1>5. promoted \in Nat /\ dispatched \in Nat /\ promoted <= entered /\ dispatched <= left
  BY <1>4, Types DEF InOrder
<1>6. ASSUME NEW i \in 1..Len(IFETCH_BUFFER)
      PROVE  promoted < IFETCH_BUFFER[i].id /\ IFETCH_BUFFER[i].id <= entered
  <2>1. IFETCH_BUFFER[i].id = promoted + i
    BY DEF InOrder
  <2> HIDE DEF promoted
  <2> QED BY <1>4, <1>5, <2>1, Types
<1>7. ASSUME NEW i \in 1..Len(DISPATCH_BUFFER)
      PROVE  dispatched < DISPATCH_BUFFER[i].id /\ DISPATCH_BUFFER[i].id <= left
  <2>1. DISPATCH_BUFFER[i].id = dispatched + i
    BY DEF InOrder
  <2> HIDE DEF dispatched
  <2> QED BY <1>4, <1>5, <2>1, Types
<1> QED BY <1>1, <1>2, <1>3, <1>5, <1>6, <1>7

LEMMA InitializeInstructionKeeps ==
  ASSUME Inv, NEW w \in Window, NEW b \in Branch, InitializeInstruction(w, b)
  PROVE  Inv'
<1> DEFINE q == IFETCH_BUFFER
           x == [id |-> entered + 1, ip |-> w, branch_mispredicted |-> b, dib_checked |-> FALSE,
                 fetch_issued |-> FALSE, fetch_completed |-> FALSE, decoded |-> FALSE]
<1>1. /\ ~fetch_stopped /\ entered < MaxInstr /\ Len(q) < IFETCH_BUFFER_SIZE
      /\ entered' = entered + 1 /\ q' = Append(q, x) /\ fetch_stopped' = (b # "none")
      /\ UNCHANGED <<DIB_HIT_BUFFER, DECODE_BUFFER, DISPATCH_BUFFER, DIB, left, l1i, backend>>
  BY DEF InitializeInstruction
<1>2. /\ entered \in Nat /\ entered + 1 \in Id /\ q \in Seq(Instr) /\ Len(q) \in Nat
      /\ \A i \in 1..Len(q) : q[i] \in Instr
  BY <1>1, Types DEF Inv, TypeOK, Id
<1>3. x \in Instr /\ x.id = entered + 1 /\ x.branch_mispredicted = b /\ ~Waits(x)
  BY <1>2 DEF Instr, Waits
<1> HIDE DEF x
<1>4. /\ q' \in Seq(Instr) /\ Len(q') = Len(q) + 1
      /\ \A i \in 1..Len(q) : q'[i] = q[i]
      /\ q'[Len(q) + 1] = x
      /\ \A i \in 1..Len(q') : i \in 1..Len(q) \/ i = Len(q) + 1
  <2>1. /\ Append(q, x) \in Seq(Instr) /\ Len(Append(q, x)) = Len(q) + 1
        /\ \A i \in 1..Len(q) : Append(q, x)[i] = q[i]
        /\ Append(q, x)[Len(q) + 1] = x
    BY <1>2, <1>3, AppendProperties
  <2> QED BY <1>1, <1>2, <2>1
<1>5. promoted' = promoted /\ dispatched' = dispatched /\ promoted \in Int
  BY <1>1, <1>2, <1>4 DEF promoted, dispatched
<1>6. InOrder'
  <2>1. promoted + Len(q) + 1 = entered + 1
    BY <1>2 DEF promoted
  <2>2. ASSUME NEW i \in 1..Len(q')
        PROVE  q'[i].id = promoted' + i
    <3>1. CASE i \in 1..Len(q)
      <4>1. q[i].id = promoted + i
        BY <3>1 DEF Inv, InOrder
      <4> QED BY <1>4, <1>5, <3>1, <4>1
    <3>2. CASE i = Len(q) + 1
      BY <1>2, <1>3, <1>4, <1>5, <2>1, <3>2
    <3> QED BY <1>4, <3>1, <3>2
  <2>3. /\ UNCHANGED <<IdsOf(DIB_HIT_BUFFER), IdsOf(DECODE_BUFFER)>>
        /\ Increasing(DIB_HIT_BUFFER)' /\ Increasing(DECODE_BUFFER)'
    BY <1>1 DEF Inv, InOrder, IdsOf
  <2> QED BY <1>1, <1>5, <2>2, <2>3 DEF Inv, InOrder
<1>7. Stops'
  <2>1. Missed(q) = {} /\ Missed(DIB_HIT_BUFFER) = {} /\ Missed(DECODE_BUFFER) = {}
          /\ Missed(DISPATCH_BUFFER) = {} /\ backend = {}
    BY <1>1 DEF Inv, Stops, StopsFor
  <2>2. \A i \in Missed(q') : i = Len(q) + 1 /\ b # "none"
    BY <1>3, <1>4, <2>1 DEF Missed
  <2>3. StopsFor(q)'
    BY <1>1, <1>3, <1>4, <2>2 DEF StopsFor
  <2>4. b # "none" => Len(q) + 1 \in Missed(q')
    BY <1>2, <1>3, <1>4 DEF Missed
  <2> QED BY <1>1, <2>1, <2>3, <2>4 DEF Stops, StopsFor, Missed
<1>8. EveryFetchIsOwed'
  <2>1. ASSUME NEW i \in 1..Len(q'), Waits(q'[i])
        PROVE  \E p \in requests' \cup ToSet(returned') : Names(p, q'[i])
    <3>1. i \in 1..Len(q) /\ q'[i] = q[i]
      BY <1>3, <1>4, <2>1
    <3> QED BY <1>1, <2>1, <3>1, Owed DEF Inv, l1i
  <2> QED BY <2>1, OwedNext
<1>9. TypeOK'
  BY <1>1, <1>2, <1>4 DEF Inv, TypeOK, l1i
<1> QED BY <1>6, <1>7, <1>8, <1>9 DEF Inv

-----------------------------------------------------------------------------
(* The mispredicted branches, as a set of ids *)

MissedIds(q) == {q[i].id : i \in Missed(q)}

Branches ==
  MissedIds(IFETCH_BUFFER) \cup MissedIds(DIB_HIT_BUFFER) \cup MissedIds(DECODE_BUFFER)
    \cup MissedIds(DISPATCH_BUFFER) \cup backend

LEMMA MissedIdsOf ==
  ASSUME NEW q, NEW n
  PROVE  n \in MissedIds(q) <=> \E i \in 1..Len(q) : q[i].branch_mispredicted # "none" /\ n = q[i].id
BY DEF MissedIds, Missed

\* Stops says where the branches are; Branches forgets it, but for the back end.
LEMMA StopsMeans ==
  Stops <=> /\ Branches = IF fetch_stopped THEN {entered} ELSE {}
            /\ \A b \in backend : b <= dispatched
<1>1. ASSUME NEW q
      PROVE  /\ StopsFor(q) <=> \A n \in MissedIds(q) : fetch_stopped /\ n = entered
             /\ Missed(q) # {} <=> MissedIds(q) # {}
  BY DEF StopsFor, MissedIds
<1>2. Stops <=> /\ \A n \in Branches : fetch_stopped /\ n = entered
                /\ \A b \in backend : b <= dispatched
                /\ fetch_stopped => Branches # {}
  BY <1>1 DEF Stops, Branches
<1>3. (/\ \A n \in Branches : fetch_stopped /\ n = entered
       /\ fetch_stopped => Branches # {})
        <=> Branches = IF fetch_stopped THEN {entered} ELSE {}
  <2> HIDE DEF Branches
  <2>1. CASE fetch_stopped
    BY <2>1
  <2>2. CASE ~fetch_stopped
    BY <2>2
  <2> QED BY <2>1, <2>2
<1> QED BY <1>2, <1>3

Missing(x) == IF x.branch_mispredicted = "none" THEN {} ELSE {x.id}

LEMMA MissedAppended ==
  ASSUME NEW q \in Seq(Instr), NEW x \in Instr
  PROVE  MissedIds(Append(q, x)) = MissedIds(q) \cup Missing(x)
<1> DEFINE r == Append(q, x)
<1>1. /\ Len(r) = Len(q) + 1 /\ Len(q) \in Nat
      /\ \A i \in 1..Len(q) : r[i] = q[i]
      /\ r[Len(q) + 1] = x
  BY AppendProperties, Elements
<1> HIDE DEF r
<1>2. \A i : i \in 1..Len(r) <=> i \in 1..Len(q) \/ i = Len(q) + 1
  BY <1>1
<1>3. \A n : n \in MissedIds(r) <=> n \in MissedIds(q) \/ n \in Missing(x)
  <2>1. ASSUME NEW n
        PROVE  n \in MissedIds(r) <=> n \in MissedIds(q) \/ n \in Missing(x)
    <3>1. n \in MissedIds(r) <=> \E i \in 1..Len(r) : r[i].branch_mispredicted # "none" /\ n = r[i].id
      BY MissedIdsOf
    <3>2. n \in MissedIds(q) <=> \E i \in 1..Len(q) : q[i].branch_mispredicted # "none" /\ n = q[i].id
      BY MissedIdsOf
    <3>3. n \in Missing(x) <=> x.branch_mispredicted # "none" /\ n = x.id
      BY DEF Missing
    <3> QED BY <1>1, <1>2, <3>1, <3>2, <3>3
  <2> QED BY <2>1
<1> QED BY <1>3 DEF r

LEMMA MissedTaken ==
  ASSUME NEW q \in Seq(Instr), q # <<>>
  PROVE  MissedIds(q) = MissedIds(Tail(q)) \cup Missing(q[1])
<1> DEFINE r == Tail(q)
<1>1. /\ Len(q) \in Nat \ {0} /\ Len(r) = Len(q) - 1
      /\ \A i \in 1..Len(r) : r[i] = q[i + 1]
  BY FirstAndRest
<1> HIDE DEF r
<1>2. \A i : i \in 1..Len(q) <=> i = 1 \/ \E j \in 1..Len(r) : i = j + 1
  <2>1. ASSUME NEW i \in 1..Len(q), i # 1
        PROVE  \E j \in 1..Len(r) : i = j + 1
    <3>1. i - 1 \in 1..Len(r) /\ i = (i - 1) + 1
      BY <1>1, <2>1
    <3> QED BY <3>1
  <2>2. ASSUME NEW j \in 1..Len(r)
        PROVE  j + 1 \in 1..Len(q)
    BY <1>1
  <2>3. 1 \in 1..Len(q)
    BY <1>1
  <2> QED BY <2>1, <2>2, <2>3
<1>3. \A n : n \in MissedIds(q) <=> n \in MissedIds(r) \/ n \in Missing(q[1])
  <2>1. ASSUME NEW n
        PROVE  n \in MissedIds(q) <=> n \in MissedIds(r) \/ n \in Missing(q[1])
    <3>1. n \in MissedIds(r) <=> \E i \in 1..Len(r) : r[i].branch_mispredicted # "none" /\ n = r[i].id
      BY MissedIdsOf
    <3>2. n \in MissedIds(q) <=> \E i \in 1..Len(q) : q[i].branch_mispredicted # "none" /\ n = q[i].id
      BY MissedIdsOf
    <3>3. n \in Missing(q[1]) <=> q[1].branch_mispredicted # "none" /\ n = q[1].id
      BY DEF Missing
    <3>4. ASSUME NEW i \in 1..Len(q), q[i].branch_mispredicted # "none", n = q[i].id
          PROVE  n \in MissedIds(r) \/ n \in Missing(q[1])
      <4>1. CASE i = 1
        BY <3>3, <3>4, <4>1
      <4>2. CASE i # 1
        <5>1. PICK j \in 1..Len(r) : i = j + 1
          BY <1>2, <4>2
        <5>2. r[j] = q[i]
          BY <1>1, <5>1
        <5> QED BY <3>1, <3>4, <5>2
      <4> QED BY <4>1, <4>2
    <3>5. ASSUME NEW j \in 1..Len(r), r[j].branch_mispredicted # "none", n = r[j].id
          PROVE  n \in MissedIds(q)
      <4>1. j + 1 \in 1..Len(q) /\ q[j + 1] = r[j]
        BY <1>1, <1>2
      <4> QED BY <3>2, <3>5, <4>1
    <3>6. 1 \in 1..Len(q)
      BY <1>1
    <3> QED BY <3>1, <3>2, <3>3, <3>4, <3>5, <3>6
  <2> QED BY <2>1
<1> QED BY <1>3 DEF r

\* The dispatch buffer, of which the ids are consecutive.
Consecutive(q, first) == \A i \in 1..Len(q) : q[i].id = first + i

LEMMA ConsecutiveAppended ==
  ASSUME NEW q \in Seq(Instr), NEW x \in Instr, NEW n \in Nat, Consecutive(q, n), x.id = n + Len(q) + 1
  PROVE  Consecutive(Append(q, x), n)
<1>1. /\ Append(q, x) \in Seq(Instr) /\ Len(Append(q, x)) = Len(q) + 1 /\ Len(q) \in Nat
      /\ \A i \in 1..Len(q) : Append(q, x)[i] = q[i]
      /\ Append(q, x)[Len(q) + 1] = x
  BY AppendProperties, Elements
<1> DEFINE r == Append(q, x)
<1> HIDE DEF r
<1> SUFFICES ASSUME NEW i \in 1..Len(r)
             PROVE  r[i].id = n + i
  BY DEF Consecutive, r
<1>2. CASE i \in 1..Len(q)
  BY <1>1, <1>2 DEF Consecutive, r
<1>3. CASE i = Len(q) + 1
  BY <1>1, <1>3 DEF r
<1> QED BY <1>1, <1>2, <1>3 DEF r

LEMMA ConsecutiveTaken ==
  ASSUME NEW q \in Seq(Instr), q # <<>>, NEW n \in Nat, Consecutive(q, n)
  PROVE  Consecutive(Tail(q), n + 1) /\ q[1].id = n + 1
<1>1. /\ Len(q) \in Nat \ {0} /\ Len(Tail(q)) = Len(q) - 1
      /\ \A i \in 1..Len(Tail(q)) : Tail(q)[i] = q[i + 1]
  BY FirstAndRest
<1>2. ASSUME NEW i \in 1..Len(Tail(q))
      PROVE  Tail(q)[i].id = n + 1 + i
  <2>1. i + 1 \in 1..Len(q)
    BY <1>1
  <2>2. q[i + 1].id = n + (i + 1)
    BY <2>1 DEF Consecutive
  <2> QED BY <1>1, <2>2
<1>3. q[1].id = n + 1
  BY <1>1 DEF Consecutive
<1> QED BY <1>2, <1>3 DEF Consecutive

\* What InOrder says of each buffer, with the two interval bounds as they will be.
LEMMA InOrderIs ==
  InOrder <=> /\ 0 <= dispatched /\ left <= promoted
              /\ Consecutive(IFETCH_BUFFER, promoted) /\ Consecutive(DISPATCH_BUFFER, dispatched)
              /\ Increasing(DIB_HIT_BUFFER) /\ Increasing(DECODE_BUFFER)
              /\ IdsOf(DIB_HIT_BUFFER) \cup IdsOf(DECODE_BUFFER) = (left + 1)..promoted
              /\ IdsOf(DIB_HIT_BUFFER) \cap IdsOf(DECODE_BUFFER) = {}
BY DEF InOrder, Consecutive

LEMMA InOrderNext ==
  ASSUME 0 <= dispatched', left' <= promoted',
         Consecutive(IFETCH_BUFFER', promoted'), Consecutive(DISPATCH_BUFFER', dispatched'),
         Increasing(DIB_HIT_BUFFER'), Increasing(DECODE_BUFFER'),
         IdsOf(DIB_HIT_BUFFER') \cup IdsOf(DECODE_BUFFER') = (left' + 1)..promoted',
         IdsOf(DIB_HIT_BUFFER') \cap IdsOf(DECODE_BUFFER') = {}
  PROVE  InOrder'
BY DEF InOrder, Consecutive, Increasing, IdsOf

LEMMA StopsNext ==
  ASSUME MissedIds(IFETCH_BUFFER') \cup MissedIds(DIB_HIT_BUFFER') \cup MissedIds(DECODE_BUFFER')
           \cup MissedIds(DISPATCH_BUFFER') \cup backend' = IF fetch_stopped' THEN {entered'} ELSE {},
         \A b \in backend' : b <= dispatched'
  PROVE  Stops'
<1>1. Branches' = IF fetch_stopped' THEN {entered'} ELSE {}
  BY DEF Branches, MissedIds, Missed
<1>2. (/\ Branches = IF fetch_stopped THEN {entered} ELSE {}
       /\ \A b \in backend : b <= dispatched)'
  BY <1>1
<1> QED BY <1>2, StopsMeans, PTL

LEMMA PromoteKeeps ==
  ASSUME Inv, Promote
  PROVE  Inv'
<1> DEFINE q == IFETCH_BUFFER
           x == IFETCH_BUFFER[1]
<1>1. /\ q # <<>> /\ q' = Tail(q)
      /\ Len(DIB_HIT_BUFFER) < DIB_HIT_BUFFER_SIZE /\ Len(DECODE_BUFFER) < DECODE_BUFFER_SIZE
      /\ UNCHANGED <<DISPATCH_BUFFER, DIB, fetch_stopped, entered, left, l1i, backend>>
      /\ \/ DIB_HIT_BUFFER' = Append(DIB_HIT_BUFFER, Head(q)) /\ UNCHANGED DECODE_BUFFER
         \/ DECODE_BUFFER' = Append(DECODE_BUFFER, Head(q)) /\ UNCHANGED DIB_HIT_BUFFER
  BY DEF Promote, PromotionHasRoom
<1>2. TypeOK /\ InOrder /\ Stops /\ EveryFetchIsOwed
  BY DEF Inv
<1>3. /\ q \in Seq(Instr) /\ Len(q) \in Nat \ {0} /\ Head(q) = x /\ x \in Instr
      /\ Tail(q) \in Seq(Instr) /\ Len(Tail(q)) = Len(q) - 1
      /\ \A i \in 1..Len(Tail(q)) : Tail(q)[i] = q[i + 1]
  <2>1. q \in Seq(Instr)
    BY <1>2 DEF TypeOK
  <2> QED BY <1>1, <2>1, FirstAndRest
<1>4. /\ promoted \in Nat /\ dispatched \in Nat /\ left \in Nat /\ entered \in Nat
      /\ promoted' = promoted + 1 /\ dispatched' = dispatched /\ promoted + 1 <= entered
  <2>1. promoted \in Nat /\ dispatched \in Nat /\ left \in Nat /\ entered \in Nat
    BY <1>2, Places, Types
  <2>2. promoted' = promoted + 1 /\ dispatched' = dispatched /\ promoted + 1 <= entered
    BY <1>1, <1>3, <2>1 DEF promoted, dispatched
  <2> QED BY <2>1, <2>2
<1>5. Consecutive(q, promoted) /\ Consecutive(DISPATCH_BUFFER, dispatched) /\ left <= promoted
      /\ Increasing(DIB_HIT_BUFFER) /\ Increasing(DECODE_BUFFER)
      /\ IdsOf(DIB_HIT_BUFFER) \cup IdsOf(DECODE_BUFFER) = (left + 1)..promoted
      /\ IdsOf(DIB_HIT_BUFFER) \cap IdsOf(DECODE_BUFFER) = {}
  BY <1>2, InOrderIs
<1>6. Consecutive(Tail(q), promoted + 1) /\ x.id = promoted + 1
  BY <1>1, <1>3, <1>4, <1>5, ConsecutiveTaken
<1>7. DIB_HIT_BUFFER \in Seq(Instr) /\ DECODE_BUFFER \in Seq(Instr)
  BY <1>2 DEF TypeOK
<1>8. \A n \in IdsOf(DIB_HIT_BUFFER) \cup IdsOf(DECODE_BUFFER) : n < x.id /\ n # x.id
  <2>1. \A n \in (left + 1)..promoted : n < promoted + 1 /\ n # promoted + 1
    BY <1>4
  <2> HIDE DEF promoted
  <2> QED BY <1>5, <1>6, <2>1
<1>9. (left + 1)..promoted' = ((left + 1)..promoted) \cup {x.id}
  <2> HIDE DEF promoted, x
  <2> QED BY <1>4, <1>5, <1>6
<1>10. MissedIds(q) = MissedIds(Tail(q)) \cup Missing(x)
  BY <1>1, <1>3, MissedTaken
\* Which of the two buffers it is makes no difference.
<1>11. /\ DIB_HIT_BUFFER' \in Seq(Instr) /\ Len(DIB_HIT_BUFFER') <= DIB_HIT_BUFFER_SIZE
       /\ DECODE_BUFFER' \in Seq(Instr) /\ Len(DECODE_BUFFER') <= DECODE_BUFFER_SIZE
       /\ Increasing(DIB_HIT_BUFFER') /\ Increasing(DECODE_BUFFER')
       /\ IdsOf(DIB_HIT_BUFFER') \cup IdsOf(DECODE_BUFFER')
            = IdsOf(DIB_HIT_BUFFER) \cup IdsOf(DECODE_BUFFER) \cup {x.id}
       /\ IdsOf(DIB_HIT_BUFFER') \cap IdsOf(DECODE_BUFFER') = {}
       /\ MissedIds(DIB_HIT_BUFFER') \cup MissedIds(DECODE_BUFFER')
            = MissedIds(DIB_HIT_BUFFER) \cup MissedIds(DECODE_BUFFER) \cup Missing(x)
  <2>1. Len(DIB_HIT_BUFFER) \in Nat /\ Len(DECODE_BUFFER) \in Nat
    BY <1>7, Elements
  <2>2. CASE DIB_HIT_BUFFER' = Append(DIB_HIT_BUFFER, Head(q)) /\ UNCHANGED DECODE_BUFFER
    <3> DEFINE r == Append(DIB_HIT_BUFFER, x)
    <3>1. r \in Seq(Instr) /\ Len(r) = Len(DIB_HIT_BUFFER) + 1
      BY <1>3, <1>7, AppendProperties
    <3>2. Increasing(r) /\ IdsOf(r) = IdsOf(DIB_HIT_BUFFER) \cup {x.id}
      BY <1>3, <1>5, <1>7, <1>8, AppendedBuffer
    <3>3. MissedIds(r) = MissedIds(DIB_HIT_BUFFER) \cup Missing(x)
      BY <1>3, <1>7, MissedAppended
    <3>4. DIB_HIT_BUFFER' = r /\ DECODE_BUFFER' = DECODE_BUFFER
      BY <1>3, <2>2
    <3> HIDE DEF r
    <3>5. /\ IdsOf(DIB_HIT_BUFFER') = IdsOf(r) /\ IdsOf(DECODE_BUFFER') = IdsOf(DECODE_BUFFER)
          /\ MissedIds(DIB_HIT_BUFFER') = MissedIds(r) /\ MissedIds(DECODE_BUFFER') = MissedIds(DECODE_BUFFER)
          /\ Increasing(DIB_HIT_BUFFER') /\ Increasing(DECODE_BUFFER')
      BY <1>5, <3>2, <3>4 DEF IdsOf, MissedIds, Missed, Increasing
    <3>6. DIB_HIT_BUFFER' \in Seq(Instr) /\ Len(DIB_HIT_BUFFER') <= DIB_HIT_BUFFER_SIZE
          /\ DECODE_BUFFER' \in Seq(Instr) /\ Len(DECODE_BUFFER') <= DECODE_BUFFER_SIZE
      BY <1>1, <1>7, <2>1, <3>1, <3>4
    <3> HIDE DEF x
    <3> QED BY <1>5, <1>8, <3>2, <3>3, <3>5, <3>6
  <2>3. CASE DECODE_BUFFER' = Append(DECODE_BUFFER, Head(q)) /\ UNCHANGED DIB_HIT_BUFFER
    <3> DEFINE r == Append(DECODE_BUFFER, x)
    <3>1. r \in Seq(Instr) /\ Len(r) = Len(DECODE_BUFFER) + 1
      BY <1>3, <1>7, AppendProperties
    <3>2. Increasing(r) /\ IdsOf(r) = IdsOf(DECODE_BUFFER) \cup {x.id}
      BY <1>3, <1>5, <1>7, <1>8, AppendedBuffer
    <3>3. MissedIds(r) = MissedIds(DECODE_BUFFER) \cup Missing(x)
      BY <1>3, <1>7, MissedAppended
    <3>4. DECODE_BUFFER' = r /\ DIB_HIT_BUFFER' = DIB_HIT_BUFFER
      BY <1>3, <2>3
    <3> HIDE DEF r
    <3>5. /\ IdsOf(DECODE_BUFFER') = IdsOf(r) /\ IdsOf(DIB_HIT_BUFFER') = IdsOf(DIB_HIT_BUFFER)
          /\ MissedIds(DECODE_BUFFER') = MissedIds(r) /\ MissedIds(DIB_HIT_BUFFER') = MissedIds(DIB_HIT_BUFFER)
          /\ Increasing(DIB_HIT_BUFFER') /\ Increasing(DECODE_BUFFER')
      BY <1>5, <3>2, <3>4 DEF IdsOf, MissedIds, Missed, Increasing
    <3>6. DIB_HIT_BUFFER' \in Seq(Instr) /\ Len(DIB_HIT_BUFFER') <= DIB_HIT_BUFFER_SIZE
          /\ DECODE_BUFFER' \in Seq(Instr) /\ Len(DECODE_BUFFER') <= DECODE_BUFFER_SIZE
      BY <1>1, <1>2, <1>7, <2>1, <3>1, <3>4 DEF TypeOK
    <3> HIDE DEF x
    <3> QED BY <1>5, <1>8, <3>2, <3>3, <3>5, <3>6
  <2> QED BY <1>1, <2>2, <2>3
<1>12. InOrder'
  <2>1. Consecutive(IFETCH_BUFFER', promoted') /\ Consecutive(DISPATCH_BUFFER', dispatched')
    BY <1>1, <1>4, <1>5, <1>6 DEF Consecutive
  <2>2. 0 <= dispatched' /\ left' <= promoted'
    BY <1>1, <1>4, <1>5
  <2>3. IdsOf(DIB_HIT_BUFFER') \cup IdsOf(DECODE_BUFFER') = (left' + 1)..promoted'
    BY <1>1, <1>5, <1>9, <1>11
  <2> QED BY <1>11, <2>1, <2>2, <2>3, InOrderNext
<1>13. Stops'
  <2>1. MissedIds(IFETCH_BUFFER') = MissedIds(Tail(q)) /\ MissedIds(DISPATCH_BUFFER') = MissedIds(DISPATCH_BUFFER)
    BY <1>1 DEF MissedIds, Missed
  <2>2. Branches = (IF fetch_stopped THEN {entered} ELSE {}) /\ \A b \in backend : b <= dispatched
    BY <1>2, StopsMeans
  <2>3. MissedIds(IFETCH_BUFFER') \cup MissedIds(DIB_HIT_BUFFER') \cup MissedIds(DECODE_BUFFER')
           \cup MissedIds(DISPATCH_BUFFER') \cup backend' = Branches
    <3> HIDE DEF x
    <3> QED BY <1>1, <1>10, <1>11, <2>1 DEF Branches
  <2> QED BY <1>1, <1>4, <2>2, <2>3, StopsNext
<1>14. EveryFetchIsOwed'
  <2>1. ASSUME NEW i \in 1..Len(q'), Waits(q'[i])
        PROVE  \E p \in requests' \cup ToSet(returned') : Names(p, q'[i])
    <3>1. i + 1 \in 1..Len(q) /\ q'[i] = q[i + 1]
      BY <1>1, <1>3
    <3> QED BY <1>1, <1>2, <2>1, <3>1, Owed DEF l1i
  <2> QED BY <2>1, OwedNext
<1>15. TypeOK'
  <2>1. Len(q') <= IFETCH_BUFFER_SIZE
    BY <1>1, <1>2, <1>3 DEF TypeOK
  <2> QED BY <1>1, <1>2, <1>3, <1>11, <2>1 DEF TypeOK, l1i
<1> QED BY <1>12, <1>13, <1>14, <1>15 DEF Inv

\* Two buffers that share out an interval: what goes first is the first of it.
LEMMA FirstLeaves ==
  ASSUME NEW p \in Seq(Instr), NEW q \in Seq(Instr), NEW m \in Nat, NEW n \in Nat,
         Increasing(p), Increasing(q),
         IdsOf(p) \cup IdsOf(q) = (m + 1)..n, IdsOf(p) \cap IdsOf(q) = {},
         GoesFirst(p, q)
  PROVE  /\ p # <<>> /\ p[1] \in Instr /\ p[1].id = m + 1 /\ m + 1 <= n
         /\ Tail(p) \in Seq(Instr) /\ Len(Tail(p)) = Len(p) - 1 /\ Len(p) \in Nat
         /\ Increasing(Tail(p))
         /\ IdsOf(Tail(p)) \cup IdsOf(q) = (m + 1 + 1)..n /\ IdsOf(Tail(p)) \cap IdsOf(q) = {}
<1>1. p # <<>> /\ (q # <<>> => Head(p).id < Head(q).id)
  BY DEF GoesFirst
<1>2. /\ Len(p) \in Nat \ {0} /\ Head(p) = p[1] /\ p[1] \in Instr
      /\ Tail(p) \in Seq(Instr) /\ Len(Tail(p)) = Len(p) - 1
  BY <1>1, FirstAndRest
<1>3. /\ Increasing(Tail(p)) /\ IdsOf(Tail(p)) = IdsOf(p) \ {p[1].id}
      /\ p[1].id \in IdsOf(p) /\ \A k \in IdsOf(p) : p[1].id <= k
  BY <1>1, TakenBuffer
<1> DEFINE f == p[1].id
<1>4. f \in Nat /\ f \in (m + 1)..n
  BY <1>2, <1>3 DEF Instr, Id
<1>5. \A k \in IdsOf(q) : f <= k
  <2>1. CASE q = <<>>
    <3>1. Len(q) = 0
      BY <2>1, EmptyIfShort
    <3> QED BY <3>1 DEF IdsOf
  <2>2. CASE q # <<>>
    <3>1. Head(q) = q[1] /\ q[1] \in Instr
      BY <2>2, FirstAndRest
    <3>2. f < q[1].id /\ q[1].id \in Nat
      BY <1>1, <1>2, <2>2, <3>1 DEF Instr, Id
    <3>3. \A k \in IdsOf(q) : q[1].id <= k /\ k \in Nat
      <4>1. \A k \in IdsOf(q) : q[1].id <= k
        BY <2>2, TakenBuffer
      <4>2. \A k \in IdsOf(q) : k \in (m + 1)..n
        OBVIOUS
      <4> QED BY <4>1, <4>2
    <3> HIDE DEF f
    <3> QED BY <1>4, <3>2, <3>3
  <2> QED BY <2>1, <2>2
<1> HIDE DEF f
<1>6. f = m + 1 /\ m + 1 <= n
  <2>1. m + 1 \in (m + 1)..n
    BY <1>4
  <2>2. m + 1 \in IdsOf(p) \cup IdsOf(q)
    BY <2>1
  <2>3. f <= m + 1
    BY <1>3, <1>5, <2>2 DEF f
  <2> QED BY <1>4, <2>3
<1>7. IdsOf(Tail(p)) \cup IdsOf(q) = (m + 1 + 1)..n
  <2>1. f \notin IdsOf(q)
    BY <1>3 DEF f
  <2>2. IdsOf(Tail(p)) \cup IdsOf(q) = ((m + 1)..n) \ {f}
    BY <1>3, <2>1 DEF f
  <2>3. ((m + 1)..n) \ {f} = (m + 1 + 1)..n
    BY <1>6
  <2> QED BY <2>2, <2>3
<1>8. IdsOf(Tail(p)) \cap IdsOf(q) = {}
  BY <1>3
<1> QED BY <1>1, <1>2, <1>3, <1>6, <1>7, <1>8 DEF f

\* What leaves, as the back end sees it, follows what left before it.
LEMMA DispatchBufferGrows ==
  ASSUME Inv, NEW x \in Instr, x.id = left + 1, DispatchHasRoom,
         DISPATCH_BUFFER' = Append(DISPATCH_BUFFER, x), left' = left + 1
  PROVE  /\ DISPATCH_BUFFER' \in Seq(Instr) /\ Len(DISPATCH_BUFFER') <= DISPATCH_BUFFER_SIZE
         /\ Consecutive(DISPATCH_BUFFER', dispatched') /\ dispatched' = dispatched
         /\ MissedIds(DISPATCH_BUFFER') = MissedIds(DISPATCH_BUFFER) \cup Missing(x)
<1>1. /\ DISPATCH_BUFFER \in Seq(Instr) /\ Len(DISPATCH_BUFFER) \in Nat /\ Consecutive(DISPATCH_BUFFER, dispatched)
      /\ dispatched \in Nat /\ left \in Nat
  BY Places, Types, InOrderIs DEF Inv, TypeOK
<1>2. /\ Append(DISPATCH_BUFFER, x) \in Seq(Instr)
      /\ Len(Append(DISPATCH_BUFFER, x)) = Len(DISPATCH_BUFFER) + 1
  BY <1>1, AppendProperties
<1>3. x.id = dispatched + Len(DISPATCH_BUFFER) + 1
  BY <1>1 DEF dispatched
<1>4. Consecutive(Append(DISPATCH_BUFFER, x), dispatched)
  BY <1>1, <1>3, ConsecutiveAppended
<1>5. dispatched' = dispatched
  BY <1>1, <1>2 DEF dispatched
<1>6. MissedIds(Append(DISPATCH_BUFFER, x)) = MissedIds(DISPATCH_BUFFER) \cup Missing(x)
  BY <1>1, MissedAppended
<1>7. Len(DISPATCH_BUFFER) < DISPATCH_BUFFER_SIZE
  BY DEF DispatchHasRoom
<1> HIDE DEF dispatched
<1> QED BY <1>1, <1>2, <1>4, <1>5, <1>6, <1>7

\* Which of the two buffers it leaves is all the same to the instructions' order.
LEMMA LeavesInOrder ==
  ASSUME Inv, UNCHANGED <<IFETCH_BUFFER, entered>>, left' = left + 1, left + 1 <= promoted,
         Consecutive(DISPATCH_BUFFER', dispatched'), dispatched' = dispatched,
         Increasing(DIB_HIT_BUFFER'), Increasing(DECODE_BUFFER'),
         IdsOf(DIB_HIT_BUFFER') \cup IdsOf(DECODE_BUFFER') = (left + 1 + 1)..promoted,
         IdsOf(DIB_HIT_BUFFER') \cap IdsOf(DECODE_BUFFER') = {}
  PROVE  InOrder'
<1>1. Consecutive(IFETCH_BUFFER, promoted) /\ 0 <= dispatched
  BY InOrderIs DEF Inv
<1>2. promoted' = promoted
  BY DEF promoted
<1>3. Consecutive(IFETCH_BUFFER', promoted')
  BY <1>1, <1>2
<1> QED BY <1>1, <1>2, <1>3, InOrderNext

LEMMA TakeDIBHitKeeps ==
  ASSUME Inv, TakeDIBHit
  PROVE  /\ Inv'
         /\ \E x \in Instr : x.id = left + 1 /\ DISPATCH_BUFFER' = Append(DISPATCH_BUFFER, x)
         /\ left < entered
<1> DEFINE p == DIB_HIT_BUFFER
           x == DIB_HIT_BUFFER[1]
<1>1. /\ GoesFirst(DIB_HIT_BUFFER, DECODE_BUFFER) /\ DispatchHasRoom
      /\ DISPATCH_BUFFER' = Append(DISPATCH_BUFFER, Head(p)) /\ p' = Tail(p) /\ left' = left + 1
      /\ UNCHANGED <<IFETCH_BUFFER, DECODE_BUFFER, DIB, fetch_stopped, entered, l1i, backend>>
  BY DEF TakeDIBHit
<1>2. TypeOK /\ InOrder /\ Stops /\ EveryFetchIsOwed
  BY DEF Inv
<1>3. left \in Nat /\ promoted \in Nat /\ promoted <= entered /\ entered \in Nat
      /\ p \in Seq(Instr) /\ DECODE_BUFFER \in Seq(Instr)
  BY <1>2, Places, Types DEF TypeOK
<1>4. /\ Increasing(DIB_HIT_BUFFER) /\ Increasing(DECODE_BUFFER)
      /\ IdsOf(DIB_HIT_BUFFER) \cup IdsOf(DECODE_BUFFER) = (left + 1)..promoted
      /\ IdsOf(DIB_HIT_BUFFER) \cap IdsOf(DECODE_BUFFER) = {}
  BY <1>2, InOrderIs
<1>5. /\ p # <<>> /\ x \in Instr /\ x.id = left + 1 /\ left + 1 <= promoted
      /\ Tail(p) \in Seq(Instr) /\ Len(Tail(p)) = Len(p) - 1 /\ Len(p) \in Nat
      /\ Increasing(Tail(p))
      /\ IdsOf(Tail(p)) \cup IdsOf(DECODE_BUFFER) = (left + 1 + 1)..promoted
      /\ IdsOf(Tail(p)) \cap IdsOf(DECODE_BUFFER) = {}
  <2> HIDE DEF promoted
  <2> QED BY <1>1, <1>3, <1>4, FirstLeaves
<1>6. Head(p) = x /\ MissedIds(p) = MissedIds(Tail(p)) \cup Missing(x)
  BY <1>3, <1>5, FirstAndRest, MissedTaken
<1> HIDE DEF x
<1>7. /\ DISPATCH_BUFFER' \in Seq(Instr) /\ Len(DISPATCH_BUFFER') <= DISPATCH_BUFFER_SIZE
      /\ Consecutive(DISPATCH_BUFFER', dispatched') /\ dispatched' = dispatched
      /\ MissedIds(DISPATCH_BUFFER') = MissedIds(DISPATCH_BUFFER) \cup Missing(x)
  BY <1>1, <1>5, <1>6, DispatchBufferGrows
<1>8. InOrder'
  <2>1. Increasing(DIB_HIT_BUFFER') /\ Increasing(DECODE_BUFFER')
    BY <1>1, <1>4, <1>5
  <2>2. /\ IdsOf(DIB_HIT_BUFFER') \cup IdsOf(DECODE_BUFFER') = (left + 1 + 1)..promoted
        /\ IdsOf(DIB_HIT_BUFFER') \cap IdsOf(DECODE_BUFFER') = {}
    BY <1>1, <1>5
  <2> QED BY <1>1, <1>5, <1>7, <2>1, <2>2, LeavesInOrder
<1>9. Stops'
  <2>1. Branches = (IF fetch_stopped THEN {entered} ELSE {}) /\ \A b \in backend : b <= dispatched
    BY <1>2, StopsMeans
  <2>2. MissedIds(IFETCH_BUFFER') \cup MissedIds(DIB_HIT_BUFFER') \cup MissedIds(DECODE_BUFFER')
           \cup MissedIds(DISPATCH_BUFFER') \cup backend' = Branches
    BY <1>1, <1>6, <1>7 DEF Branches
  <2> QED BY <1>1, <1>7, <2>1, <2>2, StopsNext
<1>10. EveryFetchIsOwed'
  BY <1>1, <1>2 DEF EveryFetchIsOwed, l1i
<1>11. TypeOK'
  <2>1. Len(p') <= DIB_HIT_BUFFER_SIZE
    BY <1>1, <1>2, <1>5 DEF TypeOK
  <2>2. left' \in 0..entered'
    BY <1>1, <1>3, <1>5
  <2> QED BY <1>1, <1>2, <1>5, <1>7, <2>1, <2>2 DEF TypeOK, l1i
<1>12. left < entered
  BY <1>3, <1>5
<1> QED BY <1>1, <1>5, <1>6, <1>8, <1>9, <1>10, <1>11, <1>12 DEF Inv

LEMMA DecodeKeeps ==
  ASSUME Inv, Decode
  PROVE  /\ Inv'
         /\ \E x \in Instr : x.id = left + 1 /\ DISPATCH_BUFFER' = Append(DISPATCH_BUFFER, x)
         /\ left < entered
         /\ fetch_stopped' # fetch_stopped => fetch_stopped /\ ~fetch_stopped' /\ entered = left + 1
<1> DEFINE p == DECODE_BUFFER
           x == DECODE_BUFFER[1]
           y == Decoded(DECODE_BUFFER[1])
<1>1. /\ GoesFirst(DECODE_BUFFER, DIB_HIT_BUFFER) /\ DispatchHasRoom
      /\ DISPATCH_BUFFER' = Append(DISPATCH_BUFFER, Decoded(Head(p))) /\ p' = Tail(p) /\ left' = left + 1
      /\ fetch_stopped' = (fetch_stopped /\ Head(p).branch_mispredicted # "DECODE")
      /\ DIB' = Lru!Filled(DIB, DIB_WAYS, Head(p).ip, TRUE)
      /\ UNCHANGED <<IFETCH_BUFFER, DIB_HIT_BUFFER, entered, l1i, backend>>
  BY DEF Decode
<1>2. TypeOK /\ InOrder /\ Stops /\ EveryFetchIsOwed
  BY DEF Inv
<1>3. left \in Nat /\ promoted \in Nat /\ promoted <= entered /\ entered \in Nat
      /\ p \in Seq(Instr) /\ DIB_HIT_BUFFER \in Seq(Instr)
  BY <1>2, Places, Types DEF TypeOK
<1>4. /\ Increasing(DIB_HIT_BUFFER) /\ Increasing(DECODE_BUFFER)
      /\ IdsOf(DECODE_BUFFER) \cup IdsOf(DIB_HIT_BUFFER) = (left + 1)..promoted
      /\ IdsOf(DECODE_BUFFER) \cap IdsOf(DIB_HIT_BUFFER) = {}
  BY <1>2, InOrderIs
<1>5. /\ p # <<>> /\ x \in Instr /\ x.id = left + 1 /\ left + 1 <= promoted
      /\ Tail(p) \in Seq(Instr) /\ Len(Tail(p)) = Len(p) - 1 /\ Len(p) \in Nat
      /\ Increasing(Tail(p))
      /\ IdsOf(Tail(p)) \cup IdsOf(DIB_HIT_BUFFER) = (left + 1 + 1)..promoted
      /\ IdsOf(Tail(p)) \cap IdsOf(DIB_HIT_BUFFER) = {}
  <2> HIDE DEF promoted
  <2> QED BY <1>1, <1>3, <1>4, FirstLeaves
<1>6. Head(p) = x /\ MissedIds(p) = MissedIds(Tail(p)) \cup Missing(x)
  BY <1>3, <1>5, FirstAndRest, MissedTaken
<1>7. /\ y \in Instr /\ y.id = x.id
      /\ Missing(y) = IF x.branch_mispredicted = "DECODE" THEN {} ELSE Missing(x)
      /\ x.branch_mispredicted = "DECODE" => Missing(x) = {left + 1}
  BY <1>5 DEF Decoded, Instr, Branch, Missing
<1>8. DISPATCH_BUFFER' = Append(DISPATCH_BUFFER, y)
  BY <1>1, <1>6
<1> HIDE DEF x, y
<1>9. /\ DISPATCH_BUFFER' \in Seq(Instr) /\ Len(DISPATCH_BUFFER') <= DISPATCH_BUFFER_SIZE
      /\ Consecutive(DISPATCH_BUFFER', dispatched') /\ dispatched' = dispatched
      /\ MissedIds(DISPATCH_BUFFER') = MissedIds(DISPATCH_BUFFER) \cup Missing(y)
  BY <1>1, <1>5, <1>7, <1>8, DispatchBufferGrows
<1>10. InOrder'
  <2>1. Increasing(DIB_HIT_BUFFER') /\ Increasing(DECODE_BUFFER')
    BY <1>1, <1>4, <1>5
  <2>2. /\ IdsOf(DIB_HIT_BUFFER') \cup IdsOf(DECODE_BUFFER') = (left + 1 + 1)..promoted
        /\ IdsOf(DIB_HIT_BUFFER') \cap IdsOf(DECODE_BUFFER') = {}
    BY <1>1, <1>5
  <2> QED BY <1>1, <1>5, <1>9, <2>1, <2>2, LeavesInOrder
<1>11. Branches = (IF fetch_stopped THEN {entered} ELSE {}) /\ \A b \in backend : b <= dispatched
  BY <1>2, StopsMeans
\* The branch that decoding resolves is the youngest instruction, and nowhere else.
<1>12. x.branch_mispredicted = "DECODE" =>
         fetch_stopped /\ entered = left + 1 /\ Branches = {left + 1}
  <2>1. Missing(x) \subseteq Branches
    BY <1>6 DEF Branches
  <2> HIDE DEF Branches
  <2> QED BY <1>7, <1>11, <2>1
<1>13. Stops'
  <2>1. CASE x.branch_mispredicted # "DECODE"
    <3>1. MissedIds(IFETCH_BUFFER') \cup MissedIds(DIB_HIT_BUFFER') \cup MissedIds(DECODE_BUFFER')
             \cup MissedIds(DISPATCH_BUFFER') \cup backend' = Branches
      BY <1>1, <1>6, <1>7, <1>9, <2>1 DEF Branches
    <3>2. fetch_stopped' <=> fetch_stopped
      BY <1>1, <1>6, <2>1
    <3> QED BY <1>1, <1>9, <1>11, <3>1, <3>2, StopsNext
  <2>2. CASE x.branch_mispredicted = "DECODE"
    <3>1. /\ Consecutive(IFETCH_BUFFER, promoted) /\ Consecutive(DISPATCH_BUFFER, dispatched)
      BY <1>2, InOrderIs
    <3>2. left + 1 \notin MissedIds(IFETCH_BUFFER)
      <4>1. \A i \in 1..Len(IFETCH_BUFFER) : promoted < IFETCH_BUFFER[i].id
        BY <1>2, Places
      <4> HIDE DEF promoted
      <4> QED BY <1>3, <1>5, <4>1 DEF MissedIds, Missed
    <3>3. left + 1 \notin MissedIds(DISPATCH_BUFFER)
      <4>1. \A i \in 1..Len(DISPATCH_BUFFER) : DISPATCH_BUFFER[i].id <= left
        BY <1>2, Places
      <4> QED BY <1>3, <4>1 DEF MissedIds, Missed
    <3>4. left + 1 \notin MissedIds(DIB_HIT_BUFFER) /\ left + 1 \notin MissedIds(Tail(p))
      <4>1. MissedIds(DIB_HIT_BUFFER) \cup MissedIds(Tail(p)) \subseteq IdsOf(DIB_HIT_BUFFER) \cup IdsOf(Tail(p))
        BY DEF MissedIds, Missed, IdsOf
      <4>2. left + 1 \notin (left + 1 + 1)..promoted
        BY <1>3
      <4> QED BY <1>5, <4>1, <4>2
    <3>5. left + 1 \notin backend
      <4>1. dispatched <= left /\ dispatched \in Nat
        BY <1>2, Places
      <4> HIDE DEF dispatched
      <4> QED BY <1>3, <1>11, <4>1
    <3>6. MissedIds(IFETCH_BUFFER') \cup MissedIds(DIB_HIT_BUFFER') \cup MissedIds(DECODE_BUFFER')
             \cup MissedIds(DISPATCH_BUFFER') \cup backend' = {}
      <4>1. MissedIds(IFETCH_BUFFER) \cup MissedIds(DIB_HIT_BUFFER) \cup MissedIds(Tail(p))
               \cup MissedIds(DISPATCH_BUFFER) \cup backend = {}
        BY <1>6, <1>12, <2>2, <3>2, <3>3, <3>4, <3>5 DEF Branches
      <4> QED BY <1>1, <1>7, <1>9, <2>2, <4>1
    <3>7. ~fetch_stopped'
      BY <1>1, <1>6, <2>2
    <3> QED BY <1>1, <1>9, <1>11, <3>6, <3>7, StopsNext
  <2> QED BY <2>1, <2>2
<1>14. EveryFetchIsOwed'
  BY <1>1, <1>2 DEF EveryFetchIsOwed, l1i
<1>15. TypeOK'
  <2>1. Len(p') <= DECODE_BUFFER_SIZE
    BY <1>1, <1>2, <1>5 DEF TypeOK
  <2>2. left' \in 0..entered'
    BY <1>1, <1>3, <1>5
  <2>3. DIB \in Ways /\ Len(DIB) <= DIB_WAYS /\ x.ip \in Window
    BY <1>2, <1>5 DEF TypeOK, Ways, Entry, Instr
  <2>4. DIB' \in Ways /\ Len(DIB') <= DIB_WAYS
    BY <1>1, <1>6, <2>3, LruFilled
  <2>5. fetch_stopped' \in BOOLEAN
    BY <1>1, <1>2 DEF TypeOK
  <2> QED BY <1>1, <1>2, <1>5, <1>9, <2>1, <2>2, <2>4, <2>5 DEF TypeOK, l1i, Ways, Entry
<1>16. left < entered
  BY <1>3, <1>5
<1>17. fetch_stopped' # fetch_stopped => fetch_stopped /\ ~fetch_stopped' /\ entered = left + 1
  BY <1>1, <1>2, <1>6, <1>12 DEF TypeOK
<1> QED BY <1>5, <1>7, <1>8, <1>10, <1>13, <1>14, <1>15, <1>16, <1>17 DEF Inv

LEMMA DispatchKeeps ==
  ASSUME Inv, Dispatch
  PROVE  Inv'
<1> DEFINE q == DISPATCH_BUFFER
           x == DISPATCH_BUFFER[1]
<1>1. /\ q # <<>> /\ q' = Tail(q)
      /\ backend' = IF Head(q).branch_mispredicted = "none" THEN backend ELSE backend \cup {Head(q).id}
      /\ UNCHANGED <<IFETCH_BUFFER, DIB_HIT_BUFFER, DECODE_BUFFER, DIB, fetch_stopped, entered, left, l1i>>
  BY DEF Dispatch
<1>2. TypeOK /\ InOrder /\ Stops /\ EveryFetchIsOwed
  BY DEF Inv
<1>3. /\ q \in Seq(Instr) /\ Len(q) \in Nat \ {0} /\ Head(q) = x /\ x \in Instr
      /\ Tail(q) \in Seq(Instr) /\ Len(Tail(q)) = Len(q) - 1
  <2>1. q \in Seq(Instr)
    BY <1>2 DEF TypeOK
  <2> QED BY <1>1, <2>1, FirstAndRest
<1>4. dispatched \in Nat /\ left \in Nat
  BY <1>2, Places, Types
<1>5. dispatched' = dispatched + 1 /\ promoted' = promoted
  BY <1>1, <1>3, <1>4 DEF dispatched, promoted
<1>6. Consecutive(q, dispatched)
  BY <1>2, InOrderIs
<1>7. Consecutive(Tail(q), dispatched + 1) /\ x.id = dispatched + 1
  BY <1>1, <1>3, <1>4, <1>6, ConsecutiveTaken
<1>8. MissedIds(q) = MissedIds(Tail(q)) \cup Missing(x)
  BY <1>1, <1>3, MissedTaken
<1>9. backend' = backend \cup Missing(x)
  BY <1>1, <1>3 DEF Missing
<1> HIDE DEF x
<1>10. InOrder'
  <2>1. 0 <= dispatched'
    BY <1>4, <1>5
  <2>2. /\ left <= promoted /\ Consecutive(IFETCH_BUFFER, promoted)
        /\ Increasing(DIB_HIT_BUFFER) /\ Increasing(DECODE_BUFFER)
        /\ IdsOf(DIB_HIT_BUFFER) \cup IdsOf(DECODE_BUFFER) = (left + 1)..promoted
        /\ IdsOf(DIB_HIT_BUFFER) \cap IdsOf(DECODE_BUFFER) = {}
    BY <1>2, InOrderIs
  <2>3. Consecutive(q', dispatched')
    BY <1>1, <1>5, <1>7
  <2>4. /\ left' <= promoted' /\ Consecutive(IFETCH_BUFFER', promoted')
        /\ Increasing(DIB_HIT_BUFFER') /\ Increasing(DECODE_BUFFER')
        /\ IdsOf(DIB_HIT_BUFFER') \cup IdsOf(DECODE_BUFFER') = (left' + 1)..promoted'
        /\ IdsOf(DIB_HIT_BUFFER') \cap IdsOf(DECODE_BUFFER') = {}
    BY <1>1, <1>5, <2>2
  <2> QED BY <2>1, <2>3, <2>4, InOrderNext
<1>11. Stops'
  <2>1. Branches = (IF fetch_stopped THEN {entered} ELSE {}) /\ \A b \in backend : b <= dispatched
    BY <1>2, StopsMeans
  <2>2. MissedIds(IFETCH_BUFFER') \cup MissedIds(DIB_HIT_BUFFER') \cup MissedIds(DECODE_BUFFER')
           \cup MissedIds(DISPATCH_BUFFER') \cup backend' = Branches
    BY <1>1, <1>8, <1>9 DEF Branches
  <2>3. \A b \in backend' : b <= dispatched'
    <3>1. \A b \in Missing(x) : b = dispatched + 1
      BY <1>7 DEF Missing
    <3>2. backend \subseteq Id
      BY <1>2 DEF TypeOK
    <3> HIDE DEF dispatched
    <3> QED BY <1>4, <1>5, <1>9, <2>1, <3>1, <3>2 DEF Id
  <2> QED BY <1>1, <2>1, <2>2, <2>3, StopsNext
<1>12. EveryFetchIsOwed'
  BY <1>1, <1>2 DEF EveryFetchIsOwed, l1i
<1>13. TypeOK'
  <2>1. Len(q') <= DISPATCH_BUFFER_SIZE
    BY <1>1, <1>2, <1>3 DEF TypeOK
  <2>2. Missing(x) \subseteq Id
    BY <1>3 DEF Missing, Instr
  <2> QED BY <1>1, <1>2, <1>3, <1>9, <2>1, <2>2 DEF TypeOK, l1i
<1> QED BY <1>10, <1>11, <1>12, <1>13 DEF Inv

LEMMA StutterInOrder ==
  ASSUME InOrder, UNCHANGED <<buffers, entered, left>>
  PROVE  InOrder'
<1>1. promoted' = promoted /\ dispatched' = dispatched
  BY DEF promoted, dispatched, buffers
<1>2. /\ IdsOf(DIB_HIT_BUFFER') = IdsOf(DIB_HIT_BUFFER) /\ IdsOf(DECODE_BUFFER') = IdsOf(DECODE_BUFFER)
      /\ Increasing(DIB_HIT_BUFFER') /\ Increasing(DECODE_BUFFER')
      /\ Consecutive(IFETCH_BUFFER', promoted') /\ Consecutive(DISPATCH_BUFFER', dispatched')
  BY <1>1, InOrderIs DEF buffers
<1> QED BY <1>1, <1>2, InOrderIs, InOrderNext

\* The branch is the youngest instruction there is and is dispatched: so all are.
LEMMA CompleteBranchKeeps ==
  ASSUME Inv, NEW b \in backend, CompleteBranch(b)
  PROVE  Inv' /\ fetch_stopped /\ b = entered /\ b <= dispatched
<1>1. /\ backend' = backend \ {b} /\ fetch_stopped' = FALSE
      /\ UNCHANGED <<buffers, DIB, entered, left, l1i>>
  BY DEF CompleteBranch
<1>2. TypeOK /\ InOrder /\ Stops /\ EveryFetchIsOwed
  BY DEF Inv
<1>3. Branches = (IF fetch_stopped THEN {entered} ELSE {}) /\ \A c \in backend : c <= dispatched
  BY <1>2, StopsMeans
<1>4. fetch_stopped /\ b = entered /\ b <= dispatched /\ Branches = {b}
  BY <1>3 DEF Branches
<1>5. promoted' = promoted /\ dispatched' = dispatched
  BY <1>1 DEF promoted, dispatched, buffers
<1>6. /\ entered \in Nat /\ left \in Nat /\ promoted \in Nat /\ dispatched \in Nat
      /\ promoted <= entered /\ dispatched <= left /\ left <= promoted
  BY <1>2, Places, Types, InOrderIs
<1>7. /\ b \notin MissedIds(IFETCH_BUFFER) /\ b \notin MissedIds(DIB_HIT_BUFFER)
      /\ b \notin MissedIds(DECODE_BUFFER) /\ b \notin MissedIds(DISPATCH_BUFFER)
  <2>1. /\ \A i \in 1..Len(IFETCH_BUFFER) : promoted < IFETCH_BUFFER[i].id
        /\ \A i \in 1..Len(DIB_HIT_BUFFER) : left < DIB_HIT_BUFFER[i].id
        /\ \A i \in 1..Len(DECODE_BUFFER) : left < DECODE_BUFFER[i].id
        /\ \A i \in 1..Len(DISPATCH_BUFFER) : dispatched < DISPATCH_BUFFER[i].id
    BY <1>2, Places
  <2> HIDE DEF promoted, dispatched
  <2>2. b \in Nat /\ b <= dispatched /\ b <= left /\ b <= promoted
    BY <1>4, <1>6
  <2>3. \A n \in Nat : n <= b => ~(b < n)
    BY <2>2
  <2>4. ~(promoted < b) /\ ~(left < b) /\ ~(dispatched < b)
    BY <1>6, <2>2
  <2> QED BY <2>1, <2>4 DEF MissedIds, Missed
<1>8. InOrder'
  BY <1>1, <1>2, StutterInOrder
<1>9. Stops'
  <2>1. MissedIds(IFETCH_BUFFER') \cup MissedIds(DIB_HIT_BUFFER') \cup MissedIds(DECODE_BUFFER')
           \cup MissedIds(DISPATCH_BUFFER') \cup backend' = {}
    BY <1>1, <1>4, <1>7 DEF Branches, buffers
  <2> QED BY <1>1, <1>3, <1>5, <2>1, StopsNext
<1>10. EveryFetchIsOwed'
  BY <1>1, <1>2 DEF EveryFetchIsOwed, l1i, buffers
<1>11. TypeOK'
  BY <1>1, <1>2 DEF TypeOK, l1i, buffers
<1> QED BY <1>4, <1>8, <1>9, <1>10, <1>11 DEF Inv

-----------------------------------------------------------------------------
(* The invariant *)

LEMMA InitEstablishes == Init => Inv
<1> SUFFICES ASSUME Init
             PROVE  Inv
  OBVIOUS
<1>1. /\ IFETCH_BUFFER = <<>> /\ DIB_HIT_BUFFER = <<>> /\ DECODE_BUFFER = <<>> /\ DISPATCH_BUFFER = <<>>
      /\ DIB = <<>> /\ fetch_stopped = FALSE /\ entered = 0 /\ left = 0
      /\ requests = {} /\ returned = <<>> /\ backend = {}
  BY DEF Init
<1>2. /\ Len(IFETCH_BUFFER) = 0 /\ Len(DIB_HIT_BUFFER) = 0 /\ Len(DECODE_BUFFER) = 0
      /\ Len(DISPATCH_BUFFER) = 0 /\ Len(DIB) = 0
  BY <1>1
<1>3. TypeOK
  <2>1. /\ IFETCH_BUFFER \in Seq(Instr) /\ DIB_HIT_BUFFER \in Seq(Instr) /\ DECODE_BUFFER \in Seq(Instr)
        /\ DISPATCH_BUFFER \in Seq(Instr) /\ DIB \in Seq([tag : Window, data : {TRUE}])
        /\ returned \in Seq(Packet)
    BY <1>1
  <2>2. entered = 0 /\ left = 0 /\ fetch_stopped \in BOOLEAN /\ requests \subseteq Packet /\ backend \subseteq Id
    BY <1>1
  <2> QED BY <1>2, <2>1, <2>2 DEF TypeOK
<1>4. promoted = 0 /\ dispatched = 0
  <2>1. entered = 0 /\ left = 0
    BY <1>1
  <2> QED BY <1>2, <2>1 DEF promoted, dispatched
<1>5. InOrder
  <2>1. left = 0
    BY <1>1
  <2> QED BY <1>2, <1>4, <2>1 DEF InOrder, Increasing, IdsOf
<1>6. Stops
  <2>1. ~fetch_stopped /\ backend = {}
    BY <1>1
  <2> QED BY <1>2, <2>1 DEF Stops, StopsFor, Missed
<1>7. EveryFetchIsOwed
  BY <1>2 DEF EveryFetchIsOwed
<1> QED BY <1>3, <1>5, <1>6, <1>7 DEF Inv

LEMMA StutterKeeps ==
  ASSUME Inv, UNCHANGED vars
  PROVE  Inv'
<1>1. InOrder'
  BY StutterInOrder DEF Inv, vars
<1>2. Stops'
  <2>1. dispatched' = dispatched
    BY DEF vars, buffers, dispatched
  <2> QED BY <2>1 DEF Inv, Stops, StopsFor, Missed, vars, buffers
<1>3. EveryFetchIsOwed' /\ TypeOK'
  BY DEF Inv, EveryFetchIsOwed, TypeOK, vars, buffers, l1i
<1> QED BY <1>1, <1>2, <1>3 DEF Inv

LEMMA NextKeeps == Inv /\ [Next]_vars => Inv'
<1> SUFFICES ASSUME Inv, [Next]_vars
             PROVE  Inv'
  OBVIOUS
<1>1. ASSUME NEW w \in Window, NEW b \in Branch, InitializeInstruction(w, b)
      PROVE  Inv'
  BY <1>1, InitializeInstructionKeeps
<1>2. CASE CheckDIB
  BY <1>2, CheckDIBKeeps
<1>3. ASSUME NEW i \in 1..Len(IFETCH_BUFFER), FetchChunk(i)
      PROVE  Inv'
  BY <1>3, FetchChunkKeeps
<1>4. ASSUME NEW S \in SUBSET requests, L1IAnswers(S)
      PROVE  Inv'
  BY <1>4, L1IAnswersKeeps
<1>5. CASE HandleReturn
  BY <1>5, HandleReturnKeeps
<1>6. CASE Promote
  BY <1>6, PromoteKeeps
<1>7. CASE TakeDIBHit
  BY <1>7, TakeDIBHitKeeps
<1>8. CASE Decode
  BY <1>8, DecodeKeeps
<1>9. CASE Dispatch
  BY <1>9, DispatchKeeps
<1>10. ASSUME NEW b \in backend, CompleteBranch(b)
       PROVE  Inv'
  BY <1>10, CompleteBranchKeeps
<1>11. CASE UNCHANGED vars
  BY <1>11, StutterKeeps
<1> QED BY <1>1, <1>2, <1>3, <1>4, <1>5, <1>6, <1>7, <1>8, <1>9, <1>10, <1>11 DEF Next, Progress, Done

\* Inv holds throughout: the order of the instructions, where the one branch that
\* fetching waits for is, and that what waits for the L1I is owed an answer.
THEOREM Invariance == Spec => []Inv
<1>1. Init => Inv
  BY InitEstablishes
<1>2. Inv /\ [Next]_vars => Inv'
  BY NextKeeps
<1> QED BY <1>1, <1>2, PTL DEF Spec

-----------------------------------------------------------------------------
(* What the runs check *)

\* The fields keep their types and the buffers their sizes, and what waits for the
\* L1I is named by a request or a response.
THEOREM FetchesStayOwed == Spec => []FetchesAreOwed
<1>1. Inv => FetchesAreOwed
  BY DEF Inv, FetchesAreOwed
<1> QED BY <1>1, Invariance, PTL

LEMMA MispredictedIs ==
  ASSUME TypeOK
  PROVE  Mispredicted = Branches
<1> DEFINE b == <<IFETCH_BUFFER, DIB_HIT_BUFFER, DECODE_BUFFER, DISPATCH_BUFFER>>
<1>1. /\ IFETCH_BUFFER \in Seq(Instr) /\ DIB_HIT_BUFFER \in Seq(Instr)
      /\ DECODE_BUFFER \in Seq(Instr) /\ DISPATCH_BUFFER \in Seq(Instr)
  BY DEF TypeOK
<1>2. /\ buffers[1] = IFETCH_BUFFER /\ buffers[2] = DIB_HIT_BUFFER
      /\ buffers[3] = DECODE_BUFFER /\ buffers[4] = DISPATCH_BUFFER
  BY DEF buffers
<1>3. ASSUME NEW q \in Seq(Instr), NEW n
      PROVE  n \in MissedIds(q) <=> \E x \in ToSet(q) : x.branch_mispredicted # "none" /\ n = x.id
  <2>1. DOMAIN q = 1..Len(q)
    BY Elements
  <2>2. n \in MissedIds(q) <=> \E i \in 1..Len(q) : q[i].branch_mispredicted # "none" /\ n = q[i].id
    BY MissedIdsOf
  <2> QED BY <2>1, <2>2 DEF ToSet
<1>4. \A n : n \in Mispredicted <=>
        n \in backend \/ \E i \in 1..4 : \E x \in ToSet(buffers[i]) : x.branch_mispredicted # "none" /\ n = x.id
  BY DEF Mispredicted
<1>5. \A i : i \in 1..4 <=> i = 1 \/ i = 2 \/ i = 3 \/ i = 4
  OBVIOUS
<1>6. \A n : n \in Mispredicted <=> n \in Branches
  <2>1. ASSUME NEW n
        PROVE  n \in Mispredicted <=> n \in Branches
    <3>1. /\ n \in MissedIds(IFETCH_BUFFER) <=>
               \E x \in ToSet(buffers[1]) : x.branch_mispredicted # "none" /\ n = x.id
          /\ n \in MissedIds(DIB_HIT_BUFFER) <=>
               \E x \in ToSet(buffers[2]) : x.branch_mispredicted # "none" /\ n = x.id
          /\ n \in MissedIds(DECODE_BUFFER) <=>
               \E x \in ToSet(buffers[3]) : x.branch_mispredicted # "none" /\ n = x.id
          /\ n \in MissedIds(DISPATCH_BUFFER) <=>
               \E x \in ToSet(buffers[4]) : x.branch_mispredicted # "none" /\ n = x.id
      BY <1>1, <1>2, <1>3
    <3> QED BY <1>4, <1>5, <3>1 DEF Branches
  <2> QED BY <2>1
<1> QED BY <1>6

\* Fetching stands still exactly as long as one mispredicted branch is under way, the
\* youngest instruction there is.
THEOREM StopsStayMatched == Spec => []StopsForTheYoungest
<1>1. Inv => StopsForTheYoungest
  BY MispredictedIs, StopsMeans DEF Inv, StopsForTheYoungest
<1> QED BY <1>1, Invariance, PTL

-----------------------------------------------------------------------------
(* The refinement *)

out == [i \in 1..Len(DISPATCH_BUFFER) |-> DISPATCH_BUFFER[i].id]

waitsFor == IF fetch_stopped THEN entered ELSE 0

LEMMA IdsIn ==
  ASSUME NEW q \in Seq(Instr), NEW f, f = [i \in 1..Len(q) |-> q[i].id]
  PROVE  /\ f \in Seq(Nat) /\ Len(f) = Len(q) /\ Len(q) \in Nat
         /\ \A i \in 1..Len(q) : f[i] = q[i].id
<1>1. Len(q) \in Nat /\ \A i \in 1..Len(q) : q[i].id \in Nat
  <2>1. Len(q) \in Nat /\ \A i \in 1..Len(q) : q[i] \in Instr
    BY Elements
  <2> QED BY <2>1 DEF Instr, Id
<1>2. f \in [1..Len(q) -> Nat]
  BY <1>1
<1>3. f \in Seq(Nat) /\ Len(f) = Len(q)
  BY <1>1, <1>2, IsSeq
<1> QED BY <1>1, <1>3

LEMMA OutIs ==
  ASSUME TypeOK
  PROVE  /\ out \in Seq(Nat) /\ Len(out) = Len(DISPATCH_BUFFER) /\ Len(DISPATCH_BUFFER) \in Nat
         /\ \A i \in 1..Len(DISPATCH_BUFFER) : out[i] = DISPATCH_BUFFER[i].id
BY IdsIn DEF out, TypeOK

LEMMA OutNext ==
  ASSUME TypeOK'
  PROVE  /\ out' \in Seq(Nat) /\ Len(out') = Len(DISPATCH_BUFFER') /\ Len(DISPATCH_BUFFER') \in Nat
         /\ \A i \in 1..Len(DISPATCH_BUFFER') : out'[i] = DISPATCH_BUFFER'[i].id
BY IdsIn DEF out, TypeOK

\* The instruction that leaves comes out behind those before it.
LEMMA OutGrows ==
  ASSUME TypeOK, TypeOK', NEW x \in Instr, DISPATCH_BUFFER' = Append(DISPATCH_BUFFER, x)
  PROVE  out' = Append(out, x.id)
<1>1. /\ out \in Seq(Nat) /\ Len(out) = Len(DISPATCH_BUFFER) /\ Len(DISPATCH_BUFFER) \in Nat
      /\ \A i \in 1..Len(DISPATCH_BUFFER) : out[i] = DISPATCH_BUFFER[i].id
  BY OutIs
<1>2. /\ out' \in Seq(Nat) /\ Len(out') = Len(DISPATCH_BUFFER')
      /\ \A i \in 1..Len(DISPATCH_BUFFER') : out'[i] = DISPATCH_BUFFER'[i].id
  BY OutNext
<1>3. /\ Len(DISPATCH_BUFFER') = Len(DISPATCH_BUFFER) + 1
      /\ \A i \in 1..Len(DISPATCH_BUFFER) : DISPATCH_BUFFER'[i] = DISPATCH_BUFFER[i]
      /\ DISPATCH_BUFFER'[Len(DISPATCH_BUFFER) + 1] = x
  BY AppendProperties DEF TypeOK
<1>4. x.id \in Nat
  BY DEF Instr, Id
<1>5. /\ Append(out, x.id) \in Seq(Nat) /\ Len(Append(out, x.id)) = Len(out) + 1
      /\ \A i \in 1..Len(out) : Append(out, x.id)[i] = out[i]
      /\ Append(out, x.id)[Len(out) + 1] = x.id
  BY <1>1, <1>4, AppendProperties
<1>6. ASSUME NEW i \in 1..Len(out')
      PROVE  out'[i] = Append(out, x.id)[i]
  <2>1. CASE i \in 1..Len(out)
    <3>1. i \in 1..Len(DISPATCH_BUFFER) /\ i \in 1..Len(DISPATCH_BUFFER')
      BY <1>1, <1>2, <2>1
    <3>2. out'[i] = DISPATCH_BUFFER[i].id /\ out[i] = DISPATCH_BUFFER[i].id
      BY <1>1, <1>2, <1>3, <3>1
    <3> QED BY <1>5, <2>1, <3>2
  <2>2. CASE i = Len(out) + 1
    BY <1>1, <1>2, <1>3, <1>5, <2>2
  <2> QED BY <1>1, <1>2, <1>3, <2>1, <2>2
<1>7. Len(out') = Len(Append(out, x.id))
  BY <1>1, <1>2, <1>3, <1>5
<1> QED BY <1>2, <1>5, <1>6, <1>7, SeqEqual

LEMMA OutShrinks ==
  ASSUME TypeOK, TypeOK', DISPATCH_BUFFER # <<>>, DISPATCH_BUFFER' = Tail(DISPATCH_BUFFER)
  PROVE  out # <<>> /\ out' = Tail(out)
<1>1. /\ out \in Seq(Nat) /\ Len(out) = Len(DISPATCH_BUFFER) /\ Len(DISPATCH_BUFFER) \in Nat
      /\ \A i \in 1..Len(DISPATCH_BUFFER) : out[i] = DISPATCH_BUFFER[i].id
  BY OutIs
<1>2. /\ out' \in Seq(Nat) /\ Len(out') = Len(DISPATCH_BUFFER')
      /\ \A i \in 1..Len(DISPATCH_BUFFER') : out'[i] = DISPATCH_BUFFER'[i].id
  BY OutNext
<1>3. /\ Len(DISPATCH_BUFFER) \in Nat \ {0} /\ Len(DISPATCH_BUFFER') = Len(DISPATCH_BUFFER) - 1
      /\ \A i \in 1..Len(DISPATCH_BUFFER') : DISPATCH_BUFFER'[i] = DISPATCH_BUFFER[i + 1]
  BY FirstAndRest DEF TypeOK
<1>4. out # <<>>
  BY <1>1, <1>3, EmptyIfShort
<1>5. /\ Tail(out) \in Seq(Nat) /\ Len(Tail(out)) = Len(out) - 1
      /\ \A i \in 1..Len(Tail(out)) : Tail(out)[i] = out[i + 1]
  BY <1>1, <1>4, FirstAndRest
<1>6. ASSUME NEW i \in 1..Len(out')
      PROVE  out'[i] = Tail(out)[i]
  <2>1. i \in 1..Len(DISPATCH_BUFFER') /\ i \in 1..Len(Tail(out)) /\ i + 1 \in 1..Len(DISPATCH_BUFFER)
    BY <1>1, <1>2, <1>3, <1>5
  <2> QED BY <1>1, <1>2, <1>3, <1>5, <2>1
<1>7. Len(out') = Len(Tail(out))
  BY <1>1, <1>2, <1>3, <1>5
<1> QED BY <1>2, <1>4, <1>5, <1>6, <1>7, SeqEqual

\* Every step of the front end is one of InstructionStream, or changes nothing there.
LEMMA StepRefines == Inv /\ Inv' /\ [Next]_vars => [Stream!Next]_(Stream!streamVars)
<1> SUFFICES ASSUME Inv, Inv', [Next]_vars
             PROVE  Stream!Next \/ UNCHANGED <<entered, out, left, waitsFor>>
  BY DEF Stream!streamVars, out, waitsFor
<1>1. TypeOK /\ TypeOK' /\ entered \in Nat /\ left \in Nat /\ fetch_stopped \in BOOLEAN
  BY Types DEF Inv, TypeOK
<1>2. ASSUME UNCHANGED <<DISPATCH_BUFFER, fetch_stopped, entered, left>>
      PROVE  UNCHANGED <<entered, out, left, waitsFor>>
  BY <1>2 DEF out, waitsFor
<1>3. ASSUME NEW w \in Window, NEW b \in Branch, InitializeInstruction(w, b)
      PROVE  Stream!Enter
  <2>1. /\ ~fetch_stopped /\ entered' = entered + 1 /\ UNCHANGED <<DISPATCH_BUFFER, left>>
    BY <1>3 DEF InitializeInstruction
  <2>2. waitsFor = 0 /\ waitsFor' \in {0, entered'} /\ out' = out
    BY <2>1 DEF waitsFor, out
  <2> QED BY <2>1, <2>2 DEF Stream!Enter, out, waitsFor
<1>4. ASSUME CheckDIB \/ (\E i \in 1..Len(IFETCH_BUFFER) : FetchChunk(i))
               \/ (\E S \in SUBSET requests : L1IAnswers(S)) \/ HandleReturn \/ Promote \/ UNCHANGED vars
      PROVE  UNCHANGED <<entered, out, left, waitsFor>>
  <2>1. UNCHANGED <<DISPATCH_BUFFER, fetch_stopped, entered, left>>
    BY <1>4 DEF CheckDIB, FetchChunk, L1IAnswers, HandleReturn, Promote, vars, buffers
  <2> QED BY <1>2, <2>1
<1>5. CASE TakeDIBHit
  <2>1. left' = left + 1 /\ UNCHANGED <<entered, fetch_stopped>>
    BY <1>5 DEF TakeDIBHit
  <2>2. left < entered
    BY <1>5, TakeDIBHitKeeps
  <2>3. PICK x \in Instr : x.id = left + 1 /\ DISPATCH_BUFFER' = Append(DISPATCH_BUFFER, x)
    BY <1>5, TakeDIBHitKeeps
  <2>4. out' = Append(out, left') /\ waitsFor' = waitsFor
    <3>1. out' = Append(out, x.id)
      BY <1>1, <2>3, OutGrows
    <3> QED BY <2>1, <2>3, <3>1 DEF waitsFor
  <2> QED BY <2>1, <2>2, <2>4 DEF Stream!Next, Stream!Leave, out, waitsFor
<1>6. CASE Decode
  <2>1. left' = left + 1 /\ UNCHANGED entered
    BY <1>6 DEF Decode
  <2>2. /\ left < entered
        /\ fetch_stopped' # fetch_stopped => fetch_stopped /\ ~fetch_stopped' /\ entered = left + 1
    BY <1>6, DecodeKeeps
  <2>3. PICK x \in Instr : x.id = left + 1 /\ DISPATCH_BUFFER' = Append(DISPATCH_BUFFER, x)
    BY <1>6, DecodeKeeps
  <2>4. out' = Append(out, left')
    <3>1. out' = Append(out, x.id)
      BY <1>1, <2>3, OutGrows
    <3> QED BY <2>1, <2>3, <3>1
  <2>5. waitsFor' = waitsFor \/ (waitsFor = left' /\ waitsFor' = 0)
    BY <2>1, <2>2 DEF waitsFor
  <2> QED BY <2>1, <2>2, <2>4, <2>5 DEF Stream!Next, Stream!Leave, out, waitsFor
<1>7. CASE Dispatch
  <2>1. /\ DISPATCH_BUFFER # <<>> /\ DISPATCH_BUFFER' = Tail(DISPATCH_BUFFER)
        /\ UNCHANGED <<entered, left, fetch_stopped>>
    BY <1>7 DEF Dispatch
  <2>2. out # <<>> /\ out' = Tail(out) /\ waitsFor' = waitsFor
    BY <1>1, <2>1, OutShrinks DEF waitsFor
  <2> QED BY <2>1, <2>2 DEF Stream!Next, Stream!Dispatch, out, waitsFor
<1>8. ASSUME NEW b \in backend, CompleteBranch(b)
      PROVE  Stream!Resume
  <2>1. fetch_stopped /\ b = entered /\ b <= dispatched
    BY <1>8, CompleteBranchKeeps
  <2>2. ~fetch_stopped' /\ UNCHANGED <<DISPATCH_BUFFER, entered, left>>
    BY <1>8 DEF CompleteBranch, buffers
  <2>3. /\ dispatched \in Nat /\ dispatched <= left
        /\ \A i \in 1..Len(DISPATCH_BUFFER) : dispatched < DISPATCH_BUFFER[i].id
    BY Places DEF Inv
  <2>4. b \in Nat \ {0}
    BY <1>1 DEF TypeOK, Id
  <2>5. waitsFor \in 1..left /\ waitsFor = b /\ waitsFor' = 0 /\ out' = out
    <3>1. b \in 1..left
      <4> HIDE DEF dispatched
      <4> QED BY <1>1, <2>1, <2>3, <2>4
    <3> QED BY <2>1, <2>2, <3>1 DEF waitsFor, out
  <2>6. \A i \in 1..Len(out) : out[i] # b
    <3>1. /\ Len(out) = Len(DISPATCH_BUFFER)
          /\ \A i \in 1..Len(DISPATCH_BUFFER) : out[i] = DISPATCH_BUFFER[i].id
      BY <1>1, OutIs
    <3>2. ~(dispatched < b)
      <4> HIDE DEF dispatched
      <4> QED BY <2>1, <2>3, <2>4
    <3> QED BY <2>3, <3>1, <3>2
  <2> QED BY <2>2, <2>5, <2>6 DEF Stream!Resume, out, waitsFor
<1> QED BY <1>3, <1>4, <1>5, <1>6, <1>7, <1>8 DEF Next, Progress, Done, Stream!Next

\* Instructions come out in program order, each once, and none is read behind a
\* mispredicted branch that is not resolved: the front end implements InstructionStream.
THEOREM FrontEndKeepsTheStream == Spec => KeepsTheStream
<1>1. Init => Stream!Init
  BY DEF Init, Stream!Init
<1>2. Inv /\ Inv' /\ [Next]_vars => [Stream!Next]_(Stream!streamVars)
  BY StepRefines
<1> QED BY <1>1, <1>2, Invariance, PTL DEF Spec, KeepsTheStream, Stream!Spec
=============================================================================
