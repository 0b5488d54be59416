----------------------- MODULE PageTableWalkerProofs -----------------------
(* Proofs about VirtualMemory, and about PageTableWalker, which changes it  *)
(* only by the operations of its own: no page has two uses, walks are on    *)
(* their way, and the walker implements PageTranslation.                    *)
EXTENDS PageTableWalker, TLAPS

LOCAL INSTANCE SequenceTheorems
WF == INSTANCE WellFoundedInduction

-----------------------------------------------------------------------------
(* The virtual memory *)

Distinct(q) == \A i, j \in 1..Len(q) : q[i] = q[j] => i = j

\* No page is in the free list twice, and the page that is being filled with
\* tables is in no other use and has room above its tables.
PageForTables ==
  ~refilled =>
    /\ Distinct(ppage_free_list)
    /\ next_pte_page # 0 =>
         /\ active_pte_page \notin VM!Free
         /\ \A x \in DOMAIN vpage_to_ppage_map : vpage_to_ppage_map[x] # active_pte_page
         /\ \A k \in DOMAIN page_table :
              page_table[k][1] = active_pte_page => page_table[k][2] < next_pte_page

MemoryInv == VM!TypeOK /\ VM!NoPageTwice /\ PageForTables

-----------------------------------------------------------------------------
(* What the recursion of Span computes.  A set of counterexamples would     *)
(* have a least element, and there is none.                                 *)

LEMMA LeastOf ==
  ASSUME NEW T, T \subseteq Nat, T # {}
  PROVE  \E x \in T : \A y \in T : x <= y
<1>1. PICK R : WF!IsWellFoundedOn(R, Nat) /\ \A x, y \in Nat : x < y => <<x, y>> \in R
  <2> DEFINE R == WF!OpToRel(<, Nat)
  <2>1. WF!IsWellFoundedOn(R, Nat)
    BY WF!NatLessThanWellFounded
  <2>2. \A x, y \in Nat : x < y => <<x, y>> \in R
    BY DEF WF!OpToRel
  <2> HIDE DEF R
  <2> QED BY <2>1, <2>2
<1>2. PICK x \in T : \A y \in T : ~ (<<y, x>> \in R)
  <2>1. WF!IsWellFoundedOn(R, Nat)
    BY <1>1
  <2> QED BY <2>1, WF!WFMin
<1>3. ASSUME NEW y \in T PROVE x <= y
  <2>1. x \in Nat /\ y \in Nat /\ ~(y < x)
    BY <1>1, <1>2
  <2> QED BY <2>1
<1> QED BY <1>3

\* g is the first n + 1 powers.
Spans(g, n) ==
  /\ g \in [0..n -> Nat \ {0}] /\ g[0] = 1
  /\ \A k \in 1..n : g[k] = pte_page_size * g[k - 1]

\* The two lemmas make Span a function: some g is right up to n, and those that are agree.
LEMMA SpansExist ==
  ASSUME pte_page_size \in Nat \ {0}, NEW n \in Nat
  PROVE  \E g : Spans(g, n)
<1> DEFINE T == {m \in Nat : ~ \E g : Spans(g, m)}
<1>1. ASSUME T # {} PROVE FALSE
  <2>1. PICK m \in T : \A k \in T : m <= k
    BY <1>1, LeastOf
  <2>2. m # 0
    <3>1. Spans([k \in 0..0 |-> 1], 0)
      BY DEF Spans
    <3> QED BY <2>1, <3>1
  <2>3. m \in Nat /\ m - 1 \in Nat /\ m - 1 \notin T
    BY <2>1, <2>2
  <2>4. PICK g : Spans(g, m - 1)
    BY <2>3
  <2> DEFINE h == [k \in 0..m |-> IF k = m THEN pte_page_size * g[m - 1] ELSE g[k]]
  <2>5. pte_page_size * g[m - 1] \in Nat \ {0}
    <3>1. g[m - 1] \in Nat \ {0}
      BY <2>3, <2>4 DEF Spans
    <3> QED BY <3>1
  <2>6. Spans(h, m)
    <3>1. h \in [0..m -> Nat \ {0}]
      BY <2>3, <2>4, <2>5 DEF Spans
    <3>2. h[0] = 1
      BY <2>2, <2>3, <2>4 DEF Spans
    <3>3. ASSUME NEW k \in 1..m PROVE h[k] = pte_page_size * h[k - 1]
      <4>1. k \in 0..m /\ k - 1 \in 0..m /\ k - 1 # m /\ h[k - 1] = g[k - 1]
        BY <2>3
      <4>2. CASE k = m
        BY <4>1, <4>2
      <4>3. CASE k # m
        <5>1. k \in 1..m - 1 /\ h[k] = g[k]
          BY <2>3, <4>1, <4>3
        <5> QED BY <2>4, <4>1, <5>1 DEF Spans
      <4> QED BY <4>2, <4>3
    <3> QED BY <3>1, <3>2, <3>3 DEF Spans
  <2> QED BY <2>1, <2>6
<1> QED BY <1>1

LEMMA SpansAgree ==
  ASSUME pte_page_size \in Nat \ {0}, NEW n \in Nat, NEW m \in Nat, NEW g, NEW h, Spans(g, n), Spans(h, m),
         NEW k \in 0..n, k <= m
  PROVE  g[k] = h[k]
<1> DEFINE T == {j \in Nat : j <= n /\ j <= m /\ g[j] # h[j]}
<1>1. ASSUME T # {} PROVE FALSE
  <2>1. PICK j \in T : \A i \in T : j <= i
    BY <1>1, LeastOf
  <2>2. j # 0
    BY <2>1 DEF Spans
  <2>3. j - 1 \in Nat /\ j - 1 \notin T /\ j \in 1..n /\ j \in 1..m
    BY <2>1, <2>2
  <2>4. g[j - 1] = h[j - 1]
    BY <2>3
  <2> QED BY <2>1, <2>3, <2>4 DEF Spans
<1> QED BY <1>1

\* What Span computes.
LEMMA SpanSteps ==
  ASSUME pte_page_size \in Nat \ {0}
  PROVE  /\ VM!Span[0] = 1
         /\ \A n \in Nat : VM!Span[n] \in Nat \ {0} /\ VM!Span[n + 1] = pte_page_size * VM!Span[n]
<1> DEFINE f == [n \in Nat |-> (CHOOSE g : Spans(g, n))[n]]
           Times(s) == [n \in Nat |-> IF n = 0 THEN 1 ELSE pte_page_size * s[n - 1]]
<1>1. \A n \in Nat : Spans(CHOOSE g : Spans(g, n), n)
  BY SpansExist
<1>2. \A n \in Nat : f[n] \in Nat \ {0} /\ f[n] = IF n = 0 THEN 1 ELSE pte_page_size * f[n - 1]
  <2> TAKE n \in Nat
  <2>1. f[n] \in Nat \ {0} /\ (n = 0 => f[n] = 1)
    <3>1. PICK g : g = CHOOSE h : Spans(h, n)
      OBVIOUS
    <3>2. Spans(g, n) /\ f[n] = g[n]
      BY <1>1, <3>1
    <3> HIDE DEF f
    <3> QED BY <3>2 DEF Spans
  <2>2. ASSUME n # 0 PROVE f[n] = pte_page_size * f[n - 1]
    <3> DEFINE g == CHOOSE g : Spans(g, n)
               h == CHOOSE h : Spans(h, n - 1)
    <3>1. n - 1 \in Nat /\ n - 1 \in 0..n - 1 /\ n \in 1..n
      BY <2>2
    <3>2. Spans(g, n) /\ Spans(h, n - 1) /\ f[n] = g[n] /\ f[n - 1] = h[n - 1]
      BY <1>1, <3>1
    <3> HIDE DEF g, h, f
    <3>3. g[n - 1] = h[n - 1]
      BY <3>1, <3>2, SpansAgree
    <3>4. g[n] = pte_page_size * g[n - 1]
      BY <3>1, <3>2 DEF Spans
    <3> QED BY <3>2, <3>3, <3>4
  <2> QED BY <2>1, <2>2
<1>3. f = Times(f)
  <2>1. f = [n \in Nat |-> f[n]]
    OBVIOUS
  <2> HIDE DEF f
  <2> QED BY <1>2, <2>1
<1> HIDE DEF f
<1>4. VM!Span = Times(VM!Span)
  <2>1. VM!Span = CHOOSE s : s = Times(s)
    BY DEF VM!Span
  <2> HIDE DEF Times
  <2> QED BY <1>3, <2>1
<1>5. \A n \in Nat : VM!Span[n] = IF n = 0 THEN 1 ELSE pte_page_size * VM!Span[n - 1]
  BY <1>4
<1> DEFINE T == {n \in Nat : VM!Span[n] \notin Nat \ {0}}
<1>6. ASSUME T # {} PROVE FALSE
  <2>1. PICK m \in T : \A k \in T : m <= k
    BY <1>6, LeastOf
  <2>2. m \in Nat /\ m # 0 /\ m - 1 \in Nat /\ m - 1 \notin T
    BY <1>5, <2>1
  <2>3. VM!Span[m] = pte_page_size * VM!Span[m - 1] /\ VM!Span[m - 1] \in Nat \ {0}
    BY <1>5, <2>2
  <2> QED BY <2>1, <2>3
<1>7. \A n \in Nat : VM!Span[n] \in Nat \ {0}
  BY <1>6
<1>8. \A n \in Nat : VM!Span[n + 1] = pte_page_size * VM!Span[n]
  BY <1>5
<1> QED BY <1>5, <1>7, <1>8

\* A level up, the prefix of a page is a table's size times smaller.
LEMMA PrefixSteps ==
  ASSUME VM!VirtualMemoryAssumption, NEW v \in Nat, NEW l \in Nat \ {0}
  PROVE  /\ VM!Prefix(v, l) \in Nat /\ VM!Prefix(v, l) \div pte_page_size = VM!Prefix(v, l + 1)
         /\ VM!Offset(v, l) \in 0..pte_page_size - 1
<1>1. /\ pte_page_size \in Nat \ {0} /\ l - 1 \in Nat /\ (l - 1) + 1 = l /\ (l + 1) - 1 = l
      /\ VM!Span[l - 1] \in Nat \ {0} /\ VM!Span[l] = pte_page_size * VM!Span[l - 1]
  <2>1. pte_page_size \in Nat \ {0} /\ l - 1 \in Nat /\ (l - 1) + 1 = l /\ (l + 1) - 1 = l
    BY DEF VM!VirtualMemoryAssumption
  <2>2. VM!Span[l - 1] \in Nat \ {0} /\ VM!Span[(l - 1) + 1] = pte_page_size * VM!Span[l - 1]
    BY <2>1, SpanSteps
  <2> QED BY <2>1, <2>2
<1>2. \A a \in Nat, b, c \in Nat \ {0} : a \div b \in Nat /\ (a \div b) \div c = a \div (c * b) /\ a % c \in 0..c - 1
  OBVIOUS
<1>3. VM!Prefix(v, l) = v \div VM!Span[l - 1] /\ VM!Prefix(v, l + 1) = v \div (pte_page_size * VM!Span[l - 1])
  BY <1>1 DEF VM!Prefix
<1>4. VM!Prefix(v, l) \in Nat /\ VM!Prefix(v, l) \div pte_page_size = VM!Prefix(v, l + 1)
  <2>1. PICK n : n = VM!Span[l - 1]
    OBVIOUS
  <2>2. n \in Nat \ {0} /\ pte_page_size \in Nat \ {0}
    BY <1>1, <2>1
  <2>3. v \div n \in Nat /\ (v \div n) \div pte_page_size = v \div (pte_page_size * n)
    BY <1>2, <2>2
  <2> QED BY <1>3, <2>1, <2>3
<1> QED BY <1>1, <1>2, <1>4 DEF VM!Offset

-----------------------------------------------------------------------------
(* The free list *)

LEMMA TailOfDistinct ==
  ASSUME NEW S, NEW q \in Seq(S), Len(q) > 1, Distinct(q)
  PROVE  /\ Tail(q) \in Seq(S) /\ Tail(q) # <<>> /\ Distinct(Tail(q))
         /\ Head(q) \in S
         /\ \A i \in 1..Len(Tail(q)) : Tail(q)[i] # Head(q) /\ \E j \in 1..Len(q) : Tail(q)[i] = q[j]
<1>1. Len(q) \in Nat /\ q # <<>> /\ Len(<<>>) = 0
  BY LenProperties, EmptySeq
<1>2. /\ Head(q) = q[1] /\ Head(q) \in S /\ Tail(q) \in Seq(S)
      /\ Len(Tail(q)) = Len(q) - 1 /\ \A i \in 1..Len(Tail(q)) : Tail(q)[i] = q[i + 1]
  BY <1>1, HeadTailProperties
<1>3. Tail(q) # <<>>
  <2>1. Len(Tail(q)) # Len(<<>>)
    BY <1>1, <1>2
  <2> QED BY <2>1
<1>4. ASSUME NEW i \in 1..Len(Tail(q))
      PROVE  i \in Nat /\ i + 1 \in 1..Len(q) /\ i + 1 # 1 /\ Tail(q)[i] = q[i + 1]
  BY <1>1, <1>2
<1>5. Distinct(Tail(q))
  <2> SUFFICES ASSUME NEW i \in 1..Len(Tail(q)), NEW j \in 1..Len(Tail(q)), Tail(q)[i] = Tail(q)[j]
               PROVE  i = j
    BY DEF Distinct
  <2>1. q[i + 1] = q[j + 1] /\ i + 1 \in 1..Len(q) /\ j + 1 \in 1..Len(q) /\ i \in Nat /\ j \in Nat
    BY <1>4
  <2>2. i + 1 = j + 1
    BY <2>1 DEF Distinct
  <2> QED BY <2>1, <2>2
<1>6. ASSUME NEW i \in 1..Len(Tail(q))
      PROVE  Tail(q)[i] # Head(q) /\ \E j \in 1..Len(q) : Tail(q)[i] = q[j]
  <2>1. 1 \in 1..Len(q) /\ i + 1 \in 1..Len(q) /\ i + 1 # 1
    BY <1>1, <1>4
  <2>2. q[i + 1] # q[1]
    BY <2>1 DEF Distinct
  <2> QED BY <1>2, <1>4, <2>1, <2>2
<1> QED BY <1>2, <1>3, <1>5, <1>6

\* What Pop does: the page taken was free and is not any more, or the list is
\* filled again.
LEMMA FreePageTaken ==
  ASSUME VM!VirtualMemoryAssumption, VM!TypeOK, VM!Pop
  PROVE  /\ ppage_free_list' \in Seq(VM!Page) /\ ppage_free_list' # <<>> /\ refilled' \in BOOLEAN
         /\ Head(ppage_free_list) \in VM!Page /\ Head(ppage_free_list) \in VM!Free
         /\ ~refilled' /\ Distinct(ppage_free_list) =>
              /\ ~refilled
              /\ Distinct(ppage_free_list')
              /\ VM!Free' \subseteq VM!Free \ {Head(ppage_free_list)}
<1>1. /\ ppage_free_list \in Seq(VM!Page) /\ ppage_free_list # <<>>
      /\ Len(ppage_free_list) \in Nat /\ Len(ppage_free_list) >= 1
      /\ Head(ppage_free_list) = ppage_free_list[1]
  BY EmptySeq, LenProperties, HeadTailProperties DEF VM!TypeOK
<1>2. PageOrder \in Seq(VM!Page) /\ PageOrder # <<>>
  BY SeqDef, LenProperties DEF VM!VirtualMemoryAssumption, VM!Page
<1>3. Head(ppage_free_list) \in VM!Page /\ Head(ppage_free_list) \in VM!Free
  BY <1>1, ElementOfSeq DEF VM!Free
<1>4. CASE Len(ppage_free_list) > 1
  <2>1. ppage_free_list' = Tail(ppage_free_list) /\ refilled' = refilled
    BY <1>4 DEF VM!Pop
  <2>2. ppage_free_list' \in Seq(VM!Page) /\ ppage_free_list' # <<>>
    <3>1. Len(<<>>) = 0
      BY EmptySeq
    <3>2. Tail(ppage_free_list) \in Seq(VM!Page) /\ Len(Tail(ppage_free_list)) = Len(ppage_free_list) - 1
      BY <1>1, HeadTailProperties
    <3>3. PICK t : t = Tail(ppage_free_list)
      OBVIOUS
    <3>4. Len(t) # Len(<<>>)
      BY <1>1, <1>4, <3>1, <3>2, <3>3
    <3>5. Tail(ppage_free_list) # <<>>
      BY <3>3, <3>4
    <3> QED BY <2>1, <3>2, <3>5
  <2>3. ASSUME Distinct(ppage_free_list)
        PROVE  Distinct(ppage_free_list') /\ VM!Free' \subseteq VM!Free \ {Head(ppage_free_list)}
    <3>1. /\ Distinct(Tail(ppage_free_list))
          /\ \A i \in 1..Len(Tail(ppage_free_list)) :
               /\ Tail(ppage_free_list)[i] # Head(ppage_free_list)
               /\ \E j \in 1..Len(ppage_free_list) : Tail(ppage_free_list)[i] = ppage_free_list[j]
      BY <1>1, <1>4, <2>3, TailOfDistinct
    <3> QED BY <2>1, <3>1 DEF VM!Free
  <2> QED BY <1>3, <2>1, <2>2, <2>3 DEF VM!TypeOK
<1>5. CASE ~(Len(ppage_free_list) > 1)
  BY <1>2, <1>3, <1>5 DEF VM!Pop
<1> QED BY <1>4, <1>5

-----------------------------------------------------------------------------
(* The steps of the virtual memory *)

LEMMA VaToPaKeepsPages ==
  ASSUME VM!VirtualMemoryAssumption, MemoryInv, NEW c \in Cpu, NEW v \in Vpage, VM!VaToPa(c, v)
  PROVE  MemoryInv'
<1> DEFINE k == <<c, v>>
<1> USE DEF MemoryInv
<1>1. /\ DOMAIN vpage_to_ppage_map' = DOMAIN vpage_to_ppage_map \cup {k}
      /\ \A x \in DOMAIN vpage_to_ppage_map : vpage_to_ppage_map'[x] = vpage_to_ppage_map[x]
      /\ k \notin DOMAIN vpage_to_ppage_map => vpage_to_ppage_map'[k] = Head(ppage_free_list)
      /\ k \in Cpu \X Vpage
  <2>1. vpage_to_ppage_map' = VM!TryEmplace(vpage_to_ppage_map, k, VM!Ppage(c, v))
    BY DEF VM!VaToPa
  <2>2. k \notin DOMAIN vpage_to_ppage_map => VM!Ppage(c, v) = Head(ppage_free_list)
    BY DEF VM!Ppage
  <2>3. k \in Cpu \X Vpage
    OBVIOUS
  <2> HIDE DEF k
  <2> QED BY <2>1, <2>2, <2>3 DEF VM!TryEmplace
<1>2. UNCHANGED <<page_table, active_pte_page, next_pte_page>>
  BY DEF VM!VaToPa
<1>3. CASE k \in DOMAIN vpage_to_ppage_map
  <2>1. UNCHANGED <<ppage_free_list, refilled>> /\ DOMAIN vpage_to_ppage_map' = DOMAIN vpage_to_ppage_map
    BY <1>1, <1>3 DEF VM!VaToPa, VM!KeepPages
  <2>2. VM!TypeOK'
    BY <1>1, <1>2, <2>1 DEF VM!TypeOK
  <2>3. VM!NoPageTwice'
    BY <1>1, <1>2, <2>1 DEF VM!NoPageTwice, VM!Injective, VM!Free
  <2>4. PageForTables'
    BY <1>1, <1>2, <2>1 DEF PageForTables, VM!Free
  <2> QED BY <2>2, <2>3, <2>4
<1>4. CASE k \notin DOMAIN vpage_to_ppage_map
  <2> DEFINE p == Head(ppage_free_list)
  <2>1. VM!Pop
    BY <1>4 DEF VM!VaToPa
  <2>2. /\ ppage_free_list' \in Seq(VM!Page) /\ ppage_free_list' # <<>> /\ refilled' \in BOOLEAN
        /\ p \in VM!Page /\ p \in VM!Free
        /\ ~refilled' /\ Distinct(ppage_free_list) =>
             ~refilled /\ Distinct(ppage_free_list') /\ VM!Free' \subseteq VM!Free \ {p}
    BY <2>1, FreePageTaken
  <2>3. VM!TypeOK'
    BY <1>1, <1>2, <1>4, <2>2 DEF VM!TypeOK
  <2>4. ASSUME ~refilled'
        PROVE  /\ ~refilled /\ Distinct(ppage_free_list') /\ VM!Free' \subseteq VM!Free \ {p}
               /\ \A x \in DOMAIN vpage_to_ppage_map : vpage_to_ppage_map[x] # p
               /\ \A t \in DOMAIN page_table : page_table[t][1] # p
    <3>1. ~refilled
      BY <2>1, <2>4 DEF VM!Pop
    <3> QED BY <2>2, <2>4, <3>1 DEF PageForTables, VM!NoPageTwice
  <2>5. VM!NoPageTwice'
    <3> SUFFICES ASSUME ~refilled' PROVE VM!NoPageTwice'
      BY DEF VM!NoPageTwice
    <3> HIDE DEF k, p
    <3>1. VM!Injective(vpage_to_ppage_map')
      BY <1>1, <1>4, <2>4 DEF VM!NoPageTwice, VM!Injective, p
    <3>2. \A x \in DOMAIN vpage_to_ppage_map' : vpage_to_ppage_map'[x] \notin VM!Free'
      BY <1>1, <1>4, <2>4 DEF VM!NoPageTwice, p
    <3>3. \A t \in DOMAIN page_table : page_table[t][1] \notin VM!Free'
      BY <2>4 DEF VM!NoPageTwice
    <3>4. \A x \in DOMAIN vpage_to_ppage_map', t \in DOMAIN page_table :
            vpage_to_ppage_map'[x] # page_table[t][1]
      BY <1>1, <1>4, <2>4 DEF VM!NoPageTwice, p
    <3> QED BY <1>2, <2>4, <3>1, <3>2, <3>3, <3>4 DEF VM!NoPageTwice, VM!Injective
  <2>6. PageForTables'
    <3> SUFFICES ASSUME ~refilled' PROVE PageForTables'
      BY DEF PageForTables
    <3>1. next_pte_page # 0 => p # active_pte_page
      BY <2>2, <2>4 DEF PageForTables
    <3> QED BY <1>1, <1>2, <1>4, <2>4, <3>1 DEF PageForTables
  <2> QED BY <2>3, <2>5, <2>6
<1> QED BY <1>3, <1>4

LEMMA GetPtePaKeepsPages ==
  ASSUME VM!VirtualMemoryAssumption, MemoryInv, NEW c \in Cpu, NEW v \in Vpage, NEW l \in VM!Level,
         VM!GetPtePa(c, v, l)
  PROVE  MemoryInv'
<1> DEFINE k == VM!TableKey(c, v, l)
           p == active_pte_page'
<1> USE DEF MemoryInv
<1>1. /\ DOMAIN page_table' = DOMAIN page_table \cup {k}
      /\ \A x \in DOMAIN page_table : page_table'[x] = page_table[x]
      /\ k \notin DOMAIN page_table => page_table'[k] = <<p, next_pte_page>>
      /\ k \in VM!Keys
      /\ UNCHANGED vpage_to_ppage_map
  <2>1. k \in VM!Keys
    BY DEF VM!Keys
  <2>2. page_table' = VM!TryEmplace(page_table, k, VM!TableOf(c, v, l)) /\ UNCHANGED vpage_to_ppage_map
        /\ p = VM!PagePicked
    BY DEF VM!GetPtePa
  <2>3. k \notin DOMAIN page_table => VM!TableOf(c, v, l) = <<p, next_pte_page>>
    BY <2>2 DEF VM!TableOf
  <2> HIDE DEF k, p
  <2> QED BY <2>1, <2>2, <2>3 DEF VM!TryEmplace
<1>2. /\ ppage_free_list' \in Seq(VM!Page) /\ ppage_free_list' # <<>> /\ refilled' \in BOOLEAN
      /\ p \in VM!Page
      /\ ~refilled' =>
           /\ ~refilled /\ Distinct(ppage_free_list') /\ VM!Free' \subseteq VM!Free /\ p \notin VM!Free'
           /\ \A x \in DOMAIN vpage_to_ppage_map : vpage_to_ppage_map[x] # p
           /\ \A t \in DOMAIN page_table : page_table[t][1] = p => page_table[t][2] < next_pte_page
  <2>1. CASE next_pte_page = 0
    <3>1. VM!Pop /\ p = Head(ppage_free_list)
      BY <2>1 DEF VM!GetPtePa, VM!PagePicked
    <3>2. /\ ppage_free_list' \in Seq(VM!Page) /\ ppage_free_list' # <<>> /\ refilled' \in BOOLEAN
          /\ p \in VM!Page /\ p \in VM!Free
          /\ ~refilled' /\ Distinct(ppage_free_list) =>
               ~refilled /\ Distinct(ppage_free_list') /\ VM!Free' \subseteq VM!Free \ {p}
      BY <3>1, FreePageTaken
    <3>3. ~refilled' => ~refilled
      BY <3>1 DEF VM!Pop
    <3> QED BY <3>2, <3>3 DEF PageForTables, VM!NoPageTwice
  <2>2. CASE next_pte_page # 0
    <3>1. UNCHANGED <<ppage_free_list, refilled>> /\ p = active_pte_page
      BY <2>2 DEF VM!GetPtePa, VM!PagePicked, VM!KeepPages
    <3> QED BY <2>2, <3>1 DEF VM!TypeOK, PageForTables, VM!Free
  <2> QED BY <2>1, <2>2
<1>3. /\ next_pte_page \in 0..tables_per_page - 1 /\ tables_per_page \in Nat \ {0}
      /\ next_pte_page' = IF k \in DOMAIN page_table
                            THEN next_pte_page ELSE (next_pte_page + 1) % tables_per_page
  BY DEF VM!TypeOK, VM!VirtualMemoryAssumption, VM!GetPtePa
<1>4. /\ next_pte_page' \in 0..tables_per_page - 1
      /\ next_pte_page' # 0 =>
           /\ k \in DOMAIN page_table => next_pte_page' = next_pte_page
           /\ k \notin DOMAIN page_table => next_pte_page' = next_pte_page + 1
  BY <1>3
<1> HIDE DEF k, p
<1>5. VM!TypeOK'
  <2>1. \A t \in DOMAIN page_table' : page_table'[t] \in VM!Table
    <3>1. <<p, next_pte_page>> \in VM!Table
      BY <1>2, <1>3 DEF VM!Table
    <3>2. \A t \in DOMAIN page_table : page_table[t] \in VM!Table
      BY DEF VM!TypeOK
    <3> QED BY <1>1, <3>1, <3>2
  <2> QED BY <1>1, <1>2, <1>4, <2>1 DEF VM!TypeOK, p
<1>6. ASSUME ~refilled' PROVE VM!NoPageTwice'
  <2>1. VM!Injective(page_table')
    <3>1. \A t \in DOMAIN page_table : page_table[t] \in VM!Table /\ page_table[t][2] \in Nat
      BY DEF VM!TypeOK, VM!Table
    <3>2. \A t \in DOMAIN page_table : page_table[t] # <<p, next_pte_page>>
      BY <1>2, <1>3, <1>6, <3>1
    <3>3. VM!Injective(page_table)
      BY <1>2, <1>6 DEF VM!NoPageTwice
    <3> QED BY <1>1, <3>2, <3>3 DEF VM!Injective
  <2>2. \A x \in DOMAIN vpage_to_ppage_map, t \in DOMAIN page_table' :
          vpage_to_ppage_map[x] # page_table'[t][1]
    BY <1>1, <1>2, <1>6 DEF VM!NoPageTwice
  <2>3. \A x \in DOMAIN vpage_to_ppage_map : vpage_to_ppage_map[x] \notin VM!Free'
    BY <1>2, <1>6 DEF VM!NoPageTwice
  <2>4. \A t \in DOMAIN page_table' : page_table'[t][1] \notin VM!Free'
    BY <1>1, <1>2, <1>6 DEF VM!NoPageTwice
  <2>5. VM!Injective(vpage_to_ppage_map)
    BY <1>2, <1>6 DEF VM!NoPageTwice
  <2> QED BY <1>1, <2>1, <2>2, <2>3, <2>4, <2>5 DEF VM!NoPageTwice, VM!Injective
<1>7. ASSUME ~refilled' PROVE PageForTables'
  <2>1. ASSUME next_pte_page' # 0, NEW t \in DOMAIN page_table', page_table'[t][1] = p
        PROVE  page_table'[t][2] < next_pte_page'
    <3>1. CASE t \in DOMAIN page_table
      <4>1. page_table[t] \in VM!Table /\ page_table[t][2] \in Nat
        BY <3>1 DEF VM!TypeOK, VM!Table
      <4>2. page_table[t][2] < next_pte_page
        BY <1>1, <1>2, <1>7, <2>1, <3>1
      <4> QED BY <1>1, <1>3, <1>4, <2>1, <3>1, <4>1, <4>2
    <3>2. CASE t \notin DOMAIN page_table
      BY <1>1, <1>3, <1>4, <2>1, <3>2
    <3> QED BY <3>1, <3>2
  <2> QED BY <1>1, <1>2, <1>7, <2>1 DEF PageForTables, p
<1> QED BY <1>5, <1>6, <1>7 DEF VM!NoPageTwice, PageForTables

LEMMA MemoryInvariance ==
  ASSUME VM!VirtualMemoryAssumption
  PROVE  VM!Spec => []MemoryInv
<1>1. VM!Init => MemoryInv
  <2> SUFFICES ASSUME VM!Init PROVE MemoryInv
    OBVIOUS
  <2>1. DOMAIN vpage_to_ppage_map = {} /\ DOMAIN page_table = {}
    BY DEF VM!Init
  <2>2. PageOrder \in Seq(VM!Page) /\ PageOrder # <<>> /\ tables_per_page \in Nat \ {0}
    BY SeqDef, LenProperties DEF VM!VirtualMemoryAssumption, VM!Page
  <2>3. VM!TypeOK
    <3>1. 0 \in 0..tables_per_page - 1
      BY <2>2
    <3> QED BY <2>1, <2>2, <3>1 DEF VM!Init, VM!TypeOK
  <2>4. VM!NoPageTwice /\ PageForTables
    BY <2>1 DEF VM!Init, VM!NoPageTwice, PageForTables, VM!Injective, Distinct, VM!VirtualMemoryAssumption
  <2> QED BY <2>3, <2>4 DEF MemoryInv
<1>2. MemoryInv /\ [VM!Next]_VM!vmem => MemoryInv'
  <2> SUFFICES ASSUME MemoryInv, [VM!Next]_VM!vmem PROVE MemoryInv'
    OBVIOUS
  <2>1. ASSUME NEW c \in Cpu, NEW v \in Vpage, VM!VaToPa(c, v)
        PROVE  MemoryInv'
    BY <2>1, VaToPaKeepsPages
  <2>2. ASSUME NEW c \in Cpu, NEW v \in Vpage, NEW l \in VM!Level, VM!GetPtePa(c, v, l)
        PROVE  MemoryInv'
    BY <2>2, GetPtePaKeepsPages
  <2>3. CASE UNCHANGED VM!vmem
    BY <2>3 DEF VM!vmem, MemoryInv, VM!TypeOK, VM!NoPageTwice, PageForTables, VM!Injective, VM!Free, Distinct
  <2> QED BY <2>1, <2>2, <2>3 DEF VM!Next
<1> QED BY <1>1, <1>2, PTL DEF VM!Spec

-----------------------------------------------------------------------------
(* The inductive invariant of the walker *)

\* The walker knows the root of its page table.
RootKnown == <<cpu, pt_levels, 0>> \in DOMAIN page_table

\* A walk with the next table's address was above the lowest level, one with the page is at it.
RightLevels ==
  /\ \A k \in DOMAIN finished : finished[k].walk.level > 0
  /\ \A k \in DOMAIN completed : completed[k].walk.level = 0

\* No request is in two places at once, and none is there that was not made.
Asked(i) == \E k \in DOMAIN RQ : RQ[k].id = i
Waits(i) == \E w \in MSHR : w.id = i
HasTable(i) == \E k \in DOMAIN finished : finished[k].walk.id = i
HasPage(i) == \E k \in DOMAIN completed : completed[k].walk.id = i

OnlyOnce ==
  /\ \A i, j \in DOMAIN RQ : RQ[i].id = RQ[j].id => i = j
  /\ \A v, w \in MSHR : v.id = w.id => v = w
  /\ \A i, j \in DOMAIN finished : finished[i].walk.id = finished[j].walk.id => i = j
  /\ \A i, j \in DOMAIN completed : completed[i].walk.id = completed[j].walk.id => i = j

Apart ==
  /\ \A i : Asked(i) => ~Waits(i) /\ ~HasTable(i) /\ ~HasPage(i)
  /\ \A i : Waits(i) => ~HasTable(i) /\ ~HasPage(i)
  /\ \A i : HasTable(i) => ~HasPage(i)

WereAsked ==
  /\ \A i : Asked(i) \/ Waits(i) \/ HasTable(i) \/ HasPage(i) => i <= asked
  /\ \A k \in DOMAIN returned : returned[k][1] <= asked

OnePlaceEach == OnlyOnce /\ Apart /\ WereAsked

\* A page that was found is the one that is mapped.
PagesAreMapped ==
  \A k \in DOMAIN completed :
    /\ <<cpu, completed[k].walk.vpage>> \in DOMAIN vpage_to_ppage_map
    /\ completed[k].data = vpage_to_ppage_map[<<cpu, completed[k].walk.vpage>>]

\* A table that was found is the one below the walk's level, toward its page.
TablesAreBelow ==
  \A k \in DOMAIN finished : \A x : x = VM!TableKey(cpu, finished[k].walk.vpage, finished[k].walk.level) =>
    x \in DOMAIN page_table /\ finished[k].data.table = page_table[x]

\* An entry of a walk cache is a table one level below, toward all pages of its tag.
CachedTables ==
  \A l \in PsclLevel : \A k \in DOMAIN pscl[l] : \E x \in DOMAIN page_table :
    /\ x[1] = cpu /\ x[2] = l - 1 /\ x[3] \div pte_page_size = pscl[l][k].tag
    /\ pscl[l][k].data.table = page_table[x]

Inv ==
  /\ MemoryInv /\ TypeOK /\ EveryWalkIsOwed
  /\ RootKnown /\ RightLevels /\ OnePlaceEach /\ PagesAreMapped /\ TablesAreBelow /\ CachedTables

-----------------------------------------------------------------------------
(* Sequences *)

LEMMA InSeq ==
  ASSUME NEW S, NEW q \in Seq(S)
  PROVE  /\ Len(q) \in Nat /\ DOMAIN q = 1..Len(q) /\ \A k \in DOMAIN q : q[k] \in S
         /\ ToSet(q) = {q[k] : k \in DOMAIN q}
BY LenProperties, ElementOfSeq DEF ToSet

\* Behind an appended element nothing moves.
LEMMA Appended ==
  ASSUME NEW S, NEW q \in Seq(S), NEW x \in S
  PROVE  /\ Append(q, x) \in Seq(S) /\ Len(Append(q, x)) = Len(q) + 1
         /\ DOMAIN Append(q, x) = DOMAIN q \cup {Len(q) + 1}
         /\ Append(q, x)[Len(q) + 1] = x
         /\ \A j \in DOMAIN q : Append(q, x)[j] = q[j] /\ j # Len(q) + 1
<1>1. /\ Append(q, x) \in Seq(S) /\ Len(Append(q, x)) = Len(q) + 1
      /\ Append(q, x)[Len(q) + 1] = x /\ \A j \in 1..Len(q) : Append(q, x)[j] = q[j]
  BY AppendProperties
<1>2. DOMAIN Append(q, x) = 1..(Len(q) + 1) /\ DOMAIN q = 1..Len(q) /\ Len(q) \in Nat
  BY <1>1, InSeq
<1>3. 1..(Len(q) + 1) = 1..Len(q) \cup {Len(q) + 1}
  BY <1>2
<1> QED BY <1>1, <1>2, <1>3

\* What is left when the front element has gone.
LEMMA FrontTaken ==
  ASSUME NEW S, NEW q \in Seq(S), q # <<>>
  PROVE  /\ 1 \in DOMAIN q /\ Head(q) = q[1] /\ Head(q) \in S
         /\ Tail(q) \in Seq(S) /\ Len(Tail(q)) = Len(q) - 1
         /\ \A j \in DOMAIN Tail(q) : j \in Nat /\ j + 1 # 1 /\ j + 1 \in DOMAIN q /\ Tail(q)[j] = q[j + 1]
         /\ \A j \in DOMAIN q : j # 1 => j - 1 \in DOMAIN Tail(q) /\ Tail(q)[j - 1] = q[j]
<1>1. Len(q) \in Nat /\ Len(q) # 0 /\ DOMAIN q = 1..Len(q)
  BY InSeq, EmptySeq
<1>2. /\ Head(q) \in S /\ Tail(q) \in Seq(S) /\ Len(Tail(q)) = Len(q) - 1
      /\ \A j \in 1..(Len(q) - 1) : Tail(q)[j] = q[j + 1]
  BY <1>1, HeadTailProperties
<1>3. DOMAIN Tail(q) = 1..(Len(q) - 1)
  BY <1>1, <1>2, InSeq
<1>4. Head(q) = q[1]
  OBVIOUS
<1>5. \A j \in DOMAIN Tail(q) : j \in Nat /\ j + 1 # 1 /\ j + 1 \in DOMAIN q /\ Tail(q)[j] = q[j + 1]
  BY <1>1, <1>2, <1>3
<1>6. ASSUME NEW j \in DOMAIN q, j # 1
      PROVE  j - 1 \in DOMAIN Tail(q) /\ Tail(q)[j - 1] = q[j]
  <2>1. j - 1 \in 1..(Len(q) - 1) /\ (j - 1) + 1 = j
    BY <1>1, <1>6
  <2> QED BY <1>2, <1>3, <2>1
<1> QED BY <1>1, <1>2, <1>4, <1>5, <1>6

-----------------------------------------------------------------------------
(* The virtual memory, as the walker uses it *)

\* No map forgets or changes what it has.
MapsGrow ==
  /\ \A x \in DOMAIN vpage_to_ppage_map :
       x \in DOMAIN vpage_to_ppage_map' /\ vpage_to_ppage_map'[x] = vpage_to_ppage_map[x]
  /\ \A x \in DOMAIN page_table : x \in DOMAIN page_table' /\ page_table'[x] = page_table[x]

LEMMA VaToPaKeeps ==
  ASSUME WalkerAssumption, MemoryInv, NEW c \in Cpu, NEW v \in Vpage, VM!VaToPa(c, v)
  PROVE  /\ MemoryInv' /\ MapsGrow /\ UNCHANGED page_table
         /\ DOMAIN vpage_to_ppage_map' = DOMAIN vpage_to_ppage_map \cup {<<c, v>>}
         /\ vpage_to_ppage_map'[<<c, v>>] = VM!Ppage(c, v)
<1>1. MemoryInv'
  BY VaToPaKeepsPages DEF WalkerAssumption
<1> QED BY <1>1 DEF VM!VaToPa, VM!TryEmplace, VM!Ppage, MapsGrow

LEMMA GetPtePaKeeps ==
  ASSUME WalkerAssumption, MemoryInv, NEW c \in Cpu, NEW v \in Vpage, NEW l \in 1..pt_levels,
         VM!GetPtePa(c, v, l)
  PROVE  /\ MemoryInv' /\ MapsGrow /\ UNCHANGED vpage_to_ppage_map
         /\ VM!TableKey(c, v, l) \in DOMAIN page_table'
         /\ page_table'[VM!TableKey(c, v, l)] = VM!TableOf(c, v, l)
<1>1. l \in VM!Level
  BY DEF VM!Level
<1>2. MemoryInv'
  BY <1>1, GetPtePaKeepsPages DEF WalkerAssumption
<1> QED BY <1>2 DEF VM!GetPtePa, VM!TryEmplace, VM!TableOf, MapsGrow

LEMMA OtherStepsKeep ==
  ASSUME MemoryInv, UNCHANGED vmem
  PROVE  MemoryInv' /\ MapsGrow
BY DEF vmem, MemoryInv, VM!TypeOK, VM!NoPageTwice, PageForTables, VM!Injective, VM!Free, MapsGrow

\* The root of the page table is in the first page of the free list.
LEMMA RootIsTaken ==
  ASSUME WalkerAssumption, Init
  PROVE  MemoryInv
<1> DEFINE root == <<cpu, pt_levels, 0>>
<1>1. /\ PageOrder \in Seq(Nat) /\ PageOrder # <<>> /\ Len(PageOrder) > 1 /\ cpu \in Cpu
      /\ tables_per_page \in Nat \ {0} /\ pt_levels \in Nat \ {0}
      /\ \A i, j \in 1..Len(PageOrder) : PageOrder[i] = PageOrder[j] => i = j
  BY DEF WalkerAssumption, VM!VirtualMemoryAssumption
<1>2. PageOrder \in Seq(VM!Page) /\ Len(PageOrder) \in Nat /\ PageOrder[1] \in VM!Page
  BY <1>1, SeqDef, LenProperties DEF VM!Page
<1>3. /\ DOMAIN vpage_to_ppage_map = {} /\ refilled = FALSE
      /\ DOMAIN page_table = {root} /\ page_table[root] = <<PageOrder[1], 0>>
      /\ ppage_free_list = Tail(PageOrder) /\ active_pte_page = PageOrder[1]
  BY DEF Init
<1>4. next_pte_page \in 0..tables_per_page - 1 /\ (next_pte_page # 0 => next_pte_page = 1)
  <2>1. next_pte_page = 1 % tables_per_page /\ tables_per_page \in Nat \ {0}
    BY <1>1 DEF Init
  <2>2. CASE tables_per_page = 1
    BY <2>1, <2>2
  <2>3. CASE tables_per_page > 1
    BY <2>1, <2>3
  <2> QED BY <2>1, <2>2, <2>3
<1>5. /\ ppage_free_list \in Seq(VM!Page) /\ ppage_free_list # <<>>
      /\ Distinct(ppage_free_list) /\ PageOrder[1] \notin VM!Free
  <2>1. Distinct(PageOrder) /\ Head(PageOrder) = PageOrder[1]
    BY <1>1 DEF Distinct
  <2>2. /\ Tail(PageOrder) \in Seq(VM!Page) /\ Len(Tail(PageOrder)) = Len(PageOrder) - 1
        /\ Distinct(Tail(PageOrder))
        /\ \A i \in 1..Len(Tail(PageOrder)) : Tail(PageOrder)[i] # Head(PageOrder)
    BY <1>1, <1>2, <2>1, TailOfDistinct, HeadTailProperties
  <2>3. PICK t : t = Tail(PageOrder)
    OBVIOUS
  <2>4. Len(t) # Len(<<>>)
    BY <1>1, <1>2, <2>2, <2>3, EmptySeq
  <2>5. Tail(PageOrder) # <<>>
    BY <2>3, <2>4
  <2> QED BY <1>3, <2>1, <2>2, <2>5 DEF VM!Free
<1>6. root \in VM!Keys /\ <<PageOrder[1], 0>> \in VM!Table
  BY <1>1, <1>2 DEF VM!Keys, VM!Table
<1> HIDE DEF root
<1>7. VM!TypeOK
  BY <1>2, <1>3, <1>4, <1>5, <1>6 DEF VM!TypeOK
<1>8. VM!NoPageTwice
  BY <1>3, <1>5 DEF VM!NoPageTwice, VM!Injective
<1>9. PageForTables
  BY <1>3, <1>4, <1>5 DEF PageForTables
<1> QED BY <1>7, <1>8, <1>9 DEF MemoryInv

-----------------------------------------------------------------------------
(* The walk caches *)

\* An entry that is moved or dropped makes none that was not there.
LEMMA RemovedAt ==
  ASSUME NEW S, NEW t \in Seq(S), NEW i \in DOMAIN t
  PROVE  /\ Lru!RemoveAt(t, i) \in Seq(S) /\ Len(Lru!RemoveAt(t, i)) = Len(t) - 1
         /\ \A k \in DOMAIN Lru!RemoveAt(t, i) : \E j \in DOMAIN t : Lru!RemoveAt(t, i)[k] = t[j]
<1> DEFINE front == SubSeq(t, 1, i - 1)
           back == SubSeq(t, i + 1, Len(t))
<1>1. Len(t) \in Nat /\ DOMAIN t = 1..Len(t) /\ i \in 1..Len(t) /\ \A k \in 1..Len(t) : t[k] \in S
  BY InSeq
<1>2. /\ front \in Seq(S) /\ Len(front) = i - 1 /\ \A k \in 1..(i - 1) : front[k] = t[k]
  <2>1. \A k \in 1..(i - 1) : t[k] \in S
    BY <1>1
  <2>2. /\ front \in Seq(S)
        /\ Len(front) = IF 1 <= i - 1 THEN (i - 1) - 1 + 1 ELSE 0
        /\ \A k \in 1..((i - 1) - 1 + 1) : front[k] = t[1 + k - 1]
    BY <1>1, <2>1, SubSeqProperties
  <2> QED BY <1>1, <2>2
<1>3. /\ back \in Seq(S) /\ Len(back) = Len(t) - i /\ \A k \in 1..(Len(t) - i) : back[k] = t[i + k]
  <2>1. \A k \in (i + 1)..Len(t) : t[k] \in S
    BY <1>1
  <2>2. /\ back \in Seq(S)
        /\ Len(back) = IF i + 1 <= Len(t) THEN Len(t) - (i + 1) + 1 ELSE 0
        /\ \A k \in 1..(Len(t) - (i + 1) + 1) : back[k] = t[(i + 1) + k - 1]
    BY <1>1, <2>1, SubSeqProperties
  <2> HIDE DEF back
  <2>3. Len(back) = Len(t) - i
    BY <1>1, <2>2
  <2>4. ASSUME NEW k \in 1..(Len(t) - i) PROVE back[k] = t[i + k]
    <3>1. k \in 1..(Len(t) - (i + 1) + 1) /\ (i + 1) + k - 1 = i + k
      BY <1>1
    <3> QED BY <2>2, <3>1
  <2> QED BY <2>2, <2>3, <2>4
<1>4. Lru!RemoveAt(t, i) = front \o back
  BY DEF Lru!RemoveAt
<1> HIDE DEF front, back
<1>5. /\ front \o back \in Seq(S) /\ Len(front \o back) = Len(front) + Len(back)
      /\ \A k \in 1..(Len(front) + Len(back)) :
           (front \o back)[k] = IF k <= Len(front) THEN front[k] ELSE back[k - Len(front)]
  BY <1>2, <1>3, ConcatProperties
<1>6. DOMAIN (front \o back) = 1..(Len(front) + Len(back)) /\ Len(front) + Len(back) = Len(t) - 1
  BY <1>1, <1>2, <1>3, <1>5, InSeq
<1>7. ASSUME NEW k \in 1..(Len(front) + Len(back))
      PROVE  \E j \in DOMAIN t : (front \o back)[k] = t[j]
  <2>1. CASE k <= i - 1
    <3>1. k \in 1..(i - 1) /\ k \in DOMAIN t
      BY <1>1, <2>1
    <3> QED BY <1>2, <1>5, <2>1, <3>1
  <2>2. CASE ~(k <= i - 1)
    <3>1. k - Len(front) \in 1..(Len(t) - i) /\ i + (k - Len(front)) \in DOMAIN t
      BY <1>1, <1>2, <1>6, <2>2
    <3> QED BY <1>2, <1>3, <1>5, <2>2, <3>1
  <2> QED BY <2>1, <2>2
<1> QED BY <1>4, <1>5, <1>6, <1>7

LEMMA CheckedTable ==
  ASSUME NEW S, NEW t \in Seq(S), NEW tag
  PROVE  /\ Lru!Checked(t, tag) \in Seq(S) /\ Len(Lru!Checked(t, tag)) = Len(t)
         /\ \A k \in DOMAIN Lru!Checked(t, tag) : \E j \in DOMAIN t : Lru!Checked(t, tag)[k] = t[j]
<1>1. CASE Lru!Holds(t, tag)
  <2> DEFINE i == CHOOSE n \in Lru!WaysOf(t, tag) : TRUE
             r == Lru!RemoveAt(t, i)
  <2>1. i \in DOMAIN t
    BY <1>1, InSeq DEF Lru!Holds, Lru!WaysOf
  <2>2. Lru!Checked(t, tag) = Append(r, t[i])
    BY <1>1 DEF Lru!Checked
  <2> HIDE DEF i
  <2>3. /\ r \in Seq(S) /\ Len(r) = Len(t) - 1
        /\ \A k \in DOMAIN r : \E j \in DOMAIN t : r[k] = t[j]
    BY <2>1, RemovedAt
  <2> HIDE DEF r
  <2>4. t[i] \in S /\ Len(t) \in Nat
    BY <2>1, InSeq
  <2>5. /\ Append(r, t[i]) \in Seq(S) /\ Len(Append(r, t[i])) = Len(r) + 1
        /\ DOMAIN Append(r, t[i]) = DOMAIN r \cup {Len(r) + 1}
        /\ Append(r, t[i])[Len(r) + 1] = t[i]
        /\ \A j \in DOMAIN r : Append(r, t[i])[j] = r[j]
    BY <2>3, <2>4, Appended
  <2> QED BY <2>1, <2>2, <2>3, <2>4, <2>5
<1>2. CASE ~Lru!Holds(t, tag)
  BY <1>2 DEF Lru!Checked
<1> QED BY <1>1, <1>2

LEMMA FilledTable ==
  ASSUME NEW S, NEW t \in Seq(S), NEW ways \in Nat \ {0}, Len(t) <= ways, NEW tag, NEW data,
         NEW e \in S, e = [tag |-> tag, data |-> data], NEW u, u = Lru!Filled(t, ways, tag, data)
  PROVE  /\ u \in Seq(S) /\ Len(u) <= ways
         /\ \A k \in DOMAIN u : u[k] = e \/ \E j \in DOMAIN t : u[k] = t[j]
<1> DEFINE kept == IF Lru!Holds(t, tag) THEN Lru!RemoveAt(t, CHOOSE i \in Lru!WaysOf(t, tag) : TRUE)
                   ELSE IF Len(t) < ways THEN t ELSE Tail(t)
<1>1. u = Append(kept, e)
  BY DEF Lru!Filled
<1>2. Len(t) \in Nat /\ DOMAIN t = 1..Len(t)
  BY InSeq
<1>3. /\ kept \in Seq(S) /\ Len(kept) + 1 <= ways
      /\ \A k \in DOMAIN kept : \E j \in DOMAIN t : kept[k] = t[j]
  <2>1. CASE Lru!Holds(t, tag)
    <3>1. PICK i : i = CHOOSE n \in Lru!WaysOf(t, tag) : TRUE
      OBVIOUS
    <3>2. i \in DOMAIN t /\ kept = Lru!RemoveAt(t, i)
      BY <1>2, <2>1, <3>1 DEF Lru!Holds, Lru!WaysOf
    <3>3. PICK r : r = Lru!RemoveAt(t, i)
      OBVIOUS
    <3>4. /\ r \in Seq(S) /\ Len(r) = Len(t) - 1
          /\ \A k \in DOMAIN r : \E j \in DOMAIN t : r[k] = t[j]
      BY <3>2, <3>3, RemovedAt
    <3>5. kept = r
      BY <3>2, <3>3
    <3> HIDE DEF kept
    <3> QED BY <1>2, <3>4, <3>5
  <2>2. CASE ~Lru!Holds(t, tag) /\ Len(t) < ways
    BY <1>2, <2>2
  <2>3. CASE ~Lru!Holds(t, tag) /\ ~(Len(t) < ways)
    <3>1. kept = Tail(t)
      BY <2>3
    <3> HIDE DEF kept
    <3>2. Len(t) = ways /\ Len(t) # 0
      <4>1. PICK n : n = Len(t)
        OBVIOUS
      <4>2. n \in Nat /\ n <= ways /\ ~(n < ways)
        BY <1>2, <2>3, <4>1
      <4>3. n = ways /\ n # 0
        BY <4>2
      <4> QED BY <4>1, <4>3
    <3>3. t # <<>>
      BY <3>2, EmptySeq
    <3> QED BY <1>2, <3>1, <3>2, <3>3, FrontTaken
  <2> QED BY <2>1, <2>2, <2>3
<1> HIDE DEF kept
<1>5. /\ Append(kept, e) \in Seq(S) /\ Len(Append(kept, e)) = Len(kept) + 1
      /\ DOMAIN Append(kept, e) = DOMAIN kept \cup {Len(kept) + 1}
      /\ Append(kept, e)[Len(kept) + 1] = e
      /\ \A j \in DOMAIN kept : Append(kept, e)[j] = kept[j]
  BY <1>3, Appended
<1>6. \A k \in DOMAIN Append(kept, e) : Append(kept, e)[k] = e \/ \E j \in DOMAIN t : Append(kept, e)[k] = t[j]
  BY <1>3, <1>5
<1>7. Append(kept, e) \in Seq(S) /\ Len(Append(kept, e)) <= ways
  BY <1>3, <1>5
<1> QED BY <1>1, <1>6, <1>7

LEMMA FoundEntry ==
  ASSUME NEW S, NEW t \in Seq(S), NEW tag, Lru!Holds(t, tag)
  PROVE  \E j \in DOMAIN t : t[j].tag = tag /\ Lru!Found(t, tag) = t[j].data
BY InSeq DEF Lru!Holds, Lru!Found, Lru!WaysOf

\* Checking a walk cache adds nothing to it.
LEMMA CachesTouched ==
  ASSUME TypeOK, CachedTables, NEW v, pscl' = Touched(v), MapsGrow
  PROVE  /\ pscl' \in [PsclLevel -> Seq(PsclEntry)] /\ \A l \in PsclLevel : Len(pscl'[l]) <= PSCL_WAYS
         /\ CachedTables'
<1>1. ASSUME NEW l \in PsclLevel
      PROVE  /\ pscl[l] \in Seq(PsclEntry) /\ Len(pscl[l]) <= PSCL_WAYS
             /\ pscl'[l] = Lru!Checked(pscl[l], PsclTag(l, v))
  BY DEF TypeOK, Touched
<1>2. ASSUME NEW l \in PsclLevel
      PROVE  /\ pscl'[l] \in Seq(PsclEntry) /\ Len(pscl'[l]) <= PSCL_WAYS
             /\ \A k \in DOMAIN pscl'[l] : \E j \in DOMAIN pscl[l] : pscl'[l][k] = pscl[l][j]
  <2>1. PICK t, u : t = pscl[l] /\ u = Lru!Checked(t, PsclTag(l, v))
    OBVIOUS
  <2>2. t \in Seq(PsclEntry) /\ Len(t) <= PSCL_WAYS /\ pscl'[l] = u
    BY <1>1, <2>1
  <2>3. /\ u \in Seq(PsclEntry) /\ Len(u) = Len(t)
        /\ \A k \in DOMAIN u : \E j \in DOMAIN t : u[k] = t[j]
    BY <2>1, <2>2, CheckedTable
  <2> QED BY <2>1, <2>2, <2>3
<1>3. pscl' = [l \in PsclLevel |-> pscl'[l]]
  BY DEF Touched
<1>4. ASSUME NEW l \in PsclLevel, NEW k \in DOMAIN pscl'[l]
      PROVE  \E x \in DOMAIN page_table' :
               /\ x[1] = cpu /\ x[2] = l - 1 /\ x[3] \div pte_page_size = pscl'[l][k].tag
               /\ pscl'[l][k].data.table = page_table'[x]
  <2>1. PICK j \in DOMAIN pscl[l] : pscl'[l][k] = pscl[l][j]
    BY <1>2
  <2> QED BY <2>1 DEF CachedTables, MapsGrow
<1> QED BY <1>2, <1>3, <1>4 DEF CachedTables

LEMMA CachesCarried ==
  ASSUME CachedTables, MapsGrow, UNCHANGED pscl
  PROVE  CachedTables'
<1> SUFFICES ASSUME NEW l \in PsclLevel, NEW k \in DOMAIN pscl[l]
             PROVE  \E x \in DOMAIN page_table' :
                      /\ x[1] = cpu /\ x[2] = l - 1 /\ x[3] \div pte_page_size = pscl[l][k].tag
                      /\ pscl[l][k].data.table = page_table'[x]
  BY DEF CachedTables
<1> QED BY DEF CachedTables, MapsGrow

-----------------------------------------------------------------------------
(* The walks *)

\* What the proofs need of levels, tables and addresses.
LEMMA Sizes ==
  ASSUME WalkerAssumption
  PROVE  /\ cpu \in Cpu /\ Vpage \subseteq Nat /\ OtherVpage \subseteq Vpage
         /\ pt_levels \in Nat /\ pt_levels > 1 /\ PsclLevel = 2..pt_levels
         /\ pte_page_size \in Nat \ {0} /\ tables_per_page \in Nat \ {0}
         /\ PSCL_WAYS \in Nat \ {0} /\ PtesPerBlock \in Nat \ {0} /\ MaxWalks \in Nat
BY DEF WalkerAssumption, VM!VirtualMemoryAssumption, PsclLevel

LEMMA Steps ==
  ASSUME WalkerAssumption, NEW v \in Vpage, NEW l \in Nat \ {0}
  PROVE  /\ VM!Prefix(v, l) \in Nat /\ VM!Prefix(v, l) \div pte_page_size = VM!Prefix(v, l + 1)
         /\ VM!Offset(v, l) \in 0..pte_page_size - 1
<1>1. v \in Nat
  BY Sizes
<1> QED BY <1>1, PrefixSteps DEF WalkerAssumption

LEMMA Blocks ==
  ASSUME WalkerAssumption, NEW a \in VM!PteAddress
  PROVE  BlockOf(a) \in Block
<1>1. \A n \in Nat, m, b \in Nat \ {0} : n \in 0..m - 1 => n \div b \in 0..m - 1
  <2> SUFFICES ASSUME NEW n \in Nat, NEW m \in Nat \ {0}, NEW b \in Nat \ {0}, n \in 0..m - 1
               PROVE  n \div b \in 0..m - 1
    OBVIOUS
  <2>1. n \div b \in Nat /\ n \div b <= n
    OBVIOUS
  <2> QED BY <2>1
<1>2. a.table \in VM!Table /\ a.offset \in 0..pte_page_size - 1 /\ a.offset \in Nat
  BY Sizes DEF VM!PteAddress
<1>3. a.offset \div PtesPerBlock \in 0..pte_page_size - 1
  BY <1>1, <1>2, Sizes
<1> QED BY <1>2, <1>3 DEF BlockOf, Block

\* A walk starts at a level there is, in a table toward its page, whatever the walk
\* caches know.
LEMMA WalkStarts ==
  ASSUME WalkerAssumption, Inv, NEW v \in Vpage
  PROVE  /\ WalkInit(v).level \in 0..pt_levels - 1
         /\ WalkInit(v).address \in VM!PteAddress
         /\ tables_per_page = 1 => WalkInit(v).address.table \in TablesToward(v, WalkInit(v).level)
<1> DEFINE hits == {l \in PsclLevel : Lru!Holds(pscl[l], PsclTag(l, v))}
           lowest == CHOOSE l \in hits : \A k \in hits : l <= k
           root == <<cpu, pt_levels, 0>>
<1>1. pt_levels \in Nat /\ pt_levels > 1 /\ hits \subseteq 2..pt_levels
  BY Sizes
<1>2. /\ hits = {} => WalkInit(v) = WalkFrom(pt_levels - 1, CR3_addr, v)
      /\ hits # {} => WalkInit(v) = WalkFrom(lowest - 1, Lru!Found(pscl[lowest], PsclTag(lowest, v)), v)
  BY DEF WalkInit
<1>3. hits # {} => lowest \in hits
  <2> HIDE DEF hits
  <2>1. hits # {} => \E l \in hits : \A k \in hits : l <= k
    <3>1. hits \subseteq Nat
      BY <1>1
    <3> QED BY <3>1, LeastOf
  <2> QED BY <2>1
<1>4. \A x \in DOMAIN page_table :
        /\ page_table[x] = <<page_table[x][1], page_table[x][2]>>
        /\ page_table[x][1] \in VM!Page /\ page_table[x][2] \in 0..tables_per_page - 1
  BY DEF Inv, TypeOK, VM!TypeOK, VM!Table
<1>5. ASSUME NEW l \in Nat \ {0}, NEW a, NEW x \in DOMAIN page_table, a.table = page_table[x]
      PROVE  /\ WalkFrom(l, a, v).level = l /\ WalkFrom(l, a, v).address \in VM!PteAddress
             /\ tables_per_page = 1 => WalkFrom(l, a, v).address.table = page_table[x]
  <2>1. page_table[x] = <<a.table[1], page_table[x][2]>> /\ a.table[1] \in VM!Page
        /\ page_table[x][2] \in 0..tables_per_page - 1
    BY <1>4, <1>5
  <2>2. 0 \in 0..tables_per_page - 1 /\ (tables_per_page = 1 => page_table[x][2] = 0)
    BY <2>1, Sizes
  <2>3. VM!Offset(v, l) \in 0..pte_page_size - 1
    BY Steps
  <2> QED BY <2>1, <2>2, <2>3 DEF WalkFrom, VM!PteAddress, VM!Table
<1> HIDE DEF hits, lowest
<1>6. CASE hits = {}
  <2>1. PICK x \in DOMAIN page_table : x = root
    BY DEF Inv, RootKnown
  <2>2. CR3_addr.table = page_table[x]
    BY <2>1 DEF CR3_addr
  <2>3. PICK l \in Nat \ {0} : l = pt_levels - 1 /\ l \in 0..pt_levels - 1
    BY <1>1
  <2>4. WalkInit(v) = WalkFrom(l, CR3_addr, v)
    BY <1>2, <1>6, <2>3
  <2>5. /\ WalkInit(v).level = l /\ WalkInit(v).address \in VM!PteAddress
        /\ tables_per_page = 1 => WalkInit(v).address.table = page_table[x]
    BY <1>5, <2>2, <2>4
  <2>6. page_table[x] \in TablesToward(v, l)
    BY <2>1 DEF TablesToward
  <2> QED BY <2>3, <2>5, <2>6
<1>7. CASE hits # {}
  <2> DEFINE a == Lru!Found(pscl[lowest], PsclTag(lowest, v))
  <2>1. lowest \in PsclLevel /\ lowest \in 2..pt_levels /\ Lru!Holds(pscl[lowest], PsclTag(lowest, v))
    BY <1>1, <1>3, <1>7 DEF hits
  <2>2. pscl[lowest] \in Seq(PsclEntry)
    BY <2>1 DEF Inv, TypeOK
  <2>3. PICK j \in DOMAIN pscl[lowest] : pscl[lowest][j].tag = PsclTag(lowest, v) /\ a = pscl[lowest][j].data
    BY <2>1, <2>2, FoundEntry
  <2>4. PICK x \in DOMAIN page_table :
          /\ x[1] = cpu /\ x[2] = lowest - 1 /\ x[3] \div pte_page_size = PsclTag(lowest, v)
          /\ a.table = page_table[x]
    BY <2>1, <2>3 DEF Inv, CachedTables
  <2> HIDE DEF a
  <2>5. lowest - 1 \in Nat /\ lowest - 1 # 0 /\ lowest - 1 \in 0..pt_levels - 1 /\ (lowest - 1) + 1 = lowest
    BY <1>1, <2>1
  <2>6. WalkInit(v) = WalkFrom(lowest - 1, a, v)
    BY <1>2, <1>7 DEF a
  <2>7. /\ WalkInit(v).level = lowest - 1 /\ WalkInit(v).address \in VM!PteAddress
        /\ tables_per_page = 1 => WalkInit(v).address.table = page_table[x]
    BY <1>5, <2>4, <2>5, <2>6
  <2>8. page_table[x] \in TablesToward(v, lowest - 1)
    BY <2>4, <2>5 DEF TablesToward, PsclTag
  <2> QED BY <2>5, <2>7, <2>8
<1> QED BY <1>6, <1>7

\* What is asked below is owed.
LEMMA StepIsOwed ==
  ASSUME WalkerAssumption, TypeOK, EveryWalkIsOwed, NEW w \in WalkAt,
         StepTranslation(w) \/ Refused, UNCHANGED lower_returned
  PROVE  /\ MSHR' \subseteq WalkAt /\ outstanding' \subseteq (Walk \X (0..pt_levels - 1) \X Block)
         /\ EveryWalkIsOwed'
<1>1. w.id \in Walk /\ w.level \in 0..pt_levels - 1 /\ BlockOf(w.address) \in Block
  BY Blocks DEF WalkAt
<1>2. CASE StepTranslation(w)
  <2>1. outstanding' = outstanding \cup {<<w.id, w.level, BlockOf(w.address)>>} /\ MSHR' = MSHR \cup {w}
    BY <1>2 DEF StepTranslation
  <2>2. EveryWalkIsOwed'
    <3> SUFFICES ASSUME NEW x \in MSHR'
                 PROVE  BlockOf(x.address) \in {y[3] : y \in outstanding'} \cup ToSet(lower_returned)
      BY DEF EveryWalkIsOwed
    <3>1. CASE x \in MSHR
      BY <2>1, <3>1 DEF EveryWalkIsOwed
    <3>2. CASE x = w
      <4>1. PICK t \in outstanding' : t = <<w.id, w.level, BlockOf(w.address)>>
        BY <2>1
      <4>2. t[3] = BlockOf(x.address)
        BY <3>2, <4>1
      <4> QED BY <4>2
    <3> QED BY <2>1, <3>1, <3>2
  <2> QED BY <1>1, <2>1, <2>2 DEF TypeOK
<1>3. CASE Refused
  BY <1>3 DEF Refused, TypeOK, EveryWalkIsOwed
<1> QED BY <1>2, <1>3

-----------------------------------------------------------------------------
(* The places of a request *)

\* What is taken from the front of a queue is in it no more, ...
LEMMA RequestTaken ==
  ASSUME RQ \in Seq(Request), RQ # <<>>, RQ' = Tail(RQ),
         \A i, j \in DOMAIN RQ : RQ[i].id = RQ[j].id => i = j
  PROVE  /\ \A i, j \in DOMAIN RQ' : RQ'[i].id = RQ'[j].id => i = j
         /\ \A i : Asked(i)' => Asked(i) /\ i # Head(RQ).id
         /\ \A i : Asked(i) => Asked(i)' \/ i = Head(RQ).id
         /\ Asked(Head(RQ).id)
<1>1. /\ 1 \in DOMAIN RQ /\ Head(RQ) = RQ[1]
      /\ \A j \in DOMAIN RQ' : j \in Nat /\ j + 1 # 1 /\ j + 1 \in DOMAIN RQ /\ RQ'[j] = RQ[j + 1]
      /\ \A j \in DOMAIN RQ : j # 1 => j - 1 \in DOMAIN RQ' /\ RQ'[j - 1] = RQ[j]
  BY FrontTaken
<1>2. ASSUME NEW i \in DOMAIN RQ', NEW j \in DOMAIN RQ', RQ'[i].id = RQ'[j].id
      PROVE  i = j
  <2>1. i + 1 = j + 1 /\ i \in Nat /\ j \in Nat
    BY <1>1, <1>2
  <2> QED BY <2>1
<1>3. ASSUME NEW i, Asked(i)' PROVE Asked(i) /\ i # Head(RQ).id
  BY <1>1, <1>3 DEF Asked
<1>4. ASSUME NEW i, Asked(i) PROVE Asked(i)' \/ i = Head(RQ).id
  <2>1. PICK k \in DOMAIN RQ : RQ[k].id = i
    BY <1>4 DEF Asked
  <2>2. CASE k = 1
    BY <1>1, <2>1, <2>2
  <2>3. CASE k # 1
    BY <1>1, <2>1, <2>3 DEF Asked
  <2> QED BY <2>2, <2>3
<1> QED BY <1>1, <1>2, <1>3, <1>4 DEF Asked

LEMMA TableTaken ==
  ASSUME finished \in Seq(WithTable), finished # <<>>, finished' = Tail(finished),
         \A i, j \in DOMAIN finished : finished[i].walk.id = finished[j].walk.id => i = j
  PROVE  /\ \A i, j \in DOMAIN finished' : finished'[i].walk.id = finished'[j].walk.id => i = j
         /\ \A i : HasTable(i)' => HasTable(i) /\ i # Head(finished).walk.id
         /\ \A i : HasTable(i) => HasTable(i)' \/ i = Head(finished).walk.id
         /\ HasTable(Head(finished).walk.id)
<1>1. /\ 1 \in DOMAIN finished /\ Head(finished) = finished[1]
      /\ \A j \in DOMAIN finished' : j \in Nat /\ j + 1 # 1 /\ j + 1 \in DOMAIN finished /\ finished'[j] = finished[j + 1]
      /\ \A j \in DOMAIN finished : j # 1 => j - 1 \in DOMAIN finished' /\ finished'[j - 1] = finished[j]
  BY FrontTaken
<1>2. ASSUME NEW i \in DOMAIN finished', NEW j \in DOMAIN finished', finished'[i].walk.id = finished'[j].walk.id
      PROVE  i = j
  <2>1. i + 1 = j + 1 /\ i \in Nat /\ j \in Nat
    BY <1>1, <1>2
  <2> QED BY <2>1
<1>3. ASSUME NEW i, HasTable(i)' PROVE HasTable(i) /\ i # Head(finished).walk.id
  BY <1>1, <1>3 DEF HasTable
<1>4. ASSUME NEW i, HasTable(i) PROVE HasTable(i)' \/ i = Head(finished).walk.id
  <2>1. PICK k \in DOMAIN finished : finished[k].walk.id = i
    BY <1>4 DEF HasTable
  <2>2. CASE k = 1
    BY <1>1, <2>1, <2>2
  <2>3. CASE k # 1
    BY <1>1, <2>1, <2>3 DEF HasTable
  <2> QED BY <2>2, <2>3
<1> QED BY <1>1, <1>2, <1>3, <1>4 DEF HasTable

LEMMA PageTaken ==
  ASSUME completed \in Seq(WithPage), completed # <<>>, completed' = Tail(completed),
         \A i, j \in DOMAIN completed : completed[i].walk.id = completed[j].walk.id => i = j
  PROVE  /\ \A i, j \in DOMAIN completed' : completed'[i].walk.id = completed'[j].walk.id => i = j
         /\ \A i : HasPage(i)' => HasPage(i) /\ i # Head(completed).walk.id
         /\ \A i : HasPage(i) => HasPage(i)' \/ i = Head(completed).walk.id
         /\ HasPage(Head(completed).walk.id)
<1>1. /\ 1 \in DOMAIN completed /\ Head(completed) = completed[1]
      /\ \A j \in DOMAIN completed' : j \in Nat /\ j + 1 # 1 /\ j + 1 \in DOMAIN completed /\ completed'[j] = completed[j + 1]
      /\ \A j \in DOMAIN completed : j # 1 => j - 1 \in DOMAIN completed' /\ completed'[j - 1] = completed[j]
  BY FrontTaken
<1>2. ASSUME NEW i \in DOMAIN completed', NEW j \in DOMAIN completed', completed'[i].walk.id = completed'[j].walk.id
      PROVE  i = j
  <2>1. i + 1 = j + 1 /\ i \in Nat /\ j \in Nat
    BY <1>1, <1>2
  <2> QED BY <2>1
<1>3. ASSUME NEW i, HasPage(i)' PROVE HasPage(i) /\ i # Head(completed).walk.id
  BY <1>1, <1>3 DEF HasPage
<1>4. ASSUME NEW i, HasPage(i) PROVE HasPage(i)' \/ i = Head(completed).walk.id
  <2>1. PICK k \in DOMAIN completed : completed[k].walk.id = i
    BY <1>4 DEF HasPage
  <2>2. CASE k = 1
    BY <1>1, <2>1, <2>2
  <2>3. CASE k # 1
    BY <1>1, <2>1, <2>3 DEF HasPage
  <2> QED BY <2>2, <2>3
<1> QED BY <1>1, <1>2, <1>3, <1>4 DEF HasPage

\* ... and what is put behind it comes to the others.
LEMMA RequestAdded ==
  ASSUME RQ \in Seq(Request), NEW x \in Request, RQ' = Append(RQ, x), ~Asked(x.id),
         \A i, j \in DOMAIN RQ : RQ[i].id = RQ[j].id => i = j
  PROVE  /\ \A i, j \in DOMAIN RQ' : RQ'[i].id = RQ'[j].id => i = j
         /\ \A i : Asked(i)' <=> Asked(i) \/ i = x.id
<1>1. /\ DOMAIN RQ' = DOMAIN RQ \cup {Len(RQ) + 1} /\ RQ'[Len(RQ) + 1] = x
      /\ \A j \in DOMAIN RQ : RQ'[j] = RQ[j] /\ j # Len(RQ) + 1
  BY Appended
<1> QED BY <1>1 DEF Asked

LEMMA TableAdded ==
  ASSUME finished \in Seq(WithTable), NEW x \in WithTable, finished' = Append(finished, x), ~HasTable(x.walk.id),
         \A i, j \in DOMAIN finished : finished[i].walk.id = finished[j].walk.id => i = j
  PROVE  /\ \A i, j \in DOMAIN finished' : finished'[i].walk.id = finished'[j].walk.id => i = j
         /\ \A i : HasTable(i)' <=> HasTable(i) \/ i = x.walk.id
<1>1. /\ DOMAIN finished' = DOMAIN finished \cup {Len(finished) + 1} /\ finished'[Len(finished) + 1] = x
      /\ \A j \in DOMAIN finished : finished'[j] = finished[j] /\ j # Len(finished) + 1
  BY Appended
<1> QED BY <1>1 DEF HasTable

LEMMA PageAdded ==
  ASSUME completed \in Seq(WithPage), NEW x \in WithPage, completed' = Append(completed, x), ~HasPage(x.walk.id),
         \A i, j \in DOMAIN completed : completed[i].walk.id = completed[j].walk.id => i = j
  PROVE  /\ \A i, j \in DOMAIN completed' : completed'[i].walk.id = completed'[j].walk.id => i = j
         /\ \A i : HasPage(i)' <=> HasPage(i) \/ i = x.walk.id
<1>1. /\ DOMAIN completed' = DOMAIN completed \cup {Len(completed) + 1} /\ completed'[Len(completed) + 1] = x
      /\ \A j \in DOMAIN completed : completed'[j] = completed[j] /\ j # Len(completed) + 1
  BY Appended
<1> QED BY <1>1 DEF HasPage

LEMMA WalkAdded ==
  ASSUME NEW w, MSHR' = MSHR \cup {w}, ~Waits(w.id), \A u, v \in MSHR : u.id = v.id => u = v
  PROVE  /\ \A u, v \in MSHR' : u.id = v.id => u = v
         /\ \A i : Waits(i)' <=> Waits(i) \/ i = w.id
BY DEF Waits

LEMMA WalkTaken ==
  ASSUME NEW w \in MSHR, MSHR' = MSHR \ {w}, \A u, v \in MSHR : u.id = v.id => u = v
  PROVE  /\ \A u, v \in MSHR' : u.id = v.id => u = v
         /\ \A i : Waits(i)' <=> Waits(i) /\ i # w.id
         /\ Waits(w.id)
BY DEF Waits

-----------------------------------------------------------------------------
(* The steps of the walker *)

\* A walk that waits was taken to a table toward its page, if a table has its page to itself.
OnTheirWay == tables_per_page = 1 => WalksReadTheirTables

\* Where the tables are does not change.
LEMMA TowardGrows ==
  ASSUME MapsGrow, NEW v, NEW l
  PROVE  TablesToward(v, l) \subseteq TablesToward(v, l)'
BY DEF MapsGrow, TablesToward

\* What the walks have is still in the maps.
LEMMA StillMapped ==
  ASSUME MapsGrow, RootKnown, PagesAreMapped, TablesAreBelow,
         \A k \in DOMAIN completed' : \E j \in DOMAIN completed : completed'[k] = completed[j],
         \A k \in DOMAIN finished' : \E j \in DOMAIN finished : finished'[k] = finished[j]
  PROVE  RootKnown' /\ PagesAreMapped' /\ TablesAreBelow'
<1>1. ASSUME NEW k \in DOMAIN completed'
      PROVE  /\ <<cpu, completed'[k].walk.vpage>> \in DOMAIN vpage_to_ppage_map'
             /\ completed'[k].data = vpage_to_ppage_map'[<<cpu, completed'[k].walk.vpage>>]
  <2>1. PICK j \in DOMAIN completed : completed'[k] = completed[j]
    OBVIOUS
  <2>2. PICK x : x = <<cpu, completed[j].walk.vpage>>
    OBVIOUS
  <2>3. x \in DOMAIN vpage_to_ppage_map /\ completed[j].data = vpage_to_ppage_map[x]
    BY <2>2 DEF PagesAreMapped
  <2> QED BY <2>1, <2>2, <2>3 DEF MapsGrow
<1>2. ASSUME NEW k \in DOMAIN finished', NEW x,
             x = VM!TableKey(cpu, finished'[k].walk.vpage, finished'[k].walk.level)
      PROVE  x \in DOMAIN page_table' /\ finished'[k].data.table = page_table'[x]
  <2>1. PICK j \in DOMAIN finished : finished'[k] = finished[j]
    OBVIOUS
  <2>2. x \in DOMAIN page_table /\ finished[j].data.table = page_table[x]
    BY <1>2, <2>1 DEF TablesAreBelow
  <2> QED BY <2>1, <2>2 DEF MapsGrow
<1> QED BY <1>1, <1>2 DEF RootKnown, PagesAreMapped, TablesAreBelow, MapsGrow

LEMMA HandleReadKeeps ==
  ASSUME WalkerAssumption, Inv, HandleRead
  PROVE  Inv' /\ (OnTheirWay => OnTheirWay')
<1> DEFINE r == Head(RQ)
           w == Reading(r)
<1>1. /\ RQ \in Seq(Request) /\ RQ # <<>> /\ UNCHANGED <<vmem, finished, completed, lower_returned, asked, returned>>
      /\ pscl' = Touched(r.vpage)
      /\ \/ StepTranslation(w) /\ RQ' = Tail(RQ)
         \/ Refused /\ UNCHANGED RQ
  BY DEF HandleRead, Inv, TypeOK
<1>2. MemoryInv' /\ MapsGrow
  BY <1>1, OtherStepsKeep DEF Inv
<1>3. r \in Request /\ Tail(RQ) \in Seq(Request)
  BY <1>1, FrontTaken
<1>4. /\ w \in WalkAt /\ w.id = r.id /\ w.vpage = r.vpage
      /\ tables_per_page = 1 => w.address.table \in TablesToward(w.vpage, w.level)
  <2>1. r.vpage \in Vpage /\ r.id \in Walk /\ r.response_requested \in BOOLEAN
    BY <1>3 DEF Request
  <2>2. /\ WalkInit(r.vpage).level \in 0..pt_levels - 1 /\ WalkInit(r.vpage).address \in VM!PteAddress
        /\ tables_per_page = 1 => WalkInit(r.vpage).address.table \in TablesToward(r.vpage, WalkInit(r.vpage).level)
    BY <2>1, WalkStarts
  <2> QED BY <2>1, <2>2 DEF Reading, WalkAt
<1> HIDE DEF w, r
<1>5. /\ MSHR' \subseteq WalkAt /\ outstanding' \subseteq (Walk \X (0..pt_levels - 1) \X Block)
      /\ EveryWalkIsOwed'
  BY <1>1, <1>4, StepIsOwed DEF Inv
<1>6. /\ pscl' \in [PsclLevel -> Seq(PsclEntry)] /\ \A l \in PsclLevel : Len(pscl'[l]) <= PSCL_WAYS
      /\ CachedTables'
  BY <1>1, <1>2, CachesTouched DEF Inv
<1>7. TypeOK'
  BY <1>1, <1>2, <1>3, <1>5, <1>6 DEF MemoryInv, Inv, TypeOK
<1>8. OnePlaceEach'
  <2>1. CASE StepTranslation(w) /\ RQ' = Tail(RQ)
    <3>1. /\ \A i, j \in DOMAIN RQ' : RQ'[i].id = RQ'[j].id => i = j
          /\ \A i : Asked(i)' => Asked(i) /\ i # r.id
          /\ Asked(r.id)
      BY <1>1, <2>1, RequestTaken DEF Inv, OnePlaceEach, OnlyOnce, r
    <3>2. /\ \A u, v \in MSHR' : u.id = v.id => u = v
          /\ \A i : Waits(i)' <=> Waits(i) \/ i = r.id
      <4>1. MSHR' = MSHR \cup {w} /\ ~Waits(w.id)
        BY <1>4, <2>1, <3>1 DEF StepTranslation, Inv, OnePlaceEach, Apart
      <4> QED BY <1>4, <4>1, WalkAdded DEF Inv, OnePlaceEach, OnlyOnce
    <3>3. \A i : (HasTable(i)' <=> HasTable(i)) /\ (HasPage(i)' <=> HasPage(i))
      BY <1>1 DEF HasTable, HasPage
    <3>4. OnlyOnce'
      BY <1>1, <3>1, <3>2 DEF Inv, OnePlaceEach, OnlyOnce
    <3>5. Apart'
      BY <3>1, <3>2, <3>3 DEF Inv, OnePlaceEach, Apart
    <3>6. WereAsked'
      BY <1>1, <3>1, <3>2, <3>3 DEF Inv, OnePlaceEach, WereAsked
    <3> QED BY <3>4, <3>5, <3>6 DEF OnePlaceEach
  <2>2. CASE Refused /\ UNCHANGED RQ
    BY <1>1, <2>2 DEF Refused, Inv, OnePlaceEach, OnlyOnce, Apart, WereAsked, Asked, Waits, HasTable, HasPage
  <2> QED BY <1>1, <2>1, <2>2
<1>9. RootKnown' /\ PagesAreMapped' /\ TablesAreBelow' /\ RightLevels'
  BY <1>1, <1>2, StillMapped DEF Inv, RightLevels
<1>10. ASSUME OnTheirWay PROVE OnTheirWay'
  <2>1. MSHR' = MSHR \cup {w} \/ MSHR' = MSHR
    BY <1>1 DEF StepTranslation, Refused
  <2>2. ASSUME tables_per_page = 1, NEW x \in MSHR' PROVE x.address.table \in TablesToward(x.vpage, x.level)'
    <3>1. x.address.table \in TablesToward(x.vpage, x.level)
      BY <1>4, <1>10, <2>1, <2>2 DEF OnTheirWay, WalksReadTheirTables
    <3> QED BY <1>2, <3>1, TowardGrows
  <2> QED BY <2>2 DEF OnTheirWay, WalksReadTheirTables
<1> QED BY <1>2, <1>5, <1>6, <1>7, <1>8, <1>9, <1>10 DEF Inv

\* The table that is filled into the cache above the one that was read leads to
\* the pages of its tag.
LEMMA CachesFilled ==
  ASSUME WalkerAssumption, Inv, MapsGrow, NEW x \in WithTable, x.walk.level > 0,
         VM!TableKey(cpu, x.walk.vpage, x.walk.level) \in DOMAIN page_table,
         x.data.table = page_table[VM!TableKey(cpu, x.walk.vpage, x.walk.level)],
         pscl' = PsclFilled(x.walk.level + 1, x.walk.vpage, x.data)
  PROVE  /\ pscl' \in [PsclLevel -> Seq(PsclEntry)] /\ \A l \in PsclLevel : Len(pscl'[l]) <= PSCL_WAYS
         /\ CachedTables'
<1> DEFINE v == x.walk.vpage
           n == x.walk.level
           e == [tag |-> VM!Prefix(v, n + 1), data |-> x.data]
<1>1. /\ v \in Vpage /\ n \in 1..pt_levels - 1 /\ n \in Nat \ {0} /\ n + 1 \in PsclLevel
      /\ n + 1 \in Nat \ {0} /\ x.data \in VM!PteAddress
  BY Sizes DEF WithTable, WalkAt
<1>2. /\ VM!Prefix(v, n + 1) \in Nat /\ VM!Prefix(v, n) \div pte_page_size = VM!Prefix(v, n + 1)
  BY <1>1, Steps
<1>3. e \in PsclEntry
  BY <1>1, <1>2 DEF PsclEntry
<1>4. PICK z \in DOMAIN page_table : /\ z[1] = cpu /\ z[2] = n /\ z[3] \div pte_page_size = e.tag
                                     /\ e.data.table = page_table[z]
  <2>1. PICK z \in DOMAIN page_table : z = VM!TableKey(cpu, v, n)
    OBVIOUS
  <2>2. z[1] = cpu /\ z[2] = n /\ z[3] = VM!Prefix(v, n)
    BY <2>1 DEF VM!TableKey
  <2> QED BY <1>2, <2>1, <2>2
<1>5. pscl' = [pscl EXCEPT ![n + 1] = Lru!Filled(pscl[n + 1], PSCL_WAYS, VM!Prefix(v, n + 1), x.data)]
  BY DEF PsclFilled, PsclTag
<1>6. pscl \in [PsclLevel -> Seq(PsclEntry)] /\ \A l \in PsclLevel : Len(pscl[l]) <= PSCL_WAYS
  BY DEF Inv, TypeOK
<1>7. PICK t, u : /\ t = pscl[n + 1] /\ u = Lru!Filled(t, PSCL_WAYS, VM!Prefix(v, n + 1), x.data)
                  /\ t \in Seq(PsclEntry) /\ Len(t) <= PSCL_WAYS
  BY <1>1, <1>6
<1>8. u \in Seq(PsclEntry) /\ Len(u) <= PSCL_WAYS /\ \A k \in DOMAIN u : u[k] = e \/ \E j \in DOMAIN t : u[k] = t[j]
  <2>1. PICK g, d : g = VM!Prefix(v, n + 1) /\ d = x.data
    OBVIOUS
  <2>2. e = [tag |-> g, data |-> d] /\ u = Lru!Filled(t, PSCL_WAYS, g, d)
    BY <1>7, <2>1
  <2> HIDE DEF e, v, n
  <2>3. PSCL_WAYS \in Nat \ {0}
    BY Sizes
  <2> QED BY <1>3, <1>7, <2>2, <2>3, FilledTable
<1> HIDE DEF e, n, v
<1>9. pscl' = [pscl EXCEPT ![n + 1] = u]
  BY <1>5, <1>7
<1>10. pscl' \in [PsclLevel -> Seq(PsclEntry)] /\ \A l \in PsclLevel : Len(pscl'[l]) <= PSCL_WAYS
  BY <1>1, <1>6, <1>8, <1>9
<1>11. ASSUME NEW l \in PsclLevel, NEW k \in DOMAIN pscl'[l]
       PROVE  \E y \in DOMAIN page_table' :
                /\ y[1] = cpu /\ y[2] = l - 1 /\ y[3] \div pte_page_size = pscl'[l][k].tag
                /\ pscl'[l][k].data.table = page_table'[y]
  <2>1. ASSUME NEW j \in DOMAIN pscl[l], pscl'[l][k] = pscl[l][j]
        PROVE  \E y \in DOMAIN page_table' :
                /\ y[1] = cpu /\ y[2] = l - 1 /\ y[3] \div pte_page_size = pscl'[l][k].tag
                /\ pscl'[l][k].data.table = page_table'[y]
    <3>1. PICK y \in DOMAIN page_table :
                /\ y[1] = cpu /\ y[2] = l - 1 /\ y[3] \div pte_page_size = pscl[l][j].tag
                /\ pscl[l][j].data.table = page_table[y]
      BY DEF Inv, CachedTables
    <3> QED BY <2>1, <3>1 DEF MapsGrow
  <2>2. CASE l = n + 1 /\ pscl'[l][k] = e
    <3>1. l - 1 = n
      BY <1>1, <2>2
    <3> QED BY <1>4, <2>2, <3>1 DEF MapsGrow
  <2>3. pscl'[l] = IF l = n + 1 THEN u ELSE pscl[l]
    BY <1>6, <1>9
  <2>4. CASE l = n + 1
    <3>1. u[k] = e \/ \E j \in DOMAIN pscl[l] : u[k] = pscl[l][j]
      BY <1>7, <1>8, <2>3, <2>4
    <3> QED BY <2>1, <2>2, <2>3, <2>4, <3>1
  <2>5. CASE l # n + 1
    BY <2>1, <2>3, <2>5
  <2> QED BY <2>4, <2>5
<1> QED BY <1>10, <1>11 DEF CachedTables

LEMMA HandleFillKeeps ==
  ASSUME WalkerAssumption, Inv, HandleFill
  PROVE  Inv' /\ (OnTheirWay => OnTheirWay')
<1> DEFINE x == Head(finished)
           w == NextStep(x)
           key == VM!TableKey(cpu, x.walk.vpage, x.walk.level)
<1>1. /\ finished \in Seq(WithTable) /\ finished # <<>> /\ UNCHANGED <<vmem, completed, lower_returned, RQ, asked, returned>>
      /\ pscl' = PsclFilled(x.walk.level + 1, x.walk.vpage, x.data)
      /\ \/ StepTranslation(w) /\ finished' = Tail(finished)
         \/ Refused /\ UNCHANGED finished
  BY DEF HandleFill, Inv, TypeOK, upper
<1>2. MemoryInv' /\ MapsGrow /\ UNCHANGED page_table
  BY <1>1, OtherStepsKeep DEF Inv, vmem
<1>3. /\ 1 \in DOMAIN finished /\ x = finished[1] /\ x \in WithTable /\ Tail(finished) \in Seq(WithTable)
      /\ \A k \in DOMAIN Tail(finished) : k + 1 \in DOMAIN finished /\ Tail(finished)[k] = finished[k + 1]
  BY <1>1, FrontTaken
<1>4. /\ x.walk \in WalkAt /\ x.walk.level > 0 /\ x.data \in VM!PteAddress
      /\ key \in DOMAIN page_table /\ x.data.table = page_table[key]
  BY <1>3 DEF WithTable, Inv, RightLevels, TablesAreBelow
<1>5. /\ w.id = x.walk.id /\ w.vpage = x.walk.vpage /\ w.level = x.walk.level - 1 /\ w.address = x.data
      /\ w \in WalkAt
  <2>1. x.walk.level \in 1..pt_levels - 1 /\ x.walk.level - 1 \in 0..pt_levels - 1
    BY <1>4, Sizes DEF WalkAt
  <2> QED BY <1>4, <2>1 DEF NextStep, WalkAt
<1>6. w.address.table \in TablesToward(w.vpage, w.level)
  <2>1. PICK k \in DOMAIN page_table : k = key /\ k[1] = cpu /\ k[2] = x.walk.level /\ k[3] = VM!Prefix(x.walk.vpage, x.walk.level)
    BY <1>4 DEF VM!TableKey
  <2>2. w.level + 1 = x.walk.level
    BY <1>4, <1>5, Sizes DEF WalkAt
  <2>3. w.address.table = page_table[k]
    BY <1>4, <1>5, <2>1
  <2> QED BY <1>5, <2>1, <2>2, <2>3 DEF TablesToward
<1>7. /\ pscl' \in [PsclLevel -> Seq(PsclEntry)] /\ \A l \in PsclLevel : Len(pscl'[l]) <= PSCL_WAYS
      /\ CachedTables'
  BY <1>1, <1>2, <1>3, <1>4, CachesFilled
<1> HIDE DEF w, x, key
<1>8. /\ MSHR' \subseteq WalkAt /\ outstanding' \subseteq (Walk \X (0..pt_levels - 1) \X Block)
      /\ EveryWalkIsOwed'
  BY <1>1, <1>5, StepIsOwed DEF Inv
<1>9. TypeOK'
  BY <1>1, <1>2, <1>3, <1>7, <1>8 DEF MemoryInv, Inv, TypeOK
<1>10. OnePlaceEach'
  <2>1. CASE StepTranslation(w) /\ finished' = Tail(finished)
    <3>1. /\ \A i, j \in DOMAIN finished' : finished'[i].walk.id = finished'[j].walk.id => i = j
          /\ \A i : HasTable(i)' => HasTable(i) /\ i # x.walk.id
          /\ HasTable(x.walk.id)
      BY <1>1, <2>1, TableTaken DEF Inv, OnePlaceEach, OnlyOnce, x
    <3>2. /\ \A u, v \in MSHR' : u.id = v.id => u = v
          /\ \A i : Waits(i)' <=> Waits(i) \/ i = x.walk.id
      <4>1. MSHR' = MSHR \cup {w} /\ ~Waits(w.id)
        BY <1>5, <2>1, <3>1 DEF StepTranslation, Inv, OnePlaceEach, Apart
      <4> QED BY <1>5, <4>1, WalkAdded DEF Inv, OnePlaceEach, OnlyOnce
    <3>3. \A i : (Asked(i)' <=> Asked(i)) /\ (HasPage(i)' <=> HasPage(i))
      BY <1>1 DEF Asked, HasPage
    <3>4. OnlyOnce'
      BY <1>1, <3>1, <3>2 DEF Inv, OnePlaceEach, OnlyOnce
    <3>5. Apart'
      BY <3>1, <3>2, <3>3 DEF Inv, OnePlaceEach, Apart
    <3>6. WereAsked'
      BY <1>1, <3>1, <3>2, <3>3 DEF Inv, OnePlaceEach, WereAsked
    <3> QED BY <3>4, <3>5, <3>6 DEF OnePlaceEach
  <2>2. CASE Refused /\ UNCHANGED finished
    BY <1>1, <2>2 DEF Refused, Inv, OnePlaceEach, OnlyOnce, Apart, WereAsked, Asked, Waits, HasTable, HasPage
  <2> QED BY <1>1, <2>1, <2>2
<1>11. RootKnown' /\ PagesAreMapped' /\ TablesAreBelow' /\ RightLevels'
  <2>1. \A k \in DOMAIN finished' : \E j \in DOMAIN finished : finished'[k] = finished[j]
    BY <1>1, <1>3
  <2> QED BY <1>1, <1>2, <2>1, StillMapped DEF Inv, RightLevels
<1>12. ASSUME OnTheirWay PROVE OnTheirWay'
  <2>1. MSHR' = MSHR \cup {w} \/ MSHR' = MSHR
    BY <1>1 DEF StepTranslation, Refused
  <2>2. ASSUME tables_per_page = 1, NEW y \in MSHR' PROVE y.address.table \in TablesToward(y.vpage, y.level)'
    <3>1. y.address.table \in TablesToward(y.vpage, y.level)
      BY <1>6, <1>12, <2>1, <2>2 DEF OnTheirWay, WalksReadTheirTables
    <3> QED BY <1>2, <3>1, TowardGrows
  <2> QED BY <2>2 DEF OnTheirWay, WalksReadTheirTables
<1> QED BY <1>2, <1>7, <1>8, <1>9, <1>10, <1>11, <1>12 DEF Inv

\* What is taken out of MSHR was owed with the rest.
LEMMA StillOwed ==
  ASSUME EveryWalkIsOwed, MSHR' \subseteq MSHR, UNCHANGED <<outstanding, lower_returned>>
  PROVE  EveryWalkIsOwed'
BY DEF EveryWalkIsOwed

LEMMA StillOnTheirWay ==
  ASSUME OnTheirWay, MapsGrow, MSHR' \subseteq MSHR
  PROVE  OnTheirWay'
<1> SUFFICES ASSUME tables_per_page = 1, NEW w \in MSHR'
             PROVE  w.address.table \in TablesToward(w.vpage, w.level)'
  BY DEF OnTheirWay, WalksReadTheirTables
<1>1. w.address.table \in TablesToward(w.vpage, w.level)
  BY DEF OnTheirWay, WalksReadTheirTables
<1> QED BY <1>1, TowardGrows

LEMMA FinishStepKeeps ==
  ASSUME WalkerAssumption, Inv, NEW w \in MSHR, FinishStep(w), MSHR' = MSHR \ {w},
         UNCHANGED <<pscl, lower, upper>>
  PROVE  Inv' /\ UNCHANGED vpage_to_ppage_map /\ (OnTheirWay => OnTheirWay')
<1> DEFINE x == [walk |-> w, data |-> VM!PteOf(cpu, w.vpage, w.level)]
           key == VM!TableKey(cpu, w.vpage, w.level)
<1>1. /\ w \in WalkAt /\ w.vpage \in Vpage /\ w.level \in 1..pt_levels - 1 /\ w.level \in 1..pt_levels
      /\ w.level \in Nat \ {0} /\ w.level > 0
  BY Sizes DEF FinishStep, Inv, TypeOK, WalkAt
<1>2. /\ MemoryInv' /\ MapsGrow /\ UNCHANGED vpage_to_ppage_map
      /\ key \in DOMAIN page_table' /\ page_table'[key] = VM!TableOf(cpu, w.vpage, w.level)
  <2>1. VM!GetPtePa(cpu, w.vpage, w.level) /\ cpu \in Cpu /\ MemoryInv
    BY Sizes DEF FinishStep, Inv
  <2> QED BY <1>1, <2>1, GetPtePaKeeps
<1>3. /\ finished' = Append(finished, x) /\ UNCHANGED completed
      /\ UNCHANGED <<outstanding, lower_returned, RQ, asked, returned>>
  BY DEF FinishStep, lower, upper
<1>4. x \in WithTable /\ x.walk = w /\ x.data.table = page_table'[key]
  <2>1. VM!TypeOK'
    BY <1>2 DEF MemoryInv
  <2>2. page_table'[key] \in VM!Table
    <3>1. PICK z \in DOMAIN page_table' : z = key
      BY <1>2
    <3>2. page_table'[z] \in VM!Table
      BY <2>1 DEF VM!TypeOK
    <3> QED BY <3>1, <3>2
  <2>3. VM!Offset(w.vpage, w.level) \in 0..pte_page_size - 1
    BY <1>1, Steps
  <2>4. PICK a : a = VM!PteOf(cpu, w.vpage, w.level)
    OBVIOUS
  <2>5. a \in VM!PteAddress /\ a.table = page_table'[key]
    BY <1>2, <2>2, <2>3, <2>4 DEF VM!PteOf, VM!PteAddress
  <2> QED BY <1>1, <2>4, <2>5 DEF WithTable
<1> HIDE DEF x
<1>5. /\ finished \in Seq(WithTable) /\ finished' \in Seq(WithTable)
      /\ DOMAIN finished' = DOMAIN finished \cup {Len(finished) + 1} /\ finished'[Len(finished) + 1] = x
      /\ \A k \in DOMAIN finished : finished'[k] = finished[k]
  <2>1. finished \in Seq(WithTable)
    BY DEF Inv, TypeOK
  <2> QED BY <1>3, <1>4, <2>1, Appended
<1>6. TypeOK'
  BY <1>2, <1>3, <1>5 DEF MemoryInv, Inv, TypeOK
<1>7. EveryWalkIsOwed' /\ CachedTables'
  BY <1>2, <1>3, StillOwed, CachesCarried DEF Inv
<1>8. OnePlaceEach'
  <2>1. /\ \A u, v \in MSHR' : u.id = v.id => u = v
        /\ \A i : Waits(i)' <=> Waits(i) /\ i # w.id
        /\ Waits(w.id)
    BY WalkTaken DEF Inv, OnePlaceEach, OnlyOnce
  <2>2. /\ \A i, j \in DOMAIN finished' : finished'[i].walk.id = finished'[j].walk.id => i = j
        /\ \A i : HasTable(i)' <=> HasTable(i) \/ i = w.id
    <3>1. ~HasTable(x.walk.id)
      BY <1>4, <2>1 DEF Inv, OnePlaceEach, Apart
    <3> QED BY <1>3, <1>4, <1>5, <3>1, TableAdded DEF Inv, OnePlaceEach, OnlyOnce
  <2>3. \A i : (Asked(i)' <=> Asked(i)) /\ (HasPage(i)' <=> HasPage(i))
    BY <1>3 DEF Asked, HasPage
  <2>4. OnlyOnce'
    BY <1>3, <2>1, <2>2 DEF Inv, OnePlaceEach, OnlyOnce
  <2>5. Apart'
    BY <2>1, <2>2, <2>3 DEF Inv, OnePlaceEach, Apart
  <2>6. WereAsked'
    BY <1>3, <2>1, <2>2, <2>3 DEF Inv, OnePlaceEach, WereAsked
  <2> QED BY <2>4, <2>5, <2>6 DEF OnePlaceEach
<1>9. RootKnown' /\ PagesAreMapped' /\ RightLevels'
  <2>1. RightLevels'
    BY <1>1, <1>3, <1>4, <1>5 DEF Inv, RightLevels
  <2> QED BY <1>2, <1>3, <2>1 DEF Inv, RootKnown, PagesAreMapped, MapsGrow
<1>10. TablesAreBelow'
  <2> SUFFICES ASSUME NEW k \in DOMAIN finished', NEW z, z = VM!TableKey(cpu, finished'[k].walk.vpage, finished'[k].walk.level)
               PROVE  z \in DOMAIN page_table' /\ finished'[k].data.table = page_table'[z]
    BY DEF TablesAreBelow
  <2>1. CASE k \in DOMAIN finished
    BY <1>2, <1>5, <2>1 DEF Inv, TablesAreBelow, MapsGrow
  <2>2. CASE k = Len(finished) + 1
    BY <1>2, <1>4, <1>5, <2>2
  <2> QED BY <1>5, <2>1, <2>2
<1>11. OnTheirWay => OnTheirWay'
  BY <1>2, StillOnTheirWay
<1> QED BY <1>2, <1>6, <1>7, <1>8, <1>9, <1>10, <1>11 DEF Inv

LEMMA FinishLastStepKeeps ==
  ASSUME WalkerAssumption, Inv, NEW w \in MSHR, FinishLastStep(w), MSHR' = MSHR \ {w},
         UNCHANGED <<pscl, lower, upper>>
  PROVE  /\ Inv' /\ (OnTheirWay => OnTheirWay')
         /\ w.vpage \in Vpage
         /\ DOMAIN vpage_to_ppage_map' = DOMAIN vpage_to_ppage_map \cup {<<cpu, w.vpage>>}
         /\ vpage_to_ppage_map'[<<cpu, w.vpage>>] \in VM!Page /\ MapsGrow
<1> DEFINE x == [walk |-> w, data |-> VM!Ppage(cpu, w.vpage)]
           page == <<cpu, w.vpage>>
<1>1. w \in WalkAt /\ w.vpage \in Vpage /\ w.level = 0
  BY DEF FinishLastStep, Inv, TypeOK, WalkAt
<1>2. /\ MemoryInv' /\ MapsGrow /\ UNCHANGED page_table
      /\ DOMAIN vpage_to_ppage_map' = DOMAIN vpage_to_ppage_map \cup {page}
      /\ vpage_to_ppage_map'[page] = VM!Ppage(cpu, w.vpage)
  <2>1. VM!VaToPa(cpu, w.vpage) /\ cpu \in Cpu /\ MemoryInv
    BY Sizes DEF FinishLastStep, Inv
  <2> QED BY <1>1, <2>1, VaToPaKeeps
<1>3. /\ completed' = Append(completed, x) /\ UNCHANGED finished
      /\ UNCHANGED <<outstanding, lower_returned, RQ, asked, returned>>
  BY DEF FinishLastStep, lower, upper
<1>4. /\ x \in WithPage /\ x.walk = w /\ x.data = vpage_to_ppage_map'[page]
      /\ vpage_to_ppage_map'[page] \in VM!Page
  <2>1. VM!TypeOK'
    BY <1>2 DEF MemoryInv
  <2>2. vpage_to_ppage_map'[page] \in VM!Page
    <3>1. PICK z \in DOMAIN vpage_to_ppage_map' : z = page
      BY <1>2
    <3>2. vpage_to_ppage_map'[z] \in VM!Page
      BY <2>1 DEF VM!TypeOK
    <3> QED BY <3>1, <3>2
  <2> QED BY <1>1, <1>2, <2>2 DEF WithPage
<1> HIDE DEF x
<1>5. /\ completed \in Seq(WithPage) /\ completed' \in Seq(WithPage)
      /\ DOMAIN completed' = DOMAIN completed \cup {Len(completed) + 1} /\ completed'[Len(completed) + 1] = x
      /\ \A k \in DOMAIN completed : completed'[k] = completed[k]
  <2>1. completed \in Seq(WithPage)
    BY DEF Inv, TypeOK
  <2> QED BY <1>3, <1>4, <2>1, Appended
<1>6. TypeOK'
  BY <1>2, <1>3, <1>5 DEF MemoryInv, Inv, TypeOK
<1>7. EveryWalkIsOwed' /\ CachedTables'
  BY <1>2, <1>3, StillOwed, CachesCarried DEF Inv
<1>8. OnePlaceEach'
  <2>1. /\ \A u, v \in MSHR' : u.id = v.id => u = v
        /\ \A i : Waits(i)' <=> Waits(i) /\ i # w.id
        /\ Waits(w.id)
    BY WalkTaken DEF Inv, OnePlaceEach, OnlyOnce
  <2>2. /\ \A i, j \in DOMAIN completed' : completed'[i].walk.id = completed'[j].walk.id => i = j
        /\ \A i : HasPage(i)' <=> HasPage(i) \/ i = w.id
    <3>1. ~HasPage(x.walk.id)
      BY <1>4, <2>1 DEF Inv, OnePlaceEach, Apart
    <3> QED BY <1>3, <1>4, <1>5, <3>1, PageAdded DEF Inv, OnePlaceEach, OnlyOnce
  <2>3. \A i : (Asked(i)' <=> Asked(i)) /\ (HasTable(i)' <=> HasTable(i))
    BY <1>3 DEF Asked, HasTable
  <2>4. OnlyOnce'
    BY <1>3, <2>1, <2>2 DEF Inv, OnePlaceEach, OnlyOnce
  <2>5. Apart'
    BY <2>1, <2>2, <2>3 DEF Inv, OnePlaceEach, Apart
  <2>6. WereAsked'
    BY <1>3, <2>1, <2>2, <2>3 DEF Inv, OnePlaceEach, WereAsked
  <2> QED BY <2>4, <2>5, <2>6 DEF OnePlaceEach
<1>9. RootKnown' /\ TablesAreBelow' /\ RightLevels'
  <2>1. RightLevels'
    BY <1>1, <1>3, <1>4, <1>5 DEF Inv, RightLevels
  <2> QED BY <1>2, <1>3, <2>1 DEF Inv, RootKnown, TablesAreBelow, MapsGrow
<1>10. PagesAreMapped'
  <2> SUFFICES ASSUME NEW k \in DOMAIN completed', NEW z, z = <<cpu, completed'[k].walk.vpage>>
               PROVE  z \in DOMAIN vpage_to_ppage_map' /\ completed'[k].data = vpage_to_ppage_map'[z]
    BY DEF PagesAreMapped
  <2>1. CASE k \in DOMAIN completed
    BY <1>2, <1>5, <2>1 DEF Inv, PagesAreMapped, MapsGrow
  <2>2. CASE k = Len(completed) + 1
    BY <1>2, <1>4, <1>5, <2>2
  <2> QED BY <1>5, <2>1, <2>2
<1>11. OnTheirWay => OnTheirWay'
  BY <1>2, StillOnTheirWay
<1> QED BY <1>1, <1>2, <1>4, <1>6, <1>7, <1>8, <1>9, <1>10, <1>11 DEF Inv

LEMMA CompleteKeeps ==
  ASSUME WalkerAssumption, Inv, Complete
  PROVE  Inv' /\ (OnTheirWay => OnTheirWay')
<1> DEFINE x == Head(completed)
           answer == <<x.walk.id, x.walk.vpage, x.data>>
<1>1. /\ completed \in Seq(WithPage) /\ completed # <<>> /\ completed' = Tail(completed)
      /\ returned' = IF x.walk.to_return THEN Append(returned, answer) ELSE returned
      /\ UNCHANGED <<vmem, MSHR, finished, pscl, outstanding, lower_returned, RQ, asked>>
  BY DEF Complete, lower, Inv, TypeOK
<1>2. MemoryInv' /\ MapsGrow
  BY <1>1, OtherStepsKeep DEF Inv
<1>3. /\ 1 \in DOMAIN completed /\ x = completed[1] /\ x \in WithPage /\ Tail(completed) \in Seq(WithPage)
      /\ \A k \in DOMAIN Tail(completed) : k + 1 \in DOMAIN completed /\ Tail(completed)[k] = completed[k + 1]
  BY <1>1, FrontTaken
<1>4. answer \in Walk \X Vpage \X VM!Page /\ answer[1] = x.walk.id
  BY <1>3 DEF WithPage, WalkAt
<1>5. /\ \A i, j \in DOMAIN completed' : completed'[i].walk.id = completed'[j].walk.id => i = j
      /\ \A i : HasPage(i)' => HasPage(i) /\ i # x.walk.id
      /\ HasPage(x.walk.id)
  BY <1>1, PageTaken DEF Inv, OnePlaceEach, OnlyOnce
<1> HIDE DEF x, answer
<1>6. /\ returned' \in Seq(Walk \X Vpage \X VM!Page)
      /\ \A k \in DOMAIN returned' : (k \in DOMAIN returned /\ returned'[k] = returned[k]) \/ returned'[k] = answer
  <2>1. returned \in Seq(Walk \X Vpage \X VM!Page)
    BY DEF Inv, TypeOK
  <2>2. CASE x.walk.to_return
    <3>1. returned' = Append(returned, answer)
      BY <1>1, <2>2
    <3> QED BY <1>4, <2>1, <3>1, Appended
  <2>3. CASE ~x.walk.to_return
    BY <1>1, <2>1, <2>3
  <2> QED BY <2>2, <2>3
<1>7. TypeOK'
  BY <1>1, <1>2, <1>3, <1>6 DEF MemoryInv, Inv, TypeOK
<1>8. EveryWalkIsOwed' /\ CachedTables'
  BY <1>1, <1>2, StillOwed, CachesCarried DEF Inv
<1>9. OnePlaceEach'
  <2>1. \A i : (Asked(i)' <=> Asked(i)) /\ (Waits(i)' <=> Waits(i)) /\ (HasTable(i)' <=> HasTable(i))
    BY <1>1 DEF Asked, Waits, HasTable
  <2>2. OnlyOnce'
    BY <1>1, <1>5 DEF Inv, OnePlaceEach, OnlyOnce
  <2>3. Apart'
    BY <1>5, <2>1 DEF Inv, OnePlaceEach, Apart
  <2>4. WereAsked'
    <3>1. answer[1] <= asked
      BY <1>4, <1>5 DEF Inv, OnePlaceEach, WereAsked
    <3>2. \A k \in DOMAIN returned' : returned'[k][1] <= asked
      BY <1>6, <3>1 DEF Inv, OnePlaceEach, WereAsked
    <3> QED BY <1>1, <1>5, <2>1, <3>2 DEF Inv, OnePlaceEach, WereAsked
  <2> QED BY <2>2, <2>3, <2>4 DEF OnePlaceEach
<1>10. RootKnown' /\ PagesAreMapped' /\ TablesAreBelow' /\ RightLevels'
  <2>1. \A k \in DOMAIN completed' : \E j \in DOMAIN completed : completed'[k] = completed[j]
    BY <1>1, <1>3
  <2> QED BY <1>1, <1>2, <2>1, StillMapped DEF Inv, RightLevels
<1>11. OnTheirWay => OnTheirWay'
  BY <1>1, <1>2, StillOnTheirWay
<1> QED BY <1>2, <1>7, <1>8, <1>9, <1>10, <1>11 DEF Inv

LEMMA RightIds ==
  ASSUME TypeOK, NEW i, Asked(i) \/ Waits(i) \/ HasTable(i) \/ HasPage(i)
  PROVE  i \in Walk
<1>1. CASE Asked(i)
  <2>1. PICK k \in DOMAIN RQ : RQ[k].id = i
    BY <1>1 DEF Asked
  <2>2. RQ[k] \in Request
    BY InSeq DEF TypeOK
  <2> QED BY <2>1, <2>2 DEF Request
<1>2. CASE Waits(i)
  BY <1>2 DEF Waits, TypeOK, WalkAt
<1>3. CASE HasTable(i)
  <2>1. PICK k \in DOMAIN finished : finished[k].walk.id = i
    BY <1>3 DEF HasTable
  <2>2. finished[k] \in WithTable
    BY InSeq DEF TypeOK
  <2> QED BY <2>1, <2>2 DEF WithTable, WalkAt
<1>4. CASE HasPage(i)
  <2>1. PICK k \in DOMAIN completed : completed[k].walk.id = i
    BY <1>4 DEF HasPage
  <2>2. completed[k] \in WithPage
    BY InSeq DEF TypeOK
  <2> QED BY <2>1, <2>2 DEF WithPage, WalkAt
<1> QED BY <1>1, <1>2, <1>3, <1>4

LEMMA AskKeeps ==
  ASSUME WalkerAssumption, Inv, NEW v \in Vpage, Ask(v)
  PROVE  Inv' /\ (OnTheirWay => OnTheirWay')
<1> DEFINE r == [id |-> asked', vpage |-> v, response_requested |-> asked' \notin Silent]
<1>1. /\ UNCHANGED <<vmem, MSHR, finished, completed, pscl, outstanding, lower_returned, returned>>
      /\ RQ' = Append(RQ, r) /\ asked' = asked + 1 /\ asked < MaxWalks
  BY DEF Ask, walker, lower
<1>2. asked' \in 1..MaxWalks /\ asked' \in 0..MaxWalks /\ asked \in Nat
  BY <1>1, Sizes DEF Inv, TypeOK
<1>3. r \in Request /\ r.id = asked'
  BY <1>2 DEF Request, Walk
<1> HIDE DEF r
<1>4. RQ \in Seq(Request) /\ RQ' \in Seq(Request)
  BY <1>1, <1>3, Appended DEF Inv, TypeOK
<1>5. MemoryInv' /\ MapsGrow
  BY <1>1, OtherStepsKeep DEF Inv
<1>6. TypeOK'
  BY <1>1, <1>2, <1>4, <1>5 DEF MemoryInv, Inv, TypeOK
<1>7. EveryWalkIsOwed' /\ CachedTables'
  BY <1>1, <1>5, StillOwed, CachesCarried DEF Inv
<1>8. \A i : Asked(i) \/ Waits(i) \/ HasTable(i) \/ HasPage(i) => i <= asked /\ i # asked'
  <2>1. ASSUME NEW i, i <= asked PROVE i # asked'
    <3>1. ~(asked' <= asked)
      BY <1>1, <1>2
    <3> QED BY <2>1, <3>1
  <2> QED BY <2>1 DEF Inv, OnePlaceEach, WereAsked
<1>9. OnePlaceEach'
  <2>1. /\ \A i, j \in DOMAIN RQ' : RQ'[i].id = RQ'[j].id => i = j
        /\ \A i : Asked(i)' <=> Asked(i) \/ i = r.id
    <3>1. ~Asked(r.id)
      BY <1>3, <1>8
    <3> QED BY <1>1, <1>3, <1>4, <3>1, RequestAdded DEF Inv, OnePlaceEach, OnlyOnce
  <2>2. \A i : (Waits(i)' <=> Waits(i)) /\ (HasTable(i)' <=> HasTable(i)) /\ (HasPage(i)' <=> HasPage(i))
    BY <1>1 DEF Waits, HasTable, HasPage
  <2>3. OnlyOnce'
    BY <1>1, <2>1 DEF Inv, OnePlaceEach, OnlyOnce
  <2>4. Apart'
    BY <1>3, <1>8, <2>1, <2>2 DEF Inv, OnePlaceEach, Apart
  <2>5. WereAsked'
    <3>1. ASSUME NEW i, Asked(i)' \/ Waits(i)' \/ HasTable(i)' \/ HasPage(i)' PROVE i <= asked'
      <4>1. CASE i = asked'
        BY <1>2, <4>1
      <4>2. CASE i # asked'
        <5>1. Asked(i) \/ Waits(i) \/ HasTable(i) \/ HasPage(i)
          BY <1>3, <2>1, <2>2, <3>1, <4>2
        <5>2. i \in Walk
          BY <5>1, RightIds DEF Inv
        <5>3. i <= asked /\ i \in Int
          BY <1>8, <5>1, <5>2 DEF Walk
        <5> QED BY <1>1, <1>2, <5>3
      <4> QED BY <4>1, <4>2
    <3>2. ASSUME NEW k \in DOMAIN returned' PROVE returned'[k][1] <= asked'
      <4>1. returned[k] \in Walk \X Vpage \X VM!Page /\ returned[k][1] <= asked
        BY <1>1, <3>2, InSeq DEF Inv, TypeOK, OnePlaceEach, WereAsked
      <4>2. returned[k][1] \in Int
        BY <4>1 DEF Walk
      <4> QED BY <1>1, <1>2, <4>1, <4>2
    <3> QED BY <3>1, <3>2 DEF WereAsked
  <2> QED BY <2>3, <2>4, <2>5 DEF OnePlaceEach
<1>10. RootKnown' /\ PagesAreMapped' /\ TablesAreBelow' /\ RightLevels'
  BY <1>1, <1>5, StillMapped DEF Inv, RightLevels
<1>11. OnTheirWay => OnTheirWay'
  BY <1>1, <1>5, StillOnTheirWay
<1> QED BY <1>5, <1>6, <1>7, <1>9, <1>10, <1>11 DEF Inv

\* Whatever moves no walk of this core.
LEMMA WalksRest ==
  ASSUME Inv, MemoryInv', MapsGrow, UNCHANGED <<walker, RQ, asked>>, EveryWalkIsOwed',
         outstanding' \subseteq (Walk \X (0..pt_levels - 1) \X Block), lower_returned' \in Seq(Block),
         returned' \in Seq(Walk \X Vpage \X VM!Page),
         \A k \in DOMAIN returned' : \E j \in DOMAIN returned : returned'[k] = returned[j]
  PROVE  Inv' /\ (OnTheirWay => OnTheirWay')
<1>1. UNCHANGED <<MSHR, finished, completed, pscl, RQ, asked>>
  BY DEF walker
<1>2. TypeOK'
  BY <1>1 DEF MemoryInv, Inv, TypeOK
<1>3. CachedTables'
  BY <1>1, CachesCarried DEF Inv
<1>4. OnePlaceEach'
  <2>1. OnlyOnce' /\ Apart'
    BY <1>1 DEF Inv, OnePlaceEach, OnlyOnce, Apart, Asked, Waits, HasTable, HasPage
  <2>2. \A k \in DOMAIN returned' : returned'[k][1] <= asked
    BY DEF Inv, OnePlaceEach, WereAsked
  <2>3. \A i : /\ (Asked(i)' <=> Asked(i)) /\ (Waits(i)' <=> Waits(i))
               /\ (HasTable(i)' <=> HasTable(i)) /\ (HasPage(i)' <=> HasPage(i))
    BY <1>1 DEF Asked, Waits, HasTable, HasPage
  <2>4. WereAsked'
    BY <1>1, <2>2, <2>3 DEF Inv, OnePlaceEach, WereAsked
  <2> QED BY <2>1, <2>4 DEF OnePlaceEach
<1>5. RootKnown' /\ PagesAreMapped' /\ TablesAreBelow' /\ RightLevels'
  BY <1>1, StillMapped DEF Inv, RightLevels
<1>6. OnTheirWay => OnTheirWay'
  BY <1>1, StillOnTheirWay
<1> QED BY <1>2, <1>3, <1>4, <1>5, <1>6 DEF Inv

\* An answer from below brings its block to all who asked for it.
LEMMA LowerAnswersKeeps ==
  ASSUME WalkerAssumption, Inv, NEW S \in SUBSET outstanding, LowerAnswers(S)
  PROVE  Inv' /\ (OnTheirWay => OnTheirWay')
<1>1. PICK x \in S : lower_returned' = Append(lower_returned, x[3])
  BY DEF LowerAnswers
<1>2. /\ UNCHANGED <<vmem, walker, RQ, asked, returned>> /\ outstanding' = outstanding \ S
      /\ \A y \in S : y[3] = x[3]
  BY DEF LowerAnswers, upper
<1>3. /\ lower_returned \in Seq(Block) /\ x[3] \in Block
      /\ outstanding' \subseteq (Walk \X (0..pt_levels - 1) \X Block)
  BY <1>2 DEF Inv, TypeOK
<1>4. /\ lower_returned' \in Seq(Block)
      /\ DOMAIN lower_returned' = DOMAIN lower_returned \cup {Len(lower_returned) + 1}
      /\ lower_returned'[Len(lower_returned) + 1] = x[3]
      /\ \A j \in DOMAIN lower_returned : lower_returned'[j] = lower_returned[j]
  BY <1>1, <1>3, Appended
<1>5. /\ ToSet(lower_returned) = {lower_returned[k] : k \in DOMAIN lower_returned}
      /\ ToSet(lower_returned') = {lower_returned'[k] : k \in DOMAIN lower_returned'}
  BY <1>3, <1>4, InSeq
<1>6. ToSet(lower_returned) \cup {x[3]} \subseteq ToSet(lower_returned')
  BY <1>4, <1>5
<1>7. EveryWalkIsOwed'
  <2> SUFFICES ASSUME NEW w \in MSHR
               PROVE  BlockOf(w.address) \in {y[3] : y \in outstanding'} \cup ToSet(lower_returned')
    BY <1>2 DEF EveryWalkIsOwed, walker
  <2>1. CASE BlockOf(w.address) \in ToSet(lower_returned)
    BY <1>6, <2>1
  <2>2. CASE BlockOf(w.address) \notin ToSet(lower_returned)
    <3>1. PICK y \in outstanding : BlockOf(w.address) = y[3]
      BY <2>2 DEF Inv, EveryWalkIsOwed
    <3>2. CASE y \in S
      BY <1>2, <1>6, <3>1, <3>2
    <3>3. CASE y \notin S
      BY <1>2, <3>1, <3>3
    <3> QED BY <3>2, <3>3
  <2> QED BY <2>1, <2>2
<1>8. MemoryInv' /\ MapsGrow
  BY <1>2, OtherStepsKeep DEF Inv
<1> QED BY <1>2, <1>3, <1>4, <1>7, <1>8, WalksRest DEF Inv, TypeOK

LEMMA EndPacketKeeps ==
  ASSUME WalkerAssumption, Inv, EndPacket
  PROVE  Inv' /\ (OnTheirWay => OnTheirWay')
<1>1. /\ UNCHANGED <<vmem, walker, outstanding, RQ, asked, returned>>
      /\ lower_returned \in Seq(Block) /\ lower_returned # <<>> /\ lower_returned' = Tail(lower_returned)
      /\ \A w \in MSHR : BlockOf(w.address) # Head(lower_returned)
  BY DEF EndPacket, upper, Matching, Inv, TypeOK
<1>2. /\ Head(lower_returned) = lower_returned[1] /\ lower_returned' \in Seq(Block)
      /\ \A j \in DOMAIN lower_returned : j # 1 => j - 1 \in DOMAIN lower_returned' /\ lower_returned'[j - 1] = lower_returned[j]
  BY <1>1, FrontTaken
<1>3. /\ ToSet(lower_returned) = {lower_returned[k] : k \in DOMAIN lower_returned}
      /\ ToSet(lower_returned') = {lower_returned'[k] : k \in DOMAIN lower_returned'}
  <2>1. PICK q : q = lower_returned' /\ q \in Seq(Block)
    BY <1>2
  <2>2. ToSet(q) = {q[k] : k \in DOMAIN q}
    BY <2>1, InSeq
  <2>3. ToSet(lower_returned) = {lower_returned[k] : k \in DOMAIN lower_returned}
    BY <1>1, InSeq
  <2> QED BY <2>1, <2>2, <2>3
<1>4. \A b \in ToSet(lower_returned) : b # Head(lower_returned) => b \in ToSet(lower_returned')
  BY <1>2, <1>3
<1>5. EveryWalkIsOwed'
  BY <1>1, <1>4 DEF EveryWalkIsOwed, Inv, walker
<1>6. MemoryInv' /\ MapsGrow
  BY <1>1, OtherStepsKeep DEF Inv
<1> QED BY <1>1, <1>2, <1>5, <1>6, WalksRest DEF Inv, TypeOK

LEMMA PickUpKeeps ==
  ASSUME Inv, PickUp
  PROVE  Inv' /\ (OnTheirWay => OnTheirWay')
<1>1. /\ UNCHANGED <<vmem, walker, outstanding, lower_returned, RQ, asked>>
      /\ returned \in Seq(Walk \X Vpage \X VM!Page) /\ returned # <<>> /\ returned' = Tail(returned)
  BY DEF PickUp, lower, Inv, TypeOK
<1>2. /\ returned' \in Seq(Walk \X Vpage \X VM!Page)
      /\ \A k \in DOMAIN returned' : k + 1 \in DOMAIN returned /\ returned'[k] = returned[k + 1]
  BY <1>1, FrontTaken
<1>3. MemoryInv' /\ MapsGrow
  BY <1>1, OtherStepsKeep DEF Inv
<1>4. EveryWalkIsOwed'
  BY <1>1 DEF EveryWalkIsOwed, Inv, walker
<1> QED BY <1>1, <1>2, <1>3, <1>4, WalksRest DEF Inv, TypeOK

\* Other cores fault pages and tables in between, and touch none of this core's.
LEMMA OtherCoreKeeps ==
  ASSUME WalkerAssumption, Inv, NEW c \in Cpu, NEW v \in OtherVpage, OtherCore(c, v)
  PROVE  Inv' /\ (OnTheirWay => OnTheirWay')
<1>1. /\ UNCHANGED <<walker, outstanding, lower_returned, RQ, asked, returned>>
      /\ VM!VaToPa(c, v) \/ \E l \in VM!Level : VM!GetPtePa(c, v, l)
  BY DEF OtherCore, lower, upper
<1>2. v \in Vpage /\ MemoryInv /\ VM!Level = 1..pt_levels
  BY Sizes DEF Inv, VM!Level
<1>3. MemoryInv' /\ MapsGrow
  BY <1>1, <1>2, VaToPaKeeps, GetPtePaKeeps
<1>4. EveryWalkIsOwed'
  BY <1>1 DEF EveryWalkIsOwed, Inv, walker
<1> QED BY <1>1, <1>3, <1>4, WalksRest DEF Inv, TypeOK

LEMMA NothingKeeps ==
  ASSUME Inv, UNCHANGED vars
  PROVE  Inv' /\ (OnTheirWay => OnTheirWay')
<1>1. UNCHANGED <<vmem, walker, outstanding, lower_returned, RQ, asked, returned>>
  BY DEF vars, lower, upper
<1>2. MemoryInv' /\ MapsGrow
  BY <1>1, OtherStepsKeep DEF Inv
<1>3. EveryWalkIsOwed'
  BY <1>1 DEF EveryWalkIsOwed, Inv, walker
<1> QED BY <1>1, <1>2, <1>3, WalksRest DEF Inv, TypeOK

LEMMA InitKeeps ==
  ASSUME WalkerAssumption, Init
  PROVE  Inv /\ OnTheirWay
<1>1. /\ MSHR = {} /\ finished = <<>> /\ completed = <<>> /\ RQ = <<>> /\ asked = 0 /\ returned = <<>>
      /\ pscl = [l \in PsclLevel |-> <<>>] /\ outstanding = {} /\ lower_returned = <<>>
      /\ <<cpu, pt_levels, 0>> \in DOMAIN page_table
  BY DEF Init
<1>2. MemoryInv
  BY RootIsTaken
<1>3. \A S : <<>> \in Seq(S) /\ DOMAIN <<>> = {}
  BY EmptySeq
<1>4. Len(<<>>) = 0
  BY EmptySeq
<1>5. TypeOK
  BY <1>1, <1>2, <1>3, <1>4, Sizes DEF MemoryInv, TypeOK
<1>6. RightLevels /\ OnePlaceEach /\ PagesAreMapped /\ TablesAreBelow /\ CachedTables
  BY <1>1, <1>3
     DEF RightLevels, OnePlaceEach, OnlyOnce, Apart, WereAsked, Asked, Waits, HasTable, HasPage,
         PagesAreMapped, TablesAreBelow, CachedTables
<1>7. RootKnown /\ EveryWalkIsOwed /\ OnTheirWay
  BY <1>1 DEF RootKnown, EveryWalkIsOwed, OnTheirWay, WalksReadTheirTables
<1> QED BY <1>2, <1>5, <1>6, <1>7 DEF Inv

-----------------------------------------------------------------------------
(* PageTranslation *)

\* The variables of PageTranslation.
Pending == {<<w.id, w.vpage>> : w \in {x \in InFlight : x.to_return}}
             \cup {<<r.id, r.vpage>> : r \in {x \in ToSet(RQ) : x.response_requested}}
Mapping == {<<x[2], vpage_to_ppage_map[x]>> : x \in {y \in DOMAIN vpage_to_ppage_map : y[1] = cpu}}

\* Who still owes the answer to a request.
RequestOwes(p) == \E k \in DOMAIN RQ : RQ[k].response_requested /\ p = <<RQ[k].id, RQ[k].vpage>>
WalkOwes(p) == \E w \in MSHR : w.to_return /\ p = <<w.id, w.vpage>>
TableOwes(p) ==
  \E k \in DOMAIN finished : finished[k].walk.to_return /\ p = <<finished[k].walk.id, finished[k].walk.vpage>>
PageOwes(p) ==
  \E k \in DOMAIN completed : completed[k].walk.to_return /\ p = <<completed[k].walk.id, completed[k].walk.vpage>>

LEMMA WhoOwes ==
  /\ \A p : p \in Pending <=> RequestOwes(p) \/ WalkOwes(p) \/ TableOwes(p) \/ PageOwes(p)
  /\ \A p : p \in Pending' <=> RequestOwes(p)' \/ WalkOwes(p)' \/ TableOwes(p)' \/ PageOwes(p)'
<1>1. ASSUME NEW p
      PROVE  p \in Pending <=> RequestOwes(p) \/ WalkOwes(p) \/ TableOwes(p) \/ PageOwes(p)
  BY DEF Pending, InFlight, ToSet, RequestOwes, WalkOwes, TableOwes, PageOwes
<1>2. ASSUME NEW p
      PROVE  p \in Pending' <=> RequestOwes(p)' \/ WalkOwes(p)' \/ TableOwes(p)' \/ PageOwes(p)'
  BY DEF Pending, InFlight, ToSet, RequestOwes, WalkOwes, TableOwes, PageOwes
<1> QED BY <1>1, <1>2

\* The request that is read, the table that is taken up, and the page that is sent.
LEMMA RequestLeaves ==
  ASSUME RQ \in Seq(Request), RQ # <<>>, RQ' = Tail(RQ)
  PROVE  \A p : RequestOwes(p) <=>
                  \/ RequestOwes(p)'
                  \/ Head(RQ).response_requested /\ p = <<Head(RQ).id, Head(RQ).vpage>>
<1>1. /\ 1 \in DOMAIN RQ /\ Head(RQ) = RQ[1]
      /\ \A j \in DOMAIN RQ' : j + 1 \in DOMAIN RQ /\ RQ'[j] = RQ[j + 1]
      /\ \A j \in DOMAIN RQ : j # 1 => j - 1 \in DOMAIN RQ' /\ RQ'[j - 1] = RQ[j]
  BY FrontTaken
<1>2. ASSUME NEW p, RequestOwes(p)
      PROVE  RequestOwes(p)' \/ (Head(RQ).response_requested /\ p = <<Head(RQ).id, Head(RQ).vpage>>)
  <2>1. PICK k \in DOMAIN RQ : RQ[k].response_requested /\ p = <<RQ[k].id, RQ[k].vpage>>
    BY <1>2 DEF RequestOwes
  <2>2. CASE k = 1
    BY <1>1, <2>1, <2>2
  <2>3. CASE k # 1
    BY <1>1, <2>1, <2>3 DEF RequestOwes
  <2> QED BY <2>2, <2>3
<1>3. \A p : RequestOwes(p)' => RequestOwes(p)
  BY <1>1 DEF RequestOwes
<1>4. \A p : Head(RQ).response_requested /\ p = <<Head(RQ).id, Head(RQ).vpage>> => RequestOwes(p)
  BY <1>1 DEF RequestOwes
<1> QED BY <1>2, <1>3, <1>4

LEMMA TableLeaves ==
  ASSUME finished \in Seq(WithTable), finished # <<>>, finished' = Tail(finished),
         NEW w, w = Head(finished).walk
  PROVE  \A p : TableOwes(p) <=> TableOwes(p)' \/ (w.to_return /\ p = <<w.id, w.vpage>>)
<1>1. /\ 1 \in DOMAIN finished /\ w = finished[1].walk
      /\ \A j \in DOMAIN finished' : j + 1 \in DOMAIN finished /\ finished'[j] = finished[j + 1]
      /\ \A j \in DOMAIN finished : j # 1 => j - 1 \in DOMAIN finished' /\ finished'[j - 1] = finished[j]
  BY FrontTaken
<1>2. ASSUME NEW p, TableOwes(p)
      PROVE  TableOwes(p)' \/ (w.to_return /\ p = <<w.id, w.vpage>>)
  <2>1. PICK k \in DOMAIN finished :
          finished[k].walk.to_return /\ p = <<finished[k].walk.id, finished[k].walk.vpage>>
    BY <1>2 DEF TableOwes
  <2>2. CASE k = 1
    BY <1>1, <2>1, <2>2
  <2>3. CASE k # 1
    BY <1>1, <2>1, <2>3 DEF TableOwes
  <2> QED BY <2>2, <2>3
<1>3. \A p : TableOwes(p)' => TableOwes(p)
  BY <1>1 DEF TableOwes
<1>4. \A p : w.to_return /\ p = <<w.id, w.vpage>> => TableOwes(p)
  BY <1>1 DEF TableOwes
<1> QED BY <1>2, <1>3, <1>4

LEMMA PageLeaves ==
  ASSUME completed \in Seq(WithPage), completed # <<>>, completed' = Tail(completed),
         NEW w, w = Head(completed).walk
  PROVE  \A p : PageOwes(p) <=> PageOwes(p)' \/ (w.to_return /\ p = <<w.id, w.vpage>>)
<1>1. /\ 1 \in DOMAIN completed /\ w = completed[1].walk
      /\ \A j \in DOMAIN completed' : j + 1 \in DOMAIN completed /\ completed'[j] = completed[j + 1]
      /\ \A j \in DOMAIN completed : j # 1 => j - 1 \in DOMAIN completed' /\ completed'[j - 1] = completed[j]
  BY FrontTaken
<1>2. ASSUME NEW p, PageOwes(p)
      PROVE  PageOwes(p)' \/ (w.to_return /\ p = <<w.id, w.vpage>>)
  <2>1. PICK k \in DOMAIN completed :
          completed[k].walk.to_return /\ p = <<completed[k].walk.id, completed[k].walk.vpage>>
    BY <1>2 DEF PageOwes
  <2>2. CASE k = 1
    BY <1>1, <2>1, <2>2
  <2>3. CASE k # 1
    BY <1>1, <2>1, <2>3 DEF PageOwes
  <2> QED BY <2>2, <2>3
<1>3. \A p : PageOwes(p)' => PageOwes(p)
  BY <1>1 DEF PageOwes
<1>4. \A p : w.to_return /\ p = <<w.id, w.vpage>> => PageOwes(p)
  BY <1>1 DEF PageOwes
<1> QED BY <1>2, <1>3, <1>4

\* Nobody owes an answer that was not asked for, and no two owe one.
LEMMA OwersAreThere ==
  ASSUME NEW p
  PROVE  /\ RequestOwes(p) => Asked(p[1])
         /\ WalkOwes(p) => Waits(p[1])
         /\ TableOwes(p) => HasTable(p[1])
         /\ PageOwes(p) => HasPage(p[1])
BY DEF RequestOwes, WalkOwes, TableOwes, PageOwes, Asked, Waits, HasTable, HasPage

LEMMA OwersAreThereThen ==
  ASSUME NEW p
  PROVE  /\ RequestOwes(p)' => Asked(p[1])'
         /\ WalkOwes(p)' => Waits(p[1])'
         /\ TableOwes(p)' => HasTable(p[1])'
         /\ PageOwes(p)' => HasPage(p[1])'
BY DEF RequestOwes, WalkOwes, TableOwes, PageOwes, Asked, Waits, HasTable, HasPage

\* What the map of this core is, and stays.
LEMMA MappingIs ==
  ASSUME VM!TypeOK
  PROVE  \A m : m \in Mapping <=>
           \E v \in Vpage : /\ <<cpu, v>> \in DOMAIN vpage_to_ppage_map
                            /\ m = <<v, vpage_to_ppage_map[<<cpu, v>>]>>
<1>1. ASSUME NEW m \in Mapping
      PROVE  \E v \in Vpage : /\ <<cpu, v>> \in DOMAIN vpage_to_ppage_map
                              /\ m = <<v, vpage_to_ppage_map[<<cpu, v>>]>>
  <2>1. PICK x \in DOMAIN vpage_to_ppage_map : x[1] = cpu /\ m = <<x[2], vpage_to_ppage_map[x]>>
    BY DEF Mapping
  <2>2. x = <<cpu, x[2]>> /\ x[2] \in Vpage
    BY <2>1 DEF VM!TypeOK
  <2> QED BY <2>1, <2>2
<1>2. ASSUME NEW v \in Vpage, <<cpu, v>> \in DOMAIN vpage_to_ppage_map
      PROVE  <<v, vpage_to_ppage_map[<<cpu, v>>]>> \in Mapping
  <2>1. PICK x \in DOMAIN vpage_to_ppage_map : x = <<cpu, v>>
    BY <1>2
  <2>2. x[1] = cpu /\ x[2] = v
    BY <2>1
  <2> QED BY <2>1, <2>2 DEF Mapping
<1> QED BY <1>1, <1>2

\* A page that is translated for the first time comes to the map of its core, ...
LEMMA MappingGrows ==
  ASSUME VM!TypeOK, MapsGrow, NEW v \in Vpage, NEW c \in Cpu,
         DOMAIN vpage_to_ppage_map' = DOMAIN vpage_to_ppage_map \cup {<<c, v>>}
  PROVE  IF c = cpu /\ <<c, v>> \notin DOMAIN vpage_to_ppage_map
           THEN /\ Mapping' = Mapping \cup {<<v, vpage_to_ppage_map'[<<cpu, v>>]>>}
                /\ \A m \in Mapping : m[1] # v
           ELSE Mapping' = Mapping
<1>1. Mapping \subseteq Mapping'
  <2> SUFFICES ASSUME NEW m \in Mapping PROVE m \in Mapping'
    OBVIOUS
  <2>1. PICK x \in DOMAIN vpage_to_ppage_map : x[1] = cpu /\ m = <<x[2], vpage_to_ppage_map[x]>>
    BY DEF Mapping
  <2>2. x \in DOMAIN vpage_to_ppage_map' /\ vpage_to_ppage_map'[x] = vpage_to_ppage_map[x]
    BY DEF MapsGrow
  <2> QED BY <2>1, <2>2 DEF Mapping
<1>2. ASSUME NEW m \in Mapping', m \notin Mapping
      PROVE  c = cpu /\ <<c, v>> \notin DOMAIN vpage_to_ppage_map /\ m = <<v, vpage_to_ppage_map'[<<cpu, v>>]>>
  <2>1. PICK x \in DOMAIN vpage_to_ppage_map' : x[1] = cpu /\ m = <<x[2], vpage_to_ppage_map'[x]>>
    BY DEF Mapping
  <2>2. x \notin DOMAIN vpage_to_ppage_map
    BY <1>2, <2>1 DEF MapsGrow, Mapping
  <2>3. x = <<c, v>> /\ x[1] = c /\ x[2] = v
    BY <2>2
  <2> QED BY <2>1, <2>2, <2>3
<1>3. CASE c = cpu /\ <<c, v>> \notin DOMAIN vpage_to_ppage_map
  <2>1. PICK x \in DOMAIN vpage_to_ppage_map' : x = <<cpu, v>>
    BY <1>3
  <2>2. <<x[2], vpage_to_ppage_map'[x]>> \in Mapping' /\ x[2] = v
    BY <2>1 DEF Mapping
  <2>3. ASSUME NEW m \in Mapping PROVE m[1] # v
    <3>1. PICK u \in Vpage : <<cpu, u>> \in DOMAIN vpage_to_ppage_map /\ m = <<u, vpage_to_ppage_map[<<cpu, u>>]>>
      BY MappingIs
    <3> QED BY <1>3, <3>1
  <2> QED BY <1>1, <1>2, <1>3, <2>1, <2>2, <2>3
<1>4. CASE ~(c = cpu /\ <<c, v>> \notin DOMAIN vpage_to_ppage_map)
  BY <1>1, <1>2, <1>4
<1> QED BY <1>3, <1>4

LEMMA MappingRests ==
  ASSUME UNCHANGED vmem
  PROVE  Mapping' = Mapping
BY DEF vmem, Mapping

\* The steps of PageTranslation, in the variables above.
AbstractRests == Pending' = Pending /\ ToSet(returned)' = ToSet(returned) /\ Mapping' = Mapping

LEMMA Rests ==
  ASSUME AbstractRests
  PROVE  [Translation!Next]_Translation!abstractVars
BY DEF AbstractRests, Translation!abstractVars, Pending, Mapping

LEMMA AsksAbove ==
  ASSUME NEW i \in Walk, NEW v \in Vpage, \A w \in Pending \cup ToSet(returned) : w[1] # i,
         Pending' = Pending \cup {<<i, v>>}, ToSet(returned)' = ToSet(returned), Mapping' = Mapping
  PROVE  Translation!Next
BY DEF Translation!Next, Translation!Ask, Pending, Mapping

LEMMA MapsAbove ==
  ASSUME NEW v \in Vpage, NEW p \in VM!Page, \A m \in Mapping : m[1] # v,
         Pending' = Pending, ToSet(returned)' = ToSet(returned), Mapping' = Mapping \cup {<<v, p>>}
  PROVE  Translation!Next
BY DEF Translation!Next, Translation!Map, Translation!Mapped, Pending, Mapping

LEMMA AnswersAbove ==
  ASSUME NEW v \in Vpage, NEW p \in VM!Page, NEW i, <<v, p>> \in Mapping, <<i, v>> \in Pending,
         Pending' = Pending \ {<<i, v>>}, ToSet(returned)' = ToSet(returned) \cup {<<i, v, p>>},
         Mapping' = Mapping
  PROVE  Translation!Next
<1> DEFINE A == {<<i, v>>}
<1>1. A \in SUBSET {w \in Pending : w[2] = v} /\ A # {}
  OBVIOUS
<1>2. {<<w[1], v, p>> : w \in A} = {<<i, v, p>>}
  OBVIOUS
<1>3. /\ <<v, p>> \in Mapping
      /\ \E B \in SUBSET {w \in Pending : w[2] = v} :
           /\ B # {} /\ Pending' = Pending \ B
           /\ ToSet(returned)' = ToSet(returned) \cup {<<w[1], v, p>> : w \in B}
      /\ Mapping' = Mapping
  BY <1>1, <1>2
<1>4. Translation!Answer(v, p)
  BY <1>3 DEF Translation!Answer, Pending, Mapping
<1> QED BY <1>4 DEF Translation!Next

LEMMA PicksUpAbove ==
  ASSUME Pending' = Pending, ToSet(returned)' \subseteq ToSet(returned), Mapping' = Mapping
  PROVE  Translation!Next
<1> DEFINE A == ToSet(returned) \ ToSet(returned)'
<1>1. A \in SUBSET ToSet(returned) /\ ToSet(returned)' = ToSet(returned) \ A
  OBVIOUS
<1> HIDE DEF A
<1>2. Translation!PickUp(A)
  BY <1>1 DEF Translation!PickUp, Pending, Mapping
<1> QED BY <1>1, <1>2 DEF Translation!Next

-----------------------------------------------------------------------------
(* Every step is one of PageTranslation, or none *)

LEMMA AskImplements ==
  ASSUME WalkerAssumption, Inv, NEW v \in Vpage, Ask(v)
  PROVE  [Translation!Next]_Translation!abstractVars
<1> DEFINE r == [id |-> asked', vpage |-> v, response_requested |-> asked' \notin Silent]
<1>1. /\ UNCHANGED <<vmem, MSHR, finished, completed, returned>>
      /\ RQ' = Append(RQ, r) /\ asked' = asked + 1 /\ asked < MaxWalks
  BY DEF Ask, walker
<1>2. asked' \in Walk /\ asked \in Nat
  BY <1>1, Sizes DEF Inv, TypeOK, Walk
<1>3. r \in Request /\ r.id = asked' /\ r.vpage = v /\ (r.response_requested <=> asked' \notin Silent)
  BY <1>2 DEF Request
<1>4. RQ \in Seq(Request)
  BY DEF Inv, TypeOK
<1> HIDE DEF r
<1>5. /\ DOMAIN RQ' = DOMAIN RQ \cup {Len(RQ) + 1} /\ RQ'[Len(RQ) + 1] = r
      /\ \A j \in DOMAIN RQ : RQ'[j] = RQ[j]
  BY <1>1, <1>3, <1>4, Appended
<1>6. \A p : RequestOwes(p)' <=> RequestOwes(p) \/ (r.response_requested /\ p = <<r.id, r.vpage>>)
  BY <1>5 DEF RequestOwes
<1>7. \A p : (WalkOwes(p)' <=> WalkOwes(p)) /\ (TableOwes(p)' <=> TableOwes(p)) /\ (PageOwes(p)' <=> PageOwes(p))
  BY <1>1 DEF WalkOwes, TableOwes, PageOwes
<1>8. Mapping' = Mapping /\ ToSet(returned)' = ToSet(returned)
  BY <1>1, MappingRests
<1>9. CASE asked' \in Silent
  <2>1. \A p : p \in Pending' <=> p \in Pending
    BY <1>3, <1>6, <1>7, <1>9, WhoOwes
  <2>2. Pending' = Pending
    BY <2>1
  <2> QED BY <1>8, <2>2, Rests DEF AbstractRests
<1>10. CASE asked' \notin Silent
  <2>1. \A p : p \in Pending' <=> p \in Pending \/ p = <<asked', v>>
    BY <1>3, <1>6, <1>7, <1>10, WhoOwes
  <2>2. Pending' = Pending \cup {<<asked', v>>}
    BY <2>1
  <2>3. \A i : i <= asked => i # asked'
    <3>1. ~(asked' <= asked)
      BY <1>1, <1>2
    <3> QED BY <3>1
  <2>4. ASSUME NEW p \in Pending PROVE p[1] # asked'
    BY <2>3, WhoOwes, OwersAreThere DEF Inv, OnePlaceEach, WereAsked
  <2>5. \A p \in ToSet(returned) : p[1] # asked'
    BY <2>3 DEF ToSet, Inv, OnePlaceEach, WereAsked
  <2>6. Translation!Next
    BY <1>2, <1>8, <2>2, <2>4, <2>5, AsksAbove
  <2> QED BY <2>6
<1> QED BY <1>9, <1>10

LEMMA PickUpImplements ==
  ASSUME Inv, PickUp
  PROVE  [Translation!Next]_Translation!abstractVars
<1>1. /\ UNCHANGED <<vmem, MSHR, finished, completed, RQ>>
      /\ returned \in Seq(Walk \X Vpage \X VM!Page) /\ returned # <<>> /\ returned' = Tail(returned)
  BY DEF PickUp, walker, Inv, TypeOK
<1>2. \A k \in DOMAIN returned' : k + 1 \in DOMAIN returned /\ returned'[k] = returned[k + 1]
  BY <1>1, FrontTaken
<1>3. ToSet(returned)' \subseteq ToSet(returned)
  BY <1>2 DEF ToSet
<1>4. Mapping' = Mapping /\ Pending' = Pending
  BY <1>1, MappingRests DEF Pending, InFlight
<1>5. Translation!Next
  BY <1>3, <1>4, PicksUpAbove
<1> QED BY <1>5

LEMMA OtherCoreImplements ==
  ASSUME WalkerAssumption, Inv, NEW c \in Cpu, c # cpu, NEW v \in OtherVpage, OtherCore(c, v)
  PROVE  [Translation!Next]_Translation!abstractVars
<1>1. /\ UNCHANGED <<MSHR, finished, completed, RQ, returned>>
      /\ VM!VaToPa(c, v) \/ \E l \in VM!Level : VM!GetPtePa(c, v, l)
  BY DEF OtherCore, walker, upper
<1>2. v \in Vpage /\ MemoryInv /\ VM!TypeOK /\ VM!Level = 1..pt_levels
  BY Sizes DEF Inv, TypeOK, VM!Level
<1>3. Pending' = Pending /\ ToSet(returned)' = ToSet(returned)
  BY <1>1 DEF Pending, InFlight
<1>4. CASE VM!VaToPa(c, v)
  <2>1. MapsGrow /\ DOMAIN vpage_to_ppage_map' = DOMAIN vpage_to_ppage_map \cup {<<c, v>>}
    BY <1>2, <1>4, VaToPaKeeps
  <2>2. Mapping' = Mapping
    BY <1>2, <2>1, MappingGrows
  <2> QED BY <1>3, <2>2, Rests DEF AbstractRests
<1>5. CASE \E l \in VM!Level : VM!GetPtePa(c, v, l)
  <2>1. UNCHANGED vpage_to_ppage_map
    BY <1>5 DEF VM!GetPtePa
  <2>2. Mapping' = Mapping
    BY <2>1 DEF Mapping
  <2> QED BY <1>3, <2>2, Rests DEF AbstractRests
<1> QED BY <1>1, <1>4, <1>5

\* A walk that moves on still owes what it owed.
LEMMA FinishStepImplements ==
  ASSUME WalkerAssumption, Inv, NEW w \in MSHR, FinishStep(w), MSHR' = MSHR \ {w}, UNCHANGED <<pscl, lower, upper>>
  PROVE  [Translation!Next]_Translation!abstractVars
<1> DEFINE x == [walk |-> w, data |-> VM!PteOf(cpu, w.vpage, w.level)]
<1>1. /\ UNCHANGED <<vpage_to_ppage_map, completed, RQ, returned>> /\ finished' = Append(finished, x)
  BY DEF FinishStep, upper, VM!GetPtePa
<1>2. x.walk = w
  OBVIOUS
<1> HIDE DEF x
<1>3. finished \in Seq(WithTable)
  BY DEF Inv, TypeOK
<1>4. /\ DOMAIN finished' = DOMAIN finished \cup {Len(finished) + 1} /\ finished'[Len(finished) + 1] = x
      /\ \A j \in DOMAIN finished : finished'[j] = finished[j]
  <2>1. finished \in Seq(WithTable \cup {x})
    BY <1>3, SeqMonotonic
  <2> QED BY <1>1, <2>1, Appended
<1>5. \A p : TableOwes(p)' <=> TableOwes(p) \/ (w.to_return /\ p = <<w.id, w.vpage>>)
  BY <1>2, <1>4 DEF TableOwes
<1>6. \A p : WalkOwes(p) <=> WalkOwes(p)' \/ (w.to_return /\ p = <<w.id, w.vpage>>)
  BY DEF WalkOwes
<1>7. \A p : (RequestOwes(p)' <=> RequestOwes(p)) /\ (PageOwes(p)' <=> PageOwes(p))
  BY <1>1 DEF RequestOwes, PageOwes
<1>8. \A p : p \in Pending' <=> p \in Pending
  BY <1>5, <1>6, <1>7, WhoOwes
<1>9. Pending' = Pending /\ Mapping' = Mapping /\ ToSet(returned)' = ToSet(returned)
  BY <1>1, <1>8 DEF Mapping
<1> QED BY <1>9, Rests DEF AbstractRests

LEMMA FinishLastStepImplements ==
  ASSUME WalkerAssumption, Inv, NEW w \in MSHR, FinishLastStep(w), MSHR' = MSHR \ {w},
         UNCHANGED <<pscl, lower, upper>>
  PROVE  [Translation!Next]_Translation!abstractVars
<1> DEFINE x == [walk |-> w, data |-> VM!Ppage(cpu, w.vpage)]
<1>1. /\ UNCHANGED <<finished, RQ, returned>> /\ completed' = Append(completed, x)
  BY DEF FinishLastStep, upper
<1>2. x.walk = w
  OBVIOUS
<1> HIDE DEF x
<1>3. completed \in Seq(WithPage) /\ VM!TypeOK
  BY DEF Inv, TypeOK
<1>4. /\ DOMAIN completed' = DOMAIN completed \cup {Len(completed) + 1} /\ completed'[Len(completed) + 1] = x
      /\ \A j \in DOMAIN completed : completed'[j] = completed[j]
  <2>1. completed \in Seq(WithPage \cup {x})
    BY <1>3, SeqMonotonic
  <2> QED BY <1>1, <2>1, Appended
<1>5. \A p : PageOwes(p)' <=> PageOwes(p) \/ (w.to_return /\ p = <<w.id, w.vpage>>)
  BY <1>2, <1>4 DEF PageOwes
<1>6. \A p : WalkOwes(p) <=> WalkOwes(p)' \/ (w.to_return /\ p = <<w.id, w.vpage>>)
  BY DEF WalkOwes
<1>7. \A p : (RequestOwes(p)' <=> RequestOwes(p)) /\ (TableOwes(p)' <=> TableOwes(p))
  BY <1>1 DEF RequestOwes, TableOwes
<1>8. \A p : p \in Pending' <=> p \in Pending
  BY <1>5, <1>6, <1>7, WhoOwes
<1>9. Pending' = Pending /\ ToSet(returned)' = ToSet(returned)
  BY <1>1, <1>8
<1>10. /\ w.vpage \in Vpage /\ MapsGrow /\ cpu \in Cpu
       /\ DOMAIN vpage_to_ppage_map' = DOMAIN vpage_to_ppage_map \cup {<<cpu, w.vpage>>}
       /\ vpage_to_ppage_map'[<<cpu, w.vpage>>] \in VM!Page
  BY FinishLastStepKeeps, Sizes
<1>11. CASE <<cpu, w.vpage>> \in DOMAIN vpage_to_ppage_map
  <2>1. Mapping' = Mapping
    BY <1>3, <1>10, <1>11, MappingGrows
  <2> QED BY <1>9, <2>1, Rests DEF AbstractRests
<1>12. CASE <<cpu, w.vpage>> \notin DOMAIN vpage_to_ppage_map
  <2>1. PICK v, p : v = w.vpage /\ p = vpage_to_ppage_map'[<<cpu, w.vpage>>]
    OBVIOUS
  <2>2. Mapping' = Mapping \cup {<<v, p>>} /\ \A m \in Mapping : m[1] # v
    BY <1>3, <1>10, <1>12, <2>1, MappingGrows
  <2>3. Translation!Next
    BY <1>9, <1>10, <2>1, <2>2, MapsAbove
  <2> QED BY <2>3
<1> QED BY <1>11, <1>12

LEMMA HandleReadImplements ==
  ASSUME WalkerAssumption, Inv, HandleRead
  PROVE  [Translation!Next]_Translation!abstractVars
<1> DEFINE r == Head(RQ)
           w == Reading(r)
<1>1. /\ RQ \in Seq(Request) /\ RQ # <<>> /\ UNCHANGED <<vmem, finished, completed, returned>>
      /\ \/ StepTranslation(w) /\ RQ' = Tail(RQ)
         \/ Refused /\ UNCHANGED RQ
  BY DEF HandleRead, Inv, TypeOK
<1>2. w.id = r.id /\ w.vpage = r.vpage /\ w.to_return = r.response_requested
  BY DEF Reading
<1> HIDE DEF r, w
<1>3. \A p : (TableOwes(p)' <=> TableOwes(p)) /\ (PageOwes(p)' <=> PageOwes(p))
  BY <1>1 DEF TableOwes, PageOwes
<1>4. \A p : p \in Pending' <=> p \in Pending
  <2>1. CASE StepTranslation(w) /\ RQ' = Tail(RQ)
    <3>1. \A p : WalkOwes(p)' <=> WalkOwes(p) \/ (w.to_return /\ p = <<w.id, w.vpage>>)
      BY <2>1 DEF StepTranslation, WalkOwes
    <3>2. \A p : RequestOwes(p) <=> RequestOwes(p)' \/ (r.response_requested /\ p = <<r.id, r.vpage>>)
      BY <1>1, <2>1, RequestLeaves DEF r
    <3> QED BY <1>2, <1>3, <3>1, <3>2, WhoOwes
  <2>2. CASE Refused /\ UNCHANGED RQ
    <3>1. \A p : (RequestOwes(p)' <=> RequestOwes(p)) /\ (WalkOwes(p)' <=> WalkOwes(p))
      BY <2>2 DEF Refused, RequestOwes, WalkOwes
    <3> QED BY <1>3, <3>1, WhoOwes
  <2> QED BY <1>1, <2>1, <2>2
<1>5. AbstractRests
  BY <1>1, <1>4, MappingRests DEF AbstractRests
<1> QED BY <1>5, Rests

LEMMA HandleFillImplements ==
  ASSUME WalkerAssumption, Inv, HandleFill
  PROVE  [Translation!Next]_Translation!abstractVars
<1> DEFINE x == Head(finished)
           w == NextStep(x)
<1>1. /\ finished \in Seq(WithTable) /\ finished # <<>> /\ UNCHANGED <<vmem, completed, RQ, returned>>
      /\ \/ StepTranslation(w) /\ finished' = Tail(finished)
         \/ Refused /\ UNCHANGED finished
  BY DEF HandleFill, upper, Inv, TypeOK
<1>2. w.id = x.walk.id /\ w.vpage = x.walk.vpage /\ w.to_return = x.walk.to_return
  <2>1. x \in WithTable
    BY <1>1, FrontTaken
  <2>2. x.walk \in WalkAt
    BY <2>1 DEF WithTable
  <2> QED BY <2>2 DEF NextStep, WalkAt
<1> HIDE DEF w
<1>3. \A p : (RequestOwes(p)' <=> RequestOwes(p)) /\ (PageOwes(p)' <=> PageOwes(p))
  BY <1>1 DEF RequestOwes, PageOwes
<1>4. \A p : p \in Pending' <=> p \in Pending
  <2>1. CASE StepTranslation(w) /\ finished' = Tail(finished)
    <3>1. \A p : WalkOwes(p)' <=> WalkOwes(p) \/ (w.to_return /\ p = <<w.id, w.vpage>>)
      BY <2>1 DEF StepTranslation, WalkOwes
    <3>2. \A p : TableOwes(p) <=> TableOwes(p)' \/ (x.walk.to_return /\ p = <<x.walk.id, x.walk.vpage>>)
      BY <1>1, <2>1, TableLeaves
    <3> HIDE DEF x
    <3> QED BY <1>2, <1>3, <3>1, <3>2, WhoOwes
  <2>2. CASE Refused /\ UNCHANGED finished
    <3>1. \A p : (TableOwes(p)' <=> TableOwes(p)) /\ (WalkOwes(p)' <=> WalkOwes(p))
      BY <2>2 DEF Refused, TableOwes, WalkOwes
    <3> QED BY <1>3, <3>1, WhoOwes
  <2> QED BY <1>1, <2>1, <2>2
<1>5. AbstractRests
  BY <1>1, <1>4, MappingRests DEF AbstractRests
<1> QED BY <1>5, Rests

\* The walk with the page answers, and nobody else owes this answer.
LEMMA CompleteImplements ==
  ASSUME WalkerAssumption, Inv, Complete
  PROVE  [Translation!Next]_Translation!abstractVars
<1> DEFINE x == Head(completed)
           w == x.walk
           answer == <<w.id, w.vpage, x.data>>
<1>1. /\ completed \in Seq(WithPage) /\ completed # <<>> /\ completed' = Tail(completed)
      /\ returned' = IF w.to_return THEN Append(returned, answer) ELSE returned
      /\ UNCHANGED <<vmem, MSHR, finished, RQ>>
  BY DEF Complete, Inv, TypeOK
<1>2. /\ 1 \in DOMAIN completed /\ x = completed[1] /\ x \in WithPage
  BY <1>1, FrontTaken
<1>3. /\ w.id \in Walk /\ w.vpage \in Vpage /\ x.data \in VM!Page
  BY <1>2 DEF WithPage, WalkAt
<1>4. \A i : i = w.id => ~HasPage(i)' /\ ~Asked(i) /\ ~Waits(i) /\ ~HasTable(i)
  <2>1. \A i : i = w.id => HasPage(i) /\ ~HasPage(i)'
    BY <1>1, PageTaken DEF Inv, OnePlaceEach, OnlyOnce
  <2> QED BY <2>1 DEF Inv, OnePlaceEach, Apart
<1>5. <<w.vpage, x.data>> \in Mapping
  <2>1. /\ <<cpu, w.vpage>> \in DOMAIN vpage_to_ppage_map
        /\ x.data = vpage_to_ppage_map[<<cpu, w.vpage>>]
    BY <1>2 DEF Inv, PagesAreMapped
  <2>2. VM!TypeOK
    BY DEF Inv, TypeOK
  <2> QED BY <1>3, <2>1, <2>2, MappingIs
<1>6. \A p : PageOwes(p) <=> PageOwes(p)' \/ (w.to_return /\ p = <<w.id, w.vpage>>)
  BY <1>1, PageLeaves
<1> HIDE DEF x, w, answer
<1>7. \A p : (RequestOwes(p)' <=> RequestOwes(p)) /\ (WalkOwes(p)' <=> WalkOwes(p)) /\ (TableOwes(p)' <=> TableOwes(p))
  BY <1>1 DEF RequestOwes, WalkOwes, TableOwes
<1>8. Mapping' = Mapping
  BY <1>1, MappingRests
<1>9. CASE w.to_return
  <2>1. returned' = Append(returned, answer)
    BY <1>1, <1>9
  <2>2. ToSet(returned)' = ToSet(returned) \cup {answer}
    <3>1. returned \in Seq(Walk \X Vpage \X VM!Page) /\ answer \in Walk \X Vpage \X VM!Page
      BY <1>3 DEF Inv, TypeOK, answer
    <3>2. /\ DOMAIN returned' = DOMAIN returned \cup {Len(returned) + 1} /\ returned'[Len(returned) + 1] = answer
          /\ \A j \in DOMAIN returned : returned'[j] = returned[j]
      BY <2>1, <3>1, Appended
    <3> QED BY <3>2 DEF ToSet
  <2>3. PICK i, v, q : i = w.id /\ v = w.vpage /\ q = x.data
    OBVIOUS
  <2>4. <<i, v>> \in Pending
    BY <1>6, <1>9, <2>3, WhoOwes
  <2>5. \A p : p \in Pending' <=> p \in Pending /\ p # <<i, v>>
    <3>1. ~RequestOwes(<<i, v>>)' /\ ~WalkOwes(<<i, v>>)' /\ ~TableOwes(<<i, v>>)' /\ ~PageOwes(<<i, v>>)'
      <4>1. PICK p : p = <<i, v>>
        OBVIOUS
      <4>2. p[1] = w.id
        BY <2>3, <4>1
      <4>3. ~RequestOwes(p)' /\ ~WalkOwes(p)' /\ ~TableOwes(p)'
        BY <1>4, <1>7, <4>2, OwersAreThere
      <4>4. ~PageOwes(p)'
        BY <1>4, <4>2, OwersAreThereThen
      <4> QED BY <4>1, <4>3, <4>4
    <3> QED BY <1>6, <1>7, <2>3, <3>1, WhoOwes
  <2>6. Pending' = Pending \ {<<i, v>>}
    BY <2>5
  <2>7. Translation!Next
    BY <1>3, <1>5, <1>8, <2>2, <2>3, <2>4, <2>6, AnswersAbove DEF answer
  <2> QED BY <2>7
<1>10. CASE ~w.to_return
  <2>1. \A p : p \in Pending' <=> p \in Pending
    BY <1>6, <1>7, <1>10, WhoOwes
  <2>2. AbstractRests
    BY <1>1, <1>8, <1>10, <2>1 DEF AbstractRests
  <2> QED BY <2>2, Rests
<1> QED BY <1>9, <1>10

LEMMA NothingImplements ==
  ASSUME UNCHANGED <<vmem, MSHR, finished, completed, RQ, returned>>
  PROVE  [Translation!Next]_Translation!abstractVars
<1>1. AbstractRests
  BY MappingRests DEF AbstractRests, Pending, InFlight
<1> QED BY <1>1, Rests

-----------------------------------------------------------------------------
(* Theorems *)

\* The maps, the free list and the place for the next table are what their types
\* say, and a page can always be taken (vmem.cc:28-49, 92-156).
THEOREM MemoryIsTyped ==
  ASSUME VM!VirtualMemoryAssumption
  PROVE  VM!Spec => []VM!TypeOK
BY MemoryInvariance, PTL DEF MemoryInv

\* Until the free list has run empty no physical page has two uses, however many
\* cores, levels, pages, and tables in a page (vmem.cc:92-156).
THEOREM MemoryServesNoPageTwice ==
  ASSUME VM!VirtualMemoryAssumption
  PROVE  VM!Spec => []VM!NoPageTwice
BY MemoryInvariance, PTL DEF MemoryInv

\* The invariant, and where the walks are if a table has its page to itself.
LEMMA Invariance ==
  ASSUME WalkerAssumption
  PROVE  Spec => [](Inv /\ OnTheirWay)
<1> DEFINE I == Inv /\ OnTheirWay
<1>1. Init => I
  BY InitKeeps
<1>2. I /\ [Next]_vars => I'
  <2> SUFFICES ASSUME Inv, OnTheirWay, [Next]_vars PROVE Inv' /\ OnTheirWay'
    OBVIOUS
  <2>1. ASSUME NEW v \in Vpage, Ask(v) PROVE Inv' /\ OnTheirWay'
    BY <2>1, AskKeeps
  <2>2. CASE PickUp
    BY <2>2, PickUpKeeps
  <2>3. ASSUME NEW S \in SUBSET outstanding, LowerAnswers(S) PROVE Inv' /\ OnTheirWay'
    BY <2>3, LowerAnswersKeeps
  <2>4. ASSUME NEW c \in Cpu, NEW v \in OtherVpage, OtherCore(c, v) PROVE Inv' /\ OnTheirWay'
    BY <2>4, OtherCoreKeeps
  <2>5. CASE FinishPacket
    <3>1. PICK w \in MSHR : (FinishStep(w) \/ FinishLastStep(w)) /\ MSHR' = MSHR \ {w}
      BY <2>5 DEF FinishPacket, Matching
    <3> QED BY <2>5, <3>1, FinishStepKeeps, FinishLastStepKeeps DEF FinishPacket
  <2>6. CASE EndPacket
    BY <2>6, EndPacketKeeps
  <2>7. CASE HandleFill
    BY <2>7, HandleFillKeeps
  <2>8. CASE HandleRead
    BY <2>8, HandleReadKeeps
  <2>9. CASE Complete
    BY <2>9, CompleteKeeps
  <2>10. CASE UNCHANGED vars
    BY <2>10, NothingKeeps
  <2> QED BY <2>1, <2>2, <2>3, <2>4, <2>5, <2>6, <2>7, <2>8, <2>9, <2>10
          DEF Next, Environment, Outside, Operate, Done
<1> QED BY <1>1, <1>2, PTL DEF Spec

\* While the walks of this core take tables and pages, and other cores do between
\* any two of their steps, no physical page has two uses until the free list has run
\* empty: for all cores, levels, page and table sizes, and any number of walks
\* (ptw.cc:183-223, vmem.cc:92-156).
THEOREM NoPageServesTwice ==
  ASSUME WalkerAssumption
  PROVE  Spec => []NoPageTwice
<1>1. Inv => NoPageTwice
  BY DEF Inv, MemoryInv, NoPageTwice
<1> QED BY <1>1, Invariance, PTL

\* No walk is left behind: an answer is owed for the block that it waits for, however
\* answers finish walks of several levels at once, and its table, level and page are
\* of their types (ptw.cc:138-165, 207-249).
THEOREM NoWalkIsLeftBehind ==
  ASSUME WalkerAssumption
  PROVE  Spec => [](TypeOK /\ EveryWalkIsOwed)
<1>1. Inv => TypeOK /\ EveryWalkIsOwed
  BY DEF Inv
<1> QED BY <1>1, Invariance, PTL

\* Where a page holds one table, as with the default page size, every walk also reads
\* the tables that lead to its page, whatever the walk caches have kept and evicted
\* (ptw.cc:60-91, 138-165).
THEOREM WalksKeepToTheirTables ==
  ASSUME WalkerAssumption, tables_per_page = 1
  PROVE  Spec => []WalksAreOnTheirWay
<1>1. Inv /\ OnTheirWay => WalksAreOnTheirWay
  BY DEF Inv, OnTheirWay, WalksAreOnTheirWay
<1> QED BY <1>1, Invariance, PTL

\* Every request is answered once, with the page that its virtual page has and keeps,
\* through walks that share answers, refused steps and other cores: for any number of
\* requests and cores, and all sizes of tables, pages and walk caches
\* (ptw.cc:138-165, 207-249).
THEOREM AnswersAreTheMapping ==
  ASSUME WalkerAssumption
  PROVE  Spec => AnswersWithTheMapping
<1>1. Init => Translation!Init
  <2> SUFFICES ASSUME Init PROVE Translation!Init
    OBVIOUS
  <2>1. /\ MSHR = {} /\ finished = <<>> /\ completed = <<>> /\ RQ = <<>> /\ returned = <<>>
        /\ vpage_to_ppage_map = <<>>
    BY DEF Init
  <2>2. Pending = {} /\ Mapping = {} /\ ToSet(returned) = {}
    BY <2>1 DEF Pending, InFlight, Mapping, ToSet
  <2> QED BY <2>2 DEF Translation!Init, Translation!Mapped, Pending, Mapping
<1>2. Inv /\ [Next]_vars => [Translation!Next]_Translation!abstractVars
  <2> SUFFICES ASSUME Inv, [Next]_vars PROVE [Translation!Next]_Translation!abstractVars
    OBVIOUS
  <2>1. ASSUME NEW v \in Vpage, Ask(v) PROVE [Translation!Next]_Translation!abstractVars
    BY <2>1, AskImplements
  <2>2. CASE PickUp
    BY <2>2, PickUpImplements
  <2>3. ASSUME NEW S \in SUBSET outstanding, LowerAnswers(S)
        PROVE  [Translation!Next]_Translation!abstractVars
    BY <2>3, NothingImplements DEF LowerAnswers, walker, upper
  <2>4. ASSUME NEW c \in Cpu \ {cpu}, NEW v \in OtherVpage, OtherCore(c, v)
        PROVE  [Translation!Next]_Translation!abstractVars
    BY <2>4, OtherCoreImplements
  <2>5. CASE FinishPacket
    <3>1. PICK w \in MSHR : (FinishStep(w) \/ FinishLastStep(w)) /\ MSHR' = MSHR \ {w}
      BY <2>5 DEF FinishPacket, Matching
    <3> QED BY <2>5, <3>1, FinishStepImplements, FinishLastStepImplements DEF FinishPacket
  <2>6. CASE EndPacket
    BY <2>6, NothingImplements DEF EndPacket, walker, upper
  <2>7. CASE HandleFill
    BY <2>7, HandleFillImplements
  <2>8. CASE HandleRead
    BY <2>8, HandleReadImplements
  <2>9. CASE Complete
    BY <2>9, CompleteImplements
  <2>10. CASE UNCHANGED vars
    BY <2>10, NothingImplements DEF vars, walker, upper
  <2> QED BY <2>1, <2>2, <2>3, <2>4, <2>5, <2>6, <2>7, <2>8, <2>9, <2>10
          DEF Next, Environment, Outside, Operate, Done
<1> QED BY <1>1, <1>2, Invariance, PTL DEF Spec, AnswersWithTheMapping, Translation!Spec
=============================================================================
