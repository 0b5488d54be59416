--------------------------- MODULE PageTableWalker ---------------------------
(***************************************************************************)
(* PageTableWalker (src/ptw.cc) of one core, over the VirtualMemory that   *)
(* all cores share: a walk asks the level below for one entry of the page  *)
(* table after the other, starting where the walk caches (pscl) know the   *)
(* table already.                                                          *)
(*                                                                         *)
(* One step is one iteration of a loop of operate().  operate() first      *)
(* finishes everything that lower_level has returned; bandwidths and       *)
(* latencies decide how many iterations each of the other loops makes, and *)
(* the model leaves that open, so that only the first loop needs a guard.  *)
(* MSHR is a set: finish_packet looks through all of it, with an unstable  *)
(* partition, and nothing else reads it.                                   *)
(***************************************************************************)
EXTENDS Integers, FiniteSets, SequencesExt

CONSTANTS Cpu, Vpage, pt_levels, pte_page_size, tables_per_page, PageOrder, \* of VirtualMemory
          cpu,              \* the core of this walker
          PSCL_WAYS,        \* entries of a walk cache, all of one set
          PtesPerBlock,     \* entries of a table in a block
          MaxWalks,         \* bound: requests from above
          Silent,           \* those of them that ask for no answer
          RQ_SIZE,          \* bound: the queue of the channel above
          OtherVpage,       \* bound: what other cores translate
          MaxFaults         \* bound: translations and tables of other cores

VARIABLES vpage_to_ppage_map, page_table, ppage_free_list, active_pte_page, next_pte_page, refilled,
          RQ,               \* of the channel above
          asked,            \* how many requests there were; they are numbered
          MSHR,             \* walks that wait for the level below
          finished,         \* walks with the next table's address, in order
          completed,        \* walks with the page, in order
          pscl,             \* by level, the least recently used first
          outstanding,      \* external: requests below, as <<id, level, block>>
          lower_returned,   \* external: blocks that came back, not seen yet
          returned          \* responses to the channel above

VM == INSTANCE VirtualMemory
Lru == INSTANCE LruTable

ASSUME WalkerAssumption ==
  /\ VM!VirtualMemoryAssumption
  /\ cpu \in Cpu /\ OtherVpage \subseteq Vpage /\ pt_levels > 1 /\ Len(PageOrder) > 1
  /\ PSCL_WAYS \in Nat \ {0} /\ PtesPerBlock \in Nat \ {0}
  /\ RQ_SIZE \in Nat /\ MaxWalks \in Nat /\ Silent \subseteq Nat /\ MaxFaults \in Nat

vmem == <<vpage_to_ppage_map, page_table, ppage_free_list, active_pte_page, next_pte_page, refilled>>
walker == <<MSHR, finished, completed, pscl>>
lower == <<outstanding, lower_returned>>
upper == <<RQ, asked, returned>>
vars == <<vmem, walker, lower, upper>>

Walk == 1..MaxWalks

PsclLevel == 2..pt_levels

Request == [id : Walk, vpage : Vpage, response_requested : BOOLEAN]
WalkAt == [id : Walk, vpage : Vpage, to_return : BOOLEAN, level : 0..pt_levels - 1, address : VM!PteAddress]
WithTable == [walk : WalkAt, data : VM!PteAddress]
WithPage == [walk : WalkAt, data : VM!Page]
PsclEntry == [tag : Nat, data : VM!PteAddress]

BlockOf(a) == <<a.table, a.offset \div PtesPerBlock>>
Block == VM!Table \X (0..pte_page_size - 1)

InFlight == MSHR \cup {x.walk : x \in ToSet(finished)} \cup {x.walk : x \in ToSet(completed)}

-----------------------------------------------------------------------------
\* The constructor takes the root of the page table.
Init ==
  /\ vpage_to_ppage_map = <<>>
  /\ page_table = [k \in {<<cpu, pt_levels, 0>>} |-> <<PageOrder[1], 0>>]
  /\ ppage_free_list = Tail(PageOrder)
  /\ active_pte_page = PageOrder[1] /\ next_pte_page = 1 % tables_per_page
  /\ refilled = FALSE
  /\ MSHR = {} /\ finished = <<>> /\ completed = <<>>
  /\ pscl = [l \in PsclLevel |-> <<>>]
  /\ outstanding = {} /\ lower_returned = <<>>
  /\ RQ = <<>> /\ asked = 0 /\ returned = <<>>

CR3_addr == [table |-> page_table[<<cpu, pt_levels, 0>>], offset |-> 0]

-----------------------------------------------------------------------------
(* External: the level above, the level below, the walkers of other cores *)

Ask(v) ==
  /\ Len(RQ) < RQ_SIZE /\ asked < MaxWalks
  /\ asked' = asked + 1
  /\ RQ' = Append(RQ, [id |-> asked', vpage |-> v, response_requested |-> asked' \notin Silent])
  /\ UNCHANGED <<vmem, walker, lower, returned>>

PickUp ==
  /\ returned # <<>>
  /\ returned' = Tail(returned)
  /\ UNCHANGED <<vmem, walker, lower, RQ, asked>>

\* Requests for one block may be merged below and then share an answer.
LowerAnswers(S) ==
  /\ S # {} /\ \A x, y \in S : x[3] = y[3]
  /\ outstanding' = outstanding \ S
  /\ \E x \in S : lower_returned' = Append(lower_returned, x[3])
  /\ UNCHANGED <<vmem, walker, upper>>

Foreign(f) == {x \in DOMAIN f : x[1] # cpu}

OtherCore(c, v) ==
  /\ Cardinality(Foreign(vpage_to_ppage_map)) + Cardinality(Foreign(page_table)) < MaxFaults
  /\ VM!VaToPa(c, v) \/ \E l \in VM!Level : VM!GetPtePa(c, v, l)
  /\ VM!maps' # VM!maps
  /\ UNCHANGED <<walker, lower, upper>>

-----------------------------------------------------------------------------
(* finish_packet, of every answer before anything else happens *)

Matching == {w \in MSHR : BlockOf(w.address) = Head(lower_returned)}

FinishStep(w) ==
  /\ w.level > 0
  /\ VM!GetPtePa(cpu, w.vpage, w.level)
  /\ finished' = Append(finished, [walk |-> w, data |-> VM!PteOf(cpu, w.vpage, w.level)])
  /\ UNCHANGED completed

FinishLastStep(w) ==
  /\ w.level = 0
  /\ VM!VaToPa(cpu, w.vpage)
  /\ completed' = Append(completed, [walk |-> w, data |-> VM!Ppage(cpu, w.vpage)])
  /\ UNCHANGED finished

FinishPacket ==
  /\ lower_returned # <<>>
  /\ \E w \in Matching :
       /\ FinishStep(w) \/ FinishLastStep(w)
       /\ MSHR' = MSHR \ {w}
  /\ UNCHANGED <<pscl, lower, upper>>

\* The next answer.  Earlier answers may have left this one no walk.
EndPacket ==
  /\ lower_returned # <<>> /\ Matching = {}
  /\ lower_returned' = Tail(lower_returned)
  /\ UNCHANGED <<vmem, walker, outstanding, upper>>

-----------------------------------------------------------------------------
(* The walk caches *)

PsclTagCoarse(l, v) == VM!Prefix(v, l + 1)  \* mutant

\* pscl_indexer
PsclTag(l, v) == VM!Prefix(v, l)

\* check_hit of every cache: the entries found become the most recently used.
Touched(v) == [l \in PsclLevel |-> Lru!Checked(pscl[l], PsclTag(l, v))]

PsclFilled(l, v, a) == [pscl EXCEPT ![l] = Lru!Filled(@, PSCL_WAYS, PsclTag(l, v), a)]

-----------------------------------------------------------------------------
(* handle_read and handle_fill, which ask the level below *)

\* The lowest level whose cache knows v; the table it names is read again.  The
\* position of the table in its page is lost.
WalkFrom(l, a, v) == [level |-> l, address |-> [table |-> <<a.table[1], 0>>, offset |-> VM!Offset(v, l)]]

WalkInit(v) ==
  LET hits == {l \in PsclLevel : Lru!Holds(pscl[l], PsclTag(l, v))}
  IN IF hits = {} THEN WalkFrom(pt_levels - 1, CR3_addr, v)
     ELSE LET l == CHOOSE l \in hits : \A k \in hits : l <= k
          IN WalkFrom(l - 1, Lru!Found(pscl[l], PsclTag(l, v)), v)

\* step_translation, accepted by the level below.
StepTranslation(w) ==
  /\ outstanding' = outstanding \cup {<<w.id, w.level, BlockOf(w.address)>>}
  /\ MSHR' = MSHR \cup {w}

\* The level below refuses: the walk stays where it is, and is tried again.
Refused == UNCHANGED <<outstanding, MSHR>>

Reading(r) ==
  [id |-> r.id, vpage |-> r.vpage, to_return |-> r.response_requested,
   level |-> WalkInit(r.vpage).level, address |-> WalkInit(r.vpage).address]

HandleRead ==
  /\ lower_returned = <<>> /\ RQ # <<>>
  /\ pscl' = Touched(Head(RQ).vpage)
  /\ \/ StepTranslation(Reading(Head(RQ))) /\ RQ' = Tail(RQ)
     \/ Refused /\ UNCHANGED RQ
  /\ UNCHANGED <<vmem, finished, completed, lower_returned, asked, returned>>

NextStepSameLevel(x) == [x.walk EXCEPT !.address = x.data]  \* mutant

NextStep(x) == [x.walk EXCEPT !.address = x.data, !.level = @ - 1]

HandleFill ==
  /\ lower_returned = <<>> /\ finished # <<>>
  /\ LET x == Head(finished) IN
       /\ pscl' = PsclFilled(x.walk.level + 1, x.walk.vpage, x.data)
       /\ \/ StepTranslation(NextStep(x)) /\ finished' = Tail(finished)
          \/ Refused /\ UNCHANGED finished
  /\ UNCHANGED <<vmem, completed, lower_returned, upper>>

\* The answer goes to the channel of the request, if it asked for one.
Complete ==
  /\ lower_returned = <<>> /\ completed # <<>>
  /\ LET x == Head(completed) IN
       returned' = IF x.walk.to_return THEN Append(returned, <<x.walk.id, x.walk.vpage, x.data>>) ELSE returned
  /\ completed' = Tail(completed)
  /\ UNCHANGED <<vmem, MSHR, finished, pscl, lower, RQ, asked>>

-----------------------------------------------------------------------------
Outside ==
  \/ \E v \in Vpage : Ask(v)
  \/ PickUp
  \/ \E S \in SUBSET outstanding : LowerAnswers(S)
  \/ \E c \in Cpu \ {cpu}, v \in OtherVpage : OtherCore(c, v)

\* Nothing happens outside while operate() runs, so answers may come one by one.
Environment == lower_returned = <<>> /\ Outside

Operate == FinishPacket \/ EndPacket \/ Complete \/ HandleFill \/ HandleRead

\* All requests of this instance (MaxWalks) are answered.
Done == asked = MaxWalks /\ RQ = <<>> /\ InFlight = {} /\ UNCHANGED vars

Next == Environment \/ Operate \/ Done

Spec == Init /\ [][Next]_vars

\* operate() runs again and again, latencies are finite, and the level below
\* accepts a request and answers it at last: as long as one of them can move a
\* walk on, one of them does.
Progress ==
  \/ FinishPacket \/ EndPacket \/ Complete
  \/ HandleFill /\ finished' # finished
  \/ HandleRead /\ RQ' # RQ
  \/ lower_returned = <<>> /\ \E S \in SUBSET outstanding : LowerAnswers(S)

Fairness == SF_vars(Progress)

FairSpec == Spec /\ Fairness
-----------------------------------------------------------------------------
(* Properties *)

\* The fields keep their types, and the walk caches their size.
TypeOK ==
  /\ VM!TypeOK
  /\ RQ \in Seq(Request) /\ asked \in 0..MaxWalks /\ MSHR \subseteq WalkAt
  /\ finished \in Seq(WithTable) /\ completed \in Seq(WithPage)
  /\ pscl \in [PsclLevel -> Seq(PsclEntry)] /\ \A l \in PsclLevel : Len(pscl[l]) <= PSCL_WAYS
  /\ outstanding \subseteq (Walk \X (0..pt_levels - 1) \X Block) /\ lower_returned \in Seq(Block)
  /\ returned \in Seq(Walk \X Vpage \X VM!Page)

Translation ==
  INSTANCE PageTranslation
    WITH Page <- VM!Page,
         pending <- {<<w.id, w.vpage>> : w \in {x \in InFlight : x.to_return}}
                      \cup {<<r.id, r.vpage>> : r \in {x \in ToSet(RQ) : x.response_requested}},
         answered <- ToSet(returned),
         mapping <- {<<x[2], vpage_to_ppage_map[x]>> :
                       x \in {y \in DOMAIN vpage_to_ppage_map : y[1] = cpu}}

\* Every request is answered once, with the page that its virtual page has and
\* keeps, through walks that share answers, refused steps and other cores
\* (ptw.cc:138-165, 207-249).
AnswersWithTheMapping == Translation!Spec

\* The level below owes an answer to every walk that waits for a block; so an
\* answer may finish walks that asked again for the same block, at another level
\* too, and no walk is left behind (ptw.cc:207-249).
EveryWalkIsOwed ==
  \A w \in MSHR : BlockOf(w.address) \in {x[3] : x \in outstanding} \cup ToSet(lower_returned)

\* The tables a walk may read at level l on its way to page v: the root, and those
\* of this core, of levels l and l + 1, whose pages agree with v above level l.
TablesToward(v, l) ==
  {page_table[k] : k \in {x \in DOMAIN page_table :
     /\ x[1] = cpu
     /\ \/ x[2] = pt_levels
        \/ x[2] = l + 1 /\ x[3] = VM!Prefix(v, l + 1)
        \/ x[2] = l /\ x[3] \div pte_page_size = VM!Prefix(v, l + 1)}}

\* A walk reads tables of its own core that lead to its page: a walk cache never
\* starts it in a table of another part of the address space (ptw.cc:60-91).
WalksReadTheirTables == \A w \in MSHR : w.address.table \in TablesToward(w.vpage, w.level)

\* Every walk in flight is on its way: the tables it reads lead to its page, and an
\* answer that takes it on is owed.
WalksAreOnTheirWay == TypeOK /\ EveryWalkIsOwed /\ WalksReadTheirTables

NoPageTwice == VM!NoPageTwice

\* Whoever asks for an answer gets it.
EveryWalkEnds ==
  \A i \in Walk : (\E x \in InFlight \cup ToSet(RQ) : x.id = i) ~> (\A x \in InFlight \cup ToSet(RQ) : x.id # i)
=============================================================================
