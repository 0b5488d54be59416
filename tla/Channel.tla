------------------------------ MODULE Channel ------------------------------
(***************************************************************************)
(* champsim::channel (src/channel.cc): the read, write and prefetch queue  *)
(* between a component and the cache below it, and the queue of responses  *)
(* on the way back.  The cache's operate() first calls check_collision(),  *)
(* which merges duplicates and answers reads from queued writes; then it   *)
(* takes requests from the front of the queues and pushes responses.       *)
(*                                                                         *)
(* check_collision() is three loops.  One step of ScanWQ, ScanRQ or ScanPQ *)
(* is one iteration; pc says which loop runs, and while it is not "idle"   *)
(* the upper component does not run (the simulator is single-threaded).    *)
(*                                                                         *)
(* The types, data and metadata of a request are left out: no decision of  *)
(* the channel reads them.                                                 *)
(*                                                                         *)
(* instr_depend_on_me stands for everything that waits at a request: the   *)
(* ids that the code lists there, and those only the sender knows, by the  *)
(* block (loads in a load queue, a miss in an MSHR above).  So a request   *)
(* that wants a response has a nonempty set here, although the code's list *)
(* may be empty.                                                           *)
(***************************************************************************)
EXTENDS Naturals, SequencesExt

CONSTANTS Instr,              \* ids that can wait for a response
          Address,            \* addresses, a set of naturals
          Translation,        \* values of is_translated that occur
          RQ_SIZE, WQ_SIZE, PQ_SIZE,
          OFFSET_BITS,        \* width of the offset within a block
          match_offset_bits   \* do writes collide on the full address?

ASSUME ChannelAssumption ==
  /\ Address \subseteq Nat
  /\ Translation \subseteq BOOLEAN
  /\ RQ_SIZE \in Nat /\ WQ_SIZE \in Nat /\ PQ_SIZE \in Nat
  /\ OFFSET_BITS \in Nat
  /\ match_offset_bits \in BOOLEAN

VARIABLES RQ, WQ, PQ,  \* the deques, oldest request first
          returned,    \* responses the upper component has not seen yet
          pc,          \* where the cache below is in its operate()
          inService,   \* external: requests the cache has taken and will answer
          written      \* history: the last write the cache has taken, as a set

vars == <<RQ, WQ, PQ, returned, pc, inService, written>>

Request == [address : Address, is_translated : Translation,
            response_requested : BOOLEAN, instr_depend_on_me : SUBSET Instr,
            forward_checked : BOOLEAN]

Response == [address : Address, instr_depend_on_me : SUBSET Instr]

-----------------------------------------------------------------------------
(* Addresses *)

SliceUpper(a, shamt) == a \div 2^shamt

write_shamt == IF match_offset_bits THEN 0 ELSE OFFSET_BITS

read_shamt == OFFSET_BITS

BlockOf(a) == SliceUpper(a, OFFSET_BITS)

-----------------------------------------------------------------------------
(* do_collision_for and the two uses of it *)

SameSlice(p, x, shamt) == SliceUpper(x.address, shamt) = SliceUpper(p.address, shamt)

CollidesAtAnyTranslation(q, n, p, shamt, i) ==  \* mutant
  /\ i \in 1..n
  /\ SameSlice(p, q[i], shamt)
  /\ \A k \in 1..(i - 1) : ~SameSlice(p, q[k], shamt)

\* std::find_if over q[1..n]: i is the FIRST entry that matches the address of
\* p.  It collides only if it is translated like p; no later entry is tried.
CollidesAt(q, n, p, shamt, i) ==
  /\ i \in 1..n
  /\ SameSlice(p, q[i], shamt)
  /\ \A k \in 1..(i - 1) : ~SameSlice(p, q[k], shamt)
  /\ p.is_translated = q[i].is_translated

Collides(q, n, p, shamt) == \E i \in 1..n : CollidesAt(q, n, p, shamt, i)

MergeIntoWithoutResponse(x, p) ==  \* mutant
  [x EXCEPT !.instr_depend_on_me = @ \cup p.instr_depend_on_me]

MergeInto(x, p) ==
  [x EXCEPT !.response_requested = @ \/ p.response_requested,
            !.instr_depend_on_me = @ \cup p.instr_depend_on_me]

\* The next request the loop over q looks at.
FirstUnchecked(q, j) ==
  /\ j \in 1..Len(q)
  /\ ~q[j].forward_checked
  /\ \A k \in 1..(j - 1) : q[k].forward_checked

AllChecked(q) == \A k \in 1..Len(q) : q[k].forward_checked

MergedNotErased(q, j, i) ==  \* mutant
  [q EXCEPT ![i] = MergeInto(@, q[j]), ![j].forward_checked = TRUE]

\* do_collision_for_merge: request j disappears into entry i of its own queue.
Merged(q, j, i) == RemoveAt([q EXCEPT ![i] = MergeInto(@, q[j])], j)

\* No collision: request j stays and is not looked at again.
Marked(q, j) == [q EXCEPT ![j].forward_checked = TRUE]

MergeOrMark(q, j, shamt) ==
  IF Collides(q, j - 1, q[j], shamt)
    THEN Merged(q, j, CHOOSE i \in 1..(j - 1) : CollidesAt(q, j - 1, q[j], shamt, i))
    ELSE Marked(q, j)

\* do_collision_for_return: the answer to p, at the address p asked for.
ResponseTo(p) == [address |-> p.address, instr_depend_on_me |-> p.instr_depend_on_me]

ReturnedAfter(p) == IF p.response_requested THEN Append(returned, ResponseTo(p)) ELSE returned

-----------------------------------------------------------------------------
Init ==
  /\ RQ = <<>> /\ WQ = <<>> /\ PQ = <<>> /\ returned = <<>>
  /\ pc = "idle"
  /\ inService = {}
  /\ written = {}

HasRoomOffByOne(q, size) == Len(q) <= size  \* mutant

\* The occupancy check of do_add_queue.
HasRoom(q, size) == Len(q) < size

\* Ids that wait somewhere between the upper component and the cache.
WaitingIn(S) == UNION {x.instr_depend_on_me : x \in S}

Waiting == WaitingIn(ToSet(RQ)) \cup WaitingIn(ToSet(PQ)) \cup WaitingIn(inService)
             \cup WaitingIn(ToSet(returned))

\* A request as its sender builds it.  One that wants a response carries the
\* ids that wait for it, none of which waits already; one that does not (a
\* writeback, a prefetch that skips the sender) carries none.
NewRequest(a, t, D) ==
  [address |-> a, is_translated |-> t, response_requested |-> (D # {}),
   instr_depend_on_me |-> D, forward_checked |-> FALSE]

\* add_rq, add_wq, add_pq.  A full queue returns false and changes nothing.
AddRQ(a, t, D) ==
  /\ pc = "idle"
  /\ D \cap Waiting = {}
  /\ HasRoom(RQ, RQ_SIZE)
  /\ RQ' = Append(RQ, NewRequest(a, t, D))
  /\ UNCHANGED <<WQ, PQ, returned, pc, inService, written>>

AddPQ(a, t, D) ==
  /\ pc = "idle"
  /\ D \cap Waiting = {}
  /\ HasRoom(PQ, PQ_SIZE)
  /\ PQ' = Append(PQ, NewRequest(a, t, D))
  /\ UNCHANGED <<WQ, RQ, returned, pc, inService, written>>

AddWQ(a, t) ==
  /\ pc = "idle"
  /\ HasRoom(WQ, WQ_SIZE)
  /\ WQ' = Append(WQ, NewRequest(a, t, {}))
  /\ UNCHANGED <<RQ, PQ, returned, pc, inService, written>>

\* The upper component picks up the oldest response.
PickUp ==
  /\ pc = "idle"
  /\ returned # <<>>
  /\ returned' = Tail(returned)
  /\ UNCHANGED <<RQ, WQ, PQ, pc, inService, written>>

-----------------------------------------------------------------------------
(* check_collision *)

CheckCollision ==
  /\ pc = "idle"
  /\ pc' = "WQ"
  /\ UNCHANGED <<RQ, WQ, PQ, returned, inService, written>>

ScanWQ ==
  /\ pc = "WQ"
  /\ \E j \in 1..Len(WQ) :
       /\ FirstUnchecked(WQ, j)
       /\ WQ' = MergeOrMark(WQ, j, write_shamt)
  /\ UNCHANGED <<RQ, PQ, returned, pc, inService, written>>

EndWQ ==
  /\ pc = "WQ" /\ AllChecked(WQ)
  /\ pc' = "RQ"
  /\ UNCHANGED <<RQ, WQ, PQ, returned, inService, written>>

ScanRQ ==
  /\ pc = "RQ"
  /\ \E j \in 1..Len(RQ) :
       /\ FirstUnchecked(RQ, j)
       /\ \/ /\ Collides(WQ, Len(WQ), RQ[j], write_shamt)
             /\ returned' = ReturnedAfter(RQ[j])
             /\ RQ' = RemoveAt(RQ, j)
          \/ /\ ~Collides(WQ, Len(WQ), RQ[j], write_shamt)
             /\ RQ' = MergeOrMark(RQ, j, read_shamt)
             /\ UNCHANGED returned
  /\ UNCHANGED <<WQ, PQ, pc, inService, written>>

EndRQ ==
  /\ pc = "RQ" /\ AllChecked(RQ)
  /\ pc' = "PQ"
  /\ UNCHANGED <<RQ, WQ, PQ, returned, inService, written>>

ScanPQ ==
  /\ pc = "PQ"
  /\ \E j \in 1..Len(PQ) :
       /\ FirstUnchecked(PQ, j)
       /\ \/ /\ Collides(WQ, Len(WQ), PQ[j], write_shamt)
             /\ returned' = ReturnedAfter(PQ[j])
             /\ PQ' = RemoveAt(PQ, j)
          \/ /\ ~Collides(WQ, Len(WQ), PQ[j], write_shamt)
             /\ PQ' = MergeOrMark(PQ, j, read_shamt)
             /\ UNCHANGED returned
  /\ UNCHANGED <<WQ, RQ, pc, inService, written>>

EndPQ ==
  /\ pc = "PQ" /\ AllChecked(PQ)
  /\ pc' = "take"
  /\ UNCHANGED <<RQ, WQ, PQ, returned, inService, written>>

-----------------------------------------------------------------------------
(* The rest of operate(): how the cache empties the queues.  How many        *)
(* requests it takes in a cycle depends on its bandwidth and is left open.   *)

Accept(p) == IF p.response_requested THEN inService \cup {p} ELSE inService

WriteTag(p) == <<SliceUpper(p.address, write_shamt), p.is_translated>>

TakeWQ ==
  /\ pc = "take" /\ WQ # <<>>
  /\ WQ' = Tail(WQ)
  /\ inService' = Accept(Head(WQ))
  /\ written' = {WriteTag(Head(WQ))}
  /\ UNCHANGED <<RQ, PQ, returned, pc>>

TakeRQ ==
  /\ pc = "take" /\ RQ # <<>>
  /\ RQ' = Tail(RQ)
  /\ inService' = Accept(Head(RQ))
  /\ UNCHANGED <<WQ, PQ, returned, pc, written>>

TakePQ ==
  /\ pc = "take" /\ PQ # <<>>
  /\ PQ' = Tail(PQ)
  /\ inService' = Accept(Head(PQ))
  /\ UNCHANGED <<WQ, RQ, returned, pc, written>>

\* The cache answers p, by a hit or by a fill.
Respond(p) ==
  /\ pc = "take"
  /\ inService' = inService \ {p}
  /\ returned' = Append(returned, ResponseTo(p))
  /\ UNCHANGED <<RQ, WQ, PQ, pc, written>>

EndOperate ==
  /\ pc = "take"
  /\ pc' = "idle"
  /\ UNCHANGED <<RQ, WQ, PQ, returned, inService, written>>

Upper ==
  \/ \E a \in Address, t \in Translation, D \in SUBSET Instr : AddRQ(a, t, D) \/ AddPQ(a, t, D)
  \/ \E a \in Address, t \in Translation : AddWQ(a, t)
  \/ PickUp

Lower ==
  \/ CheckCollision
  \/ ScanWQ \/ EndWQ \/ ScanRQ \/ EndRQ \/ ScanPQ \/ EndPQ
  \/ TakeWQ \/ TakeRQ \/ TakePQ \/ EndOperate
  \/ \E p \in inService : Respond(p)

Next == Upper \/ Lower

Spec == Init /\ [][Next]_vars
-----------------------------------------------------------------------------
(* What the channel promises: RequestReply, under this mapping.              *)

\* The ids that wait at x, with the block and the translation they asked for.
Tokens(x) ==
  IF x.response_requested
    THEN x.instr_depend_on_me \X {BlockOf(x.address)} \X {x.is_translated}
    ELSE {}

PendingIn(S) == UNION {Tokens(x) : x \in S}

Pending == PendingIn(ToSet(RQ)) \cup PendingIn(ToSet(PQ)) \cup PendingIn(inService)

AnsweredIn(S) == UNION {x.instr_depend_on_me \X {BlockOf(x.address)} : x \in S}

Answered == AnsweredIn(ToSet(returned))

Unwritten == {WriteTag(x) : x \in ToSet(WQ)}

WriteTags == {SliceUpper(a, write_shamt) : a \in Address}

Promise ==
  INSTANCE RequestReply
    WITH Waiter <- Instr,
         Block <- {BlockOf(a) : a \in Address},
         Tag <- WriteTags,
         pending <- Pending, answered <- Answered,
         unwritten <- Unwritten, written <- written

\* Merging, forwarding and taking requests loses no waiter and no write,
\* answers no one twice, and never answers a virtual address for a physical one
\* (channel.cc:37-115).
KeepsPromise == Promise!Spec

-----------------------------------------------------------------------------
(* Invariants *)

\* The fields keep their types and no queue outgrows its size.
TypeOK ==
  /\ RQ \in Seq(Request) /\ Len(RQ) <= RQ_SIZE
  /\ WQ \in Seq(Request) /\ Len(WQ) <= WQ_SIZE
  /\ PQ \in Seq(Request) /\ Len(PQ) <= PQ_SIZE
  /\ returned \in Seq(Response)
  /\ pc \in {"idle", "WQ", "RQ", "PQ", "take"}
  /\ inService \subseteq Request
  /\ written \subseteq (WriteTags \X Translation)

Disjoint(x, y) == x.instr_depend_on_me \cap y.instr_depend_on_me = {}

DistinctIn(q) == \A i, j \in 1..Len(q) : i # j => Disjoint(q[i], q[j])

\* Every request that ids wait at asks for a response, wherever merges have
\* carried the ids (channel.cc:53); a queued write keeps no one waiting.
AskedIffAwaited(S) == \A x \in S : x.response_requested <=> x.instr_depend_on_me # {}

WaitersWillBeAnswered ==
  /\ AskedIffAwaited(ToSet(RQ)) /\ AskedIffAwaited(ToSet(PQ)) /\ AskedIffAwaited(inService)
  /\ AskedIffAwaited(ToSet(WQ)) /\ WaitingIn(ToSet(WQ)) = {}

\* An id waits in one place: in one request of one queue, in one request the
\* cache holds, or in one response.  A response that were sent while another
\* request still holds the id would be followed by a second one.
IdsWaitOnce ==
  /\ DistinctIn(RQ) /\ DistinctIn(PQ) /\ DistinctIn(returned)
  /\ \A x, y \in inService : x # y => Disjoint(x, y)
  /\ WaitingIn(ToSet(RQ)) \cap WaitingIn(ToSet(PQ)) = {}
  /\ (WaitingIn(ToSet(RQ)) \cup WaitingIn(ToSet(PQ))) \cap WaitingIn(inService) = {}
  /\ (WaitingIn(ToSet(RQ)) \cup WaitingIn(ToSet(PQ)) \cup WaitingIn(inService))
       \cap WaitingIn(ToSet(returned)) = {}
=============================================================================
