------------------------------- MODULE Cache -------------------------------
(***************************************************************************)
(* CACHE (src/cache.cc): the stages of operate(), from the responses of    *)
(* the level below to the tag checks.  A stage is a loop over a queue; one *)
(* step is one iteration and stage says which loop runs.                   *)
(*                                                                         *)
(* Left to other modules: the queues between two levels (Channel) and the  *)
(* translation of addresses; requests enter here with physical addresses.  *)
(* Bandwidth, hit and fill latency decide how many entries at the front of *)
(* a queue a stage handles; the model leaves the number open.  The         *)
(* prefetcher and the replacement policy are external and choose freely.   *)
(* An address is its block: match_offset_bits matters for what a write     *)
(* does, not for the offset itself.                                        *)
(***************************************************************************)
EXTENDS Naturals, FiniteSets, SequencesExt

CONSTANTS Block,
          NoBlock,      \* not a block
          SetIndex, IndexOf, \* the sets, and the set of each block
          NUM_WAY, MSHR_SIZE, PQ_SIZE,
          Upper,        \* the channels above
          Instr, SenderOf,   \* ids that can wait for a response; who sends them
          match_offset_bits, \* stores (TRUE, an L1D) or writebacks (FALSE) from above?
          MaxTags,      \* bound: entries of inflight_tag_check
          MaxWrites     \* bound: entries of inflight_writes, which the code does not limit

ASSUME CacheAssumption ==
  /\ NoBlock \notin Block
  /\ IndexOf \in [Block -> SetIndex]
  /\ NUM_WAY \in Nat \ {0} /\ MSHR_SIZE \in Nat /\ PQ_SIZE \in Nat
  /\ SenderOf \in [Instr -> Upper]
  /\ match_offset_bits \in BOOLEAN
  /\ MaxTags \in Nat /\ MaxWrites \in Nat

VARIABLES block,              \* the lines, by set and way
          MSHR, inflight_writes, inflight_tag_check, internal_PQ,
          stage,              \* the loop of operate() that runs
          at, last,           \* the tag checks of this cycle: position and end
          outstanding,        \* external: blocks asked for below, not answered
          lower_returned,     \* external: answers from below, not seen yet
          returned,           \* the responses to each channel above
          written             \* history: the last block written back, as a set

vars == <<block, MSHR, inflight_writes, inflight_tag_check, internal_PQ,
          stage, at, last, outstanding, lower_returned, returned, written>>

queues == <<MSHR, inflight_writes, inflight_tag_check, internal_PQ>>
lower == <<outstanding, lower_returned>>

Way == 1..NUM_WAY

\* RFO and TRANSLATION are treated like LOAD everywhere in the cache.
AccessType == {"LOAD", "WRITE", "PREFETCH"}

Line == [address : Block \cup {NoBlock}, dirty : BOOLEAN]

Invalid == [address |-> NoBlock, dirty |-> FALSE]

Packet == [address : Block, type : AccessType, instr_depend_on_me : SUBSET Instr,
           to_return : SUBSET Upper, skip_fill : BOOLEAN]

Miss == [address : Block, type : AccessType, instr_depend_on_me : SUBSET Instr,
         to_return : SUBSET Upper, data_known : BOOLEAN]

Response == [address : Block, instr_depend_on_me : SUBSET Instr]

-----------------------------------------------------------------------------
(* Requests *)

\* A request from channel u.  The ids in D wait for its answer: they are listed
\* in it, or (a load of the core, a miss of a cache above) its sender knows
\* them by the block.
FromAbove(u, t, b, D) ==
  [address |-> b, type |-> t, instr_depend_on_me |-> D,
   to_return |-> IF D # {} THEN {u} ELSE {}, skip_fill |-> FALSE]

OwnPrefetch(b, skip) ==
  [address |-> b, type |-> "PREFETCH", instr_depend_on_me |-> {}, to_return |-> {}, skip_fill |-> skip]

ToAllocate(p) ==
  [address |-> p.address, type |-> p.type, instr_depend_on_me |-> p.instr_depend_on_me,
   to_return |-> p.to_return, data_known |-> FALSE]

\* mshr_type::merge.  The entry is that of the successor unless it is a prefetch.
MergedMissNoReturn(m, s) ==  \* mutant
  [(IF s.type = "PREFETCH" THEN m ELSE s)
     EXCEPT !.instr_depend_on_me = m.instr_depend_on_me \cup s.instr_depend_on_me,
            !.data_known = m.data_known]

MergedMiss(m, s) ==
  [(IF s.type = "PREFETCH" THEN m ELSE s)
     EXCEPT !.instr_depend_on_me = m.instr_depend_on_me \cup s.instr_depend_on_me,
            !.to_return = m.to_return \cup s.to_return,
            !.data_known = m.data_known]

Answer(x) == [address |-> x.address, instr_depend_on_me |-> x.instr_depend_on_me]

\* The response to x goes to every channel that x.to_return names.
Respond(x) ==
  returned' = [u \in Upper |-> IF u \in x.to_return THEN Append(returned[u], Answer(x))
                                                     ELSE returned[u]]

-----------------------------------------------------------------------------
(* Lookups *)

WaysWith(b) == {w \in Way : block[IndexOf[b]][w].address = b}

FirstWay(S) == CHOOSE w \in S : \A v \in S : w <= v

InvalidWays(s) == {w \in Way : block[s][w].address = NoBlock}

MissOf(b) == {i \in 1..Len(MSHR) : MSHR[i].address = b}

Unreturned == {i \in 1..Len(MSHR) : ~MSHR[i].data_known}

First(S) == CHOOSE i \in S : \A j \in S : i <= j
-----------------------------------------------------------------------------
Init ==
  /\ block = [s \in SetIndex |-> [w \in Way |-> Invalid]]
  /\ MSHR = <<>> /\ inflight_writes = <<>> /\ inflight_tag_check = <<>> /\ internal_PQ = <<>>
  /\ stage = "idle" /\ at = 1 /\ last = 0
  /\ outstanding = {} /\ lower_returned = <<>>
  /\ returned = [u \in Upper |-> <<>>]
  /\ written = {}

-----------------------------------------------------------------------------
(* Between two cycles *)

\* prefetch_line.  A full queue returns false and changes nothing.
PrefetchLine(b, skip) ==
  /\ stage = "idle"
  /\ Len(internal_PQ) < PQ_SIZE
  /\ internal_PQ' = Append(internal_PQ, OwnPrefetch(b, skip))
  /\ UNCHANGED <<block, MSHR, inflight_writes, inflight_tag_check, stage, at, last, lower,
                 returned, written>>

\* External: the level below answers its requests in any order.
LowerAnswers(b) ==
  /\ stage = "idle"
  /\ b \in outstanding
  /\ outstanding' = outstanding \ {b}
  /\ lower_returned' = Append(lower_returned, b)
  /\ UNCHANGED <<block, queues, stage, at, last, returned, written>>

\* External: the component above takes the responses of its channel.
PickUp(u) ==
  /\ stage = "idle"
  /\ returned[u] # <<>>
  /\ returned' = [returned EXCEPT ![u] = Tail(@)]
  /\ UNCHANGED <<block, queues, stage, at, last, lower, written>>

BeginCycle ==
  /\ stage = "idle"
  /\ stage' = "returns"
  /\ UNCHANGED <<block, queues, at, last, lower, returned, written>>

-----------------------------------------------------------------------------
(* finish_packet *)

FinishPacketInPlace ==  \* mutant
  /\ stage = "returns" /\ lower_returned # <<>>
  /\ LET m == First(MissOf(Head(lower_returned))) IN MSHR' = [MSHR EXCEPT ![m].data_known = TRUE]
  /\ lower_returned' = Tail(lower_returned)
  /\ UNCHANGED <<block, inflight_writes, inflight_tag_check, internal_PQ, stage, at, last,
                 outstanding, returned, written>>

\* The miss that the answer is for trades places with the first one that still
\* waits, so that answered misses come first.
FinishPacket ==
  /\ stage = "returns" /\ lower_returned # <<>>
  /\ MissOf(Head(lower_returned)) # {} /\ Unreturned # {}
  /\ LET m == First(MissOf(Head(lower_returned)))
         f == First(Unreturned)
     IN MSHR' = [MSHR EXCEPT ![m] = MSHR[f], ![f] = [MSHR[m] EXCEPT !.data_known = TRUE]]
  /\ lower_returned' = Tail(lower_returned)
  /\ UNCHANGED <<block, inflight_writes, inflight_tag_check, internal_PQ, stage, at, last,
                 outstanding, returned, written>>

EndReturns ==
  /\ stage = "returns" /\ lower_returned = <<>>
  /\ stage' = "fills"
  /\ UNCHANGED <<block, queues, at, last, lower, returned, written>>

-----------------------------------------------------------------------------
(* handle_fill *)

\* The ways x may go to: the first invalid one, else any that the replacement
\* policy names; NUM_WAY + 1 is to bypass, which a write may not.
VictimOf(x) ==
  IF InvalidWays(IndexOf[x.address]) # {}
    THEN {FirstWay(InvalidWays(IndexOf[x.address]))}
    ELSE Way \cup (IF x.type = "WRITE" THEN {} ELSE {NUM_WAY + 1})

\* fill_block
Filled(x) == [address |-> x.address, dirty |-> (x.type = "WRITE")]

\* A dirty victim is written back first.
MustWriteBack(s, w) == w \in Way /\ block[s][w].address # NoBlock /\ block[s][w].dirty

\* handle_fill(x) where the write queue below accepts the victim.
Fill(x) ==
  \E w \in VictimOf(x) :
    LET s == IndexOf[x.address] IN
      /\ \/ MustWriteBack(s, w) /\ written' = {<<block[s][w].address, TRUE>>}
         \/ ~MustWriteBack(s, w) /\ UNCHANGED written
      /\ block' = IF w \in Way THEN [block EXCEPT ![s][w] = Filled(x)] ELSE block
      /\ Respond(x)

\* One miss whose data has come and whose fill latency has passed.
FillFromMSHR ==
  /\ stage = "fills" /\ MSHR # <<>> /\ Head(MSHR).data_known
  /\ Fill(Head(MSHR))
  /\ MSHR' = Tail(MSHR)
  /\ UNCHANGED <<inflight_writes, inflight_tag_check, internal_PQ, stage, at, last, lower>>

RefuseFillTooLate(x) ==  \* mutant
  /\ \E w \in VictimOf(x) :
       /\ MustWriteBack(IndexOf[x.address], w)
       /\ block' = [block EXCEPT ![IndexOf[x.address]][w] = Filled(x)]
  /\ Respond(x)
  /\ UNCHANGED written

\* handle_fill(x) where the write queue below is full: it returns false, before it
\* takes the way and answers.
RefuseFill(x) ==
  /\ \E w \in VictimOf(x) : MustWriteBack(IndexOf[x.address], w)
  /\ UNCHANGED <<block, returned, written>>

\* The loop stops at a refused fill, which stays where it is.
RefuseFillFromMSHR ==
  /\ stage = "fills" /\ MSHR # <<>> /\ Head(MSHR).data_known
  /\ RefuseFill(Head(MSHR))
  /\ stage' = "writes"
  /\ UNCHANGED <<queues, at, last, lower>>

\* The fill bandwidth is used up, or the next entry is not ready.
EndFills ==
  /\ stage = "fills"
  /\ stage' = "writes"
  /\ UNCHANGED <<block, queues, at, last, lower, returned, written>>

FillFromWrites ==
  /\ stage = "writes" /\ inflight_writes # <<>>
  /\ Fill(Head(inflight_writes))
  /\ inflight_writes' = Tail(inflight_writes)
  /\ UNCHANGED <<MSHR, inflight_tag_check, internal_PQ, stage, at, last, lower>>

RefuseFillFromWrites ==
  /\ stage = "writes" /\ inflight_writes # <<>>
  /\ RefuseFill(Head(inflight_writes))
  /\ stage' = "initiate"
  /\ UNCHANGED <<queues, at, last, lower>>

EndWrites ==
  /\ stage = "writes"
  /\ stage' = "initiate"
  /\ UNCHANGED <<block, queues, at, last, lower, returned, written>>

-----------------------------------------------------------------------------
(* initiate_tag_check *)

WaitingAt(S) == UNION {x.instr_depend_on_me : x \in S}

\* Ids that wait somewhere in the cache or in a response.
Waiting == WaitingAt(ToSet(inflight_tag_check)) \cup WaitingAt(ToSet(MSHR))
             \cup UNION {WaitingAt(ToSet(returned[u])) : u \in Upper}

Writes(q) == {i \in 1..Len(q) : q[i].type = "WRITE"}

\* What a channel above may hold: loads want an answer, writes do not, and
\* prefetches do unless they skip the level that sent them.
Requests(u, t, D) ==
  /\ \A i \in D : SenderOf[i] = u
  /\ D \cap Waiting = {}
  /\ t = "LOAD" => D # {}
  /\ t = "WRITE" => D = {} /\ Len(inflight_writes) + Cardinality(Writes(inflight_tag_check)) < MaxWrites

TakeFromAbove(u, t, b, D) ==
  /\ stage = "initiate"
  /\ Len(inflight_tag_check) < MaxTags
  /\ Requests(u, t, D)
  /\ inflight_tag_check' = Append(inflight_tag_check, FromAbove(u, t, b, D))
  /\ UNCHANGED <<block, MSHR, inflight_writes, internal_PQ, stage, at, last, lower, returned, written>>

TakeFromInternalPQ ==
  /\ stage = "initiate"
  /\ Len(inflight_tag_check) < MaxTags
  /\ internal_PQ # <<>>
  /\ inflight_tag_check' = Append(inflight_tag_check, Head(internal_PQ))
  /\ internal_PQ' = Tail(internal_PQ)
  /\ UNCHANGED <<block, MSHR, inflight_writes, stage, at, last, lower, returned, written>>

\* The entries 1..n are ready, and no more than MAX_TAG.
BeginTagChecks(n) ==
  /\ stage = "initiate"
  /\ stage' = "hits" /\ at' = 1 /\ last' = n
  /\ UNCHANGED <<block, queues, lower, returned, written>>

-----------------------------------------------------------------------------
(* try_hit, of every ready entry *)

ThisTag == inflight_tag_check[at]

Hit ==
  /\ stage = "hits" /\ at <= last
  /\ WaysWith(ThisTag.address) # {}
  /\ block' = [block EXCEPT ![IndexOf[ThisTag.address]][FirstWay(WaysWith(ThisTag.address))].dirty =
                 @ \/ ThisTag.type = "WRITE"]
  /\ Respond(ThisTag)
  /\ inflight_tag_check' = RemoveAt(inflight_tag_check, at)
  /\ last' = last - 1
  /\ UNCHANGED <<MSHR, inflight_writes, internal_PQ, stage, at, lower, written>>

NoHit ==
  /\ stage = "hits" /\ at <= last
  /\ WaysWith(ThisTag.address) = {}
  /\ at' = at + 1
  /\ UNCHANGED <<block, queues, stage, last, lower, returned, written>>

EndHits ==
  /\ stage = "hits" /\ at > last
  /\ stage' = "misses" /\ at' = 1
  /\ UNCHANGED <<block, queues, last, lower, returned, written>>

-----------------------------------------------------------------------------
(* handle_write and handle_miss, of the entries that did not hit *)

Checking == stage = "misses" /\ at <= last

IsWritebackEverywhere(p) == p.type = "WRITE"  \* mutant

\* Is this a writeback from the cache above, which fills like a response?
IsWriteback(p) == p.type = "WRITE" /\ ~match_offset_bits

FinishFront == inflight_tag_check' = Tail(inflight_tag_check) /\ last' = last - 1  \* mutant

Finish == inflight_tag_check' = RemoveAt(inflight_tag_check, at) /\ last' = last - 1

HandleWrite ==
  /\ Checking /\ IsWriteback(ThisTag)
  /\ inflight_writes' = Append(inflight_writes, ToAllocate(ThisTag))
  /\ Finish
  /\ UNCHANGED <<block, MSHR, internal_PQ, stage, at, lower, returned, written>>

MergeMiss ==
  /\ Checking /\ ~IsWriteback(ThisTag)
  /\ \E m \in MissOf(ThisTag.address) :
       /\ m = First(MissOf(ThisTag.address))
       /\ MSHR' = [MSHR EXCEPT ![m] = MergedMiss(@, ToAllocate(ThisTag))]
  /\ Finish
  /\ UNCHANGED <<block, inflight_writes, internal_PQ, stage, at, lower, returned, written>>

HasMSHR == Len(MSHR) < MSHR_SIZE

\* The level below accepts the request.  It is answered, and the miss is
\* remembered, unless it is a prefetch that this cache will not keep.
ForwardMiss ==
  /\ Checking /\ ~IsWriteback(ThisTag)
  /\ MissOf(ThisTag.address) = {} /\ HasMSHR
  /\ \/ /\ ThisTag.skip_fill
        /\ UNCHANGED <<MSHR, outstanding>>
     \/ /\ ~ThisTag.skip_fill
        /\ MSHR' = Append(MSHR, ToAllocate(ThisTag))
        /\ outstanding' = outstanding \cup {ThisTag.address}
  /\ Finish
  /\ UNCHANGED <<block, inflight_writes, internal_PQ, stage, at, lower_returned, returned, written>>

\* No entry of the MSHR is free, or the queue below is full: handle_miss returns
\* false, and the entry is checked again in the next cycle.
RefuseMiss ==
  /\ Checking /\ ~IsWriteback(ThisTag)
  /\ MissOf(ThisTag.address) = {}
  /\ at' = at + 1
  /\ UNCHANGED <<block, queues, stage, last, lower, returned, written>>

EndCycle ==
  /\ stage = "misses" /\ at > last
  /\ stage' = "idle" /\ at' = 1 /\ last' = 0
  /\ UNCHANGED <<block, queues, lower, returned, written>>

-----------------------------------------------------------------------------
Environment ==
  \/ \E b \in Block, skip \in BOOLEAN : PrefetchLine(b, skip)
  \/ \E b \in Block : LowerAnswers(b)
  \/ \E u \in Upper : PickUp(u)

Arrive == \E u \in Upper, t \in AccessType, b \in Block, D \in SUBSET Instr : TakeFromAbove(u, t, b, D)

Operate ==
  \/ BeginCycle
  \/ FinishPacket \/ EndReturns
  \/ FillFromMSHR \/ RefuseFillFromMSHR \/ EndFills
  \/ FillFromWrites \/ RefuseFillFromWrites \/ EndWrites
  \/ TakeFromInternalPQ
  \/ \E n \in 0..Len(inflight_tag_check) : BeginTagChecks(n)
  \/ Hit \/ NoHit \/ EndHits
  \/ HandleWrite \/ MergeMiss \/ ForwardMiss \/ RefuseMiss \/ EndCycle

Next == Environment \/ Arrive \/ Operate

Spec == Init /\ [][Next]_vars

\* operate() runs again and again; latencies are finite, so the entries at the
\* front are handled at last; the level below answers every request and accepts
\* one again and again, which the oldest entry is the first to offer.
Fairness ==
  /\ WF_vars(Operate)
  /\ SF_vars(FillFromMSHR) /\ SF_vars(FillFromWrites)
  /\ \A b \in Block : SF_vars(LowerAnswers(b))
  /\ SF_vars(\E n \in 0..Len(inflight_tag_check) : n = Len(inflight_tag_check) /\ BeginTagChecks(n))
  /\ SF_vars(at = 1 /\ ForwardMiss)

FairSpec == Spec /\ Fairness
-----------------------------------------------------------------------------
(* What a cache promises: the answers and the writes of RequestReply, each on *)
(* its own, for one fill may write back a block and answer for another.      *)

\* The ids whose sender is among those that x answers.
Tokens(x) == {<<i, x.address, TRUE>> : i \in {j \in x.instr_depend_on_me : SenderOf[j] \in x.to_return}}

Pending == UNION {Tokens(x) : x \in ToSet(inflight_tag_check) \cup ToSet(MSHR)}

Answered ==
  UNION {UNION {{<<i, x.address>> : i \in {j \in x.instr_depend_on_me : SenderOf[j] = u}} :
                x \in ToSet(returned[u])} : u \in Upper}

\* The blocks the level below does not have yet: in a line that is dirty, or on
\* the way to one.
Unwritten ==
  {<<x.address, TRUE>> : x \in {y \in ToSet(inflight_tag_check) \cup ToSet(MSHR)
                                       \cup ToSet(inflight_writes) : y.type = "WRITE"}}
    \cup {<<block[x[1]][x[2]].address, TRUE>> : x \in {y \in SetIndex \X Way : block[y[1]][y[2]].dirty}}

Answers ==
  INSTANCE RequestReply
    WITH Waiter <- Instr, Translation <- {TRUE}, Tag <- Block,
         pending <- Pending, answered <- Answered, unwritten <- {}, written <- {}

\* Everyone who waits is answered exactly once, with the block asked for,
\* through merges of misses from several channels, answers in any order and
\* refused requests (cache.cc:107-139, 242-245, 296-372, 610-633).
AnswersEveryone == Answers!Spec

WriteBacks ==
  INSTANCE RequestReply
    WITH Waiter <- Instr, Translation <- {TRUE}, Tag <- Block,
         pending <- {}, answered <- {}, unwritten <- Unwritten, written <- written

\* "Blocks that have been written are marked dirty"
\* (test/cpp/src/407-writeback-dirty.cc:7): a block that was written here is owed
\* to the level below until it has been written back.
WrittenBlocksAreDirty == WriteBacks!Spec

-----------------------------------------------------------------------------
(* Invariants *)

\* The fields keep their types and the bounded queues their sizes.
TypeOK ==
  /\ block \in [SetIndex -> [Way -> Line]]
  /\ MSHR \in Seq(Miss) /\ Len(MSHR) <= MSHR_SIZE
  /\ inflight_writes \in Seq(Miss)
  /\ inflight_tag_check \in Seq(Packet) /\ Len(inflight_tag_check) <= MaxTags
  /\ internal_PQ \in Seq(Packet) /\ Len(internal_PQ) <= PQ_SIZE
  /\ stage \in {"idle", "returns", "fills", "writes", "initiate", "hits", "misses"}
  /\ at \in Nat \ {0} /\ last \in 0..Len(inflight_tag_check)
  /\ outstanding \subseteq Block /\ lower_returned \in Seq(Block)
  /\ returned \in [Upper -> Seq(Response)]
  /\ written \subseteq (Block \X {TRUE})

\* There is one miss for every block that the level below owes this cache, and
\* it still waits; so finish_packet, which asserts that it finds it
\* (cache.cc:617-620), does, and finds no other.
EveryAnswerHasItsMiss ==
  /\ \A i, j \in 1..Len(MSHR) : MSHR[i].address = MSHR[j].address => i = j
  /\ \A i \in 1..Len(MSHR) :
       ~MSHR[i].data_known <=>
         MSHR[i].address \in outstanding \cup ToSet(lower_returned)
  /\ outstanding \cup ToSet(lower_returned) \subseteq {MSHR[i].address : i \in 1..Len(MSHR)}
  /\ outstanding \cap ToSet(lower_returned) = {}
  /\ \A i, j \in 1..Len(lower_returned) : lower_returned[i] = lower_returned[j] => i = j

\* Misses whose data has come are in front of all that wait, so that the fills,
\* which look at the front only, are never held up by a miss that waits
\* ("Order this entry after previously-returned entries, but before
\* non-returned entries", cache.cc:630).
AnsweredMissesFirst ==
  \A i, j \in 1..Len(MSHR) : i < j /\ MSHR[j].data_known => MSHR[i].data_known

\* The misses and the answers match, in number and in order.
MissesMatchAnswers == TypeOK /\ EveryAnswerHasItsMiss /\ AnsweredMissesFirst

\* In a cache of stores, whose writes miss like reads, no block is in two ways,
\* and none is in a way while a miss waits for it.
NoBlockTwice ==
  /\ \A s \in SetIndex : \A v, w \in Way :
       block[s][v].address = block[s][w].address /\ block[s][v].address # NoBlock => v = w
  /\ \A i \in 1..Len(MSHR) : WaysWith(MSHR[i].address) = {}

\* Whoever waits is answered.
EveryoneIsAnswered == \A i \in Instr : (i \in WaitingAt(ToSet(inflight_tag_check))) ~>
  (\E u \in Upper : \E x \in ToSet(returned[u]) : SenderOf[i] = u /\ i \in x.instr_depend_on_me)
=============================================================================
