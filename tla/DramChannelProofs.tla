------------------------- MODULE DramChannelProofs -------------------------
(* Proofs about DramChannel.                                                *)
EXTENDS DramChannel, TLAPS

USE DramAssumption

-----------------------------------------------------------------------------
(* The inductive invariant *)

\* IdsWaitOnce, id by id.
Once ==
  /\ \A i \in Instr : \A k, j \in Occupied(RQ) :
       i \in RQ[k].instr_depend_on_me /\ i \in RQ[j].instr_depend_on_me => k = j
  /\ \A i \in Instr : \A r, s \in returned :
       i \in r.instr_depend_on_me /\ i \in s.instr_depend_on_me => r = s
  /\ \A i \in Instr : \A k \in Occupied(RQ), r \in returned :
       ~(i \in RQ[k].instr_depend_on_me /\ i \in r.instr_depend_on_me)

\* Entries that are checked hold different blocks.
Apart(q) ==
  \A k, j \in Occupied(q) : k # j /\ q[k].forward_checked /\ q[j].forward_checked => q[k].address # q[j].address

Scheduled(q) == {k \in Occupied(q) : q[k].scheduled}

CheckedFirst(q) == \A k \in Scheduled(q) : q[k].forward_checked

\* Nobody waits for a write.
Slots ==
  /\ Apart(RQ) /\ CheckedFirst(RQ)
  /\ Apart(WQ) /\ CheckedFirst(WQ)
  /\ \A k \in Occupied(WQ) : WQ[k].instr_depend_on_me = {}

\* Bank b serves slot k of the queue with this name, whose slots are q.
Serves(b, name, q, k) ==
  k \in Scheduled(q) /\ BankOf[q[k].address] = b /\ bank_request[b].pkt = <<name, k>>

ScheduledAreServed(q, name) ==
  \A k \in Scheduled(q) : BankOf[q[k].address] \in BusyBank /\ Serves(BankOf[q[k].address], name, q, k)

BusyBanksServe ==
  \A b \in BusyBank :
    (\E k \in RSlot : Serves(b, "RQ", RQ, k)) \/ (\E k \in WSlot : Serves(b, "WQ", WQ, k))

\* BanksHoldTheirPackets, queue by queue.
Linked ==
  /\ BusyBanksServe
  /\ ScheduledAreServed(RQ, "RQ") /\ ScheduledAreServed(WQ, "WQ")
  /\ active_request # NoBank => active_request \in BusyBank

\* Behind the checks everything is checked, behind the refreshes no idle bank has
\* one due, and during the warmup nothing is left when the checks begin.
Phases ==
  /\ stage \notin {"add", "warmup", "check_write"} => Unchecked(WQ) = {}
  /\ stage \notin {"add", "warmup", "check_write", "check_read"} => Unchecked(RQ) = {}
  /\ stage \in {"populate", "schedule"} =>
       \A b \in Bank : bank_request[b].valid \/ ~bank_request[b].need_refresh
  /\ stage = "warmup" => warmup
  /\ warmup => BusyBank = {}
  /\ warmup /\ stage \notin {"add", "warmup"} => Occupied(RQ) = {} /\ Occupied(WQ) = {}

Inv == TypeOK /\ Once /\ Slots /\ Linked /\ ModeOwnsTheBanks /\ RefreshesAlone /\ Phases

-----------------------------------------------------------------------------
(* The invariant says what the properties say *)

LEMMA OnceIsIdsWaitOnce ==
  ASSUME TypeOK
  PROVE  Once <=> IdsWaitOnce
<1>1. /\ \A k \in Occupied(RQ) : RQ[k].instr_depend_on_me \subseteq Instr
      /\ \A r \in returned : r.instr_depend_on_me \subseteq Instr
  BY DEF TypeOK, Occupied, Request, Response
<1>2. ASSUME Once PROVE IdsWaitOnce
  BY <1>1, <1>2 DEF Once, IdsWaitOnce, WaitingIn
<1>3. ASSUME IdsWaitOnce PROVE Once
  <2>1. ASSUME NEW i, NEW k \in Occupied(RQ), NEW r \in returned,
               i \in RQ[k].instr_depend_on_me, i \in r.instr_depend_on_me
        PROVE  FALSE
    <3>1. i \in WaitingIn({RQ[j] : j \in Occupied(RQ)}) /\ i \in WaitingIn(returned)
      BY <2>1 DEF WaitingIn
    <3> QED BY <1>3, <3>1 DEF IdsWaitOnce
  <2> QED BY <1>3, <2>1 DEF Once, IdsWaitOnce
<1> QED BY <1>2, <1>3

LEMMA SlotsAreChecked ==
  ASSUME TypeOK, Once, Slots
  PROVE  ChecksKeepTheSlots
<1>1. ChecksPrecedeScheduling
  <2>1. ASSUME NEW pkt \in ScheduledPackets PROVE PacketAt(pkt).forward_checked
    BY <2>1 DEF ScheduledPackets, Packet, PacketAt, Slots, CheckedFirst, Scheduled, Occupied, TypeOK
  <2> QED BY <2>1 DEF ChecksPrecedeScheduling, Slots, Apart
<1> QED BY <1>1, OnceIsIdsWaitOnce DEF ChecksKeepTheSlots

LEMMA LinkedBanks ==
  ASSUME TypeOK, Linked, ModeOwnsTheBanks
  PROVE  BanksServeTheMode
<1>1. ASSUME NEW b \in BusyBank
      PROVE  bank_request[b].pkt \in ScheduledPackets /\ BankOf[PacketAt(bank_request[b].pkt).address] = b
  <2>1. ASSUME NEW k \in RSlot, Serves(b, "RQ", RQ, k)
        PROVE  bank_request[b].pkt \in ScheduledPackets /\ BankOf[PacketAt(bank_request[b].pkt).address] = b
    <3>1. PacketAt(<<"RQ", k>>) = RQ[k] /\ <<"RQ", k>> \in Packet
      BY DEF PacketAt, Packet
    <3> QED BY <2>1, <3>1 DEF Serves, Scheduled, ScheduledPackets, Occupied
  <2>2. ASSUME NEW k \in WSlot, Serves(b, "WQ", WQ, k)
        PROVE  bank_request[b].pkt \in ScheduledPackets /\ BankOf[PacketAt(bank_request[b].pkt).address] = b
    <3>1. PacketAt(<<"WQ", k>>) = WQ[k] /\ <<"WQ", k>> \in Packet
      BY DEF PacketAt, Packet
    <3> QED BY <2>2, <3>1 DEF Serves, Scheduled, ScheduledPackets, Occupied
  <2> QED BY <2>1, <2>2 DEF Linked, BusyBanksServe
<1>2. ASSUME NEW pkt \in ScheduledPackets
      PROVE  /\ bank_request[BankOf[PacketAt(pkt).address]].pkt = pkt
             /\ BankOf[PacketAt(pkt).address] \in BusyBank
  <2>1. CASE pkt \in {"RQ"} \X RSlot
    BY <2>1 DEF Linked, ScheduledAreServed, Serves, Scheduled, ScheduledPackets, PacketAt, Occupied, TypeOK, BusyBank, Request
  <2>2. CASE pkt \in {"WQ"} \X WSlot
    BY <2>2 DEF Linked, ScheduledAreServed, Serves, Scheduled, ScheduledPackets, PacketAt, Occupied, TypeOK, BusyBank, Request
  <2> QED BY <2>1, <2>2 DEF ScheduledPackets, Packet
<1> QED BY <1>1, <1>2 DEF BanksServeTheMode, BanksHoldTheirPackets, Linked

-----------------------------------------------------------------------------
(* What a step may change and keep the links between banks and slots *)

SameScheduled(q, r) == Scheduled(r) = Scheduled(q) /\ \A k \in Scheduled(q) : r[k].address = q[k].address

SameBusy(bs, cs) == \A b \in Bank : cs[b].valid = bs[b].valid /\ cs[b].pkt = bs[b].pkt

LEMMA LinksKept ==
  ASSUME Inv, SameScheduled(RQ, RQ'), SameScheduled(WQ, WQ'), SameBusy(bank_request, bank_request'),
         UNCHANGED active_request \/ active_request' \in BusyBank
  PROVE  BusyBank' = BusyBank /\ Linked'
<1> USE DEF Inv
<1>1. BusyBank' = BusyBank
  BY DEF BusyBank, SameBusy
<1>2. ASSUME NEW b \in Bank, NEW k
      PROVE  /\ Serves(b, "RQ", RQ, k) => Serves(b, "RQ", RQ, k)'
             /\ Serves(b, "WQ", WQ, k) => Serves(b, "WQ", WQ, k)'
  <2>1. bank_request'[b].pkt = bank_request[b].pkt
    BY DEF SameBusy
  <2>2. k \in Scheduled(RQ) => k \in Scheduled(RQ') /\ RQ'[k].address = RQ[k].address
    BY DEF SameScheduled
  <2>3. k \in Scheduled(WQ) => k \in Scheduled(WQ') /\ WQ'[k].address = WQ[k].address
    BY DEF SameScheduled
  <2> QED BY <2>1, <2>2, <2>3 DEF Serves
<1>3. BusyBanksServe'
  <2>1. \A b \in BusyBank : b \in Bank
    BY DEF BusyBank
  <2> QED BY <1>1, <1>2, <2>1 DEF Linked, BusyBanksServe
<1>4. ScheduledAreServed(RQ, "RQ")'
  <2> SUFFICES ASSUME NEW k \in Scheduled(RQ')
               PROVE  BankOf[RQ'[k].address] \in BusyBank' /\ Serves(BankOf[RQ[k].address], "RQ", RQ, k)'
    BY DEF ScheduledAreServed
  <2>1. k \in Scheduled(RQ) /\ RQ'[k].address = RQ[k].address
    BY DEF SameScheduled
  <2>2. BankOf[RQ[k].address] \in BusyBank /\ Serves(BankOf[RQ[k].address], "RQ", RQ, k)
    BY <2>1 DEF Linked, ScheduledAreServed
  <2> QED BY <1>1, <1>2, <2>1, <2>2 DEF BusyBank
<1>5. ScheduledAreServed(WQ, "WQ")'
  <2> SUFFICES ASSUME NEW k \in Scheduled(WQ')
               PROVE  BankOf[WQ'[k].address] \in BusyBank' /\ Serves(BankOf[WQ[k].address], "WQ", WQ, k)'
    BY DEF ScheduledAreServed
  <2>1. k \in Scheduled(WQ) /\ WQ'[k].address = WQ[k].address
    BY DEF SameScheduled
  <2>2. BankOf[WQ[k].address] \in BusyBank /\ Serves(BankOf[WQ[k].address], "WQ", WQ, k)
    BY <2>1 DEF Linked, ScheduledAreServed
  <2> QED BY <1>1, <1>2, <2>1, <2>2 DEF BusyBank
<1>6. active_request' # NoBank => active_request' \in BusyBank'
  BY <1>1 DEF Linked
<1> QED BY <1>1, <1>3, <1>4, <1>5, <1>6 DEF Linked

-----------------------------------------------------------------------------
(* Steps that change no slot and no bank *)

LEMMA QuietStepsKeep ==
  ASSUME Inv, UNCHANGED <<queues, bank_request, active_request, write_mode, answers>>,
         stage' \in Stage, bus_free' \in BOOLEAN, warmup' \in BOOLEAN, Phases'
  PROVE  Inv'
<1>1. TypeOK'
  BY DEF Inv, TypeOK, queues, answers
<1>2. Once' /\ Slots'
  BY DEF Inv, Once, Slots, Apart, CheckedFirst, Scheduled, Occupied, queues, answers
<1>3. Linked'
  BY LinksKept DEF SameScheduled, SameBusy, queues
<1>4. ModeOwnsTheBanks' /\ RefreshesAlone'
  BY DEF Inv, ModeOwnsTheBanks, RefreshesAlone, BusyBank, ServedQueue
<1> QED BY <1>1, <1>2, <1>3, <1>4 DEF Inv

LEMMA QuietSteps ==
  ASSUME Inv,
         \/ BusReady \/ BeginPhase
         \/ BeginOperate \/ EndFlush \/ EndCheckWrite \/ EndCheckRead \/ NothingFinishes
         \/ KeepWriteMode \/ BusIdleOrCongested \/ NothingServiced
  PROVE  Inv'
<1>1. /\ UNCHANGED <<queues, bank_request, active_request, write_mode, answers>>
      /\ stage' \in Stage /\ bus_free' \in BOOLEAN /\ warmup' \in BOOLEAN
  BY DEF BusReady, BeginPhase, BeginOperate, EndFlush, EndCheckWrite, EndCheckRead, NothingFinishes,
         KeepWriteMode, BusIdleOrCongested, NothingServiced, After, Stage, banks, Inv, TypeOK
<1>2. Phases'
  <2> USE DEF Inv, Phases, Unchecked, Occupied, BusyBank, queues, banks
  <2>1. CASE BusReady
    BY <2>1 DEF BusReady
  <2>2. CASE BeginPhase
    BY <2>2 DEF BeginPhase
  <2>3. CASE BeginOperate
    BY <2>3 DEF BeginOperate
  <2>4. CASE EndFlush
    BY <2>4 DEF EndFlush
  <2>5. CASE EndCheckWrite
    BY <2>5 DEF EndCheckWrite
  <2>6. CASE EndCheckRead
    BY <2>6 DEF EndCheckRead
  <2>7. CASE NothingFinishes
    BY <2>7 DEF NothingFinishes, After
  <2>8. CASE KeepWriteMode
    BY <2>8 DEF KeepWriteMode, After
  <2>9. CASE BusIdleOrCongested
    BY <2>9 DEF BusIdleOrCongested, After
  <2>10. CASE NothingServiced
    BY <2>10 DEF NothingServiced, After
  <2> QED BY <2>1, <2>2, <2>3, <2>4, <2>5, <2>6, <2>7, <2>8, <2>9, <2>10
<1> QED BY <1>1, <1>2, QuietStepsKeep

-----------------------------------------------------------------------------
(* Steps between two cycles *)

LEMMA NewRequestIsOne ==
  ASSUME NEW b \in Block, NEW D \in SUBSET Instr
  PROVE  NewRequest(b, D) \in Request /\ NewRequest(b, D) # NoRequest
<1>1. NewRequest(b, D) \in Request
  BY DEF NewRequest, Request
<1> QED BY <1>1 DEF Request

LEMMA AddRQKeeps ==
  ASSUME Inv, NEW b \in Block, NEW D \in SUBSET Instr, AddRQ(b, D)
  PROVE  Inv'
<1>1. PICK k \in RSlot : RQ[k] = NoRequest /\ RQ' = [RQ EXCEPT ![k] = NewRequest(b, D)]
  BY DEF AddRQ, FirstEmpty, Occupied, Inv, TypeOK
<1>2. UNCHANGED <<WQ, banks, write_mode, warmup, stage, answers>> /\ stage = "add" /\ D \cap Waiting = {}
  BY DEF AddRQ
<1>3. /\ RQ' \in [RSlot -> Request \cup {NoRequest}]
      /\ RQ'[k] = NewRequest(b, D)
      /\ Occupied(RQ') = Occupied(RQ) \cup {k} /\ k \notin Occupied(RQ)
      /\ \A j \in Occupied(RQ) : RQ'[j] = RQ[j] /\ j # k
  <2>1. RQ \in [RSlot -> Request \cup {NoRequest}]
    BY DEF Inv, TypeOK
  <2>2. NewRequest(b, D) \in Request /\ NewRequest(b, D) # NoRequest
    BY NewRequestIsOne
  <2>3. /\ RQ' \in [RSlot -> Request \cup {NoRequest}]
        /\ RQ'[k] = NewRequest(b, D) /\ \A j \in RSlot \ {k} : RQ'[j] = RQ[j]
    BY <1>1, <2>1, <2>2
  <2> QED BY <1>1, <2>1, <2>2, <2>3 DEF Occupied
<1>4. /\ RQ'[k].instr_depend_on_me = D /\ ~RQ'[k].scheduled /\ ~RQ'[k].forward_checked
  BY <1>3 DEF NewRequest
<1>5. TypeOK'
  BY <1>2, <1>3 DEF Inv, TypeOK, banks, answers
<1>6. Once'
  <2>1. ASSUME NEW i \in Instr, i \in D
        PROVE  /\ \A j \in Occupied(RQ) : i \notin RQ[j].instr_depend_on_me
               /\ \A r \in returned : i \notin r.instr_depend_on_me
    BY <1>2, <2>1 DEF Waiting, WaitingIn
  <2> QED BY <1>2, <1>3, <1>4, <2>1 DEF Inv, Once, answers
<1>7. Slots'
  BY <1>2, <1>3, <1>4 DEF Inv, Slots, Apart, CheckedFirst, Scheduled
<1>8. Linked'
  <2>1. SameScheduled(RQ, RQ') /\ SameScheduled(WQ, WQ')
    BY <1>2, <1>3, <1>4 DEF SameScheduled, Scheduled
  <2> QED BY <1>2, <2>1, LinksKept DEF SameBusy, banks
<1>9. ModeOwnsTheBanks' /\ RefreshesAlone'
  BY <1>2 DEF Inv, ModeOwnsTheBanks, RefreshesAlone, BusyBank, ServedQueue, banks
<1>10. Phases'
  BY <1>2 DEF Inv, Phases, BusyBank, banks
<1> QED BY <1>5, <1>6, <1>7, <1>8, <1>9, <1>10 DEF Inv

LEMMA AddWQKeeps ==
  ASSUME Inv, NEW b \in Block, AddWQ(b)
  PROVE  Inv'
<1>1. PICK k \in WSlot : WQ[k] = NoRequest /\ WQ' = [WQ EXCEPT ![k] = NewRequest(b, {})]
  BY DEF AddWQ, FirstEmpty, Occupied, Inv, TypeOK
<1>2. UNCHANGED <<RQ, banks, write_mode, warmup, stage, answers>> /\ stage = "add"
  BY DEF AddWQ
<1>3. /\ WQ' \in [WSlot -> Request \cup {NoRequest}]
      /\ WQ'[k] = NewRequest(b, {})
      /\ Occupied(WQ') = Occupied(WQ) \cup {k} /\ k \notin Occupied(WQ)
      /\ \A j \in Occupied(WQ) : WQ'[j] = WQ[j] /\ j # k
  <2>1. WQ \in [WSlot -> Request \cup {NoRequest}]
    BY DEF Inv, TypeOK
  <2>2. NewRequest(b, {}) \in Request /\ NewRequest(b, {}) # NoRequest
    BY NewRequestIsOne
  <2>3. /\ WQ' \in [WSlot -> Request \cup {NoRequest}]
        /\ WQ'[k] = NewRequest(b, {}) /\ \A j \in WSlot \ {k} : WQ'[j] = WQ[j]
    BY <1>1, <2>1, <2>2
  <2> QED BY <1>1, <2>1, <2>2, <2>3 DEF Occupied
<1>4. /\ WQ'[k].instr_depend_on_me = {} /\ ~WQ'[k].scheduled /\ ~WQ'[k].forward_checked
  BY <1>3 DEF NewRequest
<1>5. TypeOK'
  BY <1>2, <1>3 DEF Inv, TypeOK, banks, answers
<1>6. Once'
  BY <1>2 DEF Inv, Once, Occupied, answers
<1>7. Slots'
  BY <1>2, <1>3, <1>4 DEF Inv, Slots, Apart, CheckedFirst, Scheduled
<1>8. Linked'
  <2>1. SameScheduled(RQ, RQ') /\ SameScheduled(WQ, WQ')
    BY <1>2, <1>3, <1>4 DEF SameScheduled, Scheduled
  <2> QED BY <1>2, <2>1, LinksKept DEF SameBusy, banks
<1>9. ModeOwnsTheBanks' /\ RefreshesAlone'
  BY <1>2 DEF Inv, ModeOwnsTheBanks, RefreshesAlone, BusyBank, ServedQueue, banks
<1>10. Phases'
  BY <1>2 DEF Inv, Phases, BusyBank, banks
<1> QED BY <1>5, <1>6, <1>7, <1>8, <1>9, <1>10 DEF Inv

LEMMA PickUpKeeps ==
  ASSUME Inv, NEW r \in returned, PickUp(r)
  PROVE  Inv'
<1>1. /\ UNCHANGED <<queues, banks, write_mode, warmup, stage, written>>
      /\ returned' = returned \ {r}
  BY DEF PickUp
<1>2. TypeOK' /\ Once'
  BY <1>1 DEF Inv, TypeOK, Once, Occupied, queues, banks
<1>3. Slots'
  BY <1>1 DEF Inv, Slots, Apart, CheckedFirst, Scheduled, Occupied, queues
<1>4. Linked'
  BY <1>1, LinksKept DEF SameScheduled, SameBusy, queues, banks
<1>5. ModeOwnsTheBanks' /\ RefreshesAlone'
  BY <1>1 DEF Inv, ModeOwnsTheBanks, RefreshesAlone, BusyBank, ServedQueue, banks
<1>6. Phases'
  BY <1>1 DEF Inv, Phases, Unchecked, Occupied, BusyBank, queues, banks
<1> QED BY <1>2, <1>3, <1>4, <1>5, <1>6 DEF Inv

\* A bank becomes ready, or is no longer.
LEMMA ReadyChanges ==
  ASSUME TypeOK, NEW b \in Bank, NEW v \in BOOLEAN, bank_request' = [bank_request EXCEPT ![b].ready = v]
  PROVE  /\ bank_request' \in [Bank -> BankRequest]
         /\ \A c \in Bank : /\ bank_request'[c].valid = bank_request[c].valid
                            /\ bank_request'[c].pkt = bank_request[c].pkt
                            /\ bank_request'[c].under_refresh = bank_request[c].under_refresh
                            /\ bank_request'[c].need_refresh = bank_request[c].need_refresh
<1>1. bank_request \in [Bank -> BankRequest]
  BY DEF TypeOK
<1>2. PICK x : x = [bank_request[b] EXCEPT !.ready = v]
  OBVIOUS
<1>3. /\ x \in BankRequest /\ x.valid = bank_request[b].valid /\ x.pkt = bank_request[b].pkt
      /\ x.under_refresh = bank_request[b].under_refresh /\ x.need_refresh = bank_request[b].need_refresh
  <2>1. bank_request[b] \in BankRequest
    BY <1>1
  <2> QED BY <1>2, <2>1 DEF BankRequest
<1>4. bank_request' = [bank_request EXCEPT ![b] = x]
  BY <1>2
<1> QED BY <1>1, <1>3, <1>4

LEMMA BankReadyKeeps ==
  ASSUME Inv, NEW b \in Bank, BankReady(b)
  PROVE  Inv'
<1>1. /\ UNCHANGED <<queues, active_request, bus_free, write_mode, warmup, stage, answers>>
      /\ bank_request' = [bank_request EXCEPT ![b].ready = TRUE] /\ stage = "add"
  BY DEF BankReady
<1>2. /\ bank_request' \in [Bank -> BankRequest]
      /\ \A c \in Bank : /\ bank_request'[c].valid = bank_request[c].valid
                         /\ bank_request'[c].pkt = bank_request[c].pkt
                         /\ bank_request'[c].under_refresh = bank_request[c].under_refresh
  BY <1>1, ReadyChanges DEF Inv
<1>3. TypeOK' /\ Once'
  BY <1>1, <1>2 DEF Inv, TypeOK, Once, Occupied, queues, answers
<1>4. Slots'
  BY <1>1 DEF Inv, Slots, Apart, CheckedFirst, Scheduled, Occupied, queues
<1>5. BusyBank' = BusyBank /\ Linked'
  BY <1>1, <1>2, LinksKept DEF SameScheduled, SameBusy, queues
<1>6. ModeOwnsTheBanks' /\ RefreshesAlone'
  BY <1>1, <1>2, <1>5 DEF Inv, ModeOwnsTheBanks, RefreshesAlone, BusyBank, ServedQueue
<1>7. Phases'
  BY <1>1, <1>5 DEF Inv, Phases, Unchecked, Occupied, queues
<1> QED BY <1>3, <1>4, <1>5, <1>6, <1>7 DEF Inv

-----------------------------------------------------------------------------
(* Requests that leave their slots *)

LEMMA ReadGone ==
  ASSUME TypeOK, NEW k \in Occupied(RQ), RQ' = [RQ EXCEPT ![k] = NoRequest]
  PROVE  /\ RQ' \in [RSlot -> Request \cup {NoRequest}]
         /\ Occupied(RQ') = Occupied(RQ) \ {k}
         /\ \A j \in Occupied(RQ') : RQ'[j] = RQ[j]
<1>1. RQ \in [RSlot -> Request \cup {NoRequest}] /\ k \in RSlot
  BY DEF TypeOK, Occupied
<1>2. /\ RQ' \in [RSlot -> Request \cup {NoRequest}]
      /\ RQ'[k] = NoRequest /\ \A j \in RSlot \ {k} : RQ'[j] = RQ[j]
  BY <1>1
<1> QED BY <1>1, <1>2 DEF Occupied

LEMMA WriteGone ==
  ASSUME TypeOK, NEW k \in Occupied(WQ), WQ' = [WQ EXCEPT ![k] = NoRequest]
  PROVE  /\ WQ' \in [WSlot -> Request \cup {NoRequest}]
         /\ Occupied(WQ') = Occupied(WQ) \ {k}
         /\ \A j \in Occupied(WQ') : WQ'[j] = WQ[j]
<1>1. WQ \in [WSlot -> Request \cup {NoRequest}] /\ k \in WSlot
  BY DEF TypeOK, Occupied
<1>2. /\ WQ' \in [WSlot -> Request \cup {NoRequest}]
      /\ WQ'[k] = NoRequest /\ \A j \in WSlot \ {k} : WQ'[j] = WQ[j]
  BY <1>1
<1> QED BY <1>1, <1>2 DEF Occupied

Fewer(q, r) == Occupied(r) \subseteq Occupied(q) /\ \A j \in Occupied(r) : r[j] = q[j]

LEMMA FewerKeepSlots ==
  ASSUME Slots, Fewer(RQ, RQ'), Fewer(WQ, WQ')
  PROVE  Slots'
BY DEF Slots, Apart, CheckedFirst, Scheduled, Fewer

LEMMA ResponsesAre ==
  ASSUME NEW p \in Request, NEW r \in ResponsesTo(p)
  PROVE  r \in Response /\ r.instr_depend_on_me = p.instr_depend_on_me /\ r.address = p.address
BY DEF ResponsesTo, Response, Request

LEMMA ReadAnswered ==
  ASSUME TypeOK, Once, NEW k \in Occupied(RQ),
         Occupied(RQ') = Occupied(RQ) \ {k}, \A j \in Occupied(RQ') : RQ'[j] = RQ[j],
         returned' = returned \cup ResponsesTo(RQ[k])
  PROVE  returned' \subseteq Response /\ Once'
<1>1. RQ[k] \in Request
  BY DEF TypeOK, Occupied
<1>2. \A r \in ResponsesTo(RQ[k]) :
        r \in Response /\ r.instr_depend_on_me = RQ[k].instr_depend_on_me /\ r.address = RQ[k].address
  BY <1>1, ResponsesAre
<1>3. \A r, s \in ResponsesTo(RQ[k]) : r = s
  BY DEF ResponsesTo
<1>4. returned' \subseteq Response
  BY <1>2 DEF TypeOK
<1>5. ASSUME NEW i \in Instr, NEW r \in returned', NEW s \in returned',
             i \in r.instr_depend_on_me, i \in s.instr_depend_on_me
      PROVE  r = s
  BY <1>2, <1>3, <1>5 DEF Once
<1>6. ASSUME NEW i \in Instr, NEW j \in Occupied(RQ'), NEW r \in returned',
             i \in RQ'[j].instr_depend_on_me, i \in r.instr_depend_on_me
      PROVE  FALSE
  BY <1>2, <1>6 DEF Once
<1>7. \A i \in Instr : \A j, l \in Occupied(RQ') :
        i \in RQ'[j].instr_depend_on_me /\ i \in RQ'[l].instr_depend_on_me => j = l
  BY DEF Once
<1> QED BY <1>4, <1>5, <1>6, <1>7 DEF Once

-----------------------------------------------------------------------------
(* The warmup *)

LEMMA NothingIsScheduled ==
  ASSUME Inv, BusyBank = {}
  PROVE  Scheduled(RQ) = {} /\ Scheduled(WQ) = {}
BY DEF Inv, Linked, ScheduledAreServed

LEMMA FlushReadKeeps ==
  ASSUME Inv, NEW k \in RSlot, FlushRead(k)
  PROVE  Inv'
<1>1. /\ UNCHANGED <<WQ, banks, write_mode, warmup, stage, written>>
      /\ k \in Occupied(RQ) /\ stage = "warmup" /\ warmup /\ BusyBank = {}
      /\ RQ' = [RQ EXCEPT ![k] = NoRequest] /\ returned' = returned \cup ResponsesTo(RQ[k])
  BY DEF FlushRead, Inv, Phases
<1>2. /\ RQ' \in [RSlot -> Request \cup {NoRequest}]
      /\ Occupied(RQ') = Occupied(RQ) \ {k}
      /\ \A j \in Occupied(RQ') : RQ'[j] = RQ[j]
  BY <1>1, ReadGone DEF Inv
<1>3. returned' \subseteq Response /\ Once'
  BY <1>1, <1>2, ReadAnswered DEF Inv
<1>4. TypeOK'
  BY <1>1, <1>2, <1>3 DEF Inv, TypeOK, banks
<1>5. Slots'
  BY <1>1, <1>2, FewerKeepSlots DEF Inv, Fewer
<1>6. BusyBank' = BusyBank /\ Linked'
  <2>1. SameScheduled(RQ, RQ') /\ SameScheduled(WQ, WQ')
    BY <1>1, <1>2, NothingIsScheduled DEF SameScheduled, Scheduled
  <2> QED BY <1>1, <2>1, LinksKept DEF SameBusy, banks
<1>7. ModeOwnsTheBanks' /\ RefreshesAlone' /\ Phases'
  BY <1>1, <1>6 DEF ModeOwnsTheBanks, RefreshesAlone, Phases
<1> QED BY <1>3, <1>4, <1>5, <1>6, <1>7 DEF Inv

LEMMA FlushWriteKeeps ==
  ASSUME Inv, NEW k \in WSlot, FlushWrite(k)
  PROVE  Inv'
<1>1. /\ UNCHANGED <<RQ, banks, write_mode, warmup, stage, returned>>
      /\ k \in Occupied(WQ) /\ stage = "warmup" /\ warmup /\ BusyBank = {}
      /\ WQ' = [WQ EXCEPT ![k] = NoRequest] /\ written' = {WQ[k].address}
  BY DEF FlushWrite, Inv, Phases
<1>2. /\ WQ' \in [WSlot -> Request \cup {NoRequest}]
      /\ Occupied(WQ') = Occupied(WQ) \ {k}
      /\ \A j \in Occupied(WQ') : WQ'[j] = WQ[j]
  BY <1>1, WriteGone DEF Inv
<1>3. TypeOK' /\ Once'
  <2>1. written' \subseteq Block
    BY <1>1 DEF Inv, TypeOK, Occupied, Request
  <2> QED BY <1>1, <1>2, <2>1 DEF Inv, TypeOK, Once, Occupied, banks
<1>4. Slots'
  BY <1>1, <1>2, FewerKeepSlots DEF Inv, Fewer
<1>5. BusyBank' = BusyBank /\ Linked'
  <2>1. SameScheduled(RQ, RQ') /\ SameScheduled(WQ, WQ')
    BY <1>1, <1>2, NothingIsScheduled DEF SameScheduled, Scheduled
  <2> QED BY <1>1, <2>1, LinksKept DEF SameBusy, banks
<1>6. ModeOwnsTheBanks' /\ RefreshesAlone' /\ Phases'
  BY <1>1, <1>5 DEF ModeOwnsTheBanks, RefreshesAlone, Phases
<1> QED BY <1>3, <1>4, <1>5, <1>6 DEF Inv

-----------------------------------------------------------------------------
(* The collision checks *)

\* A check concerns a request that is not scheduled yet.
LEMMA UncheckedIsUnscheduled ==
  ASSUME Slots
  PROVE  /\ \A k \in Unchecked(RQ) : k \notin Scheduled(RQ)
         /\ \A k \in Unchecked(WQ) : k \notin Scheduled(WQ)
BY DEF Slots, CheckedFirst, Unchecked

\* A check leaves the banks alone, and the later parts of the cycle are yet to come.
LEMMA ChecksLeaveTheRest ==
  ASSUME Inv, UNCHANGED <<banks, write_mode, warmup, stage>>, stage \in {"check_write", "check_read"},
         SameScheduled(RQ, RQ'), SameScheduled(WQ, WQ'),
         Occupied(RQ') \subseteq Occupied(RQ), Occupied(WQ') \subseteq Occupied(WQ),
         stage = "check_read" => UNCHANGED WQ
  PROVE  Linked' /\ ModeOwnsTheBanks' /\ RefreshesAlone' /\ Phases'
<1>1. BusyBank' = BusyBank /\ Linked'
  BY LinksKept DEF SameBusy, banks
<1>2. ModeOwnsTheBanks' /\ RefreshesAlone'
  BY <1>1 DEF Inv, ModeOwnsTheBanks, RefreshesAlone, ServedQueue, banks
<1>3. Phases'
  BY <1>1 DEF Inv, Phases, Unchecked, Occupied, banks
<1> QED BY <1>1, <1>2, <1>3

LEMMA CheckWriteKeeps ==
  ASSUME Inv, CheckWrite
  PROVE  Inv'
<1>1. /\ UNCHANGED <<RQ, banks, write_mode, warmup, stage, answers>>
      /\ stage = "check_write"
  BY DEF CheckWrite
<1>2. PICK k \in WSlot :
        /\ k \in Unchecked(WQ) /\ k \in Occupied(WQ) /\ k \notin Scheduled(WQ)
        /\ WQ' = IF Colliding(WQ, k, WQ[k].address) # {}
                   THEN [WQ EXCEPT ![k] = NoRequest]
                   ELSE Checked(WQ, k)
  BY UncheckedIsUnscheduled DEF CheckWrite, FirstUnchecked, Unchecked, Inv
<1>3. SUFFICES /\ WQ' \in [WSlot -> Request \cup {NoRequest}]
               /\ Slots' /\ SameScheduled(WQ, WQ')
               /\ Occupied(WQ') \subseteq Occupied(WQ)
  <2>1. TypeOK'
    BY <1>1, <1>3 DEF Inv, TypeOK, banks, answers
  <2>2. Once'
    BY <1>1 DEF Inv, Once, Occupied, answers
  <2>3. SameScheduled(RQ, RQ')
    BY <1>1 DEF SameScheduled
  <2>4. Linked' /\ ModeOwnsTheBanks' /\ RefreshesAlone' /\ Phases'
    BY <1>1, <1>3, <2>3, ChecksLeaveTheRest
  <2> QED BY <1>3, <2>1, <2>2, <2>4 DEF Inv
<1>4. CASE Colliding(WQ, k, WQ[k].address) # {}
  <2>1. /\ WQ' \in [WSlot -> Request \cup {NoRequest}]
        /\ Occupied(WQ') = Occupied(WQ) \ {k}
        /\ \A j \in Occupied(WQ') : WQ'[j] = WQ[j]
    BY <1>2, <1>4, WriteGone DEF Inv
  <2>2. Slots'
    BY <1>1, <2>1, FewerKeepSlots DEF Inv, Fewer
  <2> QED BY <1>2, <2>1, <2>2 DEF SameScheduled, Scheduled
<1>5. CASE Colliding(WQ, k, WQ[k].address) = {}
  <2>1. /\ WQ \in [WSlot -> Request \cup {NoRequest}]
        /\ WQ[k] \in Request /\ WQ[k] # NoRequest
    BY <1>2 DEF Inv, TypeOK, Occupied
  <2>2. /\ WQ' \in [WSlot -> Request \cup {NoRequest}]
        /\ WQ'[k] \in Request /\ WQ'[k] # NoRequest
        /\ WQ'[k].address = WQ[k].address /\ WQ'[k].scheduled = WQ[k].scheduled
        /\ WQ'[k].instr_depend_on_me = WQ[k].instr_depend_on_me
        /\ \A j \in WSlot \ {k} : WQ'[j] = WQ[j]
    <3>1. [WQ[k] EXCEPT !.forward_checked = TRUE] \in Request
      BY <2>1 DEF Request
    <3>2. WQ' = [WQ EXCEPT ![k] = [WQ[k] EXCEPT !.forward_checked = TRUE]]
      BY <1>2, <1>5 DEF Checked
    <3>3. WQ'[k] = [WQ[k] EXCEPT !.forward_checked = TRUE] /\ \A j \in WSlot \ {k} : WQ'[j] = WQ[j]
      BY <2>1, <3>2
    <3>4. WQ' \in [WSlot -> Request \cup {NoRequest}]
      BY <2>1, <3>1, <3>2
    <3> QED BY <2>1, <3>1, <3>3, <3>4 DEF Request
  <2>3. Occupied(WQ') = Occupied(WQ)
    BY <1>2, <2>1, <2>2 DEF Occupied
  <2>4. \A j \in Occupied(WQ) : j # k => WQ[j].address # WQ[k].address
    BY <1>5 DEF Colliding
  <2>5. SameScheduled(WQ, WQ')
    BY <2>1, <2>2, <2>3 DEF SameScheduled, Scheduled, Occupied
  <2>6. Slots'
    <3>1. \A j \in Occupied(WQ') : j # k => WQ'[j] = WQ[j]
      BY <2>1, <2>2, <2>3 DEF Occupied
    <3>2. Apart(WQ')
      BY <1>2, <2>2, <2>3, <2>4, <3>1 DEF Apart, Inv, Slots
    <3>3. CheckedFirst(WQ')
      BY <1>2, <2>3, <2>5, <3>1 DEF CheckedFirst, SameScheduled, Scheduled, Inv, Slots
    <3>4. \A j \in Occupied(WQ') : WQ'[j].instr_depend_on_me = {}
      BY <1>2, <2>2, <2>3, <3>1 DEF Inv, Slots
    <3>5. Apart(RQ') /\ CheckedFirst(RQ')
      BY <1>1 DEF Inv, Slots
    <3> QED BY <3>2, <3>3, <3>4, <3>5 DEF Slots
  <2> QED BY <2>2, <2>3, <2>5, <2>6
<1> QED BY <1>4, <1>5

\* The read of slot k has merged into slot j: j has the waiters of both.
LEMMA Merged ==
  ASSUME TypeOK, NEW k \in Occupied(RQ), NEW j \in Occupied(RQ), j # k,
         RQ' = [RQ EXCEPT ![j].instr_depend_on_me = @ \cup RQ[k].instr_depend_on_me, ![k] = NoRequest]
  PROVE  /\ RQ' \in [RSlot -> Request \cup {NoRequest}]
         /\ Occupied(RQ') = Occupied(RQ) \ {k}
         /\ \A l \in Occupied(RQ') :
              /\ RQ'[l].address = RQ[l].address /\ RQ'[l].scheduled = RQ[l].scheduled
              /\ RQ'[l].forward_checked = RQ[l].forward_checked
              /\ l # j => RQ'[l] = RQ[l]
         /\ RQ'[j].instr_depend_on_me = RQ[j].instr_depend_on_me \cup RQ[k].instr_depend_on_me
<1> DEFINE both == [RQ[j] EXCEPT !.instr_depend_on_me = @ \cup RQ[k].instr_depend_on_me]
<1>1. /\ RQ \in [RSlot -> Request \cup {NoRequest}] /\ k \in RSlot /\ j \in RSlot
      /\ RQ[k] \in Request /\ RQ[j] \in Request
  BY DEF TypeOK, Occupied
<1>2. /\ both \in Request /\ both.address = RQ[j].address /\ both.scheduled = RQ[j].scheduled
      /\ both.forward_checked = RQ[j].forward_checked
      /\ both.instr_depend_on_me = RQ[j].instr_depend_on_me \cup RQ[k].instr_depend_on_me
  BY <1>1 DEF Request
<1>3. both # NoRequest
  BY <1>2 DEF Request
<1>4. RQ' = [RQ EXCEPT ![j] = both, ![k] = NoRequest]
  OBVIOUS
<1> HIDE DEF both
<1>5. /\ RQ' \in [RSlot -> Request \cup {NoRequest}]
      /\ RQ'[j] = both /\ RQ'[k] = NoRequest /\ \A l \in RSlot \ {j, k} : RQ'[l] = RQ[l]
  BY <1>1, <1>2, <1>4
<1>6. Occupied(RQ') = Occupied(RQ) \ {k}
  BY <1>1, <1>3, <1>5 DEF Occupied
<1> QED BY <1>1, <1>2, <1>5, <1>6 DEF Occupied

LEMMA CheckReadKeeps ==
  ASSUME Inv, CheckRead
  PROVE  Inv'
<1>1. /\ UNCHANGED <<WQ, banks, write_mode, warmup, stage, written>>
      /\ stage = "check_read"
  BY DEF CheckRead
<1>2. PICK k \in RSlot :
        /\ k \in Unchecked(RQ) /\ k \in Occupied(RQ) /\ k \notin Scheduled(RQ)
        /\ Forward(k) \/ Merge(k) \/ Keep(k)
  BY UncheckedIsUnscheduled DEF CheckRead, FirstUnchecked, Unchecked, Inv
<1>3. SUFFICES /\ RQ' \in [RSlot -> Request \cup {NoRequest}] /\ returned' \subseteq Response
               /\ Once' /\ Apart(RQ') /\ CheckedFirst(RQ') /\ SameScheduled(RQ, RQ')
               /\ Occupied(RQ') \subseteq Occupied(RQ)
  <2>1. TypeOK'
    BY <1>1, <1>3 DEF Inv, TypeOK, banks
  <2>2. Slots'
    BY <1>1, <1>3 DEF Inv, Slots, Apart, CheckedFirst, Scheduled, Occupied
  <2>3. SameScheduled(WQ, WQ')
    BY <1>1 DEF SameScheduled
  <2>4. Linked' /\ ModeOwnsTheBanks' /\ RefreshesAlone' /\ Phases'
    BY <1>1, <1>3, <2>3, ChecksLeaveTheRest
  <2> QED BY <1>3, <2>1, <2>2, <2>4 DEF Inv
<1>4. CASE Forward(k)
  <2>1. /\ RQ' \in [RSlot -> Request \cup {NoRequest}]
        /\ Occupied(RQ') = Occupied(RQ) \ {k}
        /\ \A j \in Occupied(RQ') : RQ'[j] = RQ[j]
    BY <1>2, <1>4, ReadGone DEF Inv, Forward
  <2>2. returned' \subseteq Response /\ Once'
    BY <1>2, <1>4, <2>1, ReadAnswered DEF Inv, Forward
  <2>3. Apart(RQ') /\ CheckedFirst(RQ') /\ SameScheduled(RQ, RQ')
    BY <1>2, <2>1 DEF Inv, Slots, Apart, CheckedFirst, SameScheduled, Scheduled
  <2> QED BY <2>1, <2>2, <2>3
<1>5. CASE Merge(k)
  <2>1. PICK j \in Occupied(RQ) :
          /\ j # k
          /\ RQ' = [RQ EXCEPT ![j].instr_depend_on_me = @ \cup RQ[k].instr_depend_on_me, ![k] = NoRequest]
    BY <1>5 DEF Merge, MergesInto, Colliding
  <2>2. returned' = returned
    BY <1>5 DEF Merge
  <2>3. /\ RQ' \in [RSlot -> Request \cup {NoRequest}]
        /\ Occupied(RQ') = Occupied(RQ) \ {k}
        /\ \A l \in Occupied(RQ') :
             /\ RQ'[l].address = RQ[l].address /\ RQ'[l].scheduled = RQ[l].scheduled
             /\ RQ'[l].forward_checked = RQ[l].forward_checked
             /\ l # j => RQ'[l] = RQ[l]
        /\ RQ'[j].instr_depend_on_me = RQ[j].instr_depend_on_me \cup RQ[k].instr_depend_on_me
    BY <1>2, <2>1, Merged DEF Inv
  <2>4. Once'
    <3>1. ASSUME NEW i \in Instr, NEW l \in Occupied(RQ'), i \in RQ'[l].instr_depend_on_me
          PROVE  i \in RQ[l].instr_depend_on_me \/ (l = j /\ i \in RQ[k].instr_depend_on_me)
      BY <2>3, <3>1
    <3>2. \A i \in Instr : \A l, m \in Occupied(RQ') :
            i \in RQ'[l].instr_depend_on_me /\ i \in RQ'[m].instr_depend_on_me => l = m
      BY <1>2, <2>3, <3>1 DEF Inv, Once
    <3>3. \A i \in Instr : \A l \in Occupied(RQ'), r \in returned :
            ~(i \in RQ'[l].instr_depend_on_me /\ i \in r.instr_depend_on_me)
      BY <1>2, <2>3, <3>1 DEF Inv, Once
    <3> QED BY <2>2, <3>2, <3>3 DEF Inv, Once
  <2>5. Apart(RQ') /\ CheckedFirst(RQ') /\ SameScheduled(RQ, RQ')
    BY <1>2, <2>3 DEF Inv, Slots, Apart, CheckedFirst, SameScheduled, Scheduled
  <2> QED BY <2>2, <2>3, <2>4, <2>5 DEF Inv, TypeOK
<1>6. CASE Keep(k)
  <2>1. /\ RQ \in [RSlot -> Request \cup {NoRequest}]
        /\ RQ[k] \in Request /\ RQ[k] # NoRequest /\ returned' = returned
    BY <1>2, <1>6 DEF Inv, TypeOK, Occupied, Keep
  <2>2. /\ RQ' \in [RSlot -> Request \cup {NoRequest}]
        /\ RQ'[k] \in Request /\ RQ'[k] # NoRequest
        /\ RQ'[k].address = RQ[k].address /\ RQ'[k].scheduled = RQ[k].scheduled
        /\ RQ'[k].instr_depend_on_me = RQ[k].instr_depend_on_me
        /\ \A j \in RSlot \ {k} : RQ'[j] = RQ[j]
    <3>1. [RQ[k] EXCEPT !.forward_checked = TRUE] \in Request
      BY <2>1 DEF Request
    <3>2. RQ' = [RQ EXCEPT ![k] = [RQ[k] EXCEPT !.forward_checked = TRUE]]
      BY <1>6 DEF Checked, Keep
    <3>3. RQ'[k] = [RQ[k] EXCEPT !.forward_checked = TRUE] /\ \A j \in RSlot \ {k} : RQ'[j] = RQ[j]
      BY <2>1, <3>2
    <3>4. RQ' \in [RSlot -> Request \cup {NoRequest}]
      BY <2>1, <3>1, <3>2
    <3> QED BY <2>1, <3>1, <3>3, <3>4 DEF Request
  <2>3. Occupied(RQ') = Occupied(RQ)
    BY <1>2, <2>1, <2>2 DEF Occupied
  <2>4. \A j \in Occupied(RQ) : j # k => RQ[j].address # RQ[k].address
    BY <1>6 DEF Colliding, Keep
  <2>5. \A j \in Occupied(RQ') : j # k => RQ'[j] = RQ[j]
    BY <2>1, <2>2, <2>3 DEF Occupied
  <2>6. Once'
    <3>1. \A j \in Occupied(RQ') : RQ'[j].instr_depend_on_me = RQ[j].instr_depend_on_me
      BY <2>2, <2>5
    <3> QED BY <2>1, <2>3, <3>1 DEF Inv, Once
  <2>7. SameScheduled(RQ, RQ')
    BY <2>2, <2>3, <2>5 DEF SameScheduled, Scheduled
  <2>8. Apart(RQ')
    BY <1>2, <2>2, <2>3, <2>4, <2>5 DEF Apart, Inv, Slots
  <2>9. CheckedFirst(RQ')
    BY <1>2, <2>3, <2>5, <2>7 DEF CheckedFirst, SameScheduled, Scheduled, Inv, Slots
  <2> QED BY <2>1, <2>2, <2>3, <2>6, <2>7, <2>8, <2>9 DEF Inv, TypeOK
<1> QED BY <1>2, <1>4, <1>5, <1>6

-----------------------------------------------------------------------------
(* Banks that are released *)

\* What stays scheduled when the banks of R are released.
StillScheduled(q, r, R) ==
  /\ Scheduled(r) = {k \in Scheduled(q) : BankOf[q[k].address] \notin R}
  /\ \A k \in Scheduled(r) : r[k].address = q[k].address

LEMMA LinksReleased ==
  ASSUME Inv, NEW R \in SUBSET Bank,
         \A b \in R : ~bank_request'[b].valid,
         \A b \in Bank \ R : bank_request'[b] = bank_request[b],
         StillScheduled(RQ, RQ', R), StillScheduled(WQ, WQ', R),
         active_request' = NoBank \/ active_request' \in BusyBank \ R
  PROVE  BusyBank' = BusyBank \ R /\ Linked'
<1> USE DEF Inv
<1>1. BusyBank' = BusyBank \ R
  BY DEF BusyBank
<1>2. ASSUME NEW b \in Bank \ R, NEW k
      PROVE  /\ Serves(b, "RQ", RQ, k) => Serves(b, "RQ", RQ, k)'
             /\ Serves(b, "WQ", WQ, k) => Serves(b, "WQ", WQ, k)'
  <2>1. bank_request'[b].pkt = bank_request[b].pkt
    OBVIOUS
  <2>2. k \in Scheduled(RQ) /\ BankOf[RQ[k].address] = b => k \in Scheduled(RQ') /\ RQ'[k].address = RQ[k].address
    BY DEF StillScheduled
  <2>3. k \in Scheduled(WQ) /\ BankOf[WQ[k].address] = b => k \in Scheduled(WQ') /\ WQ'[k].address = WQ[k].address
    BY DEF StillScheduled
  <2> QED BY <2>1, <2>2, <2>3 DEF Serves
<1>3. BusyBanksServe'
  <2>1. \A b \in BusyBank \ R : b \in Bank \ R
    BY DEF BusyBank
  <2> QED BY <1>1, <1>2, <2>1 DEF Linked, BusyBanksServe
<1>4. ScheduledAreServed(RQ, "RQ")'
  <2> SUFFICES ASSUME NEW k \in Scheduled(RQ')
               PROVE  BankOf[RQ'[k].address] \in BusyBank' /\ Serves(BankOf[RQ[k].address], "RQ", RQ, k)'
    BY DEF ScheduledAreServed
  <2>1. k \in Scheduled(RQ) /\ RQ'[k].address = RQ[k].address /\ BankOf[RQ[k].address] \notin R
    BY DEF StillScheduled
  <2>2. BankOf[RQ[k].address] \in BusyBank /\ Serves(BankOf[RQ[k].address], "RQ", RQ, k)
    BY <2>1 DEF Linked, ScheduledAreServed
  <2> QED BY <1>1, <1>2, <2>1, <2>2 DEF BusyBank
<1>5. ScheduledAreServed(WQ, "WQ")'
  <2> SUFFICES ASSUME NEW k \in Scheduled(WQ')
               PROVE  BankOf[WQ'[k].address] \in BusyBank' /\ Serves(BankOf[WQ[k].address], "WQ", WQ, k)'
    BY DEF ScheduledAreServed
  <2>1. k \in Scheduled(WQ) /\ WQ'[k].address = WQ[k].address /\ BankOf[WQ[k].address] \notin R
    BY DEF StillScheduled
  <2>2. BankOf[WQ[k].address] \in BusyBank /\ Serves(BankOf[WQ[k].address], "WQ", WQ, k)
    BY <2>1 DEF Linked, ScheduledAreServed
  <2> QED BY <1>1, <1>2, <2>1, <2>2 DEF BusyBank
<1>6. active_request' # NoBank => active_request' \in BusyBank'
  BY <1>1
<1> QED BY <1>1, <1>3, <1>4, <1>5, <1>6 DEF Linked

\* A bank points at one slot, and the slot that points at the bank is that one.
LEMMA OneSlotPerBank ==
  ASSUME TypeOK, Linked, NEW b \in BusyBank
  PROVE  /\ \A k \in Scheduled(RQ) : BankOf[RQ[k].address] = b <=> bank_request[b].pkt = <<"RQ", k>>
         /\ \A k \in Scheduled(WQ) : BankOf[WQ[k].address] = b <=> bank_request[b].pkt = <<"WQ", k>>
         /\ \A k \in RSlot : bank_request[b].pkt = <<"RQ", k>> => k \in Scheduled(RQ)
         /\ \A k \in WSlot : bank_request[b].pkt = <<"WQ", k>> => k \in Scheduled(WQ)
<1>1. /\ \A k \in Scheduled(RQ) : BankOf[RQ[k].address] = b => bank_request[b].pkt = <<"RQ", k>>
      /\ \A k \in Scheduled(WQ) : BankOf[WQ[k].address] = b => bank_request[b].pkt = <<"WQ", k>>
  BY DEF Linked, ScheduledAreServed, Serves
<1>2. CASE \E k \in RSlot : Serves(b, "RQ", RQ, k)
  BY <1>1, <1>2 DEF Serves
<1>3. CASE \E k \in WSlot : Serves(b, "WQ", WQ, k)
  BY <1>1, <1>3 DEF Serves
<1> QED BY <1>2, <1>3 DEF Linked, BusyBanksServe

LEMMA ReleasedBank ==
  ASSUME NEW r \in BankRequest
  PROVE  /\ Released(r) \in BankRequest /\ ~Released(r).valid
         /\ Released(r).under_refresh = r.under_refresh /\ Released(r).need_refresh = r.need_refresh
BY DEF Released, BankRequest

LEMMA FinishRequestKeeps ==
  ASSUME Inv, FinishRequest
  PROVE  Inv'
<1> DEFINE a == active_request
           pkt == bank_request[a].pkt
<1>1. /\ UNCHANGED <<bus_free, write_mode, warmup>>
      /\ stage = "finish" /\ stage' = "swap" /\ active_request' = NoBank
      /\ a \in BusyBank /\ a \in Bank
      /\ bank_request' = [bank_request EXCEPT ![a] = Released(bank_request[a])]
  BY DEF FinishRequest, BusDone, After, Inv, Linked, BusyBank
<1>2. /\ bank_request' \in [Bank -> BankRequest] /\ ~bank_request'[a].valid
      /\ bank_request'[a].under_refresh = bank_request[a].under_refresh
      /\ \A b \in Bank \ {a} : bank_request'[b] = bank_request[b]
  <2>1. bank_request \in [Bank -> BankRequest] /\ bank_request[a] \in BankRequest
    BY <1>1 DEF Inv, TypeOK
  <2>2. /\ Released(bank_request[a]) \in BankRequest /\ ~Released(bank_request[a]).valid
        /\ Released(bank_request[a]).under_refresh = bank_request[a].under_refresh
    BY <2>1, ReleasedBank
  <2> QED BY <1>1, <2>1, <2>2
<1>3. SUFFICES /\ RQ' \in [RSlot -> Request \cup {NoRequest}] /\ WQ' \in [WSlot -> Request \cup {NoRequest}]
               /\ returned' \subseteq Response /\ written' \subseteq Block
               /\ Fewer(RQ, RQ') /\ Fewer(WQ, WQ') /\ Once'
               /\ StillScheduled(RQ, RQ', {a}) /\ StillScheduled(WQ, WQ', {a})
  <2>1. TypeOK'
    BY <1>1, <1>2, <1>3 DEF Inv, TypeOK, Stage
  <2>2. Slots'
    BY <1>3, FewerKeepSlots DEF Inv
  <2>3. BusyBank' = BusyBank \ {a} /\ Linked'
    <3> HIDE DEF a
    <3>1. {a} \in SUBSET Bank /\ \A b \in {a} : ~bank_request'[b].valid
      BY <1>1, <1>2
    <3> QED BY <1>1, <1>2, <1>3, <3>1, LinksReleased
  <2>4. ModeOwnsTheBanks' /\ RefreshesAlone'
    BY <1>1, <1>2, <2>3 DEF Inv, ModeOwnsTheBanks, RefreshesAlone, BusyBank, ServedQueue
  <2>5. Phases'
    BY <1>1, <1>3, <2>3 DEF Inv, Phases, Unchecked, Fewer
  <2> QED BY <1>3, <2>1, <2>2, <2>3, <2>4, <2>5 DEF Inv
<1>4. /\ returned' = returned \cup ResponsesTo(PacketAt(pkt))
      /\ written' = IF pkt[1] = "WQ" THEN {PacketAt(pkt).address} ELSE written
      /\ RQ' = With(RQ, "RQ", pkt, NoRequest)
      /\ WQ' = With(WQ, "WQ", pkt, NoRequest)
  BY DEF FinishRequest
<1>5. /\ \A k \in Scheduled(RQ) : BankOf[RQ[k].address] = a <=> pkt = <<"RQ", k>>
      /\ \A k \in Scheduled(WQ) : BankOf[WQ[k].address] = a <=> pkt = <<"WQ", k>>
  BY <1>1, OneSlotPerBank DEF Inv
<1>6. ASSUME NEW k \in RSlot, Serves(a, "RQ", RQ, k)
      PROVE  /\ RQ' \in [RSlot -> Request \cup {NoRequest}] /\ WQ' \in [WSlot -> Request \cup {NoRequest}]
             /\ returned' \subseteq Response /\ written' \subseteq Block
             /\ Fewer(RQ, RQ') /\ Fewer(WQ, WQ') /\ Once'
             /\ StillScheduled(RQ, RQ', {a}) /\ StillScheduled(WQ, WQ', {a})
  <2>1. pkt = <<"RQ", k>> /\ k \in Scheduled(RQ) /\ k \in Occupied(RQ)
    BY <1>6 DEF Serves, Scheduled
  <2>2. /\ RQ' = [RQ EXCEPT ![k] = NoRequest] /\ WQ' = WQ
        /\ returned' = returned \cup ResponsesTo(RQ[k]) /\ written' = written
    BY <1>4, <2>1 DEF PacketAt, With
  <2>3. /\ RQ' \in [RSlot -> Request \cup {NoRequest}]
        /\ Occupied(RQ') = Occupied(RQ) \ {k}
        /\ \A j \in Occupied(RQ') : RQ'[j] = RQ[j]
    BY <2>1, <2>2, ReadGone DEF Inv
  <2>4. returned' \subseteq Response /\ Once'
    BY <2>1, <2>2, <2>3, ReadAnswered DEF Inv
  <2>5. StillScheduled(RQ, RQ', {a}) /\ StillScheduled(WQ, WQ', {a})
    <3>1. \A j \in Scheduled(RQ) : BankOf[RQ[j].address] = a <=> j = k
      BY <1>5, <2>1
    <3>2. \A j \in Scheduled(WQ) : BankOf[WQ[j].address] # a
      BY <1>5, <2>1
    <3> HIDE DEF a
    <3>3. StillScheduled(RQ, RQ', {a})
      BY <2>1, <2>3, <3>1 DEF StillScheduled, Scheduled
    <3> QED BY <2>2, <3>2, <3>3 DEF StillScheduled
  <2> QED BY <2>2, <2>3, <2>4, <2>5 DEF Fewer, Inv, TypeOK
<1>7. ASSUME NEW k \in WSlot, Serves(a, "WQ", WQ, k)
      PROVE  /\ RQ' \in [RSlot -> Request \cup {NoRequest}] /\ WQ' \in [WSlot -> Request \cup {NoRequest}]
             /\ returned' \subseteq Response /\ written' \subseteq Block
             /\ Fewer(RQ, RQ') /\ Fewer(WQ, WQ') /\ Once'
             /\ StillScheduled(RQ, RQ', {a}) /\ StillScheduled(WQ, WQ', {a})
  <2>1. pkt = <<"WQ", k>> /\ k \in Scheduled(WQ) /\ k \in Occupied(WQ)
    BY <1>7 DEF Serves, Scheduled
  <2>2. WQ[k] \in Request /\ WQ[k].instr_depend_on_me = {}
    BY <2>1 DEF Inv, TypeOK, Slots, Occupied
  <2>3. /\ WQ' = [WQ EXCEPT ![k] = NoRequest] /\ RQ' = RQ
        /\ returned' = returned /\ written' = {WQ[k].address}
    BY <1>4, <2>1, <2>2 DEF PacketAt, With, ResponsesTo
  <2>4. /\ WQ' \in [WSlot -> Request \cup {NoRequest}]
        /\ Occupied(WQ') = Occupied(WQ) \ {k}
        /\ \A j \in Occupied(WQ') : WQ'[j] = WQ[j]
    BY <2>1, <2>3, WriteGone DEF Inv
  <2>5. Once'
    BY <2>3 DEF Inv, Once, Occupied
  <2>6. StillScheduled(RQ, RQ', {a}) /\ StillScheduled(WQ, WQ', {a})
    <3>1. \A j \in Scheduled(WQ) : BankOf[WQ[j].address] = a <=> j = k
      BY <1>5, <2>1
    <3>2. \A j \in Scheduled(RQ) : BankOf[RQ[j].address] # a
      BY <1>5, <2>1
    <3> HIDE DEF a
    <3>3. StillScheduled(WQ, WQ', {a})
      BY <2>1, <2>4, <3>1 DEF StillScheduled, Scheduled
    <3> QED BY <2>3, <3>2, <3>3 DEF StillScheduled
  <2> QED BY <2>2, <2>3, <2>4, <2>5, <2>6 DEF Fewer, Inv, TypeOK, Request
<1> QED BY <1>1, <1>6, <1>7 DEF Inv, Linked, BusyBanksServe

\* Each slot keeps its request, whatever becomes of its flags.
SameContent(q, r) ==
  /\ Occupied(r) = Occupied(q)
  /\ \A k \in Occupied(q) : /\ r[k].instr_depend_on_me = q[k].instr_depend_on_me
                            /\ r[k].address = q[k].address

\* A request that is withdrawn.
Off(p) == [p EXCEPT !.scheduled = FALSE]

LEMMA OffProps ==
  ASSUME NEW p \in Request
  PROVE  /\ Off(p) \in Request /\ Off(p) # NoRequest /\ ~Off(p).scheduled /\ Off(p).address = p.address
         /\ Off(p).forward_checked = p.forward_checked /\ Off(p).instr_depend_on_me = p.instr_depend_on_me
<1>1. Off(p) \in Request
  BY DEF Off, Request
<1> QED BY <1>1 DEF Off, Request

LEMMA SwapWriteModeKeeps ==
  ASSUME Inv, SwapWriteMode
  PROVE  Inv' /\ SameContent(RQ, RQ') /\ SameContent(WQ, WQ')
<1> DEFINE W == Withdrawn
<1>1. /\ UNCHANGED <<active_request, warmup, answers>>
      /\ stage = "swap" /\ stage' = "refresh" /\ bus_free' = FALSE /\ write_mode' = ~write_mode
      /\ bank_request' = [b \in Bank |-> IF b \in W THEN Released(bank_request[b]) ELSE bank_request[b]]
      /\ RQ' = Unscheduled(RQ, "RQ") /\ WQ' = Unscheduled(WQ, "WQ")
  BY DEF SwapWriteMode, After
<1>2. W \subseteq BusyBank /\ W \subseteq Bank /\ W = BusyBank \ {active_request}
  BY DEF Withdrawn, BusyBank
<1>3. /\ bank_request' \in [Bank -> BankRequest]
      /\ \A b \in W : ~bank_request'[b].valid
      /\ \A b \in Bank \ W : bank_request'[b] = bank_request[b]
      /\ \A b \in Bank : bank_request'[b].under_refresh = bank_request[b].under_refresh
  <2>1. \A b \in Bank : bank_request[b] \in BankRequest
    BY DEF Inv, TypeOK
  <2>2. \A b \in Bank : /\ Released(bank_request[b]) \in BankRequest
                        /\ ~Released(bank_request[b]).valid
                        /\ Released(bank_request[b]).under_refresh = bank_request[b].under_refresh
    BY <2>1, ReleasedBank
  <2> HIDE DEF W
  <2> QED BY <1>1, <1>2, <2>1, <2>2
<1>4. /\ \A b \in W : \A k \in Scheduled(RQ) : BankOf[RQ[k].address] = b <=> bank_request[b].pkt = <<"RQ", k>>
      /\ \A b \in W : \A k \in Scheduled(WQ) : BankOf[WQ[k].address] = b <=> bank_request[b].pkt = <<"WQ", k>>
      /\ \A b \in W : \A k \in RSlot : bank_request[b].pkt = <<"RQ", k>> => k \in Scheduled(RQ)
      /\ \A b \in W : \A k \in WSlot : bank_request[b].pkt = <<"WQ", k>> => k \in Scheduled(WQ)
  BY <1>2, OneSlotPerBank DEF Inv
<1>5. \A p \in Request :
        /\ Off(p) \in Request /\ Off(p) # NoRequest /\ ~Off(p).scheduled /\ Off(p).address = p.address
        /\ Off(p).forward_checked = p.forward_checked /\ Off(p).instr_depend_on_me = p.instr_depend_on_me
  BY OffProps
<1>6. /\ RQ' \in [RSlot -> Request \cup {NoRequest}]
      /\ Occupied(RQ') = Occupied(RQ)
      /\ \A k \in Occupied(RQ) :
           RQ'[k] = IF k \in Scheduled(RQ) /\ BankOf[RQ[k].address] \in W
                      THEN Off(RQ[k]) ELSE RQ[k]
  <2>1. /\ RQ \in [RSlot -> Request \cup {NoRequest}]
        /\ \A k \in RSlot : k \in Occupied(RQ) <=> RQ[k] # NoRequest
        /\ DOMAIN RQ = RSlot
    BY DEF Inv, TypeOK, Occupied
  <2>2. ASSUME NEW k \in RSlot
        PROVE  (\E b \in W : bank_request[b].pkt = <<"RQ", k>>)
                 <=> (k \in Scheduled(RQ) /\ BankOf[RQ[k].address] \in W)
    <3> HIDE DEF W
    <3> QED BY <1>4
  <2>3. \A k \in RSlot :
          RQ'[k] = IF k \in Scheduled(RQ) /\ BankOf[RQ[k].address] \in W
                     THEN Off(RQ[k]) ELSE RQ[k]
    <3>1. RQ' = [k \in RSlot |-> IF \E b \in W : bank_request[b].pkt = <<"RQ", k>>
                                   THEN Off(RQ[k]) ELSE RQ[k]]
      BY <1>1, <2>1 DEF Unscheduled, Off
    <3> HIDE DEF W
    <3> QED BY <2>2, <3>1
  <2>4. \A k \in RSlot : k \in Scheduled(RQ) => k \in Occupied(RQ)
    BY DEF Scheduled
  <2>5. \A k \in RSlot : RQ'[k] \in Request \cup {NoRequest} /\ (RQ'[k] # NoRequest <=> RQ[k] # NoRequest)
    <3> HIDE DEF W
    <3> QED BY <1>5, <2>1, <2>3, <2>4
  <2>6. RQ' = [k \in RSlot |-> RQ'[k]]
    BY <1>1, <2>1 DEF Unscheduled
  <2>7. RQ' \in [RSlot -> Request \cup {NoRequest}]
    BY <2>5, <2>6
  <2>8. Occupied(RQ') = Occupied(RQ)
    BY <2>1, <2>5, <2>7 DEF Occupied
  <2> QED BY <2>3, <2>7, <2>8 DEF Occupied
<1>7. /\ WQ' \in [WSlot -> Request \cup {NoRequest}]
      /\ Occupied(WQ') = Occupied(WQ)
      /\ \A k \in Occupied(WQ) :
           WQ'[k] = IF k \in Scheduled(WQ) /\ BankOf[WQ[k].address] \in W
                      THEN Off(WQ[k]) ELSE WQ[k]
  <2>1. /\ WQ \in [WSlot -> Request \cup {NoRequest}]
        /\ \A k \in WSlot : k \in Occupied(WQ) <=> WQ[k] # NoRequest
        /\ DOMAIN WQ = WSlot
    BY DEF Inv, TypeOK, Occupied
  <2>2. ASSUME NEW k \in WSlot
        PROVE  (\E b \in W : bank_request[b].pkt = <<"WQ", k>>)
                 <=> (k \in Scheduled(WQ) /\ BankOf[WQ[k].address] \in W)
    <3> HIDE DEF W
    <3> QED BY <1>4
  <2>3. \A k \in WSlot :
          WQ'[k] = IF k \in Scheduled(WQ) /\ BankOf[WQ[k].address] \in W
                     THEN Off(WQ[k]) ELSE WQ[k]
    <3>1. WQ' = [k \in WSlot |-> IF \E b \in W : bank_request[b].pkt = <<"WQ", k>>
                                   THEN Off(WQ[k]) ELSE WQ[k]]
      BY <1>1, <2>1 DEF Unscheduled, Off
    <3> HIDE DEF W
    <3> QED BY <2>2, <3>1
  <2>4. \A k \in WSlot : k \in Scheduled(WQ) => k \in Occupied(WQ)
    BY DEF Scheduled
  <2>5. \A k \in WSlot : WQ'[k] \in Request \cup {NoRequest} /\ (WQ'[k] # NoRequest <=> WQ[k] # NoRequest)
    <3> HIDE DEF W
    <3> QED BY <1>5, <2>1, <2>3, <2>4
  <2>6. WQ' = [k \in WSlot |-> WQ'[k]]
    BY <1>1, <2>1 DEF Unscheduled
  <2>7. WQ' \in [WSlot -> Request \cup {NoRequest}]
    BY <2>5, <2>6
  <2>8. Occupied(WQ') = Occupied(WQ)
    BY <2>1, <2>5, <2>7 DEF Occupied
  <2> QED BY <2>3, <2>7, <2>8 DEF Occupied
<1> HIDE DEF W
<1>8. /\ \A k \in Occupied(RQ) :
           /\ RQ[k] \in Request /\ RQ'[k].address = RQ[k].address
           /\ RQ'[k].forward_checked = RQ[k].forward_checked
           /\ RQ'[k].instr_depend_on_me = RQ[k].instr_depend_on_me
           /\ RQ'[k].scheduled <=> RQ[k].scheduled /\ BankOf[RQ[k].address] \notin W
      /\ \A k \in Occupied(WQ) :
           /\ WQ[k] \in Request /\ WQ'[k].address = WQ[k].address
           /\ WQ'[k].forward_checked = WQ[k].forward_checked
           /\ WQ'[k].instr_depend_on_me = WQ[k].instr_depend_on_me
           /\ WQ'[k].scheduled <=> WQ[k].scheduled /\ BankOf[WQ[k].address] \notin W
  <2>1. /\ \A k \in Occupied(RQ) : RQ[k] \in Request
        /\ \A k \in Occupied(WQ) : WQ[k] \in Request
    BY DEF Inv, TypeOK, Occupied
  <2>2. ASSUME NEW k \in Occupied(RQ)
        PROVE  /\ RQ'[k].address = RQ[k].address
               /\ RQ'[k].forward_checked = RQ[k].forward_checked
               /\ RQ'[k].instr_depend_on_me = RQ[k].instr_depend_on_me
               /\ RQ'[k].scheduled <=> RQ[k].scheduled /\ BankOf[RQ[k].address] \notin W
    BY <1>5, <1>6, <2>1 DEF Scheduled
  <2>3. ASSUME NEW k \in Occupied(WQ)
        PROVE  /\ WQ'[k].address = WQ[k].address
               /\ WQ'[k].forward_checked = WQ[k].forward_checked
               /\ WQ'[k].instr_depend_on_me = WQ[k].instr_depend_on_me
               /\ WQ'[k].scheduled <=> WQ[k].scheduled /\ BankOf[WQ[k].address] \notin W
    BY <1>5, <1>7, <2>1 DEF Scheduled
  <2> QED BY <2>1, <2>2, <2>3
<1>9. TypeOK' /\ Once'
  <2>1. TypeOK'
    BY <1>1, <1>3, <1>6, <1>7 DEF Inv, TypeOK, Stage, answers
  <2> QED BY <1>1, <1>6, <1>8, <2>1 DEF Inv, Once, answers
<1>10. Slots'
  BY <1>6, <1>7, <1>8 DEF Inv, Slots, Apart, CheckedFirst, Scheduled
<1>11. BusyBank' = BusyBank \ W /\ Linked'
  <2>1. StillScheduled(RQ, RQ', W) /\ StillScheduled(WQ, WQ', W)
    BY <1>6, <1>7, <1>8 DEF StillScheduled, Scheduled
  <2>2. active_request' = NoBank \/ active_request' \in BusyBank \ W
    BY <1>1, <1>2 DEF Inv, Linked
  <2> QED BY <1>2, <1>3, <2>1, <2>2, LinksReleased
<1>12. ModeOwnsTheBanks' /\ RefreshesAlone'
  <2>1. BusyBank' \ {active_request'} = {}
    BY <1>1, <1>2, <1>11
  <2> QED BY <1>2, <1>3, <1>11, <2>1 DEF Inv, ModeOwnsTheBanks, RefreshesAlone, BusyBank
<1>13. Phases'
  <2>1. Unchecked(RQ') = {} /\ Unchecked(WQ') = {}
    BY <1>1, <1>6, <1>7, <1>8 DEF Inv, Phases, Unchecked
  <2> QED BY <1>1, <1>6, <1>7, <1>11, <2>1 DEF Inv, Phases
<1>14. SameContent(RQ, RQ') /\ SameContent(WQ, WQ')
  BY <1>6, <1>7, <1>8 DEF SameContent
<1> QED BY <1>9, <1>10, <1>11, <1>12, <1>13, <1>14 DEF Inv

-----------------------------------------------------------------------------
(* Refreshes, the data bus, and a new request for a bank *)

LEMMA RefreshedBank ==
  ASSUME NEW r \in BankRequest, NEW due \in BOOLEAN
  PROVE  /\ Refreshed(r, due) \in BankRequest
         /\ Refreshed(r, due).valid = r.valid /\ Refreshed(r, due).pkt = r.pkt
         /\ Refreshed(r, due).valid /\ ~r.under_refresh => ~Refreshed(r, due).under_refresh
         /\ Refreshed(r, due).valid \/ ~Refreshed(r, due).need_refresh
         /\ r.need_refresh => Refreshed(r, due).need_refresh \/ Refreshed(r, due).under_refresh
BY DEF Refreshed, BankRequest

LEMMA ScheduleRefreshKeeps ==
  ASSUME Inv, ScheduleRefresh
  PROVE  /\ Inv'
         /\ \A b \in Bank : bank_request[b].need_refresh =>
              bank_request'[b].need_refresh \/ bank_request'[b].under_refresh
<1>1. /\ UNCHANGED <<queues, active_request, bus_free, write_mode, warmup, answers>>
      /\ stage = "refresh" /\ stage' = "populate"
  BY DEF ScheduleRefresh, After
<1>2. PICK due \in BOOLEAN : bank_request' = [b \in Bank |-> Refreshed(bank_request[b], due)]
  BY DEF ScheduleRefresh
<1>3. \A b \in Bank :
        /\ bank_request'[b] \in BankRequest
        /\ bank_request'[b].valid = bank_request[b].valid /\ bank_request'[b].pkt = bank_request[b].pkt
        /\ bank_request[b].valid /\ ~bank_request[b].under_refresh => ~bank_request'[b].under_refresh
        /\ bank_request'[b].valid \/ ~bank_request'[b].need_refresh
        /\ bank_request[b].need_refresh => bank_request'[b].need_refresh \/ bank_request'[b].under_refresh
  <2>1. \A b \in Bank : bank_request[b] \in BankRequest /\ bank_request'[b] = Refreshed(bank_request[b], due)
    BY <1>2 DEF Inv, TypeOK
  <2>2. ASSUME NEW b \in Bank
        PROVE  /\ Refreshed(bank_request[b], due) \in BankRequest
               /\ Refreshed(bank_request[b], due).valid = bank_request[b].valid
               /\ Refreshed(bank_request[b], due).pkt = bank_request[b].pkt
               /\ Refreshed(bank_request[b], due).valid /\ ~bank_request[b].under_refresh
                    => ~Refreshed(bank_request[b], due).under_refresh
               /\ Refreshed(bank_request[b], due).valid \/ ~Refreshed(bank_request[b], due).need_refresh
               /\ bank_request[b].need_refresh =>
                    \/ Refreshed(bank_request[b], due).need_refresh
                    \/ Refreshed(bank_request[b], due).under_refresh
    BY <2>1, RefreshedBank
  <2> QED BY <2>1, <2>2
<1>4. bank_request' \in [Bank -> BankRequest]
  BY <1>2, <1>3
<1>5. TypeOK' /\ Once'
  BY <1>1, <1>4 DEF Inv, TypeOK, Once, Occupied, Stage, queues, answers
<1>6. Slots'
  BY <1>1 DEF Inv, Slots, Apart, CheckedFirst, Scheduled, Occupied, queues
<1>7. BusyBank' = BusyBank /\ Linked'
  BY <1>1, <1>3, LinksKept DEF SameScheduled, SameBusy, queues
<1>8. ModeOwnsTheBanks' /\ RefreshesAlone'
  <2>1. \A b \in BusyBank : b \in Bank /\ bank_request[b].valid
    BY DEF BusyBank
  <2> QED BY <1>1, <1>3, <1>7, <2>1 DEF Inv, ModeOwnsTheBanks, RefreshesAlone, ServedQueue
<1>9. Phases'
  BY <1>1, <1>3, <1>7 DEF Inv, Phases, Unchecked, Occupied, queues
<1> QED BY <1>3, <1>5, <1>6, <1>7, <1>8, <1>9 DEF Inv

LEMMA PopulateDbusKeeps ==
  ASSUME Inv, NEW b \in Bank, PopulateDbus(b)
  PROVE  Inv'
<1>1. /\ UNCHANGED <<queues, bus_free, write_mode, warmup, answers>>
      /\ stage = "populate" /\ stage' = "schedule"
      /\ active_request = NoBank /\ active_request' = b /\ b \in BusyBank
      /\ bank_request' = [bank_request EXCEPT ![b].ready = FALSE]
  BY DEF PopulateDbus, MayTakeBus, After, BusyBank
<1>2. /\ bank_request' \in [Bank -> BankRequest]
      /\ \A c \in Bank : /\ bank_request'[c].valid = bank_request[c].valid
                         /\ bank_request'[c].pkt = bank_request[c].pkt
                         /\ bank_request'[c].under_refresh = bank_request[c].under_refresh
                         /\ bank_request'[c].need_refresh = bank_request[c].need_refresh
  BY <1>1, ReadyChanges DEF Inv
<1>3. TypeOK' /\ Once'
  BY <1>1, <1>2 DEF Inv, TypeOK, Once, Occupied, Stage, queues, answers
<1>4. Slots'
  BY <1>1 DEF Inv, Slots, Apart, CheckedFirst, Scheduled, Occupied, queues
<1>5. BusyBank' = BusyBank /\ Linked'
  BY <1>1, <1>2, LinksKept DEF SameScheduled, SameBusy, queues
<1>6. ModeOwnsTheBanks' /\ RefreshesAlone'
  <2>1. \A c \in BusyBank : c \in Bank /\ c # NoBank
    BY DEF BusyBank
  <2> QED BY <1>1, <1>2, <1>5, <2>1 DEF Inv, ModeOwnsTheBanks, RefreshesAlone, ServedQueue
<1>7. Phases'
  BY <1>1, <1>2, <1>5 DEF Inv, Phases, Unchecked, Occupied, queues
<1> QED BY <1>3, <1>4, <1>5, <1>6, <1>7 DEF Inv

\* A request that is scheduled.
On(p) == [p EXCEPT !.scheduled = TRUE]

LEMMA OnProps ==
  ASSUME NEW p \in Request
  PROVE  /\ On(p) \in Request /\ On(p) # NoRequest /\ On(p).scheduled /\ On(p).address = p.address
         /\ On(p).forward_checked = p.forward_checked /\ On(p).instr_depend_on_me = p.instr_depend_on_me
<1>1. On(p) \in Request
  BY DEF On, Request
<1> QED BY <1>1 DEF On, Request

LEMMA ServiceReadKeeps ==
  ASSUME Inv, ~write_mode, NEW k, ServicePacket("RQ", k)
  PROVE  Inv' /\ SameContent(RQ, RQ') /\ SameContent(WQ, WQ')
<1> DEFINE c == BankOf[RQ[k].address]
<1>1. /\ UNCHANGED <<active_request, bus_free, write_mode, warmup, answers>>
      /\ stage = "schedule" /\ stage' = "add" /\ WQ' = WQ
      /\ k \in Occupied(RQ) /\ k \in RSlot /\ ~RQ[k].scheduled
      /\ ~bank_request[c].valid
      /\ RQ' = [RQ EXCEPT ![k] = On(RQ[k])]
      /\ bank_request' = [bank_request EXCEPT ![c] = [valid |-> TRUE, need_refresh |-> FALSE,
                            under_refresh |-> FALSE, ready |-> FALSE, pkt |-> <<"RQ", k>>]]
  BY DEF ServicePacket, After, MayBeNext, Schedulable, CanBeServiced, Served, ServedQueue, With, On,
         Occupied, Inv, TypeOK
<1>2. RQ \in [RSlot -> Request \cup {NoRequest}] /\ RQ[k] \in Request /\ c \in Bank
  BY <1>1 DEF Inv, TypeOK, Occupied, Request
<1>3. /\ bank_request' \in [Bank -> BankRequest]
      /\ bank_request'[c].valid /\ bank_request'[c].pkt = <<"RQ", k>> /\ ~bank_request'[c].under_refresh
      /\ \A b \in Bank \ {c} : bank_request'[b] = bank_request[b]
  <2>1. bank_request \in [Bank -> BankRequest]
    BY DEF Inv, TypeOK
  <2>2. [valid |-> TRUE, need_refresh |-> FALSE, under_refresh |-> FALSE, ready |-> FALSE,
         pkt |-> <<"RQ", k>>] \in BankRequest
    BY <1>1 DEF BankRequest, Packet
  <2> HIDE DEF c
  <2> QED BY <1>1, <1>2, <2>1, <2>2
<1> HIDE DEF c
<1>4. BusyBank' = BusyBank \cup {c} /\ c \notin BusyBank
  BY <1>1, <1>2, <1>3 DEF BusyBank
<1>5. RQ[k].forward_checked /\ ~warmup
  BY <1>1 DEF Inv, Phases, Unchecked
<1>6. /\ RQ' \in [RSlot -> Request \cup {NoRequest}]
      /\ Occupied(RQ') = Occupied(RQ)
      /\ RQ'[k].scheduled /\ RQ'[k].forward_checked /\ RQ'[k].address = RQ[k].address
      /\ RQ'[k].instr_depend_on_me = RQ[k].instr_depend_on_me
      /\ \A j \in Occupied(RQ) \ {k} : RQ'[j] = RQ[j]
  <2>1. /\ On(RQ[k]) \in Request /\ On(RQ[k]) # NoRequest /\ On(RQ[k]).scheduled
        /\ On(RQ[k]).address = RQ[k].address /\ On(RQ[k]).forward_checked = RQ[k].forward_checked
        /\ On(RQ[k]).instr_depend_on_me = RQ[k].instr_depend_on_me
    BY <1>2, OnProps
  <2>2. /\ RQ' \in [RSlot -> Request \cup {NoRequest}] /\ RQ'[k] = On(RQ[k])
        /\ \A j \in RSlot \ {k} : RQ'[j] = RQ[j]
    BY <1>1, <1>2, <2>1
  <2>3. Occupied(RQ') = Occupied(RQ)
    BY <1>1, <1>2, <2>1, <2>2 DEF Occupied
  <2> QED BY <1>1, <1>2, <1>5, <2>1, <2>2, <2>3 DEF Occupied
<1>7. Scheduled(RQ') = Scheduled(RQ) \cup {k} /\ k \notin Scheduled(RQ)
  BY <1>1, <1>6 DEF Scheduled
<1>8. TypeOK' /\ Once'
  <2>1. TypeOK'
    BY <1>1, <1>3, <1>6 DEF Inv, TypeOK, Stage, answers
  <2>2. \A j \in Occupied(RQ) : RQ'[j].instr_depend_on_me = RQ[j].instr_depend_on_me
    BY <1>6
  <2> QED BY <1>1, <1>6, <2>1, <2>2 DEF Inv, Once, Occupied, answers
<1>9. Slots'
  <2>1. Apart(RQ')
    <3>1. \A j \in Occupied(RQ) : /\ RQ'[j].forward_checked <=> RQ[j].forward_checked
                                  /\ RQ'[j].address = RQ[j].address
      BY <1>5, <1>6
    <3> QED BY <1>6, <3>1 DEF Apart, Inv, Slots
  <2>2. CheckedFirst(RQ')
    BY <1>6, <1>7 DEF CheckedFirst, Inv, Slots, Scheduled
  <2>3. \A j \in Occupied(WQ') : WQ'[j].instr_depend_on_me = {}
    BY <1>1, <1>6 DEF Inv, Slots, Occupied
  <2>4. Apart(WQ') /\ CheckedFirst(WQ')
    BY <1>1 DEF Inv, Slots
  <2> QED BY <2>1, <2>2, <2>3, <2>4 DEF Slots
<1>10. Linked'
  <2>1. ASSUME NEW b \in BusyBank, NEW j
        PROVE  /\ Serves(b, "RQ", RQ, j) => Serves(b, "RQ", RQ, j)'
               /\ Serves(b, "WQ", WQ, j) => Serves(b, "WQ", WQ, j)'
    <3>1. bank_request'[b].pkt = bank_request[b].pkt
      BY <1>3, <1>4 DEF BusyBank
    <3>2. j \in Scheduled(RQ) => j \in Scheduled(RQ') /\ RQ'[j].address = RQ[j].address
      BY <1>6, <1>7 DEF Scheduled
    <3>3. j \in Scheduled(WQ) => j \in Scheduled(WQ') /\ WQ'[j].address = WQ[j].address
      BY <1>1
    <3> QED BY <3>1, <3>2, <3>3 DEF Serves
  <2>2. Serves(c, "RQ", RQ, k)'
    BY <1>3, <1>6, <1>7 DEF Serves, c
  <2>3. BusyBanksServe'
    <3>1. ASSUME NEW b \in BusyBank
          PROVE  (\E j \in RSlot : Serves(b, "RQ", RQ, j)') \/ (\E j \in WSlot : Serves(b, "WQ", WQ, j)')
      BY <2>1 DEF Inv, Linked, BusyBanksServe
    <3>2. (\E j \in RSlot : Serves(c, "RQ", RQ, j)') \/ (\E j \in WSlot : Serves(c, "WQ", WQ, j)')
      BY <1>1, <2>2
    <3>3. c' = c
      BY <1>6 DEF c
    <3> QED BY <1>4, <3>1, <3>2, <3>3 DEF BusyBanksServe
  <2>4. ScheduledAreServed(RQ, "RQ")'
    <3> SUFFICES ASSUME NEW j \in Scheduled(RQ')
                 PROVE  BankOf[RQ'[j].address] \in BusyBank' /\ Serves(BankOf[RQ[j].address], "RQ", RQ, j)'
      BY DEF ScheduledAreServed
    <3>1. CASE j = k
      BY <1>4, <1>6, <2>2, <3>1 DEF c
    <3>2. CASE j \in Scheduled(RQ)
      <4>1. RQ'[j].address = RQ[j].address
        BY <1>6, <1>7, <3>2 DEF Scheduled
      <4>2. BankOf[RQ[j].address] \in BusyBank /\ Serves(BankOf[RQ[j].address], "RQ", RQ, j)
        BY <3>2 DEF Inv, Linked, ScheduledAreServed
      <4> QED BY <1>4, <2>1, <4>1, <4>2
    <3> QED BY <1>7, <3>1, <3>2
  <2>5. ScheduledAreServed(WQ, "WQ")'
    <3> SUFFICES ASSUME NEW j \in Scheduled(WQ')
                 PROVE  BankOf[WQ'[j].address] \in BusyBank' /\ Serves(BankOf[WQ[j].address], "WQ", WQ, j)'
      BY DEF ScheduledAreServed
    <3>1. j \in Scheduled(WQ) /\ WQ'[j].address = WQ[j].address
      BY <1>1
    <3>2. BankOf[WQ[j].address] \in BusyBank /\ Serves(BankOf[WQ[j].address], "WQ", WQ, j)
      BY <3>1 DEF Inv, Linked, ScheduledAreServed
    <3> QED BY <1>4, <2>1, <3>1, <3>2
  <2>6. active_request' # NoBank => active_request' \in BusyBank'
    BY <1>1, <1>4 DEF Inv, Linked
  <2> QED BY <2>3, <2>4, <2>5, <2>6 DEF Linked
<1>11. ModeOwnsTheBanks' /\ RefreshesAlone'
  <2>1. /\ \A b \in BusyBank : b \in Bank \ {c}
        /\ bank_request'[c].pkt[1] = "RQ" /\ ServedQueue' = "RQ" /\ ServedQueue = "RQ"
    BY <1>1, <1>3, <1>4 DEF BusyBank, ServedQueue
  <2> QED BY <1>1, <1>3, <1>4, <2>1 DEF Inv, ModeOwnsTheBanks, RefreshesAlone
<1>12. Phases'
  BY <1>1, <1>5 DEF Phases
<1>13. SameContent(RQ, RQ') /\ SameContent(WQ, WQ')
  BY <1>1, <1>6 DEF SameContent, Occupied
<1> QED BY <1>8, <1>9, <1>10, <1>11, <1>12, <1>13 DEF Inv

LEMMA ServiceWriteKeeps ==
  ASSUME Inv, write_mode, NEW k, ServicePacket("WQ", k)
  PROVE  Inv' /\ SameContent(RQ, RQ') /\ SameContent(WQ, WQ')
<1> DEFINE c == BankOf[WQ[k].address]
<1>1. /\ UNCHANGED <<active_request, bus_free, write_mode, warmup, answers>>
      /\ stage = "schedule" /\ stage' = "add" /\ RQ' = RQ
      /\ k \in Occupied(WQ) /\ k \in WSlot /\ ~WQ[k].scheduled
      /\ ~bank_request[c].valid
      /\ WQ' = [WQ EXCEPT ![k] = On(WQ[k])]
      /\ bank_request' = [bank_request EXCEPT ![c] = [valid |-> TRUE, need_refresh |-> FALSE,
                            under_refresh |-> FALSE, ready |-> FALSE, pkt |-> <<"WQ", k>>]]
  BY DEF ServicePacket, After, MayBeNext, Schedulable, CanBeServiced, Served, ServedQueue, With, On,
         Occupied, Inv, TypeOK
<1>2. WQ \in [WSlot -> Request \cup {NoRequest}] /\ WQ[k] \in Request /\ c \in Bank
  BY <1>1 DEF Inv, TypeOK, Occupied, Request
<1>3. /\ bank_request' \in [Bank -> BankRequest]
      /\ bank_request'[c].valid /\ bank_request'[c].pkt = <<"WQ", k>> /\ ~bank_request'[c].under_refresh
      /\ \A b \in Bank \ {c} : bank_request'[b] = bank_request[b]
  <2>1. bank_request \in [Bank -> BankRequest]
    BY DEF Inv, TypeOK
  <2>2. [valid |-> TRUE, need_refresh |-> FALSE, under_refresh |-> FALSE, ready |-> FALSE,
         pkt |-> <<"WQ", k>>] \in BankRequest
    BY <1>1 DEF BankRequest, Packet
  <2> HIDE DEF c
  <2> QED BY <1>1, <1>2, <2>1, <2>2
<1> HIDE DEF c
<1>4. BusyBank' = BusyBank \cup {c} /\ c \notin BusyBank
  BY <1>1, <1>2, <1>3 DEF BusyBank
<1>5. WQ[k].forward_checked /\ ~warmup
  BY <1>1 DEF Inv, Phases, Unchecked
<1>6. /\ WQ' \in [WSlot -> Request \cup {NoRequest}]
      /\ Occupied(WQ') = Occupied(WQ)
      /\ WQ'[k].scheduled /\ WQ'[k].forward_checked /\ WQ'[k].address = WQ[k].address
      /\ WQ'[k].instr_depend_on_me = WQ[k].instr_depend_on_me
      /\ \A j \in Occupied(WQ) \ {k} : WQ'[j] = WQ[j]
  <2>1. /\ On(WQ[k]) \in Request /\ On(WQ[k]) # NoRequest /\ On(WQ[k]).scheduled
        /\ On(WQ[k]).address = WQ[k].address /\ On(WQ[k]).forward_checked = WQ[k].forward_checked
        /\ On(WQ[k]).instr_depend_on_me = WQ[k].instr_depend_on_me
    BY <1>2, OnProps
  <2>2. /\ WQ' \in [WSlot -> Request \cup {NoRequest}] /\ WQ'[k] = On(WQ[k])
        /\ \A j \in WSlot \ {k} : WQ'[j] = WQ[j]
    BY <1>1, <1>2, <2>1
  <2>3. Occupied(WQ') = Occupied(WQ)
    BY <1>1, <1>2, <2>1, <2>2 DEF Occupied
  <2> QED BY <1>1, <1>2, <1>5, <2>1, <2>2, <2>3 DEF Occupied
<1>7. Scheduled(WQ') = Scheduled(WQ) \cup {k} /\ k \notin Scheduled(WQ)
  BY <1>1, <1>6 DEF Scheduled
<1>8. TypeOK' /\ Once'
  <2>1. TypeOK'
    BY <1>1, <1>3, <1>6 DEF Inv, TypeOK, Stage, answers
  <2>2. \A j \in Occupied(WQ) : WQ'[j].instr_depend_on_me = WQ[j].instr_depend_on_me
    BY <1>6
  <2> QED BY <1>1, <1>6, <2>1, <2>2 DEF Inv, Once, Occupied, answers
<1>9. Slots'
  <2>1. Apart(WQ')
    <3>1. \A j \in Occupied(WQ) : /\ WQ'[j].forward_checked <=> WQ[j].forward_checked
                                  /\ WQ'[j].address = WQ[j].address
      BY <1>5, <1>6
    <3> QED BY <1>6, <3>1 DEF Apart, Inv, Slots
  <2>2. CheckedFirst(WQ')
    BY <1>6, <1>7 DEF CheckedFirst, Inv, Slots, Scheduled
  <2>3. \A j \in Occupied(WQ') : WQ'[j].instr_depend_on_me = {}
    BY <1>1, <1>6 DEF Inv, Slots, Occupied
  <2>4. Apart(RQ') /\ CheckedFirst(RQ')
    BY <1>1 DEF Inv, Slots
  <2> QED BY <2>1, <2>2, <2>3, <2>4 DEF Slots
<1>10. Linked'
  <2>1. ASSUME NEW b \in BusyBank, NEW j
        PROVE  /\ Serves(b, "WQ", WQ, j) => Serves(b, "WQ", WQ, j)'
               /\ Serves(b, "RQ", RQ, j) => Serves(b, "RQ", RQ, j)'
    <3>1. bank_request'[b].pkt = bank_request[b].pkt
      BY <1>3, <1>4 DEF BusyBank
    <3>2. j \in Scheduled(WQ) => j \in Scheduled(WQ') /\ WQ'[j].address = WQ[j].address
      BY <1>6, <1>7 DEF Scheduled
    <3>3. j \in Scheduled(RQ) => j \in Scheduled(RQ') /\ RQ'[j].address = RQ[j].address
      BY <1>1
    <3> QED BY <3>1, <3>2, <3>3 DEF Serves
  <2>2. Serves(c, "WQ", WQ, k)'
    BY <1>3, <1>6, <1>7 DEF Serves, c
  <2>3. BusyBanksServe'
    <3>1. ASSUME NEW b \in BusyBank
          PROVE  (\E j \in RSlot : Serves(b, "RQ", RQ, j)') \/ (\E j \in WSlot : Serves(b, "WQ", WQ, j)')
      BY <2>1 DEF Inv, Linked, BusyBanksServe
    <3>2. (\E j \in RSlot : Serves(c, "RQ", RQ, j)') \/ (\E j \in WSlot : Serves(c, "WQ", WQ, j)')
      BY <1>1, <2>2
    <3>3. c' = c
      BY <1>6 DEF c
    <3> QED BY <1>4, <3>1, <3>2, <3>3 DEF BusyBanksServe
  <2>4. ScheduledAreServed(WQ, "WQ")'
    <3> SUFFICES ASSUME NEW j \in Scheduled(WQ')
                 PROVE  BankOf[WQ'[j].address] \in BusyBank' /\ Serves(BankOf[WQ[j].address], "WQ", WQ, j)'
      BY DEF ScheduledAreServed
    <3>1. CASE j = k
      BY <1>4, <1>6, <2>2, <3>1 DEF c
    <3>2. CASE j \in Scheduled(WQ)
      <4>1. WQ'[j].address = WQ[j].address
        BY <1>6, <1>7, <3>2 DEF Scheduled
      <4>2. BankOf[WQ[j].address] \in BusyBank /\ Serves(BankOf[WQ[j].address], "WQ", WQ, j)
        BY <3>2 DEF Inv, Linked, ScheduledAreServed
      <4> QED BY <1>4, <2>1, <4>1, <4>2
    <3> QED BY <1>7, <3>1, <3>2
  <2>5. ScheduledAreServed(RQ, "RQ")'
    <3> SUFFICES ASSUME NEW j \in Scheduled(RQ')
                 PROVE  BankOf[RQ'[j].address] \in BusyBank' /\ Serves(BankOf[RQ[j].address], "RQ", RQ, j)'
      BY DEF ScheduledAreServed
    <3>1. j \in Scheduled(RQ) /\ RQ'[j].address = RQ[j].address
      BY <1>1
    <3>2. BankOf[RQ[j].address] \in BusyBank /\ Serves(BankOf[RQ[j].address], "RQ", RQ, j)
      BY <3>1 DEF Inv, Linked, ScheduledAreServed
    <3> QED BY <1>4, <2>1, <3>1, <3>2
  <2>6. active_request' # NoBank => active_request' \in BusyBank'
    BY <1>1, <1>4 DEF Inv, Linked
  <2> QED BY <2>3, <2>4, <2>5, <2>6 DEF Linked
<1>11. ModeOwnsTheBanks' /\ RefreshesAlone'
  <2>1. /\ \A b \in BusyBank : b \in Bank \ {c}
        /\ bank_request'[c].pkt[1] = "WQ" /\ ServedQueue' = "WQ" /\ ServedQueue = "WQ"
    BY <1>1, <1>3, <1>4 DEF BusyBank, ServedQueue
  <2> QED BY <1>1, <1>3, <1>4, <2>1 DEF Inv, ModeOwnsTheBanks, RefreshesAlone
<1>12. Phases'
  BY <1>1, <1>5 DEF Phases
<1>13. SameContent(WQ, WQ') /\ SameContent(RQ, RQ')
  BY <1>1, <1>6 DEF SameContent, Occupied
<1> QED BY <1>8, <1>9, <1>10, <1>11, <1>12, <1>13 DEF Inv

\* service_packet clears need_refresh of a bank that has no request, and such a bank
\* has no refresh due when it runs.
LEMMA ServicePacketKeeps ==
  ASSUME Inv, NEW k, ServicePacket(ServedQueue, k)
  PROVE  Inv' /\ SameContent(RQ, RQ') /\ SameContent(WQ, WQ')
BY ServiceReadKeeps, ServiceWriteKeeps DEF ServedQueue

-----------------------------------------------------------------------------
(* Every step keeps the invariant *)

LEMMA InitEstablishes ==
  ASSUME Init
  PROVE  Inv
<1> USE DEF Init
<1>1. TypeOK
  BY DEF TypeOK, BankRequest, Stage
<1>2. Occupied(RQ) = {} /\ Occupied(WQ) = {} /\ BusyBank = {} /\ returned = {}
  BY DEF Occupied, BusyBank
<1>3. Once /\ Slots /\ Linked /\ ModeOwnsTheBanks /\ RefreshesAlone
  BY <1>2 DEF Once, Slots, Apart, CheckedFirst, Scheduled, Linked, BusyBanksServe, ScheduledAreServed,
              ModeOwnsTheBanks, RefreshesAlone
<1>4. Phases
  BY <1>2 DEF Phases
<1> QED BY <1>1, <1>3, <1>4 DEF Inv

\* The actions, with the invariant at hand.
LEMMA StepKeeps ==
  ASSUME Inv, Next
  PROVE  Inv'
<1>1. CASE Operate
  <2>1. CASE BeginOperate \/ EndFlush \/ EndCheckWrite \/ EndCheckRead \/ NothingFinishes
               \/ KeepWriteMode \/ BusIdleOrCongested \/ NothingServiced
    BY <2>1, QuietSteps
  <2>2. CASE \E k \in RSlot : FlushRead(k)
    BY <2>2, FlushReadKeeps
  <2>3. CASE \E k \in WSlot : FlushWrite(k)
    BY <2>3, FlushWriteKeeps
  <2>4. CASE CheckWrite \/ CheckRead
    BY <2>4, CheckWriteKeeps, CheckReadKeeps
  <2>5. CASE FinishRequest \/ SwapWriteMode \/ ScheduleRefresh
    BY <2>5, FinishRequestKeeps, SwapWriteModeKeeps, ScheduleRefreshKeeps
  <2>6. CASE \E b \in Bank : PopulateDbus(b)
    BY <2>6, PopulateDbusKeeps
  <2>7. CASE \E k \in RSlot \cup WSlot : ServicePacket(ServedQueue, k)
    BY <2>7, ServicePacketKeeps
  <2> QED BY <1>1, <2>1, <2>2, <2>3, <2>4, <2>5, <2>6, <2>7 DEF Operate
<1>2. CASE Between
  <2>1. CASE \E b \in Block, D \in SUBSET Instr : AddRQ(b, D)
    BY <2>1, AddRQKeeps
  <2>2. CASE \E b \in Block : AddWQ(b)
    BY <2>2, AddWQKeeps
  <2>3. CASE \E r \in returned : PickUp(r)
    BY <2>3, PickUpKeeps
  <2>4. CASE \E b \in Bank : BankReady(b)
    BY <2>4, BankReadyKeeps
  <2>5. CASE BusReady \/ BeginPhase
    BY <2>5, QuietSteps
  <2> QED BY <1>2, <2>1, <2>2, <2>3, <2>4, <2>5 DEF Between
<1> QED BY <1>1, <1>2 DEF Next

LEMMA StutterKeeps ==
  ASSUME Inv, UNCHANGED vars
  PROVE  Inv'
<1>1. /\ UNCHANGED <<queues, bank_request, active_request, write_mode, answers>>
      /\ UNCHANGED <<stage, bus_free, warmup>>
  BY DEF vars, queues, answers
<1>2. Phases'
  BY <1>1 DEF Inv, Phases, Unchecked, Occupied, BusyBank, queues
<1> QED BY <1>1, <1>2, QuietStepsKeep DEF Inv, TypeOK

\* Inv holds in every reachable state.
THEOREM Invariance == Spec => []Inv
<1>1. Init => Inv
  BY InitEstablishes
<1>2. Inv /\ [Next]_vars => Inv'
  BY StepKeeps, StutterKeeps
<1> QED BY <1>1, <1>2, PTL DEF Spec

-----------------------------------------------------------------------------
(* The theorems *)

\* For every set of blocks, banks and ids and every queue length: an id waits in one
\* slot or one response, a queue holds no block twice once its checks have passed,
\* and no request is scheduled before them (dram_controller.cc:424-493).
THEOREM SlotsStayChecked == Spec => []ChecksKeepTheSlots
<1>1. Inv => ChecksKeepTheSlots
  BY SlotsAreChecked DEF Inv
<1> QED BY <1>1, Invariance, PTL

\* A busy bank and its request point at each other, through every withdrawal, and
\* outside of the data bus only requests of the current mode are under way
\* (dram_controller.cc:218-233, 354-358).
THEOREM BanksStayLinked == Spec => []BanksServeTheMode
<1>1. Inv => BanksServeTheMode
  BY LinkedBanks DEF Inv
<1> QED BY <1>1, Invariance, PTL

\* No bank is refreshed while it serves a request (dram_controller.cc:186, 350).
THEOREM RefreshesStayAlone == Spec => []RefreshesAlone
<1>1. Inv => RefreshesAlone
  BY DEF Inv
<1> QED BY <1>1, Invariance, PTL

LEMMA DueRefreshStep ==
  ASSUME Inv, [Next]_vars
  PROVE  \A b \in Bank : bank_request[b].need_refresh =>
           bank_request'[b].need_refresh \/ bank_request'[b].under_refresh
<1> USE DEF Inv, TypeOK
<1>1. CASE UNCHANGED bank_request
  BY <1>1
<1>2. CASE FinishRequest
  <2>1. bank_request' = [bank_request EXCEPT ![active_request] = Released(bank_request[active_request])]
    BY <1>2 DEF FinishRequest
  <2>2. \A b \in Bank : Released(bank_request[b]).need_refresh = bank_request[b].need_refresh
    BY ReleasedBank
  <2> QED BY <2>1, <2>2
<1>3. CASE SwapWriteMode
  <2>1. \A b \in Bank : bank_request'[b] = bank_request[b] \/ bank_request'[b] = Released(bank_request[b])
    BY <1>3 DEF SwapWriteMode
  <2>2. \A b \in Bank : Released(bank_request[b]).need_refresh = bank_request[b].need_refresh
    BY ReleasedBank
  <2> QED BY <2>1, <2>2
<1>4. CASE ScheduleRefresh
  BY <1>4, ScheduleRefreshKeeps
<1>5. ASSUME NEW c \in Bank, PopulateDbus(c) \/ BankReady(c)
      PROVE  \A b \in Bank : bank_request'[b].need_refresh = bank_request[b].need_refresh
  BY <1>5 DEF PopulateDbus, BankReady, BankRequest
<1>6. ASSUME NEW k, ServicePacket(ServedQueue, k), NEW b \in Bank, bank_request[b].need_refresh
      PROVE  bank_request'[b] = bank_request[b]
  <2>1. /\ stage = "schedule" /\ CanBeServiced(k)
        /\ \A a \in Bank : a # BankOf[Served[k].address] => bank_request'[a] = bank_request[a]
    BY <1>6 DEF ServicePacket
  <2>2. bank_request[b].valid
    BY <1>6, <2>1 DEF Phases
  <2>3. b # BankOf[Served[k].address]
    BY <2>1, <2>2 DEF CanBeServiced
  <2> QED BY <2>1, <2>3
<1>7. CASE Next
  <2>1. CASE Operate
    <3>1. CASE BeginOperate \/ EndFlush \/ CheckWrite \/ EndCheckWrite \/ CheckRead \/ EndCheckRead
                 \/ NothingFinishes \/ KeepWriteMode \/ BusIdleOrCongested \/ NothingServiced
      BY <1>1, <3>1 DEF BeginOperate, EndFlush, CheckWrite, EndCheckWrite, CheckRead, EndCheckRead,
                        NothingFinishes, KeepWriteMode, BusIdleOrCongested, NothingServiced, banks
    <3>2. CASE (\E k \in RSlot : FlushRead(k)) \/ (\E k \in WSlot : FlushWrite(k))
      BY <1>1, <3>2 DEF FlushRead, FlushWrite, banks
    <3> QED BY <1>2, <1>3, <1>4, <1>5, <1>6, <2>1, <3>1, <3>2 DEF Operate
  <2>2. CASE Between
    <3>1. ASSUME NEW b \in Bank, BankReady(b)
          PROVE  \A c \in Bank : bank_request'[c].need_refresh = bank_request[c].need_refresh
      BY <1>5, <3>1
    <3>2. CASE ~\E b \in Bank : BankReady(b)
      BY <1>1, <2>2, <3>2 DEF Between, AddRQ, AddWQ, PickUp, BusReady, BeginPhase, banks
    <3> QED BY <3>1, <3>2
  <2> QED BY <1>7, <2>1, <2>2 DEF Next
<1> QED BY <1>1, <1>7 DEF vars

\* A refresh that is due is never forgotten, although service_packet clears the flag:
\* schedule_refresh, which runs before it, has left none due at a bank without a
\* request (dram_controller.cc:186-190, 354).
THEOREM DueRefreshIsNext == Spec => DueRefreshComesNext
<1>1. Inv /\ [Next]_vars =>
        [\A b \in Bank :
           bank_request[b].need_refresh =>
             \/ bank_request'[b].need_refresh
             \/ bank_request'[b].under_refresh]_vars
  BY DueRefreshStep
<1> QED BY <1>1, Invariance, PTL DEF Spec, DueRefreshComesNext

-----------------------------------------------------------------------------
(* The promise *)

\* What the waiters of request p wait for.
Tokens(p) == p.instr_depend_on_me \X {p.address} \X {TRUE}

\* What response r gives its waiters.
Gives(r) == r.instr_depend_on_me \X {r.address}

Unwritten == {<<WQ[k].address, TRUE>> : k \in Occupied(WQ)}

LEMMA InPending == \A w : w \in Pending <=> \E k \in Occupied(RQ) : w \in Tokens(RQ[k])
BY DEF Pending, Tokens

LEMMA InAnswered == \A w : w \in Answered <=> \E r \in returned : w \in Gives(r)
BY DEF Answered, Gives

\* The variables that Promise does not see.
LEMMA SameSlots ==
  ASSUME Occupied(RQ') = Occupied(RQ),
         \A k \in Occupied(RQ) : /\ RQ'[k].instr_depend_on_me = RQ[k].instr_depend_on_me
                                 /\ RQ'[k].address = RQ[k].address
  PROVE  Pending' = Pending
<1>1. \A w : w \in Pending' <=> \E k \in Occupied(RQ') : w \in Tokens(RQ'[k])
  BY DEF Pending, Tokens
<1>2. \A k \in Occupied(RQ) : Tokens(RQ'[k]) = Tokens(RQ[k])
  BY DEF Tokens
<1>3. \A w : w \in Pending' <=> w \in Pending
  BY <1>1, <1>2, InPending
<1> QED BY <1>3

LEMMA SameWrites ==
  ASSUME Occupied(WQ') = Occupied(WQ), \A k \in Occupied(WQ) : WQ'[k].address = WQ[k].address
  PROVE  Unwritten' = Unwritten
BY DEF Unwritten

\* A read that leaves its slot for the response queue answers all its waiters, and no other.
LEMMA AnswerStep ==
  ASSUME Inv, NEW k \in Occupied(RQ),
         Occupied(RQ') = Occupied(RQ) \ {k}, \A j \in Occupied(RQ') : RQ'[j] = RQ[j],
         returned' = returned \cup ResponsesTo(RQ[k])
  PROVE  /\ Tokens(RQ[k]) \in SUBSET Pending
         /\ Pending' = Pending \ Tokens(RQ[k])
         /\ Answered' = Answered \cup {<<w[1], w[2]>> : w \in Tokens(RQ[k])}
<1>1. Tokens(RQ[k]) \in SUBSET Pending
  BY InPending
<1>2. \A w : w \in Pending' <=> \E j \in Occupied(RQ') : w \in Tokens(RQ'[j])
  BY DEF Pending, Tokens
<1>3. ASSUME NEW j \in Occupied(RQ), j # k, NEW w \in Tokens(RQ[j])
      PROVE  w \notin Tokens(RQ[k])
  <2>1. RQ[j] \in Request /\ RQ[k] \in Request
    BY DEF Inv, TypeOK, Occupied
  <2>2. w[1] \in RQ[j].instr_depend_on_me /\ w[1] \in Instr
    BY <1>3, <2>1 DEF Tokens, Request
  <2>3. w[1] \notin RQ[k].instr_depend_on_me
    BY <1>3, <2>2 DEF Inv, Once
  <2> QED BY <2>3 DEF Tokens
<1>4. \A w : w \in Pending' <=> w \in Pending /\ w \notin Tokens(RQ[k])
  BY <1>2, <1>3, InPending
<1>5. Pending' = Pending \ Tokens(RQ[k])
  BY <1>4
<1>6. \A w : w \in Answered' <=> w \in Answered \/ \E r \in ResponsesTo(RQ[k]) : w \in Gives(r)
  BY DEF Answered, Gives
<1>7. \A w : (\E r \in ResponsesTo(RQ[k]) : w \in Gives(r)) <=> w \in {<<v[1], v[2]>> : v \in Tokens(RQ[k])}
  <2> DEFINE p == RQ[k]
  <2>1. \A w : (\E r \in ResponsesTo(p) : w \in Gives(r)) <=> w \in p.instr_depend_on_me \X {p.address}
    <3> DEFINE r == [address |-> p.address, instr_depend_on_me |-> p.instr_depend_on_me]
    <3>1. Gives(r) = p.instr_depend_on_me \X {p.address}
      BY DEF Gives
    <3>2. CASE p.instr_depend_on_me = {}
      <4>1. ResponsesTo(p) = {}
        BY <3>2 DEF ResponsesTo
      <4> QED BY <3>2, <4>1
    <3>3. CASE p.instr_depend_on_me # {}
      <4>1. ResponsesTo(p) = {r}
        BY <3>3 DEF ResponsesTo
      <4> HIDE DEF r, p
      <4> QED BY <3>1, <4>1
    <3> QED BY <3>2, <3>3
  <2>2. \A w : w \in {<<v[1], v[2]>> : v \in Tokens(p)} <=> w \in p.instr_depend_on_me \X {p.address}
    <3>1. ASSUME NEW v \in Tokens(p)
          PROVE  <<v[1], v[2]>> \in p.instr_depend_on_me \X {p.address}
      BY <3>1 DEF Tokens
    <3>2. ASSUME NEW w \in p.instr_depend_on_me \X {p.address}
          PROVE  \E v \in Tokens(p) : w = <<v[1], v[2]>>
      <4>1. <<w[1], w[2], TRUE>> \in Tokens(p)
        BY <3>2 DEF Tokens
      <4> QED BY <3>2, <4>1
    <3> QED BY <3>1, <3>2
  <2> QED BY <2>1, <2>2
<1>8. \A w : w \in Answered' <=> w \in Answered \cup {<<v[1], v[2]>> : v \in Tokens(RQ[k])}
  BY <1>6, <1>7
<1> QED BY <1>1, <1>5, <1>8

\* A write that leaves its slot for the memory: it is still owed if another slot has its block.
LEMMA DrainStep ==
  ASSUME Inv, NEW k \in Occupied(WQ),
         Occupied(WQ') = Occupied(WQ) \ {k}, \A j \in Occupied(WQ') : WQ'[j] = WQ[j]
  PROVE  /\ <<WQ[k].address, TRUE>> \in Unwritten
         /\ <<WQ[k].address, TRUE>> \in Block \X {TRUE}
         /\ \E again \in SUBSET {<<WQ[k].address, TRUE>>} :
              Unwritten' = (Unwritten \ {<<WQ[k].address, TRUE>>}) \cup again
<1> DEFINE w == <<WQ[k].address, TRUE>>
           V == Unwritten'
           U == Unwritten
<1>1. w \in U
  BY DEF Unwritten
<1>2. w \in Block \X {TRUE}
  BY DEF Inv, TypeOK, Occupied, Request
<1>3. V \cup {w} = U
  <2>1. \A x : x \in V <=> \E j \in Occupied(WQ') : x = <<WQ'[j].address, TRUE>>
    BY DEF Unwritten
  <2>2. \A x : x \in U <=> \E j \in Occupied(WQ) : x = <<WQ[j].address, TRUE>>
    BY DEF Unwritten
  <2> HIDE DEF U, V
  <2>3. ASSUME NEW x \in V
        PROVE  x \in U
    <3>1. PICK j \in Occupied(WQ') : x = <<WQ'[j].address, TRUE>>
      BY <2>1
    <3>2. j \in Occupied(WQ) /\ WQ'[j] = WQ[j]
      BY <3>1
    <3> QED BY <2>2, <3>1, <3>2
  <2>4. ASSUME NEW x \in U, x # w
        PROVE  x \in V
    <3>1. PICK j \in Occupied(WQ) : x = <<WQ[j].address, TRUE>>
      BY <2>2
    <3>2. j # k
      BY <2>4, <3>1
    <3>3. j \in Occupied(WQ') /\ WQ'[j] = WQ[j]
      BY <3>2
    <3> QED BY <2>1, <3>1, <3>3
  <2> HIDE DEF w
  <2> QED BY <1>1, <2>3, <2>4
<1> HIDE DEF w, U, V
<1>4. \E again \in SUBSET {w} : V = (U \ {w}) \cup again
  <2>1. CASE w \in V
    <3>1. V = (U \ {w}) \cup {w}
      BY <1>3, <2>1
    <3> QED BY <3>1
  <2>2. CASE w \notin V
    <3>1. V = (U \ {w}) \cup {}
      BY <1>3, <2>2
    <3> QED BY <3>1
  <2> QED BY <2>1, <2>2
<1> QED BY <1>1, <1>2, <1>4 DEF w, U, V

ReadLeaves(k) ==
  /\ Occupied(RQ') = Occupied(RQ) \ {k} /\ \A j \in Occupied(RQ') : RQ'[j] = RQ[j]
  /\ returned' = returned \cup ResponsesTo(RQ[k])
  /\ UNCHANGED <<WQ, written>>

WriteLeaves(k) ==
  /\ Occupied(WQ') = Occupied(WQ) \ {k} /\ \A j \in Occupied(WQ') : WQ'[j] = WQ[j]
  /\ written' = {WQ[k].address}
  /\ UNCHANGED <<RQ, returned>>

LEMMA FinishLeaves ==
  ASSUME Inv, FinishRequest
  PROVE  (\E k \in Occupied(RQ) : ReadLeaves(k)) \/ (\E k \in Occupied(WQ) : WriteLeaves(k))
<1> DEFINE a == active_request
           pkt == bank_request[a].pkt
<1>1. /\ returned' = returned \cup ResponsesTo(PacketAt(pkt))
      /\ written' = IF pkt[1] = "WQ" THEN {PacketAt(pkt).address} ELSE written
      /\ RQ' = With(RQ, "RQ", pkt, NoRequest)
      /\ WQ' = With(WQ, "WQ", pkt, NoRequest)
  BY DEF FinishRequest
<1>2. ASSUME NEW k \in RSlot, Serves(a, "RQ", RQ, k)
      PROVE  k \in Occupied(RQ) /\ ReadLeaves(k)
  <2>1. pkt = <<"RQ", k>> /\ k \in Occupied(RQ)
    BY <1>2 DEF Serves, Scheduled
  <2>2. /\ RQ' = [RQ EXCEPT ![k] = NoRequest] /\ WQ' = WQ
        /\ returned' = returned \cup ResponsesTo(RQ[k]) /\ written' = written
    BY <1>1, <2>1 DEF PacketAt, With
  <2> QED BY <2>1, <2>2, ReadGone DEF Inv, ReadLeaves
<1>3. ASSUME NEW k \in WSlot, Serves(a, "WQ", WQ, k)
      PROVE  k \in Occupied(WQ) /\ WriteLeaves(k)
  <2>1. pkt = <<"WQ", k>> /\ k \in Occupied(WQ) /\ WQ[k].instr_depend_on_me = {}
    BY <1>3 DEF Serves, Scheduled, Inv, Slots
  <2>2. /\ WQ' = [WQ EXCEPT ![k] = NoRequest] /\ RQ' = RQ
        /\ returned' = returned /\ written' = {WQ[k].address}
    BY <1>1, <2>1 DEF PacketAt, With, ResponsesTo
  <2> QED BY <2>1, <2>2, WriteGone DEF Inv, WriteLeaves
<1> QED BY <1>2, <1>3 DEF FinishRequest, BusDone, Inv, Linked, BusyBanksServe

LEMMA ReadLeavesAnswers ==
  ASSUME Inv, NEW k \in Occupied(RQ), ReadLeaves(k)
  PROVE  Promise!Next
<1>1. /\ Tokens(RQ[k]) \in SUBSET Pending
      /\ Pending' = Pending \ Tokens(RQ[k])
      /\ Answered' = Answered \cup {<<w[1], w[2]>> : w \in Tokens(RQ[k])}
  BY AnswerStep DEF ReadLeaves
<1>2. Promise!Answer(Tokens(RQ[k]))
  BY <1>1 DEF ReadLeaves, Promise!Answer
<1> QED BY <1>1, <1>2 DEF Promise!Next

LEMMA WriteLeavesDrains ==
  ASSUME Inv, NEW k \in Occupied(WQ), WriteLeaves(k)
  PROVE  Promise!Next
<1> PICK w : w = <<WQ[k].address, TRUE>>
  OBVIOUS
<1>1. /\ w \in Unwritten /\ w \in Block \X {TRUE}
      /\ \E again \in SUBSET {w} : Unwritten' = (Unwritten \ {w}) \cup again
  BY DrainStep DEF WriteLeaves
<1>2. {<<b, TRUE>> : b \in written'} = {w}
  BY DEF WriteLeaves
<1>3. UNCHANGED <<Pending, Answered>>
  BY DEF WriteLeaves, Pending, Answered, Occupied
<1>4. Promise!Drain(w)
  <2>1. w \in {<<WQ[j].address, TRUE>> : j \in Occupied(WQ)}
    BY <1>1 DEF Unwritten
  <2>2. \E again \in SUBSET {w} :
          {<<WQ'[j].address, TRUE>> : j \in Occupied(WQ')}
            = ({<<WQ[j].address, TRUE>> : j \in Occupied(WQ)} \ {w}) \cup again
    BY <1>1 DEF Unwritten
  <2> QED BY <1>2, <1>3, <2>1, <2>2 DEF Promise!Drain
<1> QED BY <1>1, <1>4 DEF Promise!Next

LEMMA NothingLeaves ==
  ASSUME Inv, SameContent(RQ, RQ'), SameContent(WQ, WQ'), UNCHANGED answers
  PROVE  UNCHANGED Promise!abstractVars
<1>1. UNCHANGED <<Pending, Unwritten>>
  BY SameSlots, SameWrites DEF SameContent
<1> QED BY <1>1 DEF Promise!abstractVars, Answered, Unwritten, answers

LEMMA AddRQAsks ==
  ASSUME Inv, NEW b \in Block, NEW D \in SUBSET Instr, AddRQ(b, D)
  PROVE  Promise!Next
<1>1. /\ UNCHANGED <<WQ, answers>> /\ D \cap Waiting = {}
      /\ \E k \in RSlot : RQ[k] = NoRequest /\ RQ' = [RQ EXCEPT ![k] = NewRequest(b, D)]
  BY DEF AddRQ, FirstEmpty, Occupied, Inv, TypeOK
<1>2. PICK k \in RSlot : RQ[k] = NoRequest /\ RQ' = [RQ EXCEPT ![k] = NewRequest(b, D)]
  BY <1>1
<1>3. /\ RQ'[k] = NewRequest(b, D)
      /\ Occupied(RQ') = Occupied(RQ) \cup {k}
      /\ \A j \in Occupied(RQ) : RQ'[j] = RQ[j]
  <2>1. RQ \in [RSlot -> Request \cup {NoRequest}]
    BY DEF Inv, TypeOK
  <2>2. NewRequest(b, D) # NoRequest
    BY NewRequestIsOne
  <2> QED BY <1>2, <2>1, <2>2 DEF Occupied
<1>4. Pending' = Pending \cup (D \X {b} \X {TRUE})
  <2>1. Tokens(RQ'[k]) = D \X {b} \X {TRUE}
    BY <1>3 DEF Tokens, NewRequest
  <2>2. \A w : w \in Pending' <=> \E j \in Occupied(RQ') : w \in Tokens(RQ'[j])
    BY DEF Pending, Tokens
  <2>3. \A w : w \in Pending' <=> w \in Pending \/ w \in Tokens(RQ'[k])
    BY <1>3, <2>2, InPending
  <2>4. Pending' = Pending \cup Tokens(RQ'[k])
    BY <2>3
  <2> QED BY <2>1, <2>4
<1>5. (\A w \in Pending : w[1] \notin D) /\ (\A w \in Answered : w[1] \notin D)
  <2>1. ASSUME NEW w \in Pending, w[1] \in D
        PROVE  FALSE
    <3>1. PICK j \in Occupied(RQ) : w \in Tokens(RQ[j])
      BY InPending
    <3>2. w[1] \in RQ[j].instr_depend_on_me
      BY <3>1 DEF Tokens
    <3> QED BY <1>1, <2>1, <3>2 DEF Waiting, WaitingIn
  <2>2. ASSUME NEW w \in Answered, w[1] \in D
        PROVE  FALSE
    <3>1. PICK r \in returned : w \in Gives(r)
      BY InAnswered
    <3>2. w[1] \in r.instr_depend_on_me
      BY <3>1 DEF Gives
    <3> QED BY <1>1, <2>2, <3>2 DEF Waiting, WaitingIn
  <2> QED BY <2>1, <2>2
<1>6. Promise!Ask(D, b, TRUE)
  BY <1>1, <1>4, <1>5 DEF Promise!Ask, Answered, Occupied, answers
<1> QED BY <1>6 DEF Promise!Next

LEMMA AddWQWrites ==
  ASSUME Inv, NEW b \in Block, AddWQ(b)
  PROVE  Promise!Next
<1>1. /\ UNCHANGED <<RQ, answers>>
      /\ \E k \in WSlot : WQ[k] = NoRequest /\ WQ' = [WQ EXCEPT ![k] = NewRequest(b, {})]
  BY DEF AddWQ, FirstEmpty, Occupied, Inv, TypeOK
<1>2. PICK k \in WSlot : WQ[k] = NoRequest /\ WQ' = [WQ EXCEPT ![k] = NewRequest(b, {})]
  BY <1>1
<1>3. /\ WQ'[k].address = b
      /\ Occupied(WQ') = Occupied(WQ) \cup {k}
      /\ \A j \in Occupied(WQ) : WQ'[j] = WQ[j]
  <2>1. WQ \in [WSlot -> Request \cup {NoRequest}]
    BY DEF Inv, TypeOK
  <2>2. NewRequest(b, {}) # NoRequest /\ NewRequest(b, {}).address = b
    BY NewRequestIsOne DEF NewRequest
  <2> QED BY <1>2, <2>1, <2>2 DEF Occupied
<1>4. {<<WQ'[j].address, TRUE>> : j \in Occupied(WQ')}
        = {<<WQ[j].address, TRUE>> : j \in Occupied(WQ)} \cup {<<b, TRUE>>}
  BY <1>3, ZenonT(30)
<1>5. UNCHANGED <<Pending, Answered, {<<c, TRUE>> : c \in written}>>
  BY <1>1 DEF Pending, Answered, Occupied, answers
<1>6. Promise!Write(<<b, TRUE>>)
  BY <1>4, <1>5 DEF Promise!Write
<1> QED BY <1>6 DEF Promise!Next

LEMMA PickUpPicks ==
  ASSUME Inv, NEW r \in returned, PickUp(r)
  PROVE  Promise!Next
<1>1. UNCHANGED <<queues, written>> /\ returned' = returned \ {r}
  BY DEF PickUp
<1>2. Gives(r) \in SUBSET Answered
  BY InAnswered
<1>3. Answered' = Answered \ Gives(r)
  <2>1. \A w : w \in Answered' <=> \E s \in returned' : w \in Gives(s)
    BY DEF Answered, Gives
  <2>2. ASSUME NEW s \in returned, s # r, NEW w \in Gives(s)
        PROVE  w \notin Gives(r)
    <3>1. w[1] \in s.instr_depend_on_me /\ w[1] \in Instr
      BY DEF Gives, Inv, TypeOK, Response
    <3> QED BY <2>2, <3>1 DEF Gives, Inv, Once
  <2>3. \A w : w \in Answered' <=> w \in Answered /\ w \notin Gives(r)
    BY <1>1, <2>1, <2>2, InAnswered
  <2> QED BY <2>3
<1>4. Promise!PickUp(Gives(r))
  BY <1>1, <1>3 DEF Promise!PickUp, Pending, Occupied, queues
<1> QED BY <1>2, <1>4 DEF Promise!Next

\* A write that is dropped is still owed, by the slot it collides with.
LEMMA CheckWriteOwes ==
  ASSUME Inv, CheckWrite
  PROVE  UNCHANGED Promise!abstractVars
<1>1. UNCHANGED <<RQ, answers>>
  BY DEF CheckWrite
<1>2. PICK k \in WSlot :
        /\ k \in Occupied(WQ)
        /\ WQ' = IF Colliding(WQ, k, WQ[k].address) # {}
                   THEN [WQ EXCEPT ![k] = NoRequest]
                   ELSE Checked(WQ, k)
  BY DEF CheckWrite, FirstUnchecked, Unchecked
<1>3. Unwritten' = Unwritten
  <2>1. CASE Colliding(WQ, k, WQ[k].address) # {}
    <3>1. PICK j \in Occupied(WQ) \ {k} : WQ[j].address = WQ[k].address
      BY <2>1 DEF Colliding
    <3>2. Occupied(WQ') = Occupied(WQ) \ {k} /\ \A l \in Occupied(WQ') : WQ'[l] = WQ[l]
      BY <1>2, <2>1, WriteGone DEF Inv
    <3>3. \A x : x \in Unwritten' <=> \E l \in Occupied(WQ') : x = <<WQ'[l].address, TRUE>>
      BY DEF Unwritten
    <3>4. \A x : x \in Unwritten <=> \E l \in Occupied(WQ) : x = <<WQ[l].address, TRUE>>
      BY DEF Unwritten
    <3>5. ASSUME NEW x
          PROVE  (\E l \in Occupied(WQ) : x = <<WQ[l].address, TRUE>>)
                   <=> \E l \in Occupied(WQ') : x = <<WQ'[l].address, TRUE>>
      BY <3>1, <3>2
    <3>6. \A x : x \in Unwritten' <=> x \in Unwritten
      BY <3>3, <3>4, <3>5
    <3> QED BY <3>6
  <2>2. CASE Colliding(WQ, k, WQ[k].address) = {}
    <3>1. WQ \in [WSlot -> Request \cup {NoRequest}] /\ WQ[k] \in Request /\ WQ[k] # NoRequest
      BY <1>2 DEF Inv, TypeOK, Occupied
    <3>2. WQ' = [WQ EXCEPT ![k] = [WQ[k] EXCEPT !.forward_checked = TRUE]]
      BY <1>2, <2>2 DEF Checked
    <3>3. /\ [WQ[k] EXCEPT !.forward_checked = TRUE] # NoRequest
          /\ [WQ[k] EXCEPT !.forward_checked = TRUE].address = WQ[k].address
      BY <3>1 DEF Request
    <3>4. Occupied(WQ') = Occupied(WQ) /\ \A l \in Occupied(WQ) : WQ'[l].address = WQ[l].address
      BY <1>2, <3>1, <3>2, <3>3 DEF Occupied
    <3> QED BY <3>4, SameWrites
  <2> QED BY <2>1, <2>2
<1> QED BY <1>1, <1>3 DEF Promise!abstractVars, Unwritten, Pending, Answered, Occupied, answers

LEMMA CheckReadKeepsWaiters ==
  ASSUME Inv, CheckRead
  PROVE  Promise!Next \/ UNCHANGED Promise!abstractVars
<1>1. UNCHANGED <<WQ, written>>
  BY DEF CheckRead
<1>2. PICK k \in Occupied(RQ) : Forward(k) \/ Merge(k) \/ Keep(k)
  BY DEF CheckRead, FirstUnchecked, Unchecked
<1>3. CASE Forward(k)
  <2>1. ReadLeaves(k)
    BY <1>1, <1>3, ReadGone DEF Inv, Forward, ReadLeaves
  <2> QED BY <2>1, ReadLeavesAnswers
<1>4. ASSUME Pending' = Pending, UNCHANGED returned
      PROVE  UNCHANGED Promise!abstractVars
  BY <1>1, <1>4 DEF Promise!abstractVars, Answered, Occupied
<1>5. CASE Merge(k)
  <2>1. PICK j \in Occupied(RQ) :
          /\ j # k /\ RQ[j].address = RQ[k].address
          /\ RQ' = [RQ EXCEPT ![j].instr_depend_on_me = @ \cup RQ[k].instr_depend_on_me, ![k] = NoRequest]
    BY <1>5 DEF Merge, MergesInto, Colliding
  <2>2. /\ Occupied(RQ') = Occupied(RQ) \ {k}
        /\ \A l \in Occupied(RQ') : RQ'[l].address = RQ[l].address /\ (l # j => RQ'[l] = RQ[l])
        /\ RQ'[j].instr_depend_on_me = RQ[j].instr_depend_on_me \cup RQ[k].instr_depend_on_me
    <3>1. /\ TypeOK /\ j # k
          /\ RQ' = [RQ EXCEPT ![j].instr_depend_on_me = @ \cup RQ[k].instr_depend_on_me, ![k] = NoRequest]
      BY <2>1 DEF Inv
    <3>2. /\ RQ' \in [RSlot -> Request \cup {NoRequest}]
          /\ Occupied(RQ') = Occupied(RQ) \ {k}
          /\ \A l \in Occupied(RQ') :
               /\ RQ'[l].address = RQ[l].address /\ RQ'[l].scheduled = RQ[l].scheduled
               /\ RQ'[l].forward_checked = RQ[l].forward_checked
               /\ l # j => RQ'[l] = RQ[l]
          /\ RQ'[j].instr_depend_on_me = RQ[j].instr_depend_on_me \cup RQ[k].instr_depend_on_me
      BY <3>1, Merged
    <3> QED BY <3>2
  <2>3. Tokens(RQ'[j]) = Tokens(RQ[j]) \cup Tokens(RQ[k])
    BY <2>1, <2>2 DEF Tokens
  <2>4. \A w : w \in Pending' <=> \E l \in Occupied(RQ') : w \in Tokens(RQ'[l])
    BY DEF Pending, Tokens
  <2>5. ASSUME NEW w, w \in Pending'
        PROVE  w \in Pending
    <3>1. PICK l \in Occupied(RQ') : w \in Tokens(RQ'[l])
      BY <2>4, <2>5
    <3>2. CASE l = j
      BY <2>1, <2>3, <3>1, <3>2, InPending
    <3>3. CASE l # j
      BY <2>2, <3>1, <3>3, InPending
    <3> QED BY <3>2, <3>3
  <2>6. ASSUME NEW w, w \in Pending
        PROVE  w \in Pending'
    <3>1. PICK l \in Occupied(RQ) : w \in Tokens(RQ[l])
      BY <2>6, InPending
    <3>2. CASE l \in {j, k}
      BY <2>1, <2>2, <2>3, <2>4, <3>1, <3>2
    <3>3. CASE l \notin {j, k}
      BY <2>2, <2>4, <3>1, <3>3
    <3> QED BY <3>2, <3>3
  <2>7. Pending' = Pending
    BY <2>5, <2>6
  <2> QED BY <1>4, <1>5, <2>7 DEF Merge
<1>6. CASE Keep(k)
  <2>1. RQ \in [RSlot -> Request \cup {NoRequest}] /\ RQ[k] \in Request /\ RQ[k] # NoRequest
    BY DEF Inv, TypeOK, Occupied
  <2>2. RQ' = [RQ EXCEPT ![k] = [RQ[k] EXCEPT !.forward_checked = TRUE]]
    BY <1>6 DEF Checked, Keep
  <2>3. /\ [RQ[k] EXCEPT !.forward_checked = TRUE] # NoRequest
        /\ [RQ[k] EXCEPT !.forward_checked = TRUE].address = RQ[k].address
        /\ [RQ[k] EXCEPT !.forward_checked = TRUE].instr_depend_on_me = RQ[k].instr_depend_on_me
    BY <2>1 DEF Request
  <2>4. /\ Occupied(RQ') = Occupied(RQ)
        /\ \A l \in Occupied(RQ) : /\ RQ'[l].instr_depend_on_me = RQ[l].instr_depend_on_me
                                   /\ RQ'[l].address = RQ[l].address
    BY <2>1, <2>2, <2>3 DEF Occupied
  <2>5. Pending' = Pending
    BY <2>4, SameSlots
  <2> QED BY <1>4, <1>6, <2>5 DEF Keep
<1> QED BY <1>2, <1>3, <1>5, <1>6

LEMMA PromiseStep ==
  ASSUME Inv, [Next]_vars
  PROVE  Promise!Next \/ UNCHANGED Promise!abstractVars
<1>1. CASE UNCHANGED <<queues, answers>>
  BY <1>1, NothingLeaves DEF SameContent, queues
<1>2. CASE Operate
  <2>1. CASE BeginOperate \/ EndFlush \/ EndCheckWrite \/ EndCheckRead \/ NothingFinishes
               \/ KeepWriteMode \/ ScheduleRefresh \/ BusIdleOrCongested
               \/ (\E b \in Bank : PopulateDbus(b)) \/ NothingServiced
    BY <1>1, <2>1 DEF BeginOperate, EndFlush, EndCheckWrite, EndCheckRead, NothingFinishes, KeepWriteMode,
                      ScheduleRefresh, BusIdleOrCongested, PopulateDbus, NothingServiced
  <2>2. ASSUME NEW k \in RSlot, FlushRead(k)
        PROVE  Promise!Next
    <3>1. k \in Occupied(RQ) /\ ReadLeaves(k)
      BY <2>2, ReadGone DEF FlushRead, ReadLeaves, Inv
    <3> QED BY <3>1, ReadLeavesAnswers
  <2>3. ASSUME NEW k \in WSlot, FlushWrite(k)
        PROVE  Promise!Next
    <3>1. k \in Occupied(WQ) /\ WriteLeaves(k)
      BY <2>3, WriteGone DEF FlushWrite, WriteLeaves, Inv
    <3> QED BY <3>1, WriteLeavesDrains
  <2>4. CASE CheckWrite \/ CheckRead
    BY <2>4, CheckWriteOwes, CheckReadKeepsWaiters
  <2>5. CASE FinishRequest
    BY <2>5, FinishLeaves, ReadLeavesAnswers, WriteLeavesDrains
  <2>6. CASE SwapWriteMode
    BY <2>6, SwapWriteModeKeeps, NothingLeaves DEF SwapWriteMode
  <2>7. ASSUME NEW k, ServicePacket(ServedQueue, k)
        PROVE  UNCHANGED Promise!abstractVars
    <3>1. UNCHANGED answers
      BY <2>7 DEF ServicePacket
    <3> QED BY <2>7, <3>1, ServicePacketKeeps, NothingLeaves
  <2> QED BY <1>2, <2>1, <2>2, <2>3, <2>4, <2>5, <2>6, <2>7 DEF Operate
<1>3. CASE Between
  <2>1. CASE (\E b \in Bank : BankReady(b)) \/ BusReady \/ BeginPhase
    BY <1>1, <2>1 DEF BankReady, BusReady, BeginPhase
  <2>2. CASE (\E b \in Block, D \in SUBSET Instr : AddRQ(b, D)) \/ \E b \in Block : AddWQ(b)
    BY <2>2, AddRQAsks, AddWQWrites
  <2>3. CASE \E r \in returned : PickUp(r)
    BY <2>3, PickUpPicks
  <2> QED BY <1>3, <2>1, <2>2, <2>3 DEF Between
<1> QED BY <1>1, <1>2, <1>3 DEF Next, vars, queues, answers

\* For every set of blocks, banks and ids and every queue length the channel keeps the
\* promise of RequestReply: merging, forwarding, withdrawing and finishing requests
\* loses no waiter and no write and answers each id once, for its own block
\* (dram_controller.cc:94-162, 424-493).
THEOREM DramKeepsPromise == Spec => KeepsPromise
<1>1. Init => Promise!Init
  BY DEF Init, Promise!Init, Pending, Answered, Occupied
<1>2. Inv /\ [Next]_vars => [Promise!Next]_(Promise!abstractVars)
  BY PromiseStep
<1> QED BY <1>1, <1>2, Invariance, PTL DEF Spec, Promise!Spec, KeepsPromise
=============================================================================
