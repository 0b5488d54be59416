---------------------------- MODULE DramChannel ----------------------------
(***************************************************************************)
(* DRAM_CHANNEL (src/dram_controller.cc), with the part of                 *)
(* MEMORY_CONTROLLER that fills its queues.  A request waits in a slot of  *)
(* RQ or WQ, is scheduled to its bank, then takes the data bus, and leaves *)
(* when its data is through.  Banks are refreshed between requests, and    *)
(* the channel changes between reading and writing by the length of the    *)
(* queues.                                                                 *)
(*                                                                         *)
(* operate() calls its parts in a fixed order; stage says which is next.   *)
(* A loop that looks at the slots one by one is one step per slot.         *)
(*                                                                         *)
(* Time.  Latencies, open rows and bank groups decide only WHEN something  *)
(* is ready, so time is left open: ready says that the ready_time of a     *)
(* bank has passed, bus_free that dbus_cycle_available has, and a refresh  *)
(* is due whenever it likes.  Where the code takes the earliest of several *)
(* (min_element over ready_time) any of them may be taken.                 *)
(*                                                                         *)
(* An address is its block: is_collision ignores the offset.  A request    *)
(* that wants no response has no instr_depend_on_me; one that does has the *)
(* ids that wait for it there, listed by the code or known to the sender.  *)
(***************************************************************************)
EXTENDS Naturals, FiniteSets

CONSTANTS Block,
          Bank, BankOf,       \* the banks, and the bank of each block
          NoBank,             \* active_request = end(bank_request)
          NoRequest,          \* an empty slot
          NoPacket,           \* the iterator of a bank without a request
          Instr,              \* ids that can wait for a response
          RQ_SIZE, WQ_SIZE,
          refreshes           \* do refreshes become due, or is the run shorter?

ASSUME DramAssumption ==
  /\ BankOf \in [Block -> Bank]
  /\ NoBank \notin Bank
  /\ NoRequest \notin [address : Block, instr_depend_on_me : SUBSET Instr,
                       scheduled : BOOLEAN, forward_checked : BOOLEAN]
  /\ RQ_SIZE \in Nat \ {0} /\ WQ_SIZE \in Nat \ {0}
  /\ refreshes \in BOOLEAN

VARIABLES RQ, WQ,             \* the slots
          bank_request,       \* what each bank does
          active_request,     \* the bank whose request is on the data bus
          write_mode,
          bus_free,           \* dbus_cycle_available has passed
          warmup,
          stage,              \* the part of operate() that is next
          returned,           \* the responses that are not picked up yet
          written             \* history: the last block written, as a set

vars == <<RQ, WQ, bank_request, active_request, write_mode, bus_free, warmup,
          stage, returned, written>>

queues == <<RQ, WQ>>
answers == <<returned, written>>
banks == <<bank_request, active_request, bus_free>>

Request == [address : Block, instr_depend_on_me : SUBSET Instr,
            scheduled : BOOLEAN, forward_checked : BOOLEAN]

Response == [address : Block, instr_depend_on_me : SUBSET Instr]

RSlot == 1..RQ_SIZE
WSlot == 1..WQ_SIZE

\* pkt, the iterator of a bank: a queue and a slot of it.
Packet == ({"RQ"} \X RSlot) \cup ({"WQ"} \X WSlot)

BankRequest == [valid : BOOLEAN, need_refresh : BOOLEAN, under_refresh : BOOLEAN,
                ready : BOOLEAN, pkt : Packet \cup {NoPacket}]

Stage == {"add", "warmup", "check_write", "check_read", "finish", "swap", "refresh",
          "populate", "schedule"}

\* A bank with no request to serve.  Its pkt and ready_time stay behind in the
\* code, where nothing reads them until they are set again.
Released(r) == [r EXCEPT !.valid = FALSE, !.ready = FALSE, !.pkt = NoPacket]

-----------------------------------------------------------------------------
(* Slots and packets *)

Occupied(q) == {k \in DOMAIN q : q[k] # NoRequest}

PacketAt(pkt) == IF pkt[1] = "RQ" THEN RQ[pkt[2]] ELSE WQ[pkt[2]]

\* The queue that is served in this mode.
ServedQueue == IF write_mode THEN "WQ" ELSE "RQ"

Served == IF write_mode THEN WQ ELSE RQ

\* Slots of the queue pkt is in, with pkt as packet p.
With(q, name, pkt, p) == IF pkt[1] = name THEN [q EXCEPT ![pkt[2]] = p] ELSE q

NewRequest(b, D) ==
  [address |-> b, instr_depend_on_me |-> D, scheduled |-> FALSE, forward_checked |-> FALSE]

\* The responses that p brings about.
ResponsesTo(p) ==
  {r \in {[address |-> p.address, instr_depend_on_me |-> p.instr_depend_on_me]} :
     p.instr_depend_on_me # {}}

-----------------------------------------------------------------------------
Init ==
  /\ RQ = [k \in RSlot |-> NoRequest]
  /\ WQ = [k \in WSlot |-> NoRequest]
  /\ bank_request = [b \in Bank |-> [valid |-> FALSE, need_refresh |-> FALSE,
                                     under_refresh |-> FALSE, ready |-> FALSE, pkt |-> NoPacket]]
  /\ active_request = NoBank
  /\ write_mode = FALSE /\ bus_free = TRUE
  /\ warmup = TRUE
  /\ stage = "add"
  /\ returned = {} /\ written = {}

-----------------------------------------------------------------------------
(* MEMORY_CONTROLLER::initiate_requests, and what happens between two cycles *)

WaitingIn(S) == UNION {x.instr_depend_on_me : x \in S}

Waiting == WaitingIn({RQ[k] : k \in Occupied(RQ)}) \cup WaitingIn(returned)

FirstEmpty(q, k) ==
  /\ k \in DOMAIN q \ Occupied(q)
  /\ \A j \in DOMAIN q \ Occupied(q) : k <= j

\* add_rq, for the read and the prefetch queue of a channel above.
AddRQ(b, D) ==
  /\ stage = "add"
  /\ D \cap Waiting = {}
  /\ \E k \in RSlot : FirstEmpty(RQ, k) /\ RQ' = [RQ EXCEPT ![k] = NewRequest(b, D)]
  /\ UNCHANGED <<WQ, banks, write_mode, warmup, stage, answers>>

AddWQ(b) ==
  /\ stage = "add"
  /\ \E k \in WSlot : FirstEmpty(WQ, k) /\ WQ' = [WQ EXCEPT ![k] = NewRequest(b, {})]
  /\ UNCHANGED <<RQ, banks, write_mode, warmup, stage, answers>>

PickUp(r) ==
  /\ stage = "add"
  /\ returned' = returned \ {r}
  /\ UNCHANGED <<queues, banks, write_mode, warmup, stage, written>>

\* The ready_time of bank b passes.
BankReady(b) ==
  /\ stage = "add"
  /\ bank_request[b].valid \/ bank_request[b].under_refresh
  /\ ~bank_request[b].ready
  /\ bank_request' = [bank_request EXCEPT ![b].ready = TRUE]
  /\ UNCHANGED <<queues, active_request, bus_free, write_mode, warmup, stage, answers>>

BusReady ==
  /\ stage = "add"
  /\ ~bus_free
  /\ bus_free' = TRUE
  /\ UNCHANGED <<queues, bank_request, active_request, write_mode, warmup, stage, answers>>

\* The first phase is the warmup, the second is not (main.cc:112).
BeginPhase ==
  /\ stage = "add"
  /\ warmup
  /\ warmup' = FALSE
  /\ UNCHANGED <<queues, banks, write_mode, stage, answers>>

-----------------------------------------------------------------------------
(* operate: the warmup *)

BeginOperate ==
  /\ stage = "add"
  /\ stage' = IF warmup THEN "warmup" ELSE "check_write"
  /\ UNCHANGED <<queues, banks, write_mode, warmup, answers>>

FlushRead(k) ==
  /\ stage = "warmup"
  /\ k \in Occupied(RQ)
  /\ returned' = returned \cup ResponsesTo(RQ[k])
  /\ RQ' = [RQ EXCEPT ![k] = NoRequest]
  /\ UNCHANGED <<WQ, banks, write_mode, warmup, stage, written>>

FlushWrite(k) ==
  /\ stage = "warmup"
  /\ Occupied(RQ) = {}
  /\ k \in Occupied(WQ)
  /\ WQ' = [WQ EXCEPT ![k] = NoRequest]
  /\ written' = {WQ[k].address}
  /\ UNCHANGED <<RQ, banks, write_mode, warmup, stage, returned>>

EndFlush ==
  /\ stage = "warmup"
  /\ Occupied(RQ) = {} /\ Occupied(WQ) = {}
  /\ stage' = "check_write"
  /\ UNCHANGED <<queues, banks, write_mode, warmup, answers>>

-----------------------------------------------------------------------------
(* check_write_collision and check_read_collision *)

Unchecked(q) == {k \in Occupied(q) : ~q[k].forward_checked}

\* The next slot the loop over q stops at.
FirstUnchecked(q, k) == k \in Unchecked(q) /\ \A j \in Unchecked(q) : k <= j

\* The entries of q, other than slot k, that hold the block.
Colliding(q, k, block) == {j \in Occupied(q) \ {k} : q[j].address = block}

Checked(q, k) == [q EXCEPT ![k].forward_checked = TRUE]

CheckWriteForwardOnly ==  \* mutant
  /\ stage = "check_write"
  /\ \E k \in WSlot :
       /\ FirstUnchecked(WQ, k)
       /\ WQ' = IF \E j \in Colliding(WQ, k, WQ[k].address) : j < k
                  THEN [WQ EXCEPT ![k] = NoRequest]
                  ELSE Checked(WQ, k)
  /\ UNCHANGED <<RQ, banks, write_mode, warmup, stage, answers>>

\* A write for a block that is in the queue already, before or behind, is dropped.
CheckWrite ==
  /\ stage = "check_write"
  /\ \E k \in WSlot :
       /\ FirstUnchecked(WQ, k)
       /\ WQ' = IF Colliding(WQ, k, WQ[k].address) # {}
                  THEN [WQ EXCEPT ![k] = NoRequest]
                  ELSE Checked(WQ, k)
  /\ UNCHANGED <<RQ, banks, write_mode, warmup, stage, answers>>

EndCheckWrite ==
  /\ stage = "check_write"
  /\ Unchecked(WQ) = {}
  /\ stage' = "check_read"
  /\ UNCHANGED <<queues, banks, write_mode, warmup, answers>>

\* The read is answered from a queued write.
Forward(k) ==
  /\ Colliding(WQ, 0, RQ[k].address) # {}
  /\ returned' = returned \cup ResponsesTo(RQ[k])
  /\ RQ' = [RQ EXCEPT ![k] = NoRequest]

\* The entry the read merges into: the first before it, or else the first behind.
MergesInto(k, j) ==
  LET found == Colliding(RQ, k, RQ[k].address)
  IN  /\ j \in found
      /\ j < k => \A i \in found : j <= i
      /\ j > k => \A i \in found : i > k /\ j <= i

MergeForgetsWaiters(k) ==  \* mutant
  /\ Colliding(WQ, 0, RQ[k].address) = {}
  /\ \E j \in RSlot : MergesInto(k, j) /\ RQ' = [RQ EXCEPT ![k] = NoRequest]
  /\ UNCHANGED returned

Merge(k) ==
  /\ Colliding(WQ, 0, RQ[k].address) = {}
  /\ \E j \in RSlot :
       /\ MergesInto(k, j)
       /\ RQ' = [RQ EXCEPT ![j].instr_depend_on_me = @ \cup RQ[k].instr_depend_on_me,
                           ![k] = NoRequest]
  /\ UNCHANGED returned

Keep(k) ==
  /\ Colliding(WQ, 0, RQ[k].address) = {} /\ Colliding(RQ, k, RQ[k].address) = {}
  /\ RQ' = Checked(RQ, k)
  /\ UNCHANGED returned

CheckRead ==
  /\ stage = "check_read"
  /\ \E k \in RSlot : FirstUnchecked(RQ, k) /\ (Forward(k) \/ Merge(k) \/ Keep(k))
  /\ UNCHANGED <<WQ, banks, write_mode, warmup, stage, written>>

EndCheckRead ==
  /\ stage = "check_read"
  /\ Unchecked(RQ) = {}
  /\ stage' = "finish"
  /\ UNCHANGED <<queues, banks, write_mode, warmup, answers>>

-----------------------------------------------------------------------------
(* The order of the other parts *)

AfterRefreshFirst(s) ==  \* mutant
  CASE s = "finish" -> "refresh"
    [] s = "refresh" -> "swap"
    [] s = "swap" -> "populate"
    [] s = "populate" -> "schedule"
    [] s = "schedule" -> "add"

After(s) ==
  CASE s = "finish" -> "swap"
    [] s = "swap" -> "refresh"
    [] s = "refresh" -> "populate"
    [] s = "populate" -> "schedule"
    [] s = "schedule" -> "add"

-----------------------------------------------------------------------------
(* finish_dbus_request *)

BusDone == active_request # NoBank /\ bank_request[active_request].ready

FinishRequest ==
  /\ stage = "finish"
  /\ BusDone
  /\ LET pkt == bank_request[active_request].pkt
     IN  /\ returned' = returned \cup ResponsesTo(PacketAt(pkt))
         /\ written' = IF pkt[1] = "WQ" THEN {PacketAt(pkt).address} ELSE written
         /\ RQ' = With(RQ, "RQ", pkt, NoRequest)
         /\ WQ' = With(WQ, "WQ", pkt, NoRequest)
  /\ bank_request' = [bank_request EXCEPT ![active_request] = Released(@)]
  /\ active_request' = NoBank
  /\ stage' = After(stage)
  /\ UNCHANGED <<bus_free, write_mode, warmup>>

NothingFinishes ==
  /\ stage = "finish"
  /\ ~BusDone
  /\ stage' = After(stage)
  /\ UNCHANGED <<queues, banks, write_mode, warmup, answers>>

-----------------------------------------------------------------------------
(* swap_write_mode *)

HighWMTruncated == 7 * (WQ_SIZE \div 8)  \* mutant

DRAM_WRITE_HIGH_WM == (WQ_SIZE * 7) \div 8

DRAM_WRITE_LOW_WM == (WQ_SIZE * 6) \div 8

wq_occu == Cardinality(Occupied(WQ))
rq_occu == Cardinality(Occupied(RQ))

UnbalancedWithoutLowWM ==  \* mutant
  \/ ~write_mode /\ (wq_occu >= DRAM_WRITE_HIGH_WM \/ (rq_occu = 0 /\ wq_occu > 0))
  \/ write_mode /\ (wq_occu = 0 \/ rq_occu > 0)

Unbalanced ==
  \/ ~write_mode /\ (wq_occu >= DRAM_WRITE_HIGH_WM \/ (rq_occu = 0 /\ wq_occu > 0))
  \/ write_mode /\ (wq_occu = 0 \/ (rq_occu > 0 /\ wq_occu < DRAM_WRITE_LOW_WM))

WithdrawnIfNotReady ==  \* mutant
  {b \in Bank : b # active_request /\ bank_request[b].valid /\ ~bank_request[b].ready}

\* The banks whose request has not reached the data bus.
Withdrawn == {b \in Bank : b # active_request /\ bank_request[b].valid}

UnscheduledForgotten(q, name) == q  \* mutant

Unscheduled(q, name) ==
  [k \in DOMAIN q |->
     IF \E b \in Withdrawn : bank_request[b].pkt = <<name, k>>
       THEN [q[k] EXCEPT !.scheduled = FALSE]
       ELSE q[k]]

SwapWriteMode ==
  /\ stage = "swap"
  /\ Unbalanced
  /\ bank_request' = [b \in Bank |-> IF b \in Withdrawn
                                       THEN Released(bank_request[b])
                                       ELSE bank_request[b]]
  /\ RQ' = Unscheduled(RQ, "RQ")
  /\ WQ' = Unscheduled(WQ, "WQ")
  /\ bus_free' = FALSE
  /\ write_mode' = ~write_mode
  /\ stage' = After(stage)
  /\ UNCHANGED <<active_request, warmup, answers>>

KeepWriteMode ==
  /\ stage = "swap"
  /\ ~Unbalanced
  /\ stage' = After(stage)
  /\ UNCHANGED <<queues, banks, write_mode, warmup, answers>>

-----------------------------------------------------------------------------
(* schedule_refresh *)

RefreshedAtOnce(r, due) ==  \* mutant
  IF due \/ r.need_refresh
    THEN [r EXCEPT !.need_refresh = FALSE, !.under_refresh = TRUE, !.ready = FALSE]
    ELSE [r EXCEPT !.under_refresh = @ /\ ~r.ready, !.ready = @ /\ ~r.under_refresh]

\* What becomes of a bank, due being whether a refresh has become due.
Refreshed(r, due) ==
  IF (due \/ r.need_refresh) /\ ~r.valid
    THEN [r EXCEPT !.need_refresh = FALSE, !.under_refresh = TRUE, !.ready = FALSE]
    ELSE [r EXCEPT !.need_refresh = due \/ @,
                   !.under_refresh = @ /\ ~r.ready,
                   !.ready = @ /\ ~r.under_refresh]

\* A refresh is due when current_time >= last_refresh + tREF, at any time.
ScheduleRefresh ==
  /\ stage = "refresh"
  /\ \E due \in BOOLEAN :
       /\ due => refreshes
       /\ bank_request' = [b \in Bank |-> Refreshed(bank_request[b], due)]
  /\ stage' = After(stage)
  /\ UNCHANGED <<queues, active_request, bus_free, write_mode, warmup, answers>>

-----------------------------------------------------------------------------
(* populate_dbus *)

MayTakeBus(b) ==
  /\ bank_request[b].valid /\ bank_request[b].ready
  /\ active_request = NoBank /\ bus_free

PopulateDbus(b) ==
  /\ stage = "populate"
  /\ MayTakeBus(b)
  /\ active_request' = b
  /\ bank_request' = [bank_request EXCEPT ![b].ready = FALSE]
  /\ stage' = After(stage)
  /\ UNCHANGED <<queues, bus_free, write_mode, warmup, answers>>

BusIdleOrCongested ==
  /\ stage = "populate"
  /\ \A b \in Bank : ~MayTakeBus(b)
  /\ stage' = After(stage)
  /\ UNCHANGED <<queues, banks, write_mode, warmup, answers>>

-----------------------------------------------------------------------------
(* schedule_packet and service_packet *)

Schedulable == {k \in Occupied(Served) : ~Served[k].scheduled}

BankFree(k) == ~bank_request[BankOf[Served[k].address]].valid

\* A packet whose bank has no request comes first.
MayBeNext(k) ==
  /\ k \in Schedulable
  /\ BankFree(k) \/ \A j \in Schedulable : ~BankFree(j)

CanBeServiced(k) ==
  LET r == bank_request[BankOf[Served[k].address]]
  IN  ~r.valid /\ ~r.under_refresh

ServicePacket(name, k) ==
  /\ stage = "schedule"
  /\ name = ServedQueue
  /\ MayBeNext(k)
  /\ CanBeServiced(k)
  /\ bank_request' = [bank_request EXCEPT ![BankOf[Served[k].address]] =
                        [valid |-> TRUE, need_refresh |-> FALSE, under_refresh |-> FALSE,
                         ready |-> FALSE, pkt |-> <<name, k>>]]
  /\ RQ' = With(RQ, "RQ", <<name, k>>, [Served[k] EXCEPT !.scheduled = TRUE])
  /\ WQ' = With(WQ, "WQ", <<name, k>>, [Served[k] EXCEPT !.scheduled = TRUE])
  /\ stage' = After(stage)
  /\ UNCHANGED <<active_request, bus_free, write_mode, warmup, answers>>

\* Nothing is scheduled, because nothing waits or because the packet that came
\* first has to wait for its bank.
NothingServiced ==
  /\ stage = "schedule"
  /\ Schedulable = {} \/ \E k \in Schedulable : MayBeNext(k) /\ ~CanBeServiced(k)
  /\ stage' = After(stage)
  /\ UNCHANGED <<queues, banks, write_mode, warmup, answers>>

-----------------------------------------------------------------------------
Operate ==
  \/ BeginOperate \/ EndFlush
  \/ \E k \in RSlot : FlushRead(k)
  \/ \E k \in WSlot : FlushWrite(k)
  \/ CheckWrite \/ EndCheckWrite \/ CheckRead \/ EndCheckRead
  \/ FinishRequest \/ NothingFinishes
  \/ SwapWriteMode \/ KeepWriteMode
  \/ ScheduleRefresh
  \/ BusIdleOrCongested \/ \E b \in Bank : PopulateDbus(b)
  \/ NothingServiced \/ \E k \in RSlot \cup WSlot : ServicePacket(ServedQueue, k)

Between ==
  \/ \E b \in Block, D \in SUBSET Instr : AddRQ(b, D)
  \/ \E b \in Block : AddWQ(b)
  \/ \E r \in returned : PickUp(r)
  \/ \E b \in Bank : BankReady(b)
  \/ BusReady \/ BeginPhase

Next == Operate \/ Between

Spec == Init /\ [][Next]_vars

\* The driver operates the channel again and again, and latencies are finite.
TimePasses ==
  /\ WF_vars(Operate)
  /\ SF_vars(BusReady)
  /\ \A b \in Bank : SF_vars(BankReady(b))

\* Of the requests that are ready for the bus, and of the reads that could be
\* scheduled, the oldest goes first, so each has its turn: none that comes
\* later overtakes it for ever.  Of the writes it is enough that one is scheduled.
OldestFirst ==
  /\ \A b \in Bank : SF_vars(PopulateDbus(b))
  /\ \A k \in RSlot : SF_vars(ServicePacket("RQ", k))
  /\ SF_vars(\E k \in WSlot : ServicePacket("WQ", k))

Fairness == TimePasses /\ OldestFirst

FairSpec == Spec /\ Fairness
-----------------------------------------------------------------------------
(* What the channel promises: RequestReply, under this mapping.              *)

Pending ==
  UNION {RQ[k].instr_depend_on_me \X {RQ[k].address} \X {TRUE} : k \in Occupied(RQ)}

Answered == UNION {r.instr_depend_on_me \X {r.address} : r \in returned}

Promise ==
  INSTANCE RequestReply
    WITH Waiter <- Instr, Translation <- {TRUE}, Tag <- Block,
         pending <- Pending, answered <- Answered,
         unwritten <- {<<WQ[k].address, TRUE>> : k \in Occupied(WQ)},
         written <- {<<b, TRUE>> : b \in written}

\* Merging, forwarding, withdrawing and finishing requests loses no waiter and
\* no write and answers each id for its own block (dram_controller.cc:94-162,
\* 424-493).
KeepsPromise == Promise!Spec

-----------------------------------------------------------------------------
(* Invariants *)

\* The types of the variables.
TypeOK ==
  /\ RQ \in [RSlot -> Request \cup {NoRequest}]
  /\ WQ \in [WSlot -> Request \cup {NoRequest}]
  /\ bank_request \in [Bank -> BankRequest]
  /\ active_request \in Bank \cup {NoBank}
  /\ write_mode \in BOOLEAN /\ bus_free \in BOOLEAN /\ warmup \in BOOLEAN
  /\ stage \in Stage
  /\ returned \subseteq Response
  /\ written \subseteq Block

BusyBank == {b \in Bank : bank_request[b].valid}

ScheduledPackets ==
  {pkt \in Packet : PacketAt(pkt) # NoRequest /\ PacketAt(pkt).scheduled}

\* A busy bank and its packet point at each other: the iterator of the bank
\* leads to a request that is scheduled and belongs to that bank, and every
\* scheduled request is the one of some bank (dram_controller.cc:226-231,
\* 354-358).  A request that were scheduled without a bank would wait for ever.
BanksHoldTheirPackets ==
  /\ \A b \in BusyBank :
       /\ bank_request[b].pkt \in ScheduledPackets
       /\ BankOf[PacketAt(bank_request[b].pkt).address] = b
  /\ \A pkt \in ScheduledPackets :
       bank_request[BankOf[PacketAt(pkt).address]].pkt = pkt
         /\ BankOf[PacketAt(pkt).address] \in BusyBank
  /\ active_request # NoBank => active_request \in BusyBank

\* Outside of the data bus only requests of the current mode are under way
\* (dram_controller.cc:218-233).
ModeOwnsTheBanks ==
  \A b \in BusyBank \ {active_request} : bank_request[b].pkt[1] = ServedQueue

\* What a bank and a request say of each other is true in every mode, through every
\* withdrawal.
BanksServeTheMode == BanksHoldTheirPackets /\ ModeOwnsTheBanks

\* The collision checks leave no two entries for a block in a queue, and they
\* have passed over every request before it can be scheduled, so they never
\* empty a slot that a bank points at (dram_controller.cc:424-493).
ChecksPrecedeScheduling ==
  /\ \A pkt \in ScheduledPackets : PacketAt(pkt).forward_checked
  /\ \A k, j \in Occupied(RQ) :
       k # j /\ RQ[k].forward_checked /\ RQ[j].forward_checked => RQ[k].address # RQ[j].address
  /\ \A k, j \in Occupied(WQ) :
       k # j /\ WQ[k].forward_checked /\ WQ[j].forward_checked => WQ[k].address # WQ[j].address

\* An id waits in one slot or in one response, so it is answered once.
IdsWaitOnce ==
  /\ \A k, j \in Occupied(RQ) :
       k # j => RQ[k].instr_depend_on_me \cap RQ[j].instr_depend_on_me = {}
  /\ \A r, s \in returned : r # s => r.instr_depend_on_me \cap s.instr_depend_on_me = {}
  /\ WaitingIn({RQ[k] : k \in Occupied(RQ)}) \cap WaitingIn(returned) = {}

\* The slots hold what the checks leave in them: each waiter once, each block once,
\* nothing scheduled that is not checked.
ChecksKeepTheSlots == TypeOK /\ IdsWaitOnce /\ ChecksPrecedeScheduling

\* No bank is refreshed while it serves a request (dram_controller.cc:186, 350).
RefreshesAlone == \A b \in BusyBank : ~bank_request[b].under_refresh

-----------------------------------------------------------------------------
(* Action properties *)

\* A refresh that is due is never forgotten: the next thing its bank does after
\* the request it is busy with is the refresh, although service_packet clears
\* the flag (dram_controller.cc:186-190, 354).
DueRefreshComesNext ==
  [][\A b \in Bank :
       bank_request[b].need_refresh =>
         \/ bank_request'[b].need_refresh
         \/ bank_request'[b].under_refresh]_vars

-----------------------------------------------------------------------------
(* Liveness *)

IsWaiting(i) == \E k \in Occupied(RQ) : i \in RQ[k].instr_depend_on_me

\* Every read is answered, unless writes keep coming for ever: bursts of them
\* withdraw reads that are under way (dram_controller.cc:216-233).
ReadsAreAnswered ==
  (\A i \in Instr : IsWaiting(i) ~> ~IsWaiting(i)) \/ []<><<\E b \in Block : AddWQ(b)>>_vars

\* The data of a write is through, and its slot becomes empty.
AWriteFinishes == FinishRequest /\ WQ' # WQ

\* A write queue that stays at its high watermark or above is served again and
\* again, although reads wait and writes keep coming: new writes may keep it full
\* for ever, but changes of mode do not keep its writes from the bus
\* (dram_controller.cc:204-244, 495-508).
FullWriteQueueIsServed ==
  <>[](wq_occu >= DRAM_WRITE_HIGH_WM) => []<><<AWriteFinishes>>_vars
=============================================================================
