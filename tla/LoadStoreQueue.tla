---------------------------- MODULE LoadStoreQueue ----------------------------
(***************************************************************************)
(* The load and store queues of O3_CPU (src/ooo_cpu.cc) with the parts of  *)
(* the reorder buffer that they use.  A load that finds an older store to  *)
(* its address in the store queue gets its value from that store: at once  *)
(* if the store has executed, or else when it does.  Any other load is     *)
(* sent to the L1D and ends when an answer for its block comes back.  A    *)
(* store is sent to the L1D after its instruction has retired.             *)
(*                                                                         *)
(* operate() runs the loops named by stage in this order, one iteration a  *)
(* step.  How many iterations fit in a cycle depends on bandwidths and     *)
(* refusals by the L1D, so a loop may stop at any time (NextLoop).         *)
(*                                                                         *)
(* Registers are left to ReorderBuffer: here an instruction may execute as *)
(* soon as it is in the reorder buffer.  executed says that it has been    *)
(* executed and that EXEC_LATENCY has passed, which is when ready_time of  *)
(* the instruction and of its queue entries passes.                        *)
(***************************************************************************)
EXTENDS Naturals, FiniteSets, SequencesExt

CONSTANTS Address, Block, BlockOf,   \* virtual addresses and their blocks
          Operation,                 \* source_memory and destination_memory of the
                                     \* instructions that occur
          ROB_SIZE, LQ_SIZE, SQ_SIZE,
          NoEntry,                   \* an empty slot of the load queue
          NoProducer,                \* producer_id of a load that waits for no store
          MaxInstr,                  \* bound: instructions in the trace
          MaxRequests                \* bound: reads the L1D holds

ASSUME LSQAssumption ==
  /\ BlockOf \in [Address -> Block]
  /\ Operation \subseteq [source_memory : Seq(Address), destination_memory : Seq(Address)]
  /\ ROB_SIZE \in Nat \ {0} /\ LQ_SIZE \in Nat \ {0} /\ SQ_SIZE \in Nat \ {0}
  /\ MaxInstr \in Nat /\ MaxRequests \in Nat \ {0}
  /\ NoProducer \notin 1..MaxInstr

VARIABLES ROB,
          LQ,         \* the slots of the load queue
          SQ,         \* the store queue, oldest first
          stage,      \* the loop of operate() that runs, or "between" two cycles
          operands,   \* what do_memory_scheduling still has to schedule
          next_id,    \* id of the next instruction of the trace
          requested,  \* external: how many reads of each block the L1D holds
          returned,   \* the answers of the L1D, by block
          memory,     \* history: the store that the L1D has for each address
          ended       \* history: the loads that ended last, with their values

vars == <<ROB, LQ, SQ, stage, operands, next_id, requested, returned, memory, ended>>

Slot == 1..LQ_SIZE

Instruction == [instr_id : 1..MaxInstr, num_mem_ops : Nat, completed_mem_ops : Nat,
                executed : BOOLEAN, completed : BOOLEAN]

LoadEntry == [instr_id : 1..MaxInstr, virtual_address : Address, fetch_issued : BOOLEAN,
              producer_id : 1..MaxInstr \cup {NoProducer}]

ASSUME NoEntryAssumption == NoEntry \notin LoadEntry

StoreEntry == [instr_id : 1..MaxInstr, virtual_address : Address, fetch_issued : BOOLEAN,
               lq_depend_on_me : SUBSET Slot]

Loops == <<"retire", "complete", "execute", "return", "finish", "write", "load", "dispatch">>

Stage == ToSet(Loops) \cup {"between", "schedule"}

-----------------------------------------------------------------------------
Allocated == {q \in Slot : LQ[q] # NoEntry}

FreeSlots == Slot \ Allocated

IsExecuted(id) == \E k \in DOMAIN ROB : ROB[k].instr_id = id /\ ROB[k].executed

CountedOnce(x, S, ids) ==  \* mutant
  [x EXCEPT !.completed_mem_ops =
     IF x.instr_id \in ids \cup {LQ[q].instr_id : q \in S} THEN @ + 1 ELSE @]

\* LSQ_ENTRY::finish for each load of the slots S and each store of ids: the
\* instructions they belong to count them.
CountedBy(x, S, ids) ==
  [x EXCEPT !.completed_mem_ops =
     @ + Cardinality({q \in S : LQ[q].instr_id = x.instr_id})
       + (IF x.instr_id \in ids THEN 1 ELSE 0)]

Finish(S, ids) == ROB' = [k \in DOMAIN ROB |-> CountedBy(ROB[k], S, ids)]

Release(S) == LQ' = [q \in Slot |-> IF q \in S THEN NoEntry ELSE LQ[q]]

\* The value of the load in slot q: its store's, or else what the L1D has.
ValueOf(e) == IF e.producer_id = NoProducer THEN memory[e.virtual_address] ELSE e.producer_id

InFlight(S) == {[token |-> q, address |-> LQ[q].virtual_address, value |-> ValueOf(LQ[q])] : q \in S}

-----------------------------------------------------------------------------
Init ==
  /\ ROB = <<>> /\ SQ = <<>>
  /\ LQ = [q \in Slot |-> NoEntry]
  /\ stage = "between"
  /\ operands = [source_memory |-> <<>>, destination_memory |-> <<>>]
  /\ next_id = 1
  /\ requested = [b \in Block |-> 0] /\ returned = <<>>
  /\ memory = [a \in Address |-> 0]
  /\ ended = {}

BeginCycle ==
  /\ stage = "between"
  /\ stage' = "retire"
  /\ UNCHANGED <<ROB, LQ, SQ, operands, next_id, requested, returned, memory, ended>>

\* The loop that runs stops, and the next begins.
NextLoop ==
  /\ \E k \in DOMAIN Loops :
       /\ stage = Loops[k]
       /\ stage' = IF k = Len(Loops) THEN "between" ELSE Loops[k + 1]
  /\ UNCHANGED <<ROB, LQ, SQ, operands, next_id, requested, returned, memory, ended>>

\* External: the L1D answers its reads of block b, one or several at once.
L1DAnswers(b) ==
  /\ stage = "between"
  /\ \E n \in 0..(requested[b] - 1) : requested' = [requested EXCEPT ![b] = n]
  /\ requested[b] > 0
  /\ returned' = Append(returned, b)
  /\ UNCHANGED <<ROB, LQ, SQ, stage, operands, next_id, memory, ended>>

-----------------------------------------------------------------------------
(* The reorder buffer *)

\* retire_rob
Retire ==
  /\ stage = "retire"
  /\ ROB # <<>> /\ Head(ROB).completed
  /\ ROB' = Tail(ROB)
  /\ UNCHANGED <<LQ, SQ, stage, operands, next_id, requested, returned, memory, ended>>

CanComplete(x) == x.executed /\ ~x.completed /\ x.completed_mem_ops = x.num_mem_ops

\* complete_inflight_instruction
Complete(k) ==
  /\ stage = "complete"
  /\ k \in DOMAIN ROB /\ CanComplete(ROB[k])
  /\ ROB' = [ROB EXCEPT ![k].completed = TRUE]
  /\ UNCHANGED <<LQ, SQ, stage, operands, next_id, requested, returned, memory, ended>>

\* do_execution, and EXEC_LATENCY passes.
Execute(k) ==
  /\ stage = "execute"
  /\ k \in DOMAIN ROB /\ ~ROB[k].executed
  /\ ROB' = [ROB EXCEPT ![k].executed = TRUE]
  /\ UNCHANGED <<LQ, SQ, stage, operands, next_id, requested, returned, memory, ended>>

-----------------------------------------------------------------------------
(* handle_memory_return *)

LoadsWithAnswer(b) ==  \* mutant
  {q \in Allocated : BlockOf[LQ[q].virtual_address] = b}

\* The loads that an answer for block b ends: all that have been sent.
LoadsOf(b) == {q \in Allocated : LQ[q].fetch_issued /\ BlockOf[LQ[q].virtual_address] = b}

HandleReturn ==
  /\ stage = "return"
  /\ returned # <<>>
  /\ LET S == LoadsOf(Head(returned))
     IN  Finish(S, {}) /\ Release(S) /\ ended' = InFlight(S)
  /\ returned' = Tail(returned)
  /\ UNCHANGED <<SQ, stage, operands, next_id, requested, memory>>

-----------------------------------------------------------------------------
(* operate_lsq *)

AnyUnissued(i) == i \in DOMAIN SQ /\ ~SQ[i].fetch_issued  \* mutant

\* unfetched_begin: the first store that has not executed.
FirstUnissued(i) ==
  /\ i \in DOMAIN SQ /\ ~SQ[i].fetch_issued
  /\ \A j \in 1..(i - 1) : SQ[j].fetch_issued

Dependents(i) == SQ[i].lq_depend_on_me

\* do_finish_store
FinishStore ==
  /\ stage = "finish"
  /\ \E i \in DOMAIN SQ :
       /\ FirstUnissued(i)
       /\ IsExecuted(SQ[i].instr_id)
       /\ Finish(Dependents(i), {SQ[i].instr_id})
       /\ Release(Dependents(i))
       /\ ended' = InFlight(Dependents(i))
       /\ SQ' = [SQ EXCEPT ![i].fetch_issued = TRUE]
  /\ UNCHANGED <<stage, operands, next_id, requested, returned, memory>>

IsIssued(x) == x.fetch_issued  \* mutant

IsOlderThanROB(x) == ROB # <<>> /\ x.instr_id < Head(ROB).instr_id  \* mutant

\* precedes(complete_id): the instruction of the store has retired.
IsRetired(x) == ROB # <<>> => x.instr_id < Head(ROB).instr_id

\* do_complete_store; if the L1D refuses the write, the loop ends.
WriteStore ==
  /\ stage = "write"
  /\ SQ # <<>> /\ IsRetired(Head(SQ))
  /\ memory' = [memory EXCEPT ![Head(SQ).virtual_address] = Head(SQ).instr_id]
  /\ SQ' = Tail(SQ)
  /\ UNCHANGED <<ROB, LQ, stage, operands, next_id, requested, returned, ended>>

CanIssue(q) ==
  /\ q \in Allocated
  /\ LQ[q].producer_id = NoProducer /\ ~LQ[q].fetch_issued
  /\ IsExecuted(LQ[q].instr_id)

\* execute_load; a read that the L1D refuses is tried again in the next cycle.
IssueLoad(q) ==
  /\ stage = "load"
  /\ CanIssue(q)
  /\ LET b == BlockOf[LQ[q].virtual_address]
     IN  requested[b] < MaxRequests /\ requested' = [requested EXCEPT ![b] = @ + 1]
  /\ LQ' = [LQ EXCEPT ![q].fetch_issued = TRUE]
  /\ UNCHANGED <<ROB, SQ, stage, operands, next_id, returned, memory, ended>>

-----------------------------------------------------------------------------
(* dispatch_instruction and do_memory_scheduling *)

SQHasRoom(o) == Len(o.destination_memory) + Len(SQ) <= SQ_SIZE

LQHasRoom(o) == Cardinality(FreeSlots) >= Len(o.source_memory)

Dispatch(o) ==
  /\ stage = "dispatch"
  /\ next_id <= MaxInstr
  /\ Len(ROB) # ROB_SIZE /\ LQHasRoom(o) /\ SQHasRoom(o)
  /\ ROB' = Append(ROB, [instr_id |-> next_id,
                         num_mem_ops |-> Len(o.source_memory) + Len(o.destination_memory),
                         completed_mem_ops |-> 0, executed |-> FALSE, completed |-> FALSE])
  /\ operands' = o
  /\ next_id' = next_id + 1
  /\ stage' = "schedule"
  /\ UNCHANGED <<LQ, SQ, requested, returned, memory, ended>>

\* std::max_element: of the stores to a the youngest, and of those of one
\* instruction the first.
YoungestStoreTo(a, i) ==
  /\ i \in DOMAIN SQ /\ SQ[i].virtual_address = a
  /\ \A j \in DOMAIN SQ :
       SQ[j].virtual_address = a =>
         SQ[j].instr_id < SQ[i].instr_id \/ (SQ[j].instr_id = SQ[i].instr_id /\ i <= j)

NewLoad(a, producer) ==
  [instr_id |-> Last(ROB).instr_id, virtual_address |-> a, fetch_issued |-> FALSE,
   producer_id |-> producer]

\* find_if_not: the first free slot.
FirstFree == CHOOSE q \in FreeSlots : \A r \in FreeSlots : q <= r

NextLoad ==
  /\ stage = "schedule"
  /\ operands.source_memory # <<>>
  /\ operands' = [operands EXCEPT !.source_memory = Tail(@)]
  /\ UNCHANGED <<stage, next_id, requested, returned, memory>>

\* The store has executed: the load has its value at once.
ForwardLoad ==
  /\ NextLoad
  /\ \E i \in DOMAIN SQ :
       /\ YoungestStoreTo(Head(operands.source_memory), i)
       /\ SQ[i].fetch_issued
       /\ ended' = {[token |-> FirstFree, address |-> Head(operands.source_memory),
                     value |-> SQ[i].instr_id]}
  /\ ROB' = [ROB EXCEPT ![Len(ROB)].completed_mem_ops = @ + 1]
  /\ UNCHANGED <<LQ, SQ>>

\* The load waits for the store.
AwaitStore ==
  /\ NextLoad
  /\ \E i \in DOMAIN SQ :
       /\ YoungestStoreTo(Head(operands.source_memory), i)
       /\ ~SQ[i].fetch_issued
       /\ SQ' = [SQ EXCEPT ![i].lq_depend_on_me = @ \cup {FirstFree}]
       /\ LQ' = [LQ EXCEPT ![FirstFree] =
                   NewLoad(Head(operands.source_memory), SQ[i].instr_id)]
  /\ UNCHANGED <<ROB, ended>>

\* No store in the queue has the address: the L1D has the value.
ScheduleLoad ==
  /\ NextLoad
  /\ \A i \in DOMAIN SQ : ~YoungestStoreTo(Head(operands.source_memory), i)
  /\ LQ' = [LQ EXCEPT ![FirstFree] = NewLoad(Head(operands.source_memory), NoProducer)]
  /\ UNCHANGED <<ROB, SQ, ended>>

ScheduleStore ==
  /\ stage = "schedule"
  /\ operands.source_memory = <<>> /\ operands.destination_memory # <<>>
  /\ SQ' = Append(SQ, [instr_id |-> Last(ROB).instr_id,
                       virtual_address |-> Head(operands.destination_memory),
                       fetch_issued |-> FALSE, lq_depend_on_me |-> {}])
  /\ operands' = [operands EXCEPT !.destination_memory = Tail(@)]
  /\ UNCHANGED <<ROB, LQ, stage, next_id, requested, returned, memory, ended>>

EndScheduling ==
  /\ stage = "schedule"
  /\ operands.source_memory = <<>> /\ operands.destination_memory = <<>>
  /\ stage' = "dispatch"
  /\ UNCHANGED <<ROB, LQ, SQ, operands, next_id, requested, returned, memory, ended>>

-----------------------------------------------------------------------------
Schedule == ForwardLoad \/ AwaitStore \/ ScheduleLoad \/ ScheduleStore \/ EndScheduling

\* What brings an instruction forward.
Progress ==
  \/ Retire
  \/ \E k \in DOMAIN ROB : Complete(k) \/ Execute(k)
  \/ HandleReturn
  \/ FinishStore \/ WriteStore
  \/ \E q \in Slot : IssueLoad(q)
  \/ \E b \in Block : L1DAnswers(b)

Operate == BeginCycle \/ NextLoop \/ Schedule

Next == Operate \/ Progress \/ \E o \in Operation : Dispatch(o)

Spec == Init /\ [][Next]_vars

\* operate() runs over and over; each of its loops has room for one iteration
\* at least, latencies are finite, every instruction executes (ReorderBuffer), and
\* the L1D accepts writes and reads again and again and answers every read
\* (Cache): what can be done again and again is done at last.  It is enough to
\* assume that of all of Progress together, for a trace is finite.
Fairness == WF_vars(Operate) /\ SF_vars(Progress)

FairSpec == Spec /\ Fairness
-----------------------------------------------------------------------------
(* What the queues promise: ProgramOrderMemory, under this mapping.          *)

OnTheirWay == [i \in DOMAIN SQ |-> [id |-> SQ[i].instr_id, address |-> SQ[i].virtual_address]]

LoadsInFlight == InFlight(Allocated)

Promise ==
  INSTANCE ProgramOrderMemory
    WITH Token <- Slot, Id <- 1..MaxInstr, unwritten <- OnTheirWay, loads <- LoadsInFlight

\* A load has the value of the youngest store before it in program order,
\* whether a store in the queue forwards it or the L1D answers it, and stores
\* reach the L1D in program order (ooo_cpu.cc:518-527, 552-569).
KeepsProgramOrder == Promise!Spec

-----------------------------------------------------------------------------
(* Invariants *)

\* The types of the variables and the sizes of the queues.
TypeOK ==
  /\ ROB \in Seq(Instruction) /\ Len(ROB) <= ROB_SIZE
  /\ LQ \in [Slot -> LoadEntry \cup {NoEntry}]
  /\ SQ \in Seq(StoreEntry) /\ Len(SQ) <= SQ_SIZE
  /\ stage \in Stage
  /\ operands \in [source_memory : Seq(Address), destination_memory : Seq(Address)]
  /\ next_id \in 1..(MaxInstr + 1)
  /\ requested \in [Block -> 0..MaxRequests] /\ returned \in Seq(Block)
  /\ memory \in [Address -> 0..MaxInstr]

\* What instruction x still waits for in the queues, or has to be scheduled.
OpenMemoryOps(x) ==
  Cardinality({q \in Allocated : LQ[q].instr_id = x.instr_id})
    + Cardinality({i \in DOMAIN SQ : SQ[i].instr_id = x.instr_id /\ ~SQ[i].fetch_issued})
    + (IF stage = "schedule" /\ x.instr_id = next_id - 1
         THEN Len(operands.source_memory) + Len(operands.destination_memory)
         ELSE 0)

\* The count of an instruction and its entries in the queues add up, so it
\* completes when its last entry ends and never before; and what is in a queue
\* and has not ended belongs to an instruction that is in the reorder buffer
\* (the assertions of LSQ_ENTRY::finish, ooo_cpu.cc:810-828).
MemoryOpsAddUp ==
  /\ \A k \in DOMAIN ROB : ROB[k].completed_mem_ops + OpenMemoryOps(ROB[k]) = ROB[k].num_mem_ops
  /\ \A q \in Allocated : \E k \in DOMAIN ROB : ROB[k].instr_id = LQ[q].instr_id
  /\ \A i \in DOMAIN SQ :
       ~SQ[i].fetch_issued => \E k \in DOMAIN ROB : ROB[k].instr_id = SQ[i].instr_id

\* A store that has not executed and the loads that wait for it point at each
\* other, although slots of the load queue are used again (the assertions of
\* do_finish_store, ooo_cpu.cc:597-598), and no load waits for two, not even if
\* an instruction stores to an address twice.  A slot that were freed or refilled
\* under a store would give the value to the wrong load.
WaitingLoadsHaveTheirStore ==
  /\ \A i \in DOMAIN SQ : ~SQ[i].fetch_issued =>
       \A q \in SQ[i].lq_depend_on_me :
         /\ q \in Allocated
         /\ LQ[q].producer_id = SQ[i].instr_id
         /\ LQ[q].virtual_address = SQ[i].virtual_address
  /\ \A q \in Allocated : LQ[q].producer_id # NoProducer =>
       \E i \in DOMAIN SQ :
         /\ ~SQ[i].fetch_issued /\ q \in SQ[i].lq_depend_on_me
         /\ \A j \in DOMAIN SQ : ~SQ[j].fetch_issued /\ q \in SQ[j].lq_depend_on_me => i = j

\* The executed stores are in front of the others, which the search for the
\* first store to execute relies on (partition_point, ooo_cpu.cc:557).
IssuedStoresFirst ==
  \A i, j \in DOMAIN SQ : i < j /\ SQ[j].fetch_issued => SQ[i].fetch_issued

\* The queues keep their types, their sizes and their order.
QueuesInOrder == TypeOK /\ IssuedStoresFirst

-----------------------------------------------------------------------------
(* Liveness *)

InQueues(id) ==
  \/ \E k \in DOMAIN ROB : ROB[k].instr_id = id
  \/ \E i \in DOMAIN SQ : SQ[i].instr_id = id

\* Every instruction retires and its stores reach the L1D: no load waits for
\* ever for a store or an answer, also one whose answer came with that to
\* another load of its block (ooo_cpu.cc:694), and no store stays behind when no
\* instruction follows it (complete_id, ooo_cpu.cc:552).
EveryInstructionEnds == \A id \in 1..MaxInstr : InQueues(id) ~> ~InQueues(id)
=============================================================================
