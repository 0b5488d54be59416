--------------------------- MODULE ReorderBuffer ---------------------------
(***************************************************************************)
(* The reorder buffer of O3_CPU (src/ooo_cpu.cc) and the registers its     *)
(* instructions read and write: dispatch_instruction, schedule_instruction *)
(* (with do_scheduling), execute_instruction, complete_inflight_instruction*)
(* and retire_rob, in the order in which operate() calls them.  stage says *)
(* which of the loops runs; one step is one iteration.                     *)
(*                                                                         *)
(* Fetch and decode are represented by the operations that may be          *)
(* dispatched next, the load and store queues and the caches by the moment *)
(* at which an executed instruction has performed its memory operations.   *)
(* Time is represented by the events "a dispatched instruction may be      *)
(* scheduled" (ready_time) and "performed".                                *)
(***************************************************************************)
EXTENDS RegisterAllocator, FiniteSets

CONSTANTS Operation,    \* the operands of the instructions in the trace
          MaxInstr,     \* bound: how many of them are dispatched
          ROB_SIZE, SCHEDULER_SIZE, EXEC_WIDTH, RETIRE_WIDTH, DISPATCH_WIDTH

ASSUME ROBAssumption ==
  /\ Operation \subseteq [source_registers : Seq(ArchRegister),
                          destination_registers : Seq(ArchRegister)]
  /\ MaxInstr \in Nat /\ ROB_SIZE \in Nat
  /\ SCHEDULER_SIZE \in Nat /\ EXEC_WIDTH \in Nat
  /\ RETIRE_WIDTH \in Nat /\ DISPATCH_WIDTH \in Nat

VARIABLES ROB,
          stage,       \* the loop of operate() that runs
          bw,          \* what is left of its bandwidth
          at,          \* schedule_instruction: the entry it looks at
          op,          \* the operand that is renamed or retired next
          next_id,     \* instr_id of the instruction dispatched next
          last_writer  \* history: who wrote each register last in program order

vars == <<allocator, ROB, stage, bw, at, op, next_id, last_writer>>

\* How far an instruction has come.  "dispatched" becomes "ready" when
\* ready_time has passed; "scheduled", "executed" and "completed" are the flags
\* of the code; "performed" has executed, its latency has passed and
\* completed_mem_ops = num_mem_ops().
Status == {"dispatched", "ready", "scheduled", "executed", "performed", "completed"}

HasExecuted(x) == x.status \in {"executed", "performed", "completed"}

IsScheduled(x) == x.status \notin {"dispatched", "ready"}

\* Program order: what each source operand must read, as <<register, producer>>.
Needs(o) ==
  [k \in DOMAIN o.source_registers |->
     <<o.source_registers[k], last_writer[o.source_registers[k]]>>]

Elements(s) == {s[k] : k \in DOMAIN s}

Init ==
  /\ AllocatorInit
  /\ ROB = <<>>
  /\ stage = "retire" /\ bw = RETIRE_WIDTH /\ at = 1 /\ op = 1
  /\ next_id = 1
  /\ last_writer = [r \in ArchRegister |-> 0]

\* The loop that comes next, with its bandwidth.
GoTo(s, width) == stage' = s /\ bw' = width

-----------------------------------------------------------------------------
(* retire_rob *)

CanRetireOutOfOrder == bw > 0 /\ ROB # <<>> /\ HasExecuted(Head(ROB))  \* mutant

CanRetire == bw > 0 /\ ROB # <<>> /\ Head(ROB).status = "completed"

RetireDestination ==
  /\ stage = "retire" /\ CanRetire
  /\ op \in DOMAIN Head(ROB).destination_registers
  /\ RetireDest(Head(ROB).destination_registers[op])
  /\ op' = op + 1
  /\ UNCHANGED <<ROB, stage, bw, at, next_id, last_writer>>

RetireFront ==
  /\ stage = "retire" /\ CanRetire
  /\ op \notin DOMAIN Head(ROB).destination_registers
  /\ ROB' = Tail(ROB)
  /\ op' = 1
  /\ bw' = bw - 1
  /\ UNCHANGED <<allocator, stage, at, next_id, last_writer>>

EndRetire ==
  /\ stage = "retire" /\ ~CanRetire
  /\ GoTo("complete", EXEC_WIDTH)
  /\ UNCHANGED <<allocator, ROB, at, op, next_id, last_writer>>

-----------------------------------------------------------------------------
(* complete_inflight_instruction *)

CanComplete(i) == i \in DOMAIN ROB /\ ROB[i].status = "performed"

Complete(i) ==
  /\ stage = "complete" /\ bw > 0
  /\ CanComplete(i) /\ \A j \in 1..(i - 1) : ~CanComplete(j)
  /\ CompleteDests(Elements(ROB[i].destination_registers))
  /\ ROB' = [ROB EXCEPT ![i].status = "completed"]
  /\ bw' = bw - 1
  /\ UNCHANGED <<stage, at, op, next_id, last_writer>>

EndComplete ==
  /\ stage = "complete"
  /\ bw = 0 \/ \A i \in DOMAIN ROB : ~CanComplete(i)
  /\ GoTo("execute", EXEC_WIDTH)
  /\ UNCHANGED <<allocator, ROB, at, op, next_id, last_writer>>

-----------------------------------------------------------------------------
(* execute_instruction *)

CanExecuteOnOneOperand(i) ==  \* mutant
  /\ i \in DOMAIN ROB /\ ROB[i].status = "scheduled"
  /\ LET s == Elements(ROB[i].source_registers) IN s = {} \/ \E p \in s : isValid(p)

CanExecute(i) ==
  /\ i \in DOMAIN ROB /\ ROB[i].status = "scheduled"
  /\ \A p \in Elements(ROB[i].source_registers) : isValid(p)

Execute(i) ==
  /\ stage = "execute" /\ bw > 0
  /\ CanExecute(i) /\ \A j \in 1..(i - 1) : ~CanExecute(j)
  /\ ROB' = [ROB EXCEPT ![i].status = "executed"]
  /\ bw' = bw - 1
  /\ UNCHANGED <<allocator, stage, at, op, next_id, last_writer>>

EndExecute ==
  /\ stage = "execute"
  /\ bw = 0 \/ \A i \in DOMAIN ROB : ~CanExecute(i)
  /\ GoTo("schedule", SCHEDULER_SIZE)
  /\ at' = 1
  /\ UNCHANGED <<allocator, ROB, op, next_id, last_writer>>

-----------------------------------------------------------------------------
(* schedule_instruction *)

\* Source operands whose register is not mapped.  Of an instruction that is
\* scheduled already the operands are physical names: isAllocated is asked all
\* the same, and its answer is arbitrary past the end of the table.
Unallocated(x) == {k \in DOMAIN x.source_registers :
                     x.source_registers[k] \in ArchRegister /\ ~isAllocated(x.source_registers[k])}

OutOfTable(x) == {k \in DOMAIN x.source_registers : x.source_registers[k] \notin ArchRegister}

MayLackRegisters(x) ==
  count_free_registers < Cardinality(Unallocated(x) \cup OutOfTable(x)) + Len(x.destination_registers)

MayHaveRegistersNoSources(x) ==  \* mutant
  count_free_registers >= Len(x.destination_registers)

MayHaveRegisters(x) ==
  count_free_registers >= Cardinality(Unallocated(x)) + Len(x.destination_registers)

Looking == stage = "schedule" /\ bw > 0 /\ at \in DOMAIN ROB

StopScheduling ==
  /\ Looking /\ MayLackRegisters(ROB[at])
  /\ GoTo("dispatch", DISPATCH_WIDTH)
  /\ UNCHANGED <<allocator, ROB, at, op, next_id, last_writer>>

PassOver ==
  /\ Looking /\ MayHaveRegisters(ROB[at]) /\ ROB[at].status # "ready"
  /\ at' = at + 1
  /\ bw' = IF HasExecuted(ROB[at]) THEN bw ELSE bw - 1
  /\ UNCHANGED <<allocator, ROB, stage, op, next_id, last_writer>>

BeginRenaming ==
  /\ Looking /\ MayHaveRegisters(ROB[at]) /\ ROB[at].status = "ready"
  /\ stage' = "sources" /\ op' = 1
  /\ UNCHANGED <<allocator, ROB, bw, at, next_id, last_writer>>

EndSchedule ==
  /\ stage = "schedule" /\ ~Looking
  /\ GoTo("dispatch", DISPATCH_WIDTH)
  /\ UNCHANGED <<allocator, ROB, at, op, next_id, last_writer>>

(* do_scheduling: the operands are renamed in place, sources first. *)

RenameSource ==
  /\ stage = "sources" /\ op \in DOMAIN ROB[at].source_registers
  /\ RenameSrc(ROB[at].source_registers[op])
  /\ ROB' = [ROB EXCEPT ![at].source_registers[op] = SourceName(@)]
  /\ op' = op + 1
  /\ UNCHANGED <<stage, bw, at, next_id, last_writer>>

EndSources ==
  /\ stage = "sources" /\ op \notin DOMAIN ROB[at].source_registers
  /\ stage' = "destinations" /\ op' = 1
  /\ UNCHANGED <<allocator, ROB, bw, at, next_id, last_writer>>

RenameDestination ==
  /\ stage = "destinations" /\ op \in DOMAIN ROB[at].destination_registers
  /\ RenameDest(ROB[at].destination_registers[op], ROB[at].instr_id)
  /\ ROB' = [ROB EXCEPT ![at].destination_registers[op] = Head(free_registers)]
  /\ op' = op + 1
  /\ UNCHANGED <<stage, bw, at, next_id, last_writer>>

EndRenaming ==
  /\ stage = "destinations" /\ op \notin DOMAIN ROB[at].destination_registers
  /\ ROB' = [ROB EXCEPT ![at].status = "scheduled"]
  /\ stage' = "schedule" /\ op' = 1 /\ at' = at + 1 /\ bw' = bw - 1
  /\ UNCHANGED <<allocator, next_id, last_writer>>

-----------------------------------------------------------------------------
(* dispatch_instruction, and the clock *)

NewEntry(o) ==
  [instr_id |-> next_id,
   source_registers |-> o.source_registers,
   destination_registers |-> o.destination_registers,
   status |-> "dispatched",
   needs |-> Needs(o),                    \* history: what it must read,
   writes |-> o.destination_registers]    \* and what it writes

HasSlotOffByOne == Len(ROB) <= ROB_SIZE  \* mutant

HasSlot == Len(ROB) < ROB_SIZE

Dispatch(o) ==
  /\ stage = "dispatch" /\ bw > 0
  /\ HasSlot
  /\ next_id <= MaxInstr
  /\ ROB' = Append(ROB, NewEntry(o))
  /\ next_id' = next_id + 1
  /\ last_writer' = [r \in ArchRegister |-> IF r \in Elements(o.destination_registers)
                                              THEN next_id ELSE last_writer[r]]
  /\ bw' = bw - 1
  /\ UNCHANGED <<allocator, stage, at, op>>

\* The dispatch buffer may be empty, and the load or store queue full.
EndDispatch ==
  /\ stage = "dispatch"
  /\ GoTo("elapse", 0)
  /\ UNCHANGED <<allocator, ROB, at, op, next_id, last_writer>>

BecomeReadyAnyOrder(i) ==  \* mutant
  /\ stage = "elapse"
  /\ i \in DOMAIN ROB /\ ROB[i].status = "dispatched"
  /\ ROB' = [ROB EXCEPT ![i].status = "ready"]
  /\ UNCHANGED <<allocator, stage, bw, at, op, next_id, last_writer>>

\* Instructions are dispatched in program order and wait equally long.
BecomeReady(i) ==
  /\ stage = "elapse"
  /\ i \in DOMAIN ROB /\ ROB[i].status = "dispatched"
  /\ \A j \in 1..(i - 1) : ROB[j].status # "dispatched"
  /\ ROB' = [ROB EXCEPT ![i].status = "ready"]
  /\ UNCHANGED <<allocator, stage, bw, at, op, next_id, last_writer>>

\* External: the execution latency has passed and memory has answered.
Perform(i) ==
  /\ stage = "elapse"
  /\ i \in DOMAIN ROB /\ ROB[i].status = "executed"
  /\ ROB' = [ROB EXCEPT ![i].status = "performed"]
  /\ UNCHANGED <<allocator, stage, bw, at, op, next_id, last_writer>>

NextCycle ==
  /\ stage = "elapse"
  /\ GoTo("retire", RETIRE_WIDTH)
  /\ UNCHANGED <<allocator, ROB, at, op, next_id, last_writer>>

-----------------------------------------------------------------------------
Retire == RetireDestination \/ RetireFront \/ EndRetire

Schedule ==
  \/ StopScheduling \/ PassOver \/ BeginRenaming \/ EndSchedule
  \/ RenameSource \/ EndSources \/ RenameDestination \/ EndRenaming

Operate ==
  \/ Retire
  \/ (\E i \in DOMAIN ROB : Complete(i)) \/ EndComplete
  \/ (\E i \in DOMAIN ROB : Execute(i)) \/ EndExecute
  \/ Schedule
  \/ EndDispatch
  \/ NextCycle

Next ==
  \/ Operate
  \/ \E o \in Operation : Dispatch(o)
  \/ \E i \in DOMAIN ROB : BecomeReady(i) \/ Perform(i)

Spec == Init /\ [][Next]_vars

\* The driver calls operate() over and over.  Latencies are finite and memory
\* answers every request, so what may become ready, or be performed, cycle after
\* cycle does at last.  It is enough to assume that of all instructions together,
\* for a trace is finite.
Fairness ==
  /\ WF_vars(Operate)
  /\ SF_vars(\E i \in DOMAIN ROB : BecomeReady(i) \/ Perform(i))

FairSpec == Spec /\ Fairness
-----------------------------------------------------------------------------
(* Properties *)

PhysicalEntry == [arch_reg_index : ArchRegister \cup {0, NoArchRegister},
                  producing_instruction_id : 0..MaxInstr, valid : BOOLEAN, busy : BOOLEAN]

Operand == ArchRegister \cup PhysicalRegister

RobEntry == [instr_id : 1..MaxInstr,
             source_registers : Seq(Operand), destination_registers : Seq(Operand),
             status : Status,
             needs : Seq(ArchRegister \X (0..MaxInstr)), writes : Seq(ArchRegister)]

\* The fields keep their types and the reorder buffer its size.
TypeOK ==
  /\ frontend_RAT \in [ArchRegister -> PhysicalRegister \cup {Unmapped}]
  /\ backend_RAT \in [ArchRegister -> PhysicalRegister \cup {Unmapped}]
  /\ free_registers \in Seq(PhysicalRegister)
  /\ physical_register_file \in [PhysicalRegister -> PhysicalEntry]
  /\ ROB \in Seq(RobEntry) /\ Len(ROB) <= ROB_SIZE
  /\ stage \in {"retire", "complete", "execute", "schedule", "sources", "destinations",
                "dispatch", "elapse"}
  /\ bw \in Nat /\ at \in Nat \ {0} /\ op \in Nat \ {0}
  /\ next_id \in 1..(MaxInstr + 1)
  /\ last_writer \in [ArchRegister -> 0..MaxInstr]

\* Operand k of entry i is a physical name already.
RenamedSource(i, k) ==
  /\ i \in DOMAIN ROB /\ k \in DOMAIN ROB[i].source_registers
  /\ \/ IsScheduled(ROB[i])
     \/ i = at /\ stage = "destinations"
     \/ i = at /\ stage = "sources" /\ k < op

\* Operand k of entry i is renamed and not yet committed.
InFlight(i, k) ==
  /\ i \in DOMAIN ROB /\ k \in DOMAIN ROB[i].destination_registers
  /\ \/ IsScheduled(ROB[i]) /\ ~(stage = "retire" /\ i = 1 /\ k < op)
     \/ i = at /\ stage = "destinations" /\ k < op

InFlightName(p) ==
  \E i \in DOMAIN ROB : \E k \in DOMAIN ROB[i].destination_registers :
    InFlight(i, k) /\ ROB[i].destination_registers[k] = p

CommittedName(p) == \E r \in ArchRegister : backend_RAT[r] = p

FreeName(p) == \E n \in DOMAIN free_registers : free_registers[n] = p

\* Every physical register is in exactly one place, once: it is free, it holds
\* the committed value of one architectural register, or it is the destination
\* of one instruction in flight.  None leaks, none is handed out twice
\* (register_allocator.cc:16-70).
RegisterPartition ==
  /\ \A p \in PhysicalRegister :
       /\ FreeName(p) \/ CommittedName(p) \/ InFlightName(p)
       /\ ~(FreeName(p) /\ CommittedName(p))
       /\ ~(FreeName(p) /\ InFlightName(p))
       /\ ~(CommittedName(p) /\ InFlightName(p))
  /\ \A m, n \in DOMAIN free_registers : free_registers[m] = free_registers[n] => m = n
  /\ \A r, s \in ArchRegister : backend_RAT[r] = backend_RAT[s] /\ backend_RAT[r] # Unmapped => r = s
  /\ \A i, j \in DOMAIN ROB :
       \A k \in DOMAIN ROB[i].destination_registers, l \in DOMAIN ROB[j].destination_registers :
         InFlight(i, k) /\ InFlight(j, l)
           /\ ROB[i].destination_registers[k] = ROB[j].destination_registers[l]
         => i = j /\ k = l

\* Until an instruction has completed, the physical registers it reads belong
\* to the producers that program order gives it: none is recycled, overwritten
\* or swapped (the point of ooo_cpu.cc:452-466 and of
\* freeing a register only when the next write of it retires).
SourcesHoldTheirProducer ==
  \A i \in DOMAIN ROB : \A k \in DOMAIN ROB[i].source_registers :
    RenamedSource(i, k) /\ ROB[i].status # "completed" =>
      LET e == physical_register_file[ROB[i].source_registers[k]] IN
        /\ <<e.arch_reg_index, e.producing_instruction_id>> = ROB[i].needs[k]
        /\ e.busy

\* No instruction executes before the producers of all its sources have
\* completed (ooo_cpu.cc:473-478).
ProducersCompleteFirst ==
  \A i, j \in DOMAIN ROB : \A k \in DOMAIN ROB[i].needs :
    HasExecuted(ROB[i]) /\ ROB[i].needs[k][2] = ROB[j].instr_id => ROB[j].status = "completed"

\* The check before do_scheduling (ooo_cpu.cc:434-438) is enough: no renaming
\* takes the front of an empty free list.
RegistersSuffice ==
  /\ stage = "sources" =>
       \A k \in DOMAIN ROB[at].source_registers :
         k >= op /\ ~isAllocated(ROB[at].source_registers[k]) => free_registers # <<>>
  /\ stage = "destinations" =>
       count_free_registers + op > Len(ROB[at].destination_registers)

\* The frontend table names the destination of the youngest renamed writer, or
\* the committed register when none is in flight: with an empty reorder buffer
\* the two tables agree, which is what reset_frontend_RAT relies on.
FrontendIsYoungest ==
  \A r \in ArchRegister :
    \/ /\ frontend_RAT[r] = backend_RAT[r]
       /\ \A i \in DOMAIN ROB : \A k \in DOMAIN ROB[i].destination_registers :
            InFlight(i, k) =>
              physical_register_file[ROB[i].destination_registers[k]].arch_reg_index # r
    \/ \E i \in DOMAIN ROB : \E k \in DOMAIN ROB[i].destination_registers :
         /\ InFlight(i, k) /\ frontend_RAT[r] = ROB[i].destination_registers[k]
         /\ \A j \in DOMAIN ROB : \A l \in DOMAIN ROB[j].destination_registers :
              InFlight(j, l) /\ physical_register_file[ROB[j].destination_registers[l]].arch_reg_index = r
                => j < i \/ (j = i /\ l <= k)

\* Renaming gives every operand the name that program order gives it, from the
\* tables to the registers: both together, for each is how the other comes about
\* (ooo_cpu.cc:439-470, register_allocator.cc:16-50).
RenamingFollowsTheProgram == SourcesHoldTheirProducer /\ FrontendIsYoungest

Retired(id) == id < next_id /\ \A i \in DOMAIN ROB : ROB[i].instr_id # id

\* Every dispatched instruction retires: scheduling, which stops when registers
\* run short, never waits for itself.
EveryInstructionRetires ==
  \A id \in 1..MaxInstr : (id < next_id) ~> Retired(id)
=============================================================================
