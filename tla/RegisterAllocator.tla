------------------------- MODULE RegisterAllocator -------------------------
(***************************************************************************)
(* RegisterAllocator (src/register_allocator.cc): the map from the         *)
(* architectural registers of the trace to physical registers.  The        *)
(* frontend table names the register that the youngest renamed instruction *)
(* writes, the backend table the one that the last retired instruction     *)
(* wrote.  The operations here are actions on the tables; who calls them,  *)
(* and when, is in ReorderBuffer.                                          *)
(***************************************************************************)
EXTENDS Integers, Sequences

CONSTANTS num_physical_registers,
          RAT_SIZE      \* entries of each table (256 in the code)

ASSUME AllocatorAssumption == num_physical_registers \in Nat /\ RAT_SIZE \in Nat

VARIABLES frontend_RAT, backend_RAT, free_registers, physical_register_file

allocator == <<frontend_RAT, backend_RAT, free_registers, physical_register_file>>

PhysicalRegister == 0..(num_physical_registers - 1)

ArchRegister == 0..(RAT_SIZE - 1)

Unmapped == -1

\* arch_reg_index of a register that belongs to no one.
NoArchRegister == 255

Entry(reg, id, valid, busy) ==
  [arch_reg_index |-> reg, producing_instruction_id |-> id, valid |-> valid, busy |-> busy]

AllocatorInit ==
  /\ frontend_RAT = [r \in ArchRegister |-> Unmapped]
  /\ backend_RAT = [r \in ArchRegister |-> Unmapped]
  /\ free_registers = [n \in 1..num_physical_registers |-> n - 1]
  /\ physical_register_file = [p \in PhysicalRegister |-> Entry(0, 0, FALSE, FALSE)]

isValid(p) == physical_register_file[p].valid

isAllocated(r) == frontend_RAT[r] # Unmapped

count_free_registers == Len(free_registers)

\* A write of reg by instruction id gets the oldest free register.  The name
\* it is given is Head(free_registers).
RenameDest(reg, id) ==
  /\ free_registers # <<>>
  /\ free_registers' = Tail(free_registers)
  /\ frontend_RAT' = [frontend_RAT EXCEPT ![reg] = Head(free_registers)]
  /\ physical_register_file' =
       [physical_register_file EXCEPT ![Head(free_registers)] = Entry(reg, id, FALSE, TRUE)]
  /\ UNCHANGED backend_RAT

\* The name a read of reg is given.
SourceName(reg) == IF isAllocated(reg) THEN frontend_RAT[reg] ELSE Head(free_registers)

\* A read of a register that no one has written yet allocates it as well: its
\* last write is taken to be committed.
RenameSrc(reg) ==
  \/ /\ isAllocated(reg)
     /\ UNCHANGED allocator
  \/ /\ ~isAllocated(reg)
     /\ free_registers # <<>>
     /\ free_registers' = Tail(free_registers)
     /\ frontend_RAT' = [frontend_RAT EXCEPT ![reg] = Head(free_registers)]
     /\ backend_RAT' = [backend_RAT EXCEPT ![reg] = Head(free_registers)]
     /\ physical_register_file' =
          [physical_register_file EXCEPT ![Head(free_registers)] = Entry(reg, 0, TRUE, TRUE)]

\* complete_dest_register, for each of the registers in ps.
CompleteDests(ps) ==
  /\ physical_register_file' =
       [p \in PhysicalRegister |->
          IF p \in ps THEN [physical_register_file[p] EXCEPT !.valid = TRUE]
                      ELSE physical_register_file[p]]
  /\ UNCHANGED <<frontend_RAT, backend_RAT, free_registers>>

\* free_register(p), with the rest of the allocator left alone.
FreeRegister(p) ==
  /\ free_registers' = Append(free_registers, p)
  /\ physical_register_file' =
       [physical_register_file EXCEPT ![p] = Entry(NoArchRegister, 0, FALSE, FALSE)]

RetireDestForgetsToFree(p) ==  \* mutant
  /\ backend_RAT' = [backend_RAT EXCEPT ![physical_register_file[p].arch_reg_index] = p]
  /\ UNCHANGED <<frontend_RAT, free_registers, physical_register_file>>

\* p is the committed value of its register now; the one it replaces is free.
RetireDest(p) ==
  LET arch == physical_register_file[p].arch_reg_index
      old == backend_RAT[arch]
  IN /\ backend_RAT' = [backend_RAT EXCEPT ![arch] = p]
     /\ \/ old # Unmapped /\ FreeRegister(old)
        \/ old = Unmapped /\ UNCHANGED <<free_registers, physical_register_file>>
     /\ UNCHANGED frontend_RAT
=============================================================================
