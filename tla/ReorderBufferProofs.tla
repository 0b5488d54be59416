------------------------ MODULE ReorderBufferProofs ------------------------
(* Proofs about ReorderBuffer.                                              *)
EXTENDS ReorderBuffer, SequenceTheorems, FiniteSetTheorems, TLAPS

USE AllocatorAssumption, ROBAssumption

-----------------------------------------------------------------------------
(* The inductive invariant *)

RenamedDestination(i, k) ==
  \/ IsScheduled(ROB[i])
  \/ i = at /\ stage = "destinations" /\ k < op

\* Only the loops over operands use op, and each leaves it as the next one
\* expects it; the instruction that is renamed stays where it is.
Control ==
  /\ stage \notin {"retire", "sources", "destinations"} => op = 1
  /\ stage = "retire" /\ op # 1 => CanRetire
  /\ stage \in {"sources", "destinations"} =>
       at \in DOMAIN ROB /\ ROB[at].status = "ready" /\ bw > 0

\* An operand that is not renamed yet is an architectural register.
Operands ==
  \A i \in DOMAIN ROB :
    /\ \A k \in DOMAIN ROB[i].source_registers :
         ~RenamedSource(i, k) => ROB[i].source_registers[k] \in ArchRegister
    /\ \A k \in DOMAIN ROB[i].destination_registers :
         ~RenamedDestination(i, k) => ROB[i].destination_registers[k] \in ArchRegister

\* p is a physical register that says which register it is for.
Assigned(p) ==
  /\ p \in PhysicalRegister
  /\ physical_register_file[p].arch_reg_index \in ArchRegister
  /\ isAllocated(physical_register_file[p].arch_reg_index)

Names ==
  \A i \in DOMAIN ROB : \A k \in DOMAIN ROB[i].destination_registers :
    InFlight(i, k) => Assigned(ROB[i].destination_registers[k])

\* A register that was never renamed has no committed value either.
Mapped == \A r \in ArchRegister : backend_RAT[r] # Unmapped => isAllocated(r)

Inv == TypeOK /\ Control /\ Operands /\ Names /\ Mapped /\ RegisterPartition

-----------------------------------------------------------------------------
(* Sequences *)

LEMMA InSeq ==
  ASSUME NEW S, NEW q \in Seq(S)
  PROVE  Len(q) \in Nat /\ DOMAIN q = 1..Len(q) /\ \A k \in DOMAIN q : q[k] \in S
BY LenProperties, ElementOfSeq

\* One element of q replaced by x.
LEMMA Replaced ==
  ASSUME NEW S, NEW q \in Seq(S), NEW i \in DOMAIN q, NEW x \in S
  PROVE  /\ [q EXCEPT ![i] = x] \in Seq(S)
         /\ Len([q EXCEPT ![i] = x]) = Len(q)
         /\ DOMAIN [q EXCEPT ![i] = x] = DOMAIN q
         /\ [q EXCEPT ![i] = x][i] = x
         /\ \A j \in DOMAIN q : j # i => [q EXCEPT ![i] = x][j] = q[j]
BY InSeq, ExceptSeq

\* Behind an appended element nothing moves.
LEMMA Appended ==
  ASSUME NEW S, NEW q \in Seq(S), NEW x \in S
  PROVE  /\ Append(q, x) \in Seq(S)
         /\ Len(Append(q, x)) = Len(q) + 1
         /\ DOMAIN Append(q, x) = DOMAIN q \cup {Len(q) + 1}
         /\ Append(q, x)[Len(q) + 1] = x
         /\ \A j \in DOMAIN q : Append(q, x)[j] = q[j] /\ j # Len(q) + 1
<1>1. /\ Append(q, x) \in Seq(S)
      /\ Len(Append(q, x)) = Len(q) + 1
      /\ Append(q, x)[Len(q) + 1] = x
      /\ \A j \in 1..Len(q) : Append(q, x)[j] = q[j]
  BY AppendProperties
<1>2. DOMAIN Append(q, x) = 1..(Len(q) + 1) /\ DOMAIN q = 1..Len(q) /\ Len(q) \in Nat
  BY <1>1, InSeq
<1>3. 1..(Len(q) + 1) = 1..Len(q) \cup {Len(q) + 1}
  BY <1>2
<1> QED BY <1>1, <1>2, <1>3

\* What is left when the front element has gone.
LEMMA FrontTaken ==
  ASSUME NEW S, NEW q \in Seq(S), q # <<>>
  PROVE  /\ 1 \in DOMAIN q /\ Head(q) = q[1] /\ Head(q) \in S
         /\ Tail(q) \in Seq(S)
         /\ Len(Tail(q)) = Len(q) - 1
         /\ DOMAIN Tail(q) = {j \in Nat \ {0} : j + 1 \in DOMAIN q}
         /\ \A j \in DOMAIN Tail(q) : Tail(q)[j] = q[j + 1]
<1>1. Len(q) \in Nat /\ Len(q) # 0 /\ DOMAIN q = 1..Len(q)
  BY InSeq, EmptySeq
<1>2. /\ Head(q) \in S /\ Tail(q) \in Seq(S) /\ Len(Tail(q)) = Len(q) - 1
      /\ \A j \in 1..(Len(q) - 1) : Tail(q)[j] = q[j + 1]
  BY <1>1, HeadTailProperties
<1>3. DOMAIN Tail(q) = 1..(Len(q) - 1)
  BY <1>1, <1>2, InSeq
<1>4. 1..(Len(q) - 1) = {j \in Nat \ {0} : j + 1 \in 1..Len(q)}
  BY <1>1
<1>5. Head(q) = q[1]
  OBVIOUS
<1> QED BY <1>1, <1>2, <1>3, <1>4, <1>5
-----------------------------------------------------------------------------
(* Steps that rename and retire no register *)

\* The registers in flight are the same, perhaps d entries further to the front:
\* each register is where it was.
LEMMA SameRegistersInFlight ==
  ASSUME Names, RegisterPartition,
         free_registers' = free_registers, backend_RAT' = backend_RAT,
         \A p : Assigned(p) => Assigned(p)',
         NEW d \in {0, 1},
         \A i, k : InFlight(i, k)' =>
           /\ i \in Nat /\ InFlight(i + d, k)
           /\ ROB'[i].destination_registers[k] = ROB[i + d].destination_registers[k],
         \A i, k : InFlight(i, k) => i \in Nat /\ i - d \in Nat /\ InFlight(i - d, k)'
  PROVE  Names' /\ RegisterPartition'
<1>1. ASSUME NEW i, NEW k, InFlight(i, k)
      PROVE  /\ i \in DOMAIN ROB /\ k \in DOMAIN ROB[i].destination_registers
             /\ Assigned(ROB[i].destination_registers[k])
  BY <1>1 DEF InFlight, Names
<1>2. Names'
  <2> SUFFICES ASSUME NEW i, NEW k, InFlight(i, k)'
               PROVE  Assigned(ROB[i].destination_registers[k])'
    BY DEF Names
  <2>1. InFlight(i + d, k) /\ ROB'[i].destination_registers[k] = ROB[i + d].destination_registers[k]
    OBVIOUS
  <2>2. Assigned(ROB[i + d].destination_registers[k])
    BY <1>1, <2>1
  <2>3. PICK p : p = ROB[i + d].destination_registers[k]
    OBVIOUS
  <2>4. Assigned(p)' /\ p = ROB'[i].destination_registers[k]
    BY <2>1, <2>2, <2>3
  <2> QED BY <2>4 DEF Assigned
<1>3. \A p : InFlightName(p)' <=> InFlightName(p)
  <2>1. ASSUME NEW p, InFlightName(p)' PROVE InFlightName(p)
    <3>1. PICK i, k : InFlight(i, k)' /\ ROB'[i].destination_registers[k] = p
      BY <2>1 DEF InFlightName
    <3>2. InFlight(i + d, k) /\ ROB[i + d].destination_registers[k] = p
      BY <3>1
    <3> QED BY <1>1, <3>2 DEF InFlightName
  <2>2. ASSUME NEW p, InFlightName(p) PROVE InFlightName(p)'
    <3>1. PICK i, k : InFlight(i, k) /\ ROB[i].destination_registers[k] = p
      BY <2>2 DEF InFlightName
    <3> DEFINE j == i - d
    <3>2. i \in Nat /\ j \in Nat /\ InFlight(j, k)'
      BY <3>1
    <3>3. ROB'[j].destination_registers[k] = ROB[j + d].destination_registers[k] /\ j + d = i
      BY <3>2
    <3>4. j \in DOMAIN ROB' /\ k \in DOMAIN ROB'[j].destination_registers
      BY <3>2 DEF InFlight
    <3> QED BY <3>1, <3>2, <3>3, <3>4 DEF InFlightName
  <2> QED BY <2>1, <2>2
<1>4. \A p : (FreeName(p)' <=> FreeName(p)) /\ (CommittedName(p)' <=> CommittedName(p))
  BY DEF FreeName, CommittedName
<1>5. ASSUME NEW i, NEW j, NEW k, NEW l, InFlight(i, k)', InFlight(j, l)',
             ROB'[i].destination_registers[k] = ROB'[j].destination_registers[l]
      PROVE  i = j /\ k = l
  <2>1. /\ i \in Nat /\ j \in Nat /\ InFlight(i + d, k) /\ InFlight(j + d, l)
        /\ ROB[i + d].destination_registers[k] = ROB[j + d].destination_registers[l]
    BY <1>5
  <2>2. i + d = j + d /\ k = l
    BY <2>1, <1>1 DEF RegisterPartition
  <2> QED BY <2>1, <2>2
<1>6. RegisterPartition'
  BY <1>3, <1>4, <1>5 DEF RegisterPartition
<1> QED BY <1>2, <1>6

-----------------------------------------------------------------------------
\* What TypeOK says of the entries of the reorder buffer.
LEMMA Entries ==
  ASSUME TypeOK
  PROVE  /\ Len(ROB) \in Nat /\ DOMAIN ROB = 1..Len(ROB)
         /\ \A i \in DOMAIN ROB :
              /\ i \in Nat \ {0} /\ ROB[i] \in RobEntry
              /\ ROB[i].source_registers \in Seq(Operand)
              /\ ROB[i].destination_registers \in Seq(Operand)
              /\ Len(ROB[i].source_registers) \in Nat
              /\ Len(ROB[i].destination_registers) \in Nat
              /\ DOMAIN ROB[i].source_registers = 1..Len(ROB[i].source_registers)
              /\ DOMAIN ROB[i].destination_registers = 1..Len(ROB[i].destination_registers)
<1>1. /\ ROB \in Seq(RobEntry) /\ Len(ROB) \in Nat /\ DOMAIN ROB = 1..Len(ROB)
      /\ \A i \in DOMAIN ROB : ROB[i] \in RobEntry
  BY InSeq DEF TypeOK
<1>2. ASSUME NEW i \in DOMAIN ROB
      PROVE  /\ i \in Nat \ {0}
             /\ ROB[i].source_registers \in Seq(Operand)
             /\ ROB[i].destination_registers \in Seq(Operand)
  <2>1. ROB[i] \in RobEntry
    BY <1>1
  <2>2. ROB[i].source_registers \in Seq(Operand) /\ ROB[i].destination_registers \in Seq(Operand)
    BY <2>1 DEF RobEntry
  <2> QED BY <1>1, <2>2
<1>3. ASSUME NEW i \in DOMAIN ROB
      PROVE  /\ Len(ROB[i].source_registers) \in Nat
             /\ DOMAIN ROB[i].source_registers = 1..Len(ROB[i].source_registers)
  BY <1>2, InSeq
<1>4. ASSUME NEW i \in DOMAIN ROB
      PROVE  /\ Len(ROB[i].destination_registers) \in Nat
             /\ DOMAIN ROB[i].destination_registers = 1..Len(ROB[i].destination_registers)
  BY <1>2, InSeq
<1> QED BY <1>1, <1>2, <1>3, <1>4

\* A step that only moves from loop to loop, or on in one.
LEMMA ControlStep ==
  ASSUME Inv, UNCHANGED <<allocator, ROB, next_id, last_writer>>,
         stage' \in {"retire", "complete", "execute", "schedule", "sources", "destinations",
                     "dispatch", "elapse"},
         bw' \in Nat, at' \in Nat \ {0}, op' \in Nat \ {0}, Control',
         \A i \in DOMAIN ROB : \A k \in DOMAIN ROB[i].destination_registers :
           /\ InFlight(i, k)' <=> InFlight(i, k)
           /\ RenamedDestination(i, k) => RenamedDestination(i, k)',
         \A i \in DOMAIN ROB : \A k \in DOMAIN ROB[i].source_registers :
           RenamedSource(i, k) => RenamedSource(i, k)'
  PROVE  Inv'
<1> USE DEF Inv
<1>1. TypeOK'
  BY DEF TypeOK, allocator, PhysicalEntry
<1>2. Operands'
  BY DEF Operands
<1>3. Mapped'
  BY DEF Mapped, allocator, isAllocated
<1>4. Names' /\ RegisterPartition'
  <2>1. \A i, k : InFlight(i, k)' <=> InFlight(i, k)
    BY DEF InFlight
  <2>2. \A i, k : InFlight(i, k) => i \in Nat
    BY Entries DEF InFlight
  <2>3. \A p : Assigned(p) => Assigned(p)'
    BY DEF Assigned, allocator, isAllocated
  <2>4. free_registers' = free_registers /\ backend_RAT' = backend_RAT
    BY DEF allocator
  <2>5. \A i, k : InFlight(i, k)' =>
           /\ i \in Nat /\ InFlight(i + 0, k)
           /\ ROB'[i].destination_registers[k] = ROB[i + 0].destination_registers[k]
    BY <2>1, <2>2
  <2>6. \A i, k : InFlight(i, k) => i \in Nat /\ i - 0 \in Nat /\ InFlight(i - 0, k)'
    BY <2>1, <2>2
  <2> QED BY <2>3, <2>4, <2>5, <2>6, SameRegistersInFlight
<1> QED BY <1>1, <1>2, <1>3, <1>4

LEMMA StepEndRetire == Inv /\ EndRetire => Inv'
<1> SUFFICES ASSUME Inv, EndRetire PROVE Inv'
  OBVIOUS
<1>1. op = 1 /\ op' = 1 /\ stage = "retire" /\ stage' = "complete" /\ bw' = EXEC_WIDTH
  BY DEF Inv, Control, EndRetire, GoTo
<1>2. UNCHANGED <<allocator, ROB, next_id, last_writer, at>>
  BY DEF EndRetire
<1>3. Control'
  BY <1>1 DEF Control
<1>4. \A i \in DOMAIN ROB : \A k \in DOMAIN ROB[i].destination_registers : k \in Nat /\ ~(k < 1)
  BY Entries DEF Inv
<1>5. \A i \in DOMAIN ROB : \A k \in DOMAIN ROB[i].destination_registers :
        /\ InFlight(i, k)' <=> InFlight(i, k)
        /\ RenamedDestination(i, k) => RenamedDestination(i, k)'
  BY <1>1, <1>2, <1>4 DEF InFlight, RenamedDestination, IsScheduled
<1>6. \A i \in DOMAIN ROB : \A k \in DOMAIN ROB[i].source_registers :
        RenamedSource(i, k) => RenamedSource(i, k)'
  BY <1>1, <1>2 DEF RenamedSource, IsScheduled
<1>7. at' \in Nat \ {0}
  BY <1>2 DEF Inv, TypeOK
<1> QED BY <1>1, <1>2, <1>3, <1>5, <1>6, <1>7, ControlStep

\* The ends of the other loops, an entry that is passed over, and the clock.
LEMMA StepLoops ==
  Inv /\ (EndComplete \/ EndExecute \/ StopScheduling \/ PassOver \/ EndSchedule
            \/ EndDispatch \/ NextCycle) => Inv'
<1> SUFFICES ASSUME Inv, EndComplete \/ EndExecute \/ StopScheduling \/ PassOver \/ EndSchedule
                           \/ EndDispatch \/ NextCycle
             PROVE  Inv'
  OBVIOUS
<1>1. bw \in Nat /\ at \in Nat \ {0}
  BY DEF Inv, TypeOK
<1>2. /\ stage \in {"complete", "execute", "schedule", "dispatch", "elapse"}
      /\ stage' \in {"retire", "complete", "execute", "schedule", "dispatch", "elapse"}
      /\ UNCHANGED <<allocator, ROB, next_id, last_writer, op>>
      /\ bw' \in Nat /\ at' \in Nat \ {0}
  BY <1>1 DEF EndComplete, EndExecute, StopScheduling, PassOver, EndSchedule, EndDispatch,
              NextCycle, GoTo, Looking
<1>3. op = 1 /\ op' = 1
  BY <1>2 DEF Inv, Control
<1>4. Control'
  BY <1>2, <1>3 DEF Control
<1>5. \A i \in DOMAIN ROB : \A k \in DOMAIN ROB[i].destination_registers : k \in Nat /\ ~(k < 1)
  BY Entries DEF Inv
<1>6. \A i \in DOMAIN ROB : \A k \in DOMAIN ROB[i].destination_registers :
        /\ InFlight(i, k)' <=> InFlight(i, k)
        /\ RenamedDestination(i, k) => RenamedDestination(i, k)'
  BY <1>2, <1>3, <1>5 DEF InFlight, RenamedDestination, IsScheduled
<1>7. \A i \in DOMAIN ROB : \A k \in DOMAIN ROB[i].source_registers :
        RenamedSource(i, k) => RenamedSource(i, k)'
  BY <1>2 DEF RenamedSource, IsScheduled
<1> QED BY <1>2, <1>3, <1>4, <1>6, <1>7, ControlStep

LEMMA StepBeginRenaming == Inv /\ BeginRenaming => Inv'
<1> SUFFICES ASSUME Inv, BeginRenaming PROVE Inv'
  OBVIOUS
<1>1. /\ stage = "schedule" /\ stage' = "sources" /\ op' = 1
      /\ bw > 0 /\ at \in DOMAIN ROB /\ ROB[at].status = "ready"
      /\ UNCHANGED <<allocator, ROB, next_id, last_writer, bw, at>>
  BY DEF BeginRenaming, Looking
<1>2. bw' \in Nat /\ at' \in Nat \ {0}
  BY <1>1 DEF Inv, TypeOK
<1>3. Control'
  BY <1>1 DEF Control
<1>4. \A i \in DOMAIN ROB : \A k \in DOMAIN ROB[i].destination_registers :
        /\ InFlight(i, k)' <=> InFlight(i, k)
        /\ RenamedDestination(i, k) => RenamedDestination(i, k)'
  BY <1>1 DEF InFlight, RenamedDestination, IsScheduled
<1>5. \A i \in DOMAIN ROB : \A k \in DOMAIN ROB[i].source_registers :
        RenamedSource(i, k) => RenamedSource(i, k)'
  BY <1>1 DEF RenamedSource, IsScheduled
<1> QED BY <1>1, <1>2, <1>3, <1>4, <1>5, ControlStep

\* The destinations are looked at only when all sources have been renamed.
LEMMA StepEndSources == Inv /\ EndSources => Inv'
<1> SUFFICES ASSUME Inv, EndSources PROVE Inv'
  OBVIOUS
<1>1. /\ stage = "sources" /\ stage' = "destinations" /\ op' = 1
      /\ at \in DOMAIN ROB /\ ROB[at].status = "ready" /\ bw > 0
      /\ op \notin DOMAIN ROB[at].source_registers
      /\ UNCHANGED <<allocator, ROB, next_id, last_writer, bw, at>>
  BY DEF EndSources, Inv, Control
<1>2. bw' \in Nat /\ at' \in Nat \ {0}
  BY <1>1 DEF Inv, TypeOK
<1>3. Control'
  BY <1>1 DEF Control
<1>4. \A i \in DOMAIN ROB : \A k \in DOMAIN ROB[i].destination_registers : k \in Nat /\ ~(k < 1)
  BY Entries DEF Inv
<1>5. \A i \in DOMAIN ROB : \A k \in DOMAIN ROB[i].destination_registers :
        /\ InFlight(i, k)' <=> InFlight(i, k)
        /\ RenamedDestination(i, k) => RenamedDestination(i, k)'
  BY <1>1, <1>4 DEF InFlight, RenamedDestination, IsScheduled
<1>6. \A i \in DOMAIN ROB : \A k \in DOMAIN ROB[i].source_registers :
        RenamedSource(i, k) => RenamedSource(i, k)'
  BY <1>1 DEF RenamedSource, IsScheduled
<1> QED BY <1>1, <1>2, <1>3, <1>5, <1>6, ControlStep

-----------------------------------------------------------------------------
(* Steps that move one instruction on *)

\* Entry i gets a new status; its operands stay, and so does what is renamed.
LEMMA StatusStep ==
  ASSUME Inv, NEW i \in DOMAIN ROB, NEW s \in Status,
         ROB' = [ROB EXCEPT ![i].status = s],
         UNCHANGED <<frontend_RAT, backend_RAT, free_registers, next_id, last_writer>>,
         physical_register_file' \in [PhysicalRegister -> PhysicalEntry],
         \A p \in PhysicalRegister :
           physical_register_file'[p].arch_reg_index = physical_register_file[p].arch_reg_index,
         stage' \in {"retire", "complete", "execute", "schedule", "sources", "destinations",
                     "dispatch", "elapse"},
         bw' \in Nat, at' \in Nat \ {0}, op' \in Nat \ {0}, Control',
         \A j \in DOMAIN ROB : \A k \in DOMAIN ROB[j].destination_registers :
           /\ InFlight(j, k)' <=> InFlight(j, k)
           /\ RenamedDestination(j, k) => RenamedDestination(j, k)',
         \A j \in DOMAIN ROB : \A k \in DOMAIN ROB[j].source_registers :
           RenamedSource(j, k) => RenamedSource(j, k)'
  PROVE  Inv'
<1> USE DEF Inv
<1> DEFINE x == [ROB[i] EXCEPT !.status = s]
<1>1. x \in RobEntry /\ x.source_registers = ROB[i].source_registers
        /\ x.destination_registers = ROB[i].destination_registers
  BY Entries DEF RobEntry
<1>2. ROB' = [ROB EXCEPT ![i] = x]
  OBVIOUS
<1> HIDE DEF x
<1>3. /\ ROB' \in Seq(RobEntry) /\ Len(ROB') = Len(ROB) /\ DOMAIN ROB' = DOMAIN ROB
      /\ \A j \in DOMAIN ROB : /\ ROB'[j].source_registers = ROB[j].source_registers
                               /\ ROB'[j].destination_registers = ROB[j].destination_registers
  <2>1. ROB \in Seq(RobEntry)
    BY DEF TypeOK
  <2>2. /\ ROB' \in Seq(RobEntry) /\ Len(ROB') = Len(ROB) /\ DOMAIN ROB' = DOMAIN ROB
        /\ ROB'[i] = x /\ \A j \in DOMAIN ROB : j # i => ROB'[j] = ROB[j]
    <3>1. x \in RobEntry
      BY <1>1
    <3>2. /\ [ROB EXCEPT ![i] = x] \in Seq(RobEntry)
          /\ Len([ROB EXCEPT ![i] = x]) = Len(ROB)
          /\ DOMAIN [ROB EXCEPT ![i] = x] = DOMAIN ROB
          /\ [ROB EXCEPT ![i] = x][i] = x
          /\ \A j \in DOMAIN ROB : j # i => [ROB EXCEPT ![i] = x][j] = ROB[j]
      BY <2>1, <3>1, Replaced
    <3> QED BY <1>2, <3>2
  <2> QED BY <1>1, <2>2
<1>4. TypeOK'
  BY <1>3 DEF TypeOK
<1>5. Operands'
  BY <1>3 DEF Operands
<1>6. Mapped'
  BY DEF Mapped, isAllocated
<1>7. Names' /\ RegisterPartition'
  <2>1. \A j, k : InFlight(j, k)' <=> InFlight(j, k)
    BY <1>3 DEF InFlight
  <2>2. \A j, k : InFlight(j, k) => j \in Nat /\ j \in DOMAIN ROB
    BY Entries DEF InFlight
  <2>3. \A p : Assigned(p) => Assigned(p)'
    BY DEF Assigned, isAllocated
  <2>4. \A j, k : InFlight(j, k)' =>
           /\ j \in Nat /\ InFlight(j + 0, k)
           /\ ROB'[j].destination_registers[k] = ROB[j + 0].destination_registers[k]
    BY <1>3, <2>1, <2>2
  <2>5. \A j, k : InFlight(j, k) => j \in Nat /\ j - 0 \in Nat /\ InFlight(j - 0, k)'
    BY <2>1, <2>2
  <2> QED BY <2>3, <2>4, <2>5, SameRegistersInFlight
<1> QED BY <1>4, <1>5, <1>6, <1>7

\* complete_inflight_instruction makes registers valid, and moves none.
LEMMA StepComplete == ASSUME Inv, NEW i \in DOMAIN ROB, Complete(i) PROVE Inv'
<1>1. /\ stage = "complete" /\ ROB[i].status = "performed" /\ bw > 0
      /\ ROB' = [ROB EXCEPT ![i].status = "completed"]
      /\ bw' = bw - 1
      /\ UNCHANGED <<frontend_RAT, backend_RAT, free_registers, stage, at, op, next_id, last_writer>>
  BY DEF Complete, CanComplete, CompleteDests
<1>2. /\ physical_register_file' \in [PhysicalRegister -> PhysicalEntry]
      /\ \A p \in PhysicalRegister :
           physical_register_file'[p].arch_reg_index = physical_register_file[p].arch_reg_index
  <2>1. PICK ps : CompleteDests(ps)
    BY DEF Complete
  <2>2. ASSUME NEW p \in PhysicalRegister
        PROVE  /\ [physical_register_file[p] EXCEPT !.valid = TRUE] \in PhysicalEntry
               /\ [physical_register_file[p] EXCEPT !.valid = TRUE].arch_reg_index
                    = physical_register_file[p].arch_reg_index
               /\ physical_register_file[p] \in PhysicalEntry
    BY DEF Inv, TypeOK, PhysicalEntry
  <2> QED BY <2>1, <2>2 DEF CompleteDests
<1>3. /\ bw' \in Nat /\ at' \in Nat \ {0} /\ op' \in Nat \ {0}
      /\ op = 1 /\ stage' = "complete" /\ stage' # "retire"
  <2>1. bw \in Nat /\ at \in Nat \ {0} /\ op \in Nat \ {0}
    BY DEF Inv, TypeOK
  <2>2. op = 1
    BY <1>1 DEF Inv, Control
  <2> QED BY <1>1, <2>1, <2>2
<1>4. Control'
  BY <1>1, <1>3 DEF Control
<1>5. \A j \in DOMAIN ROB : ROB'[j] = IF j = i THEN [ROB[i] EXCEPT !.status = "completed"] ELSE ROB[j]
  BY <1>1
<1>6. \A j \in DOMAIN ROB :
        /\ IsScheduled(ROB[j])' <=> IsScheduled(ROB[j])
        /\ ROB'[j].source_registers = ROB[j].source_registers
        /\ ROB'[j].destination_registers = ROB[j].destination_registers
  BY <1>1, <1>5, Entries DEF IsScheduled, Inv, RobEntry
<1>7. \A j \in DOMAIN ROB : \A k \in DOMAIN ROB[j].destination_registers :
        /\ InFlight(j, k)' <=> InFlight(j, k)
        /\ RenamedDestination(j, k) => RenamedDestination(j, k)'
  BY <1>1, <1>6 DEF InFlight, RenamedDestination
<1>8. \A j \in DOMAIN ROB : \A k \in DOMAIN ROB[j].source_registers :
        RenamedSource(j, k) => RenamedSource(j, k)'
  BY <1>1, <1>6 DEF RenamedSource
<1>9. "completed" \in Status /\ stage' \in {"retire", "complete", "execute", "schedule", "sources",
                                         "destinations", "dispatch", "elapse"}
  BY <1>1 DEF Status
<1> QED BY <1>1, <1>2, <1>3, <1>4, <1>7, <1>8, <1>9, StatusStep

\* Execution, readiness and memory move one instruction on, and none over the
\* point where its operands are renamed.
LEMMA StepAdvance ==
  ASSUME Inv, NEW i \in DOMAIN ROB, Execute(i) \/ BecomeReady(i) \/ Perform(i)
  PROVE  Inv'
<1>1. PICK s \in Status :
        /\ ROB' = [ROB EXCEPT ![i].status = s]
        /\ s \notin {"dispatched", "ready"} <=> IsScheduled(ROB[i])
  BY DEF Execute, CanExecute, BecomeReady, Perform, IsScheduled, Status
<1>2. /\ stage \in {"execute", "elapse"}
      /\ bw' \in Nat
      /\ UNCHANGED <<allocator, stage, at, op, next_id, last_writer>>
  <2>1. bw \in Nat
    BY DEF Inv, TypeOK
  <2> QED BY <2>1 DEF Execute, BecomeReady, Perform
<1>3. /\ at' \in Nat \ {0} /\ op' \in Nat \ {0} /\ op = 1
      /\ physical_register_file \in [PhysicalRegister -> PhysicalEntry]
  BY <1>2 DEF Inv, TypeOK, Control
<1>4. Control'
  BY <1>2, <1>3 DEF Control
<1>5. \A j \in DOMAIN ROB : ROB'[j] = IF j = i THEN [ROB[i] EXCEPT !.status = s] ELSE ROB[j]
  BY <1>1
<1>6. \A j \in DOMAIN ROB :
        /\ IsScheduled(ROB[j])' <=> IsScheduled(ROB[j])
        /\ ROB'[j].source_registers = ROB[j].source_registers
        /\ ROB'[j].destination_registers = ROB[j].destination_registers
  BY <1>1, <1>5, Entries DEF IsScheduled, Inv, RobEntry
<1>7. DOMAIN ROB' = DOMAIN ROB
  BY <1>1
<1>8. \A j \in DOMAIN ROB : \A k \in DOMAIN ROB[j].destination_registers :
        /\ InFlight(j, k)' <=> InFlight(j, k)
        /\ RenamedDestination(j, k) => RenamedDestination(j, k)'
  BY <1>2, <1>6, <1>7 DEF InFlight, RenamedDestination
<1>9. \A j \in DOMAIN ROB : \A k \in DOMAIN ROB[j].source_registers :
        RenamedSource(j, k) => RenamedSource(j, k)'
  BY <1>2, <1>6, <1>7 DEF RenamedSource
<1>10. /\ physical_register_file' = physical_register_file
       /\ UNCHANGED <<frontend_RAT, backend_RAT, free_registers, next_id, last_writer>>
       /\ stage' \in {"retire", "complete", "execute", "schedule", "sources", "destinations",
                      "dispatch", "elapse"}
  BY <1>2 DEF allocator
<1> QED BY <1>1, <1>2, <1>3, <1>4, <1>8, <1>9, <1>10, StatusStep

\* When the last operand has its name the instruction is scheduled.
LEMMA StepEndRenaming == Inv /\ EndRenaming => Inv'
<1> SUFFICES ASSUME Inv, EndRenaming PROVE Inv'
  OBVIOUS
<1>1. /\ stage = "destinations" /\ at \in DOMAIN ROB /\ ROB[at].status = "ready" /\ bw > 0
      /\ op \notin DOMAIN ROB[at].destination_registers
      /\ ROB' = [ROB EXCEPT ![at].status = "scheduled"]
      /\ stage' = "schedule" /\ op' = 1 /\ at' = at + 1 /\ bw' = bw - 1
      /\ UNCHANGED <<allocator, next_id, last_writer>>
  BY DEF EndRenaming, Inv, Control
<1>2. /\ bw \in Nat /\ at \in Nat \ {0} /\ op \in Nat \ {0}
      /\ physical_register_file \in [PhysicalRegister -> PhysicalEntry]
  BY DEF Inv, TypeOK
<1>3. bw' \in Nat /\ at' \in Nat \ {0} /\ op' \in Nat \ {0}
  BY <1>1, <1>2
<1>4. Control'
  BY <1>1 DEF Control
<1>5. \A j \in DOMAIN ROB : ROB'[j] = IF j = at THEN [ROB[at] EXCEPT !.status = "scheduled"] ELSE ROB[j]
  BY <1>1
<1>6. \A j \in DOMAIN ROB :
        /\ IsScheduled(ROB[j])' <=> IsScheduled(ROB[j]) \/ j = at
        /\ ROB'[j].source_registers = ROB[j].source_registers
        /\ ROB'[j].destination_registers = ROB[j].destination_registers
  BY <1>1, <1>5, Entries DEF IsScheduled, Inv, RobEntry
<1>7. DOMAIN ROB' = DOMAIN ROB
  BY <1>1
<1>8. \A k \in DOMAIN ROB[at].destination_registers : k < op
  <2>1. /\ DOMAIN ROB[at].destination_registers = 1..Len(ROB[at].destination_registers)
        /\ Len(ROB[at].destination_registers) \in Nat
    BY <1>1, Entries DEF Inv
  <2>2. op \in Nat \ {0} /\ op \notin DOMAIN ROB[at].destination_registers
    BY <1>1, <1>2
  <2> QED BY <2>1, <2>2
<1>9. \A j \in DOMAIN ROB : \A k \in DOMAIN ROB[j].destination_registers :
        /\ InFlight(j, k)' <=> InFlight(j, k)
        /\ RenamedDestination(j, k) => RenamedDestination(j, k)'
  BY <1>1, <1>6, <1>7, <1>8 DEF InFlight, RenamedDestination
<1>10. \A j \in DOMAIN ROB : \A k \in DOMAIN ROB[j].source_registers :
         RenamedSource(j, k) => RenamedSource(j, k)'
  BY <1>1, <1>6, <1>7 DEF RenamedSource
<1>11. /\ physical_register_file' = physical_register_file
       /\ UNCHANGED <<frontend_RAT, backend_RAT, free_registers, next_id, last_writer>>
       /\ "scheduled" \in Status
       /\ stage' \in {"retire", "complete", "execute", "schedule", "sources", "destinations",
                      "dispatch", "elapse"}
  BY <1>1 DEF allocator, Status
<1> QED BY <1>1, <1>2, <1>3, <1>4, <1>9, <1>10, <1>11, StatusStep

-----------------------------------------------------------------------------
(* Steps that move the reorder buffer *)

\* The front instruction leaves when its destinations have retired, and the
\* entries behind it move up by one.
LEMMA StepRetireFront == Inv /\ RetireFront => Inv'
<1> SUFFICES ASSUME Inv, RetireFront PROVE Inv'
  OBVIOUS
<1>1. /\ stage = "retire" /\ stage' = "retire" /\ op' = 1 /\ bw > 0 /\ bw' = bw - 1
      /\ ROB # <<>> /\ ROB' = Tail(ROB) /\ op \notin DOMAIN Head(ROB).destination_registers
      /\ UNCHANGED <<allocator, at, next_id, last_writer>>
  BY DEF RetireFront, CanRetire
<1>2. ROB \in Seq(RobEntry) /\ Len(ROB) <= ROB_SIZE /\ Len(ROB) \in Nat /\ op \in Nat \ {0}
  BY Entries DEF Inv, TypeOK
<1>3. /\ 1 \in DOMAIN ROB /\ Head(ROB) = ROB[1]
      /\ ROB' \in Seq(RobEntry) /\ Len(ROB') = Len(ROB) - 1
      /\ DOMAIN ROB' = {j \in Nat \ {0} : j + 1 \in DOMAIN ROB}
      /\ \A j \in DOMAIN ROB' : ROB'[j] = ROB[j + 1]
  BY <1>1, <1>2, FrontTaken
<1>4. TypeOK'
  <2>1. Len(ROB') <= ROB_SIZE
    BY <1>2, <1>3
  <2> QED BY <1>1, <1>3, <2>1 DEF Inv, TypeOK, allocator, PhysicalEntry
<1>5. Control'
  BY <1>1 DEF Control
<1>6. Operands'
  BY <1>1, <1>3 DEF Inv, Operands, RenamedSource, RenamedDestination, IsScheduled
<1>7. Mapped'
  BY <1>1 DEF Inv, Mapped, allocator, isAllocated
<1>8. Names' /\ RegisterPartition'
  <2>1. \A k \in DOMAIN ROB[1].destination_registers : k < op
    <3>1. /\ DOMAIN ROB[1].destination_registers = 1..Len(ROB[1].destination_registers)
          /\ Len(ROB[1].destination_registers) \in Nat
      BY <1>3, Entries DEF Inv
    <3> QED BY <1>1, <1>2, <1>3, <3>1
  <2>2. \A j \in DOMAIN ROB : j \in Nat \ {0} /\ \A k \in DOMAIN ROB[j].destination_registers : k \in Nat \ {0}
    BY Entries DEF Inv
  <2>3. ASSUME NEW j, NEW k, InFlight(j, k)'
        PROVE  /\ j \in Nat /\ InFlight(j + 1, k)
               /\ ROB'[j].destination_registers[k] = ROB[j + 1].destination_registers[k]
    <3>1. j \in DOMAIN ROB' /\ k \in DOMAIN ROB'[j].destination_registers /\ IsScheduled(ROB'[j])
      BY <1>1, <2>3 DEF InFlight, IsScheduled
    <3>2. j \in Nat \ {0} /\ j + 1 \in DOMAIN ROB /\ ROB'[j] = ROB[j + 1] /\ j + 1 # 1
      BY <1>3, <3>1
    <3> QED BY <3>1, <3>2 DEF InFlight
  <2>4. ASSUME NEW j, NEW k, InFlight(j, k)
        PROVE  j \in Nat /\ j - 1 \in Nat /\ InFlight(j - 1, k)'
    <3> DEFINE n == j - 1
    <3>1. /\ j \in DOMAIN ROB /\ k \in DOMAIN ROB[j].destination_registers /\ IsScheduled(ROB[j])
          /\ j # 1 /\ j \in Nat \ {0} /\ k \in Nat \ {0}
      BY <1>1, <2>1, <2>2, <2>4 DEF InFlight
    <3>2. n \in Nat \ {0} /\ n + 1 = j
      BY <3>1
    <3>3. n \in DOMAIN ROB' /\ ROB'[n] = ROB[j]
      BY <1>3, <3>1, <3>2
    <3> HIDE DEF n
    <3>4. InFlight(n, k)'
      BY <1>1, <3>1, <3>3 DEF InFlight, IsScheduled
    <3> QED BY <3>1, <3>2, <3>4 DEF n
  <2>5. \A p : Assigned(p) => Assigned(p)'
    BY <1>1 DEF Assigned, allocator, isAllocated
  <2>6. free_registers' = free_registers /\ backend_RAT' = backend_RAT
    BY <1>1 DEF allocator
  <2> QED BY <2>3, <2>4, <2>5, <2>6, SameRegistersInFlight DEF Inv
<1> QED BY <1>4, <1>5, <1>6, <1>7, <1>8 DEF Inv

LEMMA NewEntryType ==
  ASSUME TypeOK, next_id <= MaxInstr, NEW o \in Operation
  PROVE  NewEntry(o) \in RobEntry
<1>1. o.source_registers \in Seq(ArchRegister) /\ o.destination_registers \in Seq(ArchRegister)
  OBVIOUS
<1>2. ArchRegister \subseteq Operand
  BY DEF Operand
<1>3. o.source_registers \in Seq(Operand) /\ o.destination_registers \in Seq(Operand)
  BY <1>1, <1>2, SeqMonotonic
<1>4. Needs(o) \in Seq(ArchRegister \X (0..MaxInstr))
  <2>1. /\ Len(o.source_registers) \in Nat
        /\ DOMAIN o.source_registers = 1..Len(o.source_registers)
        /\ \A k \in DOMAIN o.source_registers : o.source_registers[k] \in ArchRegister
    BY <1>1, InSeq
  <2>2. Needs(o) \in [1..Len(o.source_registers) -> ArchRegister \X (0..MaxInstr)]
    BY <2>1 DEF Needs, TypeOK
  <2> QED BY <2>1, <2>2, SeqDef
<1>5. next_id \in 1..MaxInstr
  BY DEF TypeOK
<1> QED BY <1>1, <1>3, <1>4, <1>5 DEF NewEntry, RobEntry, Status

\* A dispatched instruction goes to the end and has renamed nothing.
LEMMA StepDispatch == ASSUME Inv, NEW o \in Operation, Dispatch(o) PROVE Inv'
<1> DEFINE x == NewEntry(o)
<1>1. /\ stage = "dispatch" /\ bw > 0 /\ bw' = bw - 1 /\ Len(ROB) < ROB_SIZE /\ next_id <= MaxInstr
      /\ ROB' = Append(ROB, x) /\ next_id' = next_id + 1
      /\ last_writer' = [r \in ArchRegister |-> IF r \in Elements(o.destination_registers)
                                                  THEN next_id ELSE last_writer[r]]
      /\ UNCHANGED <<allocator, stage, at, op>>
  BY DEF Dispatch, HasSlot
<1>2. ROB \in Seq(RobEntry) /\ x \in RobEntry /\ Len(ROB) \in Nat
  BY <1>1, Entries, NewEntryType DEF Inv, TypeOK
<1>3. /\ x.status = "dispatched"
      /\ x.source_registers \in Seq(ArchRegister) /\ x.destination_registers \in Seq(ArchRegister)
  BY DEF NewEntry
<1> HIDE DEF x
<1>4. /\ ROB' \in Seq(RobEntry) /\ Len(ROB') = Len(ROB) + 1
      /\ DOMAIN ROB' = DOMAIN ROB \cup {Len(ROB) + 1} /\ ROB'[Len(ROB) + 1] = x
      /\ \A j \in DOMAIN ROB : ROB'[j] = ROB[j] /\ j # Len(ROB) + 1
  BY <1>1, <1>2, Appended
<1>5. TypeOK'
  <2>1. Len(ROB') <= ROB_SIZE /\ bw' \in Nat /\ next_id \in Nat /\ next_id' \in 1..(MaxInstr + 1)
    BY <1>1, <1>2, <1>4 DEF Inv, TypeOK
  <2>2. last_writer' \in [ArchRegister -> 0..MaxInstr]
    BY <1>1, <2>1 DEF Inv, TypeOK
  <2> QED BY <1>1, <1>4, <2>1, <2>2 DEF Inv, TypeOK, allocator, PhysicalEntry
<1>6. Control'
  BY <1>1 DEF Inv, Control
<1>7. /\ \A k \in DOMAIN x.source_registers : x.source_registers[k] \in ArchRegister
      /\ \A k \in DOMAIN x.destination_registers : x.destination_registers[k] \in ArchRegister
  BY <1>3, InSeq
<1>8. Operands'
  <2> SUFFICES ASSUME NEW j \in DOMAIN ROB'
               PROVE  /\ \A k \in DOMAIN ROB'[j].source_registers :
                           ~RenamedSource(j, k)' => ROB'[j].source_registers[k] \in ArchRegister
                      /\ \A k \in DOMAIN ROB'[j].destination_registers :
                           ~RenamedDestination(j, k)' => ROB'[j].destination_registers[k] \in ArchRegister
    BY DEF Operands
  <2>1. CASE j \in DOMAIN ROB
    <3>1. ROB'[j] = ROB[j]
      BY <1>4, <2>1
    <3> QED BY <1>1, <2>1, <3>1 DEF Inv, Operands, RenamedSource, RenamedDestination, IsScheduled
  <2>2. CASE j = Len(ROB) + 1
    BY <1>4, <1>7, <2>2
  <2> QED BY <1>4, <2>1, <2>2
<1>9. Mapped'
  BY <1>1 DEF Inv, Mapped, allocator, isAllocated
<1>10. Names' /\ RegisterPartition'
  <2>1. ~IsScheduled(x)
    BY <1>3 DEF IsScheduled
  <2>2. ASSUME NEW j, NEW k, InFlight(j, k)'
        PROVE  /\ j \in Nat /\ InFlight(j + 0, k)
               /\ ROB'[j].destination_registers[k] = ROB[j + 0].destination_registers[k]
    <3>1. j \in DOMAIN ROB' /\ k \in DOMAIN ROB'[j].destination_registers /\ IsScheduled(ROB'[j])
      BY <1>1, <2>2 DEF InFlight, IsScheduled
    <3>2. j \in DOMAIN ROB /\ ROB'[j] = ROB[j]
      BY <1>4, <2>1, <3>1
    <3>3. InFlight(j, k) /\ j \in Nat
      BY <1>1, <3>1, <3>2, Entries DEF InFlight, Inv
    <3> QED BY <3>2, <3>3
  <2>3. ASSUME NEW j, NEW k, InFlight(j, k)
        PROVE  j \in Nat /\ j - 0 \in Nat /\ InFlight(j - 0, k)'
    <3>1. /\ j \in DOMAIN ROB /\ k \in DOMAIN ROB[j].destination_registers /\ IsScheduled(ROB[j])
          /\ j \in Nat
      BY <1>1, <2>3, Entries DEF InFlight, Inv
    <3>2. j \in DOMAIN ROB' /\ ROB'[j] = ROB[j]
      BY <1>4, <3>1
    <3>3. InFlight(j, k)'
      BY <1>1, <3>1, <3>2 DEF InFlight, IsScheduled
    <3> QED BY <3>1, <3>3
  <2>4. \A p : Assigned(p) => Assigned(p)'
    BY <1>1 DEF Assigned, allocator, isAllocated
  <2>5. free_registers' = free_registers /\ backend_RAT' = backend_RAT
    BY <1>1 DEF allocator
  <2> QED BY <2>2, <2>3, <2>4, <2>5, SameRegistersInFlight DEF Inv
<1> QED BY <1>5, <1>6, <1>8, <1>9, <1>10 DEF Inv

-----------------------------------------------------------------------------
(* The free list *)

NoFreeTwice == \A m, n \in DOMAIN free_registers : free_registers[m] = free_registers[n] => m = n

LEMMA TakeFree ==
  ASSUME TypeOK, NoFreeTwice, free_registers # <<>>, free_registers' = Tail(free_registers)
  PROVE  /\ Head(free_registers) \in PhysicalRegister /\ FreeName(Head(free_registers))
         /\ free_registers' \in Seq(PhysicalRegister)
         /\ \A q : FreeName(q)' <=> FreeName(q) /\ q # Head(free_registers)
         /\ NoFreeTwice'
<1>1. /\ 1 \in DOMAIN free_registers /\ Head(free_registers) = free_registers[1]
      /\ Head(free_registers) \in PhysicalRegister
      /\ free_registers' \in Seq(PhysicalRegister)
      /\ DOMAIN free_registers' = {j \in Nat \ {0} : j + 1 \in DOMAIN free_registers}
      /\ \A j \in DOMAIN free_registers' : free_registers'[j] = free_registers[j + 1]
  BY FrontTaken DEF TypeOK
<1>2. \A j \in DOMAIN free_registers : j \in Nat \ {0}
  BY InSeq DEF TypeOK
<1>3. ASSUME NEW q
      PROVE  FreeName(q)' <=> FreeName(q) /\ q # Head(free_registers)
  <2>1. ASSUME FreeName(q)' PROVE FreeName(q) /\ q # Head(free_registers)
    <3>1. PICK j \in DOMAIN free_registers' : free_registers'[j] = q
      BY <2>1 DEF FreeName
    <3>2. j + 1 \in DOMAIN free_registers /\ free_registers[j + 1] = q /\ j + 1 # 1
      BY <1>1, <3>1
    <3> QED BY <1>1, <3>2 DEF FreeName, NoFreeTwice
  <2>2. ASSUME FreeName(q), q # Head(free_registers) PROVE FreeName(q)'
    <3>1. PICK j \in DOMAIN free_registers : free_registers[j] = q
      BY <2>2 DEF FreeName
    <3> DEFINE n == j - 1
    <3>2. n \in Nat \ {0} /\ n + 1 = j
      BY <1>1, <1>2, <2>2, <3>1
    <3>3. n \in DOMAIN free_registers' /\ free_registers'[n] = q
      BY <1>1, <3>1, <3>2
    <3> QED BY <3>3 DEF FreeName
  <2> QED BY <2>1, <2>2
<1>4. NoFreeTwice'
  <2> SUFFICES ASSUME NEW m \in DOMAIN free_registers', NEW n \in DOMAIN free_registers',
                      free_registers'[m] = free_registers'[n]
               PROVE  m = n
    BY DEF NoFreeTwice
  <2>1. /\ m \in Nat /\ n \in Nat /\ m + 1 \in DOMAIN free_registers /\ n + 1 \in DOMAIN free_registers
        /\ free_registers[m + 1] = free_registers[n + 1]
    BY <1>1
  <2>2. m + 1 = n + 1
    BY <2>1 DEF NoFreeTwice
  <2> QED BY <2>1, <2>2
<1>5. FreeName(Head(free_registers))
  BY <1>1 DEF FreeName
<1> QED BY <1>1, <1>3, <1>4, <1>5

LEMMA PutFree ==
  ASSUME TypeOK, NoFreeTwice, NEW p \in PhysicalRegister, ~FreeName(p),
         free_registers' = Append(free_registers, p)
  PROVE  /\ free_registers' \in Seq(PhysicalRegister)
         /\ \A q : FreeName(q)' <=> FreeName(q) \/ q = p
         /\ NoFreeTwice'
<1> DEFINE e == Len(free_registers) + 1
<1>1. /\ free_registers' \in Seq(PhysicalRegister)
      /\ DOMAIN free_registers' = DOMAIN free_registers \cup {e} /\ free_registers'[e] = p
      /\ \A j \in DOMAIN free_registers : free_registers'[j] = free_registers[j] /\ j # e
  BY Appended DEF TypeOK
<1> HIDE DEF e
<1>2. \A j \in DOMAIN free_registers : free_registers[j] # p
  BY DEF FreeName
<1> QED BY <1>1, <1>2 DEF FreeName, NoFreeTwice

-----------------------------------------------------------------------------
(* Retirement *)

\* The register that a retiring write replaces goes to the free list, and the
\* register it wrote from the instruction to the backend table.
LEMMA StepRetireDestination == Inv /\ RetireDestination => Inv'
<1> SUFFICES ASSUME Inv, RetireDestination PROVE Inv'
  OBVIOUS
<1> DEFINE p == ROB[1].destination_registers[op]
           arch == physical_register_file[p].arch_reg_index
           old == backend_RAT[arch]
<1>1. TypeOK /\ Names /\ Mapped /\ RegisterPartition /\ NoFreeTwice
  BY DEF Inv, RegisterPartition, NoFreeTwice
<1>2. /\ 1 \in DOMAIN ROB /\ Head(ROB) = ROB[1]
      /\ bw > 0 /\ ROB[1].status = "completed" /\ stage = "retire"
      /\ op \in DOMAIN ROB[1].destination_registers
      /\ op \in Nat \ {0} /\ op' = op + 1
      /\ UNCHANGED <<ROB, stage, bw, at, next_id, last_writer>>
  <2>1. ROB \in Seq(RobEntry) /\ ROB # <<>> /\ op \in Nat \ {0}
    BY <1>1 DEF RetireDestination, CanRetire, TypeOK
  <2>2. 1 \in DOMAIN ROB /\ Head(ROB) = ROB[1]
    BY <2>1, FrontTaken
  <2> QED BY <2>1, <2>2 DEF RetireDestination, CanRetire
<1>3. InFlight(1, op) /\ InFlightName(p) /\ Assigned(p)
  <2>1. InFlight(1, op)
    BY <1>2 DEF InFlight, IsScheduled
  <2> QED BY <1>1, <1>2, <2>1 DEF InFlightName, Names
<1>4. /\ p \in PhysicalRegister /\ arch \in ArchRegister /\ isAllocated(arch)
      /\ old \in PhysicalRegister \cup {Unmapped}
  BY <1>1, <1>3 DEF Assigned, TypeOK
<1>5. /\ backend_RAT' = [backend_RAT EXCEPT ![arch] = p]
      /\ \/ old # Unmapped /\ FreeRegister(old)
         \/ old = Unmapped /\ UNCHANGED <<free_registers, physical_register_file>>
      /\ frontend_RAT' = frontend_RAT
  BY <1>2 DEF RetireDestination, RetireDest
<1>6. \A q \in PhysicalRegister : q # Unmapped
  BY DEF PhysicalRegister, Unmapped
<1> HIDE DEF p, arch, old
<1>7. old # Unmapped => old \in PhysicalRegister /\ CommittedName(old) /\ ~FreeName(old) /\ ~InFlightName(old)
  <2>1. old # Unmapped => old \in PhysicalRegister
    BY <1>4
  <2>2. old # Unmapped => CommittedName(old)
    BY <1>4 DEF CommittedName, old
  <2> QED BY <1>1, <2>1, <2>2 DEF RegisterPartition
<1>8. /\ free_registers' \in Seq(PhysicalRegister)
      /\ \A q : FreeName(q)' <=> FreeName(q) \/ (q = old /\ old # Unmapped)
      /\ NoFreeTwice'
  <2>1. CASE old # Unmapped /\ FreeRegister(old)
    <3>1. free_registers' = Append(free_registers, old) /\ old \in PhysicalRegister /\ ~FreeName(old)
      BY <1>7, <2>1 DEF FreeRegister
    <3> QED BY <1>1, <2>1, <3>1, PutFree
  <2>2. CASE old = Unmapped /\ UNCHANGED <<free_registers, physical_register_file>>
    BY <1>1, <2>2 DEF FreeName, NoFreeTwice, TypeOK
  <2> QED BY <1>5, <2>1, <2>2
<1>9. /\ physical_register_file' \in [PhysicalRegister -> PhysicalEntry]
      /\ \A q \in PhysicalRegister : q # old => physical_register_file'[q] = physical_register_file[q]
  <2>1. Entry(NoArchRegister, 0, FALSE, FALSE) \in PhysicalEntry
    BY DEF Entry, PhysicalEntry, NoArchRegister
  <2> QED BY <1>1, <1>5, <2>1 DEF FreeRegister, TypeOK
<1>10. /\ backend_RAT' \in [ArchRegister -> PhysicalRegister \cup {Unmapped}]
       /\ backend_RAT'[arch] = p
       /\ \A r \in ArchRegister : r # arch => backend_RAT'[r] = backend_RAT[r]
  BY <1>1, <1>4, <1>5 DEF TypeOK
<1>11. TypeOK'
  <2>1. frontend_RAT' \in [ArchRegister -> PhysicalRegister \cup {Unmapped}]
    BY <1>1, <1>5 DEF TypeOK
  <2>2. op' \in Nat \ {0}
    BY <1>2
  <2> QED BY <1>1, <1>2, <1>8, <1>9, <1>10, <2>1, <2>2 DEF TypeOK
<1>12. Control'
  BY <1>2 DEF Inv, Control, CanRetire
<1>13. Operands'
  BY <1>2 DEF Inv, Operands, RenamedSource, RenamedDestination, IsScheduled
<1>14. Mapped'
  BY <1>1, <1>4, <1>5, <1>10 DEF Mapped, isAllocated
<1>15. ASSUME NEW i, NEW k
       PROVE  InFlight(i, k)' <=> InFlight(i, k) /\ ~(i = 1 /\ k = op)
  <2>1. i \in DOMAIN ROB => \A l \in DOMAIN ROB[i].destination_registers : l \in Nat
    BY <1>1, Entries
  <2> QED BY <1>2, <2>1 DEF InFlight, IsScheduled
<1>16. ASSUME NEW i, NEW k, InFlight(i, k), ~(i = 1 /\ k = op)
       PROVE  /\ i \in DOMAIN ROB /\ k \in DOMAIN ROB[i].destination_registers
              /\ Assigned(ROB[i].destination_registers[k])
              /\ ROB[i].destination_registers[k] # p
              /\ ROB[i].destination_registers[k] # old
  <2>1. /\ i \in DOMAIN ROB /\ k \in DOMAIN ROB[i].destination_registers
        /\ Assigned(ROB[i].destination_registers[k])
        /\ InFlightName(ROB[i].destination_registers[k])
    BY <1>1, <1>16 DEF InFlight, InFlightName, Names
  <2>2. ROB[i].destination_registers[k] # p
    BY <1>1, <1>2, <1>3, <1>16, <2>1 DEF RegisterPartition, p
  <2>3. ROB[i].destination_registers[k] # old
    BY <1>6, <1>7, <2>1 DEF Assigned
  <2> QED BY <2>1, <2>2, <2>3
<1>17. \A q : InFlightName(q)' <=> InFlightName(q) /\ q # p
  <2>1. ASSUME NEW q, InFlightName(q)' PROVE InFlightName(q) /\ q # p
    <3>1. PICK i, k : InFlight(i, k)' /\ ROB'[i].destination_registers[k] = q
      BY <2>1 DEF InFlightName
    <3>2. InFlight(i, k) /\ ~(i = 1 /\ k = op) /\ ROB[i].destination_registers[k] = q
      BY <1>2, <1>15, <3>1
    <3> QED BY <1>16, <3>2 DEF InFlightName
  <2>2. ASSUME NEW q, InFlightName(q), q # p PROVE InFlightName(q)'
    <3>1. PICK i \in DOMAIN ROB : \E k \in DOMAIN ROB[i].destination_registers :
            InFlight(i, k) /\ ROB[i].destination_registers[k] = q
      BY <2>2 DEF InFlightName
    <3>2. PICK k \in DOMAIN ROB[i].destination_registers :
            InFlight(i, k) /\ ROB[i].destination_registers[k] = q
      BY <3>1
    <3>3. ~(i = 1 /\ k = op)
      BY <2>2, <3>2 DEF p
    <3>4. InFlight(i, k)'
      BY <1>15, <3>2, <3>3
    <3> QED BY <1>2, <3>2, <3>4 DEF InFlightName
  <2> QED BY <2>1, <2>2
<1>18. \A q \in PhysicalRegister : CommittedName(q)' <=> q = p \/ (CommittedName(q) /\ q # old)
  <2>1. \A r \in ArchRegister : r # arch /\ old # Unmapped => backend_RAT[r] # old
    BY <1>1, <1>4 DEF RegisterPartition, old
  <2> QED BY <1>4, <1>6, <1>10, <2>1 DEF CommittedName, old
<1>19. Names'
  <2> SUFFICES ASSUME NEW i, NEW k, InFlight(i, k)'
               PROVE  Assigned(ROB[i].destination_registers[k])'
    BY DEF Names
  <2>1. InFlight(i, k) /\ ~(i = 1 /\ k = op)
    BY <1>15
  <2>2. PICK q : q = ROB[i].destination_registers[k]
    OBVIOUS
  <2>3. Assigned(q) /\ q # old /\ q = ROB'[i].destination_registers[k]
    BY <1>2, <1>16, <2>1, <2>2
  <2> QED BY <1>5, <1>9, <2>3 DEF Assigned, isAllocated
<1>20. RegisterPartition'
  <2>1. ASSUME NEW q \in PhysicalRegister
        PROVE  /\ (FreeName(q) \/ CommittedName(q) \/ InFlightName(q))'
               /\ ~(FreeName(q) /\ CommittedName(q))'
               /\ ~(FreeName(q) /\ InFlightName(q))'
               /\ ~(CommittedName(q) /\ InFlightName(q))'
    <3>1. /\ FreeName(q) \/ CommittedName(q) \/ InFlightName(q)
          /\ ~(FreeName(q) /\ CommittedName(q))
          /\ ~(FreeName(q) /\ InFlightName(q))
          /\ ~(CommittedName(q) /\ InFlightName(q))
      BY <1>1 DEF RegisterPartition
    <3>2. q # Unmapped /\ (q = p => InFlightName(q)) /\ (q = old => CommittedName(q))
      BY <1>3, <1>6, <1>7
    <3>3. FreeName(q)' <=> FreeName(q) \/ q = old
      BY <1>8, <3>2
    <3>4. CommittedName(q)' <=> q = p \/ (CommittedName(q) /\ q # old)
      BY <1>18
    <3>5. InFlightName(q)' <=> InFlightName(q) /\ q # p
      BY <1>17
    <3> QED BY <3>1, <3>2, <3>3, <3>4, <3>5
  <2>2. \A r, t \in ArchRegister :
          backend_RAT'[r] = backend_RAT'[t] /\ backend_RAT'[r] # Unmapped => r = t
    <3>1. \A r \in ArchRegister : backend_RAT[r] # p
      BY <1>1, <1>3, <1>4 DEF RegisterPartition, CommittedName
    <3> QED BY <1>1, <1>10, <3>1 DEF RegisterPartition
  <2>3. ASSUME NEW i, NEW j, NEW k, NEW l, InFlight(i, k)', InFlight(j, l)',
               ROB'[i].destination_registers[k] = ROB'[j].destination_registers[l]
        PROVE  i = j /\ k = l
    <3>1. InFlight(i, k) /\ InFlight(j, l)
      BY <1>15, <2>3
    <3>2. /\ i \in DOMAIN ROB /\ k \in DOMAIN ROB[i].destination_registers
          /\ j \in DOMAIN ROB /\ l \in DOMAIN ROB[j].destination_registers
      BY <3>1 DEF InFlight
    <3> QED BY <1>1, <1>2, <2>3, <3>1, <3>2 DEF RegisterPartition
  <2> QED BY <1>8, <2>1, <2>2, <2>3 DEF RegisterPartition, NoFreeTwice
<1> QED BY <1>11, <1>12, <1>13, <1>14, <1>19, <1>20 DEF Inv

-----------------------------------------------------------------------------
(* Renaming *)

\* A source gets the name in the frontend table; if there is none, it takes a
\* free register, which both tables then name.
LEMMA StepRenameSource == Inv /\ RenameSource => Inv'
<1> SUFFICES ASSUME Inv, RenameSource PROVE Inv'
  OBVIOUS
<1> DEFINE reg == ROB[at].source_registers[op]
           name == SourceName(reg)
           srcs == [ROB[at].source_registers EXCEPT ![op] = name]
           x == [ROB[at] EXCEPT !.source_registers = srcs]
<1>1. /\ TypeOK /\ Names /\ Mapped /\ Operands /\ RegisterPartition /\ NoFreeTwice
      /\ at \in DOMAIN ROB /\ ROB[at].status = "ready" /\ bw > 0
  BY DEF Inv, RegisterPartition, NoFreeTwice, RenameSource, Control
<1>2. /\ stage = "sources" /\ op \in DOMAIN ROB[at].source_registers
      /\ RenameSrc(reg) /\ ROB' = [ROB EXCEPT ![at] = x]
      /\ op' = op + 1 /\ op \in Nat \ {0}
      /\ UNCHANGED <<stage, bw, at, next_id, last_writer>>
  BY <1>1 DEF RenameSource, TypeOK
<1>3. reg \in ArchRegister
  <2>1. ~RenamedSource(at, op)
    BY <1>1, <1>2 DEF RenamedSource, IsScheduled, TypeOK
  <2> QED BY <1>1, <1>2, <2>1 DEF Operands
<1>4. name \in PhysicalRegister
  <2>1. CASE isAllocated(reg)
    BY <1>1, <1>3, <2>1 DEF SourceName, isAllocated, TypeOK
  <2>2. CASE ~isAllocated(reg)
    BY <1>1, <1>2, <2>2, TakeFree DEF SourceName, RenameSrc
  <2> QED BY <2>1, <2>2
<1> HIDE DEF reg, name
<1>5. /\ srcs \in Seq(Operand) /\ DOMAIN srcs = DOMAIN ROB[at].source_registers
      /\ \A k \in DOMAIN srcs : k # op => srcs[k] = ROB[at].source_registers[k]
  <2>1. ROB[at].source_registers \in Seq(Operand) /\ name \in Operand
    BY <1>1, <1>4, Entries DEF Operand
  <2> QED BY <1>2, <2>1, Replaced
<1>6. /\ x \in RobEntry /\ x.source_registers = srcs /\ x.status = ROB[at].status
      /\ x.destination_registers = ROB[at].destination_registers
  BY <1>1, <1>5, Entries DEF RobEntry
<1> HIDE DEF srcs, x
<1>7. /\ ROB' \in Seq(RobEntry) /\ Len(ROB') = Len(ROB) /\ DOMAIN ROB' = DOMAIN ROB
      /\ ROB'[at] = x /\ \A j \in DOMAIN ROB : j # at => ROB'[j] = ROB[j]
  <2>1. ROB \in Seq(RobEntry) /\ x \in RobEntry
    BY <1>1, <1>6 DEF TypeOK
  <2>2. /\ [ROB EXCEPT ![at] = x] \in Seq(RobEntry)
        /\ Len([ROB EXCEPT ![at] = x]) = Len(ROB)
        /\ DOMAIN [ROB EXCEPT ![at] = x] = DOMAIN ROB
        /\ [ROB EXCEPT ![at] = x][at] = x
        /\ \A j \in DOMAIN ROB : j # at => [ROB EXCEPT ![at] = x][j] = ROB[j]
    BY <1>1, <2>1, Replaced
  <2> QED BY <1>2, <2>2
<1>8. \A j \in DOMAIN ROB : /\ ROB'[j].status = ROB[j].status
                            /\ ROB'[j].destination_registers = ROB[j].destination_registers
  BY <1>6, <1>7
<1>9. \A j, k : InFlight(j, k)' <=> InFlight(j, k)
  BY <1>2, <1>7, <1>8 DEF InFlight, IsScheduled
<1>10. Control'
  BY <1>1, <1>2, <1>7, <1>8 DEF Control
<1>11. Operands'
  <2> SUFFICES ASSUME NEW j \in DOMAIN ROB
               PROVE  /\ \A k \in DOMAIN ROB'[j].source_registers :
                           ~RenamedSource(j, k)' => ROB'[j].source_registers[k] \in ArchRegister
                      /\ \A k \in DOMAIN ROB'[j].destination_registers :
                           ~RenamedDestination(j, k)' => ROB'[j].destination_registers[k] \in ArchRegister
    BY <1>7 DEF Operands
  <2>1. ASSUME NEW k \in DOMAIN ROB'[j].destination_registers, ~RenamedDestination(j, k)'
        PROVE  ROB'[j].destination_registers[k] \in ArchRegister
    BY <1>1, <1>2, <1>8, <2>1 DEF Operands, RenamedDestination, IsScheduled
  <2>2. ASSUME NEW k \in DOMAIN ROB'[j].source_registers, ~RenamedSource(j, k)'
        PROVE  ROB'[j].source_registers[k] \in ArchRegister
    <3>1. CASE j # at
      <4>1. ROB'[j] = ROB[j]
        BY <1>7, <3>1
      <4> QED BY <1>1, <1>2, <1>7, <2>2, <3>1, <4>1 DEF Operands, RenamedSource, IsScheduled
    <3>2. CASE j = at
      <4>1. k \in Nat /\ k \in DOMAIN ROB[at].source_registers /\ ~(k < op + 1) /\ ROB'[j].source_registers = srcs
        <5>1. ROB'[j].source_registers = srcs
          BY <1>6, <1>7, <3>2
        <5>2. k \in DOMAIN ROB[at].source_registers
          BY <1>5, <2>2, <5>1
        <5>3. k \in Nat
          BY <1>1, <5>2, Entries
        <5>4. ~(k < op + 1)
          BY <1>2, <2>2, <3>2 DEF RenamedSource
        <5> QED BY <5>1, <5>2, <5>3, <5>4
      <4>2. k # op /\ ~(k < op)
        BY <1>2, <4>1
      <4>3. ~RenamedSource(at, k)
        BY <1>1, <1>2, <4>2 DEF RenamedSource, IsScheduled
      <4>4. ROB[at].source_registers[k] \in ArchRegister
        BY <1>1, <4>1, <4>3 DEF Operands
      <4> QED BY <1>5, <4>1, <4>2, <4>4
    <3> QED BY <3>1, <3>2
  <2> QED BY <2>1, <2>2
<1>12. \A j, k : InFlight(j, k) => j \in Nat /\ j \in DOMAIN ROB
  BY <1>1, Entries DEF InFlight
<1>13. CASE isAllocated(reg)
  <2>0. UNCHANGED allocator
    BY <1>2, <1>13 DEF RenameSrc
  <2>1. TypeOK'
    BY <1>1, <1>2, <1>7, <2>0 DEF TypeOK, allocator
  <2>2. Mapped'
    BY <1>1, <2>0 DEF Mapped, allocator, isAllocated
  <2>3. \A p : Assigned(p) => Assigned(p)'
    BY <2>0 DEF Assigned, allocator, isAllocated
  <2>4. free_registers' = free_registers /\ backend_RAT' = backend_RAT
    BY <2>0 DEF allocator
  <2>5. \A j, k : InFlight(j, k)' =>
           /\ j \in Nat /\ InFlight(j + 0, k)
           /\ ROB'[j].destination_registers[k] = ROB[j + 0].destination_registers[k]
    BY <1>8, <1>9, <1>12
  <2>6. \A j, k : InFlight(j, k) => j \in Nat /\ j - 0 \in Nat /\ InFlight(j - 0, k)'
    BY <1>9, <1>12
  <2>7. Names' /\ RegisterPartition'
    BY <1>1, <2>3, <2>4, <2>5, <2>6, SameRegistersInFlight
  <2> QED BY <1>10, <1>11, <2>1, <2>2, <2>7 DEF Inv
<1>14. CASE ~isAllocated(reg)
  <2> DEFINE h == Head(free_registers)
  <2>1. /\ free_registers # <<>> /\ free_registers' = Tail(free_registers)
        /\ frontend_RAT' = [frontend_RAT EXCEPT ![reg] = h]
        /\ backend_RAT' = [backend_RAT EXCEPT ![reg] = h]
        /\ physical_register_file' = [physical_register_file EXCEPT ![h] = Entry(reg, 0, TRUE, TRUE)]
    BY <1>2, <1>14 DEF RenameSrc
  <2>2. /\ h \in PhysicalRegister /\ FreeName(h)
        /\ free_registers' \in Seq(PhysicalRegister)
        /\ \A q : FreeName(q)' <=> FreeName(q) /\ q # h
        /\ NoFreeTwice'
    BY <1>1, <2>1, TakeFree
  <2> HIDE DEF h
  <2>3. /\ frontend_RAT' \in [ArchRegister -> PhysicalRegister \cup {Unmapped}]
        /\ frontend_RAT'[reg] = h
        /\ \A r \in ArchRegister : r # reg => frontend_RAT'[r] = frontend_RAT[r]
        /\ backend_RAT' \in [ArchRegister -> PhysicalRegister \cup {Unmapped}]
        /\ backend_RAT'[reg] = h
        /\ \A r \in ArchRegister : r # reg => backend_RAT'[r] = backend_RAT[r]
    BY <1>1, <1>3, <2>1, <2>2 DEF TypeOK
  <2>4. /\ physical_register_file' \in [PhysicalRegister -> PhysicalEntry]
        /\ \A q \in PhysicalRegister : q # h => physical_register_file'[q] = physical_register_file[q]
    <3>1. Entry(reg, 0, TRUE, TRUE) \in PhysicalEntry
      BY <1>3 DEF Entry, PhysicalEntry
    <3> QED BY <1>1, <2>1, <2>2, <3>1 DEF TypeOK
  <2>5. TypeOK'
    BY <1>1, <1>2, <1>7, <2>2, <2>3, <2>4 DEF TypeOK
  <2>6. h # Unmapped /\ backend_RAT[reg] = Unmapped /\ \A q \in PhysicalRegister : q # Unmapped
    <3>1. \A q \in PhysicalRegister : q # Unmapped
      BY DEF PhysicalRegister, Unmapped
    <3> QED BY <1>1, <1>3, <1>14, <2>2, <3>1 DEF Mapped
  <2>7. \A r \in ArchRegister : isAllocated(r) => isAllocated(r)'
    BY <2>3, <2>6 DEF isAllocated
  <2>8. Mapped'
    <3> SUFFICES ASSUME NEW r \in ArchRegister, backend_RAT'[r] # Unmapped
                 PROVE  frontend_RAT'[r] # Unmapped
      BY DEF Mapped, isAllocated
    <3> QED BY <1>1, <2>3, <2>6 DEF Mapped, isAllocated
  <2>9. ~CommittedName(h) /\ ~InFlightName(h)
    BY <1>1, <2>2 DEF RegisterPartition
  <2>10. \A q : InFlightName(q)' <=> InFlightName(q)
    BY <1>7, <1>8, <1>9 DEF InFlightName
  <2>11. \A q \in PhysicalRegister : CommittedName(q)' <=> CommittedName(q) \/ q = h
    BY <1>3, <2>3, <2>6 DEF CommittedName
  <2>12. Names'
    <3> SUFFICES ASSUME NEW j, NEW k, InFlight(j, k)'
                 PROVE  Assigned(ROB[j].destination_registers[k])'
      BY DEF Names
    <3>1. InFlight(j, k) /\ j \in DOMAIN ROB /\ k \in DOMAIN ROB[j].destination_registers
      BY <1>9 DEF InFlight
    <3>2. PICK q : q = ROB[j].destination_registers[k]
      OBVIOUS
    <3>3. Assigned(q) /\ q # h /\ q = ROB'[j].destination_registers[k]
      BY <1>1, <1>8, <2>9, <3>1, <3>2 DEF Names, InFlightName
    <3> QED BY <2>4, <2>7, <3>3 DEF Assigned
  <2>13. RegisterPartition'
    <3>1. ASSUME NEW q \in PhysicalRegister
          PROVE  /\ (FreeName(q) \/ CommittedName(q) \/ InFlightName(q))'
                 /\ ~(FreeName(q) /\ CommittedName(q))'
                 /\ ~(FreeName(q) /\ InFlightName(q))'
                 /\ ~(CommittedName(q) /\ InFlightName(q))'
      <4>1. /\ FreeName(q) \/ CommittedName(q) \/ InFlightName(q)
            /\ ~(FreeName(q) /\ CommittedName(q))
            /\ ~(FreeName(q) /\ InFlightName(q))
            /\ ~(CommittedName(q) /\ InFlightName(q))
        BY <1>1 DEF RegisterPartition
      <4>2. /\ FreeName(q)' <=> FreeName(q) /\ q # h
            /\ CommittedName(q)' <=> CommittedName(q) \/ q = h
            /\ InFlightName(q)' <=> InFlightName(q)
        BY <2>2, <2>10, <2>11
      <4> QED BY <2>9, <4>1, <4>2
    <3>2. \A r, t \in ArchRegister :
            backend_RAT'[r] = backend_RAT'[t] /\ backend_RAT'[r] # Unmapped => r = t
      <4>1. \A r \in ArchRegister : backend_RAT[r] # h
        BY <2>9 DEF CommittedName
      <4> QED BY <1>1, <2>3, <4>1 DEF RegisterPartition
    <3>3. ASSUME NEW i, NEW j, NEW k, NEW l, InFlight(i, k)', InFlight(j, l)',
                 ROB'[i].destination_registers[k] = ROB'[j].destination_registers[l]
          PROVE  i = j /\ k = l
      <4>1. InFlight(i, k) /\ InFlight(j, l)
        BY <1>9, <3>3
      <4>2. /\ i \in DOMAIN ROB /\ k \in DOMAIN ROB[i].destination_registers
            /\ j \in DOMAIN ROB /\ l \in DOMAIN ROB[j].destination_registers
        BY <4>1 DEF InFlight
      <4> QED BY <1>1, <1>8, <3>3, <4>1, <4>2 DEF RegisterPartition
    <3> QED BY <2>2, <3>1, <3>2, <3>3 DEF RegisterPartition, NoFreeTwice
  <2> QED BY <1>10, <1>11, <2>5, <2>8, <2>12, <2>13 DEF Inv
<1> QED BY <1>13, <1>14

\* A destination takes a free register, which only the frontend table names.
LEMMA StepRenameDestination == Inv /\ RenameDestination => Inv'
<1> SUFFICES ASSUME Inv, RenameDestination PROVE Inv'
  OBVIOUS
<1> DEFINE reg == ROB[at].destination_registers[op]
           h == Head(free_registers)
           dests == [ROB[at].destination_registers EXCEPT ![op] = h]
           x == [ROB[at] EXCEPT !.destination_registers = dests]
<1>1. /\ TypeOK /\ Names /\ Mapped /\ Operands /\ RegisterPartition /\ NoFreeTwice
      /\ at \in DOMAIN ROB /\ ROB[at].status = "ready" /\ bw > 0
      /\ ROB[at] \in RobEntry
  BY Entries DEF Inv, RegisterPartition, NoFreeTwice, RenameDestination, Control
<1>2. /\ stage = "destinations" /\ op \in DOMAIN ROB[at].destination_registers
      /\ RenameDest(reg, ROB[at].instr_id) /\ ROB' = [ROB EXCEPT ![at] = x]
      /\ op' = op + 1 /\ op \in Nat \ {0}
      /\ UNCHANGED <<stage, bw, at, next_id, last_writer>>
  BY <1>1 DEF RenameDestination, TypeOK
<1>3. reg \in ArchRegister
  <2>1. ~RenamedDestination(at, op)
    BY <1>1, <1>2 DEF RenamedDestination, IsScheduled
  <2> QED BY <1>1, <1>2, <2>1 DEF Operands
<1>4. /\ free_registers # <<>> /\ free_registers' = Tail(free_registers)
      /\ frontend_RAT' = [frontend_RAT EXCEPT ![reg] = h]
      /\ physical_register_file' =
           [physical_register_file EXCEPT ![h] = Entry(reg, ROB[at].instr_id, FALSE, TRUE)]
      /\ backend_RAT' = backend_RAT
  BY <1>2 DEF RenameDest
<1>5. /\ h \in PhysicalRegister /\ FreeName(h)
      /\ free_registers' \in Seq(PhysicalRegister)
      /\ \A q : FreeName(q)' <=> FreeName(q) /\ q # h
      /\ NoFreeTwice'
  BY <1>1, <1>4, TakeFree
<1> HIDE DEF reg, h
<1>6. h # Unmapped
  BY <1>5 DEF PhysicalRegister, Unmapped
<1>7. /\ dests \in Seq(Operand) /\ DOMAIN dests = DOMAIN ROB[at].destination_registers
      /\ dests[op] = h
      /\ \A k \in DOMAIN dests : k # op => dests[k] = ROB[at].destination_registers[k]
  <2>1. ROB[at].destination_registers \in Seq(Operand) /\ h \in Operand
    BY <1>1, <1>5, Entries DEF Operand
  <2> QED BY <1>2, <2>1, Replaced
<1>8. /\ x \in RobEntry /\ x.source_registers = ROB[at].source_registers
      /\ x.status = ROB[at].status /\ x.destination_registers = dests
  BY <1>1, <1>7 DEF RobEntry
<1> HIDE DEF dests, x
<1>9. /\ ROB' \in Seq(RobEntry) /\ Len(ROB') = Len(ROB) /\ DOMAIN ROB' = DOMAIN ROB
      /\ ROB'[at] = x /\ \A j \in DOMAIN ROB : j # at => ROB'[j] = ROB[j]
  <2>1. ROB \in Seq(RobEntry) /\ x \in RobEntry
    BY <1>1, <1>8 DEF TypeOK
  <2>2. /\ [ROB EXCEPT ![at] = x] \in Seq(RobEntry)
        /\ Len([ROB EXCEPT ![at] = x]) = Len(ROB)
        /\ DOMAIN [ROB EXCEPT ![at] = x] = DOMAIN ROB
        /\ [ROB EXCEPT ![at] = x][at] = x
        /\ \A j \in DOMAIN ROB : j # at => [ROB EXCEPT ![at] = x][j] = ROB[j]
    BY <1>1, <2>1, Replaced
  <2> QED BY <1>2, <2>2
<1>10. /\ \A j \in DOMAIN ROB : /\ ROB'[j].status = ROB[j].status
                                /\ ROB'[j].source_registers = ROB[j].source_registers
                                /\ DOMAIN ROB'[j].destination_registers = DOMAIN ROB[j].destination_registers
       /\ \A j \in DOMAIN ROB : \A k \in DOMAIN ROB[j].destination_registers :
            ROB'[j].destination_registers[k] =
              IF j = at /\ k = op THEN h ELSE ROB[j].destination_registers[k]
  BY <1>7, <1>8, <1>9
<1>11. ASSUME NEW j, NEW k
       PROVE  InFlight(j, k)' <=> InFlight(j, k) \/ (j = at /\ k = op)
  <2>1. \A n \in DOMAIN ROB : \A l \in DOMAIN ROB[n].destination_registers : l \in Nat
    BY <1>1, Entries
  <2>2. /\ stage = "destinations" /\ stage' = "destinations" /\ at' = at /\ op' = op + 1 /\ op \in Nat
        /\ at \in DOMAIN ROB /\ op \in DOMAIN ROB[at].destination_registers
    BY <1>1, <1>2
  <2>3. \A n \in DOMAIN ROB : IsScheduled(ROB[n])' <=> IsScheduled(ROB[n])
    BY <1>10 DEF IsScheduled
  <2>4. /\ DOMAIN ROB' = DOMAIN ROB
        /\ \A n \in DOMAIN ROB : DOMAIN ROB'[n].destination_registers = DOMAIN ROB[n].destination_registers
    BY <1>9, <1>10
  <2> QED BY <2>1, <2>2, <2>3, <2>4 DEF InFlight
<1>12. Control'
  BY <1>1, <1>2, <1>9, <1>10 DEF Control
<1>13. Operands'
  <2> SUFFICES ASSUME NEW j \in DOMAIN ROB
               PROVE  /\ \A k \in DOMAIN ROB'[j].source_registers :
                           ~RenamedSource(j, k)' => ROB'[j].source_registers[k] \in ArchRegister
                      /\ \A k \in DOMAIN ROB'[j].destination_registers :
                           ~RenamedDestination(j, k)' => ROB'[j].destination_registers[k] \in ArchRegister
    BY <1>9 DEF Operands
  <2>1. ASSUME NEW k \in DOMAIN ROB'[j].source_registers, ~RenamedSource(j, k)'
        PROVE  ROB'[j].source_registers[k] \in ArchRegister
    BY <1>1, <1>2, <1>9, <1>10, <2>1 DEF Operands, RenamedSource, IsScheduled
  <2>2. ASSUME NEW k \in DOMAIN ROB'[j].destination_registers, ~RenamedDestination(j, k)'
        PROVE  ROB'[j].destination_registers[k] \in ArchRegister
    <3>1. k \in Nat /\ k \in DOMAIN ROB[j].destination_registers /\ ~IsScheduled(ROB[j])
      BY <1>1, <1>10, <2>2, Entries DEF RenamedDestination, IsScheduled
    <3>2. j = at => ~(k < op + 1)
      BY <1>2, <2>2 DEF RenamedDestination
    <3>3. ~(j = at /\ k = op) /\ ~(j = at /\ k < op)
      BY <1>2, <3>1, <3>2
    <3>4. ~RenamedDestination(j, k)
      BY <3>1, <3>3 DEF RenamedDestination
    <3> QED BY <1>1, <1>10, <3>1, <3>3, <3>4 DEF Operands
  <2> QED BY <2>1, <2>2
<1>14. /\ frontend_RAT' \in [ArchRegister -> PhysicalRegister \cup {Unmapped}]
       /\ frontend_RAT'[reg] = h
       /\ \A r \in ArchRegister : r # reg => frontend_RAT'[r] = frontend_RAT[r]
  BY <1>1, <1>3, <1>4, <1>5 DEF TypeOK
<1>15. /\ physical_register_file' \in [PhysicalRegister -> PhysicalEntry]
       /\ physical_register_file'[h].arch_reg_index = reg
       /\ \A q \in PhysicalRegister : q # h => physical_register_file'[q] = physical_register_file[q]
  <2>1. ROB[at].instr_id \in 0..MaxInstr
    BY <1>1 DEF RobEntry
  <2>2. /\ Entry(reg, ROB[at].instr_id, FALSE, TRUE) \in PhysicalEntry
        /\ Entry(reg, ROB[at].instr_id, FALSE, TRUE).arch_reg_index = reg
    BY <1>3, <2>1 DEF Entry, PhysicalEntry
  <2> QED BY <1>1, <1>4, <1>5, <2>2 DEF TypeOK
<1>16. TypeOK'
  <2>1. backend_RAT' \in [ArchRegister -> PhysicalRegister \cup {Unmapped}]
    BY <1>1, <1>4 DEF TypeOK
  <2>2. /\ free_registers' \in Seq(PhysicalRegister)
        /\ frontend_RAT' \in [ArchRegister -> PhysicalRegister \cup {Unmapped}]
        /\ physical_register_file' \in [PhysicalRegister -> PhysicalEntry]
        /\ ROB' \in Seq(RobEntry) /\ Len(ROB') <= ROB_SIZE
    BY <1>1, <1>5, <1>9, <1>14, <1>15 DEF TypeOK
  <2>3. op' \in Nat \ {0} /\ UNCHANGED <<stage, bw, at, next_id, last_writer>>
    BY <1>2
  <2> QED BY <1>1, <2>1, <2>2, <2>3 DEF TypeOK
<1>17. \A r \in ArchRegister : isAllocated(r) \/ r = reg => isAllocated(r)'
  BY <1>6, <1>14 DEF isAllocated
<1>18. Mapped'
  BY <1>1, <1>4, <1>17 DEF Mapped
<1>19. ~CommittedName(h) /\ ~InFlightName(h)
  BY <1>1, <1>5 DEF RegisterPartition
<1>20. \A j, k : InFlight(j, k) =>
         /\ j \in DOMAIN ROB /\ k \in DOMAIN ROB[j].destination_registers
         /\ Assigned(ROB[j].destination_registers[k])
         /\ ROB[j].destination_registers[k] # h
         /\ ROB'[j].destination_registers[k] = ROB[j].destination_registers[k]
  <2> SUFFICES ASSUME NEW j, NEW k, InFlight(j, k)
               PROVE  /\ j \in DOMAIN ROB /\ k \in DOMAIN ROB[j].destination_registers
                      /\ Assigned(ROB[j].destination_registers[k])
                      /\ ROB[j].destination_registers[k] # h
                      /\ ROB'[j].destination_registers[k] = ROB[j].destination_registers[k]
    OBVIOUS
  <2>1. /\ j \in DOMAIN ROB /\ k \in DOMAIN ROB[j].destination_registers
        /\ Assigned(ROB[j].destination_registers[k])
    BY <1>1 DEF InFlight, Names
  <2>2. ROB[j].destination_registers[k] # h
    BY <1>19, <2>1 DEF InFlightName
  <2>3. ~(j = at /\ k = op)
    BY <1>1, <1>2 DEF InFlight, IsScheduled
  <2> QED BY <1>10, <2>1, <2>2, <2>3
<1>21. \A j, k : j = at /\ k = op => InFlight(j, k)' /\ ROB'[j].destination_registers[k] = h
  BY <1>1, <1>2, <1>10, <1>11
<1>22. \A q : InFlightName(q)' <=> InFlightName(q) \/ q = h
  <2>1. ASSUME NEW q, InFlightName(q)' PROVE InFlightName(q) \/ q = h
    <3>1. PICK j, k : InFlight(j, k)' /\ ROB'[j].destination_registers[k] = q
      BY <2>1 DEF InFlightName
    <3>2. CASE InFlight(j, k)
      BY <1>20, <3>1, <3>2 DEF InFlightName
    <3>3. CASE j = at /\ k = op
      BY <1>21, <3>1, <3>3
    <3> QED BY <1>11, <3>1, <3>2, <3>3
  <2>2. ASSUME NEW q, InFlightName(q) PROVE InFlightName(q)'
    <3>1. PICK j, k : InFlight(j, k) /\ ROB[j].destination_registers[k] = q
      BY <2>2 DEF InFlightName
    <3>2. InFlight(j, k)' /\ ROB'[j].destination_registers[k] = q
      BY <1>11, <1>20, <3>1
    <3>3. j \in DOMAIN ROB' /\ k \in DOMAIN ROB'[j].destination_registers
      BY <3>2 DEF InFlight
    <3> QED BY <3>2, <3>3 DEF InFlightName
  <2>3. ASSUME NEW q, q = h PROVE InFlightName(q)'
    <3>1. PICK j, k : j = at /\ k = op
      OBVIOUS
    <3>2. InFlight(j, k)' /\ ROB'[j].destination_registers[k] = q
      BY <1>21, <2>3, <3>1
    <3>3. j \in DOMAIN ROB' /\ k \in DOMAIN ROB'[j].destination_registers
      BY <3>2 DEF InFlight
    <3> QED BY <3>2, <3>3 DEF InFlightName
  <2> QED BY <2>1, <2>2, <2>3
<1>23. Names'
  <2> SUFFICES ASSUME NEW j, NEW k, InFlight(j, k)'
               PROVE  Assigned(ROB[j].destination_registers[k])'
    BY DEF Names
  <2>1. CASE InFlight(j, k)
    <3>1. PICK q : q = ROB[j].destination_registers[k]
      OBVIOUS
    <3>2. Assigned(q) /\ q # h /\ q = ROB'[j].destination_registers[k]
      BY <1>20, <2>1, <3>1
    <3> QED BY <1>15, <1>17, <3>2 DEF Assigned
  <2>2. CASE j = at /\ k = op
    <3>1. ROB'[j].destination_registers[k] = h
      BY <1>21, <2>2
    <3> QED BY <1>3, <1>5, <1>15, <1>17, <3>1 DEF Assigned
  <2> QED BY <1>11, <2>1, <2>2
<1>24. RegisterPartition'
  <2>1. ASSUME NEW q \in PhysicalRegister
        PROVE  /\ (FreeName(q) \/ CommittedName(q) \/ InFlightName(q))'
               /\ ~(FreeName(q) /\ CommittedName(q))'
               /\ ~(FreeName(q) /\ InFlightName(q))'
               /\ ~(CommittedName(q) /\ InFlightName(q))'
    <3>1. /\ FreeName(q) \/ CommittedName(q) \/ InFlightName(q)
          /\ ~(FreeName(q) /\ CommittedName(q))
          /\ ~(FreeName(q) /\ InFlightName(q))
          /\ ~(CommittedName(q) /\ InFlightName(q))
      BY <1>1 DEF RegisterPartition
    <3>2. CommittedName(q)' <=> CommittedName(q)
      BY <1>4 DEF CommittedName
    <3> QED BY <1>5, <1>19, <1>22, <3>1, <3>2
  <2>2. \A r, t \in ArchRegister :
          backend_RAT'[r] = backend_RAT'[t] /\ backend_RAT'[r] # Unmapped => r = t
    BY <1>1, <1>4 DEF RegisterPartition
  <2>3. ASSUME NEW i, NEW j, NEW k, NEW l, InFlight(i, k)', InFlight(j, l)',
               ROB'[i].destination_registers[k] = ROB'[j].destination_registers[l]
        PROVE  i = j /\ k = l
    <3>1. CASE InFlight(i, k) /\ InFlight(j, l)
      BY <1>1, <1>20, <2>3, <3>1 DEF RegisterPartition
    <3>2. CASE InFlight(i, k) /\ j = at /\ l = op
      BY <1>20, <1>21, <2>3, <3>2
    <3>3. CASE InFlight(j, l) /\ i = at /\ k = op
      BY <1>20, <1>21, <2>3, <3>3
    <3> QED BY <1>11, <2>3, <3>1, <3>2, <3>3
  <2> QED BY <1>5, <2>1, <2>2, <2>3 DEF RegisterPartition, NoFreeTwice
<1> QED BY <1>12, <1>13, <1>16, <1>18, <1>23, <1>24 DEF Inv

-----------------------------------------------------------------------------
(* The register check *)

\* Source operands that are still to be renamed and have no register.
Remaining ==
  {k \in DOMAIN ROB[at].source_registers :
     k >= op /\ ~isAllocated(ROB[at].source_registers[k])}

\* While an instruction is renamed there is a free register for each operand
\* that may still take one.
Enough ==
  /\ stage = "sources" =>
       count_free_registers >= Cardinality(Remaining) + Len(ROB[at].destination_registers)
  /\ stage = "destinations" =>
       count_free_registers + op > Len(ROB[at].destination_registers)

LEMMA RemainingFinite ==
  ASSUME TypeOK, at \in DOMAIN ROB
  PROVE  IsFiniteSet(Remaining) /\ Cardinality(Remaining) \in Nat
<1>1. /\ DOMAIN ROB[at].source_registers = 1..Len(ROB[at].source_registers)
      /\ Len(ROB[at].source_registers) \in Nat
  BY Entries
<1>2. IsFiniteSet(1..Len(ROB[at].source_registers))
  BY <1>1, FS_Interval
<1>3. IsFiniteSet(Remaining)
  BY <1>1, <1>2, FS_Subset DEF Remaining
<1> QED BY <1>3, FS_CardinalityType

\* The check counts exactly the operands that remain: none is renamed yet.
LEMMA EnoughAtFirst == Inv /\ BeginRenaming => Enough'
<1> SUFFICES ASSUME Inv, BeginRenaming PROVE Enough'
  OBVIOUS
<1>1. /\ stage = "schedule" /\ stage' = "sources" /\ op' = 1
      /\ at \in DOMAIN ROB /\ ROB[at].status = "ready" /\ MayHaveRegisters(ROB[at])
      /\ UNCHANGED <<allocator, ROB, at>>
  BY DEF BeginRenaming, Looking
<1>2. \A k \in DOMAIN ROB[at].source_registers :
        k >= 1 /\ ROB[at].source_registers[k] \in ArchRegister
  <2>1. \A k \in DOMAIN ROB[at].source_registers : k \in Nat \ {0} /\ ~RenamedSource(at, k)
    BY <1>1, Entries DEF Inv, RenamedSource, IsScheduled
  <2> QED BY <1>1, <2>1 DEF Inv, Operands
<1>3. Remaining' = Unallocated(ROB[at])
  BY <1>1, <1>2 DEF Remaining, Unallocated, allocator, isAllocated
<1>4. UNCHANGED free_registers
  BY <1>1 DEF allocator
<1> QED BY <1>1, <1>3, <1>4 DEF Enough, MayHaveRegisters, count_free_registers

\* A source that takes a register remains no longer, and no other begins to.
LEMMA EnoughForSources == Inv /\ Enough /\ RenameSource => Enough'
<1> SUFFICES ASSUME Inv, Enough, RenameSource PROVE Enough'
  OBVIOUS
<1> DEFINE reg == ROB[at].source_registers[op]
<1>1. /\ TypeOK /\ NoFreeTwice /\ stage = "sources" /\ stage' = "sources"
      /\ at \in DOMAIN ROB /\ at' = at /\ op' = op + 1 /\ op \in Nat
      /\ op \in DOMAIN ROB[at].source_registers /\ RenameSrc(reg)
      /\ reg \in ArchRegister
  <2>1. Inv /\ stage = "sources" /\ at \in DOMAIN ROB /\ ROB[at].status = "ready"
    BY DEF Inv, RenameSource, Control
  <2>2. ~RenamedSource(at, op)
    BY <2>1 DEF Inv, RenamedSource, IsScheduled, TypeOK
  <2> QED BY <2>1, <2>2 DEF Inv, RenameSource, TypeOK, Operands, RegisterPartition, NoFreeTwice
<1>2. /\ ROB[at] \in RobEntry /\ ROB[at].source_registers \in Seq(Operand)
      /\ Len(ROB[at].destination_registers) \in Nat
      /\ \A k \in DOMAIN ROB[at].source_registers : k \in Nat
  BY <1>1, Entries
<1> DEFINE src == ROB'[at].source_registers
<1>3. /\ ROB'[at].destination_registers = ROB[at].destination_registers
      /\ DOMAIN src = DOMAIN ROB[at].source_registers
      /\ \A k \in DOMAIN ROB[at].source_registers : k # op => src[k] = ROB[at].source_registers[k]
  <2>1. ROB' = [ROB EXCEPT ![at].source_registers[op] = SourceName(@)]
    BY DEF RenameSource
  <2> QED BY <1>1, <1>2, <2>1 DEF RobEntry
<1>4. Remaining' = {k \in DOMAIN ROB[at].source_registers :
                      k >= op + 1 /\ frontend_RAT'[src[k]] = Unmapped}
  BY <1>1, <1>3 DEF Remaining, isAllocated
<1>5. Enough' <=> Len(free_registers') >= Cardinality(Remaining') + Len(ROB[at].destination_registers)
  BY <1>1, <1>3 DEF Enough, count_free_registers
<1> HIDE DEF src
<1>6. /\ IsFiniteSet(Remaining) /\ Cardinality(Remaining) \in Nat
      /\ Len(free_registers) \in Nat
      /\ Len(free_registers) >= Cardinality(Remaining) + Len(ROB[at].destination_registers)
  BY <1>1, RemainingFinite, InSeq DEF Enough, count_free_registers, TypeOK
<1>7. /\ frontend_RAT \in [ArchRegister -> PhysicalRegister \cup {Unmapped}]
      /\ \A k \in DOMAIN ROB[at].source_registers : k >= op => ROB[at].source_registers[k] \in ArchRegister
  <2>1. \A k \in DOMAIN ROB[at].source_registers : k >= op => ~RenamedSource(at, k)
    BY <1>1, <1>2 DEF Inv, Control, RenamedSource, IsScheduled
  <2> QED BY <1>1, <2>1 DEF TypeOK, Inv, Operands
<1> HIDE DEF reg
<1>8. CASE isAllocated(reg)
  <2>1. UNCHANGED allocator
    BY <1>1, <1>8 DEF RenameSrc
  <2>2. Remaining' \subseteq Remaining
    <3>1. frontend_RAT' = frontend_RAT
      BY <2>1 DEF allocator
    <3>2. \A k \in DOMAIN ROB[at].source_registers : k >= op + 1 => k >= op /\ k # op
      BY <1>1, <1>2
    <3> QED BY <1>3, <1>4, <3>1, <3>2 DEF Remaining, isAllocated
  <2>3. /\ IsFiniteSet(Remaining') /\ Cardinality(Remaining') <= Cardinality(Remaining)
        /\ Cardinality(Remaining') \in Nat
    BY <1>6, <2>2, FS_Subset, FS_CardinalityType
  <2>4. free_registers' = free_registers
    BY <2>1 DEF allocator
  <2> QED BY <1>2, <1>6, <1>5, <2>3, <2>4
<1>9. CASE ~isAllocated(reg)
  <2>1. /\ free_registers # <<>> /\ free_registers' = Tail(free_registers)
        /\ frontend_RAT' = [frontend_RAT EXCEPT ![reg] = Head(free_registers)]
    BY <1>1, <1>9 DEF RenameSrc
  <2>2. Len(free_registers') = Len(free_registers) - 1
    BY <1>1, <2>1, FrontTaken DEF TypeOK
  <2>3. op \in Remaining
    BY <1>1, <1>9 DEF Remaining, reg
  <2>4. Remaining' \subseteq Remaining \ {op}
    <3> SUFFICES ASSUME NEW k \in DOMAIN ROB[at].source_registers, k >= op + 1,
                        frontend_RAT'[src[k]] = Unmapped
                 PROVE  k \in Remaining /\ k # op
      BY <1>4
    <3>1. k # op /\ k >= op /\ src[k] = ROB[at].source_registers[k]
      BY <1>1, <1>2, <1>3
    <3>2. ROB[at].source_registers[k] \in ArchRegister
      BY <1>7, <3>1
    <3>3. Head(free_registers) # Unmapped
      BY <1>1, <2>1, TakeFree DEF PhysicalRegister, Unmapped
    <3>4. frontend_RAT[ROB[at].source_registers[k]] = Unmapped
      BY <1>1, <1>7, <2>1, <3>1, <3>2, <3>3
    <3> QED BY <3>1, <3>4 DEF Remaining, isAllocated
  <2>5. /\ IsFiniteSet(Remaining \ {op})
        /\ Cardinality(Remaining \ {op}) = Cardinality(Remaining) - 1
    BY <1>6, <2>3, FS_RemoveElement
  <2>6. /\ Cardinality(Remaining') <= Cardinality(Remaining) - 1
        /\ Cardinality(Remaining') \in Nat
    BY <2>4, <2>5, FS_Subset, FS_CardinalityType
  <2> QED BY <1>2, <1>6, <1>5, <2>2, <2>6
<1> QED BY <1>8, <1>9

LEMMA EnoughForDestinations == Inv /\ Enough /\ (EndSources \/ RenameDestination) => Enough'
<1> SUFFICES ASSUME Inv, Enough, EndSources \/ RenameDestination PROVE Enough'
  OBVIOUS
<1>1. /\ TypeOK /\ at \in DOMAIN ROB /\ op \in Nat
      /\ Len(free_registers) \in Nat /\ Len(ROB[at].destination_registers) \in Nat
  <2>1. TypeOK /\ at \in DOMAIN ROB
    BY DEF Inv, Control, EndSources, RenameDestination
  <2> QED BY <2>1, Entries, InSeq DEF TypeOK
<1>2. CASE EndSources
  <2>1. /\ stage = "sources" /\ stage' = "destinations" /\ op' = 1
        /\ free_registers' = free_registers /\ ROB' = ROB /\ at' = at
    BY <1>2 DEF EndSources, allocator
  <2>2. Cardinality(Remaining) \in Nat
    BY <1>1, RemainingFinite
  <2> QED BY <1>1, <2>1, <2>2 DEF Enough, count_free_registers
<1>3. CASE RenameDestination
  <2>1. /\ stage = "destinations" /\ stage' = "destinations" /\ op' = op + 1 /\ at' = at
        /\ free_registers # <<>> /\ free_registers' = Tail(free_registers)
        /\ op \in DOMAIN ROB[at].destination_registers
        /\ ROB' = [ROB EXCEPT ![at].destination_registers[op] = Head(free_registers)]
    BY <1>3 DEF RenameDestination, RenameDest
  <2>2. /\ Len(free_registers') = Len(free_registers) - 1
        /\ Head(free_registers) \in PhysicalRegister
    BY <1>1, <2>1, FrontTaken DEF TypeOK
  <2>3. Len(ROB'[at].destination_registers) = Len(ROB[at].destination_registers)
    <3> DEFINE d == [ROB[at].destination_registers EXCEPT ![op] = Head(free_registers)]
    <3>1. ROB[at].destination_registers \in Seq(Operand) /\ Head(free_registers) \in Operand
      BY <1>1, <2>2, Entries DEF Operand
    <3>2. Len(d) = Len(ROB[at].destination_registers)
      BY <2>1, <3>1, Replaced
    <3>3. ROB'[at].destination_registers = d
      <4>1. ROB[at] \in RobEntry
        BY <1>1, Entries
      <4> QED BY <1>1, <2>1, <4>1 DEF RobEntry
    <3> QED BY <3>2, <3>3
  <2> QED BY <1>1, <2>1, <2>2, <2>3 DEF Enough, count_free_registers
<1> QED BY <1>2, <1>3

-----------------------------------------------------------------------------
(* The theorems *)

\* At first every register is free, once.
LEMMA InitInv == Init => Inv
<1> SUFFICES ASSUME Init PROVE Inv
  OBVIOUS
<1>1. free_registers \in Seq(PhysicalRegister) /\ DOMAIN free_registers = 1..num_physical_registers
  <2>1. free_registers = [n \in 1..num_physical_registers |-> n - 1]
    BY DEF Init, AllocatorInit
  <2>2. free_registers \in [1..num_physical_registers -> PhysicalRegister]
    BY <2>1 DEF PhysicalRegister
  <2> QED BY <2>1, <2>2, SeqDef
<1>2. ROB = <<>> /\ ROB \in Seq(RobEntry) /\ Len(ROB) = 0 /\ DOMAIN ROB = {}
  <2>1. ROB = <<>>
    BY DEF Init
  <2>2. ROB \in Seq(RobEntry) /\ Len(ROB) = 0
    BY <2>1, EmptySeq
  <2> QED BY <2>1, <2>2, InSeq
<1>3. TypeOK
  <2>1. Entry(0, 0, FALSE, FALSE) \in PhysicalEntry
    BY DEF Entry, PhysicalEntry
  <2>2. /\ frontend_RAT \in [ArchRegister -> PhysicalRegister \cup {Unmapped}]
        /\ backend_RAT \in [ArchRegister -> PhysicalRegister \cup {Unmapped}]
        /\ physical_register_file \in [PhysicalRegister -> PhysicalEntry]
    BY <2>1 DEF Init, AllocatorInit
  <2> QED BY <1>1, <1>2, <2>2 DEF Init, TypeOK
<1>4. Control /\ Operands /\ Names
  BY <1>2 DEF Init, Control, Operands, Names
<1>5. Mapped
  BY DEF Init, AllocatorInit, Mapped
<1>6. RegisterPartition
  <2>1. \A q : ~InFlightName(q)
    BY <1>2 DEF InFlightName
  <2>2. \A q \in PhysicalRegister : ~CommittedName(q)
    BY DEF Init, AllocatorInit, CommittedName, PhysicalRegister, Unmapped
  <2>3. ASSUME NEW q \in PhysicalRegister PROVE FreeName(q)
    <3>1. q + 1 \in 1..num_physical_registers /\ (q + 1) - 1 = q
      BY DEF PhysicalRegister
    <3> QED BY <1>1, <3>1 DEF Init, AllocatorInit, FreeName
  <2>4. \A m, n \in DOMAIN free_registers : free_registers[m] = free_registers[n] => m = n
    BY <1>1 DEF Init, AllocatorInit
  <2>5. \A r \in ArchRegister : backend_RAT[r] = Unmapped
    BY DEF Init, AllocatorInit
  <2> QED BY <1>2, <2>1, <2>2, <2>3, <2>4, <2>5 DEF RegisterPartition
<1> QED BY <1>3, <1>4, <1>5, <1>6 DEF Inv

LEMMA NextInv == Inv /\ [Next]_vars => Inv'
<1> SUFFICES ASSUME Inv, [Next]_vars PROVE Inv'
  OBVIOUS
<1>1. CASE Retire
  BY <1>1, StepRetireDestination, StepRetireFront, StepEndRetire DEF Retire
<1>2. CASE \E i \in DOMAIN ROB : Complete(i)
  BY <1>2, StepComplete
<1>3. CASE \E i \in DOMAIN ROB : Execute(i) \/ BecomeReady(i) \/ Perform(i)
  BY <1>3, StepAdvance
<1>4. CASE EndComplete \/ EndExecute \/ EndDispatch \/ NextCycle
  BY <1>4, StepLoops
<1>5. CASE Schedule
  <2>1. CASE StopScheduling \/ PassOver \/ EndSchedule
    BY <2>1, StepLoops
  <2> QED BY <1>5, <2>1, StepBeginRenaming, StepRenameSource, StepEndSources,
             StepRenameDestination, StepEndRenaming DEF Schedule
<1>6. CASE \E o \in Operation : Dispatch(o)
  BY <1>6, StepDispatch
<1>7. CASE UNCHANGED vars
  <2>1. /\ UNCHANGED <<allocator, ROB, next_id, last_writer>>
        /\ stage' = stage /\ bw' = bw /\ at' = at /\ op' = op
    BY <1>7 DEF vars
  <2>2. TypeOK
    BY DEF Inv
  <2>3. /\ stage' \in {"retire", "complete", "execute", "schedule", "sources", "destinations",
                       "dispatch", "elapse"}
        /\ bw' \in Nat /\ at' \in Nat \ {0} /\ op' \in Nat \ {0}
    BY <2>1, <2>2 DEF TypeOK
  <2>4. Control'
    BY <2>1 DEF Inv, Control, CanRetire
  <2>5. \A i \in DOMAIN ROB : \A k \in DOMAIN ROB[i].destination_registers :
          /\ InFlight(i, k)' <=> InFlight(i, k)
          /\ RenamedDestination(i, k) => RenamedDestination(i, k)'
    BY <2>1 DEF InFlight, RenamedDestination, IsScheduled
  <2>6. \A i \in DOMAIN ROB : \A k \in DOMAIN ROB[i].source_registers :
          RenamedSource(i, k) => RenamedSource(i, k)'
    BY <2>1 DEF RenamedSource, IsScheduled
  <2> QED BY <2>1, <2>3, <2>4, <2>5, <2>6, ControlStep
<1> QED BY <1>1, <1>2, <1>3, <1>4, <1>5, <1>6, <1>7 DEF Next, Operate

LEMMA Invariance == Spec => []Inv
<1> QED BY InitInv, NextInv, PTL DEF Spec

\* The fields keep their types and the reorder buffer its size (ooo_cpu.cc:412),
\* for every trace, every width and every number of registers.
THEOREM TypeCorrect == Spec => []TypeOK
<1>1. Inv => TypeOK
  BY DEF Inv
<1> QED BY <1>1, Invariance, PTL

\* Every physical register is in exactly one place, for every trace, every width
\* and every number of registers: renaming, completion and retirement
\* (register_allocator.cc:16-70) neither leak a register nor hand it out twice.
THEOREM RegistersPartitioned == Spec => []RegisterPartition
<1>1. Inv => RegisterPartition
  BY DEF Inv
<1> QED BY <1>1, Invariance, PTL

\* While an instruction is renamed, no front of an empty free list is taken: the
\* check of schedule_instruction (ooo_cpu.cc:434-438) counts enough, whatever
\* the operands are and however often one register is among them.
THEOREM RenamingNeverRunsDry == Spec => []RegistersSuffice
<1>1. Init => Enough
  BY DEF Init, Enough
<1>2. Inv /\ Enough /\ [Next]_vars => Enough'
  <2> SUFFICES ASSUME Inv, Enough, [Next]_vars PROVE Enough'
    OBVIOUS
  <2>1. CASE BeginRenaming
    BY <2>1, EnoughAtFirst
  <2>2. CASE RenameSource
    BY <2>2, EnoughForSources
  <2>3. CASE EndSources \/ RenameDestination
    BY <2>3, EnoughForDestinations
  <2>4. CASE ~(BeginRenaming \/ RenameSource \/ EndSources \/ RenameDestination) /\ Next
    <3>1. stage' \notin {"sources", "destinations"}
      BY <2>4 DEF Next, Operate, Retire, Schedule, RetireDestination, RetireFront, EndRetire,
         Complete, EndComplete, Execute, EndExecute, StopScheduling, PassOver, EndSchedule, EndRenaming,
         EndDispatch, NextCycle, Dispatch, BecomeReady, Perform, GoTo, Looking
    <3> QED BY <3>1 DEF Enough
  <2>5. CASE UNCHANGED vars
    <3>1. UNCHANGED <<frontend_RAT, free_registers, ROB, stage, at, op>>
      BY <2>5 DEF vars, allocator
    <3>2. Remaining' = Remaining
      BY <3>1 DEF Remaining, isAllocated
    <3> QED BY <3>1, <3>2 DEF Enough, count_free_registers
  <2> QED BY <2>1, <2>2, <2>3, <2>4, <2>5
<1>3. Inv /\ Enough => RegistersSuffice
  <2> SUFFICES ASSUME Inv, Enough PROVE RegistersSuffice
    OBVIOUS
  <2>1. ASSUME stage = "sources", NEW k \in DOMAIN ROB[at].source_registers, k >= op,
               ~isAllocated(ROB[at].source_registers[k]), free_registers = <<>>
        PROVE  FALSE
    <3>1. TypeOK /\ at \in DOMAIN ROB /\ Len(free_registers) = 0
      BY <2>1, EmptySeq DEF Inv, Control
    <3>2. /\ IsFiniteSet(Remaining) /\ Cardinality(Remaining) \in Nat
          /\ Len(ROB[at].destination_registers) \in Nat
      BY <3>1, RemainingFinite, Entries
    <3>3. Cardinality(Remaining) = 0
      BY <2>1, <3>1, <3>2 DEF Enough, count_free_registers
    <3>4. Remaining = {}
      BY <3>2, <3>3, FS_EmptySet
    <3> QED BY <2>1, <3>4 DEF Remaining
  <2> QED BY <2>1 DEF RegistersSuffice, Enough
<1> QED BY <1>1, <1>2, <1>3, Invariance, PTL DEF Spec

-----------------------------------------------------------------------------
(* The history of the names *)

\* Instructions are in program order, and they become ready and are renamed in it.
InOrder ==
  /\ \A i, j \in DOMAIN ROB : i < j =>
       /\ ROB[i].instr_id < ROB[j].instr_id
       /\ ROB[i].status = "dispatched" => ROB[j].status = "dispatched"
       /\ IsScheduled(ROB[j]) => IsScheduled(ROB[i])
  /\ \A i \in DOMAIN ROB : ROB[i].instr_id < next_id
  /\ stage \in {"schedule", "sources", "destinations"} =>
       \A i \in DOMAIN ROB : i < at => ROB[i].status # "ready"

\* What an instruction reads is older, and an operand that is not renamed is the
\* register of the trace.
Known ==
  \A i \in DOMAIN ROB :
    /\ DOMAIN ROB[i].needs = DOMAIN ROB[i].source_registers
    /\ DOMAIN ROB[i].writes = DOMAIN ROB[i].destination_registers
    /\ \A k \in DOMAIN ROB[i].needs :
         /\ ROB[i].needs[k][2] < ROB[i].instr_id
         /\ ~RenamedSource(i, k) => ROB[i].source_registers[k] = ROB[i].needs[k][1]
    /\ \A k \in DOMAIN ROB[i].writes :
         ~RenamedDestination(i, k) => ROB[i].destination_registers[k] = ROB[i].writes[k]

Writes(i, r) == \E k \in DOMAIN ROB[i].writes : ROB[i].writes[k] = r

\* w wrote the committed value of r; 0 stands for what was there at first.
Committed(r, w) ==
  \/ backend_RAT[r] = Unmapped /\ w = 0
  \/ backend_RAT[r] # Unmapped /\ physical_register_file[backend_RAT[r]].producing_instruction_id = w

\* w is the last to write r before entry i.
WroteLast(i, r, w) ==
  \/ Committed(r, w) /\ \A j \in DOMAIN ROB : j < i => ~Writes(j, r)
  \/ \E j \in DOMAIN ROB :
       /\ j < i /\ ROB[j].instr_id = w /\ Writes(j, r)
       /\ \A l \in DOMAIN ROB : j < l /\ l < i => ~Writes(l, r)

\* The program order that dispatch has noted is still there to be read.
Traced ==
  /\ \A i \in DOMAIN ROB : \A k \in DOMAIN ROB[i].needs : \A r, w :
       ROB[i].status # "completed" /\ r = ROB[i].needs[k][1] /\ w = ROB[i].needs[k][2] => WroteLast(i, r, w)
  /\ \A r \in ArchRegister : \A i, w : i = Len(ROB) + 1 /\ w = last_writer[r] => WroteLast(i, r, w)

\* Destination k of entry i is the name of a value of r that has not retired.
Renames(i, k, r) == InFlight(i, k) /\ ROB[i].writes[k] = r

\* p is the name of the last write of r before entry i.
NamedLast(i, r, p) ==
  \/ p = backend_RAT[r] /\ \A j, k : ~(Renames(j, k, r) /\ j < i)
  \/ \E j, k :
       /\ Renames(j, k, r) /\ j < i /\ ROB[j].destination_registers[k] = p
       /\ \A l, m : Renames(l, m, r) /\ l < i => l < j \/ (l = j /\ m <= k)

\* The frontend table has the last names of all, and each renamed source the last one
\* before its instruction.
Named ==
  /\ \A r \in ArchRegister : \A i, p : i = Len(ROB) + 1 /\ p = frontend_RAT[r] => NamedLast(i, r, p)
  /\ \A i \in DOMAIN ROB : \A k \in DOMAIN ROB[i].source_registers : \A r, p :
       /\ ROB[i].status # "completed" /\ RenamedSource(i, k)
       /\ r = ROB[i].needs[k][1] /\ p = ROB[i].source_registers[k]
       => p \in PhysicalRegister /\ NamedLast(i, r, p)

\* The registers say whose they are.
Filed ==
  /\ \A i, k, p : InFlight(i, k) /\ p = ROB[i].destination_registers[k] =>
       /\ physical_register_file[p].arch_reg_index = ROB[i].writes[k]
       /\ physical_register_file[p].producing_instruction_id = ROB[i].instr_id
       /\ physical_register_file[p].busy
       /\ physical_register_file[p].valid => ROB[i].status = "completed"
  /\ \A r \in ArchRegister : \A p : p = backend_RAT[r] /\ p # Unmapped =>
       physical_register_file[p].arch_reg_index = r /\ physical_register_file[p].busy

\* What the front instruction has retired is committed.
Retiring ==
  stage = "retire" /\ 1 \in DOMAIN ROB =>
    \A k \in DOMAIN ROB[1].writes : \A r, w : k < op /\ r = ROB[1].writes[k] /\ w = ROB[1].instr_id =>
      Committed(r, w) /\ backend_RAT[r] # Unmapped

\* A committed value was written by an instruction that has completed or has left.
Settled ==
  \A r \in ArchRegister : \A w : backend_RAT[r] # Unmapped /\ Committed(r, w) =>
    w < next_id /\ \A j \in DOMAIN ROB : ROB[j].instr_id = w => ROB[j].status = "completed"

History == InOrder /\ Known /\ Traced /\ Named /\ Filed /\ Retiring /\ Settled

\* Entry j is what entry l was, as far as the program goes.
SameProgram(j, l) ==
  ROB'[j].instr_id = ROB[l].instr_id /\ ROB'[j].needs = ROB[l].needs /\ ROB'[j].writes = ROB[l].writes

\* What the history says is about registers and instructions of the program.
LEMMA NeedsType ==
  ASSUME TypeOK, NEW i \in DOMAIN ROB
  PROVE  /\ ROB[i].needs \in Seq(ArchRegister \X (0..MaxInstr)) /\ ROB[i].writes \in Seq(ArchRegister)
         /\ ROB[i].instr_id \in 1..MaxInstr
         /\ \A k \in DOMAIN ROB[i].needs : ROB[i].needs[k][1] \in ArchRegister /\ ROB[i].needs[k][2] \in Nat
         /\ \A k \in DOMAIN ROB[i].writes : ROB[i].writes[k] \in ArchRegister
<1>1. ROB[i] \in RobEntry
  BY Entries
<1>2. /\ ROB[i].needs \in Seq(ArchRegister \X (0..MaxInstr)) /\ ROB[i].writes \in Seq(ArchRegister)
      /\ ROB[i].instr_id \in 1..MaxInstr
  BY <1>1 DEF RobEntry
<1>3. /\ \A k \in DOMAIN ROB[i].needs : ROB[i].needs[k] \in ArchRegister \X (0..MaxInstr)
      /\ \A k \in DOMAIN ROB[i].writes : ROB[i].writes[k] \in ArchRegister
  BY <1>2, InSeq
<1> QED BY <1>2, <1>3

\* Who wrote last before entry i is the same when the entries ahead of it are.
LEMMA WroteCarried ==
  ASSUME NEW i, NEW r, NEW w, WroteLast(i, r, w),
         \A j : j \in DOMAIN ROB' /\ j < i <=> j \in DOMAIN ROB /\ j < i,
         \A j \in DOMAIN ROB : j < i => SameProgram(j, j),
         Committed(r, w) /\ (\A j \in DOMAIN ROB : j < i => ~Writes(j, r)) => Committed(r, w)'
  PROVE  WroteLast(i, r, w)'
<1>1. \A j \in DOMAIN ROB : j < i => (Writes(j, r)' <=> Writes(j, r))
  BY DEF SameProgram, Writes
<1>2. CASE Committed(r, w) /\ \A j \in DOMAIN ROB : j < i => ~Writes(j, r)
  BY <1>1, <1>2 DEF WroteLast
<1>3. ASSUME NEW j \in DOMAIN ROB, j < i, ROB[j].instr_id = w, Writes(j, r),
             \A l \in DOMAIN ROB : j < l /\ l < i => ~Writes(l, r)
      PROVE  WroteLast(i, r, w)'
  <2>1. j \in DOMAIN ROB' /\ ROB'[j].instr_id = w /\ Writes(j, r)'
    BY <1>1, <1>3 DEF SameProgram
  <2>2. \A l \in DOMAIN ROB' : j < l /\ l < i => ~Writes(l, r)'
    BY <1>1, <1>3
  <2> QED BY <1>3, <2>1, <2>2 DEF WroteLast
<1> QED BY <1>2, <1>3 DEF WroteLast

\* The last name before an entry is the same when the names ahead of it are.
LEMMA NamedCarried ==
  ASSUME NEW i, NEW n, NEW r, NEW p, NamedLast(i, r, p), backend_RAT'[r] = backend_RAT[r],
         \A j, k : Renames(j, k, r)' /\ j < n <=> Renames(j, k, r) /\ j < i,
         \A j, k : Renames(j, k, r) /\ j < i => ROB'[j].destination_registers[k] = ROB[j].destination_registers[k]
  PROVE  NamedLast(n, r, p)'
<1>1. CASE p = backend_RAT[r] /\ \A j, k : ~(Renames(j, k, r) /\ j < i)
  BY <1>1 DEF NamedLast
<1>2. ASSUME NEW j, NEW k, Renames(j, k, r), j < i, ROB[j].destination_registers[k] = p,
             \A l, m : Renames(l, m, r) /\ l < i => l < j \/ (l = j /\ m <= k)
      PROVE  NamedLast(n, r, p)'
  BY <1>2 DEF NamedLast
<1> QED BY <1>1, <1>2 DEF NamedLast

\* A step that moves no register, and no instruction in the reorder buffer.
LEMMA SameHistory ==
  ASSUME Inv, History, InOrder', Retiring',
         UNCHANGED <<frontend_RAT, backend_RAT, next_id, last_writer>>,
         \A p \in PhysicalRegister :
           /\ physical_register_file'[p].arch_reg_index = physical_register_file[p].arch_reg_index
           /\ physical_register_file'[p].producing_instruction_id
                = physical_register_file[p].producing_instruction_id
           /\ physical_register_file'[p].busy = physical_register_file[p].busy,
         DOMAIN ROB' = DOMAIN ROB, Len(ROB') = Len(ROB),
         \A j \in DOMAIN ROB :
           /\ SameProgram(j, j)
           /\ ROB'[j].source_registers = ROB[j].source_registers
           /\ ROB'[j].destination_registers = ROB[j].destination_registers
           /\ ROB[j].status = "completed" => ROB'[j].status = "completed",
         \A j, k : InFlight(j, k)' <=> InFlight(j, k),
         \A j \in DOMAIN ROB : \A k : RenamedDestination(j, k) => RenamedDestination(j, k)',
         \A j \in DOMAIN ROB : \A k \in DOMAIN ROB[j].source_registers :
           RenamedSource(j, k)' <=> RenamedSource(j, k),
         \A j, k, p : /\ InFlight(j, k) /\ p = ROB[j].destination_registers[k]
                      /\ physical_register_file'[p].valid
                      => ROB'[j].status = "completed"
  PROVE  History'
<1> USE DEF History
<1>1. \A r \in ArchRegister : backend_RAT[r] # Unmapped => backend_RAT[r] \in PhysicalRegister
  BY DEF Inv, TypeOK
<1>2. \A r \in ArchRegister : \A w : Committed(r, w)' <=> Committed(r, w)
  BY <1>1 DEF Committed
<1>3. \A j \in DOMAIN ROB : ROB'[j].needs = ROB[j].needs /\ ROB'[j].writes = ROB[j].writes
                            /\ ROB'[j].instr_id = ROB[j].instr_id
  BY DEF SameProgram
<1>4. \A j, k, r : Renames(j, k, r)' <=> Renames(j, k, r)
  BY <1>3 DEF Renames, InFlight
<1>5. \A j, k, r : Renames(j, k, r) => ROB'[j].destination_registers[k] = ROB[j].destination_registers[k]
  BY DEF Renames, InFlight
<1>6. \A r \in ArchRegister : \A i, w : WroteLast(i, r, w) => WroteLast(i, r, w)'
  BY <1>2, WroteCarried
<1>7. ASSUME NEW i, NEW r, NEW p, NamedLast(i, r, p)
      PROVE  NamedLast(i, r, p)'
  <2>1. \A j, k : Renames(j, k, r)' /\ j < i <=> Renames(j, k, r) /\ j < i
    BY <1>4
  <2>2. \A j, k : Renames(j, k, r) /\ j < i => ROB'[j].destination_registers[k] = ROB[j].destination_registers[k]
    BY <1>5
  <2>3. backend_RAT'[r] = backend_RAT[r]
    OBVIOUS
  <2> QED BY <1>7, <2>1, <2>2, <2>3, NamedCarried
<1>8. \A i \in DOMAIN ROB : \A k \in DOMAIN ROB[i].needs : ROB[i].needs[k][1] \in ArchRegister
  BY Entries, NeedsType DEF Inv
<1>9. Known'
  BY <1>3 DEF Known
<1>10. Traced'
  <2>1. ASSUME NEW i \in DOMAIN ROB', NEW k \in DOMAIN ROB'[i].needs, NEW r, NEW w,
               ROB'[i].status # "completed", r = ROB'[i].needs[k][1], w = ROB'[i].needs[k][2]
        PROVE  WroteLast(i, r, w)'
    <3>1. i \in DOMAIN ROB /\ k \in DOMAIN ROB[i].needs /\ r = ROB[i].needs[k][1] /\ w = ROB[i].needs[k][2]
          /\ ROB[i].status # "completed"
      BY <1>3, <2>1
    <3>2. WroteLast(i, r, w) /\ r \in ArchRegister
      BY <1>8, <3>1 DEF Traced
    <3> QED BY <1>6, <3>2
  <2>2. \A r \in ArchRegister : \A i, w : i = Len(ROB') + 1 /\ w = last_writer'[r] => WroteLast(i, r, w)'
    BY <1>6 DEF Traced
  <2> QED BY <2>1, <2>2 DEF Traced
<1>11. Named'
  <2>1. ASSUME NEW i \in DOMAIN ROB', NEW k \in DOMAIN ROB'[i].source_registers, NEW r, NEW p,
               ROB'[i].status # "completed", RenamedSource(i, k)',
               r = ROB'[i].needs[k][1], p = ROB'[i].source_registers[k]
        PROVE  p \in PhysicalRegister /\ NamedLast(i, r, p)'
    <3>1. /\ i \in DOMAIN ROB /\ k \in DOMAIN ROB[i].source_registers /\ ROB[i].status # "completed"
          /\ RenamedSource(i, k) /\ r = ROB[i].needs[k][1] /\ p = ROB[i].source_registers[k]
      BY <1>3, <2>1
    <3>2. p \in PhysicalRegister /\ NamedLast(i, r, p)
      BY <3>1 DEF Named
    <3> QED BY <1>7, <3>2
  <2>2. \A r \in ArchRegister : \A i, p : i = Len(ROB') + 1 /\ p = frontend_RAT'[r] => NamedLast(i, r, p)'
    BY <1>7 DEF Named
  <2> QED BY <2>1, <2>2 DEF Named
<1>12. Filed'
  <2>1. ASSUME NEW i, NEW k, NEW p, InFlight(i, k)', p = ROB'[i].destination_registers[k]
        PROVE  /\ physical_register_file'[p].arch_reg_index = ROB'[i].writes[k]
               /\ physical_register_file'[p].producing_instruction_id = ROB'[i].instr_id
               /\ physical_register_file'[p].busy
               /\ physical_register_file'[p].valid => ROB'[i].status = "completed"
    <3>1. InFlight(i, k) /\ i \in DOMAIN ROB /\ k \in DOMAIN ROB[i].destination_registers
      BY <2>1 DEF InFlight
    <3>2. p = ROB[i].destination_registers[k] /\ p \in PhysicalRegister
      BY <2>1, <3>1 DEF Inv, Names, Assigned
    <3> QED BY <1>3, <3>1, <3>2 DEF Filed
  <2>2. \A r \in ArchRegister : \A p : p = backend_RAT'[r] /\ p # Unmapped =>
          physical_register_file'[p].arch_reg_index = r /\ physical_register_file'[p].busy
    BY <1>1 DEF Filed
  <2> QED BY <2>1, <2>2 DEF Filed
<1>13. Settled'
  BY <1>2, <1>3 DEF Settled
<1> QED BY <1>9, <1>10, <1>11, <1>12, <1>13

-----------------------------------------------------------------------------
(* What the history says *)

\* No two entries have the same number.
LEMMA OneEntryEach ==
  ASSUME TypeOK, InOrder, NEW i \in DOMAIN ROB, NEW j \in DOMAIN ROB, ROB[i].instr_id = ROB[j].instr_id
  PROVE  i = j
<1>1. i \in Nat /\ j \in Nat /\ ROB[i].instr_id \in Nat /\ ROB[j].instr_id \in Nat
  BY Entries, NeedsType
<1>2. ~(i < j) /\ ~(j < i)
  BY <1>1 DEF InOrder
<1> QED BY <1>1, <1>2

\* What is ahead of an instruction whose operands have names has been renamed.
LEMMA RenamedInOrder ==
  ASSUME Inv, InOrder, NEW i, NEW k, RenamedSource(i, k) \/ InFlight(i, k), NEW j \in DOMAIN ROB, j < i
  PROVE  IsScheduled(ROB[j])
<1>1. i \in DOMAIN ROB /\ j \in Nat /\ i \in Nat /\ ~(i = 1)
  BY Entries DEF Inv, RenamedSource, InFlight
<1>2. CASE IsScheduled(ROB[i])
  BY <1>1, <1>2 DEF InOrder
<1>3. CASE i = at /\ stage \in {"sources", "destinations"}
  <2>1. ROB[at].status = "ready" /\ at \in DOMAIN ROB
    BY <1>3 DEF Inv, Control
  <2>2. ROB[j].status # "ready" /\ ROB[j].status # "dispatched"
    BY <1>3, <2>1 DEF InOrder
  <2> QED BY <2>2 DEF IsScheduled
<1> QED BY <1>1, <1>2, <1>3 DEF RenamedSource, InFlight

\* A write of a scheduled instruction has a name that is in flight or committed.
LEMMA WritesAreRenamed ==
  ASSUME Inv, Known, Retiring, NEW j \in DOMAIN ROB, NEW r, Writes(j, r), IsScheduled(ROB[j])
  PROVE  \/ \E k : Renames(j, k, r)
         \/ stage = "retire" /\ j = 1 /\ Committed(r, ROB[j].instr_id) /\ backend_RAT[r] # Unmapped
<1>1. PICK k \in DOMAIN ROB[j].writes : ROB[j].writes[k] = r
  BY DEF Writes
<1>2. k \in DOMAIN ROB[j].destination_registers
  BY <1>1 DEF Known
<1>3. CASE InFlight(j, k)
  BY <1>1, <1>3 DEF Renames
<1>4. CASE ~InFlight(j, k)
  <2>1. stage = "retire" /\ j = 1 /\ k < op
    BY <1>2, <1>4 DEF InFlight
  <2> QED BY <1>1, <2>1 DEF Retiring
<1> QED BY <1>3, <1>4

\* A renamed source names the register of the producer that program order gives it.
LEMMA SourceOfProducer ==
  ASSUME Inv, History, NEW i \in DOMAIN ROB, NEW k \in DOMAIN ROB[i].source_registers,
         RenamedSource(i, k), ROB[i].status # "completed",
         NEW r, NEW w, NEW p,
         r = ROB[i].needs[k][1], w = ROB[i].needs[k][2], p = ROB[i].source_registers[k]
  PROVE  /\ p \in PhysicalRegister
         /\ physical_register_file[p].arch_reg_index = r
         /\ physical_register_file[p].producing_instruction_id = w
         /\ physical_register_file[p].busy
         /\ \A j \in DOMAIN ROB :
              ROB[j].instr_id = w /\ physical_register_file[p].valid => ROB[j].status = "completed"
<1>1. p \in PhysicalRegister /\ NamedLast(i, r, p)
  BY DEF History, Named
<1>2. k \in DOMAIN ROB[i].needs /\ r \in ArchRegister /\ w \in Nat /\ TypeOK
  BY NeedsType DEF History, Known, Inv
<1>3. WroteLast(i, r, w)
  BY <1>2 DEF History, Traced
<1>4. \A j \in DOMAIN ROB : j \in Nat /\ (j < i => IsScheduled(ROB[j]))
  BY RenamedInOrder, Entries DEF History, Inv
<1>5. p # Unmapped
  BY <1>1 DEF PhysicalRegister, Unmapped
<1>6. CASE p = backend_RAT[r] /\ \A j, l : ~(Renames(j, l, r) /\ j < i)
  <2>1. Committed(r, w)
    <3>1. ASSUME NEW j \in DOMAIN ROB, j < i, ROB[j].instr_id = w, Writes(j, r)
          PROVE  Committed(r, w)
      BY <1>4, <1>6, <3>1, WritesAreRenamed DEF History
    <3> QED BY <1>3, <3>1 DEF WroteLast
  <2>2. physical_register_file[p].producing_instruction_id = w
    BY <1>5, <1>6, <2>1 DEF Committed
  <2>3. \A j \in DOMAIN ROB : ROB[j].instr_id = w => ROB[j].status = "completed"
    BY <1>2, <1>5, <1>6, <2>1 DEF History, Settled
  <2> QED BY <1>1, <1>2, <1>5, <1>6, <2>2, <2>3 DEF History, Filed
<1>7. ASSUME NEW j, NEW l, Renames(j, l, r), j < i, ROB[j].destination_registers[l] = p,
             \A n, m : Renames(n, m, r) /\ n < i => n < j \/ (n = j /\ m <= l)
      PROVE  /\ physical_register_file[p].arch_reg_index = r
             /\ physical_register_file[p].producing_instruction_id = w
             /\ physical_register_file[p].busy
             /\ \A n \in DOMAIN ROB :
                  ROB[n].instr_id = w /\ physical_register_file[p].valid => ROB[n].status = "completed"
  <2>1. /\ InFlight(j, l) /\ ROB[j].writes[l] = r /\ j \in DOMAIN ROB /\ j \in Nat /\ j # 0
        /\ l \in DOMAIN ROB[j].destination_registers
    BY <1>7, Entries DEF Renames, InFlight, Inv
  <2>2. Writes(j, r)
    BY <2>1 DEF Writes, History, Known
  <2>3. PICK n \in DOMAIN ROB :
          n < i /\ ROB[n].instr_id = w /\ Writes(n, r) /\ \A m \in DOMAIN ROB : n < m /\ m < i => ~Writes(m, r)
    BY <1>3, <1>7, <2>1, <2>2 DEF WroteLast
  <2>4. n = j
    <3>1. ~(n < j)
      BY <1>7, <2>1, <2>2, <2>3
    <3>2. CASE \E m : Renames(n, m, r)
      BY <1>4, <1>7, <2>1, <2>3, <3>1, <3>2
    <3>3. CASE n = 1
      BY <1>4, <2>1, <3>1, <3>3
    <3> QED BY <1>4, <2>3, <3>2, <3>3, WritesAreRenamed DEF History
  <2>5. /\ physical_register_file[p].arch_reg_index = r
        /\ physical_register_file[p].producing_instruction_id = w
        /\ physical_register_file[p].busy
        /\ physical_register_file[p].valid => ROB[j].status = "completed"
    BY <1>7, <2>1, <2>3, <2>4 DEF History, Filed
  <2>6. \A m \in DOMAIN ROB : ROB[m].instr_id = w => m = j
    BY <1>2, <2>1, <2>3, <2>4, OneEntryEach DEF History
  <2> QED BY <2>5, <2>6
<1> QED BY <1>1, <1>6, <1>7 DEF NamedLast

LEMMA HistoryIsFaithful == Inv /\ History => RenamingFollowsTheProgram
<1> SUFFICES ASSUME Inv, History PROVE RenamingFollowsTheProgram
  OBVIOUS
<1>1. SourcesHoldTheirProducer
  <2> SUFFICES ASSUME NEW i \in DOMAIN ROB, NEW k \in DOMAIN ROB[i].source_registers,
                      RenamedSource(i, k), ROB[i].status # "completed"
               PROVE  LET e == physical_register_file[ROB[i].source_registers[k]] IN
                        /\ <<e.arch_reg_index, e.producing_instruction_id>> = ROB[i].needs[k]
                        /\ e.busy
    BY DEF SourcesHoldTheirProducer
  <2>1. PICK r, w, p : r = ROB[i].needs[k][1] /\ w = ROB[i].needs[k][2] /\ p = ROB[i].source_registers[k]
    OBVIOUS
  <2>2. /\ physical_register_file[p].arch_reg_index = r
        /\ physical_register_file[p].producing_instruction_id = w
        /\ physical_register_file[p].busy
    BY <2>1, SourceOfProducer
  <2>3. ROB[i].needs[k] = <<r, w>>
    <3>1. k \in DOMAIN ROB[i].needs /\ ROB[i].needs \in Seq(ArchRegister \X (0..MaxInstr))
      BY NeedsType DEF History, Known, Inv
    <3>2. ROB[i].needs[k] \in ArchRegister \X (0..MaxInstr)
      BY <3>1, InSeq
    <3> QED BY <2>1, <3>2
  <2> QED BY <2>1, <2>2, <2>3
<1>2. FrontendIsYoungest
  <2> SUFFICES ASSUME NEW r \in ArchRegister
               PROVE  \/ /\ frontend_RAT[r] = backend_RAT[r]
                         /\ \A i \in DOMAIN ROB : \A k \in DOMAIN ROB[i].destination_registers :
                              InFlight(i, k) =>
                                physical_register_file[ROB[i].destination_registers[k]].arch_reg_index # r
                      \/ \E i \in DOMAIN ROB : \E k \in DOMAIN ROB[i].destination_registers :
                           /\ InFlight(i, k) /\ frontend_RAT[r] = ROB[i].destination_registers[k]
                           /\ \A j \in DOMAIN ROB : \A l \in DOMAIN ROB[j].destination_registers :
                                InFlight(j, l)
                                  /\ physical_register_file[ROB[j].destination_registers[l]].arch_reg_index = r
                                  => j < i \/ (j = i /\ l <= k)
    BY DEF FrontendIsYoungest
  <2> DEFINE n == Len(ROB) + 1
             p == frontend_RAT[r]
  <2>1. NamedLast(n, r, p)
    BY DEF History, Named
  <2>2. \A i \in DOMAIN ROB : i < n
    BY Entries DEF Inv
  <2> HIDE DEF n
  <2>3. \A i, k : InFlight(i, k) =>
          /\ i \in DOMAIN ROB /\ k \in DOMAIN ROB[i].destination_registers
          /\ Renames(i, k, r) <=> physical_register_file[ROB[i].destination_registers[k]].arch_reg_index = r
    BY DEF History, Filed, Renames, InFlight
  <2>4. CASE p = backend_RAT[r] /\ \A j, k : ~(Renames(j, k, r) /\ j < n)
    BY <2>2, <2>3, <2>4
  <2>5. ASSUME NEW i, NEW k, Renames(i, k, r), i < n, ROB[i].destination_registers[k] = p,
               \A j, l : Renames(j, l, r) /\ j < n => j < i \/ (j = i /\ l <= k)
        PROVE  \E i1 \in DOMAIN ROB : \E k1 \in DOMAIN ROB[i1].destination_registers :
                 /\ InFlight(i1, k1) /\ frontend_RAT[r] = ROB[i1].destination_registers[k1]
                 /\ \A j \in DOMAIN ROB : \A l \in DOMAIN ROB[j].destination_registers :
                      InFlight(j, l)
                        /\ physical_register_file[ROB[j].destination_registers[l]].arch_reg_index = r
                        => j < i1 \/ (j = i1 /\ l <= k1)
    <3>1. InFlight(i, k) /\ i \in DOMAIN ROB /\ k \in DOMAIN ROB[i].destination_registers
      BY <2>5 DEF Renames, InFlight
    <3>2. \A j \in DOMAIN ROB : \A l \in DOMAIN ROB[j].destination_registers :
            InFlight(j, l)
              /\ physical_register_file[ROB[j].destination_registers[l]].arch_reg_index = r
              => j < i \/ (j = i /\ l <= k)
      BY <2>2, <2>3, <2>5
    <3> QED BY <2>5, <3>1, <3>2
  <2> QED BY <2>1, <2>4, <2>5 DEF NamedLast
<1> QED BY <1>1, <1>2 DEF RenamingFollowsTheProgram

-----------------------------------------------------------------------------
(* Steps that keep the history: the loops *)

\* A step that only moves from loop to loop, or on in one.
LEMMA SameEntries ==
  ASSUME Inv, History, UNCHANGED <<allocator, ROB, next_id, last_writer>>,
         \A i \in DOMAIN ROB : \A k \in DOMAIN ROB[i].destination_registers :
           InFlight(i, k)' <=> InFlight(i, k),
         \A i \in DOMAIN ROB : \A k : RenamedDestination(i, k) => RenamedDestination(i, k)',
         \A i \in DOMAIN ROB : \A k \in DOMAIN ROB[i].source_registers :
           RenamedSource(i, k)' <=> RenamedSource(i, k),
         stage' \in {"schedule", "sources", "destinations"} =>
           \A i \in DOMAIN ROB : i < at' => ROB[i].status # "ready",
         Retiring'
  PROVE  History'
<1>1. InOrder'
  BY DEF History, InOrder, IsScheduled
<1>2. \A i, k : InFlight(i, k)' <=> InFlight(i, k)
  BY DEF InFlight
<1>3. \A j, k, p : /\ InFlight(j, k) /\ p = ROB[j].destination_registers[k]
                   /\ physical_register_file'[p].valid
                   => ROB'[j].status = "completed"
  BY DEF History, Filed, allocator
<1>4. \A j \in DOMAIN ROB : SameProgram(j, j)
  BY DEF SameProgram
<1> QED BY <1>1, <1>2, <1>3, <1>4, SameHistory DEF allocator

\* Renaming starts over at the front in each cycle, and passes over no instruction
\* that is ready.
LEMMA LoopsKeepHistory ==
  ASSUME Inv, History,
         EndRetire \/ EndComplete \/ EndExecute \/ StopScheduling \/ PassOver \/ EndSchedule
           \/ EndDispatch \/ NextCycle
  PROVE  History'
<1>1. /\ stage \in {"retire", "complete", "execute", "schedule", "dispatch", "elapse"}
      /\ stage' \in {"retire", "complete", "execute", "schedule", "dispatch", "elapse"}
      /\ stage = "retire" => stage' # "retire"
      /\ UNCHANGED <<allocator, ROB, next_id, last_writer, op>>
      /\ stage' = "schedule" => at' = 1 \/ (stage = "schedule" /\ at' = at + 1 /\ ROB[at].status # "ready")
      /\ stage' = "retire" => stage = "elapse"
  BY DEF EndRetire, EndComplete, EndExecute, StopScheduling, PassOver, EndSchedule, EndDispatch,
         NextCycle, GoTo, Looking
<1>2. op = 1
  <2>1. CASE EndRetire
    BY <2>1 DEF Inv, Control, EndRetire
  <2>2. CASE ~EndRetire
    <3>1. stage \notin {"retire", "sources", "destinations"}
      BY <2>2 DEF EndComplete, EndExecute, StopScheduling, PassOver, EndSchedule, EndDispatch, NextCycle,
                  Looking
    <3> QED BY <3>1 DEF Inv, Control
  <2> QED BY <2>1, <2>2
<1>3. \A i \in DOMAIN ROB : i \in Nat \ {0} /\ \A k \in DOMAIN ROB[i].destination_registers : k \in Nat /\ ~(k < 1)
  BY Entries DEF Inv
<1>4. /\ \A i \in DOMAIN ROB : \A k \in DOMAIN ROB[i].destination_registers :
           InFlight(i, k)' <=> InFlight(i, k)
      /\ \A i \in DOMAIN ROB : \A k : RenamedDestination(i, k) => RenamedDestination(i, k)'
      /\ \A i \in DOMAIN ROB : \A k \in DOMAIN ROB[i].source_registers :
           RenamedSource(i, k)' <=> RenamedSource(i, k)
  BY <1>1, <1>2, <1>3 DEF InFlight, RenamedDestination, RenamedSource, IsScheduled
<1>5. stage' \in {"schedule", "sources", "destinations"} =>
        \A i \in DOMAIN ROB : i < at' => ROB[i].status # "ready"
  <2> SUFFICES ASSUME stage' = "schedule", NEW i \in DOMAIN ROB, i < at'
               PROVE  ROB[i].status # "ready"
    BY <1>1
  <2>1. i \in Nat \ {0} /\ at \in Nat
    BY <1>3 DEF Inv, TypeOK
  <2>2. stage = "schedule" /\ (i < at \/ (i = at /\ ROB[at].status # "ready"))
    BY <1>1, <2>1
  <2> QED BY <2>2 DEF History, InOrder
<1>6. Retiring'
  <2> SUFFICES ASSUME stage' = "retire", 1 \in DOMAIN ROB, NEW k \in DOMAIN ROB[1].writes
               PROVE  ~(k < op')
    BY <1>1 DEF Retiring
  <2>1. k \in DOMAIN ROB[1].destination_registers
    BY DEF History, Known
  <2> QED BY <1>1, <1>2, <1>3, <2>1
<1> QED BY <1>1, <1>4, <1>5, <1>6, SameEntries

\* The instruction that is renamed has none ahead of it that is ready.
LEMMA RenamingBeginsInOrder ==
  ASSUME Inv, History, BeginRenaming \/ EndSources
  PROVE  History'
<1>1. /\ stage' \in {"sources", "destinations"} /\ op' = 1
      /\ at \in DOMAIN ROB /\ ROB[at].status = "ready"
      /\ UNCHANGED <<allocator, ROB, next_id, last_writer, bw, at>>
      /\ \/ stage = "schedule" /\ stage' = "sources"
         \/ stage = "sources" /\ stage' = "destinations" /\ op \notin DOMAIN ROB[at].source_registers
  BY DEF BeginRenaming, EndSources, Looking, Inv, Control
<1>2. \A i \in DOMAIN ROB : /\ \A k \in DOMAIN ROB[i].destination_registers : k \in Nat /\ ~(k < 1)
                            /\ \A k \in DOMAIN ROB[i].source_registers : k \in Nat /\ ~(k < 1)
  BY Entries DEF Inv
<1>3. op \notin DOMAIN ROB[at].source_registers => \A k \in DOMAIN ROB[at].source_registers : k < op
  <2>1. /\ DOMAIN ROB[at].source_registers = 1..Len(ROB[at].source_registers)
        /\ Len(ROB[at].source_registers) \in Nat
    BY <1>1, Entries DEF Inv
  <2>2. op \in Nat \ {0}
    BY DEF Inv, TypeOK
  <2> QED BY <2>1, <2>2
<1>4. /\ \A i \in DOMAIN ROB : \A k \in DOMAIN ROB[i].destination_registers :
           InFlight(i, k)' <=> InFlight(i, k)
      /\ \A i \in DOMAIN ROB : \A k : RenamedDestination(i, k) => RenamedDestination(i, k)'
  BY <1>1, <1>2 DEF InFlight, RenamedDestination, IsScheduled
<1>5. \A i \in DOMAIN ROB : \A k \in DOMAIN ROB[i].source_registers :
        RenamedSource(i, k)' <=> RenamedSource(i, k)
  BY <1>1, <1>2, <1>3 DEF RenamedSource, IsScheduled
<1>6. \A i \in DOMAIN ROB : i < at' => ROB[i].status # "ready"
  BY <1>1 DEF History, InOrder
<1>7. Retiring'
  BY <1>1 DEF Retiring
<1> QED BY <1>1, <1>4, <1>5, <1>6, <1>7, SameEntries

-----------------------------------------------------------------------------
(* Steps that keep the history: one instruction moves on *)

\* Entry i gets status s, and the order in which instructions become ready and are
\* scheduled is kept.
LEMMA StatusKeepsHistory ==
  ASSUME Inv, History, NEW i \in DOMAIN ROB, NEW s,
         ROB' = [ROB EXCEPT ![i].status = s],
         ROB[i].status # "completed", s # "dispatched", s # "ready" \/ ROB[i].status = "dispatched",
         \A j \in DOMAIN ROB : j < i /\ s = "ready" => ROB[j].status # "dispatched",
         IsScheduled(ROB[i]) => s # "ready",
         s # "ready" /\ ~IsScheduled(ROB[i]) => \A j \in DOMAIN ROB : j < i => IsScheduled(ROB[j]),
         UNCHANGED <<frontend_RAT, backend_RAT, next_id, last_writer>>,
         \A p \in PhysicalRegister :
           /\ physical_register_file'[p].arch_reg_index = physical_register_file[p].arch_reg_index
           /\ physical_register_file'[p].producing_instruction_id
                = physical_register_file[p].producing_instruction_id
           /\ physical_register_file'[p].busy = physical_register_file[p].busy,
         stage \in {"retire", "schedule", "sources", "destinations"} =>
           stage = "destinations" /\ i = at /\ at' = at + 1,
         stage' \notin {"retire", "sources", "destinations"},
         stage' = "schedule" => stage = "destinations" /\ s # "ready",
         \A j, k : InFlight(j, k)' <=> InFlight(j, k),
         \A j \in DOMAIN ROB : \A k : RenamedDestination(j, k) => RenamedDestination(j, k)',
         \A j \in DOMAIN ROB : \A k \in DOMAIN ROB[j].source_registers :
           RenamedSource(j, k)' <=> RenamedSource(j, k),
         \A j, k, p : /\ InFlight(j, k) /\ p = ROB[j].destination_registers[k]
                      /\ physical_register_file'[p].valid
                      => physical_register_file[p].valid \/ (j = i /\ s = "completed")
  PROVE  History'
<1>1. /\ DOMAIN ROB' = DOMAIN ROB /\ Len(ROB') = Len(ROB)
      /\ \A j \in DOMAIN ROB : j # i => ROB'[j] = ROB[j]
      /\ ROB'[i] = [ROB[i] EXCEPT !.status = s]
  BY DEF Inv, TypeOK
<1>2. \A j \in DOMAIN ROB :
        /\ SameProgram(j, j)
        /\ ROB'[j].source_registers = ROB[j].source_registers
        /\ ROB'[j].destination_registers = ROB[j].destination_registers
        /\ ROB'[j].status = IF j = i THEN s ELSE ROB[j].status
  <2>1. ROB[i] \in RobEntry
    BY Entries DEF Inv
  <2>2. /\ ROB'[i].instr_id = ROB[i].instr_id /\ ROB'[i].needs = ROB[i].needs /\ ROB'[i].writes = ROB[i].writes
        /\ ROB'[i].source_registers = ROB[i].source_registers
        /\ ROB'[i].destination_registers = ROB[i].destination_registers /\ ROB'[i].status = s
    BY <1>1, <2>1 DEF RobEntry
  <2> QED BY <1>1, <2>2 DEF SameProgram
<1>3. \A j \in DOMAIN ROB : IsScheduled(ROB[j])' <=> IsScheduled(ROB[j]) \/ (j = i /\ s # "ready")
  BY <1>2 DEF IsScheduled
<1>4. InOrder'
  <2>1. ASSUME NEW j \in DOMAIN ROB, NEW l \in DOMAIN ROB, j < l
        PROVE  /\ ROB'[j].instr_id < ROB'[l].instr_id
               /\ ROB'[j].status = "dispatched" => ROB'[l].status = "dispatched"
               /\ IsScheduled(ROB[l])' => IsScheduled(ROB[j])'
    <3>1. j # l
      BY <2>1, Entries DEF Inv
    <3>2. ROB'[j].instr_id < ROB'[l].instr_id
      BY <1>2, <2>1 DEF SameProgram, History, InOrder
    <3>3. ROB[j].status = "dispatched" => ROB[l].status = "dispatched"
      BY <2>1 DEF History, InOrder
    <3>4. IsScheduled(ROB[l]) => IsScheduled(ROB[j])
      BY <2>1 DEF History, InOrder
    <3>5. ROB'[j].status = "dispatched" => ROB'[l].status = "dispatched"
      <4> SUFFICES ASSUME ROB'[j].status = "dispatched" PROVE ROB'[l].status = "dispatched"
        OBVIOUS
      <4>1. j # i /\ ROB[j].status = "dispatched"
        BY <1>2
      <4>2. l # i
        <5> SUFFICES ASSUME l = i PROVE FALSE
          OBVIOUS
        <5>1. ~IsScheduled(ROB[j])
          BY <4>1 DEF IsScheduled
        <5> QED BY <2>1, <3>4, <4>1, <5>1
      <4> QED BY <1>2, <3>3, <4>1, <4>2
    <3>6. IsScheduled(ROB[l])' => IsScheduled(ROB[j])'
      BY <1>3, <2>1, <3>1, <3>4
    <3> QED BY <3>2, <3>5, <3>6
  <2>2. \A j \in DOMAIN ROB : ROB'[j].instr_id < next_id'
    BY <1>2 DEF SameProgram, History, InOrder
  <2>3. ASSUME stage' \in {"schedule", "sources", "destinations"}, NEW j \in DOMAIN ROB, j < at'
        PROVE  ROB'[j].status # "ready"
    <3>1. stage = "destinations" /\ s # "ready" /\ i = at /\ at' = at + 1
      BY <2>3
    <3>2. j \in Nat /\ at \in Nat
      BY Entries DEF Inv, TypeOK
    <3>3. j = i \/ j < at
      BY <2>3, <3>1, <3>2
    <3> QED BY <1>2, <3>1, <3>3 DEF History, InOrder
  <2> QED BY <1>1, <2>1, <2>2, <2>3 DEF InOrder
<1>5. Retiring'
  BY DEF Retiring
<1>6. \A j, k, p : /\ InFlight(j, k) /\ p = ROB[j].destination_registers[k]
                   /\ physical_register_file'[p].valid
                   => ROB'[j].status = "completed"
  <2> SUFFICES ASSUME NEW j, NEW k, NEW p, InFlight(j, k), p = ROB[j].destination_registers[k],
                      physical_register_file'[p].valid
               PROVE  ROB'[j].status = "completed"
    OBVIOUS
  <2>1. j \in DOMAIN ROB
    BY DEF InFlight
  <2>2. CASE physical_register_file[p].valid
    <3>1. ROB[j].status = "completed"
      BY <2>2 DEF History, Filed
    <3> QED BY <1>2, <2>1, <3>1
  <2>3. CASE j = i /\ s = "completed"
    BY <1>2, <2>1, <2>3
  <2> QED BY <2>2, <2>3
<1> QED BY <1>1, <1>2, <1>4, <1>5, <1>6, SameHistory

\* complete_inflight_instruction: a register becomes valid when its producer completes.
LEMMA CompletionKeepsHistory ==
  ASSUME Inv, History, NEW i \in DOMAIN ROB, Complete(i)
  PROVE  History'
<1> DEFINE ps == Elements(ROB[i].destination_registers)
<1>1. /\ stage = "complete" /\ ROB[i].status = "performed"
      /\ ROB' = [ROB EXCEPT ![i].status = "completed"]
      /\ physical_register_file' =
           [p \in PhysicalRegister |->
              IF p \in ps THEN [physical_register_file[p] EXCEPT !.valid = TRUE] ELSE physical_register_file[p]]
      /\ UNCHANGED <<frontend_RAT, backend_RAT, free_registers, stage, at, op, next_id, last_writer>>
  BY DEF Complete, CanComplete, CompleteDests
<1> HIDE DEF ps
<1>2. ASSUME NEW p \in PhysicalRegister
      PROVE  /\ physical_register_file'[p].arch_reg_index = physical_register_file[p].arch_reg_index
             /\ physical_register_file'[p].producing_instruction_id
                  = physical_register_file[p].producing_instruction_id
             /\ physical_register_file'[p].busy = physical_register_file[p].busy
             /\ p \notin ps => physical_register_file'[p].valid = physical_register_file[p].valid
  BY <1>1 DEF Inv, TypeOK, PhysicalEntry
<1>3. \A j \in DOMAIN ROB :
        /\ IsScheduled(ROB[j])' <=> IsScheduled(ROB[j])
        /\ ROB'[j].source_registers = ROB[j].source_registers
        /\ ROB'[j].destination_registers = ROB[j].destination_registers
  BY <1>1, Entries DEF IsScheduled, Inv, RobEntry
<1>4. DOMAIN ROB' = DOMAIN ROB /\ IsScheduled(ROB[i])
  BY <1>1 DEF IsScheduled
<1>5. /\ \A j, k : InFlight(j, k)' <=> InFlight(j, k)
      /\ \A j \in DOMAIN ROB : \A k : RenamedDestination(j, k) => RenamedDestination(j, k)'
      /\ \A j \in DOMAIN ROB : \A k \in DOMAIN ROB[j].source_registers :
           RenamedSource(j, k)' <=> RenamedSource(j, k)
  BY <1>1, <1>3, <1>4 DEF InFlight, RenamedDestination, RenamedSource
<1>6. ASSUME NEW j, NEW k, NEW p, InFlight(j, k), p = ROB[j].destination_registers[k],
             physical_register_file'[p].valid
      PROVE  physical_register_file[p].valid \/ j = i
  <2>1. p \in PhysicalRegister /\ j \in DOMAIN ROB /\ k \in DOMAIN ROB[j].destination_registers
    BY <1>6 DEF Inv, Names, Assigned, InFlight
  <2>2. CASE p \notin ps
    BY <1>2, <1>6, <2>1, <2>2
  <2>3. CASE p \in ps
    <3>1. PICK l \in DOMAIN ROB[i].destination_registers : ROB[i].destination_registers[l] = p
      BY <2>3 DEF ps, Elements
    <3>2. InFlight(i, l)
      BY <1>1, <1>4 DEF InFlight
    <3> QED BY <1>6, <2>1, <3>1, <3>2 DEF Inv, RegisterPartition
  <2> QED BY <2>2, <2>3
<1>7. PICK s : s = "completed"
  OBVIOUS
<1>8. /\ ROB' = [ROB EXCEPT ![i].status = s]
      /\ ROB[i].status # "completed" /\ s # "dispatched" /\ s # "ready"
      /\ stage \notin {"retire", "schedule", "sources", "destinations"} /\ stage' = stage
  BY <1>1, <1>7
<1>9. \A p \in PhysicalRegister :
        /\ physical_register_file'[p].arch_reg_index = physical_register_file[p].arch_reg_index
        /\ physical_register_file'[p].producing_instruction_id
             = physical_register_file[p].producing_instruction_id
        /\ physical_register_file'[p].busy = physical_register_file[p].busy
  BY <1>2
<1>10. \A j, k, p : /\ InFlight(j, k) /\ p = ROB[j].destination_registers[k]
                    /\ physical_register_file'[p].valid
                    => physical_register_file[p].valid \/ (j = i /\ s = "completed")
  BY <1>6, <1>7
<1>11. UNCHANGED <<frontend_RAT, backend_RAT, next_id, last_writer>>
  BY <1>1
<1> QED BY <1>4, <1>5, <1>8, <1>9, <1>10, <1>11, StatusKeepsHistory

\* Execution, readiness and memory.
LEMMA AdvanceKeepsHistory ==
  ASSUME Inv, History, NEW i \in DOMAIN ROB, Execute(i) \/ BecomeReady(i) \/ Perform(i)
  PROVE  History'
<1>1. PICK s \in Status :
               /\ ROB' = [ROB EXCEPT ![i].status = s]
               /\ s \notin {"dispatched", "completed"} /\ ROB[i].status # "completed"
               /\ s = "ready" <=> ~IsScheduled(ROB[i])
               /\ s = "ready" => ROB[i].status = "dispatched" /\ \A j \in 1..(i - 1) : ROB[j].status # "dispatched"
  <2>1. CASE Execute(i)
    <3>1. ROB[i].status = "scheduled" /\ ROB' = [ROB EXCEPT ![i].status = "executed"]
      BY <2>1 DEF Execute, CanExecute
    <3> QED BY <3>1 DEF IsScheduled, Status
  <2>2. CASE BecomeReady(i)
    <3>1. /\ ROB[i].status = "dispatched" /\ ROB' = [ROB EXCEPT ![i].status = "ready"]
          /\ \A j \in 1..(i - 1) : ROB[j].status # "dispatched"
      BY <2>2 DEF BecomeReady
    <3> QED BY <3>1 DEF IsScheduled, Status
  <2>3. CASE Perform(i)
    <3>1. ROB[i].status = "executed" /\ ROB' = [ROB EXCEPT ![i].status = "performed"]
      BY <2>3 DEF Perform
    <3> QED BY <3>1 DEF IsScheduled, Status
  <2> QED BY <2>1, <2>2, <2>3
<1>2. stage \in {"execute", "elapse"} /\ UNCHANGED <<allocator, stage, at, op, next_id, last_writer>>
  BY DEF Execute, BecomeReady, Perform
<1>3. \A j \in DOMAIN ROB :
        /\ IsScheduled(ROB[j])' <=> IsScheduled(ROB[j])
        /\ ROB'[j].source_registers = ROB[j].source_registers
        /\ ROB'[j].destination_registers = ROB[j].destination_registers
  BY <1>1, Entries DEF IsScheduled, Inv, RobEntry
<1>4. DOMAIN ROB' = DOMAIN ROB
  BY <1>1
<1>5. /\ \A j, k : InFlight(j, k)' <=> InFlight(j, k)
      /\ \A j \in DOMAIN ROB : \A k : RenamedDestination(j, k) => RenamedDestination(j, k)'
      /\ \A j \in DOMAIN ROB : \A k \in DOMAIN ROB[j].source_registers :
           RenamedSource(j, k)' <=> RenamedSource(j, k)
  BY <1>2, <1>3, <1>4 DEF InFlight, RenamedDestination, RenamedSource
<1>6. \A j \in DOMAIN ROB : j < i /\ s = "ready" => ROB[j].status # "dispatched"
  <2>1. \A j \in DOMAIN ROB : j < i => j \in 1..(i - 1)
    BY Entries DEF Inv
  <2> QED BY <1>1, <2>1
<1>7. /\ UNCHANGED <<frontend_RAT, backend_RAT, next_id, last_writer>>
      /\ physical_register_file' = physical_register_file
      /\ stage \notin {"retire", "schedule", "sources", "destinations"} /\ stage' = stage
  BY <1>2 DEF allocator
<1> QED BY <1>1, <1>5, <1>6, <1>7, StatusKeepsHistory

\* With its last operand renamed an instruction is scheduled.
LEMMA ScheduledKeepsHistory ==
  ASSUME Inv, History, EndRenaming
  PROVE  History'
<1>1. /\ stage = "destinations" /\ at \in DOMAIN ROB /\ ROB[at].status = "ready"
      /\ op \notin DOMAIN ROB[at].destination_registers
      /\ ROB' = [ROB EXCEPT ![at].status = "scheduled"]
      /\ stage' = "schedule" /\ op' = 1 /\ at' = at + 1
      /\ UNCHANGED <<frontend_RAT, backend_RAT, next_id, last_writer, physical_register_file>>
  BY DEF EndRenaming, Inv, Control, allocator
<1>2. \A j \in DOMAIN ROB :
        /\ IsScheduled(ROB[j])' <=> IsScheduled(ROB[j]) \/ j = at
        /\ ROB'[j].source_registers = ROB[j].source_registers
        /\ ROB'[j].destination_registers = ROB[j].destination_registers
  BY <1>1, Entries DEF IsScheduled, Inv, RobEntry
<1>3. DOMAIN ROB' = DOMAIN ROB
  BY <1>1
<1>4. \A k \in DOMAIN ROB[at].destination_registers : k < op
  <2>1. /\ DOMAIN ROB[at].destination_registers = 1..Len(ROB[at].destination_registers)
        /\ Len(ROB[at].destination_registers) \in Nat /\ op \in Nat \ {0}
    BY <1>1, Entries DEF Inv, TypeOK
  <2> QED BY <1>1, <2>1
<1>5. /\ \A j, k : InFlight(j, k)' <=> InFlight(j, k)
      /\ \A j \in DOMAIN ROB : \A k : RenamedDestination(j, k) => RenamedDestination(j, k)'
      /\ \A j \in DOMAIN ROB : \A k \in DOMAIN ROB[j].source_registers :
           RenamedSource(j, k)' <=> RenamedSource(j, k)
  BY <1>1, <1>2, <1>3, <1>4 DEF InFlight, RenamedDestination, RenamedSource
<1>6. \A j \in DOMAIN ROB : j < at => IsScheduled(ROB[j])
  BY <1>1 DEF History, InOrder, IsScheduled
<1>7. PICK s : s = "scheduled"
  OBVIOUS
<1>8. /\ ROB' = [ROB EXCEPT ![at].status = s]
      /\ ROB[at].status # "completed" /\ s # "dispatched" /\ s # "ready" /\ ~IsScheduled(ROB[at])
      /\ stage = "destinations" /\ at' = at + 1 /\ stage' = "schedule"
  BY <1>1, <1>7 DEF IsScheduled
<1>9. /\ UNCHANGED <<frontend_RAT, backend_RAT, next_id, last_writer>>
      /\ physical_register_file' = physical_register_file /\ at \in DOMAIN ROB
  BY <1>1
<1> QED BY <1>5, <1>6, <1>8, <1>9, StatusKeepsHistory

-----------------------------------------------------------------------------
(* Steps that keep the history: dispatch and retirement *)

\* Dispatch notes the last writers among instructions that are all older.
LEMMA LastWritersAreOlder ==
  ASSUME Inv, History, NEW r \in ArchRegister
  PROVE  last_writer[r] < next_id
<1> DEFINE w == last_writer[r]
           n == Len(ROB) + 1
<1>1. WroteLast(n, r, w)
  BY DEF History, Traced
<1>2. next_id \in Nat \ {0}
  BY DEF Inv, TypeOK
<1>3. CASE Committed(r, w)
  BY <1>2, <1>3 DEF History, Settled, Committed
<1>4. CASE \E j \in DOMAIN ROB : ROB[j].instr_id = w
  BY <1>4 DEF History, InOrder
<1> QED BY <1>1, <1>3, <1>4 DEF WroteLast

\* The new entry has renamed nothing, and its writes are the last ones of all.
LEMMA DispatchKeepsHistory ==
  ASSUME Inv, History, NEW o \in Operation, Dispatch(o)
  PROVE  History'
<1> DEFINE x == NewEntry(o)
<1>0. PICK n : n = Len(ROB) + 1
  OBVIOUS
<1>1. /\ stage = "dispatch" /\ stage' = "dispatch" /\ next_id <= MaxInstr /\ next_id' = next_id + 1
      /\ ROB' = Append(ROB, x)
      /\ last_writer' = [r \in ArchRegister |-> IF r \in Elements(o.destination_registers)
                                                  THEN next_id ELSE last_writer[r]]
      /\ UNCHANGED <<allocator, frontend_RAT, backend_RAT, physical_register_file, at, op>>
  BY DEF Dispatch, allocator
<1>2. /\ ROB \in Seq(RobEntry) /\ x \in RobEntry /\ Len(ROB) \in Nat /\ next_id \in Nat \ {0}
      /\ DOMAIN ROB = 1..Len(ROB)
  <2>1. TypeOK /\ ROB \in Seq(RobEntry) /\ next_id \in Nat \ {0}
    BY DEF Inv, TypeOK
  <2>2. x \in RobEntry
    BY <1>1, <2>1, NewEntryType
  <2> QED BY <2>1, <2>2, Entries
<1>3. /\ x.status = "dispatched" /\ x.instr_id = next_id
      /\ x.source_registers = o.source_registers /\ x.destination_registers = o.destination_registers
      /\ x.needs = Needs(o) /\ x.writes = o.destination_registers
  BY DEF NewEntry
<1> HIDE DEF x
<1>4. /\ Len(ROB') = n /\ DOMAIN ROB' = DOMAIN ROB \cup {n} /\ ROB'[n] = x
      /\ \A j \in DOMAIN ROB : ROB'[j] = ROB[j] /\ j # n
  BY <1>0, <1>1, <1>2, Appended
<1>5. \A j \in DOMAIN ROB : j \in Nat /\ j < n
  BY <1>0, <1>2
<1>6. n \in Nat
  BY <1>0, <1>2
<1>7. /\ \A j, k : InFlight(j, k)' <=> InFlight(j, k)
      /\ \A j, k : InFlight(j, k) => ROB'[j] = ROB[j] /\ j \in DOMAIN ROB
      /\ \A j \in DOMAIN ROB : \A k : /\ RenamedSource(j, k)' <=> RenamedSource(j, k)
                                      /\ RenamedDestination(j, k)' <=> RenamedDestination(j, k)
      /\ \A k : ~RenamedSource(n, k)' /\ ~RenamedDestination(n, k)'
  BY <1>1, <1>3, <1>4 DEF InFlight, RenamedSource, RenamedDestination, IsScheduled
<1>8. \A j \in DOMAIN ROB : SameProgram(j, j)
  BY <1>4 DEF SameProgram
<1>9. \A r \in ArchRegister : \A w : Committed(r, w)' <=> Committed(r, w)
  BY <1>1 DEF Committed
<1>10. \A r \in ArchRegister : last_writer[r] < next_id /\ last_writer[r] \in Nat
  BY LastWritersAreOlder DEF Inv, TypeOK
<1>11. InOrder'
  <2>1. ASSUME NEW i \in DOMAIN ROB', NEW j \in DOMAIN ROB', i < j
        PROVE  /\ ROB'[i].instr_id < ROB'[j].instr_id
               /\ ROB'[i].status = "dispatched" => ROB'[j].status = "dispatched"
               /\ IsScheduled(ROB'[j]) => IsScheduled(ROB'[i])
    <3>1. i \in DOMAIN ROB
      BY <1>4, <1>5, <1>6, <2>1
    <3>2. CASE j \in DOMAIN ROB
      BY <1>4, <2>1, <3>1, <3>2 DEF History, InOrder
    <3>3. CASE j = n
      <4>1. ROB'[i].instr_id < next_id
        BY <1>4, <3>1 DEF History, InOrder
      <4>2. ~IsScheduled(x)
        BY <1>3 DEF IsScheduled
      <4> QED BY <1>3, <1>4, <3>3, <4>1, <4>2
    <3> QED BY <1>4, <3>2, <3>3
  <2>2. ASSUME NEW i \in DOMAIN ROB'
        PROVE  ROB'[i].instr_id < next_id'
    <3>1. CASE i \in DOMAIN ROB
      <4>1. ROB[i].instr_id < next_id /\ ROB[i].instr_id \in Nat
        BY <3>1, NeedsType DEF History, InOrder, Inv
      <4> QED BY <1>1, <1>2, <1>4, <3>1, <4>1
    <3>2. CASE i = n
      BY <1>1, <1>2, <1>3, <1>4, <3>2
    <3> QED BY <1>4, <3>1, <3>2
  <2>3. \A i, j \in DOMAIN ROB' : i < j =>
          /\ ROB'[i].instr_id < ROB'[j].instr_id
          /\ ROB'[i].status = "dispatched" => ROB'[j].status = "dispatched"
          /\ IsScheduled(ROB[j])' => IsScheduled(ROB[i])'
    BY <2>1 DEF IsScheduled
  <2> QED BY <1>1, <2>2, <2>3 DEF InOrder
<1>12. /\ DOMAIN Needs(o) = DOMAIN o.source_registers
       /\ \A k \in DOMAIN Needs(o) :
            /\ Needs(o)[k][1] = o.source_registers[k]
            /\ o.source_registers[k] \in ArchRegister
            /\ Needs(o)[k][2] = last_writer[o.source_registers[k]]
  <2>1. o.source_registers \in Seq(ArchRegister)
    OBVIOUS
  <2>2. \A k \in DOMAIN o.source_registers : o.source_registers[k] \in ArchRegister
    BY <2>1, InSeq
  <2> QED BY <2>2 DEF Needs
<1>13. Known'
  <2> SUFFICES ASSUME NEW i \in DOMAIN ROB'
               PROVE  /\ DOMAIN ROB'[i].needs = DOMAIN ROB'[i].source_registers
                      /\ DOMAIN ROB'[i].writes = DOMAIN ROB'[i].destination_registers
                      /\ \A k \in DOMAIN ROB'[i].needs :
                           /\ ROB'[i].needs[k][2] < ROB'[i].instr_id
                           /\ ~RenamedSource(i, k)' => ROB'[i].source_registers[k] = ROB'[i].needs[k][1]
                      /\ \A k \in DOMAIN ROB'[i].writes :
                           ~RenamedDestination(i, k)' => ROB'[i].destination_registers[k] = ROB'[i].writes[k]
    BY DEF Known
  <2>1. CASE i \in DOMAIN ROB
    BY <1>4, <1>7, <2>1 DEF History, Known
  <2>2. CASE i = n
    <3>1. /\ ROB'[i].needs = Needs(o) /\ ROB'[i].instr_id = next_id
          /\ ROB'[i].source_registers = o.source_registers
          /\ ROB'[i].destination_registers = o.destination_registers /\ ROB'[i].writes = o.destination_registers
      BY <1>3, <1>4, <2>2
    <3> QED BY <1>10, <1>12, <3>1
  <2> QED BY <1>4, <2>1, <2>2
<1>14. ASSUME NEW i, i \in DOMAIN ROB \/ i = n, NEW r \in ArchRegister, NEW w, WroteLast(i, r, w)
       PROVE  WroteLast(i, r, w)'
  <2>1. \A j : j \in DOMAIN ROB' /\ j < i <=> j \in DOMAIN ROB /\ j < i
    BY <1>4, <1>5, <1>6, <1>14
  <2>2. \A j \in DOMAIN ROB : j < i => SameProgram(j, j)
    BY <1>8
  <2>3. Committed(r, w) /\ (\A j \in DOMAIN ROB : j < i => ~Writes(j, r)) => Committed(r, w)'
    BY <1>9
  <2> QED BY <1>14, <2>1, <2>2, <2>3, WroteCarried
<1>15. Traced'
  <2>1. ASSUME NEW i \in DOMAIN ROB', NEW k \in DOMAIN ROB'[i].needs, NEW r, NEW w,
               ROB'[i].status # "completed", r = ROB'[i].needs[k][1], w = ROB'[i].needs[k][2]
        PROVE  WroteLast(i, r, w)'
    <3>1. CASE i \in DOMAIN ROB
      <4>1. /\ k \in DOMAIN ROB[i].needs /\ ROB[i].status # "completed"
            /\ r = ROB[i].needs[k][1] /\ w = ROB[i].needs[k][2]
        BY <1>4, <2>1, <3>1
      <4>2. r \in ArchRegister
        BY <3>1, <4>1, NeedsType DEF Inv
      <4>3. WroteLast(i, r, w)
        BY <3>1, <4>1 DEF History, Traced
      <4> QED BY <1>14, <3>1, <4>2, <4>3
    <3>2. CASE i = n
      <4>1. r \in ArchRegister /\ w = last_writer[r]
        BY <1>3, <1>4, <1>12, <2>1, <3>2
      <4>2. i = Len(ROB) + 1
        BY <1>0, <3>2
      <4>3. WroteLast(i, r, w)
        BY <4>1, <4>2 DEF History, Traced
      <4> QED BY <1>14, <3>2, <4>1, <4>3
    <3> QED BY <1>4, <3>1, <3>2
  <2>2. ASSUME NEW r \in ArchRegister, NEW i, NEW w, i = Len(ROB') + 1, w = last_writer'[r]
        PROVE  WroteLast(i, r, w)'
    <3>1. i = n + 1 /\ i \in Nat
      BY <1>4, <1>6, <2>2
    <3>2. Writes(n, r)' <=> r \in Elements(o.destination_registers)
      BY <1>3, <1>4 DEF Writes, Elements
    <3>3. CASE r \in Elements(o.destination_registers)
      <4>1. w = next_id /\ n \in DOMAIN ROB' /\ n < i /\ ROB'[n].instr_id = w
        BY <1>1, <1>3, <1>4, <1>6, <2>2, <3>1, <3>3
      <4>2. \A l \in DOMAIN ROB' : ~(n < l /\ l < i)
        BY <1>4, <1>5, <1>6, <3>1
      <4>3. \E j \in DOMAIN ROB' :
              /\ j < i /\ ROB'[j].instr_id = w /\ Writes(j, r)'
              /\ \A l \in DOMAIN ROB' : j < l /\ l < i => ~Writes(l, r)'
        BY <3>2, <3>3, <4>1, <4>2
      <4> QED BY <4>3 DEF WroteLast
    <3>4. CASE r \notin Elements(o.destination_registers)
      <4>1. w = last_writer[r]
        BY <1>1, <2>2, <3>4
      <4>2. PICK m : m = n
        OBVIOUS
      <4>3. WroteLast(m, r, w)
        BY <1>0, <4>1, <4>2 DEF History, Traced
      <4>4. WroteLast(m, r, w)'
        BY <1>14, <4>2, <4>3
      <4>5. /\ \A l \in DOMAIN ROB' : l < i /\ Writes(l, r)' => l < m
            /\ \A l : l < m /\ l \in DOMAIN ROB' => l < i
        <5>1. \A l \in DOMAIN ROB' : l \in Nat /\ (l < m \/ l = n)
          BY <1>4, <1>5, <1>6, <4>2
        <5>2. \A l \in DOMAIN ROB' : Writes(l, r)' => l # n
          BY <3>2, <3>4
        <5>3. m \in Nat /\ i = m + 1
          BY <1>6, <3>1, <4>2
        <5> QED BY <5>1, <5>2, <5>3
      <4> QED BY <4>4, <4>5 DEF WroteLast
    <3> QED BY <3>3, <3>4
  <2> QED BY <2>1, <2>2 DEF Traced
<1>16. \A j, k, r : Renames(j, k, r)' <=> Renames(j, k, r)
  BY <1>7 DEF Renames
<1>17. \A j, k, r : Renames(j, k, r) => /\ ROB'[j].destination_registers[k] = ROB[j].destination_registers[k]
                                        /\ j \in DOMAIN ROB /\ j < n /\ j < n + 1
  <2>1. \A j \in DOMAIN ROB : j < n + 1
    BY <1>5, <1>6
  <2> QED BY <1>5, <1>7, <2>1 DEF Renames
<1>18. Named'
  <2>1. ASSUME NEW i \in DOMAIN ROB', NEW k \in DOMAIN ROB'[i].source_registers, NEW r, NEW p,
               ROB'[i].status # "completed", RenamedSource(i, k)',
               r = ROB'[i].needs[k][1], p = ROB'[i].source_registers[k]
        PROVE  p \in PhysicalRegister /\ NamedLast(i, r, p)'
    <3>1. i \in DOMAIN ROB
      BY <1>4, <1>7, <2>1
    <3>2. /\ k \in DOMAIN ROB[i].source_registers /\ ROB[i].status # "completed" /\ RenamedSource(i, k)
          /\ r = ROB[i].needs[k][1] /\ p = ROB[i].source_registers[k]
      BY <1>4, <1>7, <2>1, <3>1
    <3>3. p \in PhysicalRegister /\ NamedLast(i, r, p)
      BY <3>1, <3>2 DEF History, Named
    <3>4. \A j, l : Renames(j, l, r)' /\ j < i <=> Renames(j, l, r) /\ j < i
      BY <1>16
    <3>5. \A j, l : Renames(j, l, r) /\ j < i =>
                      ROB'[j].destination_registers[l] = ROB[j].destination_registers[l]
      BY <1>17
    <3>6. backend_RAT'[r] = backend_RAT[r]
      BY <1>1
    <3> QED BY <3>3, <3>4, <3>5, <3>6, NamedCarried
  <2>2. ASSUME NEW r \in ArchRegister, NEW i, NEW p, i = Len(ROB') + 1, p = frontend_RAT'[r]
        PROVE  NamedLast(i, r, p)'
    <3>1. PICK m : m = n
      OBVIOUS
    <3>2. NamedLast(m, r, p)
      BY <1>0, <1>1, <2>2, <3>1 DEF History, Named
    <3>3. \A j, l : Renames(j, l, r)' /\ j < i <=> Renames(j, l, r) /\ j < m
      BY <1>4, <1>16, <1>17, <2>2, <3>1
    <3>4. \A j, l : Renames(j, l, r) /\ j < m =>
                      ROB'[j].destination_registers[l] = ROB[j].destination_registers[l]
      BY <1>17
    <3>5. backend_RAT'[r] = backend_RAT[r]
      BY <1>1
    <3> QED BY <3>2, <3>3, <3>4, <3>5, NamedCarried
  <2> QED BY <2>1, <2>2 DEF Named
<1>19. Filed'
  BY <1>1, <1>7 DEF History, Filed
<1>20. Retiring'
  BY <1>1 DEF Retiring
<1>21. Settled'
  <2> SUFFICES ASSUME NEW r \in ArchRegister, NEW w, backend_RAT[r] # Unmapped, Committed(r, w)
               PROVE  w < next_id' /\ \A j \in DOMAIN ROB' : ROB'[j].instr_id = w => ROB'[j].status = "completed"
    BY <1>1, <1>9 DEF Settled
  <2>1. w < next_id /\ \A j \in DOMAIN ROB : ROB[j].instr_id = w => ROB[j].status = "completed"
    BY DEF History, Settled
  <2>2. w \in Nat
    <3>1. physical_register_file[backend_RAT[r]].producing_instruction_id \in Nat
      BY DEF Inv, TypeOK, PhysicalEntry
    <3> QED BY <3>1 DEF Committed
  <2> QED BY <1>1, <1>2, <1>3, <1>4, <2>1, <2>2
<1> QED BY <1>11, <1>13, <1>15, <1>18, <1>19, <1>20, <1>21 DEF History

\* The front instruction leaves: what it wrote is committed, and the others move up.
LEMMA DepartureKeepsHistory ==
  ASSUME Inv, History, RetireFront
  PROVE  History'
<1>1. /\ stage = "retire" /\ stage' = "retire" /\ op' = 1
      /\ ROB # <<>> /\ ROB' = Tail(ROB) /\ op \notin DOMAIN Head(ROB).destination_registers
      /\ UNCHANGED <<frontend_RAT, backend_RAT, physical_register_file, at, next_id, last_writer>>
  BY DEF RetireFront, CanRetire, allocator
<1>2. ROB \in Seq(RobEntry) /\ Len(ROB) \in Nat /\ op \in Nat \ {0} /\ DOMAIN ROB = 1..Len(ROB)
  BY Entries DEF Inv, TypeOK
<1>3. /\ 1 \in DOMAIN ROB /\ Head(ROB) = ROB[1] /\ Len(ROB') = Len(ROB) - 1
      /\ DOMAIN ROB' = {j \in Nat \ {0} : j + 1 \in DOMAIN ROB}
      /\ \A j \in DOMAIN ROB' : ROB'[j] = ROB[j + 1]
  BY <1>1, <1>2, FrontTaken
<1>4. \A j \in DOMAIN ROB : j \in Nat \ {0} /\ (j # 1 => j - 1 \in Nat \ {0} /\ j - 1 \in DOMAIN ROB')
  BY <1>2, <1>3
<1>5. \A k \in DOMAIN ROB[1].destination_registers : k < op
  <2>1. /\ DOMAIN ROB[1].destination_registers = 1..Len(ROB[1].destination_registers)
        /\ Len(ROB[1].destination_registers) \in Nat
    BY <1>3, Entries DEF Inv
  <2> QED BY <1>1, <1>2, <1>3, <2>1
<1>6. \A k : ~InFlight(1, k)
  BY <1>1, <1>5 DEF InFlight
<1>7. \A j \in DOMAIN ROB' : \A k :
        /\ InFlight(j, k)' <=> InFlight(j + 1, k)
        /\ RenamedSource(j, k)' <=> RenamedSource(j + 1, k)
        /\ RenamedDestination(j, k)' <=> RenamedDestination(j + 1, k)
  <2> SUFFICES ASSUME NEW j \in DOMAIN ROB', NEW k
               PROVE  /\ InFlight(j, k)' <=> InFlight(j + 1, k)
                      /\ RenamedSource(j, k)' <=> RenamedSource(j + 1, k)
                      /\ RenamedDestination(j, k)' <=> RenamedDestination(j + 1, k)
    OBVIOUS
  <2>1. j \in Nat \ {0} /\ j + 1 \in DOMAIN ROB /\ ROB'[j] = ROB[j + 1] /\ j + 1 # 1
    BY <1>3
  <2>2. \A l \in DOMAIN ROB'[j].destination_registers : l \in Nat /\ ~(l < 1)
    BY <2>1, Entries DEF Inv
  <2> QED BY <1>1, <2>1, <2>2 DEF InFlight, RenamedSource, RenamedDestination, IsScheduled
<1>8. \A j \in DOMAIN ROB' : \A r : Writes(j, r)' <=> Writes(j + 1, r)
  BY <1>3 DEF Writes
<1>9. \A r, w : Committed(r, w)' <=> Committed(r, w)
  BY <1>1 DEF Committed
<1>10. \A r : Writes(1, r) => Committed(r, ROB[1].instr_id)
  BY <1>1, <1>3, <1>5 DEF History, Known, Retiring, Writes
<1>11. ASSUME NEW i \in Nat \ {0}, NEW m, m = i + 1, NEW r, NEW w, WroteLast(m, r, w)
       PROVE  WroteLast(i, r, w)'
  <2>1. ASSUME Committed(r, w), \A j \in DOMAIN ROB : j # 1 /\ j < m => ~Writes(j, r)
        PROVE  WroteLast(i, r, w)'
    <3>1. \A j \in DOMAIN ROB' : j < i => j + 1 \in DOMAIN ROB /\ j + 1 # 1 /\ j + 1 < m
      BY <1>3, <1>11
    <3> QED BY <1>8, <1>9, <2>1, <3>1 DEF WroteLast
  <2>2. ASSUME NEW j \in DOMAIN ROB, j < m, ROB[j].instr_id = w, Writes(j, r),
               \A l \in DOMAIN ROB : j < l /\ l < m => ~Writes(l, r)
        PROVE  WroteLast(i, r, w)'
    <3>1. CASE j = 1
      <4>1. \A l \in DOMAIN ROB : l # 1 => j < l
        BY <1>4, <3>1
      <4> QED BY <1>10, <2>1, <2>2, <3>1, <4>1
    <3>2. CASE j # 1
      <4>1. PICK n : n = j - 1
        OBVIOUS
      <4>2. n \in DOMAIN ROB' /\ n \in Nat /\ n + 1 = j /\ n < i
        BY <1>4, <1>11, <2>2, <3>2, <4>1
      <4>3. ROB'[n].instr_id = w /\ Writes(n, r)'
        BY <1>3, <1>8, <2>2, <4>2
      <4>4. \A l \in DOMAIN ROB' : n < l /\ l < i => l + 1 \in DOMAIN ROB /\ j < l + 1 /\ l + 1 < m
        BY <1>3, <1>11, <4>2
      <4> QED BY <1>8, <2>2, <4>2, <4>3, <4>4 DEF WroteLast
    <3> QED BY <3>1, <3>2
  <2> QED BY <1>11, <2>1, <2>2 DEF WroteLast
<1>12. \A j \in DOMAIN ROB' : \A k, r :
         /\ Renames(j, k, r)' <=> Renames(j + 1, k, r)
         /\ ROB'[j].destination_registers[k] = ROB[j + 1].destination_registers[k]
  BY <1>3, <1>7 DEF Renames
<1>13. /\ \A j, k, r : Renames(j, k, r)' => j \in DOMAIN ROB'
       /\ \A j, k, r : Renames(j, k, r) => j \in DOMAIN ROB /\ j # 1
  BY <1>6 DEF Renames, InFlight
<1>14. ASSUME NEW i \in Nat \ {0}, NEW m, m = i + 1, NEW r, NEW p, NamedLast(m, r, p)
       PROVE  NamedLast(i, r, p)'
  <2>1. \A j, k : Renames(j, k, r)' /\ j < i => Renames(j + 1, k, r) /\ j + 1 < m /\ j \in Nat
    BY <1>3, <1>12, <1>13, <1>14
  <2>2. CASE p = backend_RAT[r] /\ \A j, k : ~(Renames(j, k, r) /\ j < m)
    BY <1>1, <2>1, <2>2 DEF NamedLast
  <2>3. ASSUME NEW j, NEW k, Renames(j, k, r), j < m, ROB[j].destination_registers[k] = p,
               \A l, n : Renames(l, n, r) /\ l < m => l < j \/ (l = j /\ n <= k)
        PROVE  NamedLast(i, r, p)'
    <3>1. PICK h : h = j - 1
      OBVIOUS
    <3>2. h \in DOMAIN ROB' /\ h \in Nat /\ h + 1 = j /\ h < i
      BY <1>4, <1>13, <1>14, <2>3, <3>1
    <3>3. Renames(h, k, r)' /\ ROB'[h].destination_registers[k] = p
      BY <1>12, <2>3, <3>2
    <3>4. ASSUME NEW l, NEW n, Renames(l, n, r)', l < i
          PROVE  l < h \/ (l = h /\ n <= k)
      <4>1. Renames(l + 1, n, r) /\ l + 1 < m /\ l \in Nat
        BY <2>1, <3>4
      <4>2. l + 1 < j \/ (l + 1 = j /\ n <= k)
        BY <2>3, <4>1
      <4> QED BY <3>2, <4>1, <4>2
    <3> QED BY <3>2, <3>3, <3>4 DEF NamedLast
  <2> QED BY <1>14, <2>2, <2>3 DEF NamedLast
<1>15. InOrder'
  <2>1. ASSUME NEW i \in DOMAIN ROB', NEW j \in DOMAIN ROB', i < j
        PROVE  /\ ROB'[i].instr_id < ROB'[j].instr_id
               /\ ROB'[i].status = "dispatched" => ROB'[j].status = "dispatched"
               /\ IsScheduled(ROB'[j]) => IsScheduled(ROB'[i])
    <3>1. i + 1 \in DOMAIN ROB /\ j + 1 \in DOMAIN ROB /\ i + 1 < j + 1
      BY <1>3, <2>1
    <3> QED BY <1>3, <3>1 DEF History, InOrder
  <2>2. \A i \in DOMAIN ROB' : ROB'[i].instr_id < next_id'
    BY <1>1, <1>3 DEF History, InOrder
  <2>3. \A i, j \in DOMAIN ROB' : i < j =>
          /\ ROB'[i].instr_id < ROB'[j].instr_id
          /\ ROB'[i].status = "dispatched" => ROB'[j].status = "dispatched"
          /\ IsScheduled(ROB[j])' => IsScheduled(ROB[i])'
    BY <2>1 DEF IsScheduled
  <2> QED BY <1>1, <2>2, <2>3 DEF InOrder
<1>16. Known'
  BY <1>3, <1>7 DEF History, Known
<1>17. Len(ROB') + 1 = Len(ROB) /\ \A i : i = Len(ROB') + 1 => i \in Nat \ {0} /\ i + 1 = Len(ROB) + 1
  BY <1>2, <1>3
<1>18. Traced'
  <2>1. ASSUME NEW i \in DOMAIN ROB', NEW k \in DOMAIN ROB'[i].needs, NEW r, NEW w,
               ROB'[i].status # "completed", r = ROB'[i].needs[k][1], w = ROB'[i].needs[k][2]
        PROVE  WroteLast(i, r, w)'
    <3>1. PICK m : m = i + 1
      OBVIOUS
    <3>2. m \in DOMAIN ROB /\ ROB'[i] = ROB[m] /\ i \in Nat \ {0}
      BY <1>3, <3>1
    <3>3. WroteLast(m, r, w)
      BY <2>1, <3>2 DEF History, Traced
    <3> QED BY <1>11, <3>1, <3>2, <3>3
  <2>2. ASSUME NEW r \in ArchRegister, NEW i, NEW w, i = Len(ROB') + 1, w = last_writer'[r]
        PROVE  WroteLast(i, r, w)'
    <3>1. PICK m : m = i + 1
      OBVIOUS
    <3>2. WroteLast(m, r, w)
      BY <1>1, <1>17, <2>2, <3>1 DEF History, Traced
    <3> QED BY <1>11, <1>17, <2>2, <3>1, <3>2
  <2> QED BY <2>1, <2>2 DEF Traced
<1>19. Named'
  <2>1. ASSUME NEW i \in DOMAIN ROB', NEW k \in DOMAIN ROB'[i].source_registers, NEW r, NEW p,
               ROB'[i].status # "completed", RenamedSource(i, k)',
               r = ROB'[i].needs[k][1], p = ROB'[i].source_registers[k]
        PROVE  p \in PhysicalRegister /\ NamedLast(i, r, p)'
    <3>1. PICK m : m = i + 1
      OBVIOUS
    <3>2. m \in DOMAIN ROB /\ ROB'[i] = ROB[m] /\ i \in Nat \ {0} /\ RenamedSource(m, k)
      BY <1>3, <1>7, <2>1, <3>1
    <3>3. p \in PhysicalRegister /\ NamedLast(m, r, p)
      BY <2>1, <3>2 DEF History, Named
    <3> QED BY <1>14, <3>1, <3>2, <3>3
  <2>2. ASSUME NEW r \in ArchRegister, NEW i, NEW p, i = Len(ROB') + 1, p = frontend_RAT'[r]
        PROVE  NamedLast(i, r, p)'
    <3>1. PICK m : m = i + 1
      OBVIOUS
    <3>2. NamedLast(m, r, p)
      BY <1>1, <1>17, <2>2, <3>1 DEF History, Named
    <3> QED BY <1>14, <1>17, <2>2, <3>1, <3>2
  <2> QED BY <2>1, <2>2 DEF Named
<1>20. Filed'
  <2>1. ASSUME NEW i, NEW k, NEW p, InFlight(i, k)', p = ROB'[i].destination_registers[k]
        PROVE  /\ physical_register_file'[p].arch_reg_index = ROB'[i].writes[k]
               /\ physical_register_file'[p].producing_instruction_id = ROB'[i].instr_id
               /\ physical_register_file'[p].busy
               /\ physical_register_file'[p].valid => ROB'[i].status = "completed"
    <3>1. i \in DOMAIN ROB' /\ InFlight(i + 1, k) /\ ROB'[i] = ROB[i + 1]
      BY <1>3, <1>7, <2>1 DEF InFlight
    <3> QED BY <1>1, <2>1, <3>1 DEF History, Filed
  <2> QED BY <1>1, <2>1 DEF History, Filed
<1>21. Retiring'
  <2> SUFFICES ASSUME 1 \in DOMAIN ROB', NEW k \in DOMAIN ROB'[1].writes
               PROVE  ~(k < op')
    BY DEF Retiring
  <2>1. k \in DOMAIN ROB[2].destination_registers /\ 2 \in DOMAIN ROB
    BY <1>3 DEF History, Known
  <2> QED BY <1>1, <2>1, Entries DEF Inv
<1>22. Settled'
  BY <1>1, <1>3, <1>9 DEF History, Settled
<1> QED BY <1>15, <1>16, <1>18, <1>19, <1>20, <1>21, <1>22 DEF History

\* A retiring write becomes the committed one of its register; it is older than
\* every reader that has not completed, so no name and no writer changes for them.
LEMMA RetirementKeepsHistory ==
  ASSUME Inv, History, RetireDestination
  PROVE  History'
<1>1. PICK a, p, o, w1 : /\ a = ROB[1].writes[op] /\ p = ROB[1].destination_registers[op]
                         /\ o = backend_RAT[a] /\ w1 = ROB[1].instr_id
  OBVIOUS
<1>2. /\ 1 \in DOMAIN ROB /\ stage = "retire" /\ ROB[1].status = "completed"
      /\ op \in DOMAIN ROB[1].destination_registers /\ op \in DOMAIN ROB[1].writes
      /\ op \in Nat \ {0} /\ op' = op + 1
      /\ RetireDest(p)
      /\ UNCHANGED <<ROB, stage, bw, at, next_id, last_writer>>
  <2>1. ROB \in Seq(RobEntry) /\ ROB # <<>> /\ op \in Nat \ {0}
    BY DEF RetireDestination, CanRetire, Inv, TypeOK
  <2>2. 1 \in DOMAIN ROB /\ Head(ROB) = ROB[1]
    BY <2>1, FrontTaken
  <2> QED BY <1>1, <2>1, <2>2 DEF RetireDestination, CanRetire, History, Known
<1>3. InFlight(1, op)
  BY <1>2 DEF InFlight, IsScheduled
<1>4. /\ p \in PhysicalRegister /\ a \in ArchRegister
      /\ physical_register_file[p].arch_reg_index = a
      /\ physical_register_file[p].producing_instruction_id = w1
      /\ physical_register_file[p].busy
  <2>1. p \in PhysicalRegister
    BY <1>1, <1>2, <1>3 DEF Inv, Names, Assigned
  <2>2. a \in ArchRegister
    BY <1>1, <1>2, NeedsType DEF Inv
  <2> QED BY <1>1, <1>3, <2>1, <2>2 DEF History, Filed
<1>5. /\ backend_RAT' = [backend_RAT EXCEPT ![a] = p]
      /\ frontend_RAT' = frontend_RAT
      /\ \/ physical_register_file' = [physical_register_file EXCEPT ![o] = Entry(NoArchRegister, 0, FALSE, FALSE)]
         \/ physical_register_file' = physical_register_file
  BY <1>1, <1>2, <1>4 DEF RetireDest, FreeRegister
<1>6. /\ backend_RAT'[a] = p
      /\ \A r \in ArchRegister : r # a => backend_RAT'[r] = backend_RAT[r]
      /\ \A q \in PhysicalRegister : q # o => physical_register_file'[q] = physical_register_file[q]
  BY <1>4, <1>5 DEF Inv, TypeOK
<1>7. \A q \in PhysicalRegister : q # Unmapped
  BY DEF PhysicalRegister, Unmapped
<1>8. \A r \in ArchRegister : backend_RAT[r] # Unmapped => backend_RAT[r] \in PhysicalRegister
  BY DEF Inv, TypeOK
<1>9. \A j, k, q : InFlight(j, k) /\ q = ROB[j].destination_registers[k] => q \in PhysicalRegister /\ q # o
  <2> SUFFICES ASSUME NEW j, NEW k, NEW q, InFlight(j, k), q = ROB[j].destination_registers[k]
               PROVE  q \in PhysicalRegister /\ q # o
    OBVIOUS
  <2>1. j \in DOMAIN ROB /\ k \in DOMAIN ROB[j].destination_registers
    BY DEF InFlight
  <2>2. q \in PhysicalRegister /\ InFlightName(q)
    BY <2>1 DEF Inv, Names, Assigned, InFlightName
  <2>3. ~CommittedName(q)
    BY <2>2 DEF Inv, RegisterPartition
  <2> QED BY <1>1, <1>4, <2>2, <2>3 DEF CommittedName
<1>10. p # o
  BY <1>1, <1>3, <1>9
<1>11. \A r \in ArchRegister : r # a /\ backend_RAT[r] # Unmapped => backend_RAT[r] # o
  BY <1>1, <1>4 DEF Inv, RegisterPartition
<1>12. \A j, k : InFlight(j, k)' <=> InFlight(j, k) /\ ~(j = 1 /\ k = op)
  <2>1. \A j \in DOMAIN ROB : \A k \in DOMAIN ROB[j].destination_registers : k \in Nat
    BY Entries DEF Inv
  <2> QED BY <1>2, <2>1 DEF InFlight, IsScheduled
<1>13. \A j, k : /\ RenamedSource(j, k)' <=> RenamedSource(j, k)
                 /\ RenamedDestination(j, k)' <=> RenamedDestination(j, k)
  BY <1>2 DEF RenamedSource, RenamedDestination, IsScheduled
<1>14. /\ \A w : Committed(a, w)' <=> w = w1
       /\ \A r \in ArchRegister : \A w : r # a => (Committed(r, w)' <=> Committed(r, w))
  <2>1. \A w : Committed(a, w)' <=> w = w1
    BY <1>4, <1>6, <1>7, <1>10 DEF Committed
  <2>2. ASSUME NEW r \in ArchRegister, NEW w, r # a
        PROVE  Committed(r, w)' <=> Committed(r, w)
    <3>1. backend_RAT'[r] = backend_RAT[r]
      BY <1>6, <2>2
    <3>2. backend_RAT[r] # Unmapped =>
            physical_register_file'[backend_RAT[r]] = physical_register_file[backend_RAT[r]]
      BY <1>6, <1>8, <1>11, <2>2
    <3> QED BY <3>1, <3>2 DEF Committed
  <2> QED BY <2>1, <2>2
<1>15. Writes(1, a)
  BY <1>1, <1>2 DEF Writes
<1>16. \A i \in DOMAIN ROB : ROB[i].status # "completed" => 1 < i
  BY <1>2, Entries DEF Inv
<1>17. 1 < Len(ROB) + 1
  BY <1>2, Entries DEF Inv
<1>18. ASSUME NEW i, 1 < i, NEW r \in ArchRegister, NEW w, WroteLast(i, r, w)
       PROVE  WroteLast(i, r, w)'
  <2>1. \A j : j \in DOMAIN ROB' /\ j < i <=> j \in DOMAIN ROB /\ j < i
    BY <1>2
  <2>2. \A j \in DOMAIN ROB : j < i => SameProgram(j, j)
    BY <1>2 DEF SameProgram
  <2>3. Committed(r, w) /\ (\A j \in DOMAIN ROB : j < i => ~Writes(j, r)) => Committed(r, w)'
    BY <1>2, <1>14, <1>15, <1>18
  <2> QED BY <1>18, <2>1, <2>2, <2>3, WroteCarried
<1>19. \A j, k, r : Renames(j, k, r)' <=> Renames(j, k, r) /\ ~(j = 1 /\ k = op)
  BY <1>2, <1>12 DEF Renames
<1>20. Renames(1, op, a) /\ \A k, r : Renames(1, k, r) => k >= op /\ (k = op => r = a)
  <2>1. \A k : InFlight(1, k) => k \in Nat /\ ~(k < op)
    BY <1>2, Entries DEF InFlight, Inv
  <2> QED BY <1>1, <1>2, <1>3, <2>1 DEF Renames
<1>21. ASSUME NEW i, 1 < i, NEW r \in ArchRegister, NEW q, NamedLast(i, r, q)
       PROVE  NamedLast(i, r, q)'
  <2>1. CASE r # a
    <3>1. \A j, k : Renames(j, k, r)' /\ j < i <=> Renames(j, k, r) /\ j < i
      BY <1>19, <1>20, <2>1
    <3>2. \A j, k : Renames(j, k, r) /\ j < i =>
                      ROB'[j].destination_registers[k] = ROB[j].destination_registers[k]
      BY <1>2
    <3>3. backend_RAT'[r] = backend_RAT[r]
      BY <1>6, <2>1
    <3> QED BY <1>21, <3>1, <3>2, <3>3, NamedCarried
  <2>2. CASE r = a
    <3>1. PICK j, k : /\ Renames(j, k, r) /\ j < i /\ ROB[j].destination_registers[k] = q
                      /\ \A l, m : Renames(l, m, r) /\ l < i => l < j \/ (l = j /\ m <= k)
      BY <1>20, <1>21, <2>2 DEF NamedLast
    <3>2. CASE j = 1 /\ k = op
      <4>1. q = backend_RAT'[r]
        BY <1>1, <1>6, <2>2, <3>1, <3>2
      <4>2. ASSUME NEW l, NEW m, Renames(l, m, r)', l < i
            PROVE  FALSE
        <5>0. Renames(l, m, r) /\ ~(l = 1 /\ m = op)
          BY <1>19, <4>2
        <5>1. Renames(l, m, r) /\ ~(l = 1 /\ m = op) /\ l \in Nat \ {0}
          BY <5>0, Entries DEF Renames, InFlight, Inv
        <5>2. l = 1 /\ m <= op
          BY <3>1, <3>2, <4>2, <5>1
        <5>3. m \in Nat /\ m >= op
          BY <1>2, <1>20, <5>1, <5>2, Entries DEF Renames, InFlight, Inv
        <5> QED BY <1>2, <5>1, <5>2, <5>3
      <4> QED BY <4>1, <4>2 DEF NamedLast
    <3>3. CASE ~(j = 1 /\ k = op)
      <4>1. Renames(j, k, r)' /\ ROB'[j].destination_registers[k] = q
        BY <1>2, <1>19, <3>1, <3>3
      <4>2. \A l, m : Renames(l, m, r)' /\ l < i => l < j \/ (l = j /\ m <= k)
        BY <1>19, <3>1
      <4> QED BY <3>1, <4>1, <4>2 DEF NamedLast
    <3> QED BY <3>2, <3>3
  <2> QED BY <2>1, <2>2
<1>22. InOrder'
  BY <1>2 DEF History, InOrder, IsScheduled
<1>23. Known'
  BY <1>2, <1>13 DEF History, Known
<1>24. Traced'
  <2>1. ASSUME NEW i \in DOMAIN ROB, NEW k \in DOMAIN ROB[i].needs, NEW r, NEW w,
               ROB[i].status # "completed", r = ROB[i].needs[k][1], w = ROB[i].needs[k][2]
        PROVE  WroteLast(i, r, w)'
    <3>1. WroteLast(i, r, w) /\ r \in ArchRegister
      BY <2>1, NeedsType DEF History, Traced, Inv
    <3> QED BY <1>16, <1>18, <2>1, <3>1
  <2>2. ASSUME NEW r \in ArchRegister, NEW i, NEW w, i = Len(ROB) + 1, w = last_writer[r]
        PROVE  WroteLast(i, r, w)'
    <3>1. WroteLast(i, r, w)
      BY <2>2 DEF History, Traced
    <3> QED BY <1>17, <1>18, <2>2, <3>1
  <2> QED BY <1>2, <2>1, <2>2 DEF Traced
<1>25. Named'
  <2>1. ASSUME NEW i \in DOMAIN ROB, NEW k \in DOMAIN ROB[i].source_registers, NEW r, NEW q,
               ROB[i].status # "completed", RenamedSource(i, k),
               r = ROB[i].needs[k][1], q = ROB[i].source_registers[k]
        PROVE  q \in PhysicalRegister /\ NamedLast(i, r, q)'
    <3>1. q \in PhysicalRegister /\ NamedLast(i, r, q)
      BY <2>1 DEF History, Named
    <3>2. r \in ArchRegister
      BY <2>1, NeedsType DEF History, Known, Inv
    <3> QED BY <1>16, <1>21, <2>1, <3>1, <3>2
  <2>2. ASSUME NEW r \in ArchRegister, NEW i, NEW q, i = Len(ROB) + 1, q = frontend_RAT[r]
        PROVE  NamedLast(i, r, q)'
    <3>1. NamedLast(i, r, q)
      BY <2>2 DEF History, Named
    <3> QED BY <1>17, <1>21, <2>2, <3>1
  <2> QED BY <1>2, <1>5, <1>13, <2>1, <2>2 DEF Named
<1>26. Filed'
  <2>1. ASSUME NEW i, NEW k, NEW q, InFlight(i, k)', q = ROB[i].destination_registers[k]
        PROVE  /\ physical_register_file'[q].arch_reg_index = ROB[i].writes[k]
               /\ physical_register_file'[q].producing_instruction_id = ROB[i].instr_id
               /\ physical_register_file'[q].busy
               /\ physical_register_file'[q].valid => ROB[i].status = "completed"
    <3>1. InFlight(i, k)
      BY <1>12, <2>1
    <3>2. physical_register_file'[q] = physical_register_file[q]
      BY <1>6, <1>9, <2>1, <3>1
    <3> QED BY <2>1, <3>1, <3>2 DEF History, Filed
  <2>2. ASSUME NEW r \in ArchRegister, NEW q, q = backend_RAT'[r], q # Unmapped
        PROVE  physical_register_file'[q].arch_reg_index = r /\ physical_register_file'[q].busy
    <3>1. CASE r = a
      BY <1>4, <1>6, <1>10, <2>2, <3>1
    <3>2. CASE r # a
      BY <1>6, <1>8, <1>11, <2>2, <3>2 DEF History, Filed
    <3> QED BY <3>1, <3>2
  <2> QED BY <1>2, <2>1, <2>2 DEF Filed
<1>27. Retiring'
  <2> SUFFICES ASSUME NEW k \in DOMAIN ROB[1].writes, NEW r, NEW w, k < op + 1,
                      r = ROB[1].writes[k], w = ROB[1].instr_id
               PROVE  Committed(r, w)' /\ backend_RAT'[r] # Unmapped
    BY <1>2 DEF Retiring
  <2>1. r \in ArchRegister /\ k \in Nat /\ k \in DOMAIN ROB[1].destination_registers
    BY <1>2, NeedsType, Entries DEF Inv, History, Known
  <2>2. CASE r = a
    BY <1>1, <1>4, <1>6, <1>7, <1>14, <2>2
  <2>3. CASE r # a
    <3>1. k < op
      BY <1>1, <1>2, <2>1, <2>3
    <3>2. Committed(r, w) /\ backend_RAT[r] # Unmapped
      BY <1>2, <3>1 DEF History, Retiring
    <3> QED BY <1>6, <1>14, <2>1, <2>3, <3>2
  <2> QED BY <2>2, <2>3
<1>28. Settled'
  <2> SUFFICES ASSUME NEW r \in ArchRegister, NEW w, backend_RAT'[r] # Unmapped, Committed(r, w)'
               PROVE  w < next_id /\ \A j \in DOMAIN ROB : ROB[j].instr_id = w => ROB[j].status = "completed"
    BY <1>2 DEF Settled
  <2>1. CASE r = a
    <3>1. w = w1
      BY <1>14, <2>1
    <3>2. \A j \in DOMAIN ROB : ROB[j].instr_id = w1 => j = 1
      BY <1>1, <1>2, OneEntryEach DEF History, Inv
    <3> QED BY <1>1, <1>2, <3>1, <3>2 DEF History, InOrder
  <2>2. CASE r # a
    BY <1>6, <1>14, <2>2 DEF History, Settled
  <2> QED BY <2>1, <2>2
<1> QED BY <1>22, <1>23, <1>24, <1>25, <1>26, <1>27, <1>28 DEF History

-----------------------------------------------------------------------------
(* Steps that keep the history: renaming *)

\* While entry at is renamed, what has names is ahead of it, or is a part of it.
LEMMA OnlyAheadIsRenamed ==
  ASSUME Inv, InOrder, stage \in {"sources", "destinations"}
  PROVE  /\ \A j, k : InFlight(j, k) => j < at \/ (j = at /\ stage = "destinations" /\ k < op)
         /\ \A j, k : RenamedSource(j, k) => j < at \/ j = at
<1>1. at \in DOMAIN ROB /\ ROB[at].status = "ready" /\ at \in Nat
  BY Entries DEF Inv, Control
<1>2. \A j \in DOMAIN ROB : j \in Nat /\ (IsScheduled(ROB[j]) => j < at)
  <2> SUFFICES ASSUME NEW j \in DOMAIN ROB, IsScheduled(ROB[j]), ~(j < at) PROVE FALSE
    BY Entries DEF Inv
  <2>1. j \in Nat /\ j # at
    BY <1>1, Entries DEF IsScheduled, Inv
  <2>2. at < j
    BY <1>1, <2>1
  <2>3. IsScheduled(ROB[at])
    BY <1>1, <2>2 DEF InOrder
  <2> QED BY <1>1, <2>3 DEF IsScheduled
<1> QED BY <1>2 DEF InFlight, RenamedSource

\* A new destination is the youngest name of its register.
LEMMA DestinationKeepsHistory ==
  ASSUME Inv, History, RenameDestination
  PROVE  History'
<1>1. PICK reg, h, id : /\ reg = ROB[at].destination_registers[op] /\ h = Head(free_registers)
                        /\ id = ROB[at].instr_id
  OBVIOUS
<1>2. /\ TypeOK /\ stage = "destinations" /\ at \in DOMAIN ROB /\ ROB[at].status = "ready"
      /\ op \in DOMAIN ROB[at].destination_registers /\ op \in DOMAIN ROB[at].writes
      /\ RenameDest(reg, id)
      /\ ROB' = [ROB EXCEPT ![at].destination_registers[op] = h]
      /\ op' = op + 1 /\ op \in Nat \ {0} /\ at \in Nat
      /\ UNCHANGED <<stage, bw, at, next_id, last_writer>>
  BY <1>1 DEF RenameDestination, Inv, Control, TypeOK, History, Known
<1>3. reg = ROB[at].writes[op] /\ reg \in ArchRegister
  <2>1. ~RenamedDestination(at, op)
    BY <1>2 DEF RenamedDestination, IsScheduled
  <2> QED BY <1>1, <1>2, <2>1, NeedsType DEF History, Known
<1>4. /\ free_registers # <<>> /\ free_registers' = Tail(free_registers)
      /\ frontend_RAT' = [frontend_RAT EXCEPT ![reg] = h]
      /\ physical_register_file' = [physical_register_file EXCEPT ![h] = Entry(reg, id, FALSE, TRUE)]
      /\ backend_RAT' = backend_RAT
  BY <1>1, <1>2 DEF RenameDest
<1>5. h \in PhysicalRegister /\ ~CommittedName(h) /\ ~InFlightName(h)
  <2>1. NoFreeTwice
    BY DEF Inv, RegisterPartition, NoFreeTwice
  <2>2. h \in PhysicalRegister /\ FreeName(h)
    BY <1>1, <1>2, <1>4, <2>1, TakeFree
  <2> QED BY <2>2 DEF Inv, RegisterPartition
<1>6. /\ frontend_RAT'[reg] = h
      /\ \A r \in ArchRegister : r # reg => frontend_RAT'[r] = frontend_RAT[r]
      /\ \A r \in ArchRegister : backend_RAT[r] # h
      /\ \A q \in PhysicalRegister : q # h => physical_register_file'[q] = physical_register_file[q]
      /\ physical_register_file'[h] = Entry(reg, id, FALSE, TRUE)
  BY <1>2, <1>3, <1>4, <1>5 DEF TypeOK, CommittedName
<1>7. /\ DOMAIN ROB' = DOMAIN ROB /\ Len(ROB') = Len(ROB)
      /\ \A j \in DOMAIN ROB :
           /\ SameProgram(j, j)
           /\ ROB'[j].source_registers = ROB[j].source_registers
           /\ ROB'[j].status = ROB[j].status
           /\ DOMAIN ROB'[j].destination_registers = DOMAIN ROB[j].destination_registers
           /\ \A k \in DOMAIN ROB[j].destination_registers :
                ROB'[j].destination_registers[k] =
                  IF j = at /\ k = op THEN h ELSE ROB[j].destination_registers[k]
  <2>1. DOMAIN ROB' = DOMAIN ROB /\ Len(ROB') = Len(ROB)
    BY <1>2 DEF TypeOK
  <2>2. \A j \in DOMAIN ROB : j # at => ROB'[j] = ROB[j]
    BY <1>2
  <2>3. ROB'[at] = [ROB[at] EXCEPT !.destination_registers = [ROB[at].destination_registers EXCEPT ![op] = h]]
    BY <1>2
  <2>4. ROB[at] \in RobEntry
    BY <1>2, Entries
  <2>5. /\ ROB'[at].instr_id = ROB[at].instr_id /\ ROB'[at].needs = ROB[at].needs
        /\ ROB'[at].writes = ROB[at].writes /\ ROB'[at].status = ROB[at].status
        /\ ROB'[at].source_registers = ROB[at].source_registers
        /\ ROB'[at].destination_registers = [ROB[at].destination_registers EXCEPT ![op] = h]
    BY <2>3, <2>4 DEF RobEntry
  <2> QED BY <2>1, <2>2, <2>5 DEF SameProgram
<1>8. /\ ROB'[at].destination_registers[op] = h
       /\ ROB'[at].writes[op] = reg /\ ROB'[at].instr_id = id
  <2>1. at \in DOMAIN ROB /\ op \in DOMAIN ROB[at].destination_registers
    BY <1>2
  <2>2. SameProgram(at, at) /\ ROB'[at].destination_registers[op] = h
    BY <1>7, <2>1
  <2> QED BY <1>1, <1>3, <2>2 DEF SameProgram
<1>9. ASSUME NEW j, NEW k
      PROVE  /\ InFlight(j, k)' <=> InFlight(j, k) \/ (j = at /\ k = op)
             /\ j \in DOMAIN ROB /\ k \in DOMAIN ROB[j].source_registers =>
                  (RenamedSource(j, k)' <=> RenamedSource(j, k))
             /\ j \in DOMAIN ROB /\ k \in DOMAIN ROB[j].destination_registers /\ ~RenamedDestination(j, k)' =>
                  ~RenamedDestination(j, k) /\ ~(j = at /\ k = op)
  <2>1. \A n \in DOMAIN ROB : \A l \in DOMAIN ROB[n].destination_registers : l \in Nat
    BY Entries DEF Inv
  <2>2. /\ stage = "destinations" /\ stage' = "destinations" /\ at' = at /\ op' = op + 1 /\ op \in Nat
        /\ at \in DOMAIN ROB /\ op \in DOMAIN ROB[at].destination_registers
    BY <1>2
  <2>3. \A n \in DOMAIN ROB : IsScheduled(ROB[n])' <=> IsScheduled(ROB[n])
    BY <1>7 DEF IsScheduled
  <2>4. InFlight(j, k)' <=> InFlight(j, k) \/ (j = at /\ k = op)
    BY <1>7, <2>1, <2>2, <2>3 DEF InFlight
  <2>5. j \in DOMAIN ROB /\ k \in DOMAIN ROB[j].source_registers => (RenamedSource(j, k)' <=> RenamedSource(j, k))
    BY <1>7, <2>2, <2>3 DEF RenamedSource
  <2>6. j \in DOMAIN ROB /\ k \in DOMAIN ROB[j].destination_registers /\ ~RenamedDestination(j, k)' =>
          ~RenamedDestination(j, k) /\ ~(j = at /\ k = op)
    BY <2>1, <2>2, <2>3 DEF RenamedDestination
  <2> QED BY <2>4, <2>5, <2>6
<1>10. \A j, k : InFlight(j, k) =>
        /\ ROB[j].destination_registers[k] # h /\ ROB[j].destination_registers[k] \in PhysicalRegister
        /\ ROB'[j].destination_registers[k] = ROB[j].destination_registers[k]
        /\ j \in DOMAIN ROB /\ k \in DOMAIN ROB[j].destination_registers /\ k \in Nat /\ ~(j = at /\ k = op)
  <2> SUFFICES ASSUME NEW j, NEW k, InFlight(j, k)
               PROVE  /\ ROB[j].destination_registers[k] # h
                      /\ ROB[j].destination_registers[k] \in PhysicalRegister
                      /\ ROB'[j].destination_registers[k] = ROB[j].destination_registers[k]
                      /\ j \in DOMAIN ROB /\ k \in DOMAIN ROB[j].destination_registers
                      /\ k \in Nat /\ ~(j = at /\ k = op)
    OBVIOUS
  <2>1. j \in DOMAIN ROB /\ k \in DOMAIN ROB[j].destination_registers
    BY DEF InFlight
  <2>2. ROB[j].destination_registers[k] \in PhysicalRegister
    BY <2>1 DEF Inv, Names, Assigned
  <2>3. ROB[j].destination_registers[k] # h
    BY <1>5, <2>1 DEF InFlightName
  <2>4. k \in Nat
    BY <2>1, Entries DEF Inv
  <2>5. ~(j = at /\ k = op)
    BY <1>2 DEF InFlight, IsScheduled
  <2>6. ROB'[j].destination_registers[k] = ROB[j].destination_registers[k]
    BY <1>7, <2>1, <2>5
  <2> QED BY <2>1, <2>2, <2>3, <2>4, <2>5, <2>6
<1>11. \A r \in ArchRegister : \A w : Committed(r, w)' <=> Committed(r, w)
  <2>1. \A r \in ArchRegister : backend_RAT[r] # Unmapped =>
          physical_register_file'[backend_RAT[r]] = physical_register_file[backend_RAT[r]]
    BY <1>2, <1>6 DEF TypeOK
  <2> QED BY <1>4, <2>1 DEF Committed
<1>12. ASSUME NEW i, NEW r \in ArchRegister, NEW w, WroteLast(i, r, w)
       PROVE  WroteLast(i, r, w)'
  BY <1>7, <1>11, <1>12, WroteCarried
<1>13. \A j, k, r : Renames(j, k, r)' <=> Renames(j, k, r) \/ (j = at /\ k = op /\ r = reg)
  <2>1. \A j, k : InFlight(j, k) => j \in DOMAIN ROB
    BY DEF InFlight
  <2>2. \A j \in DOMAIN ROB : ROB'[j].writes = ROB[j].writes
    BY <1>7 DEF SameProgram
  <2>3. at \in DOMAIN ROB
    BY <1>2
  <2> QED BY <1>3, <1>9, <2>1, <2>2, <2>3 DEF Renames
<1>14. \A j, k, r : Renames(j, k, r) => ROB'[j].destination_registers[k] = ROB[j].destination_registers[k]
  BY <1>10 DEF Renames
<1>15. /\ \A j, k : InFlight(j, k) => j < at \/ (j = at /\ k < op)
       /\ \A j, k : RenamedSource(j, k) => j < at \/ j = at
  BY <1>2, OnlyAheadIsRenamed DEF History
<1>16. InOrder'
  <2>1. /\ DOMAIN ROB' = DOMAIN ROB /\ UNCHANGED <<stage, at, next_id>>
        /\ \A j \in DOMAIN ROB : /\ ROB'[j].instr_id = ROB[j].instr_id /\ ROB'[j].status = ROB[j].status
                                 /\ IsScheduled(ROB[j])' <=> IsScheduled(ROB[j])
    BY <1>2, <1>7 DEF SameProgram, IsScheduled
  <2> QED BY <2>1 DEF History, InOrder
<1>17. Known'
  <2> SUFFICES ASSUME NEW i \in DOMAIN ROB
               PROVE  /\ DOMAIN ROB'[i].needs = DOMAIN ROB'[i].source_registers
                      /\ DOMAIN ROB'[i].writes = DOMAIN ROB'[i].destination_registers
                      /\ \A k \in DOMAIN ROB'[i].needs :
                           /\ ROB'[i].needs[k][2] < ROB'[i].instr_id
                           /\ ~RenamedSource(i, k)' => ROB'[i].source_registers[k] = ROB'[i].needs[k][1]
                      /\ \A k \in DOMAIN ROB'[i].writes :
                           ~RenamedDestination(i, k)' => ROB'[i].destination_registers[k] = ROB'[i].writes[k]
    BY <1>7 DEF Known
  <2> QED BY <1>7, <1>9 DEF History, Known, SameProgram
<1>18. Traced'
  <2>1. ASSUME NEW i \in DOMAIN ROB, NEW k \in DOMAIN ROB'[i].needs, NEW r, NEW w,
               ROB'[i].status # "completed", r = ROB'[i].needs[k][1], w = ROB'[i].needs[k][2]
        PROVE  WroteLast(i, r, w)'
    <3>1. /\ ROB[i].status # "completed" /\ k \in DOMAIN ROB[i].needs
          /\ r = ROB[i].needs[k][1] /\ w = ROB[i].needs[k][2]
      BY <1>7, <2>1 DEF SameProgram
    <3>2. WroteLast(i, r, w) /\ r \in ArchRegister
      BY <1>2, <3>1, NeedsType DEF History, Traced
    <3> QED BY <1>12, <3>2
  <2>2. ASSUME NEW r \in ArchRegister, NEW i, NEW w, i = Len(ROB) + 1, w = last_writer[r]
        PROVE  WroteLast(i, r, w)'
    <3>1. WroteLast(i, r, w)
      BY <2>2 DEF History, Traced
    <3> QED BY <1>12, <3>1
  <2> QED BY <1>2, <1>7, <2>1, <2>2 DEF Traced
<1>19. Named'
  <2>1. ASSUME NEW i \in DOMAIN ROB, NEW k \in DOMAIN ROB'[i].source_registers, NEW r, NEW p,
               ROB'[i].status # "completed", RenamedSource(i, k)',
               r = ROB'[i].needs[k][1], p = ROB'[i].source_registers[k]
        PROVE  p \in PhysicalRegister /\ NamedLast(i, r, p)'
    <3>1. /\ ROB[i].status # "completed" /\ k \in DOMAIN ROB[i].source_registers /\ RenamedSource(i, k)
          /\ r = ROB[i].needs[k][1] /\ p = ROB[i].source_registers[k]
      BY <1>7, <1>9, <2>1 DEF SameProgram
    <3>2. p \in PhysicalRegister /\ NamedLast(i, r, p)
      BY <3>1 DEF History, Named
    <3>3. i \in Nat /\ at \in Nat /\ (i < at \/ i = at)
      BY <1>15, <3>1, Entries DEF Inv, TypeOK
    <3>4. \A j, l : Renames(j, l, r)' /\ j < i <=> Renames(j, l, r) /\ j < i
      BY <1>13, <3>3
    <3>5. \A j, l : Renames(j, l, r) /\ j < i =>
                      ROB'[j].destination_registers[l] = ROB[j].destination_registers[l]
      BY <1>14
    <3>6. backend_RAT'[r] = backend_RAT[r]
      BY <1>4
    <3> QED BY <3>2, <3>4, <3>5, <3>6, NamedCarried
  <2>2. ASSUME NEW r \in ArchRegister, NEW i, NEW p, i = Len(ROB) + 1, p = frontend_RAT'[r]
        PROVE  NamedLast(i, r, p)'
    <3>1. CASE r = reg
      <4>1. PICK j, k : j = at /\ k = op
        OBVIOUS
      <4>2. Renames(j, k, r)' /\ ROB'[j].destination_registers[k] = p
        <5>1. Renames(j, k, r)'
          BY <1>13, <3>1, <4>1
        <5>2. p = h
          BY <1>6, <2>2, <3>1
        <5> QED BY <1>8, <4>1, <5>1, <5>2
      <4>3. j < i
        BY <1>2, <2>2, <4>1, Entries
      <4>4. \A l, m : Renames(l, m, r)' => l < j \/ (l = j /\ m <= k)
        <5> SUFFICES ASSUME NEW l, NEW m, Renames(l, m, r)' PROVE l < j \/ (l = j /\ m <= k)
          OBVIOUS
        <5>1. CASE l = at /\ m = op
          BY <1>2, <4>1, <5>1
        <5>2. CASE Renames(l, m, r)
          BY <1>2, <1>10, <1>15, <4>1, <5>2 DEF Renames
        <5> QED BY <1>13, <5>1, <5>2
      <4> QED BY <4>2, <4>3, <4>4 DEF NamedLast
    <3>2. CASE r # reg
      <4>1. NamedLast(i, r, p)
        BY <1>6, <2>2, <3>2 DEF History, Named
      <4>2. \A j, l : Renames(j, l, r)' /\ j < i <=> Renames(j, l, r) /\ j < i
        BY <1>13, <3>2
      <4>3. \A j, l : Renames(j, l, r) /\ j < i =>
                        ROB'[j].destination_registers[l] = ROB[j].destination_registers[l]
        BY <1>14
      <4>4. backend_RAT'[r] = backend_RAT[r]
        BY <1>4
      <4> QED BY <4>1, <4>2, <4>3, <4>4, NamedCarried
    <3> QED BY <3>1, <3>2
  <2> QED BY <1>7, <2>1, <2>2 DEF Named
<1>20. Filed'
  <2>1. ASSUME NEW i, NEW k, NEW p, InFlight(i, k)', p = ROB'[i].destination_registers[k]
        PROVE  /\ physical_register_file'[p].arch_reg_index = ROB'[i].writes[k]
               /\ physical_register_file'[p].producing_instruction_id = ROB'[i].instr_id
               /\ physical_register_file'[p].busy
               /\ physical_register_file'[p].valid => ROB'[i].status = "completed"
    <3>1. CASE InFlight(i, k)
      <4>1. /\ p = ROB[i].destination_registers[k] /\ i \in DOMAIN ROB
            /\ physical_register_file'[p] = physical_register_file[p]
        BY <1>6, <1>10, <2>1, <3>1
      <4> QED BY <1>7, <3>1, <4>1 DEF History, Filed, SameProgram
    <3>2. CASE i = at /\ k = op
      <4>1. p = h /\ ROB'[i].writes[k] = reg /\ ROB'[i].instr_id = id
        BY <1>8, <2>1, <3>2
      <4> QED BY <1>6, <4>1 DEF Entry
    <3> QED BY <1>9, <2>1, <3>1, <3>2
  <2>2. ASSUME NEW r \in ArchRegister, NEW p, p = backend_RAT'[r], p # Unmapped
        PROVE  physical_register_file'[p].arch_reg_index = r /\ physical_register_file'[p].busy
    <3>1. p = backend_RAT[r] /\ physical_register_file'[p] = physical_register_file[p]
      <4>1. p = backend_RAT[r]
        BY <1>4, <2>2
      <4>2. p \in PhysicalRegister /\ p # h
        BY <1>6, <2>2, <4>1 DEF Inv, TypeOK
      <4> QED BY <1>6, <4>1, <4>2
    <3> QED BY <2>2, <3>1 DEF History, Filed
  <2> QED BY <2>1, <2>2 DEF Filed
<1>21. Retiring'
  BY <1>2 DEF Retiring
<1>22. Settled'
  <2>1. /\ DOMAIN ROB' = DOMAIN ROB /\ next_id' = next_id /\ backend_RAT' = backend_RAT
        /\ \A j \in DOMAIN ROB : ROB'[j].instr_id = ROB[j].instr_id /\ ROB'[j].status = ROB[j].status
    BY <1>2, <1>4, <1>7 DEF SameProgram
  <2> QED BY <1>11, <2>1 DEF History, Settled
<1> QED BY <1>16, <1>17, <1>18, <1>19, <1>20, <1>21, <1>22 DEF History

\* A source gets the youngest name of its register, and that is the last one before
\* its instruction.  A register without a name has neither writers nor readers.
LEMMA SourceKeepsHistory ==
  ASSUME Inv, History, RenameSource
  PROVE  History'
<1>1. PICK reg, name : reg = ROB[at].source_registers[op] /\ name = SourceName(reg)
  OBVIOUS
<1>2. /\ TypeOK /\ stage = "sources" /\ at \in DOMAIN ROB /\ ROB[at].status = "ready"
      /\ op \in DOMAIN ROB[at].source_registers /\ op \in DOMAIN ROB[at].needs
      /\ RenameSrc(reg)
      /\ ROB' = [ROB EXCEPT ![at].source_registers[op] = name]
      /\ op' = op + 1 /\ op \in Nat \ {0} /\ at \in Nat
      /\ UNCHANGED <<stage, bw, at, next_id, last_writer>>
  BY <1>1 DEF RenameSource, Inv, Control, TypeOK, History, Known
<1>3. reg = ROB[at].needs[op][1] /\ reg \in ArchRegister
  <2>1. ~RenamedSource(at, op)
    BY <1>2 DEF RenamedSource, IsScheduled
  <2> QED BY <1>1, <1>2, <2>1, NeedsType DEF History, Known
<1>4. /\ DOMAIN ROB' = DOMAIN ROB /\ Len(ROB') = Len(ROB)
      /\ \A j \in DOMAIN ROB :
           /\ SameProgram(j, j)
           /\ ROB'[j].destination_registers = ROB[j].destination_registers
           /\ ROB'[j].status = ROB[j].status
           /\ DOMAIN ROB'[j].source_registers = DOMAIN ROB[j].source_registers
           /\ \A k \in DOMAIN ROB[j].source_registers :
                ROB'[j].source_registers[k] = IF j = at /\ k = op THEN name ELSE ROB[j].source_registers[k]
  <2>1. DOMAIN ROB' = DOMAIN ROB /\ Len(ROB') = Len(ROB)
    BY <1>2 DEF TypeOK
  <2>2. \A j \in DOMAIN ROB : j # at => ROB'[j] = ROB[j]
    BY <1>2
  <2>3. ROB'[at] = [ROB[at] EXCEPT !.source_registers = [ROB[at].source_registers EXCEPT ![op] = name]]
    BY <1>2
  <2>4. ROB[at] \in RobEntry
    BY <1>2, Entries
  <2>5. /\ ROB'[at].instr_id = ROB[at].instr_id /\ ROB'[at].needs = ROB[at].needs
        /\ ROB'[at].writes = ROB[at].writes /\ ROB'[at].status = ROB[at].status
        /\ ROB'[at].destination_registers = ROB[at].destination_registers
        /\ ROB'[at].source_registers = [ROB[at].source_registers EXCEPT ![op] = name]
    BY <2>3, <2>4 DEF RobEntry
  <2> QED BY <2>1, <2>2, <2>5 DEF SameProgram
<1>5. ASSUME NEW j, NEW k
      PROVE  /\ InFlight(j, k)' <=> InFlight(j, k)
             /\ RenamedDestination(j, k) => RenamedDestination(j, k)'
             /\ RenamedSource(j, k)' <=> RenamedSource(j, k) \/ (j = at /\ k = op)
  <2>1. \A n \in DOMAIN ROB : \A l \in DOMAIN ROB[n].source_registers : l \in Nat
    BY Entries DEF Inv
  <2>2. /\ stage = "sources" /\ stage' = "sources" /\ at' = at /\ op' = op + 1 /\ op \in Nat
        /\ at \in DOMAIN ROB /\ op \in DOMAIN ROB[at].source_registers
    BY <1>2
  <2>3. \A n \in DOMAIN ROB : IsScheduled(ROB[n])' <=> IsScheduled(ROB[n])
    BY <1>4 DEF IsScheduled
  <2>4. InFlight(j, k)' <=> InFlight(j, k)
    BY <1>4, <2>2, <2>3 DEF InFlight
  <2>5. RenamedSource(j, k)' <=> RenamedSource(j, k) \/ (j = at /\ k = op)
    BY <1>4, <2>1, <2>2, <2>3 DEF RenamedSource
  <2>6. RenamedDestination(j, k) => RenamedDestination(j, k)'
    <3>1. CASE j \in DOMAIN ROB
      BY <2>2, <2>3, <3>1 DEF RenamedDestination
    <3>2. CASE j \notin DOMAIN ROB
      <4>1. ROB'[j] = ROB[j]
        BY <1>2, <3>2
      <4> QED BY <2>2, <4>1 DEF RenamedDestination, IsScheduled
    <3> QED BY <3>1, <3>2
  <2> QED BY <2>4, <2>5, <2>6
<1>6. PICK n : n = Len(ROB) + 1
  OBVIOUS
<1>7. \A j, k : InFlight(j, k) => /\ j \in DOMAIN ROB /\ k \in DOMAIN ROB[j].destination_registers
                                  /\ j < at /\ j < n /\ ROB[j].destination_registers[k] \in PhysicalRegister
  <2>1. \A j, k : InFlight(j, k) => j < at
    BY <1>2, OnlyAheadIsRenamed DEF History
  <2>2. \A j \in DOMAIN ROB : j < n
    BY <1>2, <1>6, Entries
  <2> QED BY <2>1, <2>2 DEF InFlight, Inv, Names, Assigned
<1>8. \A j, k, r : Renames(j, k, r)' <=> Renames(j, k, r)
  BY <1>4, <1>5 DEF Renames, InFlight, SameProgram
<1>9. \A j, k, r : Renames(j, k, r) => /\ ROB'[j].destination_registers[k] = ROB[j].destination_registers[k]
                                       /\ j < at /\ j < n
  BY <1>4, <1>7 DEF Renames
<1>10. ASSUME NEW i, NEW m, i = m \/ (i = n /\ m = at), NEW r, NEW p, NamedLast(i, r, p),
              backend_RAT'[r] = backend_RAT[r]
       PROVE  NamedLast(m, r, p)'
  <2>1. \A j, l : Renames(j, l, r)' /\ j < m <=> Renames(j, l, r) /\ j < i
    BY <1>8, <1>9, <1>10
  <2>2. \A j, l : Renames(j, l, r) /\ j < i =>
                    ROB'[j].destination_registers[l] = ROB[j].destination_registers[l]
    BY <1>9
  <2> QED BY <1>10, <2>1, <2>2, NamedCarried
<1>11. \A q \in PhysicalRegister : q # Unmapped
  BY DEF PhysicalRegister, Unmapped
<1>12. \A r \in ArchRegister : NamedLast(n, r, frontend_RAT[r])
  BY <1>6 DEF History, Named
<1>13. ~isAllocated(reg) => /\ backend_RAT[reg] = Unmapped /\ frontend_RAT[reg] = Unmapped
                            /\ \A j, k : ~Renames(j, k, reg)
  <2>1. ~isAllocated(reg) => backend_RAT[reg] = Unmapped /\ frontend_RAT[reg] = Unmapped
    BY <1>3 DEF Inv, Mapped, isAllocated
  <2>2. ASSUME frontend_RAT[reg] = Unmapped, NEW j, NEW k, Renames(j, k, reg)
        PROVE  FALSE
    <3>1. j < n
      BY <1>9, <2>2
    <3>2. PICK l, m : Renames(l, m, reg) /\ ROB[l].destination_registers[m] = Unmapped
      BY <1>3, <1>12, <2>2, <3>1 DEF NamedLast
    <3> QED BY <1>7, <1>11, <3>2 DEF Renames
  <2> QED BY <2>1, <2>2
<1>14. \/ isAllocated(reg) /\ name = frontend_RAT[reg] /\ UNCHANGED allocator
       \/ /\ ~isAllocated(reg) /\ name \in PhysicalRegister /\ ~CommittedName(name) /\ ~InFlightName(name)
          /\ frontend_RAT' = [frontend_RAT EXCEPT ![reg] = name]
          /\ backend_RAT' = [backend_RAT EXCEPT ![reg] = name]
          /\ physical_register_file' = [physical_register_file EXCEPT ![name] = Entry(reg, 0, TRUE, TRUE)]
  <2>1. CASE isAllocated(reg)
    BY <1>1, <1>2, <2>1 DEF RenameSrc, SourceName
  <2>2. CASE ~isAllocated(reg)
    <3>1. /\ free_registers # <<>> /\ free_registers' = Tail(free_registers) /\ name = Head(free_registers)
          /\ frontend_RAT' = [frontend_RAT EXCEPT ![reg] = name]
          /\ backend_RAT' = [backend_RAT EXCEPT ![reg] = name]
          /\ physical_register_file' = [physical_register_file EXCEPT ![name] = Entry(reg, 0, TRUE, TRUE)]
      BY <1>1, <1>2, <2>2 DEF RenameSrc, SourceName
    <3>2. NoFreeTwice
      BY DEF Inv, RegisterPartition, NoFreeTwice
    <3>3. name \in PhysicalRegister /\ FreeName(name)
      BY <1>2, <3>1, <3>2, TakeFree
    <3> QED BY <2>2, <3>1, <3>3 DEF Inv, RegisterPartition
  <2> QED BY <2>1, <2>2
<1>15. /\ name \in PhysicalRegister
       /\ \A r \in ArchRegister : r # reg => frontend_RAT'[r] = frontend_RAT[r] /\ backend_RAT'[r] = backend_RAT[r]
       /\ frontend_RAT'[reg] = name
       /\ isAllocated(reg) => backend_RAT'[reg] = backend_RAT[reg]
       /\ ~isAllocated(reg) => backend_RAT'[reg] = name
       /\ \A r \in ArchRegister : backend_RAT[r] # Unmapped =>
            backend_RAT[r] \in PhysicalRegister
              /\ physical_register_file'[backend_RAT[r]] = physical_register_file[backend_RAT[r]]
       /\ \A q \in PhysicalRegister : InFlightName(q) => physical_register_file'[q] = physical_register_file[q]
       /\ ~isAllocated(reg) => physical_register_file'[name] = Entry(reg, 0, TRUE, TRUE)
  <2>1. CASE isAllocated(reg) /\ name = frontend_RAT[reg] /\ UNCHANGED allocator
    BY <1>2, <1>3, <2>1 DEF TypeOK, allocator, isAllocated
  <2>2. CASE ~(isAllocated(reg) /\ name = frontend_RAT[reg] /\ UNCHANGED allocator)
    BY <1>2, <1>3, <1>14, <2>2 DEF TypeOK, CommittedName
  <2> QED BY <2>1, <2>2
<1>16. \A r \in ArchRegister : \A w : Committed(r, w)' <=> Committed(r, w)
  <2> SUFFICES ASSUME NEW r \in ArchRegister, NEW w PROVE Committed(r, w)' <=> Committed(r, w)
    OBVIOUS
  <2>1. CASE r = reg /\ ~isAllocated(reg)
    BY <1>11, <1>13, <1>15, <2>1 DEF Committed, Entry
  <2>2. CASE ~(r = reg /\ ~isAllocated(reg))
    BY <1>15, <2>2 DEF Committed
  <2> QED BY <2>1, <2>2
<1>17. ASSUME NEW i, NEW r \in ArchRegister, NEW w, WroteLast(i, r, w)
       PROVE  WroteLast(i, r, w)'
  BY <1>4, <1>16, <1>17, WroteCarried
<1>18. InOrder'
  <2>1. /\ DOMAIN ROB' = DOMAIN ROB /\ UNCHANGED <<stage, at, next_id>>
        /\ \A j \in DOMAIN ROB : /\ ROB'[j].instr_id = ROB[j].instr_id /\ ROB'[j].status = ROB[j].status
                                 /\ IsScheduled(ROB[j])' <=> IsScheduled(ROB[j])
    BY <1>2, <1>4 DEF SameProgram, IsScheduled
  <2> QED BY <2>1 DEF History, InOrder
<1>19. Known'
  <2> SUFFICES ASSUME NEW i \in DOMAIN ROB
               PROVE  /\ DOMAIN ROB'[i].needs = DOMAIN ROB'[i].source_registers
                      /\ DOMAIN ROB'[i].writes = DOMAIN ROB'[i].destination_registers
                      /\ \A k \in DOMAIN ROB'[i].needs :
                           /\ ROB'[i].needs[k][2] < ROB'[i].instr_id
                           /\ ~RenamedSource(i, k)' => ROB'[i].source_registers[k] = ROB'[i].needs[k][1]
                      /\ \A k \in DOMAIN ROB'[i].writes :
                           ~RenamedDestination(i, k)' => ROB'[i].destination_registers[k] = ROB'[i].writes[k]
    BY <1>4 DEF Known
  <2> QED BY <1>4, <1>5 DEF History, Known, SameProgram
<1>20. Traced'
  <2>1. ASSUME NEW i \in DOMAIN ROB, NEW k \in DOMAIN ROB'[i].needs, NEW r, NEW w,
               ROB'[i].status # "completed", r = ROB'[i].needs[k][1], w = ROB'[i].needs[k][2]
        PROVE  WroteLast(i, r, w)'
    <3>1. /\ ROB[i].status # "completed" /\ k \in DOMAIN ROB[i].needs
          /\ r = ROB[i].needs[k][1] /\ w = ROB[i].needs[k][2]
      BY <1>4, <2>1 DEF SameProgram
    <3>2. WroteLast(i, r, w) /\ r \in ArchRegister
      BY <1>2, <3>1, NeedsType DEF History, Traced
    <3> QED BY <1>17, <3>2
  <2>2. ASSUME NEW r \in ArchRegister, NEW i, NEW w, i = Len(ROB) + 1, w = last_writer[r]
        PROVE  WroteLast(i, r, w)'
    <3>1. WroteLast(i, r, w)
      BY <2>2 DEF History, Traced
    <3> QED BY <1>17, <3>1
  <2> QED BY <1>2, <1>4, <2>1, <2>2 DEF Traced
<1>21. ~isAllocated(reg) => \A i : NamedLast(i, reg, name)'
  BY <1>8, <1>13, <1>15 DEF NamedLast
<1>22. Named'
  <2>1. ASSUME NEW i \in DOMAIN ROB, NEW k \in DOMAIN ROB'[i].source_registers, NEW r, NEW p,
               ROB'[i].status # "completed", RenamedSource(i, k)',
               r = ROB'[i].needs[k][1], p = ROB'[i].source_registers[k]
        PROVE  p \in PhysicalRegister /\ NamedLast(i, r, p)'
    <3>1. /\ ROB[i].status # "completed" /\ k \in DOMAIN ROB[i].source_registers /\ r = ROB[i].needs[k][1]
          /\ p = IF i = at /\ k = op THEN name ELSE ROB[i].source_registers[k]
      BY <1>4, <2>1 DEF SameProgram
    <3>2. CASE i = at /\ k = op
      <4>1. r = reg /\ p = name
        BY <1>3, <3>1, <3>2
      <4>2. CASE isAllocated(reg)
        <5>1. NamedLast(n, reg, name) /\ backend_RAT'[reg] = backend_RAT[reg]
          BY <1>3, <1>12, <1>14, <1>15, <4>2
        <5> QED BY <1>10, <1>15, <3>2, <4>1, <5>1
      <4>3. CASE ~isAllocated(reg)
        BY <1>15, <1>21, <4>1, <4>3
      <4> QED BY <4>2, <4>3
    <3>3. CASE ~(i = at /\ k = op)
      <4>1. RenamedSource(i, k) /\ p = ROB[i].source_registers[k]
        BY <1>5, <2>1, <3>1, <3>3
      <4>2. p \in PhysicalRegister /\ NamedLast(i, r, p)
        BY <3>1, <4>1 DEF History, Named
      <4>3. r \in ArchRegister
        BY <1>2, <3>1, NeedsType DEF History, Known
      <4>4. ~(r = reg /\ ~isAllocated(reg))
        BY <1>11, <1>13, <4>2 DEF NamedLast
      <4>5. backend_RAT'[r] = backend_RAT[r]
        BY <1>15, <4>3, <4>4
      <4> QED BY <1>10, <4>2, <4>5
    <3> QED BY <3>2, <3>3
  <2>2. ASSUME NEW r \in ArchRegister, NEW i, NEW p, i = Len(ROB) + 1, p = frontend_RAT'[r]
        PROVE  NamedLast(i, r, p)'
    <3>1. CASE r = reg /\ ~isAllocated(reg)
      BY <1>15, <1>21, <2>2, <3>1
    <3>2. CASE ~(r = reg /\ ~isAllocated(reg))
      <4>1. p = frontend_RAT[r] /\ backend_RAT'[r] = backend_RAT[r]
        BY <1>14, <1>15, <2>2, <3>2 DEF allocator
      <4> QED BY <1>6, <1>10, <1>12, <2>2, <4>1
    <3> QED BY <3>1, <3>2
  <2> QED BY <1>4, <2>1, <2>2 DEF Named
<1>23. Filed'
  <2>1. ASSUME NEW i, NEW k, NEW p, InFlight(i, k)', p = ROB'[i].destination_registers[k]
        PROVE  /\ physical_register_file'[p].arch_reg_index = ROB'[i].writes[k]
               /\ physical_register_file'[p].producing_instruction_id = ROB'[i].instr_id
               /\ physical_register_file'[p].busy
               /\ physical_register_file'[p].valid => ROB'[i].status = "completed"
    <3>1. InFlight(i, k) /\ i \in DOMAIN ROB /\ k \in DOMAIN ROB[i].destination_registers
      BY <1>5, <1>7, <2>1
    <3>2. p = ROB[i].destination_registers[k] /\ p \in PhysicalRegister
      BY <1>4, <1>7, <2>1, <3>1
    <3>3. physical_register_file'[p] = physical_register_file[p]
      BY <1>15, <3>1, <3>2 DEF InFlightName
    <3> QED BY <1>4, <3>1, <3>2, <3>3 DEF History, Filed, SameProgram
  <2>2. ASSUME NEW r \in ArchRegister, NEW p, p = backend_RAT'[r], p # Unmapped
        PROVE  physical_register_file'[p].arch_reg_index = r /\ physical_register_file'[p].busy
    <3>1. CASE r = reg /\ ~isAllocated(reg)
      BY <1>15, <2>2, <3>1 DEF Entry
    <3>2. CASE ~(r = reg /\ ~isAllocated(reg))
      <4>1. p = backend_RAT[r] /\ physical_register_file'[p] = physical_register_file[p]
        BY <1>15, <2>2, <3>2
      <4> QED BY <2>2, <4>1 DEF History, Filed
    <3> QED BY <3>1, <3>2
  <2> QED BY <2>1, <2>2 DEF Filed
<1>24. Retiring'
  BY <1>2 DEF Retiring
<1>25. Settled'
  <2> SUFFICES ASSUME NEW r \in ArchRegister, NEW w, backend_RAT'[r] # Unmapped, Committed(r, w)
               PROVE  w < next_id /\ \A j \in DOMAIN ROB : ROB[j].instr_id = w => ROB[j].status = "completed"
    BY <1>2, <1>4, <1>16 DEF Settled, SameProgram
  <2>1. CASE r = reg /\ ~isAllocated(reg)
    <3>1. w = 0
      BY <1>13, <2>1 DEF Committed
    <3>2. \A j \in DOMAIN ROB : ROB[j].instr_id # 0
      BY NeedsType DEF Inv
    <3>3. next_id \in Nat \ {0}
      BY DEF Inv, TypeOK
    <3> QED BY <3>1, <3>2, <3>3
  <2>2. CASE ~(r = reg /\ ~isAllocated(reg))
    BY <1>15, <2>2 DEF History, Settled
  <2> QED BY <2>1, <2>2
<1> QED BY <1>18, <1>19, <1>20, <1>22, <1>23, <1>24, <1>25 DEF History

-----------------------------------------------------------------------------
(* The theorems on renaming *)

LEMMA InitHistory == Init => History
<1> SUFFICES ASSUME Init PROVE History
  OBVIOUS
<1>1. ROB = <<>> /\ Len(ROB) = 0 /\ DOMAIN ROB = {}
  <2>1. ROB = <<>>
    BY DEF Init
  <2>2. ROB \in Seq(RobEntry) /\ Len(ROB) = 0
    BY <2>1, EmptySeq
  <2> QED BY <2>1, <2>2, InSeq
<1>2. \A r \in ArchRegister : backend_RAT[r] = Unmapped /\ frontend_RAT[r] = Unmapped /\ last_writer[r] = 0
  BY DEF Init, AllocatorInit
<1>3. \A j, k : ~InFlight(j, k)
  BY <1>1 DEF InFlight
<1>4. InOrder /\ Known /\ Retiring
  BY <1>1 DEF Init, InOrder, Known, Retiring
<1>5. Traced
  BY <1>1, <1>2 DEF Traced, WroteLast, Committed
<1>6. Named
  BY <1>1, <1>2, <1>3 DEF Named, NamedLast, Renames
<1>7. Filed /\ Settled
  BY <1>2, <1>3 DEF Filed, Settled
<1> QED BY <1>4, <1>5, <1>6, <1>7 DEF History

LEMMA NextHistory == Inv /\ History /\ [Next]_vars => History'
<1> SUFFICES ASSUME Inv, History, [Next]_vars PROVE History'
  OBVIOUS
<1>1. CASE Retire
  BY <1>1, RetirementKeepsHistory, DepartureKeepsHistory, LoopsKeepHistory DEF Retire
<1>2. CASE \E i \in DOMAIN ROB : Complete(i)
  BY <1>2, CompletionKeepsHistory
<1>3. CASE \E i \in DOMAIN ROB : Execute(i) \/ BecomeReady(i) \/ Perform(i)
  BY <1>3, AdvanceKeepsHistory
<1>4. CASE EndComplete \/ EndExecute \/ EndDispatch \/ NextCycle
  BY <1>4, LoopsKeepHistory
<1>5. CASE Schedule
  <2>1. CASE StopScheduling \/ PassOver \/ EndSchedule
    BY <2>1, LoopsKeepHistory
  <2>2. CASE BeginRenaming \/ EndSources
    BY <2>2, RenamingBeginsInOrder
  <2> QED BY <1>5, <2>1, <2>2, SourceKeepsHistory, DestinationKeepsHistory, ScheduledKeepsHistory DEF Schedule
<1>6. CASE \E o \in Operation : Dispatch(o)
  BY <1>6, DispatchKeepsHistory
<1>7. CASE UNCHANGED vars
  <2>1. UNCHANGED <<allocator, ROB, next_id, last_writer, stage, bw, at, op>>
    BY <1>7 DEF vars
  <2>2. \A i, k : /\ InFlight(i, k)' <=> InFlight(i, k)
                  /\ RenamedDestination(i, k)' <=> RenamedDestination(i, k)
                  /\ RenamedSource(i, k)' <=> RenamedSource(i, k)
    BY <2>1 DEF InFlight, RenamedDestination, RenamedSource, IsScheduled
  <2>3. Retiring'
    BY <2>1 DEF History, Retiring, Committed, allocator
  <2>4. stage' \in {"schedule", "sources", "destinations"} =>
          \A i \in DOMAIN ROB : i < at' => ROB[i].status # "ready"
    BY <2>1 DEF History, InOrder
  <2> QED BY <2>1, <2>2, <2>3, <2>4, SameEntries
<1> QED BY <1>1, <1>2, <1>3, <1>4, <1>5, <1>6, <1>7 DEF Next, Operate

\* Every operand has the name that program order gives it, for every trace, every
\* width and every number of registers (ooo_cpu.cc:439-470,
\* register_allocator.cc:16-50): no source is recycled, overwritten or swapped before
\* its instruction completes, and the frontend table names the youngest writer.
THEOREM RenamingIsFaithful == Spec => []RenamingFollowsTheProgram
<1>1. Spec => []History
  BY InitHistory, NextHistory, Invariance, PTL DEF Spec
<1> QED BY <1>1, HistoryIsFaithful, Invariance, PTL

\* A step that keeps the entries, and in which none begins to execute.
LEMMA NoneExecutes ==
  ASSUME ProducersCompleteFirst, DOMAIN ROB' = DOMAIN ROB,
         \A j \in DOMAIN ROB :
           /\ SameProgram(j, j)
           /\ HasExecuted(ROB'[j]) => HasExecuted(ROB[j])
           /\ ROB[j].status = "completed" => ROB'[j].status = "completed"
  PROVE  ProducersCompleteFirst'
BY DEF ProducersCompleteFirst, SameProgram, HasExecuted

\* One field of one entry changes.
LEMMA RenamedAndMoved ==
  ASSUME Inv, NEW i \in DOMAIN ROB, NEW s, NEW f \in {"source_registers", "destination_registers", "status"},
         ROB' = [ROB EXCEPT ![i] = [ROB[i] EXCEPT ![f] = s]]
  PROVE  /\ DOMAIN ROB' = DOMAIN ROB
         /\ \A j \in DOMAIN ROB : SameProgram(j, j) /\ (j # i => ROB'[j] = ROB[j])
         /\ ROB'[i].status = IF f = "status" THEN s ELSE ROB[i].status
BY Entries DEF SameProgram, Inv, RobEntry

\* Valid sources are those of producers that have completed.
LEMMA ExecutionInOrder ==
  ASSUME Inv, History, ProducersCompleteFirst, NEW i \in DOMAIN ROB, Execute(i)
  PROVE  ProducersCompleteFirst'
<1>1. /\ ROB[i].status = "scheduled" /\ IsScheduled(ROB[i])
      /\ ROB' = [ROB EXCEPT ![i] = [ROB[i] EXCEPT !["status"] = "executed"]]
      /\ \A k \in DOMAIN ROB[i].source_registers : physical_register_file[ROB[i].source_registers[k]].valid
  BY DEF Execute, CanExecute, Elements, isValid, IsScheduled
<1>2. /\ DOMAIN ROB' = DOMAIN ROB
      /\ \A j \in DOMAIN ROB : SameProgram(j, j) /\ (j # i => ROB'[j] = ROB[j])
  BY <1>1, RenamedAndMoved
<1>3. ASSUME NEW k \in DOMAIN ROB[i].needs, NEW j \in DOMAIN ROB, ROB[i].needs[k][2] = ROB[j].instr_id
      PROVE  ROB[j].status = "completed"
  <2>1. k \in DOMAIN ROB[i].source_registers
    BY DEF History, Known
  <2>2. RenamedSource(i, k) /\ ROB[i].status # "completed"
    BY <1>1, <2>1 DEF RenamedSource
  <2>3. PICK r, w, p : r = ROB[i].needs[k][1] /\ w = ROB[i].needs[k][2] /\ p = ROB[i].source_registers[k]
    OBVIOUS
  <2>4. \A n \in DOMAIN ROB :
          ROB[n].instr_id = w /\ physical_register_file[p].valid => ROB[n].status = "completed"
    BY <2>1, <2>2, <2>3, SourceOfProducer
  <2> QED BY <1>1, <1>3, <2>1, <2>3, <2>4
<1>4. \A l, j \in DOMAIN ROB : \A k \in DOMAIN ROB[l].needs :
        HasExecuted(ROB'[l]) /\ ROB[l].needs[k][2] = ROB[j].instr_id => ROB[j].status = "completed"
  BY <1>2, <1>3 DEF ProducersCompleteFirst
<1>5. \A j \in DOMAIN ROB : ROB[j].status = "completed" => ROB'[j].status = "completed"
  BY <1>1, <1>2
<1> QED BY <1>2, <1>4, <1>5 DEF ProducersCompleteFirst, SameProgram, HasExecuted

LEMMA NextProducers ==
  Inv /\ History /\ ProducersCompleteFirst /\ [Next]_vars => ProducersCompleteFirst'
<1> SUFFICES ASSUME Inv, History, ProducersCompleteFirst, [Next]_vars PROVE ProducersCompleteFirst'
  OBVIOUS
<1>1. CASE ROB' = ROB
  BY <1>1 DEF ProducersCompleteFirst, HasExecuted
<1>2. CASE \E i \in DOMAIN ROB : Execute(i)
  BY <1>2, ExecutionInOrder
<1>3. CASE \E i \in DOMAIN ROB : Complete(i) \/ BecomeReady(i) \/ Perform(i)
  <2>1. PICK i \in DOMAIN ROB, s \in Status :
          /\ ROB' = [ROB EXCEPT ![i] = [ROB[i] EXCEPT !["status"] = s]]
          /\ ROB[i].status # "completed"
          /\ s \in {"executed", "performed", "completed"} =>
               ROB[i].status \in {"executed", "performed", "completed"}
    <3>1. PICK i \in DOMAIN ROB : Complete(i) \/ BecomeReady(i) \/ Perform(i)
      BY <1>3
    <3>2. CASE Complete(i)
      BY <3>2 DEF Complete, CanComplete, Status
    <3>3. CASE BecomeReady(i)
      BY <3>3 DEF BecomeReady, Status
    <3>4. CASE Perform(i)
      BY <3>4 DEF Perform, Status
    <3> QED BY <3>1, <3>2, <3>3, <3>4
  <2>2. /\ DOMAIN ROB' = DOMAIN ROB /\ ROB'[i].status = s
        /\ \A j \in DOMAIN ROB : SameProgram(j, j) /\ (j # i => ROB'[j] = ROB[j])
    <3>1. PICK f \in {"source_registers", "destination_registers", "status"} : f = "status"
      OBVIOUS
    <3>2. ROB' = [ROB EXCEPT ![i] = [ROB[i] EXCEPT ![f] = s]]
      BY <2>1, <3>1
    <3>3. /\ DOMAIN ROB' = DOMAIN ROB
          /\ \A j \in DOMAIN ROB : SameProgram(j, j) /\ (j # i => ROB'[j] = ROB[j])
          /\ ROB'[i].status = IF f = "status" THEN s ELSE ROB[i].status
      BY <3>2, RenamedAndMoved
    <3> QED BY <3>1, <3>3
  <2>3. \A j \in DOMAIN ROB : /\ HasExecuted(ROB'[j]) => HasExecuted(ROB[j])
                              /\ ROB[j].status = "completed" => ROB'[j].status = "completed"
    BY <2>1, <2>2 DEF HasExecuted
  <2> QED BY <2>2, <2>3, NoneExecutes
<1>4. CASE RenameSource \/ RenameDestination \/ EndRenaming
  <2>1. at \in DOMAIN ROB /\ ROB[at].status = "ready"
    BY <1>4 DEF RenameSource, RenameDestination, EndRenaming, Inv, Control
  <2>2. PICK f \in {"source_registers", "destination_registers", "status"} : \E s :
          /\ ROB' = [ROB EXCEPT ![at] = [ROB[at] EXCEPT ![f] = s]]
          /\ f = "status" => s = "scheduled"
    BY <1>4 DEF RenameSource, RenameDestination, EndRenaming
  <2>3. /\ DOMAIN ROB' = DOMAIN ROB /\ ROB'[at].status \in {"ready", "scheduled"}
        /\ \A j \in DOMAIN ROB : SameProgram(j, j) /\ (j # at => ROB'[j] = ROB[j])
    <3>1. PICK s : /\ ROB' = [ROB EXCEPT ![at] = [ROB[at] EXCEPT ![f] = s]]
                   /\ f = "status" => s = "scheduled"
      BY <2>2
    <3>2. /\ DOMAIN ROB' = DOMAIN ROB
          /\ \A j \in DOMAIN ROB : SameProgram(j, j) /\ (j # at => ROB'[j] = ROB[j])
          /\ ROB'[at].status = IF f = "status" THEN s ELSE ROB[at].status
      BY <2>1, <3>1, RenamedAndMoved
    <3> QED BY <2>1, <3>1, <3>2
  <2>4. \A j \in DOMAIN ROB : /\ HasExecuted(ROB'[j]) => HasExecuted(ROB[j])
                              /\ ROB[j].status = "completed" => ROB'[j].status = "completed"
    BY <2>1, <2>3 DEF HasExecuted
  <2> QED BY <2>3, <2>4, NoneExecutes
<1>5. CASE RetireFront
  <2>1. ROB \in Seq(RobEntry) /\ ROB # <<>> /\ ROB' = Tail(ROB)
    BY <1>5 DEF RetireFront, CanRetire, Inv, TypeOK
  <2>2. \A j \in DOMAIN ROB' : j + 1 \in DOMAIN ROB /\ ROB'[j] = ROB[j + 1]
    BY <2>1, FrontTaken
  <2> QED BY <2>2 DEF ProducersCompleteFirst, HasExecuted
<1>6. CASE \E o \in Operation : Dispatch(o)
  <2>1. PICK o \in Operation : Dispatch(o)
    BY <1>6
  <2>2. PICK x : x = NewEntry(o)
    OBVIOUS
  <2>3. /\ ROB \in Seq(RobEntry) /\ x \in RobEntry /\ ROB' = Append(ROB, x)
        /\ x.status = "dispatched" /\ x.instr_id = next_id
    BY <2>1, <2>2, NewEntryType DEF Dispatch, Inv, TypeOK, NewEntry
  <2>4. /\ DOMAIN ROB' = DOMAIN ROB \cup {Len(ROB) + 1} /\ ROB'[Len(ROB) + 1] = x
        /\ \A j \in DOMAIN ROB : ROB'[j] = ROB[j]
    BY <2>3, Appended
  <2>5. \A l \in DOMAIN ROB' : HasExecuted(ROB'[l]) => l \in DOMAIN ROB
    BY <2>3, <2>4 DEF HasExecuted
  <2>6. \A l \in DOMAIN ROB : \A k \in DOMAIN ROB[l].needs : ROB[l].needs[k][2] # next_id
    <3> SUFFICES ASSUME NEW l \in DOMAIN ROB, NEW k \in DOMAIN ROB[l].needs
                 PROVE  ROB[l].needs[k][2] # next_id
      OBVIOUS
    <3>1. ROB[l].needs[k][2] < ROB[l].instr_id /\ ROB[l].instr_id < next_id
      BY DEF History, Known, InOrder
    <3>2. ROB[l].needs[k][2] \in Nat /\ ROB[l].instr_id \in Nat
      BY NeedsType DEF Inv
    <3>3. next_id \in Nat
      BY DEF Inv, TypeOK
    <3> QED BY <3>1, <3>2, <3>3
  <2>7. ASSUME NEW l \in DOMAIN ROB', NEW j \in DOMAIN ROB', NEW k \in DOMAIN ROB'[l].needs,
               HasExecuted(ROB'[l]), ROB'[l].needs[k][2] = ROB'[j].instr_id
        PROVE  ROB'[j].status = "completed"
    <3>1. l \in DOMAIN ROB /\ ROB'[l] = ROB[l]
      BY <2>4, <2>5, <2>7
    <3>2. j \in DOMAIN ROB
      BY <2>3, <2>4, <2>6, <2>7, <3>1
    <3> QED BY <2>4, <2>7, <3>1, <3>2 DEF ProducersCompleteFirst
  <2> QED BY <2>7 DEF ProducersCompleteFirst, HasExecuted
<1>7. CASE UNCHANGED vars
  BY <1>1, <1>7 DEF vars
<1>8. CASE EndRetire \/ RetireDestination \/ EndComplete \/ EndExecute \/ StopScheduling \/ PassOver
             \/ BeginRenaming \/ EndSchedule \/ EndSources \/ EndDispatch \/ NextCycle
  <2>1. ROB' = ROB
    BY <1>8 DEF EndRetire, RetireDestination, EndComplete, EndExecute, StopScheduling, PassOver, BeginRenaming,
                EndSchedule, EndSources, EndDispatch, NextCycle
  <2> QED BY <1>1, <2>1
<1> QED BY <1>2, <1>3, <1>4, <1>5, <1>6, <1>7, <1>8 DEF Next, Operate, Retire, Schedule

\* No instruction executes before the producers of all its sources have completed
\* (ooo_cpu.cc:473-478), for every trace, every width and every number of registers.
THEOREM NothingExecutesEarly == Spec => []ProducersCompleteFirst
<1>1. Spec => []History
  BY InitHistory, NextHistory, Invariance, PTL DEF Spec
<1>2. Init => ProducersCompleteFirst
  <2>1. Init => DOMAIN ROB = {}
    BY InitInv, Entries, EmptySeq DEF Init, Inv
  <2> QED BY <2>1 DEF ProducersCompleteFirst
<1> QED BY <1>1, <1>2, NextProducers, Invariance, PTL DEF Spec
=============================================================================
