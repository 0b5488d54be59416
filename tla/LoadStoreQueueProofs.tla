------------------------ MODULE LoadStoreQueueProofs ------------------------
(***************************************************************************)
(* Proofs about LoadStoreQueue: the invariant, conjunct by conjunct, the   *)
(* three safety properties that follow from it, and the refinement of      *)
(* ProgramOrderMemory.                                                     *)
(***************************************************************************)
EXTENDS LoadStoreQueue, FiniteSetTheorems, SequenceTheorems, TLAPS

USE LSQAssumption, NoEntryAssumption

-----------------------------------------------------------------------------
(* The inductive invariant *)

\* The reorder buffer holds instructions in program order, the youngest of which is
\* being scheduled.
InProgramOrder(rob) == \A j, k \in 1..Len(rob) : j < k => rob[j].instr_id < rob[k].instr_id

Programmed ==
  /\ InProgramOrder(ROB)
  /\ \A k \in 1..Len(ROB) : ROB[k].instr_id < next_id
  /\ stage = "schedule" => Len(ROB) > 0 /\ ROB[Len(ROB)].instr_id = next_id - 1

\* So does the store queue, in which an instruction may have several stores.
StoresOrdered(sq) == \A i, j \in 1..Len(sq) : i < j => sq[i].instr_id <= sq[j].instr_id

StoresInOrder ==
  /\ StoresOrdered(SQ)
  /\ \A i \in 1..Len(SQ) : SQ[i].instr_id < next_id

\* An instruction completes when its memory operations have ended.
Counted == \A k \in 1..Len(ROB) : ROB[k].completed => ROB[k].completed_mem_ops = ROB[k].num_mem_ops

\* What dispatch has found room for still has it.
HasRoom ==
  /\ stage = "schedule" => LQHasRoom(operands) /\ SQHasRoom(operands)
  /\ stage # "schedule" => operands.source_memory = <<>> /\ operands.destination_memory = <<>>

\* Only loads that wait for no store are sent to the L1D, and no store to their
\* address that is still in the queue is older.
ReadsAreCurrent ==
  \A q \in Slot : LQ[q] # NoEntry =>
    /\ LQ[q].fetch_issued => LQ[q].producer_id = NoProducer
    /\ LQ[q].producer_id = NoProducer =>
         \A i \in 1..Len(SQ) : SQ[i].virtual_address = LQ[q].virtual_address => LQ[q].instr_id <= SQ[i].instr_id

Inv ==
  /\ TypeOK /\ IssuedStoresFirst /\ MemoryOpsAddUp /\ WaitingLoadsHaveTheirStore
  /\ Programmed /\ StoresInOrder /\ Counted /\ HasRoom /\ ReadsAreCurrent

-----------------------------------------------------------------------------
(* Sequences and sets *)

LEMMA Entries ==
  ASSUME NEW S, NEW q \in Seq(S)
  PROVE  /\ Len(q) \in Nat /\ DOMAIN q = 1..Len(q) /\ \A k \in 1..Len(q) : q[k] \in S
         /\ q = <<>> <=> Len(q) = 0
BY LenProperties, ElementOfSeq, EmptySeq

LEMMA SeqFrom ==
  ASSUME NEW S, NEW n \in Nat, NEW q, q = [k \in 1..n |-> q[k]], \A k \in 1..n : q[k] \in S
  PROVE  q \in Seq(S) /\ Len(q) = n
<1>1. q \in [1..n -> S]
  OBVIOUS
<1> QED BY <1>1, SeqDef, LenProperties

LEMMA Appended ==
  ASSUME NEW S, NEW q \in Seq(S), NEW x \in S, NEW r, r = Append(q, x)
  PROVE  /\ r \in Seq(S) /\ Len(r) = Len(q) + 1 /\ Len(q) \in Nat
         /\ \A k \in 1..Len(q) : k \in 1..Len(r) /\ r[k] = q[k]
         /\ Len(q) + 1 \in 1..Len(r) /\ r[Len(q) + 1] = x
         /\ \A k \in 1..Len(r) : k \in 1..Len(q) \/ k = Len(q) + 1
<1>1. /\ r \in Seq(S) /\ Len(r) = Len(q) + 1 /\ Len(q) \in Nat
      /\ \A k \in 1..Len(q) : r[k] = q[k]
      /\ r[Len(q) + 1] = x
  BY AppendProperties, LenProperties
<1> QED BY <1>1

LEMMA Rest ==
  ASSUME NEW S, NEW q \in Seq(S), q # <<>>, NEW r, r = Tail(q)
  PROVE  /\ r \in Seq(S) /\ Len(r) = Len(q) - 1 /\ Len(q) \in Nat \ {0} /\ Head(q) = q[1]
         /\ \A k \in 1..Len(r) : k + 1 \in 1..Len(q) /\ k + 1 # 1 /\ r[k] = q[k + 1]
         /\ \A k \in 1..Len(q) : k # 1 => k - 1 \in 1..Len(r) /\ r[k - 1] = q[k]
<1>1. Len(q) \in Nat \ {0} /\ Head(q) = q[1]
  BY Entries
<1>2. /\ r \in Seq(S) /\ Len(r) = Len(q) - 1
      /\ \A k \in 1..Len(r) : r[k] = q[k + 1]
  BY HeadTailProperties
<1>3. ASSUME NEW k \in 1..Len(q), k # 1
      PROVE  k - 1 \in 1..Len(r) /\ r[k - 1] = q[k]
  <2>1. k - 1 \in 1..Len(r) /\ (k - 1) + 1 = k
    BY <1>1, <1>2, <1>3
  <2> QED BY <1>2, <2>1
<1> QED BY <1>1, <1>2, <1>3

LEMMA LeastOf ==
  ASSUME NEW T, T \subseteq Nat, T # {}
  PROVE  \E x \in T : \A y \in T : x <= y
<1>1. PICK R : IsWellFoundedOn(R, Nat) /\ \A x, y \in Nat : x < y => <<x, y>> \in R
  <2> DEFINE R == OpToRel(<, Nat)
  <2>1. IsWellFoundedOn(R, Nat)
    BY NatLessThanWellFounded
  <2>2. \A x, y \in Nat : x < y => <<x, y>> \in R
    BY DEF OpToRel
  <2> HIDE DEF R
  <2> QED BY <2>1, <2>2
<1>2. PICK x \in T : \A y \in T : ~ (<<y, x>> \in R)
  <2>1. IsWellFoundedOn(R, Nat)
    BY <1>1
  <2> QED BY <2>1, WFMin
<1>3. ASSUME NEW y \in T PROVE x <= y
  <2>1. x \in Nat /\ y \in Nat /\ ~(y < x)
    BY <1>1, <1>2
  <2> QED BY <2>1
<1> QED BY <1>3

\* The last of some positions.
LEMMA MaxIs ==
  ASSUME NEW n \in Nat, NEW T \in SUBSET (1..n), T # {}
  PROVE  Max(T) \in T /\ \A y \in T : y <= Max(T)
<1> DEFINE U == {n - y : y \in T}
<1>0. \A y \in T : y \in Int /\ n - y \in Nat
  OBVIOUS
<1>1. U \subseteq Nat /\ U # {}
  <2>1. PICK z : z \in T
    OBVIOUS
  <2>2. n - z \in U
    BY <2>1
  <2>3. U \subseteq Nat
    BY <1>0
  <2> QED BY <2>2, <2>3
<1>2. PICK u \in U : \A y \in U : u <= y
  BY <1>1, LeastOf
<1>3. PICK x \in T : u = n - x
  OBVIOUS
<1>4. \A y \in T : x >= y
  <2> SUFFICES ASSUME NEW y \in T PROVE x >= y
    OBVIOUS
  <2>1. n - x <= n - y /\ x \in Int /\ y \in Int
    BY <1>0, <1>2, <1>3
  <2> QED BY <2>1
<1>5. Max(T) \in T /\ \A y \in T : Max(T) >= y
  BY <1>3, <1>4 DEF Max
<1> QED BY <1>5

LEMMA Finite ==
  /\ IsFiniteSet(Slot)
  /\ \A n \in Nat : IsFiniteSet(1..n)
BY FS_Interval DEF Slot

\* Positions that all move one down are as many.
LEMMA ShiftedDown ==
  ASSUME NEW n \in Nat, NEW S \in SUBSET (1..n), NEW T, T \subseteq Int,
         \A k \in Int : k \in T <=> k + 1 \in S
  PROVE  Cardinality(T) = Cardinality(S)
<1> DEFINE f == [k \in S |-> k - 1]
<1>1. IsFiniteSet(S)
  BY Finite, FS_Subset
<1>2. \A k \in S : k \in Int /\ k - 1 \in T
  BY \A k \in S : k \in Int /\ (k - 1) + 1 = k
<1>3. f \in [S -> T]
  BY <1>2
<1>4. IsInjective(f)
  BY <1>2 DEF IsInjective
<1>5. \A t \in T : \E s \in S : f[s] = t
  <2> SUFFICES ASSUME NEW t \in T PROVE t + 1 \in S /\ f[t + 1] = t
    OBVIOUS
  <2> QED OBVIOUS
<1>6. f \in Bijection(S, T)
  BY <1>3, <1>4, <1>5 DEF Bijection, Injection, Surjection
<1>7. ExistsBijection(S, T)
  BY <1>6 DEF ExistsBijection
<1> QED BY <1>1, <1>7, FS_Bijection

-----------------------------------------------------------------------------
(* What the operations find *)

LEMMA QueuesAre ==
  ASSUME TypeOK
  PROVE  /\ Len(ROB) \in Nat /\ DOMAIN ROB = 1..Len(ROB) /\ \A k \in 1..Len(ROB) : ROB[k] \in Instruction
         /\ Len(SQ) \in Nat /\ DOMAIN SQ = 1..Len(SQ) /\ \A i \in 1..Len(SQ) : SQ[i] \in StoreEntry
         /\ \A q \in Slot : LQ[q] # NoEntry => LQ[q] \in LoadEntry
         /\ \A q \in Slot : q \in Allocated <=> LQ[q] # NoEntry
         /\ \A q : q \in Allocated => q \in Slot
         /\ next_id \in Nat \ {0}
<1>1. ROB \in Seq(Instruction) /\ SQ \in Seq(StoreEntry)
  BY DEF TypeOK
<1> QED BY <1>1, Entries DEF TypeOK, Allocated

LEMMA FirstFreeIs ==
  ASSUME FreeSlots # {}
  PROVE  FirstFree \in Slot /\ LQ[FirstFree] = NoEntry
<1>1. FreeSlots \subseteq Nat
  BY DEF FreeSlots, Slot
<1>2. FirstFree \in FreeSlots
  BY <1>1, LeastOf DEF FirstFree
<1> QED BY <1>2 DEF FreeSlots, Allocated

\* A load that is being scheduled has a slot, and its instruction is the youngest.
LEMMA NextLoadIs ==
  ASSUME TypeOK, HasRoom, Programmed, NextLoad
  PROVE  /\ stage = "schedule" /\ FirstFree \in Slot /\ LQ[FirstFree] = NoEntry
         /\ Head(operands.source_memory) \in Address
         /\ operands.source_memory \in Seq(Address) /\ operands.source_memory # <<>>
         /\ operands.destination_memory \in Seq(Address)
         /\ operands'.source_memory = Tail(operands.source_memory)
         /\ operands'.destination_memory = operands.destination_memory
         /\ operands' \in [source_memory : Seq(Address), destination_memory : Seq(Address)]
         /\ Len(ROB) \in 1..Len(ROB) /\ Last(ROB) = ROB[Len(ROB)] /\ Last(ROB).instr_id = next_id - 1
         /\ ROB[Len(ROB)] \in Instruction
<1>1. stage = "schedule" /\ operands.source_memory # <<>>
      /\ operands' = [operands EXCEPT !.source_memory = Tail(operands.source_memory)]
  BY DEF NextLoad
<1>2. operands.source_memory \in Seq(Address) /\ operands.destination_memory \in Seq(Address)
      /\ operands \in [source_memory : Seq(Address), destination_memory : Seq(Address)]
  BY DEF TypeOK
<1>3. Head(operands.source_memory) \in Address /\ Tail(operands.source_memory) \in Seq(Address)
      /\ Len(operands.source_memory) \in Nat \ {0}
  BY <1>1, <1>2, HeadTailProperties, Entries
<1>4. FreeSlots # {}
  <2> SUFFICES ASSUME FreeSlots = {} PROVE FALSE
    OBVIOUS
  <2>1. Cardinality(FreeSlots) >= Len(operands.source_memory)
    BY <1>1 DEF HasRoom, LQHasRoom
  <2>2. Cardinality({}) = 0
    BY FS_EmptySet
  <2>3. Cardinality(FreeSlots) = 0
    BY <2>2
  <2> QED BY <1>3, <2>1, <2>3
<1>5. Len(ROB) \in 1..Len(ROB) /\ Last(ROB) = ROB[Len(ROB)] /\ Last(ROB).instr_id = next_id - 1
      /\ ROB[Len(ROB)] \in Instruction
  BY <1>1, QueuesAre DEF Programmed, Last
<1> QED BY <1>1, <1>2, <1>3, <1>4, <1>5, FirstFreeIs

-----------------------------------------------------------------------------
(* What the operations change *)

\* Another instruction at position k, with the same number.
LEMMA InstructionChanges ==
  ASSUME TypeOK, NEW k \in 1..Len(ROB), NEW x \in Instruction, x.instr_id = ROB[k].instr_id,
         ROB' = [ROB EXCEPT ![k] = x]
  PROVE  /\ ROB' \in Seq(Instruction) /\ Len(ROB') = Len(ROB)
         /\ \A j \in 1..Len(ROB) : /\ ROB'[j] = IF j = k THEN x ELSE ROB[j]
                                   /\ ROB'[j].instr_id = ROB[j].instr_id
BY ExceptSeq DEF TypeOK

\* How many operations of instruction id end with S and ids.
EndedOf(S, ids, id) ==
  Cardinality({q \in S : LQ[q].instr_id = id}) + (IF id \in ids THEN 1 ELSE 0)

\* The operations of S and ids are counted, and nothing else changes.
LEMMA FinishIs ==
  ASSUME TypeOK, NEW S \in SUBSET Slot, NEW ids, Finish(S, ids)
  PROVE  /\ ROB' \in Seq(Instruction) /\ Len(ROB') = Len(ROB)
         /\ \A k \in 1..Len(ROB) :
              /\ ROB'[k].instr_id = ROB[k].instr_id
              /\ ROB'[k].num_mem_ops = ROB[k].num_mem_ops
              /\ ROB'[k].completed <=> ROB[k].completed
              /\ ROB'[k].completed_mem_ops = ROB[k].completed_mem_ops + EndedOf(S, ids, ROB[k].instr_id)
              /\ ROB[k].completed_mem_ops \in Nat /\ EndedOf(S, ids, ROB[k].instr_id) \in Nat
<1>1. Len(ROB) \in Nat /\ DOMAIN ROB = 1..Len(ROB) /\ \A k \in 1..Len(ROB) : ROB[k] \in Instruction
  BY QueuesAre
<1>2. ROB' = [k \in 1..Len(ROB) |-> CountedBy(ROB[k], S, ids)]
  BY <1>1 DEF Finish
<1>3. ASSUME NEW k \in 1..Len(ROB)
      PROVE  /\ ROB'[k] \in Instruction
             /\ ROB'[k].instr_id = ROB[k].instr_id
             /\ ROB'[k].num_mem_ops = ROB[k].num_mem_ops
             /\ ROB'[k].completed <=> ROB[k].completed
             /\ ROB'[k].completed_mem_ops = ROB[k].completed_mem_ops + EndedOf(S, ids, ROB[k].instr_id)
             /\ ROB[k].completed_mem_ops \in Nat /\ EndedOf(S, ids, ROB[k].instr_id) \in Nat
  <2>1. PICK n : n = Cardinality({q \in S : LQ[q].instr_id = ROB[k].instr_id})
    OBVIOUS
  <2>2. n \in Nat
    <3>1. {q \in S : LQ[q].instr_id = ROB[k].instr_id} \in SUBSET Slot
      OBVIOUS
    <3>2. IsFiniteSet({q \in S : LQ[q].instr_id = ROB[k].instr_id})
      BY <3>1, Finite, FS_Subset
    <3> QED BY <2>1, <3>2, FS_CardinalityType
  <2>3. PICK m : m = IF ROB[k].instr_id \in ids THEN 1 ELSE 0
    OBVIOUS
  <2>4. ROB[k] \in Instruction /\ m \in Nat
    BY <1>1, <2>3
  <2>5. PICK c : c = ROB[k].completed_mem_ops + n + m
    OBVIOUS
  <2>6. c \in Nat
    BY <2>2, <2>4, <2>5 DEF Instruction
  <2>7. ROB'[k] = [ROB[k] EXCEPT !.completed_mem_ops = c]
    BY <1>2, <2>1, <2>3, <2>5 DEF CountedBy
  <2>8. /\ ROB'[k] \in Instruction
        /\ ROB'[k].instr_id = ROB[k].instr_id
        /\ ROB'[k].num_mem_ops = ROB[k].num_mem_ops
        /\ ROB'[k].completed <=> ROB[k].completed
        /\ ROB'[k].completed_mem_ops = c
    BY <2>4, <2>6, <2>7 DEF Instruction
  <2>9. PICK d : d = ROB[k].completed_mem_ops
    OBVIOUS
  <2>10. d \in Nat
    BY <2>4, <2>9 DEF Instruction
  <2>11. EndedOf(S, ids, ROB[k].instr_id) = n + m
    BY <2>1, <2>3 DEF EndedOf
  <2>12. c = d + (n + m) /\ n + m \in Nat
    BY <2>2, <2>4, <2>5, <2>9, <2>10
  <2> QED BY <2>8, <2>9, <2>10, <2>11, <2>12
<1>4. ROB' = [k \in 1..Len(ROB) |-> ROB'[k]]
  BY <1>2
<1>5. ROB' \in Seq(Instruction) /\ Len(ROB') = Len(ROB)
  BY <1>1, <1>3, <1>4, SeqFrom
<1> QED BY <1>3, <1>5

LEMMA ReleaseIs ==
  ASSUME TypeOK, NEW S \in SUBSET Slot, Release(S)
  PROVE  /\ LQ' \in [Slot -> LoadEntry \cup {NoEntry}]
         /\ \A q \in Slot : LQ'[q] = IF q \in S THEN NoEntry ELSE LQ[q]
         /\ \A q : q \in Allocated' <=> q \in Allocated /\ q \notin S
BY DEF Release, TypeOK, Allocated

\* A load is put into a free slot.
LEMMA LoadEnters ==
  ASSUME TypeOK, NEW q \in Slot, NEW e \in LoadEntry, LQ' = [LQ EXCEPT ![q] = e]
  PROVE  /\ LQ' \in [Slot -> LoadEntry \cup {NoEntry}]
         /\ \A r \in Slot : LQ'[r] = IF r = q THEN e ELSE LQ[r]
         /\ \A r : r \in Allocated' <=> r \in Allocated \/ r = q
BY DEF TypeOK, Allocated

\* A store of the queue changes, but not whose it is and where it goes.
LEMMA StoreChanges ==
  ASSUME TypeOK, NEW i \in 1..Len(SQ), NEW x \in StoreEntry, SQ' = [SQ EXCEPT ![i] = x],
         x.instr_id = SQ[i].instr_id, x.virtual_address = SQ[i].virtual_address
  PROVE  /\ SQ' \in Seq(StoreEntry) /\ Len(SQ') = Len(SQ)
         /\ \A j \in 1..Len(SQ) : /\ SQ'[j] = IF j = i THEN x ELSE SQ[j]
                                  /\ SQ'[j].instr_id = SQ[j].instr_id
                                  /\ SQ'[j].virtual_address = SQ[j].virtual_address
BY ExceptSeq DEF TypeOK

\* HandleReturn ends loads that have been sent.
LEMMA HandleReturnIs ==
  ASSUME TypeOK, HandleReturn
  PROVE  \E S \in SUBSET Slot :
           /\ S \subseteq Allocated /\ \A q \in S : LQ[q].fetch_issued
           /\ Finish(S, {}) /\ Release(S) /\ ended' = InFlight(S)
<1>1. PICK S : S = LoadsOf(Head(returned))
  OBVIOUS
<1> QED BY <1>1 DEF HandleReturn, LoadsOf, Allocated

Executed(x) == [x EXCEPT !.fetch_issued = TRUE]

\* FinishStore ends the loads that wait for the first store that has not executed.
FinishesAt(i, S) ==
  /\ FirstUnissued(i) /\ S = SQ[i].lq_depend_on_me
  /\ Finish(S, {SQ[i].instr_id}) /\ Release(S) /\ ended' = InFlight(S)
  /\ SQ' = [SQ EXCEPT ![i] = Executed(SQ[i])]

LEMMA FinishStoreIs ==
  ASSUME TypeOK, FinishStore
  PROVE  \E i \in 1..Len(SQ) : \E S \in SUBSET Slot : FinishesAt(i, S)
<1>1. PICK i \in DOMAIN SQ :
        /\ FirstUnissued(i)
        /\ Finish(Dependents(i), {SQ[i].instr_id})
        /\ Release(Dependents(i))
        /\ ended' = InFlight(Dependents(i))
        /\ SQ' = [SQ EXCEPT ![i].fetch_issued = TRUE]
  BY DEF FinishStore
<1>2. i \in 1..Len(SQ) /\ SQ[i] \in StoreEntry
  BY QueuesAre
<1>3. PICK S : S = SQ[i].lq_depend_on_me
  OBVIOUS
<1>4. S \in SUBSET Slot
  BY <1>2, <1>3 DEF StoreEntry
<1>5. FinishesAt(i, S)
  BY <1>1, <1>3 DEF FinishesAt, Dependents, Executed
<1> QED BY <1>2, <1>4, <1>5

LEMMA FinishesAtIs ==
  ASSUME TypeOK, NEW i \in 1..Len(SQ), NEW S \in SUBSET Slot, FinishesAt(i, S)
  PROVE  /\ ~SQ[i].fetch_issued /\ \A j \in 1..Len(SQ) : j < i => SQ[j].fetch_issued
         /\ SQ' \in Seq(StoreEntry) /\ Len(SQ') = Len(SQ)
         /\ \A j \in 1..Len(SQ) :
              /\ SQ'[j].instr_id = SQ[j].instr_id /\ SQ'[j].virtual_address = SQ[j].virtual_address
              /\ SQ'[j].lq_depend_on_me = SQ[j].lq_depend_on_me
              /\ SQ'[j].fetch_issued <=> SQ[j].fetch_issued \/ j = i
<1>1. PICK x : x = Executed(SQ[i])
  OBVIOUS
<1>2. SQ[i] \in StoreEntry /\ Len(SQ) \in Nat
  BY QueuesAre
<1>3. /\ x \in StoreEntry /\ x.instr_id = SQ[i].instr_id /\ x.virtual_address = SQ[i].virtual_address
      /\ x.lq_depend_on_me = SQ[i].lq_depend_on_me /\ x.fetch_issued
  BY <1>1, <1>2 DEF Executed, StoreEntry
<1>4. /\ SQ' \in Seq(StoreEntry) /\ Len(SQ') = Len(SQ)
      /\ \A j \in 1..Len(SQ) : /\ SQ'[j] = IF j = i THEN x ELSE SQ[j]
                               /\ SQ'[j].instr_id = SQ[j].instr_id
                               /\ SQ'[j].virtual_address = SQ[j].virtual_address
  BY <1>1, <1>3, StoreChanges DEF FinishesAt
<1>5. ~SQ[i].fetch_issued /\ \A j \in 1..Len(SQ) : j < i => SQ[j].fetch_issued
  <2>1. ~SQ[i].fetch_issued /\ \A j \in 1..(i - 1) : SQ[j].fetch_issued
    BY DEF FinishesAt, FirstUnissued
  <2>2. \A j \in 1..Len(SQ) : j < i => j \in 1..(i - 1)
    BY <1>2
  <2> QED BY <2>1, <2>2
<1> QED BY <1>3, <1>4, <1>5

\* WriteStore takes the first store, which has executed.
LEMMA WriteStoreIs ==
  ASSUME TypeOK, MemoryOpsAddUp, Programmed, WriteStore
  PROVE  /\ SQ \in Seq(StoreEntry) /\ SQ # <<>> /\ SQ' = Tail(SQ) /\ 1 \in 1..Len(SQ) /\ Head(SQ) = SQ[1]
         /\ SQ[1] \in StoreEntry /\ SQ[1].fetch_issued
         /\ \A k \in 1..Len(ROB) : SQ[1].instr_id < ROB[k].instr_id
         /\ memory' = [memory EXCEPT ![SQ[1].virtual_address] = SQ[1].instr_id]
<1>1. SQ \in Seq(StoreEntry) /\ SQ # <<>> /\ SQ' = Tail(SQ) /\ IsRetired(Head(SQ))
      /\ memory' = [memory EXCEPT ![Head(SQ).virtual_address] = Head(SQ).instr_id]
  BY DEF WriteStore, TypeOK
<1>2. 1 \in 1..Len(SQ) /\ Head(SQ) = SQ[1] /\ SQ[1] \in StoreEntry
  BY <1>1, Entries
<1>3. ASSUME NEW k \in 1..Len(ROB)
      PROVE  SQ[1].instr_id < ROB[k].instr_id
  <2>1. ROB \in Seq(Instruction) /\ ROB # <<>>
    BY QueuesAre, EmptySeq DEF TypeOK
  <2>2. Head(ROB) = ROB[1] /\ Len(ROB) \in Nat /\ 1 \in 1..Len(ROB)
    BY <2>1, Entries
  <2>3. ROB[1] \in Instruction /\ ROB[k] \in Instruction
    BY QueuesAre, <2>2
  <2>4. SQ[1].instr_id < ROB[1].instr_id
    BY <1>1, <1>2, <2>1, <2>2 DEF IsRetired
  <2>5. k = 1 \/ ROB[1].instr_id < ROB[k].instr_id
    BY <2>2 DEF Programmed, InProgramOrder
  <2>6. SQ[1].instr_id \in Nat /\ ROB[1].instr_id \in Nat /\ ROB[k].instr_id \in Nat
    <3>1. SQ[1].instr_id \in Nat
      BY <1>2 DEF StoreEntry
    <3>2. ROB[1].instr_id \in Nat /\ ROB[k].instr_id \in Nat
      BY <2>3 DEF Instruction
    <3> QED BY <3>1, <3>2
  <2> QED BY <2>4, <2>5, <2>6
<1>4. SQ[1].fetch_issued
  <2> SUFFICES ASSUME ~SQ[1].fetch_issued PROVE FALSE
    OBVIOUS
  <2>1. PICK k \in 1..Len(ROB) : ROB[k].instr_id = SQ[1].instr_id
    BY <1>2, QueuesAre DEF MemoryOpsAddUp
  <2>2. SQ[1].instr_id < ROB[k].instr_id /\ SQ[1].instr_id \in Nat
    BY <1>2, <1>3 DEF StoreEntry
  <2> QED BY <2>1, <2>2
<1> QED BY <1>1, <1>2, <1>3, <1>4

\* Retire takes the first instruction, which has completed.
LEMMA RetireIs ==
  ASSUME TypeOK, Retire
  PROVE  /\ ROB \in Seq(Instruction) /\ ROB # <<>> /\ ROB' = Tail(ROB) /\ ROB[1].completed
         /\ UNCHANGED <<LQ, SQ, stage, operands, next_id>>
<1>1. ROB \in Seq(Instruction) /\ ROB # <<>>
  BY DEF TypeOK, Retire
<1>2. Head(ROB) = ROB[1]
  BY <1>1, Rest
<1> QED BY <1>1, <1>2 DEF Retire

\* What Complete and Execute change of an instruction.
LEMMA CompleteIs ==
  ASSUME TypeOK, NEW k \in DOMAIN ROB, Complete(k)
  PROVE  /\ ROB' \in Seq(Instruction) /\ Len(ROB') = Len(ROB)
         /\ \A j \in 1..Len(ROB) :
              /\ ROB'[j].instr_id = ROB[j].instr_id
              /\ ROB'[j].num_mem_ops = ROB[j].num_mem_ops
              /\ ROB'[j].completed_mem_ops = ROB[j].completed_mem_ops
              /\ ROB'[j].completed => ROB[j].completed \/ ROB[j].completed_mem_ops = ROB[j].num_mem_ops
<1>1. PICK x : x = [ROB[k] EXCEPT !.completed = TRUE]
  OBVIOUS
<1>2. k \in 1..Len(ROB) /\ ROB[k] \in Instruction
  BY QueuesAre
<1>3. /\ x \in Instruction /\ x.instr_id = ROB[k].instr_id /\ x.num_mem_ops = ROB[k].num_mem_ops
      /\ x.completed_mem_ops = ROB[k].completed_mem_ops
  BY <1>1, <1>2 DEF Instruction
<1>4. ROB' = [ROB EXCEPT ![k] = x] /\ ROB[k].completed_mem_ops = ROB[k].num_mem_ops
  BY <1>1 DEF Complete, CanComplete
<1>5. /\ ROB' \in Seq(Instruction) /\ Len(ROB') = Len(ROB)
      /\ \A j \in 1..Len(ROB) : /\ ROB'[j] = IF j = k THEN x ELSE ROB[j]
                                /\ ROB'[j].instr_id = ROB[j].instr_id
  BY <1>2, <1>3, <1>4, InstructionChanges
<1>6. SUFFICES ASSUME NEW j \in 1..Len(ROB)
      PROVE  /\ ROB'[j].num_mem_ops = ROB[j].num_mem_ops
             /\ ROB'[j].completed_mem_ops = ROB[j].completed_mem_ops
             /\ (ROB'[j].completed => ROB[j].completed \/ ROB[j].completed_mem_ops = ROB[j].num_mem_ops)
  BY <1>5
<1>7. ROB[j] \in Instruction
  BY QueuesAre
<1>8. CASE j = k
  BY <1>3, <1>4, <1>5, <1>8
<1>9. CASE j # k
  BY <1>5, <1>9
<1> QED BY <1>8, <1>9

LEMMA ExecuteIs ==
  ASSUME TypeOK, NEW k \in DOMAIN ROB, Execute(k)
  PROVE  /\ ROB' \in Seq(Instruction) /\ Len(ROB') = Len(ROB)
         /\ \A j \in 1..Len(ROB) :
              /\ ROB'[j].instr_id = ROB[j].instr_id
              /\ ROB'[j].num_mem_ops = ROB[j].num_mem_ops
              /\ ROB'[j].completed_mem_ops = ROB[j].completed_mem_ops
              /\ ROB'[j].completed <=> ROB[j].completed
<1>1. PICK x : x = [ROB[k] EXCEPT !.executed = TRUE]
  OBVIOUS
<1>2. k \in 1..Len(ROB) /\ ROB[k] \in Instruction
  BY QueuesAre
<1>3. /\ x \in Instruction /\ x.instr_id = ROB[k].instr_id /\ x.num_mem_ops = ROB[k].num_mem_ops
      /\ x.completed_mem_ops = ROB[k].completed_mem_ops /\ (x.completed <=> ROB[k].completed)
  BY <1>1, <1>2 DEF Instruction
<1>4. ROB' = [ROB EXCEPT ![k] = x]
  BY <1>1 DEF Execute
<1>5. /\ ROB' \in Seq(Instruction) /\ Len(ROB') = Len(ROB)
      /\ \A j \in 1..Len(ROB) : /\ ROB'[j] = IF j = k THEN x ELSE ROB[j]
                                /\ ROB'[j].instr_id = ROB[j].instr_id
  BY <1>2, <1>3, <1>4, InstructionChanges
<1>6. SUFFICES ASSUME NEW j \in 1..Len(ROB)
      PROVE  /\ ROB'[j].num_mem_ops = ROB[j].num_mem_ops
             /\ ROB'[j].completed_mem_ops = ROB[j].completed_mem_ops
             /\ (ROB'[j].completed <=> ROB[j].completed)
  BY <1>5
<1>7. ROB[j] \in Instruction
  BY QueuesAre
<1>8. CASE j = k
  BY <1>3, <1>4, <1>5, <1>8
<1>9. CASE j # k
  BY <1>5, <1>9
<1> QED BY <1>8, <1>9

\* A load that ends at once is counted by the youngest instruction.
LEMMA ForwardLoadIs ==
  ASSUME TypeOK, HasRoom, Programmed, ForwardLoad
  PROVE  /\ ROB' \in Seq(Instruction) /\ Len(ROB') = Len(ROB)
         /\ \A j \in 1..Len(ROB) :
              /\ ROB'[j].instr_id = ROB[j].instr_id
              /\ ROB'[j].num_mem_ops = ROB[j].num_mem_ops
              /\ ROB'[j].completed_mem_ops = IF j = Len(ROB) THEN ROB[j].completed_mem_ops + 1
                                                             ELSE ROB[j].completed_mem_ops
              /\ ROB'[j].completed <=> ROB[j].completed
         /\ UNCHANGED <<LQ, SQ, stage, next_id>>
<1> DEFINE n == Len(ROB)
<1>1. n \in 1..Len(ROB) /\ ROB[n] \in Instruction
  BY NextLoadIs DEF ForwardLoad
<1>2. PICK c : c = ROB[n].completed_mem_ops + 1
  OBVIOUS
<1>3. PICK x : x = [ROB[n] EXCEPT !.completed_mem_ops = c]
  OBVIOUS
<1>4. c \in Nat
  BY <1>1, <1>2 DEF Instruction
<1>5. /\ x \in Instruction /\ x.instr_id = ROB[n].instr_id /\ x.num_mem_ops = ROB[n].num_mem_ops
      /\ x.completed_mem_ops = c /\ (x.completed <=> ROB[n].completed)
  BY <1>1, <1>3, <1>4 DEF Instruction
<1>6. ROB' = [ROB EXCEPT ![n] = x] /\ UNCHANGED <<LQ, SQ, stage, next_id>>
  BY <1>2, <1>3 DEF ForwardLoad, NextLoad
<1> HIDE DEF n
<1>7. /\ ROB' \in Seq(Instruction) /\ Len(ROB') = Len(ROB)
      /\ \A j \in 1..Len(ROB) : /\ ROB'[j] = IF j = n THEN x ELSE ROB[j]
                                /\ ROB'[j].instr_id = ROB[j].instr_id
  BY <1>1, <1>5, <1>6, InstructionChanges
<1>8. SUFFICES ASSUME NEW j \in 1..Len(ROB)
      PROVE  /\ ROB'[j].num_mem_ops = ROB[j].num_mem_ops
             /\ ROB'[j].completed_mem_ops = IF j = n THEN ROB[j].completed_mem_ops + 1
                                                     ELSE ROB[j].completed_mem_ops
             /\ ROB'[j].completed <=> ROB[j].completed
  BY <1>6, <1>7 DEF n
<1>9. CASE j = n
  BY <1>2, <1>5, <1>7, <1>9
<1>10. CASE j # n
  BY <1>7, <1>10
<1> QED BY <1>9, <1>10

\* The new load of AwaitStore and ScheduleLoad.
LEMMA NewLoadIs ==
  ASSUME TypeOK, HasRoom, Programmed, NextLoad, NEW p \in 1..MaxInstr \cup {NoProducer},
         NEW e, e = NewLoad(Head(operands.source_memory), p)
  PROVE  /\ e \in LoadEntry /\ e.instr_id = next_id - 1 /\ ~e.fetch_issued /\ e.producer_id = p
         /\ e.virtual_address = Head(operands.source_memory)
<1>1. /\ Head(operands.source_memory) \in Address /\ Last(ROB).instr_id = next_id - 1
      /\ Last(ROB) \in Instruction
  BY NextLoadIs
<1>2. Last(ROB).instr_id \in 1..MaxInstr
  BY <1>1 DEF Instruction
<1> QED BY <1>1, <1>2 DEF NewLoad, LoadEntry

\* What AwaitStore does: the load e enters slot q and waits for the store i.
Awaits(i, q, e) ==
  /\ YoungestStoreTo(e.virtual_address, i) /\ ~SQ[i].fetch_issued
  /\ SQ' = [SQ EXCEPT ![i] = [SQ[i] EXCEPT !.lq_depend_on_me = SQ[i].lq_depend_on_me \cup {q}]]
  /\ LQ' = [LQ EXCEPT ![q] = e] /\ LQ[q] = NoEntry
  /\ e.instr_id = next_id - 1 /\ ~e.fetch_issued /\ e.producer_id = SQ[i].instr_id
  /\ e.virtual_address = Head(operands.source_memory)
  /\ UNCHANGED <<ROB, stage, next_id>>

LEMMA AwaitStoreIs ==
  ASSUME TypeOK, HasRoom, Programmed, AwaitStore
  PROVE  \E i \in 1..Len(SQ), q \in Slot, e \in LoadEntry : Awaits(i, q, e)
<1>1. PICK a : a = Head(operands.source_memory)
  OBVIOUS
<1>2. PICK q : q = FirstFree
  OBVIOUS
<1>3. PICK i \in DOMAIN SQ :
        /\ YoungestStoreTo(a, i) /\ ~SQ[i].fetch_issued
        /\ SQ' = [SQ EXCEPT ![i].lq_depend_on_me = SQ[i].lq_depend_on_me \cup {q}]
        /\ LQ' = [LQ EXCEPT ![q] = NewLoad(a, SQ[i].instr_id)]
  BY <1>1, <1>2 DEF AwaitStore
<1>4. PICK e : e = NewLoad(a, SQ[i].instr_id)
  OBVIOUS
<1>5. i \in 1..Len(SQ) /\ SQ[i] \in StoreEntry
  BY QueuesAre
<1>6. SQ[i].instr_id \in 1..MaxInstr
  BY <1>5 DEF StoreEntry
<1>7. NextLoad /\ UNCHANGED <<ROB, stage, next_id>>
  BY DEF AwaitStore, NextLoad
<1>8. /\ e \in LoadEntry /\ e.instr_id = next_id - 1 /\ ~e.fetch_issued
      /\ e.producer_id = SQ[i].instr_id /\ e.virtual_address = a
  BY <1>1, <1>4, <1>6, <1>7, NewLoadIs
<1>9. q \in Slot /\ LQ[q] = NoEntry
  BY <1>2, <1>7, NextLoadIs
<1>10. Awaits(i, q, e)
  BY <1>1, <1>3, <1>4, <1>7, <1>8, <1>9 DEF Awaits
<1> QED BY <1>5, <1>8, <1>9, <1>10

LEMMA AwaitsIs ==
  ASSUME TypeOK, NEW i \in 1..Len(SQ), NEW q \in Slot, NEW e \in LoadEntry, Awaits(i, q, e)
  PROVE  /\ SQ' \in Seq(StoreEntry) /\ Len(SQ') = Len(SQ)
         /\ \A j \in 1..Len(SQ) :
              /\ SQ'[j].instr_id = SQ[j].instr_id /\ SQ'[j].virtual_address = SQ[j].virtual_address
              /\ SQ'[j].fetch_issued <=> SQ[j].fetch_issued
              /\ SQ'[j].lq_depend_on_me = IF j = i THEN SQ[j].lq_depend_on_me \cup {q}
                                                   ELSE SQ[j].lq_depend_on_me
<1>0. PICK D : D = SQ[i].lq_depend_on_me \cup {q}
  OBVIOUS
<1>1. PICK x : x = [SQ[i] EXCEPT !.lq_depend_on_me = D]
  OBVIOUS
<1>2. SQ[i] \in StoreEntry /\ Len(SQ) \in Nat
  BY QueuesAre
<1>3. D \in SUBSET Slot
  BY <1>0, <1>2 DEF StoreEntry
<1>4. /\ x \in StoreEntry /\ x.instr_id = SQ[i].instr_id /\ x.virtual_address = SQ[i].virtual_address
      /\ x.lq_depend_on_me = D /\ (x.fetch_issued <=> SQ[i].fetch_issued)
  BY <1>1, <1>2, <1>3 DEF StoreEntry
<1>5. SQ' = [SQ EXCEPT ![i] = x]
  BY <1>0, <1>1 DEF Awaits
<1>6. /\ SQ' \in Seq(StoreEntry) /\ Len(SQ') = Len(SQ)
      /\ \A j \in 1..Len(SQ) : /\ SQ'[j] = IF j = i THEN x ELSE SQ[j]
                               /\ SQ'[j].instr_id = SQ[j].instr_id
                               /\ SQ'[j].virtual_address = SQ[j].virtual_address
  BY <1>4, <1>5, StoreChanges
<1> QED BY <1>0, <1>4, <1>6

\* What ScheduleLoad does: the load e enters slot q, and no store has its address.
Reads(q, e) ==
  /\ \A i \in 1..Len(SQ) : SQ[i].virtual_address # e.virtual_address
  /\ LQ' = [LQ EXCEPT ![q] = e] /\ LQ[q] = NoEntry
  /\ e.instr_id = next_id - 1 /\ ~e.fetch_issued /\ e.producer_id = NoProducer
  /\ e.virtual_address = Head(operands.source_memory)
  /\ UNCHANGED <<ROB, SQ, stage, next_id>>

\* Where there is a store to an address there is a youngest one.
LEMMA YoungestExists ==
  ASSUME TypeOK, StoresInOrder, NEW i \in 1..Len(SQ)
  PROVE  \E k \in DOMAIN SQ : YoungestStoreTo(SQ[i].virtual_address, k)
<1> DEFINE a == SQ[i].virtual_address
           T == {j \in 1..Len(SQ) : SQ[j].virtual_address = a}
<1>0. Len(SQ) \in Nat /\ DOMAIN SQ = 1..Len(SQ) /\ \A j \in 1..Len(SQ) : SQ[j].instr_id \in Nat
  BY QueuesAre DEF StoreEntry
<1>1. T \in SUBSET (1..Len(SQ)) /\ T # {}
  OBVIOUS
<1>2. PICK m : m = Max(T)
  OBVIOUS
<1>3. m \in T /\ \A y \in T : y <= m
  <2> HIDE DEF T
  <2> QED BY <1>0, <1>1, <1>2, MaxIs
<1> DEFINE U == {j \in T : SQ[j].instr_id = SQ[m].instr_id}
<1>4. U \subseteq Nat /\ U # {}
  <2>1. m \in U
    BY <1>3
  <2>2. \A y \in U : y \in 1..Len(SQ)
    OBVIOUS
  <2> QED BY <2>1, <2>2
<1>5. PICK k \in U : \A y \in U : k <= y
  <2> HIDE DEF U
  <2> QED BY <1>4, LeastOf
<1>6. ASSUME NEW j \in T
      PROVE  SQ[j].instr_id < SQ[k].instr_id \/ (SQ[j].instr_id = SQ[k].instr_id /\ k <= j)
  <2>1. j \in 1..Len(SQ) /\ m \in 1..Len(SQ) /\ (j < m \/ j = m)
    BY <1>0, <1>3
  <2>2. SQ[j].instr_id <= SQ[m].instr_id
    BY <1>0, <2>1 DEF StoresInOrder, StoresOrdered
  <2>3. SQ[k].instr_id = SQ[m].instr_id
    BY <1>5
  <2>4. SQ[j].instr_id = SQ[m].instr_id => k <= j
    BY <1>5, <1>6
  <2>5. SQ[j].instr_id \in Nat /\ SQ[m].instr_id \in Nat
    BY <1>0, <2>1
  <2> QED BY <2>2, <2>3, <2>4, <2>5
<1>7. k \in DOMAIN SQ /\ SQ[k].virtual_address = a
  BY <1>0, <1>5
<1>8. YoungestStoreTo(a, k)
  BY <1>0, <1>6, <1>7 DEF YoungestStoreTo
<1> QED BY <1>7, <1>8

LEMMA ScheduleLoadIs ==
  ASSUME TypeOK, HasRoom, Programmed, StoresInOrder, ScheduleLoad
  PROVE  \E q \in Slot, e \in LoadEntry : Reads(q, e)
<1>1. PICK a : a = Head(operands.source_memory)
  OBVIOUS
<1>2. PICK q : q = FirstFree
  OBVIOUS
<1>3. PICK e : e = NewLoad(a, NoProducer)
  OBVIOUS
<1>4. /\ NextLoad /\ UNCHANGED <<ROB, SQ, stage, next_id>> /\ LQ' = [LQ EXCEPT ![q] = e]
      /\ \A i \in DOMAIN SQ : ~YoungestStoreTo(a, i)
  BY <1>1, <1>2, <1>3 DEF ScheduleLoad, NextLoad
<1>5. /\ e \in LoadEntry /\ e.instr_id = next_id - 1 /\ ~e.fetch_issued
      /\ e.producer_id = NoProducer /\ e.virtual_address = a
  BY <1>1, <1>3, <1>4, NewLoadIs
<1>6. \A i \in 1..Len(SQ) : SQ[i].virtual_address # a
  BY <1>4, YoungestExists
<1>7. q \in Slot /\ LQ[q] = NoEntry
  BY <1>2, <1>4, NextLoadIs
<1>8. Reads(q, e)
  BY <1>1, <1>4, <1>5, <1>6, <1>7 DEF Reads
<1> QED BY <1>5, <1>7, <1>8

\* A store enters at the end of the queue.
Stores(x) ==
  /\ SQ' = Append(SQ, x)
  /\ x.instr_id = next_id - 1 /\ x.virtual_address = Head(operands.destination_memory)
  /\ ~x.fetch_issued /\ x.lq_depend_on_me = {}

LEMMA ScheduleStoreIs ==
  ASSUME TypeOK, Programmed, ScheduleStore
  PROVE  /\ stage = "schedule" /\ operands.source_memory = <<>>
         /\ operands.destination_memory \in Seq(Address) /\ operands.destination_memory # <<>>
         /\ operands'.source_memory = <<>>
         /\ operands'.destination_memory = Tail(operands.destination_memory)
         /\ operands' \in [source_memory : Seq(Address), destination_memory : Seq(Address)]
         /\ UNCHANGED <<ROB, LQ, stage, next_id>>
         /\ \E x \in StoreEntry : Stores(x)
<1>1. /\ stage = "schedule" /\ operands.source_memory = <<>> /\ operands.destination_memory # <<>>
      /\ operands' = [operands EXCEPT !.destination_memory = Tail(operands.destination_memory)]
      /\ UNCHANGED <<ROB, LQ, stage, next_id>>
  BY DEF ScheduleStore
<1>2. operands.destination_memory \in Seq(Address)
      /\ operands \in [source_memory : Seq(Address), destination_memory : Seq(Address)]
  BY DEF TypeOK
<1>3. Head(operands.destination_memory) \in Address /\ Tail(operands.destination_memory) \in Seq(Address)
  BY <1>1, <1>2, HeadTailProperties
<1>4. Last(ROB) \in Instruction /\ Last(ROB).instr_id = next_id - 1
  BY <1>1, QueuesAre DEF Programmed, Last
<1>5. Last(ROB).instr_id \in 1..MaxInstr
  BY <1>4 DEF Instruction
<1>6. PICK x : x = [instr_id |-> Last(ROB).instr_id,
                    virtual_address |-> Head(operands.destination_memory),
                    fetch_issued |-> FALSE, lq_depend_on_me |-> {}]
  OBVIOUS
<1>7. x \in StoreEntry
  BY <1>3, <1>5, <1>6 DEF StoreEntry
<1>8. Stores(x)
  BY <1>4, <1>6 DEF ScheduleStore, Stores
<1> QED BY <1>1, <1>2, <1>3, <1>7, <1>8

LEMMA DispatchIs ==
  ASSUME TypeOK, NEW o \in Operation, Dispatch(o)
  PROVE  /\ stage = "dispatch" /\ stage' = "schedule" /\ operands' = o /\ next_id' = next_id + 1
         /\ operands' \in [source_memory : Seq(Address), destination_memory : Seq(Address)]
         /\ next_id \in 1..MaxInstr /\ Len(ROB) < ROB_SIZE /\ LQHasRoom(o) /\ SQHasRoom(o)
         /\ UNCHANGED <<LQ, SQ>>
         /\ \E x \in Instruction :
              /\ ROB' = Append(ROB, x) /\ x.instr_id = next_id /\ ~x.completed
              /\ x.completed_mem_ops = 0
              /\ x.num_mem_ops = Len(o.source_memory) + Len(o.destination_memory)
<1>1. o \in [source_memory : Seq(Address), destination_memory : Seq(Address)]
  BY DEF LSQAssumption
<1>2. next_id \in 1..MaxInstr /\ Len(ROB) < ROB_SIZE
  BY QueuesAre DEF Dispatch, TypeOK
<1>3. Len(o.source_memory) \in Nat /\ Len(o.destination_memory) \in Nat
  BY <1>1, LenProperties
<1>4. PICK n : n = Len(o.source_memory) + Len(o.destination_memory)
  OBVIOUS
<1>5. PICK x : x = [instr_id |-> next_id, num_mem_ops |-> n,
                    completed_mem_ops |-> 0, executed |-> FALSE, completed |-> FALSE]
  OBVIOUS
<1>6. x \in Instruction
  <2>1. \A c, d \in Nat : c + d \in Nat
    OBVIOUS
  <2>2. n \in Nat
    BY <1>3, <1>4, <2>1
  <2> QED BY <1>2, <1>5, <2>2 DEF Instruction
<1> QED BY <1>1, <1>2, <1>4, <1>5, <1>6 DEF Dispatch

\* IssueLoad sends a load that waits for no store.
LEMMA IssueLoadIs ==
  ASSUME TypeOK, NEW q \in Slot, IssueLoad(q)
  PROVE  /\ LQ' \in [Slot -> LoadEntry \cup {NoEntry}]
         /\ LQ[q] # NoEntry /\ LQ[q].producer_id = NoProducer
         /\ \A r \in Slot :
              /\ LQ'[r] # NoEntry <=> LQ[r] # NoEntry
              /\ LQ[r] # NoEntry =>
                   /\ LQ'[r].instr_id = LQ[r].instr_id
                   /\ LQ'[r].virtual_address = LQ[r].virtual_address
                   /\ LQ'[r].producer_id = LQ[r].producer_id
                   /\ LQ'[r].fetch_issued <=> LQ[r].fetch_issued \/ r = q
         /\ UNCHANGED <<ROB, SQ, stage, operands, next_id>>
<1>1. LQ[q] # NoEntry /\ LQ[q].producer_id = NoProducer /\ LQ[q] \in LoadEntry
  BY QueuesAre DEF IssueLoad, CanIssue
<1>2. PICK e : e = [LQ[q] EXCEPT !.fetch_issued = TRUE]
  OBVIOUS
<1>3. /\ e \in LoadEntry /\ e.instr_id = LQ[q].instr_id /\ e.virtual_address = LQ[q].virtual_address
      /\ e.producer_id = LQ[q].producer_id /\ e.fetch_issued
  BY <1>1, <1>2 DEF LoadEntry
<1>4. LQ' = [LQ EXCEPT ![q] = e] /\ UNCHANGED <<ROB, SQ, stage, operands, next_id>>
  BY <1>2 DEF IssueLoad
<1>5. e # NoEntry
  BY <1>3, NoEntryAssumption
<1>6. /\ LQ' \in [Slot -> LoadEntry \cup {NoEntry}]
      /\ \A r \in Slot : LQ'[r] = IF r = q THEN e ELSE LQ[r]
  BY <1>3, <1>4, LoadEnters
<1> QED BY <1>1, <1>3, <1>4, <1>5, <1>6

-----------------------------------------------------------------------------
(* Types *)

LEMMA LoopsAre ==
  /\ DOMAIN Loops = 1..8 /\ Len(Loops) = 8
  /\ \A k \in 1..8 : Loops[k] \in Stage /\ Loops[k] # "schedule"
  /\ {"between", "schedule", "retire", "dispatch"} \subseteq Stage
<1>1. DOMAIN Loops = 1..8 /\ Len(Loops) = 8
  BY DEF Loops
<1>2. \A k \in 1..8 : Loops[k] \in Stage
  BY <1>1 DEF Stage, ToSet
<1>3. \A k \in 1..8 : Loops[k] # "schedule"
  BY DEF Loops
<1>4. Loops[1] = "retire" /\ Loops[8] = "dispatch"
  BY DEF Loops
<1>5. "between" \in Stage /\ "schedule" \in Stage
  BY DEF Stage
<1> QED BY <1>1, <1>2, <1>3, <1>4, <1>5

\* Outside scheduling a stage leads to another that is not scheduling.
Quiet ==
  /\ UNCHANGED <<ROB, LQ, SQ, operands, next_id, memory>>
  /\ stage' \in Stage /\ (stage' = "schedule" => stage = "schedule")

LEMMA QuietSteps ==
  ASSUME TypeOK, BeginCycle \/ NextLoop \/ EndScheduling \/ \E b \in Block : L1DAnswers(b)
  PROVE  Quiet
<1>1. CASE BeginCycle
  BY <1>1, LoopsAre DEF BeginCycle, Quiet
<1>2. CASE NextLoop
  <2>1. PICK k \in 1..8 : stage' = IF k = 8 THEN "between" ELSE Loops[k + 1]
    BY <1>2, LoopsAre DEF NextLoop
  <2>2. stage' \in Stage /\ stage' # "schedule"
    <3>1. CASE k = 8
      BY <2>1, <3>1, LoopsAre
    <3>2. CASE k # 8
      <4>1. k + 1 \in 1..8
        BY <3>2
      <4> QED BY <2>1, <3>2, <4>1, LoopsAre
    <3> QED BY <3>1, <3>2
  <2> QED BY <1>2, <2>2 DEF NextLoop, Quiet
<1>3. CASE EndScheduling
  BY <1>3, LoopsAre DEF EndScheduling, Quiet
<1>4. ASSUME NEW b \in Block, L1DAnswers(b)
      PROVE  Quiet
  BY <1>4, LoopsAre DEF L1DAnswers, Quiet
<1> QED BY <1>1, <1>2, <1>3, <1>4

LEMMA RequestsKept ==
  ASSUME TypeOK, Next \/ UNCHANGED vars
  PROVE  requested' \in [Block -> 0..MaxRequests] /\ returned' \in Seq(Block)
<1>0. requested \in [Block -> 0..MaxRequests] /\ returned \in Seq(Block)
  BY DEF TypeOK
<1>1. ASSUME NEW b \in Block, L1DAnswers(b)
      PROVE  requested' \in [Block -> 0..MaxRequests] /\ returned' \in Seq(Block)
  <2>1. PICK n \in 0..(requested[b] - 1) : requested' = [requested EXCEPT ![b] = n]
    BY <1>1 DEF L1DAnswers
  <2>2. requested[b] \in 0..MaxRequests /\ MaxRequests \in Nat
    BY <1>0 DEF LSQAssumption
  <2>3. n \in 0..MaxRequests
    BY <2>2
  <2>4. returned' \in Seq(Block)
    BY <1>0, <1>1, AppendProperties DEF L1DAnswers
  <2> QED BY <1>0, <2>1, <2>3, <2>4
<1>2. ASSUME NEW q \in Slot, IssueLoad(q)
      PROVE  requested' \in [Block -> 0..MaxRequests] /\ returned' = returned
  <2>1. PICK b : b = BlockOf[LQ[q].virtual_address]
    OBVIOUS
  <2>2. requested[b] < MaxRequests /\ requested' = [requested EXCEPT ![b] = requested[b] + 1]
        /\ returned' = returned /\ LQ[q] # NoEntry
    BY <1>2, <2>1, QueuesAre DEF IssueLoad, CanIssue
  <2>3. LQ[q].virtual_address \in Address
    BY <2>2, QueuesAre DEF LoadEntry
  <2>4. b \in Block
    BY <2>1, <2>3 DEF LSQAssumption
  <2>5. requested[b] + 1 \in 0..MaxRequests
    BY <1>0, <2>2, <2>4 DEF LSQAssumption
  <2> QED BY <1>0, <2>2, <2>5
<1>3. CASE HandleReturn
  BY <1>0, <1>3, HeadTailProperties DEF HandleReturn
<1>4. CASE BeginCycle \/ NextLoop \/ Schedule
  BY <1>0, <1>4 DEF BeginCycle, NextLoop, Schedule, ForwardLoad, AwaitStore, ScheduleLoad, NextLoad,
                    ScheduleStore, EndScheduling
<1>5. CASE Retire \/ FinishStore \/ WriteStore \/ (\E k \in DOMAIN ROB : Complete(k) \/ Execute(k))
  BY <1>0, <1>5 DEF Retire, FinishStore, WriteStore, Complete, Execute
<1>6. CASE \E o \in Operation : Dispatch(o)
  BY <1>0, <1>6 DEF Dispatch
<1>7. CASE UNCHANGED vars
  BY <1>0, <1>7 DEF vars
<1> QED BY <1>0, <1>1, <1>2, <1>3, <1>4, <1>5, <1>6, <1>7 DEF Next, Operate, Progress

LEMMA MemoryKept ==
  ASSUME TypeOK, MemoryOpsAddUp, Programmed, Next \/ UNCHANGED vars
  PROVE  memory' \in [Address -> 0..MaxInstr]
<1>0. memory \in [Address -> 0..MaxInstr]
  BY DEF TypeOK
<1>1. CASE WriteStore
  <2>1. SQ[1] \in StoreEntry /\ memory' = [memory EXCEPT ![SQ[1].virtual_address] = SQ[1].instr_id]
    BY <1>1, WriteStoreIs
  <2>2. SQ[1].instr_id \in 0..MaxInstr
    BY <2>1 DEF StoreEntry
  <2> QED BY <1>0, <2>1, <2>2
<1>2. CASE BeginCycle \/ NextLoop \/ Schedule
  BY <1>0, <1>2 DEF BeginCycle, NextLoop, Schedule, ForwardLoad, AwaitStore, ScheduleLoad, NextLoad,
                    ScheduleStore, EndScheduling
<1>3. CASE \/ Retire \/ FinishStore \/ HandleReturn \/ (\E k \in DOMAIN ROB : Complete(k) \/ Execute(k))
           \/ (\E q \in Slot : IssueLoad(q)) \/ \E b \in Block : L1DAnswers(b)
  BY <1>0, <1>3 DEF Retire, FinishStore, HandleReturn, Complete, Execute, IssueLoad, L1DAnswers
<1>4. CASE \E o \in Operation : Dispatch(o)
  BY <1>0, <1>4 DEF Dispatch
<1>5. CASE UNCHANGED vars
  BY <1>0, <1>5 DEF vars
<1> QED BY <1>1, <1>2, <1>3, <1>4, <1>5 DEF Next, Operate, Progress

LEMMA TypesKept ==
  Inv /\ [Next]_vars => TypeOK'
<1> SUFFICES ASSUME Inv, Next \/ UNCHANGED vars PROVE TypeOK'
  OBVIOUS
<1> USE DEF Inv
<1> DEFINE R == ROB' \in Seq(Instruction) /\ Len(ROB') <= ROB_SIZE
           L == LQ' \in [Slot -> LoadEntry \cup {NoEntry}]
           Q == SQ' \in Seq(StoreEntry) /\ Len(SQ') <= SQ_SIZE
           O == /\ operands' \in [source_memory : Seq(Address), destination_memory : Seq(Address)]
                /\ stage' \in Stage /\ next_id' \in 1..(MaxInstr + 1)
<1>0. /\ ROB' = ROB => R
      /\ LQ' = LQ => L
      /\ SQ' = SQ => Q
      /\ operands' = operands /\ stage' = stage /\ next_id' = next_id => O
  BY DEF TypeOK
<1>1. Len(ROB) <= ROB_SIZE /\ Len(SQ) <= SQ_SIZE /\ ROB_SIZE \in Nat /\ SQ_SIZE \in Nat
      /\ Len(ROB) \in Nat /\ Len(SQ) \in Nat /\ MaxInstr \in Nat /\ next_id \in 1..(MaxInstr + 1)
      /\ stage \in Stage
      /\ operands \in [source_memory : Seq(Address), destination_memory : Seq(Address)]
  BY QueuesAre DEF TypeOK, LSQAssumption
<1>2. R /\ L /\ Q /\ O
  <2>1. CASE BeginCycle \/ NextLoop \/ EndScheduling \/ \E b \in Block : L1DAnswers(b)
    <3>1. Quiet
      BY <2>1, QuietSteps
    <3> QED BY <1>0, <1>1, <3>1 DEF Quiet
  <2>2. CASE Retire
    <3>1. /\ ROB \in Seq(Instruction) /\ ROB # <<>> /\ ROB' = Tail(ROB)
          /\ UNCHANGED <<LQ, SQ, stage, operands, next_id>>
      BY <2>2, RetireIs
    <3>2. ROB' \in Seq(Instruction) /\ Len(ROB') = Len(ROB) - 1
      BY <3>1, Rest
    <3>3. R
      BY <1>1, <3>2
    <3> QED BY <1>0, <3>1, <3>3
  <2>3. ASSUME NEW k \in DOMAIN ROB, Complete(k) \/ Execute(k)
        PROVE  R /\ L /\ Q /\ O
    <3>1. ROB' \in Seq(Instruction) /\ Len(ROB') = Len(ROB)
      BY <2>3, CompleteIs, ExecuteIs
    <3>2. UNCHANGED <<LQ, SQ, stage, operands, next_id>>
      BY <2>3 DEF Complete, Execute
    <3>3. R
      BY <1>1, <3>1
    <3> QED BY <1>0, <3>2, <3>3
  <2>4. CASE HandleReturn
    <3>1. PICK S \in SUBSET Slot : Finish(S, {}) /\ Release(S)
      BY <2>4, HandleReturnIs
    <3>2. ROB' \in Seq(Instruction) /\ Len(ROB') = Len(ROB)
      BY <3>1, FinishIs
    <3>3. R
      BY <1>1, <3>2
    <3>4. L
      BY <3>1, ReleaseIs
    <3>5. UNCHANGED <<SQ, stage, operands, next_id>>
      BY <2>4 DEF HandleReturn
    <3> QED BY <1>0, <3>3, <3>4, <3>5
  <2>5. CASE FinishStore
    <3>1. PICK i \in 1..Len(SQ), S \in SUBSET Slot : FinishesAt(i, S)
      BY <2>5, FinishStoreIs
    <3>2. Finish(S, {SQ[i].instr_id}) /\ Release(S)
      BY <3>1 DEF FinishesAt
    <3>3. ROB' \in Seq(Instruction) /\ Len(ROB') = Len(ROB)
      BY <3>2, FinishIs
    <3>4. R
      BY <1>1, <3>3
    <3>5. L
      BY <3>2, ReleaseIs
    <3>6. SQ' \in Seq(StoreEntry) /\ Len(SQ') = Len(SQ)
      BY <3>1, FinishesAtIs
    <3>7. Q
      BY <1>1, <3>6
    <3>8. UNCHANGED <<stage, operands, next_id>>
      BY <2>5 DEF FinishStore
    <3> QED BY <1>0, <3>4, <3>5, <3>7, <3>8
  <2>6. CASE WriteStore
    <3>1. SQ \in Seq(StoreEntry) /\ SQ # <<>> /\ SQ' = Tail(SQ)
      BY <2>6, WriteStoreIs
    <3>2. SQ' \in Seq(StoreEntry) /\ Len(SQ') = Len(SQ) - 1
      BY <3>1, Rest
    <3>3. Q
      BY <1>1, <3>2
    <3>4. UNCHANGED <<ROB, LQ, stage, operands, next_id>>
      BY <2>6 DEF WriteStore
    <3> QED BY <1>0, <3>3, <3>4
  <2>7. ASSUME NEW q \in Slot, IssueLoad(q)
        PROVE  R /\ L /\ Q /\ O
    BY <1>0, <2>7, IssueLoadIs
  <2>8. CASE ForwardLoad
    <3>1. /\ ROB' \in Seq(Instruction) /\ Len(ROB') = Len(ROB)
          /\ UNCHANGED <<LQ, SQ, stage, next_id>>
      BY <2>8, ForwardLoadIs
    <3>2. R
      BY <1>1, <3>1
    <3>3. O
      BY <1>1, <2>8, <3>1, NextLoadIs DEF ForwardLoad
    <3> QED BY <1>0, <3>1, <3>2, <3>3
  <2>9. CASE AwaitStore
    <3>1. PICK i \in 1..Len(SQ), q \in Slot, e \in LoadEntry : Awaits(i, q, e)
      BY <2>9, AwaitStoreIs
    <3>2. SQ' \in Seq(StoreEntry) /\ Len(SQ') = Len(SQ)
      BY <3>1, AwaitsIs
    <3>3. Q
      BY <1>1, <3>2
    <3>4. L
      BY <3>1, LoadEnters DEF Awaits
    <3>5. UNCHANGED <<ROB, stage, next_id>>
      BY <3>1 DEF Awaits
    <3>6. O
      BY <1>1, <2>9, <3>5, NextLoadIs DEF AwaitStore
    <3> QED BY <1>0, <3>3, <3>4, <3>5, <3>6
  <2>10. CASE ScheduleLoad
    <3>1. PICK q \in Slot, e \in LoadEntry : Reads(q, e)
      BY <2>10, ScheduleLoadIs
    <3>2. L
      BY <3>1, LoadEnters DEF Reads
    <3>3. UNCHANGED <<ROB, SQ, stage, next_id>>
      BY <3>1 DEF Reads
    <3>4. O
      BY <1>1, <2>10, <3>3, NextLoadIs DEF ScheduleLoad
    <3> QED BY <1>0, <3>2, <3>3, <3>4
  <2>11. CASE ScheduleStore
    <3>1. PICK x \in StoreEntry : Stores(x)
      BY <2>11, ScheduleStoreIs
    <3>2. SQ \in Seq(StoreEntry) /\ SQ' = Append(SQ, x)
      BY <3>1 DEF Stores, TypeOK
    <3>3. SQ' \in Seq(StoreEntry) /\ Len(SQ') = Len(SQ) + 1
      BY <3>2, Appended
    <3>4. Len(SQ) + 1 <= SQ_SIZE
      <4>1. stage = "schedule" /\ operands.destination_memory \in Seq(Address)
            /\ operands.destination_memory # <<>>
        BY <2>11, ScheduleStoreIs
      <4>2. Len(operands.destination_memory) \in Nat \ {0}
        BY <4>1, Entries
      <4>3. Len(operands.destination_memory) + Len(SQ) <= SQ_SIZE
        BY <4>1 DEF HasRoom, SQHasRoom
      <4> QED BY <1>1, <4>2, <4>3
    <3>5. Q
      BY <3>3, <3>4
    <3>6. UNCHANGED <<ROB, LQ, stage, next_id>>
          /\ operands' \in [source_memory : Seq(Address), destination_memory : Seq(Address)]
      BY <2>11, ScheduleStoreIs
    <3> QED BY <1>0, <1>1, <3>5, <3>6
  <2>12. ASSUME NEW o \in Operation, Dispatch(o)
         PROVE  R /\ L /\ Q /\ O
    <3>1. PICK x \in Instruction : ROB' = Append(ROB, x)
      BY <2>12, DispatchIs
    <3>2. ROB \in Seq(Instruction)
      BY DEF TypeOK
    <3>3. ROB' \in Seq(Instruction) /\ Len(ROB') = Len(ROB) + 1
      BY <3>1, <3>2, Appended
    <3>4. /\ stage' = "schedule" /\ next_id' = next_id + 1 /\ next_id \in 1..MaxInstr
          /\ Len(ROB) < ROB_SIZE /\ UNCHANGED <<LQ, SQ>>
          /\ operands' \in [source_memory : Seq(Address), destination_memory : Seq(Address)]
      BY <2>12, DispatchIs
    <3>5. R
      BY <1>1, <3>3, <3>4
    <3>6. next_id' \in 1..(MaxInstr + 1)
      BY <1>1, <3>4
    <3> QED BY <1>0, <3>4, <3>5, <3>6, LoopsAre
  <2>13. CASE UNCHANGED vars
    BY <1>0, <2>13 DEF vars
  <2> HIDE DEF R, L, Q, O, Inv
  <2> QED BY <2>1, <2>2, <2>3, <2>4, <2>5, <2>6, <2>7, <2>8, <2>9, <2>10, <2>11, <2>12, <2>13
          DEF Next, Operate, Progress, Schedule
<1>3. requested' \in [Block -> 0..MaxRequests] /\ returned' \in Seq(Block)
  BY RequestsKept
<1>4. memory' \in [Address -> 0..MaxInstr]
  BY MemoryKept
<1> QED BY <1>2, <1>3, <1>4 DEF TypeOK

-----------------------------------------------------------------------------
(* The order of the instructions and of the stores *)

\* Who changes the store queue and the load queue.
LEMMA WhoChangesWhat ==
  ASSUME TypeOK, Next \/ UNCHANGED vars
  PROVE  /\ \/ SQ' = SQ
            \/ FinishStore \/ WriteStore \/ AwaitStore \/ ScheduleStore
         /\ \/ LQ' = LQ
            \/ HandleReturn \/ FinishStore \/ AwaitStore \/ ScheduleLoad
            \/ \E q \in Slot : IssueLoad(q)
         /\ next_id' = next_id \/ \E o \in Operation : Dispatch(o)
<1>1. CASE BeginCycle \/ NextLoop \/ EndScheduling \/ \E b \in Block : L1DAnswers(b)
  BY <1>1, QuietSteps DEF Quiet
<1>2. CASE ForwardLoad \/ AwaitStore \/ ScheduleLoad \/ ScheduleStore
  BY <1>2 DEF ForwardLoad, AwaitStore, ScheduleLoad, NextLoad, ScheduleStore
<1>3. CASE \/ Retire \/ FinishStore \/ WriteStore \/ HandleReturn
           \/ (\E k \in DOMAIN ROB : Complete(k) \/ Execute(k))
           \/ (\E q \in Slot : IssueLoad(q))
  BY <1>3 DEF Retire, FinishStore, WriteStore, HandleReturn, Complete, Execute, IssueLoad
<1>4. CASE \E o \in Operation : Dispatch(o)
  BY <1>4 DEF Dispatch
<1>5. CASE UNCHANGED vars
  BY <1>5 DEF vars
<1> QED BY <1>1, <1>2, <1>3, <1>4, <1>5 DEF Next, Operate, Progress, Schedule

LEMMA IssuedStoresFirstKept ==
  Inv /\ [Next]_vars => IssuedStoresFirst'
<1> SUFFICES ASSUME Inv, Next \/ UNCHANGED vars,
                    NEW i \in 1..Len(SQ'), NEW j \in 1..Len(SQ'), i < j, SQ'[j].fetch_issued
             PROVE  SQ'[i].fetch_issued
  <2>1. Inv /\ [Next]_vars => TypeOK'
    BY TypesKept
  <2>2. Inv /\ [Next]_vars => DOMAIN SQ' = 1..Len(SQ')
    BY <2>1, Entries DEF TypeOK
  <2> QED BY <2>2 DEF IssuedStoresFirst
<1> USE DEF Inv
<1>0. /\ \A a, b \in 1..Len(SQ) : a < b /\ SQ[b].fetch_issued => SQ[a].fetch_issued
      /\ Len(SQ) \in Nat
  BY QueuesAre DEF IssuedStoresFirst
<1>1. CASE SQ' = SQ
  BY <1>0, <1>1
<1>2. CASE FinishStore
  <2>1. PICK k \in 1..Len(SQ), S \in SUBSET Slot : FinishesAt(k, S)
    BY <1>2, FinishStoreIs
  <2>2. /\ Len(SQ') = Len(SQ)
        /\ \A l \in 1..Len(SQ) : l < k => SQ[l].fetch_issued
        /\ \A l \in 1..Len(SQ) : SQ'[l].fetch_issued <=> SQ[l].fetch_issued \/ l = k
    BY <2>1, FinishesAtIs
  <2>3. i \in 1..Len(SQ) /\ j \in 1..Len(SQ)
    BY <2>2
  <2> QED BY <1>0, <2>2, <2>3
<1>3. CASE WriteStore
  <2>1. SQ \in Seq(StoreEntry) /\ SQ # <<>> /\ SQ' = Tail(SQ)
    BY <1>3, WriteStoreIs
  <2>2. /\ i + 1 \in 1..Len(SQ) /\ SQ'[i] = SQ[i + 1]
        /\ j + 1 \in 1..Len(SQ) /\ SQ'[j] = SQ[j + 1]
    BY <2>1, Rest
  <2>3. i + 1 < j + 1
    OBVIOUS
  <2> QED BY <1>0, <2>2, <2>3
<1>4. CASE AwaitStore
  <2>1. PICK k \in 1..Len(SQ), q \in Slot, e \in LoadEntry : Awaits(k, q, e)
    BY <1>4, AwaitStoreIs
  <2>2. /\ Len(SQ') = Len(SQ)
        /\ \A l \in 1..Len(SQ) : SQ'[l].fetch_issued <=> SQ[l].fetch_issued
    BY <2>1, AwaitsIs
  <2> QED BY <1>0, <2>2
<1>5. CASE ScheduleStore
  <2>1. PICK x \in StoreEntry : Stores(x)
    BY <1>5, ScheduleStoreIs
  <2>2. SQ \in Seq(StoreEntry) /\ SQ' = Append(SQ, x) /\ ~x.fetch_issued
    BY <2>1 DEF Stores, TypeOK
  <2>3. /\ \A k \in 1..Len(SQ) : k \in 1..Len(SQ') /\ SQ'[k] = SQ[k]
        /\ SQ'[Len(SQ) + 1] = x
        /\ \A k \in 1..Len(SQ') : k \in 1..Len(SQ) \/ k = Len(SQ) + 1
    BY <2>2, Appended
  <2>4. j \in 1..Len(SQ)
    BY <2>2, <2>3
  <2>5. i \in 1..Len(SQ)
    BY <1>0, <2>4
  <2> QED BY <1>0, <2>3, <2>4, <2>5
<1> QED BY <1>1, <1>2, <1>3, <1>4, <1>5, WhoChangesWhat

\* Also after a step every store is of an instruction that has been dispatched.
LEMMA StoresAreDispatched ==
  ASSUME Inv, Next \/ UNCHANGED vars, NEW i \in 1..Len(SQ')
  PROVE  SQ'[i].instr_id < next_id'
<1> USE DEF Inv
<1>0. /\ \A a \in 1..Len(SQ) : SQ[a].instr_id < next_id /\ SQ[a].instr_id \in Nat
      /\ next_id \in Nat
  BY QueuesAre DEF StoresInOrder, StoreEntry
<1>1. next_id <= next_id'
  <2>1. CASE next_id' = next_id
    BY <1>0, <2>1
  <2>2. ASSUME NEW o \in Operation, Dispatch(o)
        PROVE  next_id <= next_id'
    <3>1. next_id' = next_id + 1
      BY <2>2, DispatchIs
    <3> QED BY <1>0, <3>1
  <2> QED BY <2>1, <2>2, WhoChangesWhat
<1>2. (\E a \in 1..Len(SQ) : SQ'[i].instr_id = SQ[a].instr_id) \/ SQ'[i].instr_id = next_id - 1
  <2>1. CASE SQ' = SQ
    BY <2>1
  <2>2. CASE FinishStore
    <3>1. PICK k \in 1..Len(SQ), S \in SUBSET Slot : FinishesAt(k, S)
      BY <2>2, FinishStoreIs
    <3>2. Len(SQ') = Len(SQ) /\ \A l \in 1..Len(SQ) : SQ'[l].instr_id = SQ[l].instr_id
      BY <3>1, FinishesAtIs
    <3> QED BY <3>2
  <2>3. CASE WriteStore
    <3>1. SQ \in Seq(StoreEntry) /\ SQ # <<>> /\ SQ' = Tail(SQ)
      BY <2>3, WriteStoreIs
    <3>2. i + 1 \in 1..Len(SQ) /\ SQ'[i] = SQ[i + 1]
      BY <3>1, Rest
    <3> QED BY <3>2
  <2>4. CASE AwaitStore
    <3>1. PICK k \in 1..Len(SQ), q \in Slot, e \in LoadEntry : Awaits(k, q, e)
      BY <2>4, AwaitStoreIs
    <3>2. Len(SQ') = Len(SQ) /\ \A l \in 1..Len(SQ) : SQ'[l].instr_id = SQ[l].instr_id
      BY <3>1, AwaitsIs
    <3> QED BY <3>2
  <2>5. CASE ScheduleStore
    <3>1. PICK x \in StoreEntry : Stores(x)
      BY <2>5, ScheduleStoreIs
    <3>2. SQ \in Seq(StoreEntry) /\ SQ' = Append(SQ, x) /\ x.instr_id = next_id - 1
      BY <3>1 DEF Stores, TypeOK
    <3>3. /\ \A k \in 1..Len(SQ) : SQ'[k] = SQ[k]
          /\ SQ'[Len(SQ) + 1] = x
          /\ \A k \in 1..Len(SQ') : k \in 1..Len(SQ) \/ k = Len(SQ) + 1
      BY <3>2, Appended
    <3> QED BY <3>2, <3>3
  <2> QED BY <2>1, <2>2, <2>3, <2>4, <2>5, WhoChangesWhat
<1>3. SQ'[i].instr_id < next_id /\ SQ'[i].instr_id \in Int
  BY <1>0, <1>2
<1>4. next_id' \in Nat
  <2>1. TypeOK'
    BY TypesKept
  <2> QED BY <2>1 DEF TypeOK
<1> HIDE DEF Inv
<1> QED BY <1>0, <1>1, <1>3, <1>4

LEMMA StoresInOrderKept ==
  Inv /\ [Next]_vars => StoresInOrder'
<1> SUFFICES ASSUME Inv, Next \/ UNCHANGED vars,
                    NEW i \in 1..Len(SQ'), NEW j \in 1..Len(SQ'), i < j
             PROVE  SQ'[i].instr_id <= SQ'[j].instr_id
  <2>1. Inv /\ [Next]_vars => \A k \in 1..Len(SQ') : SQ'[k].instr_id < next_id'
    BY StoresAreDispatched
  <2> QED BY <2>1 DEF StoresInOrder, StoresOrdered
<1> USE DEF Inv
<1>0. /\ \A a, b \in 1..Len(SQ) : a < b => SQ[a].instr_id <= SQ[b].instr_id
      /\ \A a \in 1..Len(SQ) : SQ[a].instr_id < next_id /\ SQ[a].instr_id \in Nat
      /\ Len(SQ) \in Nat /\ next_id \in Nat
  <2>1. \A a \in 1..Len(SQ) : SQ[a] \in StoreEntry
    BY QueuesAre
  <2>2. \A a \in 1..Len(SQ) : SQ[a].instr_id \in Nat
    BY <2>1 DEF StoreEntry
  <2>3. Len(SQ) \in Nat /\ next_id \in Nat
    BY QueuesAre
  <2> QED BY <2>2, <2>3 DEF StoresInOrder, StoresOrdered
<1>1. CASE SQ' = SQ
  BY <1>0, <1>1
<1>2. CASE FinishStore
  <2>1. PICK k \in 1..Len(SQ), S \in SUBSET Slot : FinishesAt(k, S)
    BY <1>2, FinishStoreIs
  <2>2. Len(SQ') = Len(SQ) /\ \A l \in 1..Len(SQ) : SQ'[l].instr_id = SQ[l].instr_id
    BY <2>1, FinishesAtIs
  <2> QED BY <1>0, <2>2
<1>3. CASE WriteStore
  <2>1. SQ \in Seq(StoreEntry) /\ SQ # <<>> /\ SQ' = Tail(SQ)
    BY <1>3, WriteStoreIs
  <2>2. /\ i + 1 \in 1..Len(SQ) /\ SQ'[i] = SQ[i + 1]
        /\ j + 1 \in 1..Len(SQ) /\ SQ'[j] = SQ[j + 1]
    BY <2>1, Rest
  <2>3. i + 1 < j + 1
    OBVIOUS
  <2> QED BY <1>0, <2>2, <2>3
<1>4. CASE AwaitStore
  <2>1. PICK k \in 1..Len(SQ), q \in Slot, e \in LoadEntry : Awaits(k, q, e)
    BY <1>4, AwaitStoreIs
  <2>2. Len(SQ') = Len(SQ) /\ \A l \in 1..Len(SQ) : SQ'[l].instr_id = SQ[l].instr_id
    BY <2>1, AwaitsIs
  <2> QED BY <1>0, <2>2
<1>5. CASE ScheduleStore
  <2>1. PICK x \in StoreEntry : Stores(x)
    BY <1>5, ScheduleStoreIs
  <2>2. SQ \in Seq(StoreEntry) /\ SQ' = Append(SQ, x) /\ x.instr_id = next_id - 1
    BY <2>1 DEF Stores, TypeOK
  <2>3. /\ \A k \in 1..Len(SQ) : SQ'[k] = SQ[k]
        /\ SQ'[Len(SQ) + 1] = x
        /\ \A k \in 1..Len(SQ') : k \in 1..Len(SQ) \/ k = Len(SQ) + 1
    BY <2>2, Appended
  <2>4. i \in 1..Len(SQ)
    BY <1>0, <2>3
  <2>5. CASE j \in 1..Len(SQ)
    BY <1>0, <2>3, <2>4, <2>5
  <2>6. CASE j = Len(SQ) + 1
    BY <1>0, <2>2, <2>3, <2>4, <2>6
  <2> QED BY <2>3, <2>5, <2>6
<1> QED BY <1>1, <1>2, <1>3, <1>4, <1>5, WhoChangesWhat

-----------------------------------------------------------------------------
(* The instructions *)

\* The instructions stay, and their memory operations are counted up.
Goes ==
  /\ ROB' \in Seq(Instruction) /\ Len(ROB') = Len(ROB)
  /\ \A k \in 1..Len(ROB) :
       /\ ROB'[k].instr_id = ROB[k].instr_id
       /\ ROB'[k].num_mem_ops = ROB[k].num_mem_ops
       /\ ROB'[k].completed_mem_ops >= ROB[k].completed_mem_ops
       /\ ROB'[k].completed => ROB[k].completed \/ ROB[k].completed_mem_ops = ROB[k].num_mem_ops

LEMMA FinishGoes ==
  ASSUME TypeOK, NEW S \in SUBSET Slot, NEW ids, Finish(S, ids)
  PROVE  Goes
<1>1. /\ ROB' \in Seq(Instruction) /\ Len(ROB') = Len(ROB)
      /\ \A k \in 1..Len(ROB) :
           /\ ROB'[k].instr_id = ROB[k].instr_id
           /\ ROB'[k].num_mem_ops = ROB[k].num_mem_ops
           /\ ROB'[k].completed <=> ROB[k].completed
           /\ ROB'[k].completed_mem_ops = ROB[k].completed_mem_ops + EndedOf(S, ids, ROB[k].instr_id)
           /\ ROB[k].completed_mem_ops \in Nat /\ EndedOf(S, ids, ROB[k].instr_id) \in Nat
  BY FinishIs
<1>2. \A k \in 1..Len(ROB) : ROB'[k].completed_mem_ops >= ROB[k].completed_mem_ops
  BY <1>1
<1> QED BY <1>1, <1>2 DEF Goes

LEMMA WhoChangesInstructions ==
  ASSUME Inv, Next \/ UNCHANGED vars
  PROVE  /\ Goes \/ Retire \/ \E o \in Operation : Dispatch(o)
         /\ stage' = "schedule" => stage = "schedule" \/ \E o \in Operation : Dispatch(o)
<1> USE DEF Inv
<1>1. /\ ROB \in Seq(Instruction)
      /\ \A k \in 1..Len(ROB) : ROB[k].completed_mem_ops \in Nat
  BY QueuesAre DEF TypeOK, Instruction
<1>2. ROB' = ROB => Goes
  BY <1>1 DEF Goes
<1>3. CASE BeginCycle \/ NextLoop \/ EndScheduling \/ \E b \in Block : L1DAnswers(b)
  BY <1>2, <1>3, QuietSteps DEF Quiet
<1>4. CASE Retire
  BY <1>4, RetireIs
<1>5. ASSUME NEW k \in DOMAIN ROB, Complete(k)
      PROVE  Goes /\ stage' = stage
  <2>1. /\ ROB' \in Seq(Instruction) /\ Len(ROB') = Len(ROB)
        /\ \A j \in 1..Len(ROB) :
              /\ ROB'[j].instr_id = ROB[j].instr_id
              /\ ROB'[j].num_mem_ops = ROB[j].num_mem_ops
              /\ ROB'[j].completed_mem_ops = ROB[j].completed_mem_ops
              /\ ROB'[j].completed => ROB[j].completed \/ ROB[j].completed_mem_ops = ROB[j].num_mem_ops
    BY <1>5, CompleteIs
  <2> QED BY <1>1, <1>5, <2>1 DEF Goes, Complete
<1>6. ASSUME NEW k \in DOMAIN ROB, Execute(k)
      PROVE  Goes /\ stage' = stage
  <2>1. /\ ROB' \in Seq(Instruction) /\ Len(ROB') = Len(ROB)
        /\ \A j \in 1..Len(ROB) :
              /\ ROB'[j].instr_id = ROB[j].instr_id
              /\ ROB'[j].num_mem_ops = ROB[j].num_mem_ops
              /\ ROB'[j].completed_mem_ops = ROB[j].completed_mem_ops
              /\ ROB'[j].completed <=> ROB[j].completed
    BY <1>6, ExecuteIs
  <2> QED BY <1>1, <1>6, <2>1 DEF Goes, Execute
<1>7. CASE HandleReturn
  <2>1. PICK S \in SUBSET Slot : Finish(S, {})
    BY <1>7, HandleReturnIs
  <2> QED BY <1>7, <2>1, FinishGoes DEF HandleReturn
<1>8. CASE FinishStore
  <2>1. PICK i \in 1..Len(SQ), S \in SUBSET Slot : FinishesAt(i, S)
    BY <1>8, FinishStoreIs
  <2>2. Finish(S, {SQ[i].instr_id})
    BY <2>1 DEF FinishesAt
  <2> QED BY <1>8, <2>2, FinishGoes DEF FinishStore
<1>9. CASE ForwardLoad
  <2>1. /\ ROB' \in Seq(Instruction) /\ Len(ROB') = Len(ROB) /\ stage' = stage
        /\ \A j \in 1..Len(ROB) :
             /\ ROB'[j].instr_id = ROB[j].instr_id
             /\ ROB'[j].num_mem_ops = ROB[j].num_mem_ops
             /\ ROB'[j].completed_mem_ops = IF j = Len(ROB) THEN ROB[j].completed_mem_ops + 1
                                                            ELSE ROB[j].completed_mem_ops
             /\ ROB'[j].completed <=> ROB[j].completed
    BY <1>9, ForwardLoadIs
  <2>2. \A j \in 1..Len(ROB) : ROB'[j].completed_mem_ops >= ROB[j].completed_mem_ops
    BY <1>1, <2>1
  <2> QED BY <2>1, <2>2 DEF Goes
<1>10. CASE WriteStore \/ AwaitStore \/ ScheduleLoad \/ ScheduleStore \/ \E q \in Slot : IssueLoad(q)
  BY <1>2, <1>10 DEF WriteStore, AwaitStore, ScheduleLoad, NextLoad, ScheduleStore, IssueLoad
<1>11. CASE UNCHANGED vars
  BY <1>2, <1>11 DEF vars
<1> HIDE DEF Inv
<1> QED BY <1>3, <1>4, <1>5, <1>6, <1>7, <1>8, <1>9, <1>10, <1>11 DEF Next, Operate, Progress, Schedule

LEMMA ProgrammedKept ==
  Inv /\ [Next]_vars => Programmed'
<1> SUFFICES ASSUME Inv, Next \/ UNCHANGED vars PROVE Programmed'
  OBVIOUS
<1> USE DEF Inv
<1>0. /\ \A j, k \in 1..Len(ROB) : j < k => ROB[j].instr_id < ROB[k].instr_id
      /\ \A k \in 1..Len(ROB) : ROB[k].instr_id < next_id /\ ROB[k].instr_id \in Nat
      /\ stage = "schedule" => Len(ROB) > 0 /\ ROB[Len(ROB)].instr_id = next_id - 1
      /\ Len(ROB) \in Nat /\ next_id \in Nat /\ ROB \in Seq(Instruction)
  <2>1. \A k \in 1..Len(ROB) : ROB[k].instr_id \in Nat
    BY QueuesAre DEF Instruction
  <2>2. Len(ROB) \in Nat /\ next_id \in Nat
    BY QueuesAre
  <2>3. ROB \in Seq(Instruction)
    BY DEF TypeOK
  <2> QED BY <2>1, <2>2, <2>3 DEF Programmed, InProgramOrder
<1>1. ASSUME NEW o \in Operation, Dispatch(o)
      PROVE  Programmed'
  <2>1. PICK x \in Instruction : ROB' = Append(ROB, x) /\ x.instr_id = next_id
    BY <1>1, DispatchIs
  <2>2. next_id' = next_id + 1
    BY <1>1, DispatchIs
  <2>3. /\ Len(ROB') = Len(ROB) + 1 /\ Len(ROB) + 1 \in 1..Len(ROB')
        /\ \A k \in 1..Len(ROB) : ROB'[k] = ROB[k]
        /\ ROB'[Len(ROB) + 1] = x
        /\ \A k \in 1..Len(ROB') : k \in 1..Len(ROB) \/ k = Len(ROB) + 1
    BY <1>0, <2>1, Appended
  <2>4. ASSUME NEW j \in 1..Len(ROB'), NEW k \in 1..Len(ROB'), j < k
        PROVE  ROB'[j].instr_id < ROB'[k].instr_id
    <3>1. j \in 1..Len(ROB)
      BY <1>0, <2>3, <2>4
    <3>2. CASE k \in 1..Len(ROB)
      BY <1>0, <2>3, <2>4, <3>1, <3>2
    <3>3. CASE k = Len(ROB) + 1
      BY <1>0, <2>1, <2>3, <3>1, <3>3
    <3> QED BY <2>3, <3>2, <3>3
  <2>5. ASSUME NEW k \in 1..Len(ROB')
        PROVE  ROB'[k].instr_id < next_id'
    <3>1. CASE k \in 1..Len(ROB)
      BY <1>0, <2>2, <2>3, <3>1
    <3>2. CASE k = Len(ROB) + 1
      BY <1>0, <2>1, <2>2, <2>3, <3>2
    <3> QED BY <2>3, <3>1, <3>2
  <2>6. Len(ROB') > 0 /\ ROB'[Len(ROB')].instr_id = next_id' - 1
    BY <1>0, <2>1, <2>2, <2>3
  <2> QED BY <2>4, <2>5, <2>6 DEF Programmed, InProgramOrder
<1>2. CASE Retire
  <2>1. ROB # <<>> /\ ROB' = Tail(ROB) /\ UNCHANGED <<stage, next_id>> /\ stage = "retire"
    BY <1>2, RetireIs DEF Retire
  <2>2. \A k \in 1..Len(ROB') : k + 1 \in 1..Len(ROB) /\ ROB'[k] = ROB[k + 1]
    BY <1>0, <2>1, Rest
  <2>3. ASSUME NEW j \in 1..Len(ROB'), NEW k \in 1..Len(ROB'), j < k
        PROVE  ROB'[j].instr_id < ROB'[k].instr_id
    <3>1. j + 1 < k + 1
      BY <2>3
    <3> QED BY <1>0, <2>2, <3>1
  <2>4. \A k \in 1..Len(ROB') : ROB'[k].instr_id < next_id'
    BY <1>0, <2>1, <2>2
  <2> QED BY <2>1, <2>3, <2>4 DEF Programmed, InProgramOrder
<1>3. CASE Goes /\ ~(\E o \in Operation : Dispatch(o))
  <2>1. next_id' = next_id
    BY <1>3, WhoChangesWhat
  <2>2. Len(ROB') = Len(ROB) /\ \A k \in 1..Len(ROB) : ROB'[k].instr_id = ROB[k].instr_id
    BY <1>3 DEF Goes
  <2>3. InProgramOrder(ROB')
    BY <1>0, <2>2 DEF InProgramOrder
  <2>4. \A k \in 1..Len(ROB') : ROB'[k].instr_id < next_id'
    BY <1>0, <2>1, <2>2
  <2>5. ASSUME stage' = "schedule"
        PROVE  Len(ROB') > 0 /\ ROB'[Len(ROB')].instr_id = next_id' - 1
    <3>1. stage = "schedule"
      BY <1>3, <2>5, WhoChangesInstructions
    <3>2. Len(ROB) > 0 /\ Len(ROB) \in 1..Len(ROB) /\ ROB[Len(ROB)].instr_id = next_id - 1
      BY <1>0, <3>1
    <3> QED BY <2>1, <2>2, <3>2
  <2> QED BY <2>3, <2>4, <2>5 DEF Programmed
<1> HIDE DEF Inv
<1> QED BY <1>1, <1>2, <1>3, WhoChangesInstructions

-----------------------------------------------------------------------------
(* Room for what is being scheduled *)

LEMMA HasRoomKept ==
  Inv /\ [Next]_vars => HasRoom'
<1> SUFFICES ASSUME Inv, Next \/ UNCHANGED vars PROVE HasRoom'
  OBVIOUS
<1> USE DEF Inv
<1>0. /\ stage # "schedule" => operands.source_memory = <<>> /\ operands.destination_memory = <<>>
      /\ stage = "schedule" => LQHasRoom(operands) /\ SQHasRoom(operands)
      /\ operands.source_memory \in Seq(Address) /\ operands.destination_memory \in Seq(Address)
      /\ Len(SQ) \in Nat
  BY QueuesAre DEF HasRoom, TypeOK
<1>1. IsFiniteSet(FreeSlots) /\ Cardinality(FreeSlots) \in Nat
  <2>1. FreeSlots \in SUBSET Slot
    BY DEF FreeSlots
  <2> QED BY <2>1, Finite, FS_Subset, FS_CardinalityType
<1>2. ASSUME NextLoad, UNCHANGED LQ, Len(SQ') = Len(SQ)
      PROVE  HasRoom'
  <2>1. /\ stage = "schedule" /\ stage' = stage
        /\ operands.source_memory \in Seq(Address) /\ operands.source_memory # <<>>
        /\ operands'.source_memory = Tail(operands.source_memory)
        /\ operands'.destination_memory = operands.destination_memory
    BY <1>2, NextLoadIs DEF NextLoad
  <2>2. Len(operands'.source_memory) = Len(operands.source_memory) - 1 /\ Len(operands.source_memory) \in Nat
    BY <2>1, Rest
  <2>3. LQHasRoom(operands)'
    <3>1. FreeSlots' = FreeSlots
      BY <1>2 DEF FreeSlots, Allocated
    <3>2. Cardinality(FreeSlots) >= Len(operands'.source_memory)
      BY <1>0, <1>1, <2>1, <2>2 DEF LQHasRoom
    <3> QED BY <3>1, <3>2 DEF LQHasRoom
  <2>4. SQHasRoom(operands)'
    BY <1>0, <1>2, <2>1 DEF SQHasRoom
  <2> QED BY <2>1, <2>3, <2>4 DEF HasRoom
<1>3. ASSUME NextLoad, NEW q \in Slot, NEW e \in LoadEntry, LQ' = [LQ EXCEPT ![q] = e], LQ[q] = NoEntry,
             Len(SQ') = Len(SQ)
      PROVE  HasRoom'
  <2>1. /\ stage = "schedule" /\ stage' = stage
        /\ operands.source_memory \in Seq(Address) /\ operands.source_memory # <<>>
        /\ operands'.source_memory = Tail(operands.source_memory)
        /\ operands'.destination_memory = operands.destination_memory
    BY <1>3, NextLoadIs DEF NextLoad
  <2>2. Len(operands'.source_memory) = Len(operands.source_memory) - 1 /\ Len(operands.source_memory) \in Nat
    BY <2>1, Rest
  <2>3. LQHasRoom(operands)'
    <3>1. \A r : r \in Allocated' <=> r \in Allocated \/ r = q
      BY <1>3, LoadEnters
    <3>2. FreeSlots' = FreeSlots \ {q} /\ q \in FreeSlots
      BY <1>3, <3>1 DEF FreeSlots, Allocated
    <3>3. Cardinality(FreeSlots \ {q}) = Cardinality(FreeSlots) - 1
      BY <1>1, <3>2, FS_RemoveElement
    <3>4. Cardinality(FreeSlots) >= Len(operands.source_memory)
      BY <1>0, <2>1 DEF LQHasRoom
    <3>5. Cardinality(FreeSlots \ {q}) >= Len(operands'.source_memory)
      BY <1>1, <2>2, <3>3, <3>4
    <3> QED BY <3>2, <3>5 DEF LQHasRoom
  <2>4. SQHasRoom(operands)'
    BY <1>0, <1>3, <2>1 DEF SQHasRoom
  <2> QED BY <2>1, <2>3, <2>4 DEF HasRoom
<1>4. CASE ForwardLoad
  BY <1>2, <1>4, ForwardLoadIs DEF ForwardLoad
<1>5. CASE AwaitStore
  <2>1. PICK i \in 1..Len(SQ), q \in Slot, e \in LoadEntry : Awaits(i, q, e)
    BY <1>5, AwaitStoreIs
  <2>2. Len(SQ') = Len(SQ)
    BY <2>1, AwaitsIs
  <2> QED BY <1>3, <1>5, <2>1, <2>2 DEF Awaits, AwaitStore
<1>6. CASE ScheduleLoad
  <2>1. PICK q \in Slot, e \in LoadEntry : Reads(q, e)
    BY <1>6, ScheduleLoadIs
  <2> QED BY <1>3, <1>6, <2>1 DEF Reads, ScheduleLoad
<1>7. CASE ScheduleStore
  <2>1. /\ stage = "schedule" /\ UNCHANGED <<LQ, stage>>
        /\ operands.source_memory = <<>> /\ operands'.source_memory = <<>>
        /\ operands.destination_memory \in Seq(Address) /\ operands.destination_memory # <<>>
        /\ operands'.destination_memory = Tail(operands.destination_memory)
    BY <1>7, ScheduleStoreIs
  <2>2. Len(operands'.destination_memory) = Len(operands.destination_memory) - 1
        /\ Len(operands.destination_memory) \in Nat
    BY <2>1, Rest
  <2>3. Len(SQ') = Len(SQ) + 1
    <3>1. PICK x \in StoreEntry : Stores(x)
      BY <1>7, ScheduleStoreIs
    <3>2. SQ \in Seq(StoreEntry) /\ SQ' = Append(SQ, x)
      BY <3>1 DEF Stores, TypeOK
    <3> QED BY <3>2, Appended
  <2>4. LQHasRoom(operands)'
    <3>1. FreeSlots' = FreeSlots
      BY <2>1 DEF FreeSlots, Allocated
    <3> QED BY <1>0, <2>1, <3>1 DEF LQHasRoom
  <2>5. SQHasRoom(operands)'
    <3>1. Len(operands.destination_memory) + Len(SQ) <= SQ_SIZE
      BY <1>0, <2>1 DEF SQHasRoom
    <3>2. SQ_SIZE \in Nat
      BY DEF LSQAssumption
    <3>3. \A d, n, m \in Nat : d + n <= m => (d - 1) + (n + 1) <= m
      OBVIOUS
    <3>4. Len(operands'.destination_memory) + Len(SQ') <= SQ_SIZE
      BY <1>0, <2>2, <2>3, <3>1, <3>2, <3>3
    <3> QED BY <3>4 DEF SQHasRoom
  <2> QED BY <2>1, <2>4, <2>5 DEF HasRoom
<1>8. CASE EndScheduling
  BY <1>8 DEF EndScheduling, HasRoom
<1>9. ASSUME NEW o \in Operation, Dispatch(o)
      PROVE  HasRoom'
  <2>1. /\ stage' = "schedule" /\ operands' = o /\ LQHasRoom(o) /\ SQHasRoom(o)
        /\ UNCHANGED <<LQ, SQ>>
    BY <1>9, DispatchIs
  <2>2. FreeSlots' = FreeSlots
    BY <2>1 DEF FreeSlots, Allocated
  <2> QED BY <2>1, <2>2 DEF HasRoom, LQHasRoom, SQHasRoom
<1>10. CASE UNCHANGED <<operands, stage>> /\ stage # "schedule"
  BY <1>0, <1>10 DEF HasRoom
<1>11. CASE BeginCycle \/ NextLoop \/ \E b \in Block : L1DAnswers(b)
  <2>1. stage # "schedule"
    <3>1. ASSUME NextLoop PROVE stage # "schedule"
      BY <3>1, LoopsAre DEF NextLoop
    <3> QED BY <1>11, <3>1 DEF BeginCycle, L1DAnswers
  <2>2. stage' # "schedule" /\ operands' = operands
    BY <1>11, <2>1, QuietSteps DEF Quiet
  <2> QED BY <1>0, <2>1, <2>2 DEF HasRoom
<1>12. CASE \/ Retire \/ FinishStore \/ WriteStore \/ HandleReturn
            \/ (\E k \in DOMAIN ROB : Complete(k) \/ Execute(k))
            \/ \E q \in Slot : IssueLoad(q)
  BY <1>10, <1>12 DEF Retire, FinishStore, WriteStore, HandleReturn, Complete, Execute, IssueLoad
<1>13. CASE UNCHANGED vars
  BY <1>0, <1>13 DEF vars, HasRoom, LQHasRoom, SQHasRoom, FreeSlots, Allocated
<1> HIDE DEF Inv
<1> QED BY <1>4, <1>5, <1>6, <1>7, <1>8, <1>9, <1>11, <1>12, <1>13 DEF Next, Operate, Progress, Schedule

-----------------------------------------------------------------------------
(* The counts of the instructions and the entries of the queues *)

LoadsFor(lq, id) == {q \in Slot : lq[q] # NoEntry /\ lq[q].instr_id = id}

OpenStores(sq, id) == {i \in 1..Len(sq) : sq[i].instr_id = id /\ ~sq[i].fetch_issued}

Unscheduled(st, ops, last, id) ==
  IF st = "schedule" /\ id = last - 1 THEN Len(ops.source_memory) + Len(ops.destination_memory) ELSE 0

AddsUp(x, lq, sq, unscheduled) ==
  x.completed_mem_ops
    + (Cardinality(LoadsFor(lq, x.instr_id)) + Cardinality(OpenStores(sq, x.instr_id)) + unscheduled)
  = x.num_mem_ops

LEMMA Amounts ==
  ASSUME NEW lq, NEW sq, Len(sq) \in Nat, NEW id
  PROVE  /\ IsFiniteSet(LoadsFor(lq, id)) /\ Cardinality(LoadsFor(lq, id)) \in Nat
         /\ IsFiniteSet(OpenStores(sq, id)) /\ Cardinality(OpenStores(sq, id)) \in Nat
<1>1. LoadsFor(lq, id) \in SUBSET Slot /\ OpenStores(sq, id) \in SUBSET (1..Len(sq))
  BY DEF LoadsFor, OpenStores
<1>2. IsFiniteSet(LoadsFor(lq, id)) /\ IsFiniteSet(OpenStores(sq, id))
  BY <1>1, Finite, FS_Subset
<1> QED BY <1>2, FS_CardinalityType

LEMMA UnscheduledIs ==
  ASSUME NEW ops \in [source_memory : Seq(Address), destination_memory : Seq(Address)],
         NEW st, NEW last, NEW id
  PROVE  Unscheduled(st, ops, last, id) \in Nat
<1>1. Len(ops.source_memory) \in Nat /\ Len(ops.destination_memory) \in Nat
  BY LenProperties
<1>2. \A c, d \in Nat : c + d \in Nat
  OBVIOUS
<1> QED BY <1>1, <1>2 DEF Unscheduled

LEMMA MemoryOpsAre ==
  ASSUME TypeOK
  PROVE  MemoryOpsAddUp <=>
           /\ \A k \in 1..Len(ROB) : AddsUp(ROB[k], LQ, SQ, Unscheduled(stage, operands, next_id, ROB[k].instr_id))
           /\ \A q \in Slot : LQ[q] # NoEntry => \E k \in 1..Len(ROB) : ROB[k].instr_id = LQ[q].instr_id
           /\ \A i \in 1..Len(SQ) : ~SQ[i].fetch_issued => \E k \in 1..Len(ROB) : ROB[k].instr_id = SQ[i].instr_id
<1>1. DOMAIN ROB = 1..Len(ROB) /\ DOMAIN SQ = 1..Len(SQ)
  BY QueuesAre
<1>2. ASSUME NEW id
      PROVE  /\ {q \in Allocated : LQ[q].instr_id = id} = LoadsFor(LQ, id)
             /\ {i \in DOMAIN SQ : SQ[i].instr_id = id /\ ~SQ[i].fetch_issued} = OpenStores(SQ, id)
  BY <1>1 DEF Allocated, LoadsFor, OpenStores
<1>3. ASSUME NEW x
      PROVE  (x.completed_mem_ops + OpenMemoryOps(x) = x.num_mem_ops) <=>
             AddsUp(x, LQ, SQ, Unscheduled(stage, operands, next_id, x.instr_id))
  BY <1>2 DEF AddsUp, OpenMemoryOps, Unscheduled
<1>4. \A q : q \in Allocated <=> q \in Slot /\ LQ[q] # NoEntry
  BY DEF Allocated
<1> QED BY <1>1, <1>3, <1>4 DEF MemoryOpsAddUp

LEMMA MemoryOpsWillBe ==
  ASSUME TypeOK'
  PROVE  MemoryOpsAddUp' <=>
           /\ \A k \in 1..Len(ROB') : AddsUp(ROB'[k], LQ', SQ', Unscheduled(stage', operands', next_id', ROB'[k].instr_id))
           /\ \A q \in Slot : LQ'[q] # NoEntry => \E k \in 1..Len(ROB') : ROB'[k].instr_id = LQ'[q].instr_id
           /\ \A i \in 1..Len(SQ') : ~SQ'[i].fetch_issued => \E k \in 1..Len(ROB') : ROB'[k].instr_id = SQ'[i].instr_id
<1>1. DOMAIN ROB' = 1..Len(ROB') /\ DOMAIN SQ' = 1..Len(SQ')
  BY Entries DEF TypeOK
<1>2. ASSUME NEW id
      PROVE  /\ {q \in Allocated' : LQ'[q].instr_id = id} = LoadsFor(LQ', id)
             /\ {i \in DOMAIN SQ' : SQ'[i].instr_id = id /\ ~SQ'[i].fetch_issued} = OpenStores(SQ', id)
  BY <1>1 DEF Allocated, LoadsFor, OpenStores
<1>3. ASSUME NEW k \in DOMAIN ROB'
      PROVE  (ROB[k].completed_mem_ops + OpenMemoryOps(ROB[k]) = ROB[k].num_mem_ops)' <=>
             AddsUp(ROB'[k], LQ', SQ', Unscheduled(stage', operands', next_id', ROB'[k].instr_id))
  BY <1>2 DEF AddsUp, OpenMemoryOps, Unscheduled
<1>4. \A q : q \in Allocated' <=> q \in Slot /\ LQ'[q] # NoEntry
  BY DEF Allocated
<1> QED BY <1>1, <1>3, <1>4 DEF MemoryOpsAddUp

\* What is in the queues after a step was there before, or is the youngest
\* instruction's.
LEMMA LoadsComeFrom ==
  ASSUME Inv, Next \/ UNCHANGED vars, NEW q \in Slot, LQ'[q] # NoEntry
  PROVE  \/ LQ[q] # NoEntry /\ LQ'[q].instr_id = LQ[q].instr_id
         \/ stage = "schedule" /\ LQ'[q].instr_id = next_id - 1
<1> USE DEF Inv
<1>1. CASE LQ' = LQ
  BY <1>1
<1>2. CASE HandleReturn
  <2>1. PICK S \in SUBSET Slot : Release(S)
    BY <1>2, HandleReturnIs
  <2> QED BY <2>1, ReleaseIs
<1>3. CASE FinishStore
  <2>1. PICK i \in 1..Len(SQ), S \in SUBSET Slot : FinishesAt(i, S)
    BY <1>3, FinishStoreIs
  <2>2. Release(S)
    BY <2>1 DEF FinishesAt
  <2> QED BY <2>2, ReleaseIs
<1>4. CASE AwaitStore
  <2>1. PICK i \in 1..Len(SQ), p \in Slot, e \in LoadEntry : Awaits(i, p, e)
    BY <1>4, AwaitStoreIs
  <2>2. LQ'[q] = (IF q = p THEN e ELSE LQ[q]) /\ e.instr_id = next_id - 1
    BY <2>1, LoadEnters DEF Awaits
  <2> QED BY <1>4, <2>2 DEF AwaitStore, NextLoad
<1>5. CASE ScheduleLoad
  <2>1. PICK p \in Slot, e \in LoadEntry : Reads(p, e)
    BY <1>5, ScheduleLoadIs
  <2>2. LQ'[q] = (IF q = p THEN e ELSE LQ[q]) /\ e.instr_id = next_id - 1
    BY <2>1, LoadEnters DEF Reads
  <2> QED BY <1>5, <2>2 DEF ScheduleLoad, NextLoad
<1>6. ASSUME NEW p \in Slot, IssueLoad(p)
      PROVE  LQ[q] # NoEntry /\ LQ'[q].instr_id = LQ[q].instr_id
  BY <1>6, IssueLoadIs
<1> HIDE DEF Inv
<1>7. TypeOK
  BY DEF Inv
<1> QED BY <1>1, <1>2, <1>3, <1>4, <1>5, <1>6, <1>7, WhoChangesWhat

LEMMA OpenStoresComeFrom ==
  ASSUME Inv, Next \/ UNCHANGED vars, NEW i \in 1..Len(SQ'), ~SQ'[i].fetch_issued
  PROVE  \/ \E j \in 1..Len(SQ) : ~SQ[j].fetch_issued /\ SQ'[i].instr_id = SQ[j].instr_id
         \/ stage = "schedule" /\ SQ'[i].instr_id = next_id - 1
<1> USE DEF Inv
<1>1. CASE SQ' = SQ
  BY <1>1
<1>2. CASE FinishStore
  <2>1. PICK k \in 1..Len(SQ), S \in SUBSET Slot : FinishesAt(k, S)
    BY <1>2, FinishStoreIs
  <2>2. /\ Len(SQ') = Len(SQ)
        /\ \A l \in 1..Len(SQ) : /\ SQ'[l].instr_id = SQ[l].instr_id
                                 /\ SQ'[l].fetch_issued <=> SQ[l].fetch_issued \/ l = k
    BY <2>1, FinishesAtIs
  <2> QED BY <2>2
<1>3. CASE WriteStore
  <2>1. SQ \in Seq(StoreEntry) /\ SQ # <<>> /\ SQ' = Tail(SQ)
    BY <1>3, WriteStoreIs
  <2>2. i + 1 \in 1..Len(SQ) /\ SQ'[i] = SQ[i + 1]
    BY <2>1, Rest
  <2> QED BY <2>2
<1>4. CASE AwaitStore
  <2>1. PICK k \in 1..Len(SQ), q \in Slot, e \in LoadEntry : Awaits(k, q, e)
    BY <1>4, AwaitStoreIs
  <2>2. /\ Len(SQ') = Len(SQ)
        /\ \A l \in 1..Len(SQ) : /\ SQ'[l].instr_id = SQ[l].instr_id
                                 /\ SQ'[l].fetch_issued <=> SQ[l].fetch_issued
    BY <2>1, AwaitsIs
  <2> QED BY <2>2
<1>5. CASE ScheduleStore
  <2>1. PICK x \in StoreEntry : Stores(x)
    BY <1>5, ScheduleStoreIs
  <2>2. SQ \in Seq(StoreEntry) /\ SQ' = Append(SQ, x) /\ x.instr_id = next_id - 1
    BY <2>1 DEF Stores, TypeOK
  <2>3. /\ \A k \in 1..Len(SQ) : SQ'[k] = SQ[k]
        /\ SQ'[Len(SQ) + 1] = x
        /\ \A k \in 1..Len(SQ') : k \in 1..Len(SQ) \/ k = Len(SQ) + 1
    BY <2>2, Appended
  <2>4. stage = "schedule"
    BY <1>5 DEF ScheduleStore
  <2> QED BY <2>2, <2>3, <2>4
<1> HIDE DEF Inv
<1>6. TypeOK
  BY DEF Inv
<1> QED BY <1>1, <1>2, <1>3, <1>4, <1>5, <1>6, WhoChangesWhat

\* An instruction that has completed has nothing in the queues that has not ended.
LEMMA CompletedHasEnded ==
  ASSUME Inv, NEW k \in 1..Len(ROB), ROB[k].completed
  PROVE  LoadsFor(LQ, ROB[k].instr_id) = {} /\ OpenStores(SQ, ROB[k].instr_id) = {}
<1> DEFINE id == ROB[k].instr_id
           l == Cardinality(LoadsFor(LQ, id))
           s == Cardinality(OpenStores(SQ, id))
           u == Unscheduled(stage, operands, next_id, id)
<1>1. l \in Nat /\ s \in Nat /\ u \in Nat /\ IsFiniteSet(LoadsFor(LQ, id)) /\ IsFiniteSet(OpenStores(SQ, id))
  <2>1. Len(SQ) \in Nat
    BY QueuesAre DEF Inv
  <2>2. operands \in [source_memory : Seq(Address), destination_memory : Seq(Address)]
    BY DEF Inv, TypeOK
  <2> QED BY <2>1, <2>2, Amounts, UnscheduledIs
<1>2. ROB[k].completed_mem_ops = ROB[k].num_mem_ops /\ ROB[k].num_mem_ops \in Nat
  BY QueuesAre DEF Inv, Counted, Instruction
<1>3. ROB[k].completed_mem_ops + (l + s + u) = ROB[k].num_mem_ops
  <2>1. AddsUp(ROB[k], LQ, SQ, u)
    BY MemoryOpsAre DEF Inv
  <2> QED BY <2>1 DEF AddsUp
<1> HIDE DEF l, s, u
<1>4. l = 0 /\ s = 0
  BY <1>1, <1>2, <1>3
<1> QED BY <1>1, <1>4, FS_EmptySet DEF l, s

\* Only instructions that have completed leave the reorder buffer.
LEMMA InstructionsStay ==
  ASSUME Inv, Next \/ UNCHANGED vars, NEW k \in 1..Len(ROB)
  PROVE  \/ \E j \in 1..Len(ROB') : ROB'[j].instr_id = ROB[k].instr_id
         \/ ROB[k].completed /\ stage = "retire"
<1>1. CASE Goes
  BY <1>1 DEF Goes
<1>2. CASE Retire
  <2>1. ROB \in Seq(Instruction) /\ ROB # <<>> /\ ROB' = Tail(ROB) /\ ROB[1].completed
    BY <1>2, RetireIs DEF Inv
  <2>2. \A j \in 1..Len(ROB) : j # 1 => j - 1 \in 1..Len(ROB') /\ ROB'[j - 1] = ROB[j]
    BY <2>1, Rest
  <2> QED BY <1>2, <2>1, <2>2 DEF Retire
<1>3. ASSUME NEW o \in Operation, Dispatch(o)
      PROVE  \E j \in 1..Len(ROB') : ROB'[j].instr_id = ROB[k].instr_id
  <2>1. PICK x \in Instruction : ROB' = Append(ROB, x)
    BY <1>3, DispatchIs DEF Inv
  <2>2. ROB \in Seq(Instruction)
    BY DEF Inv, TypeOK
  <2>3. k \in 1..Len(ROB') /\ ROB'[k] = ROB[k]
    BY <2>1, <2>2, Appended
  <2> QED BY <2>3
<1> QED BY <1>1, <1>2, <1>3, WhoChangesInstructions

LEMMA OwnersStay ==
  ASSUME Inv, Next \/ UNCHANGED vars
  PROVE  /\ \A q \in Slot : LQ'[q] # NoEntry => \E k \in 1..Len(ROB') : ROB'[k].instr_id = LQ'[q].instr_id
         /\ \A i \in 1..Len(SQ') : ~SQ'[i].fetch_issued => \E k \in 1..Len(ROB') : ROB'[k].instr_id = SQ'[i].instr_id
<1>0. /\ \A q \in Slot : LQ[q] # NoEntry => \E k \in 1..Len(ROB) : ROB[k].instr_id = LQ[q].instr_id
      /\ \A i \in 1..Len(SQ) : ~SQ[i].fetch_issued => \E k \in 1..Len(ROB) : ROB[k].instr_id = SQ[i].instr_id
  BY MemoryOpsAre DEF Inv
<1>1. ASSUME stage = "schedule"
      PROVE  \E k \in 1..Len(ROB') : ROB'[k].instr_id = next_id - 1
  <2>1. Len(ROB) \in 1..Len(ROB) /\ ROB[Len(ROB)].instr_id = next_id - 1
    BY <1>1, QueuesAre DEF Inv, Programmed
  <2> QED BY <1>1, <2>1, InstructionsStay
<1>2. ASSUME NEW q \in Slot, LQ'[q] # NoEntry
      PROVE  \E k \in 1..Len(ROB') : ROB'[k].instr_id = LQ'[q].instr_id
  <2>1. CASE LQ[q] # NoEntry /\ LQ'[q].instr_id = LQ[q].instr_id
    <3>1. PICK k \in 1..Len(ROB) : ROB[k].instr_id = LQ[q].instr_id
      BY <1>0, <2>1
    <3>2. ~ROB[k].completed
      <4>1. q \in LoadsFor(LQ, ROB[k].instr_id)
        BY <2>1, <3>1 DEF LoadsFor
      <4> QED BY <4>1, CompletedHasEnded
    <3>3. \E j \in 1..Len(ROB') : ROB'[j].instr_id = ROB[k].instr_id
      BY <3>2, InstructionsStay
    <3> QED BY <2>1, <3>1, <3>3
  <2>2. CASE stage = "schedule" /\ LQ'[q].instr_id = next_id - 1
    BY <1>1, <2>2
  <2> QED BY <1>2, <2>1, <2>2, LoadsComeFrom
<1>3. ASSUME NEW i \in 1..Len(SQ'), ~SQ'[i].fetch_issued
      PROVE  \E k \in 1..Len(ROB') : ROB'[k].instr_id = SQ'[i].instr_id
  <2>1. ASSUME NEW j \in 1..Len(SQ), ~SQ[j].fetch_issued, SQ'[i].instr_id = SQ[j].instr_id
        PROVE  \E k \in 1..Len(ROB') : ROB'[k].instr_id = SQ'[i].instr_id
    <3>1. PICK k \in 1..Len(ROB) : ROB[k].instr_id = SQ[j].instr_id
      BY <1>0, <2>1
    <3>2. ~ROB[k].completed
      <4>1. j \in OpenStores(SQ, ROB[k].instr_id)
        BY <2>1, <3>1 DEF OpenStores
      <4> QED BY <4>1, CompletedHasEnded
    <3>3. \E l \in 1..Len(ROB') : ROB'[l].instr_id = ROB[k].instr_id
      BY <3>2, InstructionsStay
    <3> QED BY <2>1, <3>1, <3>3
  <2>2. CASE stage = "schedule" /\ SQ'[i].instr_id = next_id - 1
    BY <1>1, <2>2
  <2> QED BY <1>3, <2>1, <2>2, OpenStoresComeFrom
<1> QED BY <1>2, <1>3

ToSchedule(ops) == Len(ops.source_memory) + Len(ops.destination_memory)

\* Outside scheduling the operands are empty, so the stage does not matter.
LEMMA UnscheduledAre ==
  ASSUME NEW st, NEW ops, NEW last, NEW id,
         st # "schedule" => ops.source_memory = <<>> /\ ops.destination_memory = <<>>
  PROVE  Unscheduled(st, ops, last, id) = IF id = last - 1 THEN ToSchedule(ops) ELSE 0
<1>1. Len(<<>>) = 0
  BY EmptySeq
<1>2. ASSUME st # "schedule"
      PROVE  ToSchedule(ops) = 0
  <2>1. Len(ops.source_memory) = 0 /\ Len(ops.destination_memory) = 0
    BY <1>1, <1>2
  <2>2. 0 + 0 = 0
    OBVIOUS
  <2> QED BY <2>1, <2>2 DEF ToSchedule
<1>3. Unscheduled(st, ops, last, id) = IF st = "schedule" /\ id = last - 1 THEN ToSchedule(ops) ELSE 0
  BY DEF Unscheduled, ToSchedule
<1> HIDE DEF ToSchedule
<1> QED BY <1>2, <1>3

OwedBy(id) == Unscheduled(stage, operands, next_id, id)

WillOwe(id) == Unscheduled(stage', operands', next_id', id)

LEMMA OwedStays ==
  ASSUME Inv, HasRoom', operands' = operands, next_id' = next_id, NEW id
  PROVE  WillOwe(id) = OwedBy(id)
<1>1. stage # "schedule" => operands.source_memory = <<>> /\ operands.destination_memory = <<>>
  BY DEF Inv, HasRoom
<1>2. stage' # "schedule" => operands'.source_memory = <<>> /\ operands'.destination_memory = <<>>
  BY DEF HasRoom
<1> QED BY <1>1, <1>2, UnscheduledAre DEF OwedBy, WillOwe

\* One operand less to schedule.
LEMMA OwedLess ==
  ASSUME Inv, stage = "schedule", UNCHANGED <<stage, next_id>>, NextLoad \/ ScheduleStore, NEW id
  PROVE  /\ WillOwe(id) \in Nat /\ OwedBy(id) \in Nat
         /\ id = next_id - 1 => WillOwe(id) = OwedBy(id) - 1
         /\ id # next_id - 1 => WillOwe(id) = OwedBy(id)
<1>1. /\ operands.source_memory \in Seq(Address) /\ operands.destination_memory \in Seq(Address)
      /\ operands \in [source_memory : Seq(Address), destination_memory : Seq(Address)]
      /\ Len(operands.source_memory) \in Nat /\ Len(operands.destination_memory) \in Nat
  <2>1. operands \in [source_memory : Seq(Address), destination_memory : Seq(Address)]
    BY DEF Inv, TypeOK
  <2> QED BY <2>1, LenProperties
<1>2. CASE NextLoad
  <2>1. /\ operands.source_memory # <<>>
        /\ operands'.source_memory = Tail(operands.source_memory)
        /\ operands'.destination_memory = operands.destination_memory
        /\ operands' \in [source_memory : Seq(Address), destination_memory : Seq(Address)]
    BY <1>2, NextLoadIs DEF Inv
  <2>2. Len(operands'.source_memory) = Len(operands.source_memory) - 1
    BY <1>1, <2>1, Rest
  <2>3. ToSchedule(operands') = ToSchedule(operands) - 1
    BY <1>1, <2>1, <2>2 DEF ToSchedule
  <2>4. WillOwe(id) \in Nat /\ OwedBy(id) \in Nat
    BY <1>1, <2>1, UnscheduledIs DEF WillOwe, OwedBy
  <2> QED BY <2>3, <2>4 DEF WillOwe, OwedBy, Unscheduled, ToSchedule
<1>3. CASE ScheduleStore
  <2>1. /\ operands.source_memory = <<>> /\ operands'.source_memory = <<>>
        /\ operands.destination_memory # <<>>
        /\ operands'.destination_memory = Tail(operands.destination_memory)
        /\ operands' \in [source_memory : Seq(Address), destination_memory : Seq(Address)]
    BY <1>3, ScheduleStoreIs DEF Inv
  <2>2. Len(operands'.destination_memory) = Len(operands.destination_memory) - 1
    BY <1>1, <2>1, Rest
  <2>3. ToSchedule(operands') = ToSchedule(operands) - 1
    BY <1>1, <2>1, <2>2 DEF ToSchedule
  <2>4. WillOwe(id) \in Nat /\ OwedBy(id) \in Nat
    BY <1>1, <2>1, UnscheduledIs DEF WillOwe, OwedBy
  <2> QED BY <2>3, <2>4 DEF WillOwe, OwedBy, Unscheduled, ToSchedule
<1> QED BY <1>2, <1>3

LEMMA Cancels ==
  \A a, b, d, e, n, c, l, s, u \in Int :
    a + (b + d + e) = n /\ c + l + s + u = 0 => (a + c) + ((b + l) + (d + s) + (e + u)) = n
OBVIOUS

\* An instruction still adds up if what changes cancels out.
LEMMA AddsUpStill ==
  ASSUME Inv, NEW k \in 1..Len(ROB), NEW y,
         y.instr_id = ROB[k].instr_id, y.num_mem_ops = ROB[k].num_mem_ops,
         NEW c \in Int, NEW l \in Int, NEW s \in Int, NEW u \in Int, c + l + s + u = 0,
         y.completed_mem_ops = ROB[k].completed_mem_ops + c,
         Cardinality(LoadsFor(LQ', y.instr_id)) = Cardinality(LoadsFor(LQ, y.instr_id)) + l,
         Cardinality(OpenStores(SQ', y.instr_id)) = Cardinality(OpenStores(SQ, y.instr_id)) + s,
         WillOwe(y.instr_id) = OwedBy(y.instr_id) + u
  PROVE  AddsUp(y, LQ', SQ', WillOwe(y.instr_id))
<1>1. AddsUp(ROB[k], LQ, SQ, OwedBy(ROB[k].instr_id))
  BY MemoryOpsAre DEF Inv, OwedBy
<1>2. /\ Cardinality(LoadsFor(LQ, y.instr_id)) \in Nat /\ Cardinality(OpenStores(SQ, y.instr_id)) \in Nat
      /\ OwedBy(y.instr_id) \in Nat /\ ROB[k].completed_mem_ops \in Nat
  <2>1. Len(SQ) \in Nat /\ ROB[k] \in Instruction
    BY QueuesAre DEF Inv
  <2>2. operands \in [source_memory : Seq(Address), destination_memory : Seq(Address)]
    BY DEF Inv, TypeOK
  <2> QED BY <2>1, <2>2, Amounts, UnscheduledIs DEF OwedBy, Instruction
<1>3. ROB[k].num_mem_ops \in Int
  BY QueuesAre DEF Inv, Instruction
<1>4. PICK m, a, b, d, n :
        /\ m = ROB[k].completed_mem_ops /\ n = ROB[k].num_mem_ops
        /\ a = Cardinality(LoadsFor(LQ, y.instr_id)) /\ b = Cardinality(OpenStores(SQ, y.instr_id))
        /\ d = OwedBy(y.instr_id)
  OBVIOUS
<1>5. m \in Int /\ a \in Int /\ b \in Int /\ d \in Int /\ n \in Int /\ m + (a + b + d) = n
  BY <1>1, <1>2, <1>3, <1>4 DEF AddsUp
<1>6. c + l + s + u = 0
  OBVIOUS
<1>7. (m + c) + ((a + l) + (b + s) + (d + u)) = n
  BY <1>5, <1>6, Cancels
<1> QED BY <1>4, <1>7 DEF AddsUp

LEMMA SameLoads ==
  ASSUME NEW id, \A q \in Slot : /\ LQ'[q] # NoEntry <=> LQ[q] # NoEntry
                                 /\ LQ[q] # NoEntry => LQ'[q].instr_id = LQ[q].instr_id
  PROVE  LoadsFor(LQ', id) = LoadsFor(LQ, id)
BY DEF LoadsFor

LEMMA SameStores ==
  ASSUME NEW id, Len(SQ') = Len(SQ),
         \A i \in 1..Len(SQ) : /\ SQ'[i].instr_id = SQ[i].instr_id
                               /\ SQ'[i].fetch_issued <=> SQ[i].fetch_issued
  PROVE  OpenStores(SQ', id) = OpenStores(SQ, id)
BY DEF OpenStores

LEMMA OneMoreLoad ==
  ASSUME TypeOK, NEW q \in Slot, NEW e \in LoadEntry, LQ' = [LQ EXCEPT ![q] = e], LQ[q] = NoEntry, NEW id
  PROVE  Cardinality(LoadsFor(LQ', id)) =
           Cardinality(LoadsFor(LQ, id)) + (IF id = e.instr_id THEN 1 ELSE 0)
<1>1. \A r \in Slot : LQ'[r] = IF r = q THEN e ELSE LQ[r]
  BY LoadEnters
<1>2. e # NoEntry
  BY NoEntryAssumption
<1>3. IsFiniteSet(LoadsFor(LQ, id)) /\ Cardinality(LoadsFor(LQ, id)) \in Nat
  BY QueuesAre, Amounts
<1>4. CASE id = e.instr_id
  <2>1. LoadsFor(LQ', id) = LoadsFor(LQ, id) \cup {q} /\ q \notin LoadsFor(LQ, id)
    BY <1>1, <1>2, <1>4 DEF LoadsFor
  <2>2. Cardinality(LoadsFor(LQ, id) \cup {q}) = Cardinality(LoadsFor(LQ, id)) + 1
    BY <1>3, <2>1, FS_AddElement
  <2> QED BY <1>4, <2>1, <2>2
<1>5. CASE id # e.instr_id
  <2>1. LoadsFor(LQ', id) = LoadsFor(LQ, id)
    BY <1>1, <1>5 DEF LoadsFor
  <2> QED BY <1>3, <1>5, <2>1
<1> QED BY <1>4, <1>5

LEMMA FewerLoads ==
  ASSUME TypeOK, NEW S \in SUBSET Slot, S \subseteq Allocated, Release(S), NEW id
  PROVE  LET n == Cardinality({q \in S : LQ[q].instr_id = id})
         IN  n \in Nat /\ Cardinality(LoadsFor(LQ', id)) = Cardinality(LoadsFor(LQ, id)) - n
<1>1. PICK T : T = {q \in S : LQ[q].instr_id = id}
  OBVIOUS
<1>2. \A q \in Slot : LQ'[q] = IF q \in S THEN NoEntry ELSE LQ[q]
  BY ReleaseIs
<1>3. T \subseteq LoadsFor(LQ, id) /\ LoadsFor(LQ', id) = LoadsFor(LQ, id) \ T
  BY <1>1, <1>2 DEF LoadsFor, Allocated
<1>4. IsFiniteSet(LoadsFor(LQ, id)) /\ Cardinality(LoadsFor(LQ, id)) \in Nat
  BY QueuesAre, Amounts
<1>5. IsFiniteSet(T) /\ Cardinality(T) \in Nat
  BY <1>3, <1>4, FS_Subset, FS_CardinalityType
<1>6. LoadsFor(LQ, id) \cap T = T
  BY <1>3
<1>7. Cardinality(LoadsFor(LQ, id) \ T) = Cardinality(LoadsFor(LQ, id)) - Cardinality(LoadsFor(LQ, id) \cap T)
  BY <1>4, FS_Difference
<1>8. Cardinality(LoadsFor(LQ', id)) = Cardinality(LoadsFor(LQ, id)) - Cardinality(T)
  BY <1>3, <1>6, <1>7
<1> QED BY <1>1, <1>5, <1>8

LEMMA OneFewerStore ==
  ASSUME TypeOK, NEW i \in 1..Len(SQ), NEW S \in SUBSET Slot, FinishesAt(i, S), NEW id
  PROVE  Cardinality(OpenStores(SQ', id)) =
           Cardinality(OpenStores(SQ, id)) - (IF id \in {SQ[i].instr_id} THEN 1 ELSE 0)
<1>1. /\ ~SQ[i].fetch_issued /\ Len(SQ') = Len(SQ)
      /\ \A j \in 1..Len(SQ) : /\ SQ'[j].instr_id = SQ[j].instr_id
                               /\ SQ'[j].fetch_issued <=> SQ[j].fetch_issued \/ j = i
  BY FinishesAtIs
<1>2. IsFiniteSet(OpenStores(SQ, id)) /\ Cardinality(OpenStores(SQ, id)) \in Nat
  BY QueuesAre, Amounts
<1>3. CASE id = SQ[i].instr_id
  <2>1. OpenStores(SQ', id) = OpenStores(SQ, id) \ {i} /\ i \in OpenStores(SQ, id)
    BY <1>1, <1>3 DEF OpenStores
  <2>2. Cardinality(OpenStores(SQ, id) \ {i}) = Cardinality(OpenStores(SQ, id)) - 1
    BY <1>2, <2>1, FS_RemoveElement
  <2> QED BY <1>3, <2>1, <2>2
<1>4. CASE id # SQ[i].instr_id
  <2>1. OpenStores(SQ', id) = OpenStores(SQ, id)
    BY <1>1, <1>4 DEF OpenStores
  <2> QED BY <1>2, <1>4, <2>1
<1> QED BY <1>3, <1>4

LEMMA OneMoreStore ==
  ASSUME TypeOK, NEW x \in StoreEntry, Stores(x), NEW id
  PROVE  Cardinality(OpenStores(SQ', id)) =
           Cardinality(OpenStores(SQ, id)) + (IF id = x.instr_id THEN 1 ELSE 0)
<1>1. SQ \in Seq(StoreEntry) /\ SQ' = Append(SQ, x) /\ ~x.fetch_issued
  BY DEF Stores, TypeOK
<1>2. /\ \A k \in 1..Len(SQ) : k \in 1..Len(SQ') /\ SQ'[k] = SQ[k]
      /\ Len(SQ) + 1 \in 1..Len(SQ') /\ SQ'[Len(SQ) + 1] = x /\ Len(SQ) \in Nat
      /\ \A k \in 1..Len(SQ') : k \in 1..Len(SQ) \/ k = Len(SQ) + 1
  BY <1>1, Appended
<1>3. IsFiniteSet(OpenStores(SQ, id)) /\ Cardinality(OpenStores(SQ, id)) \in Nat
  BY QueuesAre, Amounts
<1>4. PICK n : n = Len(SQ) + 1
  OBVIOUS
<1>5. n \notin 1..Len(SQ)
  BY <1>2, <1>4
<1>6. \A k : k \in 1..Len(SQ') <=> k \in 1..Len(SQ) \/ k = n
  BY <1>2, <1>4
<1>7. CASE id = x.instr_id
  <2>1. OpenStores(SQ', id) = OpenStores(SQ, id) \cup {n} /\ n \notin OpenStores(SQ, id)
    BY <1>1, <1>2, <1>4, <1>5, <1>6, <1>7 DEF OpenStores
  <2>2. Cardinality(OpenStores(SQ, id) \cup {n}) = Cardinality(OpenStores(SQ, id)) + 1
    BY <1>3, <2>1, FS_AddElement
  <2> QED BY <1>7, <2>1, <2>2
<1>8. CASE id # x.instr_id
  <2>1. OpenStores(SQ', id) = OpenStores(SQ, id)
    BY <1>1, <1>2, <1>4, <1>6, <1>8 DEF OpenStores
  <2> QED BY <1>3, <1>8, <2>1
<1> QED BY <1>7, <1>8

LEMMA AsManyStores ==
  ASSUME TypeOK, MemoryOpsAddUp, Programmed, WriteStore, NEW id
  PROVE  Cardinality(OpenStores(SQ', id)) = Cardinality(OpenStores(SQ, id))
<1>1. SQ \in Seq(StoreEntry) /\ SQ # <<>> /\ SQ' = Tail(SQ) /\ SQ[1].fetch_issued
  BY WriteStoreIs
<1>2. /\ Len(SQ) \in Nat \ {0} /\ Len(SQ') = Len(SQ) - 1
      /\ \A k \in 1..Len(SQ') : k + 1 \in 1..Len(SQ) /\ k + 1 # 1 /\ SQ'[k] = SQ[k + 1]
      /\ \A k \in 1..Len(SQ) : k # 1 => k - 1 \in 1..Len(SQ') /\ SQ'[k - 1] = SQ[k]
  BY <1>1, Rest
<1>3. OpenStores(SQ, id) \in SUBSET (1..Len(SQ)) /\ OpenStores(SQ', id) \subseteq Int
  BY DEF OpenStores
<1>4. ASSUME NEW k \in Int
      PROVE  k \in OpenStores(SQ', id) <=> k + 1 \in OpenStores(SQ, id)
  <2>1. CASE k \in 1..Len(SQ')
    BY <1>2, <2>1 DEF OpenStores
  <2>2. CASE k \notin 1..Len(SQ')
    <3>1. k + 1 \in 1..Len(SQ) => k + 1 = 1
      BY <1>2, <2>2
    <3>2. k + 1 \notin OpenStores(SQ, id)
      BY <1>1, <3>1 DEF OpenStores
    <3> QED BY <2>2, <3>2 DEF OpenStores
  <2> QED BY <2>1, <2>2
<1>5. Len(SQ) \in Nat
  BY <1>2
<1> QED BY <1>3, <1>4, <1>5, ShiftedDown

\* What a store waits to give its value to is in the load queue.
LEMMA DependentsAre ==
  ASSUME Inv, NEW i \in 1..Len(SQ), ~SQ[i].fetch_issued, NEW q \in SQ[i].lq_depend_on_me
  PROVE  /\ q \in Slot /\ q \in Allocated /\ LQ[q] # NoEntry /\ LQ[q].producer_id = SQ[i].instr_id
         /\ LQ[q].virtual_address = SQ[i].virtual_address
BY QueuesAre DEF Inv, WaitingLoadsHaveTheirStore

LEMMA AddsUpKept ==
  ASSUME Inv, Next \/ UNCHANGED vars, TypeOK', HasRoom', NEW k \in 1..Len(ROB')
  PROVE  AddsUp(ROB'[k], LQ', SQ', WillOwe(ROB'[k].instr_id))
<1>0. /\ TypeOK /\ MemoryOpsAddUp /\ Programmed /\ HasRoom /\ StoresInOrder
      /\ Len(ROB) \in Nat /\ \A j \in 1..Len(ROB) : ROB[j].completed_mem_ops \in Nat
      /\ \A id : Cardinality(LoadsFor(LQ, id)) \in Nat /\ Cardinality(OpenStores(SQ, id)) \in Nat
      /\ \A id : OwedBy(id) \in Nat
      /\ \A a \in Int : a = a + 0 /\ a - 1 = a + (-1)
  <2>1. Len(SQ) \in Nat /\ Len(ROB) \in Nat /\ \A j \in 1..Len(ROB) : ROB[j] \in Instruction
    BY QueuesAre DEF Inv
  <2>2. operands \in [source_memory : Seq(Address), destination_memory : Seq(Address)]
    BY DEF Inv, TypeOK
  <2>3. \A id : Cardinality(LoadsFor(LQ, id)) \in Nat /\ Cardinality(OpenStores(SQ, id)) \in Nat
    BY <2>1, Amounts
  <2>4. \A id : OwedBy(id) \in Nat
    BY <2>2, UnscheduledIs DEF OwedBy
  <2>5. \A j \in 1..Len(ROB) : ROB[j].completed_mem_ops \in Nat
    BY <2>1 DEF Instruction
  <2> QED BY <2>1, <2>3, <2>4, <2>5 DEF Inv
<1>1. ASSUME NEW j \in 1..Len(ROB), ROB'[k].instr_id = ROB[j].instr_id, ROB'[k].num_mem_ops = ROB[j].num_mem_ops,
             ROB'[k].completed_mem_ops = ROB[j].completed_mem_ops, UNCHANGED <<operands, next_id>>,
             Cardinality(LoadsFor(LQ', ROB'[k].instr_id)) = Cardinality(LoadsFor(LQ, ROB'[k].instr_id)),
             Cardinality(OpenStores(SQ', ROB'[k].instr_id)) = Cardinality(OpenStores(SQ, ROB'[k].instr_id))
      PROVE  AddsUp(ROB'[k], LQ', SQ', WillOwe(ROB'[k].instr_id))
  <2>1. WillOwe(ROB'[k].instr_id) = OwedBy(ROB'[k].instr_id)
    BY <1>1, OwedStays
  <2>2. PICK c : c = 0
    OBVIOUS
  <2>3. c \in Int /\ c + c + c + c = 0
    BY <2>2
  <2>4. /\ ROB'[k].completed_mem_ops = ROB[j].completed_mem_ops + c
        /\ Cardinality(LoadsFor(LQ', ROB'[k].instr_id)) = Cardinality(LoadsFor(LQ, ROB'[k].instr_id)) + c
        /\ Cardinality(OpenStores(SQ', ROB'[k].instr_id)) = Cardinality(OpenStores(SQ, ROB'[k].instr_id)) + c
        /\ WillOwe(ROB'[k].instr_id) = OwedBy(ROB'[k].instr_id) + c
    BY <1>0, <1>1, <2>1, <2>2
  <2> QED BY <1>1, <2>3, <2>4, AddsUpStill
<1>2. CASE BeginCycle \/ NextLoop \/ EndScheduling \/ \E b \in Block : L1DAnswers(b)
  <2>1. ROB' = ROB /\ LQ' = LQ /\ SQ' = SQ /\ UNCHANGED <<operands, next_id>>
    BY <1>0, <1>2, QuietSteps DEF Quiet
  <2>2. k \in 1..Len(ROB)
    BY <2>1
  <2> QED BY <1>1, <2>1, <2>2
<1>3. CASE UNCHANGED vars
  <2>1. ROB' = ROB /\ LQ' = LQ /\ SQ' = SQ /\ UNCHANGED <<operands, next_id>>
    BY <1>3 DEF vars
  <2>2. k \in 1..Len(ROB)
    BY <2>1
  <2> QED BY <1>1, <2>1, <2>2
<1>4. CASE Retire
  <2>1. ROB \in Seq(Instruction) /\ ROB # <<>> /\ ROB' = Tail(ROB) /\ UNCHANGED <<LQ, SQ, operands, next_id>>
    BY <1>0, <1>4, RetireIs
  <2>2. k + 1 \in 1..Len(ROB) /\ ROB'[k] = ROB[k + 1]
    BY <2>1, Rest
  <2> QED BY <1>1, <2>1, <2>2
<1>5. ASSUME NEW j \in DOMAIN ROB, Complete(j) \/ Execute(j)
      PROVE  AddsUp(ROB'[k], LQ', SQ', WillOwe(ROB'[k].instr_id))
  <2>1. Len(ROB') = Len(ROB)
    BY <1>0, <1>5, CompleteIs, ExecuteIs
  <2>2. k \in 1..Len(ROB)
    BY <2>1
  <2>3. /\ ROB'[k].instr_id = ROB[k].instr_id /\ ROB'[k].num_mem_ops = ROB[k].num_mem_ops
        /\ ROB'[k].completed_mem_ops = ROB[k].completed_mem_ops
    BY <1>0, <1>5, <2>2, CompleteIs, ExecuteIs
  <2>4. LQ' = LQ /\ SQ' = SQ /\ UNCHANGED <<operands, next_id>>
    BY <1>5 DEF Complete, Execute
  <2> QED BY <1>1, <2>2, <2>3, <2>4
<1>6. ASSUME NEW q \in Slot, IssueLoad(q)
      PROVE  AddsUp(ROB'[k], LQ', SQ', WillOwe(ROB'[k].instr_id))
  <2>1. /\ ROB' = ROB /\ SQ' = SQ /\ UNCHANGED <<operands, next_id>>
        /\ \A r \in Slot : /\ LQ'[r] # NoEntry <=> LQ[r] # NoEntry
                           /\ LQ[r] # NoEntry => LQ'[r].instr_id = LQ[r].instr_id
    BY <1>0, <1>6, IssueLoadIs
  <2>2. LoadsFor(LQ', ROB'[k].instr_id) = LoadsFor(LQ, ROB'[k].instr_id)
    BY <2>1, SameLoads
  <2>3. k \in 1..Len(ROB)
    BY <2>1
  <2> QED BY <1>1, <2>1, <2>2, <2>3
<1>7. CASE WriteStore
  <2>1. ROB' = ROB /\ LQ' = LQ /\ UNCHANGED <<operands, next_id>>
    BY <1>7 DEF WriteStore
  <2>2. Cardinality(OpenStores(SQ', ROB'[k].instr_id)) = Cardinality(OpenStores(SQ, ROB'[k].instr_id))
    BY <1>0, <1>7, AsManyStores
  <2>3. k \in 1..Len(ROB)
    BY <2>1
  <2> QED BY <1>1, <2>1, <2>2, <2>3
<1>8. ASSUME NEW S \in SUBSET Slot, NEW ids, S \subseteq Allocated, Finish(S, ids), Release(S),
             UNCHANGED <<operands, next_id>>,
             \A id : Cardinality(OpenStores(SQ', id)) =
                       Cardinality(OpenStores(SQ, id)) - (IF id \in ids THEN 1 ELSE 0)
      PROVE  AddsUp(ROB'[k], LQ', SQ', WillOwe(ROB'[k].instr_id))
  <2>1. /\ Len(ROB') = Len(ROB)
        /\ \A j \in 1..Len(ROB) :
              /\ ROB'[j].instr_id = ROB[j].instr_id
              /\ ROB'[j].num_mem_ops = ROB[j].num_mem_ops
              /\ ROB'[j].completed_mem_ops = ROB[j].completed_mem_ops + EndedOf(S, ids, ROB[j].instr_id)
              /\ EndedOf(S, ids, ROB[j].instr_id) \in Nat
    BY <1>0, <1>8, FinishIs
  <2>2. k \in 1..Len(ROB)
    BY <2>1
  <2>3. PICK id : id = ROB[k].instr_id
    OBVIOUS
  <2>4. PICK n : n = Cardinality({q \in S : LQ[q].instr_id = id})
    OBVIOUS
  <2>5. n \in Nat /\ Cardinality(LoadsFor(LQ', id)) = Cardinality(LoadsFor(LQ, id)) - n
    BY <1>0, <1>8, <2>4, FewerLoads
  <2>6. PICK m : m = IF id \in ids THEN 1 ELSE 0
    OBVIOUS
  <2>7. m \in Nat /\ EndedOf(S, ids, id) = n + m
        /\ Cardinality(OpenStores(SQ', id)) = Cardinality(OpenStores(SQ, id)) - m
    BY <1>8, <2>4, <2>6 DEF EndedOf
  <2>8. WillOwe(id) = OwedBy(id)
    BY <1>8, OwedStays
  <2>9. PICK c, l, s, u : c = n + m /\ l = -n /\ s = -m /\ u = 0
    OBVIOUS
  <2>10. /\ c \in Int /\ l \in Int /\ s \in Int /\ u \in Int /\ c + l + s + u = 0
         /\ \A a \in Nat : a - n = a + l /\ a - m = a + s /\ a = a + u
    BY <2>5, <2>7, <2>9
  <2>11. ROB'[k].completed_mem_ops = ROB[k].completed_mem_ops + c
    BY <2>1, <2>2, <2>3, <2>7, <2>9
  <2>12. Cardinality(LoadsFor(LQ', id)) = Cardinality(LoadsFor(LQ, id)) + l
    BY <1>0, <2>5, <2>10
  <2>13. Cardinality(OpenStores(SQ', id)) = Cardinality(OpenStores(SQ, id)) + s
    BY <1>0, <2>7, <2>10
  <2>14. WillOwe(id) = OwedBy(id) + u
    BY <1>0, <2>8, <2>10
  <2>15. ROB'[k].instr_id = id /\ ROB'[k].instr_id = ROB[k].instr_id /\ ROB'[k].num_mem_ops = ROB[k].num_mem_ops
    BY <2>1, <2>2, <2>3
  <2> QED BY <2>2, <2>10, <2>11, <2>12, <2>13, <2>14, <2>15, AddsUpStill
<1>9. CASE HandleReturn
  <2>1. PICK S \in SUBSET Slot : S \subseteq Allocated /\ Finish(S, {}) /\ Release(S)
    BY <1>0, <1>9, HandleReturnIs
  <2>2. SQ' = SQ /\ UNCHANGED <<operands, next_id>>
    BY <1>9 DEF HandleReturn
  <2>3. \A id : Cardinality(OpenStores(SQ', id)) =
                  Cardinality(OpenStores(SQ, id)) - (IF id \in {} THEN 1 ELSE 0)
    <3>1. \A a \in Nat : a = a - 0
      OBVIOUS
    <3> QED BY <1>0, <2>2, <3>1
  <2> QED BY <1>8, <2>1, <2>2, <2>3
<1>10. CASE FinishStore
  <2>1. PICK i \in 1..Len(SQ), S \in SUBSET Slot : FinishesAt(i, S)
    BY <1>0, <1>10, FinishStoreIs
  <2>2. Finish(S, {SQ[i].instr_id}) /\ Release(S) /\ S = SQ[i].lq_depend_on_me
    BY <2>1 DEF FinishesAt
  <2>3. ~SQ[i].fetch_issued
    BY <1>0, <2>1, FinishesAtIs
  <2>4. S \subseteq Allocated
    BY <2>2, <2>3, DependentsAre
  <2>5. UNCHANGED <<operands, next_id>>
    BY <1>10 DEF FinishStore
  <2>6. \A id : Cardinality(OpenStores(SQ', id)) =
                  Cardinality(OpenStores(SQ, id)) - (IF id \in {SQ[i].instr_id} THEN 1 ELSE 0)
    BY <1>0, <2>1, OneFewerStore
  <2> QED BY <1>8, <2>2, <2>4, <2>5, <2>6
<1>11. ASSUME stage = "schedule", NextLoad \/ ScheduleStore, UNCHANGED <<stage, next_id>>,
              k \in 1..Len(ROB), ROB'[k].instr_id = ROB[k].instr_id, ROB'[k].num_mem_ops = ROB[k].num_mem_ops,
              NEW c, NEW l, NEW s, NEW one, one = (IF ROB[k].instr_id = next_id - 1 THEN 1 ELSE 0),
              \/ c = one /\ l = 0 /\ s = 0
              \/ c = 0 /\ l = one /\ s = 0
              \/ c = 0 /\ l = 0 /\ s = one,
              ROB'[k].completed_mem_ops = ROB[k].completed_mem_ops + c,
              Cardinality(LoadsFor(LQ', ROB[k].instr_id)) = Cardinality(LoadsFor(LQ, ROB[k].instr_id)) + l,
              Cardinality(OpenStores(SQ', ROB[k].instr_id)) = Cardinality(OpenStores(SQ, ROB[k].instr_id)) + s
       PROVE  AddsUp(ROB'[k], LQ', SQ', WillOwe(ROB'[k].instr_id))
  <2>1. PICK u : u = -one
    OBVIOUS
  <2>2. /\ c \in Int /\ l \in Int /\ s \in Int /\ u \in Int /\ c + l + s + u = 0
        /\ \A a \in Nat : /\ one = 1 => a - 1 = a + u
                          /\ one = 0 => a = a + u
    BY <1>11, <2>1
  <2>3. WillOwe(ROB[k].instr_id) = OwedBy(ROB[k].instr_id) + u
    <3>1. CASE ROB[k].instr_id = next_id - 1
      <4>1. WillOwe(ROB[k].instr_id) = OwedBy(ROB[k].instr_id) - 1
        BY <1>11, <3>1, OwedLess
      <4> QED BY <1>0, <1>11, <2>2, <3>1, <4>1
    <3>2. CASE ROB[k].instr_id # next_id - 1
      <4>1. WillOwe(ROB[k].instr_id) = OwedBy(ROB[k].instr_id)
        BY <1>11, <3>2, OwedLess
      <4> QED BY <1>0, <1>11, <2>2, <3>2, <4>1
    <3> QED BY <3>1, <3>2
  <2>4. /\ ROB'[k].completed_mem_ops = ROB[k].completed_mem_ops + c
        /\ WillOwe(ROB'[k].instr_id) = OwedBy(ROB'[k].instr_id) + u
    BY <1>11, <2>3
  <2>5. /\ Cardinality(LoadsFor(LQ', ROB'[k].instr_id)) = Cardinality(LoadsFor(LQ, ROB'[k].instr_id)) + l
        /\ Cardinality(OpenStores(SQ', ROB'[k].instr_id)) = Cardinality(OpenStores(SQ, ROB'[k].instr_id)) + s
        /\ ROB'[k].instr_id = ROB[k].instr_id /\ ROB'[k].num_mem_ops = ROB[k].num_mem_ops
    BY <1>11
  <2>6. PICK y : y = ROB'[k]
    OBVIOUS
  <2>7. c \in Int /\ l \in Int /\ s \in Int /\ u \in Int /\ c + l + s + u = 0 /\ k \in 1..Len(ROB)
    BY <1>11, <2>2
  <2>8. AddsUp(y, LQ', SQ', WillOwe(y.instr_id))
    BY <2>4, <2>5, <2>6, <2>7, AddsUpStill
  <2> QED BY <2>6, <2>8
<1>12. /\ \A a \in Nat : a = a + 0
       /\ \A j \in 1..Len(ROB) : ROB[j].instr_id < next_id /\ ROB[j].instr_id \in Nat
       /\ next_id \in Nat
  <2>1. next_id \in Nat /\ \A j \in 1..Len(ROB) : ROB[j] \in Instruction
    BY <1>0, QueuesAre
  <2>2. \A j \in 1..Len(ROB) : ROB[j].instr_id \in Nat
    BY <2>1 DEF Instruction
  <2>3. \A j \in 1..Len(ROB) : ROB[j].instr_id < next_id
    BY <1>0 DEF Programmed
  <2> QED BY <2>1, <2>2, <2>3
<1>13. CASE ForwardLoad
  <2>1. /\ Len(ROB') = Len(ROB)
        /\ \A j \in 1..Len(ROB) :
              /\ ROB'[j].instr_id = ROB[j].instr_id
              /\ ROB'[j].num_mem_ops = ROB[j].num_mem_ops
              /\ ROB'[j].completed_mem_ops = IF j = Len(ROB) THEN ROB[j].completed_mem_ops + 1
                                                             ELSE ROB[j].completed_mem_ops
        /\ LQ' = LQ /\ SQ' = SQ /\ UNCHANGED <<stage, next_id>>
    BY <1>0, <1>13, ForwardLoadIs
  <2>2. k \in 1..Len(ROB)
    BY <2>1
  <2>3. NextLoad /\ stage = "schedule"
    BY <1>13 DEF ForwardLoad, NextLoad
  <2>4. k = Len(ROB) <=> ROB[k].instr_id = next_id - 1
    <3>1. ROB[Len(ROB)].instr_id = next_id - 1 /\ Len(ROB) \in 1..Len(ROB)
      BY <1>0, <2>3 DEF Programmed
    <3>2. k # Len(ROB) => ROB[k].instr_id < ROB[Len(ROB)].instr_id
      <4>1. k # Len(ROB) => k < Len(ROB)
        BY <1>0, <2>2
      <4> QED BY <1>0, <2>2, <3>1, <4>1 DEF Programmed, InProgramOrder
    <3> QED BY <1>12, <2>2, <3>1, <3>2
  <2>5. PICK one, zero : one = (IF ROB[k].instr_id = next_id - 1 THEN 1 ELSE 0) /\ zero = 0
    OBVIOUS
  <2>6. ROB'[k].completed_mem_ops = ROB[k].completed_mem_ops + one
    BY <1>0, <1>12, <2>1, <2>2, <2>4, <2>5
  <2>7. /\ Cardinality(LoadsFor(LQ', ROB[k].instr_id)) = Cardinality(LoadsFor(LQ, ROB[k].instr_id)) + zero
        /\ Cardinality(OpenStores(SQ', ROB[k].instr_id)) = Cardinality(OpenStores(SQ, ROB[k].instr_id)) + zero
    BY <1>0, <1>12, <2>1, <2>5
  <2> QED BY <1>11, <2>1, <2>2, <2>3, <2>5, <2>6, <2>7
<1>14. ASSUME NextLoad, NEW q \in Slot, NEW e \in LoadEntry, LQ' = [LQ EXCEPT ![q] = e], LQ[q] = NoEntry,
              e.instr_id = next_id - 1, ROB' = ROB, UNCHANGED <<stage, next_id>>,
              \A id : OpenStores(SQ', id) = OpenStores(SQ, id)
       PROVE  AddsUp(ROB'[k], LQ', SQ', WillOwe(ROB'[k].instr_id))
  <2>1. k \in 1..Len(ROB) /\ stage = "schedule"
    BY <1>14 DEF NextLoad
  <2>2. PICK one, zero : one = (IF ROB[k].instr_id = next_id - 1 THEN 1 ELSE 0) /\ zero = 0
    OBVIOUS
  <2>3. Cardinality(LoadsFor(LQ', ROB[k].instr_id)) = Cardinality(LoadsFor(LQ, ROB[k].instr_id)) + one
    <3>1. \A id : Cardinality(LoadsFor(LQ', id)) =
                    Cardinality(LoadsFor(LQ, id)) + (IF id = e.instr_id THEN 1 ELSE 0)
      BY <1>0, <1>14, OneMoreLoad
    <3> QED BY <1>14, <2>2, <3>1
  <2>4. /\ Cardinality(OpenStores(SQ', ROB[k].instr_id)) = Cardinality(OpenStores(SQ, ROB[k].instr_id)) + zero
        /\ ROB'[k].completed_mem_ops = ROB[k].completed_mem_ops + zero
    BY <1>0, <1>12, <1>14, <2>1, <2>2
  <2> QED BY <1>11, <1>14, <2>1, <2>2, <2>3, <2>4
<1>15. CASE AwaitStore
  <2>1. PICK i \in 1..Len(SQ), q \in Slot, e \in LoadEntry : Awaits(i, q, e)
    BY <1>0, <1>15, AwaitStoreIs
  <2>2. /\ Len(SQ') = Len(SQ)
        /\ \A l \in 1..Len(SQ) : /\ SQ'[l].instr_id = SQ[l].instr_id
                                 /\ SQ'[l].fetch_issued <=> SQ[l].fetch_issued
    BY <1>0, <2>1, AwaitsIs
  <2>3. \A id : OpenStores(SQ', id) = OpenStores(SQ, id)
    BY <2>2, SameStores
  <2> QED BY <1>14, <1>15, <2>1, <2>3 DEF Awaits, AwaitStore
<1>16. CASE ScheduleLoad
  <2>1. PICK q \in Slot, e \in LoadEntry : Reads(q, e)
    BY <1>0, <1>16, ScheduleLoadIs
  <2> QED BY <1>14, <1>16, <2>1 DEF Reads, ScheduleLoad
<1>17. CASE ScheduleStore
  <2>1. PICK x \in StoreEntry : Stores(x)
    BY <1>0, <1>17, ScheduleStoreIs
  <2>2. stage = "schedule" /\ ROB' = ROB /\ LQ' = LQ /\ UNCHANGED <<stage, next_id>>
    BY <1>17 DEF ScheduleStore
  <2>3. k \in 1..Len(ROB)
    BY <2>2
  <2>4. PICK one, zero : one = (IF ROB[k].instr_id = next_id - 1 THEN 1 ELSE 0) /\ zero = 0
    OBVIOUS
  <2>5. Cardinality(OpenStores(SQ', ROB[k].instr_id)) = Cardinality(OpenStores(SQ, ROB[k].instr_id)) + one
    <3>1. x.instr_id = next_id - 1
      BY <2>1 DEF Stores
    <3> QED BY <1>0, <2>1, <2>4, <3>1, OneMoreStore
  <2>6. /\ Cardinality(LoadsFor(LQ', ROB[k].instr_id)) = Cardinality(LoadsFor(LQ, ROB[k].instr_id)) + zero
        /\ ROB'[k].completed_mem_ops = ROB[k].completed_mem_ops + zero
    BY <1>0, <1>12, <2>2, <2>3, <2>4
  <2> QED BY <1>11, <1>17, <2>2, <2>3, <2>4, <2>5, <2>6
<1>18. ASSUME NEW o \in Operation, Dispatch(o)
       PROVE  AddsUp(ROB'[k], LQ', SQ', WillOwe(ROB'[k].instr_id))
  <2>1. PICK x \in Instruction :
          /\ ROB' = Append(ROB, x) /\ x.instr_id = next_id /\ x.completed_mem_ops = 0
          /\ x.num_mem_ops = Len(o.source_memory) + Len(o.destination_memory)
    BY <1>0, <1>18, DispatchIs
  <2>2. /\ stage = "dispatch" /\ stage' = "schedule" /\ operands' = o /\ next_id' = next_id + 1
        /\ LQ' = LQ /\ SQ' = SQ
    BY <1>0, <1>18, DispatchIs
  <2>3. ROB \in Seq(Instruction)
    BY DEF Inv, TypeOK
  <2>4. /\ \A j \in 1..Len(ROB) : ROB'[j] = ROB[j]
        /\ ROB'[Len(ROB) + 1] = x
        /\ k \in 1..Len(ROB) \/ k = Len(ROB) + 1
    BY <2>1, <2>3, Appended
  <2>5. CASE k \in 1..Len(ROB)
    <3>1. WillOwe(ROB[k].instr_id) = 0 /\ OwedBy(ROB[k].instr_id) = 0
      <4>1. ROB[k].instr_id # next_id' - 1
        BY <1>12, <2>2, <2>5
      <4> QED BY <2>2, <4>1 DEF WillOwe, OwedBy, Unscheduled
    <3>2. PICK zero : zero = 0
      OBVIOUS
    <3>3. zero \in Int /\ zero + zero + zero + zero = 0
      BY <3>2
    <3>4. /\ ROB'[k].completed_mem_ops = ROB[k].completed_mem_ops + zero
          /\ Cardinality(LoadsFor(LQ', ROB[k].instr_id)) = Cardinality(LoadsFor(LQ, ROB[k].instr_id)) + zero
          /\ Cardinality(OpenStores(SQ', ROB[k].instr_id)) = Cardinality(OpenStores(SQ, ROB[k].instr_id)) + zero
          /\ WillOwe(ROB[k].instr_id) = OwedBy(ROB[k].instr_id) + zero
      BY <1>0, <1>12, <2>2, <2>4, <2>5, <3>1, <3>2
    <3> QED BY <2>4, <2>5, <3>3, <3>4, AddsUpStill
  <2>6. CASE k = Len(ROB) + 1
    <3>1. LoadsFor(LQ, next_id) = {}
      <4>1. \A q \in Slot : LQ[q] # NoEntry => LQ[q].instr_id # next_id
        BY <1>0, <1>12, MemoryOpsAre, SMTT(30)
      <4> QED BY <4>1 DEF LoadsFor
    <3>2. OpenStores(SQ, next_id) = {}
      <4>1. \A i \in 1..Len(SQ) : ~SQ[i].fetch_issued => SQ[i].instr_id # next_id
        BY <1>0, <1>12, MemoryOpsAre, SMTT(30)
      <4> QED BY <4>1 DEF OpenStores
    <3>3. Cardinality({}) = 0
      BY FS_EmptySet
    <3>4. WillOwe(next_id) = x.num_mem_ops
      <4>1. next_id = next_id' - 1
        BY <1>12, <2>2
      <4> QED BY <2>1, <2>2, <4>1 DEF WillOwe, Unscheduled
    <3>5. x.num_mem_ops \in Nat
      BY DEF Instruction
    <3>6. 0 + (0 + 0 + x.num_mem_ops) = x.num_mem_ops
      BY <3>5
    <3> QED BY <2>1, <2>2, <2>4, <2>6, <3>1, <3>2, <3>3, <3>4, <3>6 DEF AddsUp
  <2> QED BY <2>4, <2>5, <2>6
<1> QED BY <1>2, <1>3, <1>4, <1>5, <1>6, <1>7, <1>9, <1>10, <1>13, <1>15, <1>16, <1>17, <1>18
        DEF Next, Operate, Progress, Schedule

LEMMA MemoryOpsAddUpKept ==
  Inv /\ [Next]_vars => MemoryOpsAddUp'
<1> SUFFICES ASSUME Inv, Next \/ UNCHANGED vars PROVE MemoryOpsAddUp'
  OBVIOUS
<1>1. TypeOK' /\ HasRoom'
  BY TypesKept, HasRoomKept
<1>2. \A k \in 1..Len(ROB') : AddsUp(ROB'[k], LQ', SQ', WillOwe(ROB'[k].instr_id))
  BY <1>1, AddsUpKept
<1>3. /\ \A q \in Slot : LQ'[q] # NoEntry => \E k \in 1..Len(ROB') : ROB'[k].instr_id = LQ'[q].instr_id
      /\ \A i \in 1..Len(SQ') : ~SQ'[i].fetch_issued => \E k \in 1..Len(ROB') : ROB'[k].instr_id = SQ'[i].instr_id
  BY OwnersStay
<1> QED BY <1>1, <1>2, <1>3, MemoryOpsWillBe DEF WillOwe

LEMMA CountedKept ==
  Inv /\ [Next]_vars => Counted'
<1> SUFFICES ASSUME Inv, Next \/ UNCHANGED vars, NEW k \in 1..Len(ROB'), ROB'[k].completed
             PROVE  ROB'[k].completed_mem_ops = ROB'[k].num_mem_ops
  BY DEF Counted
<1>0. /\ \A j \in 1..Len(ROB) : ROB[j].completed => ROB[j].completed_mem_ops = ROB[j].num_mem_ops
      /\ \A j \in 1..Len(ROB) : ROB[j].num_mem_ops \in Nat
  BY QueuesAre DEF Inv, Counted, Instruction
<1>1. CASE Goes
  <2>1. /\ Len(ROB') = Len(ROB) /\ ROB'[k].num_mem_ops = ROB[k].num_mem_ops
        /\ ROB'[k].completed_mem_ops >= ROB[k].completed_mem_ops
        /\ ROB[k].completed \/ ROB[k].completed_mem_ops = ROB[k].num_mem_ops
    BY <1>1 DEF Goes
  <2>2. ROB[k].completed_mem_ops = ROB[k].num_mem_ops /\ ROB[k].num_mem_ops \in Nat
    BY <1>0, <2>1
  <2>3. TypeOK' /\ MemoryOpsAddUp'
    BY TypesKept, MemoryOpsAddUpKept
  <2>4. AddsUp(ROB'[k], LQ', SQ', Unscheduled(stage', operands', next_id', ROB'[k].instr_id))
    BY <2>3, MemoryOpsWillBe
  <2>5. Len(SQ') \in Nat /\ ROB'[k] \in Instruction
        /\ operands' \in [source_memory : Seq(Address), destination_memory : Seq(Address)]
    BY <2>3, Entries DEF TypeOK
  <2>6. PICK a, b, c, n : /\ a = Cardinality(LoadsFor(LQ', ROB'[k].instr_id))
                          /\ b = Cardinality(OpenStores(SQ', ROB'[k].instr_id))
                          /\ c = Unscheduled(stage', operands', next_id', ROB'[k].instr_id)
                          /\ n = ROB'[k].completed_mem_ops
    OBVIOUS
  <2>7. a \in Nat /\ b \in Nat /\ c \in Nat /\ n \in Nat
    BY <2>5, <2>6, Amounts, UnscheduledIs DEF Instruction
  <2>8. n + (a + b + c) = ROB[k].num_mem_ops /\ n >= ROB[k].num_mem_ops
    BY <2>1, <2>2, <2>4, <2>6 DEF AddsUp
  <2>9. n = ROB[k].num_mem_ops
    BY <2>2, <2>7, <2>8
  <2> QED BY <2>1, <2>6, <2>9
<1>2. CASE Retire
  <2>1. ROB \in Seq(Instruction) /\ ROB # <<>> /\ ROB' = Tail(ROB)
    BY <1>2, RetireIs DEF Inv
  <2>2. k + 1 \in 1..Len(ROB) /\ ROB'[k] = ROB[k + 1]
    BY <2>1, Rest
  <2> QED BY <1>0, <2>2
<1>3. ASSUME NEW o \in Operation, Dispatch(o)
      PROVE  ROB'[k].completed_mem_ops = ROB'[k].num_mem_ops
  <2>1. PICK x \in Instruction : ROB' = Append(ROB, x) /\ ~x.completed
    BY <1>3, DispatchIs DEF Inv
  <2>2. ROB \in Seq(Instruction)
    BY DEF Inv, TypeOK
  <2>3. /\ \A j \in 1..Len(ROB) : ROB'[j] = ROB[j]
        /\ ROB'[Len(ROB) + 1] = x
        /\ k \in 1..Len(ROB) \/ k = Len(ROB) + 1
    BY <2>1, <2>2, Appended
  <2> QED BY <1>0, <2>1, <2>3
<1> QED BY <1>1, <1>2, <1>3, WhoChangesInstructions

-----------------------------------------------------------------------------
(* The loads that wait for a store *)

\* The load in slot q waits for the store i.
WaitsFor(sq, i, q) == i \in 1..Len(sq) /\ ~sq[i].fetch_issued /\ q \in sq[i].lq_depend_on_me

StoresHaveTheirLoads(lq, sq) ==
  \A i, q : WaitsFor(sq, i, q) =>
    /\ q \in Slot /\ lq[q] # NoEntry
    /\ lq[q].producer_id = sq[i].instr_id /\ lq[q].virtual_address = sq[i].virtual_address

LoadsHaveOneStore(lq, sq) ==
  \A q \in Slot : lq[q] # NoEntry /\ lq[q].producer_id # NoProducer =>
    \E i : WaitsFor(sq, i, q) /\ \A j : WaitsFor(sq, j, q) => i = j

LEMMA WaitingIs ==
  ASSUME TypeOK
  PROVE  WaitingLoadsHaveTheirStore <=> StoresHaveTheirLoads(LQ, SQ) /\ LoadsHaveOneStore(LQ, SQ)
<1>1. DOMAIN SQ = 1..Len(SQ)
  BY QueuesAre
<1>2. \A q : q \in Allocated <=> q \in Slot /\ LQ[q] # NoEntry
  BY DEF Allocated
<1> QED BY <1>1, <1>2 DEF WaitingLoadsHaveTheirStore, StoresHaveTheirLoads, LoadsHaveOneStore, WaitsFor

LEMMA WaitingWillBe ==
  ASSUME TypeOK'
  PROVE  WaitingLoadsHaveTheirStore' <=> StoresHaveTheirLoads(LQ', SQ') /\ LoadsHaveOneStore(LQ', SQ')
<1>1. DOMAIN SQ' = 1..Len(SQ')
  BY Entries DEF TypeOK
<1>2. \A q : q \in Allocated' <=> q \in Slot /\ LQ'[q] # NoEntry
  BY DEF Allocated
<1> QED BY <1>1, <1>2 DEF WaitingLoadsHaveTheirStore, StoresHaveTheirLoads, LoadsHaveOneStore, WaitsFor

LEMMA WaitingKept ==
  Inv /\ [Next]_vars => WaitingLoadsHaveTheirStore'
<1> SUFFICES ASSUME Inv, Next \/ UNCHANGED vars
             PROVE  StoresHaveTheirLoads(LQ', SQ') /\ LoadsHaveOneStore(LQ', SQ')
  <2>1. Inv /\ [Next]_vars => TypeOK'
    BY TypesKept
  <2> QED BY <2>1, WaitingWillBe
<1>0. /\ TypeOK /\ MemoryOpsAddUp /\ Programmed /\ HasRoom /\ StoresInOrder
      /\ StoresHaveTheirLoads(LQ, SQ) /\ LoadsHaveOneStore(LQ, SQ)
  BY WaitingIs DEF Inv
<1>1. \A i \in 1..Len(SQ) : SQ[i].instr_id # NoProducer
  <2>1. \A i \in 1..Len(SQ) : SQ[i].instr_id \in 1..MaxInstr
    BY <1>0, QueuesAre DEF StoreEntry
  <2> QED BY <2>1 DEF LSQAssumption
<1>2. CASE SQ' = SQ /\ LQ' = LQ
  BY <1>0, <1>2
<1>3. CASE HandleReturn
  <2>1. PICK S \in SUBSET Slot : S \subseteq Allocated /\ Release(S) /\ \A q \in S : LQ[q].fetch_issued
    BY <1>0, <1>3, HandleReturnIs
  <2>2. SQ' = SQ
    BY <1>3 DEF HandleReturn
  <2>3. \A q \in Slot : LQ'[q] = IF q \in S THEN NoEntry ELSE LQ[q]
    BY <1>0, <2>1, ReleaseIs
  <2>4. \A q \in S : LQ[q] # NoEntry /\ LQ[q].producer_id = NoProducer
    BY <2>1 DEF Inv, ReadsAreCurrent, Allocated
  <2>5. \A i, q : WaitsFor(SQ, i, q) => q \notin S
    BY <1>0, <1>1, <2>4 DEF StoresHaveTheirLoads, WaitsFor
  <2>6. StoresHaveTheirLoads(LQ', SQ)
    BY <1>0, <2>3, <2>5 DEF StoresHaveTheirLoads
  <2>7. LoadsHaveOneStore(LQ', SQ)
    BY <1>0, <2>3 DEF LoadsHaveOneStore
  <2> QED BY <2>2, <2>6, <2>7
<1>4. CASE FinishStore
  <2>1. PICK i \in 1..Len(SQ), S \in SUBSET Slot : FinishesAt(i, S)
    BY <1>0, <1>4, FinishStoreIs
  <2>2. /\ ~SQ[i].fetch_issued /\ Len(SQ') = Len(SQ)
        /\ \A j \in 1..Len(SQ) :
              /\ SQ'[j].instr_id = SQ[j].instr_id /\ SQ'[j].virtual_address = SQ[j].virtual_address
              /\ SQ'[j].lq_depend_on_me = SQ[j].lq_depend_on_me
              /\ SQ'[j].fetch_issued <=> SQ[j].fetch_issued \/ j = i
    BY <1>0, <2>1, FinishesAtIs
  <2>3. Release(S) /\ S = SQ[i].lq_depend_on_me
    BY <2>1 DEF FinishesAt
  <2>4. \A q \in Slot : LQ'[q] = IF q \in S THEN NoEntry ELSE LQ[q]
    BY <1>0, <2>3, ReleaseIs
  <2>5. \A j, q : WaitsFor(SQ', j, q) <=> WaitsFor(SQ, j, q) /\ j # i
    BY <2>2 DEF WaitsFor
  <2>6. \A q : WaitsFor(SQ, i, q) <=> q \in S
    BY <2>2, <2>3 DEF WaitsFor
  <2>7. ASSUME NEW j, NEW q, WaitsFor(SQ, j, q), j # i
        PROVE  q \in Slot /\ q \notin S /\ LQ[q] # NoEntry /\ LQ[q].producer_id = SQ[j].instr_id
               /\ LQ[q].virtual_address = SQ[j].virtual_address /\ j \in 1..Len(SQ)
    <3>1. q \in Slot /\ LQ[q] # NoEntry /\ LQ[q].producer_id = SQ[j].instr_id
          /\ LQ[q].virtual_address = SQ[j].virtual_address /\ j \in 1..Len(SQ)
      BY <1>0, <2>7 DEF StoresHaveTheirLoads, WaitsFor
    <3>2. PICK l : WaitsFor(SQ, l, q) /\ \A m : WaitsFor(SQ, m, q) => l = m
      BY <1>0, <1>1, <3>1 DEF LoadsHaveOneStore
    <3>3. ~WaitsFor(SQ, i, q)
      BY <2>7, <3>2
    <3> QED BY <2>6, <3>1, <3>3
  <2>8. StoresHaveTheirLoads(LQ', SQ')
    BY <2>2, <2>4, <2>5, <2>7 DEF StoresHaveTheirLoads
  <2>9. ASSUME NEW q \in Slot, LQ'[q] # NoEntry, LQ'[q].producer_id # NoProducer
        PROVE  \E j : WaitsFor(SQ', j, q) /\ \A l : WaitsFor(SQ', l, q) => j = l
    <3>1. q \notin S /\ LQ[q] # NoEntry /\ LQ[q].producer_id # NoProducer
      BY <2>4, <2>9
    <3>2. PICK j : WaitsFor(SQ, j, q) /\ \A m : WaitsFor(SQ, m, q) => j = m
      BY <1>0, <3>1 DEF LoadsHaveOneStore
    <3>3. j # i
      BY <2>6, <3>1, <3>2
    <3> QED BY <2>5, <3>2, <3>3
  <2>10. LoadsHaveOneStore(LQ', SQ')
    BY <2>9 DEF LoadsHaveOneStore
  <2> QED BY <2>8, <2>10
<1>5. CASE WriteStore
  <2>1. SQ \in Seq(StoreEntry) /\ SQ # <<>> /\ SQ' = Tail(SQ) /\ SQ[1].fetch_issued
    BY <1>0, <1>5, WriteStoreIs
  <2>2. /\ Len(SQ) \in Nat
        /\ \A k \in 1..Len(SQ') : k + 1 \in 1..Len(SQ) /\ SQ'[k] = SQ[k + 1]
        /\ \A k \in 1..Len(SQ) : k # 1 => k - 1 \in 1..Len(SQ') /\ SQ'[k - 1] = SQ[k]
    BY <2>1, Rest
  <2>3. LQ' = LQ
    BY <1>5 DEF WriteStore
  <2>4. ASSUME NEW i, NEW q, WaitsFor(SQ', i, q)
        PROVE  i \in Int /\ WaitsFor(SQ, i + 1, q) /\ SQ'[i] = SQ[i + 1]
    BY <2>2, <2>4 DEF WaitsFor
  <2>5. ASSUME NEW i, NEW q, WaitsFor(SQ, i, q)
        PROVE  i \in Int /\ WaitsFor(SQ', i - 1, q)
    BY <2>1, <2>2, <2>5 DEF WaitsFor
  <2>6. StoresHaveTheirLoads(LQ', SQ')
    BY <1>0, <2>3, <2>4 DEF StoresHaveTheirLoads
  <2>7. ASSUME NEW q \in Slot, LQ'[q] # NoEntry, LQ'[q].producer_id # NoProducer
        PROVE  \E j : WaitsFor(SQ', j, q) /\ \A l : WaitsFor(SQ', l, q) => j = l
    <3>1. PICK j : WaitsFor(SQ, j, q) /\ \A m : WaitsFor(SQ, m, q) => j = m
      BY <1>0, <2>3, <2>7 DEF LoadsHaveOneStore
    <3>2. j \in Int /\ WaitsFor(SQ', j - 1, q)
      BY <2>5, <3>1
    <3>3. ASSUME NEW l, WaitsFor(SQ', l, q)
          PROVE  j - 1 = l
      <4>1. l \in Int /\ WaitsFor(SQ, l + 1, q)
        BY <2>4, <3>3
      <4>2. j = l + 1
        BY <3>1, <4>1
      <4> QED BY <3>2, <4>1, <4>2
    <3> QED BY <3>2, <3>3
  <2>8. LoadsHaveOneStore(LQ', SQ')
    BY <2>7 DEF LoadsHaveOneStore
  <2> QED BY <2>6, <2>8
<1>6. CASE AwaitStore
  <2>1. PICK i \in 1..Len(SQ), q \in Slot, e \in LoadEntry : Awaits(i, q, e)
    BY <1>0, <1>6, AwaitStoreIs
  <2>2. /\ Len(SQ') = Len(SQ)
        /\ \A j \in 1..Len(SQ) :
              /\ SQ'[j].instr_id = SQ[j].instr_id /\ SQ'[j].virtual_address = SQ[j].virtual_address
              /\ SQ'[j].fetch_issued <=> SQ[j].fetch_issued
              /\ SQ'[j].lq_depend_on_me = IF j = i THEN SQ[j].lq_depend_on_me \cup {q}
                                                   ELSE SQ[j].lq_depend_on_me
    BY <1>0, <2>1, AwaitsIs, ZenonT(30)
  <2>3. /\ ~SQ[i].fetch_issued /\ LQ[q] = NoEntry /\ e.producer_id = SQ[i].instr_id
        /\ e.virtual_address = SQ[i].virtual_address /\ LQ' = [LQ EXCEPT ![q] = e]
    BY <2>1 DEF Awaits, YoungestStoreTo
  <2>4. \A r \in Slot : LQ'[r] = IF r = q THEN e ELSE LQ[r]
    BY <1>0, <2>3, LoadEnters
  <2>5. e # NoEntry
    BY NoEntryAssumption
  <2>6. \A j, r : WaitsFor(SQ', j, r) <=> WaitsFor(SQ, j, r) \/ (j = i /\ r = q)
    BY <2>2, <2>3 DEF WaitsFor
  <2>7. \A j, r : WaitsFor(SQ, j, r) => r # q
    BY <1>0, <2>3 DEF StoresHaveTheirLoads
  <2>8. \A j, r : WaitsFor(SQ, j, r) => j \in 1..Len(SQ)
    BY DEF WaitsFor
  <2>9. ASSUME NEW j, NEW r, WaitsFor(SQ', j, r)
        PROVE  /\ r \in Slot /\ LQ'[r] # NoEntry
               /\ LQ'[r].producer_id = SQ'[j].instr_id /\ LQ'[r].virtual_address = SQ'[j].virtual_address
    <3>1. CASE j = i /\ r = q
      BY <2>2, <2>3, <2>4, <2>5, <3>1
    <3>2. CASE WaitsFor(SQ, j, r)
      <4>1. r \in Slot /\ LQ[r] # NoEntry /\ LQ[r].producer_id = SQ[j].instr_id
            /\ LQ[r].virtual_address = SQ[j].virtual_address
        BY <1>0, <3>2 DEF StoresHaveTheirLoads
      <4> QED BY <2>2, <2>4, <2>7, <2>8, <3>2, <4>1
    <3> QED BY <2>6, <2>9, <3>1, <3>2
  <2>10. ASSUME NEW r \in Slot, LQ'[r] # NoEntry, LQ'[r].producer_id # NoProducer
         PROVE  \E j : WaitsFor(SQ', j, r) /\ \A l : WaitsFor(SQ', l, r) => j = l
    <3>1. CASE r = q
      BY <2>6, <2>7, <3>1
    <3>2. CASE r # q
      <4>1. PICK j : WaitsFor(SQ, j, r) /\ \A m : WaitsFor(SQ, m, r) => j = m
        BY <1>0, <2>4, <2>10, <3>2 DEF LoadsHaveOneStore
      <4> QED BY <2>6, <3>2, <4>1
    <3> QED BY <3>1, <3>2
  <2>11. StoresHaveTheirLoads(LQ', SQ')
    BY <2>9 DEF StoresHaveTheirLoads
  <2>12. LoadsHaveOneStore(LQ', SQ')
    BY <2>10 DEF LoadsHaveOneStore
  <2> QED BY <2>11, <2>12
<1>7. CASE ScheduleLoad
  <2>1. PICK q \in Slot, e \in LoadEntry : Reads(q, e)
    BY <1>0, <1>7, ScheduleLoadIs
  <2>2. LQ' = [LQ EXCEPT ![q] = e] /\ SQ' = SQ /\ LQ[q] = NoEntry /\ e.producer_id = NoProducer
    BY <2>1 DEF Reads
  <2>3. \A r \in Slot : LQ'[r] = IF r = q THEN e ELSE LQ[r]
    BY <1>0, <2>2, LoadEnters
  <2>4. \A j, r : WaitsFor(SQ, j, r) => r # q
    BY <1>0, <2>2 DEF StoresHaveTheirLoads
  <2>5. StoresHaveTheirLoads(LQ', SQ)
    BY <1>0, <2>3, <2>4 DEF StoresHaveTheirLoads
  <2>6. LoadsHaveOneStore(LQ', SQ)
    BY <1>0, <2>2, <2>3 DEF LoadsHaveOneStore
  <2> QED BY <2>2, <2>5, <2>6
<1>8. CASE ScheduleStore
  <2>1. PICK x \in StoreEntry : Stores(x)
    BY <1>0, <1>8, ScheduleStoreIs
  <2>2. SQ \in Seq(StoreEntry) /\ SQ' = Append(SQ, x) /\ x.lq_depend_on_me = {}
    BY <1>0, <2>1 DEF Stores, TypeOK
  <2>3. /\ \A k \in 1..Len(SQ) : k \in 1..Len(SQ') /\ SQ'[k] = SQ[k]
        /\ SQ'[Len(SQ) + 1] = x
        /\ \A k \in 1..Len(SQ') : k \in 1..Len(SQ) \/ k = Len(SQ) + 1
    BY <2>2, Appended
  <2>4. LQ' = LQ
    BY <1>8 DEF ScheduleStore
  <2>5. \A j, q : WaitsFor(SQ', j, q) <=> WaitsFor(SQ, j, q)
    BY <2>2, <2>3 DEF WaitsFor
  <2>6. \A j, q : WaitsFor(SQ, j, q) => SQ'[j] = SQ[j]
    BY <2>3 DEF WaitsFor
  <2>7. StoresHaveTheirLoads(LQ', SQ')
    BY <1>0, <2>4, <2>5, <2>6 DEF StoresHaveTheirLoads
  <2>8. LoadsHaveOneStore(LQ', SQ')
    BY <1>0, <2>4, <2>5 DEF LoadsHaveOneStore
  <2> QED BY <2>7, <2>8
<1>9. ASSUME NEW q \in Slot, IssueLoad(q)
      PROVE  StoresHaveTheirLoads(LQ', SQ') /\ LoadsHaveOneStore(LQ', SQ')
  <2>1. /\ SQ' = SQ
        /\ \A r \in Slot :
             /\ LQ'[r] # NoEntry <=> LQ[r] # NoEntry
             /\ LQ[r] # NoEntry =>
                  /\ LQ'[r].virtual_address = LQ[r].virtual_address
                  /\ LQ'[r].producer_id = LQ[r].producer_id
    BY <1>0, <1>9, IssueLoadIs
  <2> QED BY <1>0, <2>1 DEF StoresHaveTheirLoads, LoadsHaveOneStore
<1>10. /\ HandleReturn => SQ' = SQ
       /\ ScheduleLoad => SQ' = SQ
       /\ WriteStore \/ ScheduleStore => LQ' = LQ
  BY DEF HandleReturn, ScheduleLoad, WriteStore, ScheduleStore
<1> QED BY <1>0, <1>2, <1>3, <1>4, <1>5, <1>6, <1>7, <1>8, <1>9, <1>10, WhoChangesWhat

-----------------------------------------------------------------------------
(* The loads that go to the L1D *)

\* No store in front of the load e is to its address.
CurrentIn(e, sq) ==
  /\ e.fetch_issued => e.producer_id = NoProducer
  /\ e.producer_id = NoProducer =>
       \A i \in 1..Len(sq) : sq[i].virtual_address = e.virtual_address => e.instr_id <= sq[i].instr_id

LEMMA ReadsAreCurrentKept ==
  Inv /\ [Next]_vars => ReadsAreCurrent'
<1> SUFFICES ASSUME Inv, Next \/ UNCHANGED vars, NEW q \in Slot, LQ'[q] # NoEntry
             PROVE  CurrentIn(LQ'[q], SQ')
  BY DEF ReadsAreCurrent, CurrentIn
<1>0. /\ TypeOK /\ MemoryOpsAddUp /\ Programmed /\ HasRoom /\ StoresInOrder
      /\ \A r \in Slot : LQ[r] # NoEntry => CurrentIn(LQ[r], SQ)
  BY DEF Inv, ReadsAreCurrent, CurrentIn
<1>1. CASE SQ' = SQ /\ LQ' = LQ
  BY <1>0, <1>1
<1>2. CASE HandleReturn
  <2>1. PICK S \in SUBSET Slot : Release(S)
    BY <1>0, <1>2, HandleReturnIs
  <2>2. SQ' = SQ /\ LQ'[q] = LQ[q] /\ LQ[q] # NoEntry
    BY <1>0, <1>2, <2>1, ReleaseIs DEF HandleReturn
  <2> QED BY <1>0, <2>2
<1>3. CASE FinishStore
  <2>1. PICK i \in 1..Len(SQ), S \in SUBSET Slot : FinishesAt(i, S)
    BY <1>0, <1>3, FinishStoreIs
  <2>2. /\ Len(SQ') = Len(SQ)
        /\ \A j \in 1..Len(SQ) :
              SQ'[j].instr_id = SQ[j].instr_id /\ SQ'[j].virtual_address = SQ[j].virtual_address
    BY <1>0, <2>1, FinishesAtIs
  <2>3. Release(S)
    BY <2>1 DEF FinishesAt
  <2>4. LQ'[q] = LQ[q] /\ LQ[q] # NoEntry
    BY <1>0, <2>3, ReleaseIs
  <2>5. CurrentIn(LQ[q], SQ)
    BY <1>0, <2>4
  <2> QED BY <2>2, <2>4, <2>5 DEF CurrentIn
<1>4. CASE WriteStore
  <2>1. SQ \in Seq(StoreEntry) /\ SQ # <<>> /\ SQ' = Tail(SQ)
    BY <1>0, <1>4, WriteStoreIs
  <2>2. \A k \in 1..Len(SQ') : k + 1 \in 1..Len(SQ) /\ SQ'[k] = SQ[k + 1]
    BY <2>1, Rest
  <2>3. LQ' = LQ
    BY <1>4 DEF WriteStore
  <2>4. CurrentIn(LQ[q], SQ)
    BY <1>0, <2>3
  <2> QED BY <2>2, <2>3, <2>4 DEF CurrentIn
<1>5. CASE AwaitStore
  <2>1. PICK i \in 1..Len(SQ), p \in Slot, e \in LoadEntry : Awaits(i, p, e)
    BY <1>0, <1>5, AwaitStoreIs
  <2>2. /\ Len(SQ') = Len(SQ)
        /\ \A j \in 1..Len(SQ) :
              SQ'[j].instr_id = SQ[j].instr_id /\ SQ'[j].virtual_address = SQ[j].virtual_address
    BY <1>0, <2>1, AwaitsIs
  <2>3. LQ' = [LQ EXCEPT ![p] = e] /\ ~e.fetch_issued /\ e.producer_id = SQ[i].instr_id
    BY <2>1 DEF Awaits
  <2>4. LQ'[q] = IF q = p THEN e ELSE LQ[q]
    BY <1>0, <2>3, LoadEnters
  <2>5. e.producer_id # NoProducer
    <3>1. SQ[i].instr_id \in 1..MaxInstr
      BY <1>0, QueuesAre DEF StoreEntry
    <3> QED BY <2>3, <3>1 DEF LSQAssumption
  <2>6. CASE q = p
    BY <2>3, <2>4, <2>5, <2>6 DEF CurrentIn
  <2>7. CASE q # p
    <3>1. LQ'[q] = LQ[q] /\ CurrentIn(LQ[q], SQ)
      BY <1>0, <2>4, <2>7
    <3> QED BY <2>2, <3>1 DEF CurrentIn
  <2> QED BY <2>6, <2>7
<1>6. CASE ScheduleLoad
  <2>1. PICK p \in Slot, e \in LoadEntry : Reads(p, e)
    BY <1>0, <1>6, ScheduleLoadIs
  <2>2. /\ LQ' = [LQ EXCEPT ![p] = e] /\ SQ' = SQ /\ ~e.fetch_issued
        /\ \A i \in 1..Len(SQ) : SQ[i].virtual_address # e.virtual_address
    BY <2>1 DEF Reads
  <2>3. LQ'[q] = IF q = p THEN e ELSE LQ[q]
    BY <1>0, <2>2, LoadEnters
  <2>4. CurrentIn(e, SQ)
    BY <2>2 DEF CurrentIn
  <2> QED BY <1>0, <2>2, <2>3, <2>4
<1>7. CASE ScheduleStore
  <2>1. PICK x \in StoreEntry : Stores(x)
    BY <1>0, <1>7, ScheduleStoreIs
  <2>2. SQ \in Seq(StoreEntry) /\ SQ' = Append(SQ, x) /\ x.instr_id = next_id - 1
    BY <1>0, <2>1 DEF Stores, TypeOK
  <2>3. /\ \A k \in 1..Len(SQ) : SQ'[k] = SQ[k]
        /\ SQ'[Len(SQ) + 1] = x
        /\ \A k \in 1..Len(SQ') : k \in 1..Len(SQ) \/ k = Len(SQ) + 1
    BY <2>2, Appended
  <2>4. LQ' = LQ
    BY <1>7 DEF ScheduleStore
  <2>5. CurrentIn(LQ[q], SQ)
    BY <1>0, <2>4
  <2>6. LQ[q].instr_id <= next_id - 1
    <3>1. PICK k \in 1..Len(ROB) : ROB[k].instr_id = LQ[q].instr_id
      BY <1>0, <2>4, MemoryOpsAre
    <3>2. ROB[k].instr_id < next_id /\ ROB[k].instr_id \in Nat /\ next_id \in Nat
      BY <1>0, QueuesAre DEF Programmed, Instruction
    <3> QED BY <3>1, <3>2
  <2> QED BY <2>2, <2>3, <2>4, <2>5, <2>6 DEF CurrentIn
<1>8. ASSUME NEW p \in Slot, IssueLoad(p)
      PROVE  CurrentIn(LQ'[q], SQ')
  <2>1. /\ SQ' = SQ /\ LQ[p].producer_id = NoProducer
        /\ \A r \in Slot :
             /\ LQ'[r] # NoEntry <=> LQ[r] # NoEntry
             /\ LQ[r] # NoEntry =>
                  /\ LQ'[r].instr_id = LQ[r].instr_id
                  /\ LQ'[r].virtual_address = LQ[r].virtual_address
                  /\ LQ'[r].producer_id = LQ[r].producer_id
                  /\ LQ'[r].fetch_issued <=> LQ[r].fetch_issued \/ r = p
    BY <1>0, <1>8, IssueLoadIs
  <2>2. CurrentIn(LQ[q], SQ)
    BY <1>0, <2>1
  <2> QED BY <2>1, <2>2 DEF CurrentIn
<1>9. /\ HandleReturn => SQ' = SQ
      /\ ScheduleLoad => SQ' = SQ
      /\ WriteStore \/ ScheduleStore => LQ' = LQ
  BY DEF HandleReturn, ScheduleLoad, WriteStore, ScheduleStore
<1> QED BY <1>0, <1>1, <1>2, <1>3, <1>4, <1>5, <1>6, <1>7, <1>8, <1>9, WhoChangesWhat

-----------------------------------------------------------------------------
(* The invariant *)

LEMMA InvInit ==
  Init => Inv
<1> SUFFICES ASSUME Init PROVE Inv
  OBVIOUS
<1> USE DEF Init
<1>1. Len(<<>>) = 0 /\ \A S : <<>> \in Seq(S)
  BY EmptySeq
<1>2. 1..0 = {} /\ DOMAIN <<>> = {}
  BY <1>1, LenProperties, EmptySeq
<1>3. TypeOK
  <2>1. "between" \in Stage
    BY LoopsAre
  <2>2. 1 \in 1..(MaxInstr + 1) /\ 0 \in 0..MaxRequests /\ 0 \in 0..MaxInstr /\ 0 <= ROB_SIZE /\ 0 <= SQ_SIZE
    BY DEF LSQAssumption
  <2>3. operands \in [source_memory : Seq(Address), destination_memory : Seq(Address)]
    BY <1>1
  <2>4. LQ \in [Slot -> LoadEntry \cup {NoEntry}]
    OBVIOUS
  <2>5. ROB \in Seq(Instruction) /\ Len(ROB) <= ROB_SIZE /\ SQ \in Seq(StoreEntry) /\ Len(SQ) <= SQ_SIZE
    BY <1>1, <2>2
  <2>6. requested \in [Block -> 0..MaxRequests] /\ returned \in Seq(Block)
        /\ memory \in [Address -> 0..MaxInstr]
    BY <1>1, <2>2
  <2> QED BY <2>1, <2>2, <2>3, <2>4, <2>5, <2>6 DEF TypeOK
<1>4. Allocated = {} /\ \A q \in Slot : LQ[q] = NoEntry
  BY DEF Allocated
<1>5. IssuedStoresFirst
  BY <1>2 DEF IssuedStoresFirst
<1>6. MemoryOpsAddUp
  BY <1>2, <1>4 DEF MemoryOpsAddUp
<1>7. WaitingLoadsHaveTheirStore
  BY <1>2, <1>4 DEF WaitingLoadsHaveTheirStore
<1>8. Programmed /\ StoresInOrder /\ Counted
  BY <1>1, <1>2 DEF Programmed, InProgramOrder, StoresInOrder, StoresOrdered, Counted
<1>9. HasRoom /\ ReadsAreCurrent
  BY <1>4 DEF HasRoom, ReadsAreCurrent
<1> QED BY <1>3, <1>5, <1>6, <1>7, <1>8, <1>9 DEF Inv

LEMMA InvStep ==
  Inv /\ [Next]_vars => Inv'
BY TypesKept, IssuedStoresFirstKept, MemoryOpsAddUpKept, WaitingKept, ProgrammedKept, StoresInOrderKept,
   CountedKept, HasRoomKept, ReadsAreCurrentKept DEF Inv

LEMMA InvHolds ==
  Spec => []Inv
BY InvInit, InvStep, PTL DEF Spec

\* The queues keep their types, their sizes and their order, whatever the sizes and
\* the trace.
THEOREM QueuesStayInOrder == Spec => []QueuesInOrder
<1>1. Inv => QueuesInOrder
  BY DEF Inv, QueuesInOrder
<1> QED BY <1>1, InvHolds, PTL

\* The counts of the instructions and their entries in the queues add up
\* (LSQ_ENTRY::finish, ooo_cpu.cc:810-828).
THEOREM MemoryOpsAlwaysAddUp == Spec => []MemoryOpsAddUp
<1>1. Inv => MemoryOpsAddUp
  BY DEF Inv
<1> QED BY <1>1, InvHolds, PTL

\* A store and the loads that wait for it point at each other, and no load waits for
\* two (do_finish_store, ooo_cpu.cc:597-598).
THEOREM LoadsWaitForTheirStore == Spec => []WaitingLoadsHaveTheirStore
<1>1. Inv => WaitingLoadsHaveTheirStore
  BY DEF Inv
<1> QED BY <1>1, InvHolds, PTL

-----------------------------------------------------------------------------
(* The queues implement ProgramOrderMemory                                  *)

\* What ProgramOrderMemory knows of a store and of a load.
StoreOf(x) == [id |-> x.instr_id, address |-> x.virtual_address]

LoadIn(q, e, v) == [token |-> q, address |-> e.virtual_address, value |-> v]

AbstractStore == [id : 1..MaxInstr, address : Address]

LEMMA StoreOfIs ==
  ASSUME NEW x \in StoreEntry
  PROVE  StoreOf(x) \in AbstractStore
<1>1. x.instr_id \in 1..MaxInstr /\ x.virtual_address \in Address
  BY DEF StoreEntry
<1> QED BY <1>1 DEF StoreOf, AbstractStore

LEMMA OnTheirWayIs ==
  ASSUME TypeOK
  PROVE  /\ OnTheirWay \in Seq(AbstractStore) /\ Len(OnTheirWay) = Len(SQ) /\ DOMAIN OnTheirWay = 1..Len(SQ)
         /\ \A i \in 1..Len(SQ) : OnTheirWay[i] = StoreOf(SQ[i])
<1>1. DOMAIN SQ = 1..Len(SQ) /\ Len(SQ) \in Nat /\ \A i \in 1..Len(SQ) : SQ[i] \in StoreEntry
  BY QueuesAre
<1>2. \A i \in 1..Len(SQ) : OnTheirWay[i] = StoreOf(SQ[i])
  BY <1>1 DEF OnTheirWay, StoreOf
<1>3. \A i \in 1..Len(SQ) : OnTheirWay[i] \in AbstractStore
  BY <1>1, <1>2, StoreOfIs
<1>4. OnTheirWay = [i \in 1..Len(SQ) |-> OnTheirWay[i]]
  BY <1>1 DEF OnTheirWay
<1>5. OnTheirWay \in Seq(AbstractStore) /\ Len(OnTheirWay) = Len(SQ)
  BY <1>1, <1>3, <1>4, SeqFrom
<1> QED BY <1>2, <1>4, <1>5

LEMMA OnTheirWayWillBe ==
  ASSUME TypeOK'
  PROVE  /\ OnTheirWay' \in Seq(AbstractStore) /\ Len(OnTheirWay') = Len(SQ')
         /\ \A i \in 1..Len(SQ') : OnTheirWay'[i] = StoreOf(SQ'[i])
<1>1. DOMAIN SQ' = 1..Len(SQ') /\ Len(SQ') \in Nat /\ \A i \in 1..Len(SQ') : SQ'[i] \in StoreEntry
  BY Entries DEF TypeOK
<1>2. \A i \in 1..Len(SQ') : OnTheirWay'[i] = StoreOf(SQ'[i])
  BY <1>1 DEF OnTheirWay, StoreOf
<1>3. \A i \in 1..Len(SQ') : OnTheirWay'[i] \in AbstractStore
  BY <1>1, <1>2, StoreOfIs
<1>4. OnTheirWay' = [i \in 1..Len(SQ') |-> OnTheirWay'[i]]
  BY <1>1 DEF OnTheirWay
<1>5. OnTheirWay' \in Seq(AbstractStore) /\ Len(OnTheirWay') = Len(SQ')
  BY <1>1, <1>3, <1>4, SeqFrom
<1> QED BY <1>2, <1>5

LEMMA SameOnTheirWay ==
  ASSUME TypeOK, TypeOK', Len(SQ') = Len(SQ),
         \A i \in 1..Len(SQ) : SQ'[i].instr_id = SQ[i].instr_id /\ SQ'[i].virtual_address = SQ[i].virtual_address
  PROVE  OnTheirWay' = OnTheirWay
<1>1. \A i \in 1..Len(SQ) : StoreOf(SQ'[i]) = StoreOf(SQ[i])
  BY DEF StoreOf
<1>2. /\ OnTheirWay \in Seq(AbstractStore) /\ Len(OnTheirWay) = Len(SQ)
      /\ \A i \in 1..Len(SQ) : OnTheirWay[i] = StoreOf(SQ[i])
  BY OnTheirWayIs
<1>3. /\ OnTheirWay' \in Seq(AbstractStore) /\ Len(OnTheirWay') = Len(SQ')
      /\ \A i \in 1..Len(SQ') : OnTheirWay'[i] = StoreOf(SQ'[i])
  BY OnTheirWayWillBe
<1> QED BY <1>1, <1>2, <1>3, SeqEqual

LEMMA LoadsInFlightAre ==
  /\ \A x : x \in LoadsInFlight <=>
       \E q \in Slot : LQ[q] # NoEntry /\ x = LoadIn(q, LQ[q], ValueOf(LQ[q]))
  /\ \A x : x \in LoadsInFlight' <=>
       \E q \in Slot : LQ'[q] # NoEntry /\ x = LoadIn(q, LQ'[q], ValueOf(LQ[q])')
  /\ \A S, x : x \in InFlight(S) <=> \E q \in S : x = LoadIn(q, LQ[q], ValueOf(LQ[q]))
BY DEF LoadsInFlight, InFlight, Allocated, LoadIn

\* What a store in the queue or the L1D gives to a load of address a.
LEMMA LatestIs ==
  ASSUME TypeOK, StoresInOrder, NEW a, NEW i \in 1..Len(SQ), YoungestStoreTo(a, i)
  PROVE  Promise!Latest(a) = SQ[i].instr_id
<1> DEFINE T == {k \in 1..Len(SQ) : SQ[k].virtual_address = a}
<1>1. /\ DOMAIN OnTheirWay = 1..Len(SQ) /\ Len(SQ) \in Nat /\ DOMAIN SQ = 1..Len(SQ)
      /\ \A k \in 1..Len(SQ) : OnTheirWay[k] = StoreOf(SQ[k])
      /\ \A k \in 1..Len(SQ) : SQ[k].instr_id \in Nat
  BY OnTheirWayIs, QueuesAre DEF StoreEntry
<1>2. Promise!StoresTo(a) = T
  BY <1>1 DEF Promise!StoresTo, StoreOf
<1>3. i \in T /\ T \in SUBSET (1..Len(SQ))
  BY DEF YoungestStoreTo
<1>4. PICK m : m = Max(T)
  OBVIOUS
<1>5. m \in T /\ \A k \in T : k <= m
  <2> HIDE DEF T
  <2> QED BY <1>1, <1>3, <1>4, MaxIs
<1>6. SQ[m].instr_id = SQ[i].instr_id
  <2>1. m \in 1..Len(SQ) /\ (i < m \/ i = m)
    BY <1>1, <1>3, <1>5
  <2>2. SQ[i].instr_id <= SQ[m].instr_id
    BY <1>1, <2>1 DEF StoresInOrder, StoresOrdered
  <2>3. SQ[m].instr_id < SQ[i].instr_id \/ SQ[m].instr_id = SQ[i].instr_id
    BY <1>1, <1>5, <2>1 DEF YoungestStoreTo
  <2> QED BY <1>1, <2>1, <2>2, <2>3
<1>7. OnTheirWay[m].id = SQ[m].instr_id
  BY <1>1, <1>5 DEF StoreOf
<1>8. Promise!Latest(a) = OnTheirWay[m].id
  <2>1. T # {}
    BY <1>3
  <2> HIDE DEF T
  <2> QED BY <1>2, <1>4, <2>1 DEF Promise!Latest, Promise!Max, Max
<1> QED BY <1>6, <1>7, <1>8

LEMMA LatestIsInMemory ==
  ASSUME TypeOK, NEW a, \A k \in 1..Len(SQ) : SQ[k].virtual_address # a
  PROVE  Promise!Latest(a) = memory[a]
<1>1. DOMAIN OnTheirWay = 1..Len(SQ) /\ \A k \in 1..Len(SQ) : OnTheirWay[k] = StoreOf(SQ[k])
  BY OnTheirWayIs
<1>2. Promise!StoresTo(a) = {}
  BY <1>1 DEF Promise!StoresTo, StoreOf
<1> QED BY <1>2 DEF Promise!Latest

\* The load of slot q has the same value as before.
SameLoad(q) ==
  /\ LQ'[q].virtual_address = LQ[q].virtual_address /\ LQ'[q].producer_id = LQ[q].producer_id
  /\ LQ[q].producer_id = NoProducer => memory'[LQ[q].virtual_address] = memory[LQ[q].virtual_address]

LEMMA SameValue ==
  ASSUME NEW q \in Slot, SameLoad(q)
  PROVE  LoadIn(q, LQ'[q], ValueOf(LQ[q])') = LoadIn(q, LQ[q], ValueOf(LQ[q]))
BY DEF SameLoad, LoadIn, ValueOf

LEMMA SameLoadsInFlight ==
  ASSUME \A q \in Slot : /\ LQ'[q] # NoEntry <=> LQ[q] # NoEntry
                         /\ LQ[q] # NoEntry => SameLoad(q)
  PROVE  LoadsInFlight' = LoadsInFlight
<1>1. \A q \in Slot : LQ[q] # NoEntry =>
        LoadIn(q, LQ'[q], ValueOf(LQ[q])') = LoadIn(q, LQ[q], ValueOf(LQ[q]))
  BY SameValue
<1>2. \A x : x \in LoadsInFlight' <=> x \in LoadsInFlight
  BY <1>1, LoadsInFlightAre
<1> QED BY <1>2 DEF LoadsInFlight, InFlight

\* Loads end: those of the released slots.
LEMMA EndsAre ==
  ASSUME Inv, NEW S \in SUBSET Slot, S \subseteq Allocated, Release(S), memory' = memory
  PROVE  InFlight(S) \subseteq LoadsInFlight /\ LoadsInFlight' = LoadsInFlight \ InFlight(S)
<1>1. \A q \in Slot : LQ'[q] = IF q \in S THEN NoEntry ELSE LQ[q]
  BY ReleaseIs DEF Inv
<1>2. \A q \in S : LQ[q] # NoEntry
  BY DEF Allocated
<1>3. \A q, r, e, f, v, w : LoadIn(q, e, v) = LoadIn(r, f, w) => q = r
  BY DEF LoadIn
<1>4. \A q \in Slot : q \notin S => LoadIn(q, LQ'[q], ValueOf(LQ[q])') = LoadIn(q, LQ[q], ValueOf(LQ[q]))
  <2> SUFFICES ASSUME NEW q \in Slot, q \notin S
               PROVE  LoadIn(q, LQ'[q], ValueOf(LQ[q])') = LoadIn(q, LQ[q], ValueOf(LQ[q]))
    OBVIOUS
  <2>1. SameLoad(q)
    BY <1>1 DEF SameLoad
  <2> QED BY <2>1, SameValue
<1>5. \A x : x \in InFlight(S) => x \in LoadsInFlight
  BY <1>2, LoadsInFlightAre
<1>6. ASSUME NEW x
      PROVE  x \in LoadsInFlight' <=> x \in LoadsInFlight /\ x \notin InFlight(S)
  <2>1. ASSUME x \in LoadsInFlight'
        PROVE  x \in LoadsInFlight /\ x \notin InFlight(S)
    <3>1. PICK q \in Slot : LQ'[q] # NoEntry /\ x = LoadIn(q, LQ'[q], ValueOf(LQ[q])')
      BY <2>1, LoadsInFlightAre
    <3>2. q \notin S /\ LQ[q] # NoEntry /\ x = LoadIn(q, LQ[q], ValueOf(LQ[q]))
      BY <1>1, <1>4, <3>1
    <3> QED BY <1>3, <3>2, LoadsInFlightAre
  <2>2. ASSUME x \in LoadsInFlight, x \notin InFlight(S)
        PROVE  x \in LoadsInFlight'
    <3>1. PICK q \in Slot : LQ[q] # NoEntry /\ x = LoadIn(q, LQ[q], ValueOf(LQ[q]))
      BY <2>2, LoadsInFlightAre
    <3>2. q \notin S
      BY <2>2, <3>1, LoadsInFlightAre
    <3>3. LQ'[q] # NoEntry /\ x = LoadIn(q, LQ'[q], ValueOf(LQ[q])')
      BY <1>1, <1>4, <3>1, <3>2
    <3> QED BY <3>3, LoadsInFlightAre
  <2> QED BY <2>1, <2>2
<1> QED BY <1>5, <1>6 DEF LoadsInFlight, InFlight

\* A load enters: its slot was free.
LEMMA LoadStarts ==
  ASSUME TypeOK, NEW q \in Slot, NEW e \in LoadEntry, LQ' = [LQ EXCEPT ![q] = e], LQ[q] = NoEntry,
         memory' = memory, ValueOf(e) = Promise!Latest(e.virtual_address)
  PROVE  /\ \A x \in LoadsInFlight : x.token # q
         /\ LoadsInFlight' = LoadsInFlight \cup {Promise!NewLoad(q, e.virtual_address)}
<1>1. \A r \in Slot : LQ'[r] = IF r = q THEN e ELSE LQ[r]
  BY LoadEnters
<1>2. e # NoEntry
  BY NoEntryAssumption
<1>3. \A r \in Slot : r # q => LoadIn(r, LQ'[r], ValueOf(LQ[r])') = LoadIn(r, LQ[r], ValueOf(LQ[r]))
  <2> SUFFICES ASSUME NEW r \in Slot, r # q
               PROVE  LoadIn(r, LQ'[r], ValueOf(LQ[r])') = LoadIn(r, LQ[r], ValueOf(LQ[r]))
    OBVIOUS
  <2>1. SameLoad(r)
    BY <1>1 DEF SameLoad
  <2> QED BY <2>1, SameValue
<1>4. PICK n : n = Promise!NewLoad(q, e.virtual_address)
  OBVIOUS
<1>5. LoadIn(q, LQ'[q], ValueOf(LQ[q])') = n
  <2>1. LQ'[q] = e /\ ValueOf(LQ[q])' = ValueOf(e)
    BY <1>1 DEF ValueOf
  <2> QED BY <1>4, <2>1 DEF LoadIn, Promise!NewLoad
<1>6. \A x : x \in LoadsInFlight' <=> x \in LoadsInFlight \/ x = n
  <2>1. ASSUME NEW x, x \in LoadsInFlight'
        PROVE  x \in LoadsInFlight \/ x = n
    <3>1. PICK r \in Slot : LQ'[r] # NoEntry /\ x = LoadIn(r, LQ'[r], ValueOf(LQ[r])')
      BY <2>1, LoadsInFlightAre
    <3>2. CASE r = q
      BY <1>5, <3>1, <3>2
    <3>3. CASE r # q
      <4>1. LQ[r] # NoEntry /\ x = LoadIn(r, LQ[r], ValueOf(LQ[r]))
        BY <1>1, <1>3, <3>1, <3>3
      <4> QED BY <4>1, LoadsInFlightAre
    <3> QED BY <3>2, <3>3
  <2>2. ASSUME NEW x, x \in LoadsInFlight
        PROVE  x \in LoadsInFlight'
    <3>1. PICK r \in Slot : LQ[r] # NoEntry /\ x = LoadIn(r, LQ[r], ValueOf(LQ[r]))
      BY <2>2, LoadsInFlightAre
    <3>2. r # q /\ LQ'[r] # NoEntry /\ x = LoadIn(r, LQ'[r], ValueOf(LQ[r])')
      BY <1>1, <1>3, <3>1
    <3> QED BY <3>2, LoadsInFlightAre
  <2>3. n \in LoadsInFlight'
    <3>1. LQ'[q] # NoEntry
      BY <1>1, <1>2
    <3> QED BY <1>5, <3>1, LoadsInFlightAre
  <2> QED BY <2>1, <2>2, <2>3
<1>7. \A x \in LoadsInFlight : x.token # q
  <2>1. \A r, f, v : LoadIn(r, f, v).token = r
    BY DEF LoadIn
  <2> QED BY <2>1, LoadsInFlightAre
<1>8. LoadsInFlight' = LoadsInFlight \cup {n}
  BY <1>6 DEF LoadsInFlight, InFlight
<1> QED BY <1>4, <1>7, <1>8

\* A store is written to the L1D, and no load in flight has its value from there yet.
LEMMA WriteStoreWrites ==
  ASSUME Inv, Inv', WriteStore
  PROVE  Promise!WriteOldest
<1>0. TypeOK /\ TypeOK' /\ MemoryOpsAddUp /\ Programmed
  BY DEF Inv
<1>1. /\ SQ \in Seq(StoreEntry) /\ SQ # <<>> /\ SQ' = Tail(SQ) /\ 1 \in 1..Len(SQ) /\ SQ[1] \in StoreEntry
      /\ \A k \in 1..Len(ROB) : SQ[1].instr_id < ROB[k].instr_id
      /\ memory' = [memory EXCEPT ![SQ[1].virtual_address] = SQ[1].instr_id]
  BY <1>0, WriteStoreIs
<1>2. LQ' = LQ /\ ended' = ended
  BY DEF WriteStore
<1>3. /\ OnTheirWay \in Seq(AbstractStore) /\ Len(OnTheirWay) = Len(SQ)
      /\ \A i \in 1..Len(SQ) : OnTheirWay[i] = StoreOf(SQ[i])
  BY <1>0, OnTheirWayIs
<1>4. /\ OnTheirWay' \in Seq(AbstractStore) /\ Len(OnTheirWay') = Len(SQ')
      /\ \A i \in 1..Len(SQ') : OnTheirWay'[i] = StoreOf(SQ'[i])
  BY <1>0, OnTheirWayWillBe
<1>5. OnTheirWay # <<>> /\ Head(OnTheirWay) = StoreOf(SQ[1])
  <2>1. OnTheirWay # <<>>
    BY <1>1, <1>3, Entries
  <2>2. Head(OnTheirWay) = OnTheirWay[1]
    BY <1>3, <2>1, Rest
  <2> QED BY <1>1, <1>3, <2>1, <2>2
<1>6. OnTheirWay' = Tail(OnTheirWay)
  <2>1. /\ Len(SQ') = Len(SQ) - 1
        /\ \A k \in 1..Len(SQ') : k + 1 \in 1..Len(SQ) /\ SQ'[k] = SQ[k + 1]
    BY <1>1, Rest
  <2>2. PICK t : t = Tail(OnTheirWay)
    OBVIOUS
  <2>3. /\ t \in Seq(AbstractStore) /\ Len(t) = Len(OnTheirWay) - 1
        /\ \A k \in 1..Len(t) : t[k] = OnTheirWay[k + 1]
    BY <1>3, <1>5, <2>2, Rest
  <2>4. Len(OnTheirWay') = Len(t)
    BY <1>3, <1>4, <2>1, <2>3
  <2>5. \A k \in 1..Len(OnTheirWay') : OnTheirWay'[k] = t[k]
    BY <1>3, <1>4, <2>1, <2>3, <2>4
  <2> QED BY <1>4, <2>2, <2>3, <2>4, <2>5, SeqEqual
<1>7. LoadsInFlight' = LoadsInFlight
  <2>1. ASSUME NEW q \in Slot, LQ[q] # NoEntry
        PROVE  SameLoad(q)
    <3>1. LQ[q] \in LoadEntry
      BY <1>0, <2>1, QueuesAre
    <3>2. LQ[q].virtual_address \in Address /\ LQ[q].instr_id \in Nat
      BY <3>1 DEF LoadEntry
    <3>3. ASSUME LQ[q].producer_id = NoProducer
          PROVE  LQ[q].virtual_address # SQ[1].virtual_address
      <4> SUFFICES ASSUME LQ[q].virtual_address = SQ[1].virtual_address PROVE FALSE
        OBVIOUS
      <4>1. LQ[q].instr_id <= SQ[1].instr_id
        BY <1>1, <2>1, <3>3 DEF Inv, ReadsAreCurrent
      <4>2. PICK k \in 1..Len(ROB) : ROB[k].instr_id = LQ[q].instr_id
        BY <1>0, <2>1, MemoryOpsAre
      <4>3. SQ[1].instr_id < LQ[q].instr_id /\ SQ[1].instr_id \in Nat
        BY <1>1, <4>2 DEF StoreEntry
      <4> QED BY <3>2, <4>1, <4>3
    <3>4. memory \in [Address -> 0..MaxInstr]
      BY <1>0 DEF TypeOK
    <3>5. LQ[q].producer_id = NoProducer => memory'[LQ[q].virtual_address] = memory[LQ[q].virtual_address]
      BY <1>1, <3>2, <3>3, <3>4
    <3> QED BY <1>2, <3>5 DEF SameLoad
  <2> QED BY <1>2, <2>1, SameLoadsInFlight
<1>8. memory' = [memory EXCEPT ![Head(OnTheirWay).address] = Head(OnTheirWay).id]
  <2>1. Head(OnTheirWay).address = SQ[1].virtual_address /\ Head(OnTheirWay).id = SQ[1].instr_id
    BY <1>5 DEF StoreOf
  <2> QED BY <1>1, <2>1
<1> QED BY <1>2, <1>5, <1>6, <1>7, <1>8 DEF Promise!WriteOldest

\* A store enters behind the others, in program order.
LEMMA ScheduleStoreStores ==
  ASSUME Inv, Inv', ScheduleStore
  PROVE  \E i \in 1..MaxInstr, a \in Address : Promise!Store(i, a)
<1>0. TypeOK /\ TypeOK' /\ Programmed /\ StoresInOrder
  BY DEF Inv
<1>1. PICK x \in StoreEntry : Stores(x)
  BY <1>0, ScheduleStoreIs
<1>2. SQ \in Seq(StoreEntry) /\ SQ' = Append(SQ, x) /\ x.instr_id = next_id - 1
  BY <1>0, <1>1 DEF Stores, TypeOK
<1>3. LQ' = LQ /\ memory' = memory /\ ended' = ended
  BY DEF ScheduleStore
<1>4. x.instr_id \in 1..MaxInstr /\ x.virtual_address \in Address
  BY DEF StoreEntry
<1>5. /\ OnTheirWay \in Seq(AbstractStore) /\ Len(OnTheirWay) = Len(SQ) /\ DOMAIN OnTheirWay = 1..Len(SQ)
      /\ \A i \in 1..Len(SQ) : OnTheirWay[i] = StoreOf(SQ[i])
  BY <1>0, OnTheirWayIs
<1>6. /\ OnTheirWay' \in Seq(AbstractStore) /\ Len(OnTheirWay') = Len(SQ')
      /\ \A i \in 1..Len(SQ') : OnTheirWay'[i] = StoreOf(SQ'[i])
  BY <1>0, OnTheirWayWillBe
<1>7. OnTheirWay' = Append(OnTheirWay, StoreOf(x))
  <2>1. /\ Len(SQ') = Len(SQ) + 1 /\ Len(SQ) \in Nat
        /\ \A k \in 1..Len(SQ) : SQ'[k] = SQ[k]
        /\ SQ'[Len(SQ) + 1] = x
        /\ \A k \in 1..Len(SQ') : k \in 1..Len(SQ) \/ k = Len(SQ) + 1
    BY <1>2, Appended
  <2>2. PICK t : t = Append(OnTheirWay, StoreOf(x))
    OBVIOUS
  <2>3. StoreOf(x) \in AbstractStore
    BY StoreOfIs
  <2>4. /\ t \in Seq(AbstractStore) /\ Len(t) = Len(OnTheirWay) + 1
        /\ \A k \in 1..Len(OnTheirWay) : t[k] = OnTheirWay[k]
        /\ t[Len(OnTheirWay) + 1] = StoreOf(x)
    BY <1>5, <2>2, <2>3, Appended
  <2>5. Len(OnTheirWay') = Len(t)
    BY <1>5, <1>6, <2>1, <2>4
  <2>6. \A k \in 1..Len(OnTheirWay') : OnTheirWay'[k] = t[k]
    BY <1>5, <1>6, <2>1, <2>4
  <2> QED BY <1>6, <2>2, <2>4, <2>5, <2>6, SeqEqual
<1>8. \A k \in DOMAIN OnTheirWay : OnTheirWay[k].id <= x.instr_id
  <2>1. \A k \in 1..Len(SQ) : SQ[k].instr_id < next_id /\ SQ[k].instr_id \in Nat /\ next_id \in Nat
    BY <1>0, QueuesAre DEF StoresInOrder, StoreEntry
  <2> QED BY <1>2, <1>5, <2>1 DEF StoreOf
<1>9. LoadsInFlight' = LoadsInFlight
  BY <1>3, SameLoadsInFlight DEF SameLoad
<1>10. Promise!Store(x.instr_id, x.virtual_address)
  BY <1>3, <1>7, <1>8, <1>9 DEF Promise!Store, StoreOf
<1> QED BY <1>4, <1>10

\* Every step of the queues is one of ProgramOrderMemory, or changes nothing there.
LEMMA StepRefines == Inv /\ Inv' /\ [Next]_vars => [Promise!Next]_(Promise!memoryVars)
<1> SUFFICES ASSUME Inv, Inv', Next \/ UNCHANGED vars
             PROVE  Promise!Next \/ UNCHANGED <<OnTheirWay, memory, LoadsInFlight, ended>>
  BY DEF Promise!memoryVars
<1>0. TypeOK /\ TypeOK' /\ HasRoom /\ Programmed /\ StoresInOrder
  BY DEF Inv
<1>1. SQ' = SQ => OnTheirWay' = OnTheirWay
  BY DEF OnTheirWay
<1>2. LQ' = LQ /\ memory' = memory => LoadsInFlight' = LoadsInFlight
  BY SameLoadsInFlight DEF SameLoad
<1>3. CASE \/ BeginCycle \/ NextLoop \/ EndScheduling \/ Retire
           \/ (\E k \in DOMAIN ROB : Complete(k) \/ Execute(k))
           \/ (\E b \in Block : L1DAnswers(b)) \/ (\E o \in Operation : Dispatch(o))
           \/ UNCHANGED vars
  <2>1. SQ' = SQ /\ LQ' = LQ /\ memory' = memory /\ ended' = ended
    BY <1>3 DEF BeginCycle, NextLoop, EndScheduling, Retire, Complete, Execute, L1DAnswers, Dispatch, vars
  <2> QED BY <1>1, <1>2, <2>1
<1>4. ASSUME NEW q \in Slot, IssueLoad(q)
      PROVE  UNCHANGED <<OnTheirWay, memory, LoadsInFlight, ended>>
  <2>1. SQ' = SQ /\ memory' = memory /\ ended' = ended
    BY <1>4 DEF IssueLoad
  <2>2. \A r \in Slot :
          /\ LQ'[r] # NoEntry <=> LQ[r] # NoEntry
          /\ LQ[r] # NoEntry =>
               /\ LQ'[r].virtual_address = LQ[r].virtual_address
               /\ LQ'[r].producer_id = LQ[r].producer_id
    BY <1>0, <1>4, IssueLoadIs
  <2>3. LoadsInFlight' = LoadsInFlight
    BY <2>1, <2>2, SameLoadsInFlight DEF SameLoad
  <2> QED BY <1>1, <2>1, <2>3
<1>5. ASSUME NEW S \in SUBSET Slot, S \subseteq Allocated, Release(S), ended' = InFlight(S), memory' = memory,
             OnTheirWay' = OnTheirWay
      PROVE  Promise!Next
  <2>1. InFlight(S) \subseteq LoadsInFlight /\ LoadsInFlight' = LoadsInFlight \ InFlight(S)
    BY <1>5, EndsAre
  <2>2. Promise!End(InFlight(S))
    BY <1>5, <2>1 DEF Promise!End
  <2>3. InFlight(S) \in SUBSET LoadsInFlight
    BY <2>1
  <2> QED BY <2>2, <2>3 DEF Promise!Next
<1>6. CASE HandleReturn
  <2>1. PICK S \in SUBSET Slot : S \subseteq Allocated /\ Release(S) /\ ended' = InFlight(S)
    BY <1>0, <1>6, HandleReturnIs
  <2>2. SQ' = SQ /\ memory' = memory
    BY <1>6 DEF HandleReturn
  <2> QED BY <1>1, <1>5, <2>1, <2>2
<1>7. CASE FinishStore
  <2>1. PICK i \in 1..Len(SQ), S \in SUBSET Slot : FinishesAt(i, S)
    BY <1>0, <1>7, FinishStoreIs
  <2>2. /\ ~SQ[i].fetch_issued /\ Len(SQ') = Len(SQ)
        /\ \A j \in 1..Len(SQ) :
             SQ'[j].instr_id = SQ[j].instr_id /\ SQ'[j].virtual_address = SQ[j].virtual_address
    BY <1>0, <2>1, FinishesAtIs
  <2>3. Release(S) /\ ended' = InFlight(S) /\ S = SQ[i].lq_depend_on_me
    BY <2>1 DEF FinishesAt
  <2>4. S \subseteq Allocated
    BY <2>2, <2>3, DependentsAre
  <2>5. OnTheirWay' = OnTheirWay
    BY <1>0, <2>2, SameOnTheirWay
  <2>6. memory' = memory
    BY <1>7 DEF FinishStore
  <2> QED BY <1>5, <2>3, <2>4, <2>5, <2>6
<1>8. CASE WriteStore
  BY <1>8, WriteStoreWrites DEF Promise!Next
<1>9. CASE ScheduleStore
  BY <1>9, ScheduleStoreStores DEF Promise!Next
<1>10. CASE ForwardLoad
  <2>1. PICK a : a = Head(operands.source_memory)
    OBVIOUS
  <2>2. FirstFree \in Slot /\ a \in Address
    BY <1>0, <1>10, <2>1, NextLoadIs DEF ForwardLoad
  <2>3. PICK i \in DOMAIN SQ : /\ YoungestStoreTo(a, i)
                               /\ ended' = {[token |-> FirstFree, address |-> a, value |-> SQ[i].instr_id]}
    BY <1>10, <2>1 DEF ForwardLoad
  <2>4. i \in 1..Len(SQ)
    BY <1>0, QueuesAre
  <2>5. Promise!Latest(a) = SQ[i].instr_id
    BY <1>0, <2>3, <2>4, LatestIs
  <2>6. SQ' = SQ /\ LQ' = LQ /\ memory' = memory
    BY <1>10 DEF ForwardLoad, NextLoad
  <2>7. Promise!LoadAtOnce(FirstFree, a)
    BY <1>1, <1>2, <2>3, <2>5, <2>6 DEF Promise!LoadAtOnce, Promise!NewLoad
  <2> QED BY <2>2, <2>7 DEF Promise!Next
<1>11. CASE AwaitStore
  <2>1. PICK i \in 1..Len(SQ), q \in Slot, e \in LoadEntry : Awaits(i, q, e)
    BY <1>0, <1>11, AwaitStoreIs
  <2>2. /\ Len(SQ') = Len(SQ)
        /\ \A j \in 1..Len(SQ) :
             SQ'[j].instr_id = SQ[j].instr_id /\ SQ'[j].virtual_address = SQ[j].virtual_address
    BY <1>0, <2>1, AwaitsIs
  <2>3. /\ YoungestStoreTo(e.virtual_address, i) /\ LQ' = [LQ EXCEPT ![q] = e] /\ LQ[q] = NoEntry
        /\ e.producer_id = SQ[i].instr_id
    BY <2>1 DEF Awaits
  <2>4. memory' = memory /\ ended' = ended
    BY <1>11 DEF AwaitStore, NextLoad
  <2>5. OnTheirWay' = OnTheirWay
    BY <1>0, <2>2, SameOnTheirWay
  <2>6. ValueOf(e) = Promise!Latest(e.virtual_address)
    <3>1. SQ[i].instr_id \in 1..MaxInstr
      BY <1>0, QueuesAre DEF StoreEntry
    <3>2. e.producer_id # NoProducer
      BY <2>3, <3>1 DEF LSQAssumption
    <3>3. Promise!Latest(e.virtual_address) = SQ[i].instr_id
      BY <1>0, <2>3, LatestIs
    <3> QED BY <2>3, <3>2, <3>3 DEF ValueOf
  <2>7. /\ \A x \in LoadsInFlight : x.token # q
        /\ LoadsInFlight' = LoadsInFlight \cup {Promise!NewLoad(q, e.virtual_address)}
    BY <1>0, <2>3, <2>4, <2>6, LoadStarts
  <2>8. Promise!Load(q, e.virtual_address)
    BY <2>4, <2>5, <2>7 DEF Promise!Load
  <2>9. e.virtual_address \in Address
    BY DEF LoadEntry
  <2> QED BY <2>8, <2>9 DEF Promise!Next
<1>12. CASE ScheduleLoad
  <2>1. PICK q \in Slot, e \in LoadEntry : Reads(q, e)
    BY <1>0, <1>12, ScheduleLoadIs
  <2>2. /\ \A i \in 1..Len(SQ) : SQ[i].virtual_address # e.virtual_address
        /\ LQ' = [LQ EXCEPT ![q] = e] /\ LQ[q] = NoEntry /\ e.producer_id = NoProducer /\ SQ' = SQ
    BY <2>1 DEF Reads
  <2>3. memory' = memory /\ ended' = ended
    BY <1>12 DEF ScheduleLoad, NextLoad
  <2>4. ValueOf(e) = Promise!Latest(e.virtual_address)
    BY <1>0, <2>2, LatestIsInMemory DEF ValueOf
  <2>5. /\ \A x \in LoadsInFlight : x.token # q
        /\ LoadsInFlight' = LoadsInFlight \cup {Promise!NewLoad(q, e.virtual_address)}
    BY <1>0, <2>2, <2>3, <2>4, LoadStarts
  <2>6. Promise!Load(q, e.virtual_address)
    BY <1>1, <2>2, <2>3, <2>5 DEF Promise!Load
  <2>7. e.virtual_address \in Address
    BY DEF LoadEntry
  <2> QED BY <2>6, <2>7 DEF Promise!Next
<1> QED BY <1>3, <1>4, <1>6, <1>7, <1>8, <1>9, <1>10, <1>11, <1>12 DEF Next, Operate, Progress, Schedule

\* Every load has the value of the youngest store before it in program order, and
\* stores reach the L1D in program order, whatever the sizes of the queues and the
\* trace: the queues implement ProgramOrderMemory (ooo_cpu.cc:518-527, 552-569).
THEOREM QueuesKeepProgramOrder == Spec => KeepsProgramOrder
<1>1. Init => Promise!Init
  <2> SUFFICES ASSUME Init PROVE Promise!Init
    OBVIOUS
  <2>1. SQ = <<>> /\ ended = {} /\ memory = [a \in Address |-> 0] /\ \A q \in Slot : LQ[q] = NoEntry
    BY DEF Init
  <2>2. TypeOK
    BY InvInit DEF Inv
  <2>3. OnTheirWay = <<>>
    <3>1. OnTheirWay \in Seq(AbstractStore) /\ Len(OnTheirWay) = Len(SQ)
      BY <2>2, OnTheirWayIs
    <3>2. Len(SQ) = 0
      BY <2>1, EmptySeq
    <3> QED BY <3>1, <3>2, Entries
  <2>4. LoadsInFlight = {}
    BY <2>1, LoadsInFlightAre
  <2> QED BY <2>1, <2>3, <2>4 DEF Promise!Init, Promise!Initial
<1>2. Inv /\ Inv' /\ [Next]_vars => [Promise!Next]_(Promise!memoryVars)
  BY StepRefines
<1> QED BY <1>1, <1>2, InvHolds, PTL DEF Spec, KeepsProgramOrder, Promise!Spec
=============================================================================
