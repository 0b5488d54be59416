-------------------------- MODULE ProgramOrderMemory --------------------------
(***************************************************************************)
(* What the load and store queues of a core promise: every load has the    *)
(* value of the youngest store to its address before it in program order,  *)
(* from the moment it enters to the moment it ends, and stores reach the   *)
(* memory one by one in program order.  A value is the id of the           *)
(* instruction that stored it.                                             *)
(***************************************************************************)
EXTENDS SequencesExt, Naturals

CONSTANTS Token,      \* what tells the loads in flight apart
          Address,
          Id          \* ids of instructions, above Initial
Initial == 0          \* the value before any store

VARIABLES unwritten,  \* the stores on their way, oldest first
          memory,     \* the value of each address
          loads,      \* the loads in flight, each with its value
          ended       \* the loads that ended last

memoryVars == <<unwritten, memory, loads, ended>>

Init ==
  /\ unwritten = <<>>
  /\ memory = [a \in Address |-> Initial]
  /\ loads = {} /\ ended = {}

\* Where unwritten has stores to a.
StoresTo(a) == {k \in DOMAIN unwritten : unwritten[k].address = a}

Latest(a) == IF StoresTo(a) = {} THEN memory[a] ELSE unwritten[Max(StoresTo(a))].id

Store(i, a) ==
  /\ \A k \in DOMAIN unwritten : unwritten[k].id <= i
  /\ unwritten' = Append(unwritten, [id |-> i, address |-> a])
  /\ UNCHANGED <<memory, loads, ended>>

NewLoad(t, a) == [token |-> t, address |-> a, value |-> Latest(a)]

Load(t, a) ==
  /\ \A x \in loads : x.token # t
  /\ loads' = loads \cup {NewLoad(t, a)}
  /\ UNCHANGED <<unwritten, memory, ended>>

LoadAtOnce(t, a) ==
  /\ ended' = {NewLoad(t, a)}
  /\ UNCHANGED <<unwritten, memory, loads>>

End(S) ==
  /\ loads' = loads \ S
  /\ ended' = S
  /\ UNCHANGED <<unwritten, memory>>

WriteOldest ==
  /\ unwritten # <<>>
  /\ memory' = [memory EXCEPT ![Head(unwritten).address] = Head(unwritten).id]
  /\ unwritten' = Tail(unwritten)
  /\ UNCHANGED <<loads, ended>>

Next ==
  \/ \E i \in Id, a \in Address : Store(i, a)
  \/ \E t \in Token, a \in Address : Load(t, a) \/ LoadAtOnce(t, a)
  \/ \E S \in SUBSET loads : End(S)
  \/ WriteOldest

Spec == Init /\ [][Next]_memoryVars
=============================================================================
