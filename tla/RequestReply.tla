---------------------------- MODULE RequestReply ----------------------------
(***************************************************************************)
(* What a champsim::channel promises the component above it, without its   *)
(* queues: every instruction that waits for a block gets exactly one       *)
(* answer, for that block, and every write stays owed to the component     *)
(* below until that component has taken it.                                *)
(***************************************************************************)
CONSTANTS Waiter,       \* the ids that wait for an answer
          Block,        \* the blocks they wait for
          Translation,  \* whether the address is physical (TRUE) or virtual
          Tag      \* what tells two writes apart

VARIABLES pending,    \* <<id, block, translated>>: asked, not answered
          answered,   \* <<id, block>>: answered, not yet picked up
          unwritten,  \* <<tag, translated>>: written above, not taken below
          written     \* the last <<tag, translated>> taken below, as a set

abstractVars == <<pending, answered, unwritten, written>>

Init == pending = {} /\ answered = {} /\ unwritten = {} /\ written = {}

\* The ids of D, none of which waits already, ask for block b.
Ask(D, b, t) ==
  /\ \A w \in pending : w[1] \notin D
  /\ \A w \in answered : w[1] \notin D
  /\ pending' = pending \cup (D \X {b} \X {t})
  /\ UNCHANGED <<answered, unwritten, written>>

\* Some of those that wait are answered, each for the block it asked for.
Answer(S) ==
  /\ pending' = pending \ S
  /\ answered' = answered \cup {<<w[1], w[2]>> : w \in S}
  /\ UNCHANGED <<unwritten, written>>

PickUp(S) ==
  /\ answered' = answered \ S
  /\ UNCHANGED <<pending, unwritten, written>>

Write(w) ==
  /\ unwritten' = unwritten \cup {w}
  /\ UNCHANGED <<pending, answered, written>>

\* The only way a write stops being owed is that the component below takes it;
\* it is still owed if it was written again meanwhile.
Drain(w) ==
  /\ w \in unwritten
  /\ \E again \in SUBSET {w} : unwritten' = (unwritten \ {w}) \cup again
  /\ written' = {w}
  /\ UNCHANGED <<pending, answered>>

Next == \/ \E D \in SUBSET Waiter, b \in Block, t \in Translation : Ask(D, b, t)
        \/ \E S \in SUBSET pending : Answer(S)
        \/ \E S \in SUBSET answered : PickUp(S)
        \/ \E w \in Tag \X Translation : Write(w) \/ Drain(w)

Spec == Init /\ [][Next]_abstractVars
=============================================================================
