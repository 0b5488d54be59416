--------------------------- MODULE MCDramChannel ---------------------------
(* Instances of DramChannel for TLC.                                        *)
EXTENDS DramChannel, TLC

CONSTANTS i1, x1, x2, x3, y1, bx, by

TwoBlocks == {x1, y1}
TwoInTwo == (x1 :> bx @@ y1 :> by)
TwoBanks == {bx, by}

OneInstr == {i1}

\* Blocks in one bank.  There are as many as slots for writes: a write that
\* finishes makes room for the next, and the queue stays at its watermark.
OneBank == {bx}
SameBank == {x1, x2, x3}
ThreeInOne == [x \in SameBank |-> bx]

\* With one bank and one slot for reads there is no choice of the next request,
\* and time alone brings it about.
OneBankSpec == Spec /\ TimePasses

\* What the code keeps.  The history is left out of the states: no guard reads it.
AllButHistory == <<queues, banks, write_mode, warmup, stage, returned>>
=============================================================================
