-------------------------- MODULE InstructionStream --------------------------
(***************************************************************************)
(* What the front end of a core promises the back end, without its         *)
(* buffers: instructions come out in the order of the program, each once,  *)
(* and none goes in behind a mispredicted branch that is not resolved yet. *)
(***************************************************************************)
EXTENDS Naturals, Sequences

CONSTANT MaxInstr

VARIABLES entered,   \* how many instructions have gone in; they are numbered
          output,    \* the instructions that came out and are not dispatched
          left,      \* how many came out
          awaited    \* the mispredicted branch that fetching waits for, else 0

streamVars == <<entered, output, left, awaited>>

Init == entered = 0 /\ output = <<>> /\ left = 0 /\ awaited = 0

Enter ==
  /\ awaited = 0
  /\ entered' = entered + 1
  /\ awaited' \in {0, entered'}
  /\ UNCHANGED <<output, left>>

\* The next instruction comes out; if it is the branch, it may be resolved by that.
Leave ==
  /\ left < entered
  /\ left' = left + 1
  /\ output' = Append(output, left')
  /\ \/ UNCHANGED awaited
     \/ awaited = left' /\ awaited' = 0
  /\ UNCHANGED entered

Dispatch ==
  /\ output # <<>>
  /\ output' = Tail(output)
  /\ UNCHANGED <<entered, left, awaited>>

\* The branch is resolved in the back end, where it must be.
Resume ==
  /\ awaited \in 1..left
  /\ \A i \in 1..Len(output) : output[i] # awaited
  /\ awaited' = 0
  /\ UNCHANGED <<entered, output, left>>

Next == Enter \/ Leave \/ Dispatch \/ Resume

Spec == Init /\ [][Next]_streamVars
=============================================================================
