------------------------------ MODULE MCCache ------------------------------
(* Instances of Cache for TLC.                                              *)
EXTENDS Cache, TLC

CONSTANTS a, b, i1, i2, core, other

TwoBlocks == {a, b}
OneSet == {0}
MCIndexOf == [x \in Block |-> 0]

OneInstr == {i1}
TwoInstr == {i1, i2}

OneUpper == {core}
TwoUpper == {core, other}

OneSender == [i \in OneInstr |-> core]
TwoSenders == [i \in TwoInstr |-> IF i = i1 THEN core ELSE other]

BlockSymmetry == Permutations(Block)
=============================================================================
