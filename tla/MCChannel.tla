----------------------------- MODULE MCChannel -----------------------------
(* Instances of Channel for TLC.                                            *)
EXTENDS Channel, FiniteSets, TLC

CONSTANTS i1, i2

\* Two words of a block.
TwoWords == {0, 1}
Mixed == {TRUE, FALSE}
TwoInstr == {i1, i2}

\* Bound: two requests that collide and one that either meets.
FewRequests == Len(RQ) + Len(WQ) + Len(PQ) + Len(returned) + Cardinality(inService) <= 3

InstrSymmetry == Permutations(Instr)
=============================================================================
