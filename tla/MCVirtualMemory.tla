--------------------------- MODULE MCVirtualMemory ---------------------------
(* Instances of VirtualMemory for TLC.                                      *)
EXTENDS VirtualMemory

CONSTANT c0

OneCore == {c0}
TwoPages == {0, 2}
SixPages == <<1, 2, 3, 4, 5, 6>>
=============================================================================
