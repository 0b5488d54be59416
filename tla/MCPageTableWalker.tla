------------------------- MODULE MCPageTableWalker -------------------------
(* Instances of PageTableWalker for TLC.                                    *)
EXTENDS PageTableWalker

CONSTANTS c0, c1

TwoCores == {c0, c1}

\* With two entries in a table, pages 0 and 2 share the tables of the highest of
\* three levels, and differ at the one below.
TwoPages == {0, 2}
FivePages == <<1, 2, 3, 4, 5>>
=============================================================================
