-------------------------- MODULE MCReorderBuffer --------------------------
(* Instances of ReorderBuffer for TLC.                                      *)
EXTENDS ReorderBuffer

Op(s, d) == [source_registers |-> s, destination_registers |-> d]

\* A read-modify-write, X2 = X1 op X1, two destinations, a pure read.  The most
\* operands of one are three, so with two registers in use four are enough.
MCOperation == {Op(<<1>>, <<1>>), Op(<<1, 1>>, <<2>>), Op(<<2>>, <<1, 2>>), Op(<<1, 2>>, <<>>)}
=============================================================================
