-------------------------- MODULE MCLoadStoreQueue --------------------------
(* Instances of LoadStoreQueue for TLC.                                     *)
EXTENDS LoadStoreQueue, TLC

\* Addresses 0 and 1 are in block 0.
OneBlock == {0}
TwoAddresses == {0, 1}
OneBlockOf == [a \in TwoAddresses |-> 0]

Op(loads, stores) == [source_memory |-> loads, destination_memory |-> stores]

\* A store, a read-modify-write, two loads, and two stores, also of one address.
Shapes == {Op(<<>>, <<0>>), Op(<<0>>, <<0>>), Op(<<0, 1>>, <<>>), Op(<<>>, <<1, 0>>), Op(<<>>, <<0, 0>>)}
=============================================================================
