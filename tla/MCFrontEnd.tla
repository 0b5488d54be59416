----------------------------- MODULE MCFrontEnd -----------------------------
(* Instances of FrontEnd for TLC.                                           *)
EXTENDS FrontEnd, TLC

CONSTANTS w1, w2, b1, b2

\* The windows are in different blocks; instructions of one window share a block.
Windows == {w1, w2}
TwoBlocks == {b1, b2}
MCBlockOf == (w1 :> b1 @@ w2 :> b2)
=============================================================================
