------------------------- MODULE MCTranslationStash -------------------------
(* Instances of TranslationStash for TLC.                                   *)
EXTENDS TranslationStash, TLC

CONSTANTS v, w, p, q

TwoVpages == {v, w}
TwoPages == {p, q}
MCPageOf == (v :> p @@ w :> q)
=============================================================================
