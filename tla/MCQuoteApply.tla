----------------------------- MODULE MCQuoteApply -----------------------------
(* A small instance of QuoteApply. *)
EXTENDS QuoteApply, TLC
CONSTANTS s1, s2, u1, u2
MCSessions == {s1, s2}
MCUids == {u1, u2}
MCSymmetry == Permutations(MCSessions) \cup Permutations(MCUids)
=============================================================================
