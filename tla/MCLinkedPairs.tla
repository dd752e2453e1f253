---------------------------- MODULE MCLinkedPairs ----------------------------
(* Small instances of LinkedPairs. *)
EXTENDS LinkedPairs, TLC

CONSTANTS s1, s2

MCSessions == {s1, s2}
SymmetrySessions == Permutations(MCSessions)
=============================================================================
