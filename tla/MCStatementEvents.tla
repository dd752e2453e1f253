---------------------------- MODULE MCStatementEvents ----------------------------
(* A small instance of StatementEvents. *)
EXTENDS StatementEvents, TLC
CONSTANTS s1, s2, m1, m2, i1, i2
MCSymmetry ==
  Permutations(Sessions) \cup Permutations(Months) \cup Permutations(Identities)
=============================================================================
