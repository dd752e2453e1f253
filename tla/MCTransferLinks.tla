---------------------------- MODULE MCTransferLinks ----------------------------
(* Small instances of TransferLinks. *)
EXTENDS TransferLinks, TLC
CONSTANTS s1, m1, m2, a1, a2, d1, d2, f1, f2
MCPeriodOf == d1 :> m1 @@ d2 :> m2
OneDay == {{d1}, {d2}}
SymmetryLegs == Permutations(Accounts) \cup Permutations(Flows)
=============================================================================
