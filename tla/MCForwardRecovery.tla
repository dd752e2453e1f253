---------------------------- MODULE MCForwardRecovery ----------------------------
(* Small instances of ForwardRecovery. *)
EXTENDS ForwardRecovery, TLC
CONSTANTS p1, p2, t1, t2
=============================================================================
