---------------------------- MODULE MCBackupRestore ----------------------------
(* A small instance of BackupRestore. *)
EXTENDS BackupRestore, TLC
CONSTANTS w1, w2, b1, b2, b3
MCSymmetry == Permutations(Workers) \cup Permutations(BackupIds)
=============================================================================
