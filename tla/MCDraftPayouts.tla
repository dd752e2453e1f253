---------------------------- MODULE MCDraftPayouts ----------------------------
(* A small instance of DraftPayouts. *)
EXTENDS DraftPayouts, TLC
CONSTANTS u1
=============================================================================
