-------------------------------- MODULE Absent --------------------------------
(* The absent value of the modules that are composed with each other. *)
CONSTANT None
=============================================================================
