-------------------------- MODULE MCAdmissionControl --------------------------
(***************************************************************************)
(* A small instance of the two admission controls of the database side by  *)
(* side: Maintenance between the threads of a process, Admission between   *)
(* processes.  They share no state, so any order of their steps happens.   *)
(***************************************************************************)
EXTENDS Maintenance, Admission, TLC

CONSTANTS w1, w2, w3, w4, p1, p2, p3, t1, t2

Init == MaintenanceInit /\ AdmissionInit
Next == \/ MaintenanceNext /\ UNCHANGED avars
        \/ AdmissionNext /\ UNCHANGED mvars

Spec == Init /\ [][Next]_<<mvars, avars>> /\ MaintenanceFairness /\ AdmissionFairness
=============================================================================
