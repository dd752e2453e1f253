------------------------------ MODULE Maintenance ------------------------------
(***************************************************************************)
(* DatabaseMaintenance: the process-local admission control that every     *)
(* request session, backup and restore passes.  A restore closes the door  *)
(* to new operations first and then waits on the condition until the       *)
(* operations inside have left.                                            *)
(***************************************************************************)
EXTENDS Naturals, FiniteSets, Absent

CONSTANTS Workers,       \* threads that serve requests
          MaxFormEpoch,  \* bound: restores of one process
          MaxProcesses   \* bound: process restarts

ASSUME MaintenanceAssumption ==
  /\ IsFiniteSet(Workers) /\ None \notin Workers
  /\ MaxFormEpoch \in Nat /\ MaxProcesses \in Nat

VARIABLES pc,                \* where each worker is
          activeOperations, isRestoring, formEpoch,
          formIncarnation    \* the process, that is the DatabaseMaintenance object

mvars == <<pc, activeOperations, isRestoring, formEpoch, formIncarnation>>

\* asleep: in Condition.wait; woken: notified, not yet holding the mutex again.
Places == {"outside", "operating", "asleep", "woken", "restoring"}

At(place) == {w \in Workers : pc[w] = place}

\* The counter of operations never goes below zero and threads are only at the places
\* the code has (database.py:63).
MaintenanceTypeOK ==
  /\ pc \in [Workers -> Places]
  /\ activeOperations \in Nat
  /\ isRestoring \in BOOLEAN
  /\ formEpoch \in Nat
  /\ formIncarnation \in Nat

MaintenanceInit ==
  /\ pc = [w \in Workers |-> "outside"]
  /\ activeOperations = 0
  /\ isRestoring = FALSE
  /\ formEpoch = 0
  /\ formIncarnation = 0

-----------------------------------------------------------------------------
\* Mutant of EnterOperation: a session does not look for a restore.
EnterUnchecked(w) ==
  /\ pc[w] = "outside"
  /\ pc' = [pc EXCEPT ![w] = "operating"]
  /\ activeOperations' = activeOperations + 1
  /\ UNCHANGED <<isRestoring, formEpoch, formIncarnation>>

EnterOperation(w) ==
  /\ pc[w] = "outside"
  /\ ~isRestoring
  /\ pc' = [pc EXCEPT ![w] = "operating"]
  /\ activeOperations' = activeOperations + 1
  /\ UNCHANGED <<isRestoring, formEpoch, formIncarnation>>

\* notify_all
Notified(v) == IF pc[v] = "asleep" THEN "woken" ELSE pc[v]

LeaveOperation(w) ==
  /\ pc[w] = "operating"
  /\ pc' = [v \in Workers |-> IF v = w THEN "outside" ELSE Notified(v)]
  /\ activeOperations' = activeOperations - 1
  /\ UNCHANGED <<isRestoring, formEpoch, formIncarnation>>

WaitOrEnter == IF activeOperations = 0 THEN "restoring" ELSE "asleep"

RequestRestore(w) ==
  /\ formEpoch < MaxFormEpoch
  /\ pc[w] = "outside"
  /\ ~isRestoring
  /\ isRestoring' = TRUE
  /\ pc' = [pc EXCEPT ![w] = WaitOrEnter]
  /\ UNCHANGED <<activeOperations, formEpoch, formIncarnation>>

\* Mutant of Wake: an IF around Condition.wait, not a WHILE.
WakeOnce(w) ==
  /\ pc[w] = "woken"
  /\ pc' = [pc EXCEPT ![w] = "restoring"]
  /\ UNCHANGED <<activeOperations, isRestoring, formEpoch, formIncarnation>>

\* The loop around Condition.wait looks again.
Wake(w) ==
  /\ pc[w] = "woken"
  /\ pc' = [pc EXCEPT ![w] = WaitOrEnter]
  /\ UNCHANGED <<activeOperations, isRestoring, formEpoch, formIncarnation>>

\* Mutant of NextFormEpoch: a restore leaves the forms of before valid.
SameFormEpoch == formEpoch

NextFormEpoch == formEpoch + 1

\* The finally of restore(), whatever its body did.
LeaveRestore(w) ==
  /\ pc[w] = "restoring"
  /\ formEpoch' = NextFormEpoch
  /\ isRestoring' = FALSE
  /\ pc' = [v \in Workers |-> IF v = w THEN "outside" ELSE Notified(v)]
  /\ UNCHANGED <<activeOperations, formIncarnation>>

\* A new process makes a new DatabaseMaintenance, with a new uuid4.
NewProcess ==
  /\ formIncarnation < MaxProcesses
  /\ formIncarnation' = formIncarnation + 1
  /\ pc' = [w \in Workers |-> "outside"]
  /\ activeOperations' = 0
  /\ isRestoring' = FALSE
  /\ formEpoch' = 0

MaintenanceNext ==
  \/ \E w \in Workers : \/ EnterOperation(w) \/ LeaveOperation(w)
                        \/ RequestRestore(w) \/ Wake(w) \/ LeaveRestore(w)
  \/ NewProcess

(***************************************************************************)
(* Requests end (every handler and every restore returns or raises) and a  *)
(* notified thread gets the mutex; nobody has to ask for anything.         *)
(***************************************************************************)
MaintenanceFairness ==
  \A w \in Workers : WF_mvars(LeaveOperation(w)) /\ WF_mvars(Wake(w))
                     /\ WF_mvars(LeaveRestore(w))

MaintenanceSpec == MaintenanceInit /\ [][MaintenanceNext]_mvars
-----------------------------------------------------------------------------
(* The lock it implements: the steps of the condition variable stutter. *)

Restorer == IF At("restoring") = {} THEN None
            ELSE CHOOSE w \in Workers : pc[w] = "restoring"

Lock == INSTANCE MaintenanceLock WITH operations <- At("operating"),
                                      restorer <- Restorer

\* Every step of the admission control is a step of the lock, or none: a restore
\* runs alone, however operations and restores race for the door (database.py:59).
ImplementsLock == Lock!LockSpec

\* The door does not stay closed: a restore that has closed it gets in, since the
\* operations that keep coming cannot hold it off, and leaves it open, unless its
\* process dies first (database.py:99).
DoorReopens == isRestoring ~> ~isRestoring

=============================================================================
