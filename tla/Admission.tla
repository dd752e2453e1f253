------------------------------- MODULE Admission -------------------------------
(***************************************************************************)
(* database_admission: which process may write the database.  A kernel     *)
(* mutex, volatile, keeps the runtime (Start, direct migrations) and the   *)
(* offline recovery commands apart; a fence file beside the database,      *)
(* durable, keeps the runtime out until a recovery has been finished.      *)
(* Inside the runtime's process, threads borrow the admission while they   *)
(* open a connection.  Nobody waits for the mutex: busy is refused.        *)
(***************************************************************************)
EXTENDS Naturals, Absent

CONSTANTS Procs,         \* processes
          Transactions,  \* recovery transactions a fence may name
          MaxBorrowers,  \* bound: connections being opened at once
          Torn           \* a record that was created but not written

ASSUME AdmissionAssumption ==
  /\ None \notin Procs \cup Transactions
  /\ Torn \notin Transactions /\ Torn # None
  /\ MaxBorrowers \in Nat

VARIABLES mutex,      \* the process that owns the kernel mutex
          stage,      \* how far each process is
          borrowers,  \* nested admissions of each process
          fence       \* the fence file: absent, torn or naming its transaction

avars == <<mutex, stage, borrowers, fence>>

\* locking: mutex owned, fence not looked at yet; closing: the outer context of
\* the runtime is being left; recovery: a recovery command owns the mutex;
\* fencing: it has the fence file open to write.
ProcStages == {"out", "locking", "admitted", "closing", "recovery", "fencing"}

\* Borrowed admissions are counted from zero, and the fence is absent, empty or names
\* a transaction (database_admission.py:62).
AdmissionTypeOK ==
  /\ mutex \in Procs \cup {None}
  /\ stage \in [Procs -> ProcStages]
  /\ borrowers \in [Procs -> Nat]
  /\ fence \in Transactions \cup {Torn, None}

AdmissionInit ==
  /\ mutex = None
  /\ stage = [p \in Procs |-> "out"]
  /\ borrowers = [p \in Procs |-> 0]
  /\ fence = None

-----------------------------------------------------------------------------
OwnMutex(p, next) ==
  /\ stage[p] = "out"
  /\ mutex = None
  /\ mutex' = p
  /\ stage' = [stage EXCEPT ![p] = next]
  /\ UNCHANGED <<borrowers, fence>>

\* Give the mutex back; a refusal and the death of the process do it too.
LeaveMutex(p) ==
  /\ mutex' = IF mutex = p THEN None ELSE mutex
  /\ stage' = [stage EXCEPT ![p] = "out"]
  /\ borrowers' = [borrowers EXCEPT ![p] = 0]

Start(p) == OwnMutex(p, "locking")

\* Mutant of Unfenced: a fence that cannot be read is taken for none.
UnfencedOrTorn == fence \in {None, Torn}

\* Mutant of Unfenced: Start does not look for a fence.
FenceIgnored == TRUE

\* assert_unfenced: any directory entry counts, an unreadable one too.
Unfenced == fence = None

Admit(p) ==
  /\ stage[p] = "locking" /\ Unfenced
  /\ stage' = [stage EXCEPT ![p] = "admitted"]
  /\ UNCHANGED <<mutex, borrowers, fence>>

Refuse(p) ==
  /\ stage[p] = "locking" /\ ~Unfenced
  /\ LeaveMutex(p) /\ UNCHANGED fence

\* Mutant of Borrow: the nested context does not look whether the owner is closing.
BorrowAnyway(p) ==
  /\ stage[p] \in {"admitted", "closing"}
  /\ borrowers[p] < MaxBorrowers
  /\ borrowers' = [borrowers EXCEPT ![p] = @ + 1]
  /\ UNCHANGED <<mutex, stage, fence>>

\* A thread enters the nested context, and leaves it with its connection open.
Borrow(p) ==
  /\ stage[p] = "admitted"
  /\ borrowers[p] < MaxBorrowers
  /\ borrowers' = [borrowers EXCEPT ![p] = @ + 1]
  /\ UNCHANGED <<mutex, stage, fence>>

GiveBack(p) ==
  /\ borrowers[p] > 0
  /\ borrowers' = [borrowers EXCEPT ![p] = @ - 1]
  /\ UNCHANGED <<mutex, stage, fence>>

Close(p) ==
  /\ stage[p] = "admitted"
  /\ stage' = [stage EXCEPT ![p] = "closing"]
  /\ UNCHANGED <<mutex, borrowers, fence>>

\* Mutant of BorrowersGone: the mutex is given back while threads still borrow it.
NobodyAsked(p) == TRUE

BorrowersGone(p) == borrowers[p] = 0

\* A borrower that is still inside would go on without the mutex.
Closed(p) ==
  /\ stage[p] = "closing" /\ BorrowersGone(p)
  /\ mutex' = None
  /\ stage' = [stage EXCEPT ![p] = "out"]
  /\ UNCHANGED <<borrowers, fence>>

StartRecovery(p) == OwnMutex(p, "recovery")

LeaveRecovery(p) == stage[p] = "recovery" /\ LeaveMutex(p)

\* The fence is created, written and retired by the recovery that owns the mutex.
CreateFence(p) ==
  /\ stage[p] = "recovery" /\ fence = None
  /\ fence' = Torn
  /\ stage' = [stage EXCEPT ![p] = "fencing"]
  /\ UNCHANGED <<mutex, borrowers>>

WriteFence(p, t) ==
  /\ stage[p] = "fencing"
  /\ fence' = t
  /\ stage' = [stage EXCEPT ![p] = "recovery"]
  /\ UNCHANGED <<mutex, borrowers>>

RetireFence(p) ==
  /\ stage[p] = "recovery" /\ fence \in Transactions
  /\ fence' = None
  /\ UNCHANGED <<mutex, stage, borrowers>>

\* The process dies: the kernel lock is volatile, the fence is not.
Die(p) ==
  /\ stage[p] # "out"
  /\ LeaveMutex(p) /\ UNCHANGED fence

AdmissionNext ==
  \E p \in Procs :
    \/ Start(p) \/ Admit(p) \/ Refuse(p) \/ Borrow(p) \/ GiveBack(p)
    \/ Close(p) \/ Closed(p)
    \/ StartRecovery(p) \/ (LeaveRecovery(p) /\ UNCHANGED fence)
    \/ CreateFence(p) \/ (\E t \in Transactions : WriteFence(p, t)) \/ RetireFence(p)
    \/ Die(p)

AdmissionSpec == AdmissionInit /\ [][AdmissionNext]_avars

\* Threads finish opening their connections; the runtime leaves once they have.
AdmissionFairness ==
  \A p \in Procs : WF_avars(GiveBack(p)) /\ WF_avars(Closed(p))

-----------------------------------------------------------------------------
\* No runtime is admitted while a fence stands, torn ones included, and none beside
\* a recovery (database_admission.py:49).
RuntimeUnfenced ==
  \A p, q \in Procs :
    stage[p] \in {"admitted", "closing"} =>
      fence = None /\ (stage[q] # "out" => q = p)

\* A connection is only ever opened under the mutex of its process: a recovery
\* cannot slip in while the runtime closes (database_admission.py:116).
BorrowersCovered ==
  \A p \in Procs : borrowers[p] > 0 => mutex = p

\* A runtime that closes is gone in the end, whatever connections were being
\* opened (database_admission.py:116).
ClosingEnds ==
  \A p \in Procs : stage[p] = "closing" ~> stage[p] # "closing"

=============================================================================
