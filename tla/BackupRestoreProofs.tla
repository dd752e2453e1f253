-------------------------- MODULE BackupRestoreProofs --------------------------
(***************************************************************************)
(* The admission control of database.py implements its lock, for any       *)
(* finite set of threads; and what a restore behind it promises, for any   *)
(* number of backup names and versions: what it replaces was saved,        *)
(* complete backups stay, nobody works on a replaced file, a form names    *)
(* the live file, and the answer is true.                                  *)
(***************************************************************************)
EXTENDS BackupRestore, FiniteSetTheorems, TLAPS

Closing == {"asleep", "woken", "restoring"}

(***************************************************************************)
(* The counter counts, the door is closed exactly while one worker wants   *)
(* or has the database for itself, and whoever has it is alone.            *)
(***************************************************************************)
CounterCounts == activeOperations = Cardinality(At("operating"))
OneCloser == \A v, w \in Workers : pc[v] \in Closing /\ pc[w] \in Closing => v = w
DoorClosed == (\E w \in Workers : pc[w] \in Closing) <=> isRestoring
RestoresAlone == At("restoring") # {} => At("operating") = {}

DoorInv ==
  /\ MaintenanceTypeOK /\ CounterCounts /\ OneCloser /\ DoorClosed /\ RestoresAlone

-----------------------------------------------------------------------------
LEMMA AtFinite ==
  ASSUME NEW place
  PROVE  IsFiniteSet(At(place)) /\ Cardinality(At(place)) \in Nat
BY MaintenanceAssumption, FS_Subset, FS_CardinalityType, At(place) \subseteq Workers DEF At

\* An empty count means that nobody is inside an operation.
LEMMA NobodyInside ==
  ASSUME CounterCounts, activeOperations = 0
  PROVE  At("operating") = {}
BY AtFinite, FS_EmptySet DEF CounterCounts

LEMMA InitDoorInv == MaintenanceInit => DoorInv
<1> SUFFICES ASSUME MaintenanceInit PROVE DoorInv
  OBVIOUS
<1>1. At("operating") = {} /\ At("restoring") = {}
  BY DEF MaintenanceInit, At
<1>2. CounterCounts
  BY <1>1, FS_EmptySet DEF MaintenanceInit, CounterCounts
<1> QED
  BY <1>1, <1>2 DEF MaintenanceInit, DoorInv, MaintenanceTypeOK, OneCloser, DoorClosed,
                    RestoresAlone, Closing, Places

LEMMA EnterKeeps ==
  ASSUME DoorInv, NEW w \in Workers, EnterOperation(w)
  PROVE  DoorInv'
<1> USE DEF DoorInv, EnterOperation
<1>1. At("operating")' = At("operating") \cup {w} /\ w \notin At("operating")
  BY DEF At, MaintenanceTypeOK
<1>2. CounterCounts'
  BY <1>1, AtFinite, FS_AddElement DEF CounterCounts
<1>3. MaintenanceTypeOK'
  BY DEF MaintenanceTypeOK, Places
<1>4. OneCloser' /\ DoorClosed'
  BY DEF OneCloser, DoorClosed, Closing, MaintenanceTypeOK
<1>5. At("restoring")' = {}
  BY DEF DoorClosed, Closing, At, MaintenanceTypeOK
<1> QED
  BY <1>2, <1>3, <1>4, <1>5 DEF RestoresAlone

LEMMA LeaveKeeps ==
  ASSUME DoorInv, NEW w \in Workers, LeaveOperation(w)
  PROVE  DoorInv'
<1> USE DEF DoorInv, LeaveOperation, Notified
<1>1. At("operating")' = At("operating") \ {w} /\ w \in At("operating")
  BY DEF At, MaintenanceTypeOK
<1>2. CounterCounts' /\ activeOperations' \in Nat
  <2>1. activeOperations \in Nat /\ activeOperations # 0
    BY <1>1, AtFinite, FS_EmptySet DEF CounterCounts
  <2>2. Cardinality(At("operating")') = Cardinality(At("operating")) - 1
    BY <1>1, AtFinite, FS_RemoveElement
  <2> QED
    BY <2>1, <2>2 DEF CounterCounts
<1>3. MaintenanceTypeOK'
  BY <1>2 DEF MaintenanceTypeOK, Places
<1>4. OneCloser' /\ DoorClosed'
  BY DEF OneCloser, DoorClosed, Closing, MaintenanceTypeOK
<1>5. At("restoring")' = {}
  BY <1>1 DEF RestoresAlone, At, MaintenanceTypeOK
<1> QED
  BY <1>2, <1>3, <1>4, <1>5 DEF RestoresAlone

LEMMA RequestKeeps ==
  ASSUME DoorInv, NEW w \in Workers, RequestRestore(w)
  PROVE  DoorInv'
<1> USE DEF DoorInv, RequestRestore
<1>1. At("operating")' = At("operating")
  BY DEF At, MaintenanceTypeOK, WaitOrEnter
<1>2. CounterCounts'
  BY <1>1 DEF CounterCounts
<1>3. MaintenanceTypeOK'
  BY DEF MaintenanceTypeOK, Places, WaitOrEnter
<1>4. OneCloser' /\ DoorClosed'
  BY DEF OneCloser, DoorClosed, Closing, MaintenanceTypeOK, WaitOrEnter
<1>5. RestoresAlone'
  <2>1. CASE activeOperations = 0
    BY <2>1, <1>1, NobodyInside DEF RestoresAlone
  <2>2. CASE activeOperations # 0
    BY <2>2 DEF RestoresAlone, At, WaitOrEnter, MaintenanceTypeOK, DoorClosed, Closing
  <2> QED
    BY <2>1, <2>2
<1> QED
  BY <1>2, <1>3, <1>4, <1>5

LEMMA WakeKeeps ==
  ASSUME DoorInv, NEW w \in Workers, Wake(w)
  PROVE  DoorInv'
<1> USE DEF DoorInv, Wake
<1>1. At("operating")' = At("operating")
  BY DEF At, MaintenanceTypeOK, WaitOrEnter
<1>2. CounterCounts'
  BY <1>1 DEF CounterCounts
<1>3. MaintenanceTypeOK'
  BY DEF MaintenanceTypeOK, Places, WaitOrEnter
<1>4. OneCloser' /\ DoorClosed'
  BY DEF OneCloser, DoorClosed, Closing, MaintenanceTypeOK, WaitOrEnter
<1>5. RestoresAlone'
  <2>1. CASE activeOperations = 0
    BY <2>1, <1>1, NobodyInside DEF RestoresAlone
  <2>2. CASE activeOperations # 0
    BY <2>2, <1>1 DEF RestoresAlone, At, WaitOrEnter, MaintenanceTypeOK
  <2> QED
    BY <2>1, <2>2
<1> QED
  BY <1>2, <1>3, <1>4, <1>5

LEMMA LeaveRestoreKeeps ==
  ASSUME DoorInv, NEW w \in Workers, LeaveRestore(w)
  PROVE  DoorInv'
<1> USE DEF DoorInv, LeaveRestore, Notified
<1>1. At("operating")' = At("operating")
  BY DEF At, MaintenanceTypeOK
<1>2. CounterCounts'
  BY <1>1 DEF CounterCounts
<1>3. MaintenanceTypeOK'
  <2>1. pc' \in [Workers -> Places] /\ formEpoch' \in Nat
    BY DEF MaintenanceTypeOK, Places, NextFormEpoch
  <2>2. isRestoring' \in BOOLEAN
    OBVIOUS
  <2> QED
    BY <2>1, <2>2 DEF MaintenanceTypeOK
<1>4. \A v \in Workers : pc'[v] \notin Closing
  BY DEF OneCloser, Closing, MaintenanceTypeOK
<1>5. OneCloser' /\ DoorClosed' /\ RestoresAlone'
  BY <1>4 DEF OneCloser, DoorClosed, RestoresAlone, Closing, At
<1> QED
  BY <1>2, <1>3, <1>5

LEMMA NewProcessKeeps ==
  ASSUME DoorInv, NewProcess
  PROVE  DoorInv'
<1> USE DEF DoorInv, NewProcess
<1>1. At("operating")' = {} /\ At("restoring")' = {}
  BY DEF At
<1>2. CounterCounts'
  BY <1>1, FS_EmptySet DEF CounterCounts
<1>3. MaintenanceTypeOK'
  <2>1. pc' \in [Workers -> Places] /\ activeOperations' \in Nat
        /\ formEpoch' \in Nat /\ formIncarnation' \in Nat
    BY DEF MaintenanceTypeOK, Places
  <2>2. isRestoring' \in BOOLEAN
    OBVIOUS
  <2> QED
    BY <2>1, <2>2 DEF MaintenanceTypeOK
<1>4. OneCloser' /\ DoorClosed'
  <2>1. \A v \in Workers : pc'[v] \notin Closing
    BY DEF Closing
  <2>2. ~isRestoring'
    OBVIOUS
  <2> QED
    BY <2>1, <2>2 DEF OneCloser, DoorClosed
<1> QED
  BY <1>1, <1>2, <1>3, <1>4 DEF RestoresAlone

LEMMA NextDoorInv == DoorInv /\ [MaintenanceNext]_mvars => DoorInv'
<1> SUFFICES ASSUME DoorInv, [MaintenanceNext]_mvars PROVE DoorInv'
  OBVIOUS
<1>1. CASE MaintenanceNext
  BY <1>1, EnterKeeps, LeaveKeeps, RequestKeeps, WakeKeeps, LeaveRestoreKeeps,
     NewProcessKeeps DEF MaintenanceNext
<1>2. CASE UNCHANGED mvars
  BY <1>2 DEF mvars, DoorInv, MaintenanceTypeOK, CounterCounts, OneCloser, DoorClosed,
              RestoresAlone, At
<1> QED
  BY <1>1, <1>2

THEOREM DoorInvHolds == MaintenanceSpec => []DoorInv
BY InitDoorInv, NextDoorInv, PTL DEF MaintenanceSpec

\* The counter never goes below zero and every worker is somewhere (database.py:93).
THEOREM MaintenanceTypeCorrect == MaintenanceSpec => []MaintenanceTypeOK
BY DoorInvHolds, PTL DEF DoorInv

-----------------------------------------------------------------------------
(* Every action maps to an action of the lock, or to no step of it. *)

LEMMA EnterIsBegin ==
  ASSUME DoorInv, NEW w \in Workers, EnterOperation(w)
  PROVE  Lock!BeginOperation(w)
<1> USE DEF EnterOperation
<1>1. At("operating")' = At("operating") \cup {w} /\ w \notin At("operating")
  BY DEF At, MaintenanceTypeOK, DoorInv
<1>2. At("restoring") = {} /\ At("restoring")' = {}
  BY DEF DoorClosed, Closing, At, MaintenanceTypeOK, DoorInv
<1>3. Restorer = None /\ Restorer' = None
  BY <1>2 DEF Restorer
<1> QED
  BY <1>1, <1>3 DEF Lock!BeginOperation

LEMMA LeaveIsEnd ==
  ASSUME DoorInv, NEW w \in Workers, LeaveOperation(w)
  PROVE  Lock!EndOperation(w)
<1> USE DEF LeaveOperation, Notified
<1>1. At("operating")' = At("operating") \ {w} /\ w \in At("operating")
  BY DEF At, MaintenanceTypeOK, DoorInv
<1>2. At("restoring") = {} /\ At("restoring")' = {}
  BY <1>1 DEF RestoresAlone, At, MaintenanceTypeOK, DoorInv
<1>3. Restorer = None /\ Restorer' = None
  BY <1>2 DEF Restorer
<1> QED
  BY <1>1, <1>3 DEF Lock!EndOperation

\* The worker that has closed the door either finds nobody inside and is the
\* restorer, or waits, which the lock does not see.
LEMMA WaitOrBegin ==
  ASSUME DoorInv, NEW w \in Workers, pc' = [pc EXCEPT ![w] = WaitOrEnter],
         pc[w] \notin {"operating", "restoring"},
         \A v \in Workers : v # w => pc[v] \notin Closing
  PROVE  Lock!BeginRestore(w) \/ UNCHANGED Lock!lockVars
<1>1. At("operating")' = At("operating")
  BY DEF At, MaintenanceTypeOK, WaitOrEnter, DoorInv
<1>2. At("restoring") = {} /\ Restorer = None
  BY DEF At, Closing, Restorer
<1>3. CASE activeOperations = 0
  <2>1. At("operating") = {}
    BY <1>3, NobodyInside DEF DoorInv
  <2>2. At("restoring")' = {w}
    BY <1>3 DEF At, WaitOrEnter, Closing, MaintenanceTypeOK, DoorInv
  <2>3. Restorer' = w
    BY <2>2 DEF Restorer, At
  <2> QED
    BY <1>1, <1>2, <2>1, <2>3 DEF Lock!BeginRestore
<1>4. CASE activeOperations # 0
  <2>1. At("restoring")' = {}
    BY <1>4 DEF At, WaitOrEnter, Closing, MaintenanceTypeOK, DoorInv
  <2> QED
    BY <1>1, <1>2, <2>1 DEF Restorer, Lock!lockVars
<1> QED
  BY <1>3, <1>4

LEMMA RequestMaps ==
  ASSUME DoorInv, NEW w \in Workers, RequestRestore(w)
  PROVE  Lock!BeginRestore(w) \/ UNCHANGED Lock!lockVars
<1>1. \A v \in Workers : pc[v] \notin Closing
  BY DEF RequestRestore, DoorClosed, DoorInv
<1> QED
  BY <1>1, WaitOrBegin DEF RequestRestore

LEMMA WakeMaps ==
  ASSUME DoorInv, NEW w \in Workers, Wake(w)
  PROVE  Lock!BeginRestore(w) \/ UNCHANGED Lock!lockVars
<1>1. \A v \in Workers : v # w => pc[v] \notin Closing
  BY DEF Wake, OneCloser, Closing, DoorInv
<1> QED
  BY <1>1, WaitOrBegin DEF Wake

LEMMA LeaveRestoreIsEnd ==
  ASSUME DoorInv, NEW w \in Workers, LeaveRestore(w)
  PROVE  Lock!EndRestore(w)
<1> USE DEF LeaveRestore, Notified
<1>1. At("operating")' = At("operating")
  BY DEF At, MaintenanceTypeOK, DoorInv
<1>2. At("restoring") = {w} /\ At("restoring")' = {}
  BY DEF At, OneCloser, Closing, MaintenanceTypeOK, DoorInv
<1>3. Restorer = w /\ Restorer' = None
  BY <1>2 DEF Restorer, At
<1> QED
  BY <1>1, <1>3 DEF Lock!EndRestore

LEMMA NewProcessIsDie ==
  ASSUME NewProcess
  PROVE  Lock!Die
<1>1. At("operating")' = {} /\ At("restoring")' = {}
  BY DEF At, NewProcess
<1> QED
  BY <1>1 DEF Restorer, Lock!Die

LEMMA StepMaps ==
  DoorInv /\ [MaintenanceNext]_mvars => [Lock!LockNext]_(Lock!lockVars)
<1> SUFFICES ASSUME DoorInv, [MaintenanceNext]_mvars
             PROVE  [Lock!LockNext]_(Lock!lockVars)
  OBVIOUS
<1>1. CASE MaintenanceNext
  BY <1>1, EnterIsBegin, LeaveIsEnd, RequestMaps, WakeMaps, LeaveRestoreIsEnd,
     NewProcessIsDie DEF MaintenanceNext, Lock!LockNext
<1>2. CASE UNCHANGED mvars
  BY <1>2 DEF mvars, Lock!lockVars, Restorer, At
<1> QED
  BY <1>1, <1>2

LEMMA InitMaps == MaintenanceInit => Lock!LockInit
<1> SUFFICES ASSUME MaintenanceInit PROVE Lock!LockInit
  OBVIOUS
<1>1. At("operating") = {} /\ At("restoring") = {}
  BY DEF MaintenanceInit, At
<1> QED
  BY <1>1 DEF Restorer, Lock!LockInit

\* However many threads there are, the admission control is a readers-writer lock:
\* no operation and no second restore runs beside a restore (database.py:59).
THEOREM MaintenanceImplementsLock == MaintenanceSpec => ImplementsLock
BY DoorInvHolds, InitMaps, StepMaps, PTL DEF MaintenanceSpec, ImplementsLock, Lock!LockSpec

-----------------------------------------------------------------------------
(* Backups and restores behind the door. *)

Stages == {"begin", "staged", "reserved", "copied", "published", "closed", "replaced"}

FileJobs ==
  [op : {"backup", "restore"}, stage : Stages, from : BackupIds \cup {None},
   staged : Versions \cup {None}, name : BackupIds \cup {None},
   copy : Versions \cup {None}, began : Files]

Forms == [identity : [incarnation : Nat, epoch : Nat], file : Files]

FilesTypeOK ==
  /\ live \in Versions /\ file \in Files /\ latest \in Versions
  /\ pooled \in Files \cup {None}
  /\ backups \in [BackupIds -> Versions \cup {None, Reserved}]
  /\ forms \subseteq Forms
  /\ job \in [Workers -> {NoJob, SessionJob} \cup FileJobs]

Doing(w, op) == job[w].op = op

\* The job of a worker is what the admission control let it in for, and a restore that
\* has begun to work is past the door.
JobsAdmitted ==
  \A w \in Workers :
    /\ pc[w] = "operating" <=> Doing(w, "session") \/ Doing(w, "backup")
    /\ pc[w] \in Closing <=> Doing(w, "restore")
    /\ Doing(w, "restore") /\ job[w].stage # "begin" => pc[w] = "restoring"

OnFile(w) == Doing(w, "backup") \/ Doing(w, "restore")
Holding(w) == OnFile(w) /\ job[w].stage \in {"reserved", "copied"}
Done(w) == OnFile(w) /\ job[w].stage \in {"published", "closed", "replaced"}

\* A name is held empty until its copy is published, by one worker at a time.
NamesHeld ==
  \A w \in Workers :
    /\ OnFile(w) /\ job[w].stage \in {"begin", "staged"} => job[w].name = None
    /\ Holding(w) => job[w].name \in BackupIds /\ backups[job[w].name] = Reserved
    /\ Holding(w) /\ job[w].stage = "copied" => job[w].copy \in Versions
    /\ Done(w) => job[w].name \in BackupIds /\ backups[job[w].name] \in Versions

NamesApart ==
  \A v, w \in Workers : Holding(v) /\ Holding(w) /\ v # w => job[v].name # job[w].name

\* Before the file is replaced it is the one the restore began with, and it is saved;
\* afterwards it is the next one, with the content that was asked for.
RestoreGoes ==
  \A w \in Workers :
    Doing(w, "restore") =>
      LET j == job[w] IN
      /\ j.stage # "begin" => j.staged \in Versions
      /\ j.stage # "replaced" => j.began = file
      /\ j.stage = "replaced" => file = j.began + 1 /\ live = j.staged
      /\ j.stage = "copied" => j.copy = live
      /\ j.stage \in {"published", "closed"} => backups[j.name] = live

\* The pool never has a file open that was replaced.
PoolLive ==
  /\ pooled \in {None, file}
  /\ \A w \in Workers : Within(w, "restore", "closed") => pooled = None

\* Identities are never in the future, and those of now were issued from the live file
\* unless it has just been replaced.
FormsBound ==
  \A f \in forms :
    /\ f.identity.incarnation <= formIncarnation
    /\ f.identity.incarnation = formIncarnation => f.identity.epoch <= formEpoch
    /\ \/ f.identity # FormIdentity
       \/ f.file = file
       \/ \E w \in Workers : Within(w, "restore", "replaced")

BInv ==
  /\ FilesTypeOK /\ JobsAdmitted /\ NamesHeld /\ NamesApart /\ RestoreGoes /\ PoolLive
  /\ FormsBound

-----------------------------------------------------------------------------
\* Every step is one of the admission control, or none of its.
LEMMA StepOfDoor == [Next]_vars => [MaintenanceNext]_mvars
<1> SUFFICES ASSUME [Next]_vars PROVE [MaintenanceNext]_mvars
  OBVIOUS
<1>1. ASSUME NEW w \in Workers, SessionStep(w) PROVE [MaintenanceNext]_mvars
  BY <1>1 DEF SessionStep, BeginSession, CommitEdit, IssueForm, EndSession, MaintenanceNext
<1>2. ASSUME NEW w \in Workers, BackupStep(w) PROVE [MaintenanceNext]_mvars
  BY <1>2 DEF BackupStep, BeginBackup, ReserveName, Snapshot, Publish, EndBackup,
              MaintenanceNext
<1>3. ASSUME NEW w \in Workers, RestoreStep(w) PROVE [MaintenanceNext]_mvars
  BY <1>3 DEF RestoreStep, BeginRestore, GetIn, StageCopy, Dispose, Replace, EndRestore,
              FailRestore, Answer, MaintenanceNext
<1>4. CASE Crash
  BY <1>4 DEF Crash, MaintenanceNext
<1>5. CASE UNCHANGED vars
  BY <1>5 DEF vars
<1> QED
  BY <1>1, <1>2, <1>3, <1>4, <1>5 DEF Next

\* A job that works on a file has all the fields of one.
LEMMA FileJob ==
  ASSUME FilesTypeOK, NEW w \in Workers, OnFile(w)
  PROVE  job[w] \in FileJobs
<1>1. job[w] # NoJob
  BY BackupAssumption DEF OnFile, Doing, NoJob
<1>2. job[w] # SessionJob
  BY DEF OnFile, Doing, SessionJob
<1> QED
  BY <1>1, <1>2 DEF FilesTypeOK

\* While one worker restores, nobody else does anything.
LEMMA RestoresByItself ==
  ASSUME DoorInv, JobsAdmitted, NEW w \in Workers, pc[w] = "restoring"
  PROVE  /\ Doing(w, "restore")
         /\ \A v \in Workers : v # w => ~OnFile(v) /\ ~Doing(v, "session")
<1>1. Doing(w, "restore")
  BY DEF JobsAdmitted, Closing
<1>2. ASSUME NEW v \in Workers, v # w PROVE ~OnFile(v) /\ ~Doing(v, "session")
  <2>1. pc[v] # "operating"
    BY DEF DoorInv, RestoresAlone, At
  <2>2. pc[v] \notin Closing
    BY <1>2 DEF DoorInv, OneCloser, Closing
  <2> QED
    BY <2>1, <2>2 DEF JobsAdmitted, OnFile
<1> QED
  BY <1>1, <1>2

\* While anybody operates, no restore has begun to work.
LEMMA OperatesUndisturbed ==
  ASSUME DoorInv, JobsAdmitted, NEW w \in Workers, pc[w] = "operating"
  PROVE  \A v \in Workers : Doing(v, "restore") => job[v].stage = "begin"
BY DEF DoorInv, RestoresAlone, At, JobsAdmitted

LEMMA InitBInv == Init => BInv
<1> SUFFICES ASSUME Init PROVE BInv
  OBVIOUS
<1>1. \A w \in Workers : job[w] = NoJob /\ pc[w] = "outside"
  BY DEF Init, MaintenanceInit
<1>2. \A w \in Workers : ~OnFile(w) /\ ~Doing(w, "session") /\ ~Doing(w, "restore")
  BY <1>1, BackupAssumption DEF OnFile, Doing, NoJob
<1>3. FilesTypeOK
  BY BackupAssumption DEF Init, FilesTypeOK, Versions, Files
<1>4. JobsAdmitted
  BY <1>1, <1>2 DEF JobsAdmitted, Closing, OnFile
<1>5. NamesHeld /\ NamesApart /\ RestoreGoes
  BY <1>2 DEF NamesHeld, NamesApart, RestoreGoes, Holding, Done
<1>6. PoolLive /\ FormsBound
  BY <1>2 DEF PoolLive, FormsBound, Init, Within, Doing
<1> QED
  BY <1>3, <1>4, <1>5, <1>6 DEF BInv


-----------------------------------------------------------------------------
(* Sessions. *)

LEMMA BeginSessionKeeps ==
  ASSUME BInv, DoorInv, NEW w \in Workers, BeginSession(w)
  PROVE  BInv'
<1> USE DEF BeginSession, EnterOperation
<1>1. job' = [job EXCEPT ![w] = SessionJob] /\ ~OnFile(w)'
  BY DEF BInv, FilesTypeOK, OnFile, Doing, SessionJob
<1>2. ~OnFile(w)
  BY DEF BInv, JobsAdmitted, OnFile, Closing
<1>3. \A v \in Workers : v # w => job'[v] = job[v]
  BY DEF BInv, FilesTypeOK
<1>4. \A v \in Workers : OnFile(v)' <=> OnFile(v)
  BY <1>1, <1>2, <1>3 DEF OnFile, Doing
<1>5. FilesTypeOK'
  BY <1>1 DEF BInv, FilesTypeOK, Connected
<1>6. JobsAdmitted'
  BY <1>1, <1>3 DEF BInv, JobsAdmitted, OnFile, Doing, SessionJob, Closing, FilesTypeOK,
                    DoorInv, MaintenanceTypeOK
<1>7. NamesHeld' /\ NamesApart' /\ RestoreGoes'
  BY <1>1, <1>2, <1>3, <1>4 DEF BInv, NamesHeld, NamesApart, RestoreGoes, Holding, Done,
                                OnFile, Doing
<1>8. \A v \in Workers : ~Within(v, "restore", "closed")
  BY RestoresByItself DEF BInv, DoorInv, DoorClosed, Closing, Within, JobsAdmitted, Doing
<1>9. PoolLive'
  BY <1>1, <1>3, <1>8 DEF BInv, PoolLive, Connected, Within, OnFile, Doing
<1>10. FormsBound'
  BY <1>1, <1>2, <1>3 DEF BInv, FormsBound, FormIdentity, Within, OnFile, Doing
<1> QED
  BY <1>5, <1>6, <1>7, <1>9, <1>10 DEF BInv

LEMMA CommitEditKeeps ==
  ASSUME BInv, DoorInv, NEW w \in Workers, CommitEdit(w)
  PROVE  BInv'
<1> USE DEF CommitEdit, mvars
<1>1. \A v \in Workers : Doing(v, "restore") => job[v].stage = "begin"
  BY OperatesUndisturbed DEF BInv
<1>2. FilesTypeOK'
  BY BackupAssumption DEF BInv, FilesTypeOK, Versions
<1>3. RestoreGoes'
  BY <1>1 DEF BInv, RestoreGoes, Doing
<1>4. JobsAdmitted' /\ NamesHeld' /\ NamesApart' /\ PoolLive' /\ FormsBound'
  BY DEF BInv, JobsAdmitted, NamesHeld, NamesApart, PoolLive, FormsBound, FormIdentity,
         OnFile, Doing, Holding, Done, Within
<1> QED
  BY <1>2, <1>3, <1>4 DEF BInv

LEMMA IssueFormKeeps ==
  ASSUME BInv, DoorInv, NEW w \in Workers, IssueForm(w)
  PROVE  BInv'
<1> USE DEF IssueForm, mvars, files
<1>1. FilesTypeOK'
  BY DEF BInv, FilesTypeOK, Forms, FormIdentity, DoorInv, MaintenanceTypeOK
<1>2. FormsBound'
  BY DEF BInv, FormsBound, FormIdentity, Within, DoorInv, MaintenanceTypeOK
<1>3. JobsAdmitted' /\ NamesHeld' /\ NamesApart' /\ RestoreGoes' /\ PoolLive'
  BY DEF BInv, JobsAdmitted, NamesHeld, NamesApart, RestoreGoes, PoolLive,
         OnFile, Doing, Holding, Done, Within
<1> QED
  BY <1>1, <1>2, <1>3 DEF BInv

\* A worker that leaves, its job done or given up, changes nothing else.
LEMMA JobEnds ==
  ASSUME FilesTypeOK, JobsAdmitted, NamesApart, PoolLive, NEW w \in Workers,
         job' = [job EXCEPT ![w] = NoJob], UNCHANGED <<file, pooled>>
  PROVE  /\ job'[w] = NoJob /\ ~OnFile(w)' /\ \A v \in Workers : v # w => job'[v] = job[v]
         /\ NamesApart' /\ PoolLive'
<1>1. job'[w] = NoJob /\ \A v \in Workers : v # w => job'[v] = job[v]
  BY DEF FilesTypeOK
<1>2. ~OnFile(w)'
  BY <1>1, BackupAssumption DEF OnFile, Doing, NoJob
<1>3. \A v \in Workers : OnFile(v)' => v # w /\ OnFile(v) /\ job'[v] = job[v]
  BY <1>1, <1>2 DEF OnFile, Doing
<1>4. NamesApart'
  BY <1>3 DEF NamesApart, Holding
<1>5. \A v \in Workers : Within(v, "restore", "closed")' => Within(v, "restore", "closed")
  BY <1>1, <1>2 DEF Within, OnFile, Doing
<1>6. PoolLive'
  BY <1>5 DEF PoolLive
<1> QED
  BY <1>1, <1>2, <1>4, <1>6

LEMMA EndSessionKeeps ==
  ASSUME BInv, DoorInv, NEW w \in Workers, EndSession(w)
  PROVE  BInv'
<1> USE DEF EndSession, LeaveOperation, Notified, files
<1>1. /\ job'[w] = NoJob /\ ~OnFile(w)' /\ \A v \in Workers : v # w => job'[v] = job[v]
      /\ NamesApart' /\ PoolLive'
  BY JobEnds DEF BInv
<1>2. \A v \in Workers : OnFile(v)' => v # w /\ OnFile(v) /\ job'[v] = job[v]
  BY <1>1 DEF OnFile, Doing
<1>3. FilesTypeOK'
  BY DEF BInv, FilesTypeOK
<1>4. JobsAdmitted'
  BY <1>1, BackupAssumption DEF BInv, JobsAdmitted, OnFile, Doing, NoJob, Closing, DoorInv,
     MaintenanceTypeOK
<1>5. NamesHeld' /\ RestoreGoes'
  BY <1>1, <1>2 DEF BInv, NamesHeld, RestoreGoes, Holding, Done, OnFile, Doing
<1>6. \A v \in Workers : Within(v, "restore", "replaced") => Within(v, "restore", "replaced")'
  BY <1>1 DEF Within
<1>7. FormsBound'
  BY <1>6 DEF BInv, FormsBound, FormIdentity
<1> QED
  BY <1>1, <1>3, <1>4, <1>5, <1>7 DEF BInv

-----------------------------------------------------------------------------
(* A backup, on its own or inside a restore. *)

\* A worker that goes on with its file job changes no other job.
LEMMA JobGoesOn ==
  ASSUME FilesTypeOK, NEW w \in Workers, OnFile(w), NEW j \in FileJobs,
         j.op = job[w].op, job' = [job EXCEPT ![w] = j]
  PROVE  /\ job'[w] = j /\ \A v \in Workers : v # w => job'[v] = job[v]
         /\ \A v \in Workers, op \in {"session", "backup", "restore"} :
              Doing(v, op)' <=> Doing(v, op)
         /\ job' \in [Workers -> {NoJob, SessionJob} \cup FileJobs]
<1>1. job'[w] = j /\ \A v \in Workers : v # w => job'[v] = job[v]
  BY DEF FilesTypeOK
<1>2. job' \in [Workers -> {NoJob, SessionJob} \cup FileJobs]
  BY DEF FilesTypeOK
<1> QED
  BY <1>1, <1>2 DEF Doing

\* Whoever is past the door when the step is not of the admission control stays there.
LEMMA StaysAdmitted ==
  ASSUME JobsAdmitted, UNCHANGED pc, NEW w \in Workers,
         \A v \in Workers : v # w => job'[v] = job[v],
         \A v \in Workers, op \in {"session", "backup", "restore"} :
           Doing(v, op)' <=> Doing(v, op),
         Doing(w, "restore") /\ job'[w].stage # "begin" => pc[w] = "restoring"
  PROVE  JobsAdmitted'
BY DEF JobsAdmitted

LEMMA BeginBackupKeeps ==
  ASSUME BInv, DoorInv, NEW w \in Workers, BeginBackup(w)
  PROVE  BInv'
<1> USE DEF BeginBackup, EnterOperation, files
<1>1. job' = [job EXCEPT ![w] = NewJob("backup", None)] /\ ~OnFile(w)
  BY DEF BInv, JobsAdmitted, OnFile, Closing
<1>2. NewJob("backup", None) \in FileJobs /\ NewJob("backup", None).op = "backup"
      /\ NewJob("backup", None).stage = "begin" /\ NewJob("backup", None).name = None
  BY DEF NewJob, FileJobs, Stages, BInv, FilesTypeOK
<1>3. job'[w] = NewJob("backup", None) /\ \A v \in Workers : v # w => job'[v] = job[v]
  BY <1>1 DEF BInv, FilesTypeOK
<1> HIDE DEF BeginBackup
<1>4. FilesTypeOK'
  BY <1>1, <1>2 DEF BInv, FilesTypeOK, BeginBackup
<1>5. JobsAdmitted'
  BY <1>2, <1>3 DEF BInv, JobsAdmitted, Doing, Closing, DoorInv, MaintenanceTypeOK, BeginBackup
<1>6. UNCHANGED <<live, file, latest, pooled, backups, forms, formEpoch, formIncarnation>>
  BY DEF BeginBackup
<1>7. NamesHeld' /\ NamesApart'
  BY <1>2, <1>3, <1>6 DEF BInv, NamesHeld, NamesApart, Holding, Done, OnFile, Doing
<1>8. RestoreGoes'
  BY <1>2, <1>3, <1>6 DEF BInv, RestoreGoes, Doing
<1>9. PoolLive'
  BY <1>2, <1>3, <1>6 DEF BInv, PoolLive, Within
<1>10. FormsBound'
  <2>1. \A v \in Workers :
          Within(v, "restore", "replaced") => Within(v, "restore", "replaced")'
    BY <1>1, <1>3 DEF Within, OnFile, Doing
  <2> QED
    BY <1>6, <2>1 DEF BInv, FormsBound, FormIdentity
<1> QED
  BY <1>4, <1>5, <1>7, <1>8, <1>9, <1>10 DEF BInv

LEMMA ReserveNameKeeps ==
  ASSUME BInv, DoorInv, NEW w \in Workers, ReserveName(w)
  PROVE  BInv'
<1> USE DEF mvars
<1>1. PICK b \in BackupIds :
        /\ backups[b] = None
        /\ backups' = [backups EXCEPT ![b] = Reserved]
        /\ job' = [job EXCEPT ![w].stage = "reserved", ![w].name = b]
  BY DEF ReserveName
<1>2. OnFile(w) /\ job[w].stage \in {"begin", "staged"}
      /\ (Doing(w, "restore") => job[w].stage = "staged")
  BY DEF ReserveName, ReadyToReserve, Within, OnFile, Doing
<1>3. job[w] \in FileJobs
  BY <1>2, FileJob DEF BInv
<1> DEFINE j == [job[w] EXCEPT !.stage = "reserved", !.name = b]
<1>4. j \in FileJobs /\ j = [job[w] EXCEPT !.stage = "reserved", !.name = b]
      /\ j.op = job[w].op /\ j.stage = "reserved" /\ j.name = b
      /\ j.staged = job[w].staged /\ j.began = job[w].began
  BY <1>3 DEF FileJobs, Stages
<1>5. job' = [job EXCEPT ![w] = j]
  BY <1>1
<1> HIDE DEF j
<1>6. UNCHANGED <<pc, live, file, latest, pooled, forms, formEpoch, formIncarnation>>
  BY DEF ReserveName
<1>7. /\ job'[w] = j /\ \A v \in Workers : v # w => job'[v] = job[v]
      /\ \A v \in Workers, op \in {"session", "backup", "restore"} :
           Doing(v, op)' <=> Doing(v, op)
      /\ job' \in [Workers -> {NoJob, SessionJob} \cup FileJobs]
  BY <1>2, <1>4, <1>5, JobGoesOn DEF BInv
<1>8. FilesTypeOK'
  BY <1>1, <1>6, <1>7 DEF BInv, FilesTypeOK
<1>9. JobsAdmitted'
  BY <1>2, <1>6, <1>7, StaysAdmitted DEF BInv, JobsAdmitted
<1>10. \A c \in BackupIds : backups'[c] = IF c = b THEN Reserved ELSE backups[c]
  BY <1>1 DEF BInv, FilesTypeOK
<1>11. NamesHeld'
  BY <1>1, <1>2, <1>4, <1>7, <1>10, BackupAssumption
     DEF BInv, NamesHeld, Holding, Done, OnFile, Doing
<1>12. NamesApart'
  BY <1>1, <1>4, <1>7, BackupAssumption DEF BInv, NamesHeld, NamesApart, Holding, OnFile, Doing
<1>13. RestoreGoes'
  <2>1. ASSUME NEW v \in Workers, v # w, Doing(v, "restore"),
               job[v].stage \in {"published", "closed"}
        PROVE  job[v].name # b /\ job[v].name \in BackupIds
    BY <1>1, <2>1, BackupAssumption DEF BInv, NamesHeld, Done, OnFile
  <2>2. ASSUME NEW v \in Workers, v # w, Doing(v, "restore"),
               job[v].stage \in {"published", "closed"}
        PROVE  backups'[job[v].name] = live
    BY <1>10, <2>1, <2>2 DEF BInv, RestoreGoes
  <2>3. Doing(w, "restore") => j.staged \in Versions /\ j.began = file
    BY <1>2, <1>4 DEF BInv, RestoreGoes
  <2>4. \A v \in Workers : Doing(v, "restore")' <=> Doing(v, "restore")
    BY <1>7
  <2> SUFFICES ASSUME NEW v \in Workers, Doing(v, "restore")
               PROVE  /\ job'[v].stage # "begin" => job'[v].staged \in Versions
                      /\ job'[v].stage # "replaced" => job'[v].began = file
                      /\ job'[v].stage = "replaced" =>
                           file = job'[v].began + 1 /\ live = job'[v].staged
                      /\ job'[v].stage = "copied" => job'[v].copy = live
                      /\ job'[v].stage \in {"published", "closed"} =>
                           backups'[job'[v].name] = live
    BY <1>6, <2>4 DEF RestoreGoes
  <2>5. CASE v = w
    BY <1>4, <1>7, <2>3, <2>5
  <2>6. CASE v # w
    BY <1>7, <2>2, <2>6 DEF BInv, RestoreGoes
  <2> QED
    BY <2>5, <2>6
<1>14. PoolLive'
  BY <1>4, <1>6, <1>7 DEF BInv, PoolLive, Within
<1>15. FormsBound'
  <2>1. \A v \in Workers :
          Within(v, "restore", "replaced") => Within(v, "restore", "replaced")'
    BY <1>2, <1>7 DEF Within
  <2> QED
    BY <1>6, <2>1 DEF BInv, FormsBound, FormIdentity
<1> QED
  BY <1>8, <1>9, <1>11, <1>12, <1>13, <1>14, <1>15 DEF BInv

LEMMA SnapshotKeeps ==
  ASSUME BInv, DoorInv, NEW w \in Workers, Snapshot(w)
  PROVE  BInv'
<1> USE DEF mvars
<1>1. OnFile(w) /\ job[w].stage = "reserved"
  BY DEF Snapshot, OnFile, Doing
<1>2. job[w] \in FileJobs
  BY <1>1, FileJob DEF BInv
<1> DEFINE j == [job[w] EXCEPT !.stage = "copied", !.copy = live]
<1>3. j \in FileJobs /\ j.op = job[w].op /\ j.stage = "copied" /\ j.name = job[w].name
      /\ j.copy = live /\ j.staged = job[w].staged /\ j.began = job[w].began
  BY <1>2 DEF FileJobs, Stages, BInv, FilesTypeOK
<1>4. job' = [job EXCEPT ![w] = j]
  BY DEF Snapshot
<1> HIDE DEF j
<1>5. UNCHANGED <<pc, live, file, latest, backups, forms, formEpoch, formIncarnation>>
      /\ pooled' = Connected
  BY DEF Snapshot
<1>6. /\ job'[w] = j /\ \A v \in Workers : v # w => job'[v] = job[v]
      /\ \A v \in Workers, op \in {"session", "backup", "restore"} :
           Doing(v, op)' <=> Doing(v, op)
      /\ job' \in [Workers -> {NoJob, SessionJob} \cup FileJobs]
  BY <1>1, <1>3, <1>4, JobGoesOn DEF BInv
<1>7. FilesTypeOK'
  BY <1>5, <1>6 DEF BInv, FilesTypeOK, Connected
<1>8. JobsAdmitted'
  BY <1>1, <1>5, <1>6, StaysAdmitted DEF BInv, JobsAdmitted
<1>9. NamesHeld'
  BY <1>1, <1>3, <1>5, <1>6 DEF BInv, NamesHeld, Holding, Done, OnFile, Doing, FilesTypeOK
<1>10. NamesApart'
  BY <1>1, <1>3, <1>6 DEF BInv, NamesApart, Holding, OnFile, Doing
<1>11. RestoreGoes'
  BY <1>1, <1>3, <1>5, <1>6 DEF BInv, RestoreGoes, Doing
<1>12. ASSUME NEW v \in Workers, Within(v, "restore", "closed")' PROVE FALSE
  <2>1. v # w /\ Doing(v, "restore") /\ job[v].stage = "closed"
    BY <1>3, <1>6, <1>12 DEF Within, Doing
  <2>2. pc[v] = "restoring"
    BY <2>1 DEF BInv, JobsAdmitted
  <2> QED
    BY <1>1, <2>1, <2>2, RestoresByItself DEF BInv
<1>13. PoolLive'
  BY <1>5, <1>12 DEF BInv, PoolLive, Connected
<1>14. FormsBound'
  <2>1. \A v \in Workers :
          Within(v, "restore", "replaced") => Within(v, "restore", "replaced")'
    BY <1>1, <1>6 DEF Within
  <2> QED
    BY <1>5, <2>1 DEF BInv, FormsBound, FormIdentity
<1> QED
  BY <1>7, <1>8, <1>9, <1>10, <1>11, <1>13, <1>14 DEF BInv

LEMMA PublishKeeps ==
  ASSUME BInv, DoorInv, NEW w \in Workers, Publish(w)
  PROVE  BInv'
<1> USE DEF mvars
<1>1. OnFile(w) /\ job[w].stage = "copied" /\ Holding(w)
  BY DEF Publish, OnFile, Doing, Holding
<1>2. job[w] \in FileJobs /\ job[w].name \in BackupIds /\ job[w].copy \in Versions
      /\ backups[job[w].name] = Reserved
  BY <1>1, FileJob DEF BInv, NamesHeld
<1> DEFINE j == [job[w] EXCEPT !.stage = "published"]
<1>3. j \in FileJobs /\ j.op = job[w].op /\ j.stage = "published" /\ j.name = job[w].name
      /\ j.staged = job[w].staged /\ j.began = job[w].began
  BY <1>2 DEF FileJobs, Stages
<1>4. job' = [job EXCEPT ![w] = j]
  BY DEF Publish
<1> HIDE DEF j
<1>5. UNCHANGED <<pc, live, file, latest, pooled, forms, formEpoch, formIncarnation>>
  BY DEF Publish
<1>6. /\ job'[w] = j /\ \A v \in Workers : v # w => job'[v] = job[v]
      /\ \A v \in Workers, op \in {"session", "backup", "restore"} :
           Doing(v, op)' <=> Doing(v, op)
      /\ job' \in [Workers -> {NoJob, SessionJob} \cup FileJobs]
  BY <1>1, <1>3, <1>4, JobGoesOn DEF BInv
<1>7. /\ backups' \in [BackupIds -> Versions \cup {None, Reserved}]
      /\ backups'[job[w].name] = job[w].copy
      /\ \A b \in BackupIds : b # job[w].name => backups'[b] = backups[b]
  BY <1>2 DEF Publish, BInv, FilesTypeOK
<1>8. FilesTypeOK'
  BY <1>5, <1>6, <1>7 DEF BInv, FilesTypeOK
<1>9. JobsAdmitted'
  BY <1>1, <1>5, <1>6, StaysAdmitted DEF BInv, JobsAdmitted
<1>10. \A v \in Workers : v # w => (Holding(v)' <=> Holding(v)) /\ (Done(v)' <=> Done(v))
  BY <1>6 DEF Holding, Done, OnFile
<1>11. ~Holding(w)' /\ Done(w)' /\ job'[w].name = job[w].name
  BY <1>1, <1>3, <1>6 DEF Holding, Done, OnFile
<1>12. NamesApart'
  BY <1>6, <1>10, <1>11 DEF BInv, NamesApart
<1>13. NamesHeld'
  <2>1. ASSUME NEW v \in Workers, v # w, Holding(v)
        PROVE  backups'[job[v].name] = Reserved /\ job[v].name \in BackupIds
    BY <1>1, <1>7, <2>1 DEF BInv, NamesHeld, NamesApart
  <2>2. ASSUME NEW v \in Workers, v # w, Done(v)
        PROVE  backups'[job[v].name] \in Versions /\ job[v].name \in BackupIds
    BY <1>2, <1>7, <2>2, BackupAssumption DEF BInv, NamesHeld
  <2>3. \A v \in Workers : v # w => (OnFile(v)' <=> OnFile(v))
    BY <1>6 DEF OnFile
  <2>4. backups'[job'[w].name] \in Versions /\ job'[w].name \in BackupIds
        /\ job'[w].stage = "published"
    BY <1>2, <1>3, <1>6, <1>7
  <2> QED
    BY <1>6, <1>10, <1>11, <2>1, <2>2, <2>3, <2>4 DEF BInv, NamesHeld
<1>14. RestoreGoes'
  <2>1. \A v \in Workers : Doing(v, "restore")' <=> Doing(v, "restore")
    BY <1>6
  <2> SUFFICES ASSUME NEW v \in Workers, Doing(v, "restore")
               PROVE  /\ job'[v].stage # "begin" => job'[v].staged \in Versions
                      /\ job'[v].stage # "replaced" => job'[v].began = file
                      /\ job'[v].stage = "replaced" =>
                           file = job'[v].began + 1 /\ live = job'[v].staged
                      /\ job'[v].stage = "copied" => job'[v].copy = live
                      /\ job'[v].stage \in {"published", "closed"} =>
                           backups'[job'[v].name] = live
    BY <1>5, <2>1 DEF RestoreGoes
  <2>2. CASE v = w
    BY <1>1, <1>3, <1>6, <1>7, <2>2 DEF BInv, RestoreGoes
  <2>3. CASE v # w
    <3>1. job[v].stage = "begin"
      <4>1. job[v].stage # "begin" => pc[v] = "restoring"
        BY DEF BInv, JobsAdmitted
      <4> QED
        BY <1>1, <2>3, <4>1, RestoresByItself DEF BInv
    <3> QED
      BY <1>6, <2>3, <3>1 DEF BInv, RestoreGoes
  <2> QED
    BY <2>2, <2>3
<1>15. PoolLive'
  BY <1>3, <1>5, <1>6 DEF BInv, PoolLive, Within
<1>16. FormsBound'
  <2>1. \A v \in Workers :
          Within(v, "restore", "replaced") => Within(v, "restore", "replaced")'
    BY <1>1, <1>6 DEF Within
  <2> QED
    BY <1>5, <2>1 DEF BInv, FormsBound, FormIdentity
<1> QED
  BY <1>8, <1>9, <1>12, <1>13, <1>14, <1>15, <1>16 DEF BInv

\* Giving back a name that is still empty takes nobody else's name and no backup.
LEMMA ReleaseSpares ==
  ASSUME FilesTypeOK, NamesHeld, NamesApart, NEW w \in Workers, OnFile(w),
         ReleaseName(job[w])
  PROVE  /\ backups' \in [BackupIds -> Versions \cup {None, Reserved}]
         /\ \A b \in BackupIds : backups[b] \in Versions => backups'[b] = backups[b]
         /\ \A v \in Workers : v # w /\ Holding(v) => backups'[job[v].name] = Reserved
<1>1. backups' \in [BackupIds -> Versions \cup {None, Reserved}]
  BY DEF ReleaseName, FilesTypeOK
<1>2. ASSUME NEW b \in BackupIds, backups[b] \in Versions PROVE backups'[b] = backups[b]
  BY <1>2, BackupAssumption DEF ReleaseName
<1>3. ASSUME NEW v \in Workers, v # w, Holding(v)
      PROVE  backups'[job[v].name] = Reserved
  <2>1. job[v].name \in BackupIds /\ backups[job[v].name] = Reserved
    BY <1>3 DEF NamesHeld
  <2>2. job[v].name # job[w].name
    <3>1. job[w] \in FileJobs
      BY FileJob
    <3>2. CASE Holding(w)
      BY <1>3, <3>2 DEF NamesApart
    <3>3. CASE Done(w)
      BY <2>1, <3>3, BackupAssumption DEF NamesHeld
    <3>4. CASE job[w].stage \in {"begin", "staged"}
      BY <2>1, <3>4, BackupAssumption DEF NamesHeld
    <3> QED
      BY <3>1, <3>2, <3>3, <3>4 DEF FileJobs, Stages, Holding, Done
  <2> QED
    BY <2>1, <2>2 DEF ReleaseName
<1> QED
  BY <1>1, <1>2, <1>3

LEMMA EndBackupKeeps ==
  ASSUME BInv, DoorInv, NEW w \in Workers, EndBackup(w)
  PROVE  BInv'
<1>1. OnFile(w) /\ pc[w] = "operating" /\ ReleaseName(job[w])
      /\ job' = [job EXCEPT ![w] = NoJob]
  BY DEF EndBackup, LeaveOperation, OnFile, Doing
<1>2. UNCHANGED <<live, file, latest, pooled, forms, formEpoch, formIncarnation>>
  BY DEF EndBackup, LeaveOperation
<1>3. /\ backups' \in [BackupIds -> Versions \cup {None, Reserved}]
      /\ \A b \in BackupIds : backups[b] \in Versions => backups'[b] = backups[b]
      /\ \A v \in Workers : v # w /\ Holding(v) => backups'[job[v].name] = Reserved
  BY <1>1, ReleaseSpares DEF BInv
<1>4. /\ job'[w] = NoJob /\ ~OnFile(w)' /\ \A v \in Workers : v # w => job'[v] = job[v]
      /\ NamesApart' /\ PoolLive'
  BY <1>1, <1>2, JobEnds DEF BInv
<1>5. \A v \in Workers : OnFile(v)' => v # w /\ OnFile(v) /\ job'[v] = job[v]
  BY <1>4 DEF OnFile, Doing
<1>6. FilesTypeOK'
  BY <1>1, <1>2, <1>3 DEF BInv, FilesTypeOK
<1>7. JobsAdmitted'
  BY <1>4, BackupAssumption DEF BInv, JobsAdmitted, OnFile, Doing, NoJob, Closing, DoorInv,
     MaintenanceTypeOK, EndBackup, LeaveOperation, Notified
<1>8. NamesHeld'
  BY <1>3, <1>5 DEF BInv, NamesHeld, Holding, Done
<1>9. RestoreGoes'
  <2>1. ASSUME NEW v \in Workers, Doing(v, "restore")'
        PROVE  Doing(v, "restore") /\ job'[v] = job[v] /\ job[v].stage = "begin"
    BY <1>1, <1>5, <2>1, OperatesUndisturbed DEF BInv, OnFile, Doing
  <2> QED
    BY <1>2, <2>1 DEF BInv, RestoreGoes
<1>10. \A v \in Workers : Within(v, "restore", "replaced") => Within(v, "restore", "replaced")'
  BY <1>1, <1>4, OperatesUndisturbed DEF BInv, Within, Doing
<1>11. FormsBound'
  BY <1>2, <1>10 DEF BInv, FormsBound, FormIdentity
<1> QED
  BY <1>4, <1>6, <1>7, <1>8, <1>9, <1>11 DEF BInv

-----------------------------------------------------------------------------
(* A restore. *)

LEMMA BeginRestoreKeeps ==
  ASSUME BInv, DoorInv, NEW w \in Workers, NEW b \in BackupIds, BeginRestore(w, b)
  PROVE  BInv'
<1> DEFINE j == NewJob("restore", b)
<1>1. /\ job' = [job EXCEPT ![w] = j] /\ pc[w] = "outside" /\ ~OnFile(w)
      /\ pc' = [pc EXCEPT ![w] = WaitOrEnter]
  BY DEF BeginRestore, RequestRestore, BInv, JobsAdmitted, OnFile, Closing
<1>2. j \in FileJobs /\ j.op = "restore" /\ j.stage = "begin" /\ j.name = None
      /\ j.began = file
  BY DEF NewJob, FileJobs, Stages, BInv, FilesTypeOK
<1> HIDE DEF j
<1>3. job'[w] = j /\ \A v \in Workers : v # w => job'[v] = job[v]
  BY <1>1 DEF BInv, FilesTypeOK
<1>4. UNCHANGED <<live, file, latest, pooled, backups, forms, formEpoch, formIncarnation>>
  BY DEF BeginRestore, RequestRestore, files
<1>5. FilesTypeOK'
  BY <1>1, <1>2, <1>4 DEF BInv, FilesTypeOK
<1>6. JobsAdmitted'
  BY <1>1, <1>2, <1>3 DEF BInv, JobsAdmitted, Doing, Closing, WaitOrEnter, DoorInv,
     MaintenanceTypeOK
<1>7. NamesHeld' /\ NamesApart'
  BY <1>2, <1>3, <1>4 DEF BInv, NamesHeld, NamesApart, Holding, Done, OnFile, Doing
<1>8. RestoreGoes'
  BY <1>2, <1>3, <1>4 DEF BInv, RestoreGoes, Doing
<1>9. PoolLive'
  BY <1>2, <1>3, <1>4 DEF BInv, PoolLive, Within
<1>10. \A v \in Workers :
         Within(v, "restore", "replaced") => Within(v, "restore", "replaced")'
  BY <1>1, <1>3 DEF Within, OnFile, Doing
<1>11. FormsBound'
  BY <1>4, <1>10 DEF BInv, FormsBound, FormIdentity
<1> QED
  BY <1>5, <1>6, <1>7, <1>8, <1>9, <1>11 DEF BInv

LEMMA GetInKeeps ==
  ASSUME BInv, DoorInv, NEW w \in Workers, GetIn(w)
  PROVE  BInv'
<1>1. /\ pc[w] = "woken" /\ pc' = [pc EXCEPT ![w] = WaitOrEnter]
      /\ UNCHANGED <<live, file, latest, pooled, backups, forms, job, formEpoch,
                     formIncarnation>>
  BY DEF GetIn, Wake, files
<1>2. JobsAdmitted'
  BY <1>1 DEF BInv, JobsAdmitted, Doing, Closing, WaitOrEnter, DoorInv, MaintenanceTypeOK
<1>3. FilesTypeOK' /\ NamesHeld' /\ NamesApart' /\ RestoreGoes' /\ PoolLive' /\ FormsBound'
  BY <1>1 DEF BInv, FilesTypeOK, NamesHeld, NamesApart, RestoreGoes, PoolLive, FormsBound,
              FormIdentity, OnFile, Doing, Holding, Done, Within
<1> QED
  BY <1>2, <1>3 DEF BInv

\* A restore past the door has the whole state to itself: what is left to show of a step
\* of its job is about its own job only.
LEMMA RestoreAloneKeeps ==
  ASSUME BInv, DoorInv, NEW w \in Workers, pc[w] = "restoring", NEW j \in FileJobs,
         j.op = "restore", job' = [job EXCEPT ![w] = j],
         UNCHANGED <<pc, latest, backups, forms, formEpoch, formIncarnation>>,
         live' \in Versions, file' \in Files, pooled' \in {None, file'},
         j.stage = "closed" => pooled' = None,
         j.stage \in {"begin", "staged"} => j.name = None,
         j.stage \notin {"reserved", "copied"},
         j.stage \in {"published", "closed", "replaced"} =>
           j.name \in BackupIds /\ backups[j.name] \in Versions,
         j.stage # "begin" => j.staged \in Versions,
         j.stage # "replaced" => j.began = file',
         j.stage = "replaced" => file' = j.began + 1 /\ live' = j.staged,
         j.stage \in {"published", "closed"} => backups[j.name] = live',
         file' = file \/ j.stage = "replaced",
         ~Within(w, "restore", "replaced")
  PROVE  BInv'
<1>1. /\ Doing(w, "restore")
      /\ \A v \in Workers : v # w => ~OnFile(v) /\ ~Doing(v, "session")
  BY RestoresByItself DEF BInv
<1>2. /\ job'[w] = j /\ \A v \in Workers : v # w => job'[v] = job[v]
      /\ \A v \in Workers, op \in {"session", "backup", "restore"} :
           Doing(v, op)' <=> Doing(v, op)
      /\ job' \in [Workers -> {NoJob, SessionJob} \cup FileJobs]
  BY <1>1, JobGoesOn DEF BInv, OnFile, Doing
<1>3. \A v \in Workers : OnFile(v)' => v = w
  BY <1>1, <1>2 DEF OnFile
<1>4. FilesTypeOK'
  BY <1>2 DEF BInv, FilesTypeOK
<1>5. JobsAdmitted'
  BY <1>2, StaysAdmitted DEF BInv
<1>6. NamesHeld' /\ NamesApart'
  BY <1>2, <1>3 DEF NamesHeld, NamesApart, Holding, Done
<1>7. RestoreGoes'
  BY <1>2, <1>3 DEF RestoreGoes, OnFile
<1>8. PoolLive'
  BY <1>2, <1>3 DEF PoolLive, Within, OnFile, Doing
<1>9. FormsBound'
  <2>1. \A v \in Workers : ~Within(v, "restore", "replaced")
    BY <1>1 DEF Within, OnFile, Doing
  <2>2. j.stage = "replaced" => Within(w, "restore", "replaced")'
    BY <1>2 DEF Within
  <2> QED
    BY <2>1, <2>2 DEF BInv, FormsBound, FormIdentity
<1> QED
  BY <1>4, <1>5, <1>6, <1>7, <1>8, <1>9 DEF BInv

LEMMA StageCopyKeeps ==
  ASSUME BInv, DoorInv, NEW w \in Workers, StageCopy(w)
  PROVE  BInv'
<1> USE DEF mvars, files
<1>1. pc[w] = "restoring" /\ job[w].stage = "begin" /\ backups[job[w].from] \in Versions
  BY DEF StageCopy
<1>2. Doing(w, "restore") /\ job[w] \in FileJobs /\ job[w].name = None
  BY <1>1, RestoresByItself, FileJob DEF BInv, OnFile, NamesHeld
<1> DEFINE j == [job[w] EXCEPT !.stage = "staged", !.staged = backups[job[w].from],
                               !.began = file]
<1>3. j \in FileJobs /\ j.op = "restore" /\ j.stage = "staged" /\ j.name = None
      /\ j.staged \in Versions /\ j.began = file
  BY <1>1, <1>2 DEF FileJobs, Stages, Doing, BInv, FilesTypeOK
<1>4. job' = [job EXCEPT ![w] = j]
  BY DEF StageCopy
<1> HIDE DEF j
<1>5. UNCHANGED <<pc, live, file, latest, pooled, backups, forms, formEpoch, formIncarnation>>
  BY DEF StageCopy
<1> QED
  BY <1>1, <1>3, <1>4, <1>5, RestoreAloneKeeps DEF BInv, FilesTypeOK, PoolLive, Within

LEMMA DisposeKeeps ==
  ASSUME BInv, DoorInv, NEW w \in Workers, Dispose(w)
  PROVE  BInv'
<1> USE DEF mvars
<1>1. pc[w] = "restoring" /\ Doing(w, "restore") /\ job[w].stage = "published"
  BY DEF Dispose, SavedFirst, Within, Doing
<1>2. job[w] \in FileJobs /\ job[w].name \in BackupIds /\ backups[job[w].name] = live
      /\ job[w].staged \in Versions /\ job[w].began = file
  BY <1>1, FileJob DEF BInv, OnFile, NamesHeld, Done, RestoreGoes
<1> DEFINE j == [job[w] EXCEPT !.stage = "closed"]
<1>3. j \in FileJobs /\ j.op = "restore" /\ j.stage = "closed" /\ j.name = job[w].name
      /\ j.staged = job[w].staged /\ j.began = job[w].began
  BY <1>1, <1>2 DEF FileJobs, Stages, Doing
<1>4. job' = [job EXCEPT ![w] = j] /\ pooled' = None
  BY DEF Dispose, ClosePool
<1> HIDE DEF j
<1>5. UNCHANGED <<pc, live, file, latest, backups, forms, formEpoch, formIncarnation>>
  BY DEF Dispose
<1> QED
  BY <1>1, <1>2, <1>3, <1>4, <1>5, RestoreAloneKeeps DEF BInv, FilesTypeOK, Within

LEMMA ReplaceKeeps ==
  ASSUME BInv, DoorInv, NEW w \in Workers, Replace(w)
  PROVE  BInv'
<1> USE DEF mvars
<1>1. Doing(w, "restore") /\ job[w].stage = "closed" /\ pc[w] = "restoring"
      /\ Within(w, "restore", "closed")
  BY DEF Replace, Within, Doing, BInv, JobsAdmitted
<1>2. job[w] \in FileJobs /\ job[w].name \in BackupIds
      /\ backups[job[w].name] \in Versions /\ job[w].staged \in Versions
      /\ job[w].began = file /\ pooled = None
  BY <1>1, FileJob DEF BInv, OnFile, NamesHeld, Done, RestoreGoes, PoolLive
<1> DEFINE j == [job[w] EXCEPT !.stage = "replaced"]
<1>3. j \in FileJobs /\ j.op = "restore" /\ j.stage = "replaced" /\ j.name = job[w].name
      /\ j.staged = job[w].staged /\ j.began = job[w].began
  BY <1>1, <1>2 DEF FileJobs, Stages, Doing
<1>4. job' = [job EXCEPT ![w] = j] /\ file' = file + 1 /\ live' = job[w].staged
  BY DEF Replace
<1> HIDE DEF j
<1>5. file' \in Files
  BY BackupAssumption DEF Replace, Files, BInv, FilesTypeOK
<1>6. UNCHANGED <<pc, latest, pooled, backups, forms, formEpoch, formIncarnation>>
  BY DEF Replace
<1>7. ~Within(w, "restore", "replaced")
  BY <1>1 DEF Within
<1> QED
  BY <1>1, <1>2, <1>3, <1>4, <1>5, <1>6, <1>7, RestoreAloneKeeps

\* The end of a restore, good or bad: everybody is outside or waits for nothing, and the
\* forms issued so far have an older identity.
LEMMA AnswerKeeps ==
  ASSUME BInv, DoorInv, DoorInv', NEW w \in Workers, LeaveRestore(w),
         job' = [job EXCEPT ![w] = NoJob],
         UNCHANGED <<live, file, latest, pooled, forms>>,
         backups' \in [BackupIds -> Versions \cup {None, Reserved}]
  PROVE  BInv'
<1>1. pc[w] = "restoring" /\ formEpoch' = formEpoch + 1 /\ formIncarnation' = formIncarnation
  BY DEF LeaveRestore, NextFormEpoch
<1>2. /\ Doing(w, "restore")
      /\ \A v \in Workers : v # w => ~OnFile(v) /\ ~Doing(v, "session")
  BY <1>1, RestoresByItself DEF BInv
<1>3. /\ job'[w] = NoJob /\ ~OnFile(w)' /\ \A v \in Workers : v # w => job'[v] = job[v]
      /\ NamesApart' /\ PoolLive'
  BY JobEnds DEF BInv
<1>4. \A v \in Workers : ~OnFile(v)' /\ ~Doing(v, "session")'
  BY <1>2, <1>3, BackupAssumption DEF OnFile, Doing, NoJob
<1>5. FilesTypeOK'
  BY DEF BInv, FilesTypeOK
<1>6. JobsAdmitted'
  <2>1. \A v \in Workers : pc'[v] = "outside"
    BY <1>1, <1>2 DEF LeaveRestore, Notified, BInv, JobsAdmitted, OnFile, Closing, DoorInv,
       MaintenanceTypeOK, Places
  <2> QED
    BY <1>4, <2>1 DEF JobsAdmitted, OnFile, Closing
<1>7. NamesHeld' /\ RestoreGoes'
  BY <1>4 DEF NamesHeld, RestoreGoes, Holding, Done, OnFile
<1>8. FormsBound'
  BY <1>1 DEF BInv, FormsBound, FormIdentity, FilesTypeOK, Forms, DoorInv, MaintenanceTypeOK
<1> QED
  BY <1>3, <1>5, <1>6, <1>7, <1>8 DEF BInv

LEMMA EndRestoreKeeps ==
  ASSUME BInv, DoorInv, DoorInv', NEW w \in Workers, EndRestore(w)
  PROVE  BInv'
BY AnswerKeeps DEF EndRestore, Answer, files, BInv, FilesTypeOK

LEMMA FailRestoreKeeps ==
  ASSUME BInv, DoorInv, DoorInv', NEW w \in Workers, FailRestore(w)
  PROVE  BInv'
<1>1. OnFile(w) /\ ReleaseName(job[w])
  BY DEF FailRestore, OnFile, Doing
<1>2. backups' \in [BackupIds -> Versions \cup {None, Reserved}]
  BY <1>1, ReleaseSpares DEF BInv
<1> QED
  BY <1>2, AnswerKeeps DEF FailRestore, Answer

LEMMA CrashKeeps ==
  ASSUME BInv, DoorInv, Crash
  PROVE  BInv'
<1>1. \A v \in Workers : job'[v] = NoJob /\ pc'[v] = "outside"
  BY DEF Crash, NewProcess
<1>2. \A v \in Workers : ~OnFile(v)' /\ ~Doing(v, "session")' /\ ~Doing(v, "restore")'
  BY <1>1, BackupAssumption DEF OnFile, Doing, NoJob
<1>3. FilesTypeOK'
  BY DEF Crash, BInv, FilesTypeOK
<1>4. JobsAdmitted'
  BY <1>1, <1>2 DEF JobsAdmitted, Closing, OnFile
<1>5. NamesHeld' /\ NamesApart' /\ RestoreGoes'
  BY <1>2 DEF NamesHeld, NamesApart, RestoreGoes, Holding, Done
<1>6. PoolLive'
  BY <1>2 DEF PoolLive, Within, Doing, Crash
<1>7. FormsBound'
  BY DEF Crash, NewProcess, BInv, FormsBound, FormIdentity, FilesTypeOK, Forms, DoorInv,
         MaintenanceTypeOK
<1> QED
  BY <1>3, <1>4, <1>5, <1>6, <1>7 DEF BInv

-----------------------------------------------------------------------------
LEMMA NextBInv == BInv /\ DoorInv /\ DoorInv' /\ [Next]_vars => BInv'
<1> SUFFICES ASSUME BInv, DoorInv, DoorInv', [Next]_vars PROVE BInv'
  OBVIOUS
<1>1. ASSUME NEW w \in Workers, SessionStep(w) PROVE BInv'
  BY <1>1, BeginSessionKeeps, CommitEditKeeps, IssueFormKeeps, EndSessionKeeps
     DEF SessionStep
<1>2. ASSUME NEW w \in Workers, BackupStep(w) PROVE BInv'
  BY <1>2, BeginBackupKeeps, ReserveNameKeeps, SnapshotKeeps, PublishKeeps, EndBackupKeeps
     DEF BackupStep
<1>3. ASSUME NEW w \in Workers, RestoreStep(w) PROVE BInv'
  BY <1>3, BeginRestoreKeeps, GetInKeeps, StageCopyKeeps, DisposeKeeps, ReplaceKeeps,
     EndRestoreKeeps, FailRestoreKeeps DEF RestoreStep
<1>4. CASE Crash
  BY <1>4, CrashKeeps
<1>5. CASE UNCHANGED vars
  BY <1>5 DEF vars, files, mvars, BInv, FilesTypeOK, JobsAdmitted, NamesHeld, NamesApart,
              RestoreGoes, PoolLive, FormsBound, FormIdentity, OnFile, Doing, Holding, Done,
              Within
<1> QED
  BY <1>1, <1>2, <1>3, <1>4, <1>5 DEF Next

\* A worker's job is what the admission control let it in for, and what is known of its
\* files is so, in every reachable state (database.py:63, backups.py:238).
THEOREM Invariant == Spec => [](DoorInv /\ BInv)
<1>1. Init => DoorInv /\ BInv
  BY InitDoorInv, InitBInv DEF Init
<1>2. (DoorInv /\ BInv) /\ [Next]_vars => (DoorInv /\ BInv)'
  BY StepOfDoor, NextDoorInv, NextBInv
<1> QED
  BY <1>1, <1>2, PTL DEF Spec

\* No operation works on a connection to a replaced file, whatever else runs: the pool is
\* closed while nobody operates and opens the next connection on the new file
\* (backups.py:284).
THEOREM LiveFileReached == Spec => []SessionsReachLiveFile
<1>1. BInv => SessionsReachLiveFile
  BY DEF BInv, PoolLive, SessionsReachLiveFile
<1> QED
  BY <1>1, Invariant, PTL

\* A form that would be accepted names the live file, over any number of restores and
\* processes (database.py:105).
THEOREM FormsNameLiveFile == Spec => []AcceptedFormsNameLiveFile
<1>1. DoorInv /\ BInv => AcceptedFormsNameLiveFile
  <2> SUFFICES ASSUME BInv, At("restoring") = {}, NEW f \in forms,
                      f.identity = FormIdentity
               PROVE  f.file = file
    BY DEF AcceptedFormsNameLiveFile
  <2>1. \A w \in Workers : ~Within(w, "restore", "replaced")
    BY DEF BInv, JobsAdmitted, Doing, Within, At
  <2> QED
    BY <2>1 DEF BInv, FormsBound
<1> QED
  BY <1>1, Invariant, PTL

-----------------------------------------------------------------------------
\* Only Replace installs another file, and then the copy saved under the name of its job
\* is the database that goes.
LEMMA ReplacesSaved ==
  BInv /\ [Next]_vars => [file' # file => \E b \in BackupIds : backups[b] = live]_vars
<1> SUFFICES ASSUME BInv, Next, file' # file
             PROVE  \E b \in BackupIds : backups[b] = live
  BY DEF vars, files
<1>1. PICK w \in Workers : Replace(w)
  BY DEF Next, SessionStep, BeginSession, CommitEdit, IssueForm, EndSession, BackupStep,
         BeginBackup, ReserveName, Snapshot, Publish, EndBackup, RestoreStep, BeginRestore,
         GetIn, StageCopy, Dispose, EndRestore, FailRestore, Crash, files
<1>2. Doing(w, "restore") /\ job[w].stage = "closed"
  BY <1>1 DEF Replace, Within, Doing
<1> QED
  BY <1>2 DEF BInv, NamesHeld, Done, OnFile, RestoreGoes

\* What a restore replaces is in a complete backup, its last commit included
\* (backups.py:266).
THEOREM ReplacedSaved == Spec => ReplacedDatabaseIsSaved
BY ReplacesSaved, Invariant, PTL DEF Spec, ReplacedDatabaseIsSaved

LEMMA StepKeepsBackups ==
  BInv /\ [Next]_vars =>
    [\A b \in BackupIds : backups[b] \in Versions => backups'[b] = backups[b]]_vars
<1> SUFFICES ASSUME BInv, Next, NEW b \in BackupIds, backups[b] \in Versions
             PROVE  backups'[b] = backups[b]
  BY DEF vars, files
<1>1. CASE \E w \in Workers : ReserveName(w)
  BY <1>1, BackupAssumption DEF ReserveName, BInv, FilesTypeOK
<1>2. ASSUME NEW w \in Workers, Publish(w) PROVE backups'[b] = backups[b]
  <2>1. Holding(w)
    BY <1>2 DEF Publish, Holding, OnFile, Doing
  <2>2. backups[job[w].name] = Reserved
    BY <2>1 DEF BInv, NamesHeld
  <2> QED
    BY <1>2, <2>2, BackupAssumption DEF Publish, BInv, FilesTypeOK
<1>3. ASSUME NEW w \in Workers, EndBackup(w) \/ FailRestore(w)
      PROVE  backups'[b] = backups[b]
  BY <1>3, BackupAssumption DEF EndBackup, FailRestore, ReleaseName
<1>4. CASE UNCHANGED backups
  BY <1>4
<1> QED
  BY <1>1, <1>2, <1>3, <1>4
     DEF Next, SessionStep, BeginSession, CommitEdit, IssueForm, EndSession, BackupStep,
         BeginBackup, Snapshot, RestoreStep, BeginRestore, GetIn, StageCopy, Dispose,
         Replace, EndRestore, Crash, files

\* A complete backup is never overwritten or removed, however many threads reserve,
\* publish and give back names (backups.py:88).
THEOREM CompleteBackupsKept == Spec => BackupsKept
BY StepKeepsBackups, Invariant, PTL DEF Spec, BackupsKept

\* What an answer says of the file.
LEMMA StepAnswers ==
  BInv /\ DoorInv /\ [Next]_vars =>
    [reply' # reply =>
       CASE reply'.kind = "restored" -> file = reply'.began + 1 /\ live = reply'.asked
         [] reply'.kind = "failed" -> file = reply'.began
         [] OTHER -> TRUE]_vars
<1> SUFFICES ASSUME BInv, DoorInv, Next, reply' # reply
             PROVE  /\ reply'.kind = "restored" =>
                         file = reply'.began + 1 /\ live = reply'.asked
                    /\ reply'.kind = "failed" => file = reply'.began
  BY DEF vars
<1>1. PICK w \in Workers : EndRestore(w) \/ FailRestore(w)
  BY DEF Next, SessionStep, BeginSession, CommitEdit, IssueForm, EndSession, BackupStep,
         BeginBackup, ReserveName, Snapshot, Publish, EndBackup, RestoreStep, BeginRestore,
         GetIn, StageCopy, Dispose, Replace, Crash
<1>2. CASE EndRestore(w)
  BY <1>2 DEF EndRestore, Answer, Within, BInv, RestoreGoes, Doing
<1>3. CASE FailRestore(w)
  BY <1>3 DEF FailRestore, Answer, MayHaveReplaced, BInv, RestoreGoes, Doing
<1> QED
  BY <1>1, <1>2, <1>3

\* On success the file is the one that was asked for, on a plain failure the database is
\* the one from before, at whatever step the restore failed (backups.py:285).
THEOREM AnswersTrue == Spec => AnswersAreTrue
BY StepAnswers, Invariant, PTL DEF Spec, AnswersAreTrue

-----------------------------------------------------------------------------
(* Commits, backups and restores are atomic. *)

\* The door keeps its promise when sessions, backups and restores go through it
\* (database.py:59).
THEOREM RestoresImplementLock == Spec => ImplementsLock
<1>1. Init => MaintenanceInit
  BY DEF Init
<1> QED
  BY <1>1, Invariant, InitMaps, StepOfDoor, StepMaps, PTL DEF Spec, ImplementsLock, Lock!LockSpec

\* A session has the live file open.
SessionsConnected == \A w \in Workers : Doing(w, "session") => pooled = file

\* What a restore has staged is still what it was asked for.
StagedAsAsked ==
  \A w \in Workers :
    Doing(w, "restore") =>
      /\ job[w].from \in BackupIds
      /\ job[w].stage # "begin" => job[w].staged = backups[job[w].from]

\* No version is held anywhere that was never committed.
Committed(v, n) == v \in Versions => v <= n

VersionsCommitted ==
  /\ Committed(live, latest)
  /\ \A b \in BackupIds : Committed(backups[b], latest)
  /\ \A w \in Workers :
       OnFile(w) => Committed(job[w].staged, latest) /\ Committed(job[w].copy, latest)

AtomicInv == DoorInv /\ BInv /\ SessionsConnected /\ StagedAsAsked /\ VersionsCommitted

\* How the job of a worker that backs up or restores goes on.
JobContinues(v) ==
  LET j == job[v]  k == job'[v] IN
  /\ OnFile(v) /\ k.op = j.op /\ k.from = j.from
  /\ \/ k.staged = j.staged /\ (j.stage = "begin" => k.stage = "begin" \/ k.op = "backup")
     \/ /\ k.op = "restore" /\ j.stage = "begin"
        /\ backups[j.from] \in Versions /\ k.staged = backups[j.from]
  /\ k.copy \in {j.copy, live}

JobBegins(v) ==
  \/ job'[v] = NewJob("backup", None)
  \/ \E b \in BackupIds : job'[v] = NewJob("restore", b)

LEMMA JobGoes ==
  ASSUME BInv, [Next]_vars, NEW v \in Workers, OnFile(v)'
  PROVE  JobBegins(v) \/ JobContinues(v)
<1> USE DEF JobBegins, JobContinues
<1>1. job \in [Workers -> {NoJob, SessionJob} \cup FileJobs]
  BY DEF BInv, FilesTypeOK
<1>2. job'[v] \notin {NoJob, SessionJob}
  BY BackupAssumption DEF OnFile, Doing, NoJob, SessionJob
<1>3. CASE job'[v] = job[v]
  BY <1>3 DEF OnFile, Doing
<1>4. ASSUME NEW w \in Workers, SessionStep(w) PROVE job'[v] = job[v]
  BY <1>1, <1>2, <1>4 DEF SessionStep, BeginSession, CommitEdit, IssueForm, EndSession
<1>5. ASSUME NEW w \in Workers, BackupStep(w) PROVE JobBegins(v) \/ JobContinues(v)
  <2>1. CASE BeginBackup(w) \/ EndBackup(w)
    BY <1>1, <1>2, <1>3, <2>1 DEF BeginBackup, EndBackup
  <2>2. CASE ReserveName(w) \/ Snapshot(w) \/ Publish(w)
    <3>1. OnFile(w)
      BY <2>2 DEF ReserveName, ReadyToReserve, Within, Snapshot, Publish, OnFile, Doing
    <3>2. job[w] \in FileJobs
      BY <3>1, FileJob DEF BInv
    <3>3. CASE v = w
      <4>1. CASE ReserveName(w)
        BY <1>1, <3>1, <3>2, <3>3, <4>1 DEF ReserveName, ReadyToReserve, Within, FileJobs
      <4>2. CASE Snapshot(w) \/ Publish(w)
        BY <1>1, <3>1, <3>2, <3>3, <4>2 DEF Snapshot, Publish, FileJobs
      <4> QED
        BY <2>2, <4>1, <4>2
    <3>4. CASE v # w
      BY <1>1, <1>3, <2>2, <3>4 DEF ReserveName, Snapshot, Publish
    <3> QED
      BY <3>3, <3>4
  <2> QED
    BY <1>5, <2>1, <2>2 DEF BackupStep
<1>6. ASSUME NEW w \in Workers, RestoreStep(w) PROVE JobBegins(v) \/ JobContinues(v)
  <2>1. ASSUME NEW b \in BackupIds, BeginRestore(w, b)
        PROVE  JobBegins(v) \/ JobContinues(v)
    BY <1>1, <1>3, <2>1 DEF BeginRestore
  <2>2. CASE GetIn(w) \/ EndRestore(w) \/ FailRestore(w)
    BY <1>1, <1>2, <1>3, <2>2 DEF GetIn, EndRestore, FailRestore, Answer
  <2>3. CASE StageCopy(w) \/ Dispose(w) \/ Replace(w)
    <3>1. Doing(w, "restore") /\ OnFile(w)
      BY <2>3 DEF StageCopy, Dispose, SavedFirst, Replace, Within, OnFile, Doing, BInv,
                  JobsAdmitted, Closing
    <3>2. job[w] \in FileJobs
      BY <3>1, FileJob DEF BInv
    <3>3. CASE v = w
      BY <1>1, <2>3, <3>1, <3>2, <3>3
         DEF StageCopy, Dispose, SavedFirst, Replace, Within, FileJobs
    <3>4. CASE v # w
      BY <1>1, <1>3, <2>3, <3>4 DEF StageCopy, Dispose, Replace
    <3> QED
      BY <3>3, <3>4
  <2> QED
    BY <1>6, <2>1, <2>2, <2>3 DEF RestoreStep
<1>7. CASE Crash
  BY <1>2, <1>7 DEF Crash
<1> QED
  BY <1>3, <1>4, <1>5, <1>6, <1>7 DEF Next, vars

\* A new session takes a connection to the live file, and neither the pool nor the file
\* changes beside one except by taking another connection.
LEMMA SessionsStayConnected ==
  ASSUME DoorInv, BInv, SessionsConnected, Next
  PROVE  SessionsConnected'
<1> USE DEF BInv
<1>1. job \in [Workers -> {NoJob, SessionJob} \cup FileJobs]
  BY DEF FilesTypeOK
<1>2. ASSUME NEW w \in Workers, BeginSession(w) PROVE SessionsConnected'
  BY <1>2 DEF BeginSession, PoolLive, Connected, SessionsConnected
<1>3. ASSUME UNCHANGED file, pooled' \in {pooled, Connected},
             \A v \in Workers : Doing(v, "session")' => Doing(v, "session")
      PROVE  SessionsConnected'
  BY <1>3, BackupAssumption DEF SessionsConnected, Connected, PoolLive, FilesTypeOK
<1>4. ASSUME NEW w \in Workers, Dispose(w) \/ Replace(w) PROVE SessionsConnected'
  <2>1. Doing(w, "restore") /\ job[w].stage # "begin"
    BY <1>4 DEF Dispose, SavedFirst, Replace, Within, Doing
  <2>2. pc[w] = "restoring" /\ OnFile(w) /\ job[w] \in FileJobs
    BY <2>1, FileJob DEF JobsAdmitted, OnFile
  <2>3. \A v \in Workers : ~Doing(v, "session")
    BY <2>1, <2>2, RestoresByItself DEF Doing
  <2>4. \A v \in Workers : job'[v].op = job[v].op
    BY <1>1, <1>4, <2>2 DEF Dispose, Replace, FileJobs
  <2> QED
    BY <2>3, <2>4 DEF SessionsConnected, Doing
<1>5. ASSUME NEW v \in Workers, Doing(v, "session")',
             \A w \in Workers : ~BeginSession(w)
      PROVE  Doing(v, "session")
  <2>1. CASE OnFile(v)'
    BY <1>5, <2>1 DEF OnFile, Doing
  <2>2. ASSUME NEW w \in Workers, SessionStep(w) \/ EndBackup(w) \/ GetIn(w)
                                  \/ EndRestore(w) \/ FailRestore(w)
        PROVE  job'[v] \in {NoJob, job[v]}
    BY <1>1, <1>5, <2>2 DEF SessionStep, CommitEdit, IssueForm, EndSession, EndBackup, GetIn,
                            EndRestore, FailRestore, Answer
  <2>3. ASSUME NEW w \in Workers, BeginBackup(w) \/ \E b \in BackupIds : BeginRestore(w, b)
        PROVE  Doing(v, "session")
    BY <1>1, <1>5, <2>3 DEF BeginBackup, BeginRestore, NewJob, Doing
  <2>4. ASSUME NEW w \in Workers, ReserveName(w) \/ Snapshot(w) \/ Publish(w) \/ StageCopy(w)
                                  \/ Dispose(w) \/ Replace(w)
        PROVE  Doing(v, "session")
    <3>1. OnFile(w)
      BY <2>4 DEF ReserveName, ReadyToReserve, Snapshot, Publish, StageCopy, Dispose, SavedFirst,
                  Replace, Within, OnFile, Doing, JobsAdmitted, Closing
    <3>2. job[w] \in FileJobs
      BY <3>1, FileJob
    <3>3. job'[v].op = job[v].op
      BY <1>1, <2>4, <3>2 DEF ReserveName, Snapshot, Publish, StageCopy, Dispose, Replace,
                              FileJobs
    <3> QED
      BY <1>5, <3>3 DEF Doing
  <2>5. CASE Crash
    BY <1>5, <2>5, BackupAssumption DEF Crash, NoJob, Doing
  <2>6. NoJob.op # "session"
    BY BackupAssumption DEF NoJob
  <2> QED
    BY <1>5, <2>2, <2>3, <2>4, <2>5, <2>6
       DEF Next, SessionStep, BackupStep, RestoreStep, Doing
<1>6. CASE \E w \in Workers : BeginSession(w)
  BY <1>2, <1>6
<1>7. CASE \A w \in Workers : ~BeginSession(w)
  <2>1. \A v \in Workers : Doing(v, "session")' => Doing(v, "session")
    BY <1>5, <1>7
  <2>2. CASE \E w \in Workers : Dispose(w) \/ Replace(w)
    BY <1>4, <2>2
  <2>3. CASE Crash
    BY <2>3, BackupAssumption DEF Crash, NoJob, SessionsConnected, Doing
  <2>4. CASE UNCHANGED file /\ pooled' \in {pooled, Connected}
    BY <1>3, <2>1, <2>4
  <2> QED
    BY <1>7, <2>2, <2>3, <2>4
       DEF Next, SessionStep, CommitEdit, IssueForm, EndSession, BackupStep, BeginBackup,
           ReserveName, Snapshot, Publish, EndBackup, RestoreStep, BeginRestore, GetIn,
           StageCopy, EndRestore, FailRestore, files
<1> QED
  BY <1>6, <1>7

\* A job that begins has nothing yet.
LEMMA JobNew ==
  ASSUME NEW v \in Workers, JobBegins(v)
  PROVE  /\ job'[v].stage = "begin" /\ job'[v].staged = None /\ job'[v].copy = None
         /\ job'[v].op = "restore" => job'[v].from \in BackupIds
<1>1. CASE job'[v] = NewJob("backup", None)
  BY <1>1 DEF NewJob
<1>2. ASSUME NEW b \in BackupIds, job'[v] = NewJob("restore", b)
      PROVE  /\ job'[v].stage = "begin" /\ job'[v].staged = None /\ job'[v].copy = None
             /\ job'[v].from = b
  BY <1>2 DEF NewJob
<1> QED
  BY <1>1, <1>2 DEF JobBegins, NewJob

LEMMA StaysAsAsked ==
  ASSUME BInv, StagedAsAsked, [Next]_vars
  PROVE  StagedAsAsked'
<1> SUFFICES ASSUME NEW w \in Workers, Doing(w, "restore")'
             PROVE  /\ job'[w].from \in BackupIds
                    /\ job'[w].stage # "begin" => job'[w].staged = backups'[job'[w].from]
  BY DEF StagedAsAsked, Doing
<1>1. \A b \in BackupIds : backups[b] \in Versions => backups'[b] = backups[b]
  BY StepKeepsBackups, BackupAssumption DEF vars, files
<1>2. CASE JobBegins(w)
  BY <1>2, JobNew DEF Doing
<1>3. CASE JobContinues(w)
  <2>1. Doing(w, "restore") /\ job'[w].op = "restore"
    BY <1>3 DEF JobContinues, Doing
  <2>2. job[w].from \in BackupIds
        /\ (job[w].stage # "begin" => /\ job[w].staged = backups[job[w].from]
                                      /\ job[w].staged \in Versions)
    BY <2>1 DEF StagedAsAsked, BInv, RestoreGoes
  <2> QED
    BY <1>1, <1>3, <2>1, <2>2 DEF JobContinues
<1> QED
  BY <1>2, <1>3, JobGoes DEF OnFile

\* Versions are copied, never made up.
LEMMA StaysCommitted ==
  ASSUME BInv, StagedAsAsked, VersionsCommitted, [Next]_vars
  PROVE  VersionsCommitted'
<1>1. latest \in Nat /\ latest' \in Nat /\ latest <= latest' /\ Versions \subseteq Nat
  <2>1. latest \in Nat /\ Versions \subseteq Nat
    BY BackupAssumption DEF BInv, FilesTypeOK, Versions
  <2>2. latest' = latest \/ latest' = latest + 1
    BY DEF Next, SessionStep, BeginSession, CommitEdit, IssueForm, EndSession, BackupStep,
           BeginBackup, ReserveName, Snapshot, Publish, EndBackup, RestoreStep, BeginRestore,
           GetIn, StageCopy, Dispose, Replace, EndRestore, FailRestore, Crash, files, vars
  <2> QED
    BY <2>1, <2>2
<1>2. \A v : Committed(v, latest) => Committed(v, latest')
  BY <1>1 DEF Committed
<1>3. Committed(live', latest')
  <2>1. \/ live' = live \/ live' = latest'
        \/ \E w \in Workers : OnFile(w) /\ live' = job[w].staged
    BY DEF Next, SessionStep, BeginSession, CommitEdit, IssueForm, EndSession, BackupStep,
           BeginBackup, ReserveName, Snapshot, Publish, EndBackup, RestoreStep, BeginRestore,
           GetIn, StageCopy, Dispose, Replace, EndRestore, FailRestore, Crash, files, vars,
           Within, OnFile, Doing
  <2> QED
    BY <1>1, <1>2, <2>1 DEF VersionsCommitted, Committed
<1>4. ASSUME NEW b \in BackupIds PROVE Committed(backups'[b], latest')
  <2>1. \/ backups'[b] \in {backups[b], None, Reserved}
        \/ \E w \in Workers : OnFile(w) /\ backups'[b] = job[w].copy
    <3>1. backups \in [BackupIds -> Versions \cup {None, Reserved}]
      BY DEF BInv, FilesTypeOK
    <3>2. CASE \E w \in Workers : ReserveName(w) \/ Publish(w)
      BY <3>1, <3>2 DEF ReserveName, Publish, OnFile, Doing
    <3>3. CASE \E w \in Workers : EndBackup(w) \/ FailRestore(w)
      BY <3>1, <3>3 DEF EndBackup, FailRestore, ReleaseName
    <3>4. CASE UNCHANGED backups
      BY <3>4
    <3> QED
      BY <3>2, <3>3, <3>4
         DEF Next, SessionStep, BeginSession, CommitEdit, IssueForm, EndSession, BackupStep,
             BeginBackup, Snapshot, RestoreStep, BeginRestore, GetIn, StageCopy, Dispose,
             Replace, EndRestore, Crash, files, vars
  <2>2. Committed(None, latest') /\ Committed(Reserved, latest')
    BY BackupAssumption DEF Committed
  <2> QED
    BY <1>2, <2>1, <2>2 DEF VersionsCommitted
<1>5. ASSUME NEW w \in Workers, OnFile(w)'
      PROVE  Committed(job'[w].staged, latest') /\ Committed(job'[w].copy, latest')
  <2>1. CASE JobBegins(w)
    BY <2>1, JobNew, BackupAssumption DEF Committed
  <2>2. CASE JobContinues(w)
    <3>1. Committed(job[w].staged, latest) /\ Committed(job[w].copy, latest) /\ Committed(live, latest)
      BY <2>2 DEF JobContinues, VersionsCommitted
    <3>2. Committed(job'[w].copy, latest)
      BY <2>2, <3>1 DEF JobContinues
    <3>3. Committed(job'[w].staged, latest)
      <4>1. CASE job'[w].staged = job[w].staged
        BY <3>1, <4>1
      <4>2. CASE Doing(w, "restore") /\ job'[w].staged = backups[job[w].from]
        <5>1. job[w].from \in BackupIds
          BY <4>2 DEF StagedAsAsked
        <5> QED
          BY <4>2, <5>1 DEF VersionsCommitted
      <4> QED
        BY <2>2, <4>1, <4>2 DEF JobContinues, Doing
    <3> QED
      BY <1>2, <3>2, <3>3
  <2> QED
    BY <1>5, <2>1, <2>2, JobGoes
<1> QED
  BY <1>3, <1>4, <1>5 DEF VersionsCommitted

LEMMA AtomicInvHolds == Spec => []AtomicInv
<1>1. Init => AtomicInv
  <2> SUFFICES ASSUME Init PROVE AtomicInv
    OBVIOUS
  <2>1. DoorInv /\ BInv
    BY InitDoorInv, InitBInv DEF Init
  <2>2. \A w \in Workers : ~OnFile(w) /\ ~Doing(w, "session") /\ ~Doing(w, "restore")
    BY BackupAssumption DEF Init, NoJob, OnFile, Doing
  <2>3. Committed(live, latest) /\ \A b \in BackupIds : Committed(backups[b], latest)
    BY BackupAssumption DEF Init, Committed
  <2> QED
    BY <2>1, <2>2, <2>3 DEF AtomicInv, SessionsConnected, StagedAsAsked, VersionsCommitted
<1>2. AtomicInv /\ [Next]_vars => AtomicInv'
  <2> SUFFICES ASSUME AtomicInv, [Next]_vars PROVE AtomicInv'
    OBVIOUS
  <2>1. DoorInv' /\ BInv'
    BY StepOfDoor, NextDoorInv, NextBInv DEF AtomicInv
  <2>2. SessionsConnected'
    <3>1. CASE UNCHANGED vars
      BY <3>1 DEF vars, files, AtomicInv, SessionsConnected, Doing
    <3> QED
      BY <3>1, SessionsStayConnected DEF AtomicInv
  <2>3. StagedAsAsked' /\ VersionsCommitted'
    BY StaysAsAsked, StaysCommitted DEF AtomicInv
  <2> QED
    BY <2>1, <2>2, <2>3 DEF AtomicInv
<1> QED
  BY <1>1, <1>2, PTL DEF Spec

\* Names that are taken and given back are not seen.
LEMMA NamesUnseen ==
  ASSUME \A b \in BackupIds : backups'[b] = backups[b]
                              \/ {backups[b], backups'[b]} \subseteq {None, Reserved}
  PROVE  Complete' = Complete
BY DEF Complete

\* Every step that changes a file is a step of the promise.
LEMMA CommitEditMaps ==
  ASSUME AtomicInv, NEW w \in Workers, CommitEdit(w)
  PROVE  Atomic!Commit
<1>1. pooled = file
  BY DEF CommitEdit, AtomicInv, SessionsConnected, Doing
<1> QED
  BY <1>1 DEF CommitEdit, Atomic!Commit, Complete

LEMMA PublishMaps ==
  ASSUME AtomicInv, NEW w \in Workers, Publish(w)
  PROVE  \E b \in BackupIds : Atomic!BackUp(b)
<1> DEFINE b == job[w].name  v == job[w].copy
<1>1. OnFile(w) /\ Holding(w) /\ job[w].stage = "copied"
  BY DEF Publish, OnFile, Doing, Holding
<1>2. b \in BackupIds /\ backups[b] = Reserved /\ v \in Versions
  BY <1>1 DEF AtomicInv, BInv, NamesHeld
<1>3. v \in 0..latest
  BY <1>1, <1>2, BackupAssumption
     DEF AtomicInv, VersionsCommitted, Committed, Versions, BInv, FilesTypeOK
<1>4. backups' = [backups EXCEPT ![b] = v] /\ UNCHANGED <<live, latest, file>>
  BY DEF Publish
<1> HIDE DEF b, v
<1>5. backups'[b] = v /\ \A c \in BackupIds \ {b} : backups'[c] = backups[c]
  BY <1>2, <1>4 DEF AtomicInv, BInv, FilesTypeOK
<1>6. Complete[b] = None /\ Complete' = [Complete EXCEPT ![b] = v]
  <2>1. v # Reserved
    BY <1>2, BackupAssumption
  <2>2. Complete[b] = None /\ Complete \in [BackupIds -> {Complete[c] : c \in BackupIds}]
    BY <1>2 DEF Complete
  <2>3. \A c \in BackupIds : Complete'[c] = IF c = b THEN v ELSE Complete[c]
    BY <1>2, <1>5, <2>1 DEF Complete
  <2>4. Complete' = [c \in BackupIds |-> Complete'[c]]
    BY DEF Complete
  <2> QED
    BY <1>2, <2>2, <2>3, <2>4
<1> QED
  BY <1>2, <1>3, <1>4, <1>6 DEF Atomic!BackUp

LEMMA ReplaceMaps ==
  ASSUME AtomicInv, NEW w \in Workers, Replace(w)
  PROVE  \E b \in BackupIds : Atomic!Restore(b)
<1> DEFINE b == job[w].from  saved == job[w].name
<1>1. Doing(w, "restore") /\ job[w].stage = "closed"
  BY DEF Replace, Within, Doing
<1>2. b \in BackupIds /\ backups[b] = job[w].staged /\ job[w].staged \in Versions
  BY <1>1 DEF AtomicInv, StagedAsAsked, BInv, RestoreGoes
<1>3. saved \in BackupIds /\ backups[saved] = live /\ live \in Versions
  BY <1>1 DEF AtomicInv, BInv, NamesHeld, Done, OnFile, RestoreGoes, FilesTypeOK
<1>4. live' = job[w].staged /\ file' = file + 1 /\ UNCHANGED <<latest, backups>>
  BY DEF Replace
<1> HIDE DEF b, saved
<1>5. Complete[b] = job[w].staged /\ Complete[b] # None /\ Complete[saved] = live
  BY <1>2, <1>3, BackupAssumption DEF Complete
<1>6. Complete' = Complete
  BY <1>4 DEF Complete
<1> QED
  BY <1>2, <1>3, <1>4, <1>5, <1>6 DEF Atomic!Restore

LEMMA StepIsAtomic ==
  AtomicInv /\ [Next]_vars => [Atomic!AtomicNext]_(Atomic!atomicVars)
<1> SUFFICES ASSUME AtomicInv, [Next]_vars
             PROVE  Atomic!AtomicNext \/ UNCHANGED <<live, latest, file, Complete>>
  BY DEF Atomic!atomicVars
<1>1. ASSUME NEW w \in Workers, CommitEdit(w) \/ Publish(w) \/ Replace(w)
      PROVE  Atomic!AtomicNext
  BY <1>1, CommitEditMaps, PublishMaps, ReplaceMaps DEF Atomic!AtomicNext
<1>2. ASSUME NEW w \in Workers, ReserveName(w) \/ EndBackup(w) \/ FailRestore(w)
      PROVE  UNCHANGED <<live, latest, file, Complete>>
  <2>1. UNCHANGED <<live, latest, file>>
    BY <1>2 DEF ReserveName, EndBackup, FailRestore
  <2>2. backups \in [BackupIds -> Versions \cup {None, Reserved}]
    BY DEF AtomicInv, BInv, FilesTypeOK
  <2>3. Complete' = Complete
    BY <1>2, <2>2, NamesUnseen DEF ReserveName, EndBackup, FailRestore, ReleaseName
  <2> QED
    BY <2>1, <2>3
<1>3. CASE UNCHANGED files
  BY <1>3 DEF files, Complete
<1>4. ASSUME NEW w \in Workers, BeginSession(w) \/ Snapshot(w) \/ Dispose(w)
      PROVE  UNCHANGED <<live, latest, file, Complete>>
  BY <1>4 DEF BeginSession, Snapshot, Dispose, Complete
<1>5. CASE Crash
  BY <1>5 DEF Crash, Complete
<1> QED
  BY <1>1, <1>2, <1>3, <1>4, <1>5
     DEF Next, SessionStep, IssueForm, EndSession, BackupStep, BeginBackup, RestoreStep,
         BeginRestore, GetIn, StageCopy, EndRestore, vars

\* However many threads edit, back up, restore, fail and die, the files change as if every
\* commit, every backup and every restore were atomic (backups.py:265).
THEOREM RestoresAtomic == Spec => ImplementsAtomicRestore
<1>1. Init => Atomic!AtomicInit
  BY BackupAssumption DEF Init, Atomic!AtomicInit, Complete
<1> QED
  BY <1>1, AtomicInvHolds, StepIsAtomic, PTL DEF Spec, ImplementsAtomicRestore, Atomic!AtomicSpec

=============================================================================
