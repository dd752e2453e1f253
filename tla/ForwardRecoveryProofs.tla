-------------------------- MODULE ForwardRecoveryProofs --------------------------
(***************************************************************************)
(* Safety of the database admission and of the forward recovery on top of  *)
(* it, for any sets of processes and transactions and any bounds.  The     *)
(* first part is about Admission alone: its invariant says who can be      *)
(* where while the mutex is owned.  The second part shows that the         *)
(* recovery only moves through that admission, and its own invariant says  *)
(* what is on disk and what the running command knows of it.               *)
(***************************************************************************)
EXTENDS ForwardRecovery, TLAPS

Runtime == {"admitted", "closing"}

\* Whoever is in a context of the admission owns the mutex.
InsideOwns == \A p \in Procs : stage[p] # "out" => mutex = p

\* Only a runtime that has passed the fence lends its admission.
RuntimeLends == \A p \in Procs : borrowers[p] > 0 => stage[p] \in Runtime

\* A runtime that has passed the fence sees none appear.
RuntimeNoFence == \A p \in Procs : stage[p] \in Runtime => fence = None

AdmissionInv == AdmissionTypeOK /\ InsideOwns /\ RuntimeLends /\ RuntimeNoFence

\* The invariant holds before any process runs.
LEMMA InitAdmissionInv == AdmissionInit => AdmissionInv
  BY AdmissionAssumption
     DEF AdmissionInit, AdmissionInv, AdmissionTypeOK, InsideOwns, RuntimeLends, RuntimeNoFence,
         ProcStages, Runtime

\* Every way out of the admission, a refusal and a death included, keeps the invariant.
LEMMA LeaveAdmissionInv ==
  ASSUME AdmissionInv, NEW p \in Procs, stage[p] # "out", LeaveMutex(p), UNCHANGED fence
  PROVE  AdmissionInv'
<1>1. mutex = p /\ mutex' = None
  BY DEF AdmissionInv, InsideOwns, LeaveMutex
<1>2. AdmissionTypeOK'
  BY <1>1 DEF AdmissionInv, AdmissionTypeOK, LeaveMutex, ProcStages
<1>3. InsideOwns'
  BY <1>1 DEF AdmissionInv, AdmissionTypeOK, InsideOwns, LeaveMutex
<1>4. RuntimeLends'
  BY <1>1, AdmissionAssumption
     DEF AdmissionInv, AdmissionTypeOK, InsideOwns, RuntimeLends, LeaveMutex, Runtime
<1>5. RuntimeNoFence'
  BY <1>1 DEF AdmissionInv, AdmissionTypeOK, RuntimeNoFence, LeaveMutex, Runtime
<1>6. QED
  BY <1>2, <1>3, <1>4, <1>5 DEF AdmissionInv

\* Entering the mutex, as a runtime or as a recovery, keeps the invariant.
LEMMA OwnAdmissionInv ==
  ASSUME AdmissionInv, NEW p \in Procs, NEW next \in {"locking", "recovery"}, OwnMutex(p, next)
  PROVE  AdmissionInv'
<1>1. \A q \in Procs : stage[q] = "out"
  BY AdmissionAssumption DEF AdmissionInv, InsideOwns, OwnMutex
<1>2. AdmissionTypeOK'
  BY DEF AdmissionInv, AdmissionTypeOK, OwnMutex, ProcStages
<1>3. InsideOwns'
  BY <1>1 DEF AdmissionInv, AdmissionTypeOK, InsideOwns, OwnMutex
<1>4. RuntimeLends'
  BY <1>1 DEF AdmissionInv, AdmissionTypeOK, RuntimeLends, OwnMutex, Runtime
<1>5. RuntimeNoFence'
  BY <1>1 DEF AdmissionInv, AdmissionTypeOK, RuntimeNoFence, OwnMutex, Runtime
<1>6. QED
  BY <1>2, <1>3, <1>4, <1>5 DEF AdmissionInv

\* A recovery that owns the mutex may do what it likes to the fence: no runtime is in.
LEMMA FenceAdmissionInv ==
  ASSUME AdmissionInv, NEW p \in Procs, stage[p] \in {"recovery", "fencing"},
         CreateFence(p) \/ (\E t \in Transactions : WriteFence(p, t)) \/ RetireFence(p)
  PROVE  AdmissionInv'
<1>1. mutex = p
  BY DEF AdmissionInv, InsideOwns
<1>2. \A q \in Procs : stage[q] \notin Runtime
  BY <1>1 DEF AdmissionInv, InsideOwns, Runtime
<1>3. \A q \in Procs : stage'[q] \notin Runtime /\ (stage'[q] # "out" => q = p)
  BY <1>1, <1>2 DEF AdmissionInv, AdmissionTypeOK, InsideOwns, CreateFence, WriteFence, RetireFence,
                    Runtime
<1>4. mutex' = mutex /\ borrowers' = borrowers
  BY DEF CreateFence, WriteFence, RetireFence
<1>5. stage' \in [Procs -> ProcStages] /\ fence' \in Transactions \cup {Torn, None}
  BY DEF AdmissionInv, AdmissionTypeOK, CreateFence, WriteFence, RetireFence, ProcStages
<1>6. AdmissionTypeOK'
  BY <1>4, <1>5 DEF AdmissionInv, AdmissionTypeOK
<1>7. InsideOwns' /\ RuntimeNoFence'
  BY <1>1, <1>3, <1>4 DEF InsideOwns, RuntimeNoFence
<1>8. RuntimeLends'
  BY <1>2, <1>4 DEF AdmissionInv, RuntimeLends
<1>9. QED
  BY <1>6, <1>7, <1>8 DEF AdmissionInv

\* The remaining steps of the runtime keep the invariant.
LEMMA RuntimeAdmissionInv ==
  ASSUME AdmissionInv, NEW p \in Procs,
         Admit(p) \/ Borrow(p) \/ GiveBack(p) \/ Close(p) \/ Closed(p)
  PROVE  AdmissionInv'
<1>1. CASE Admit(p)
  BY <1>1 DEF AdmissionInv, AdmissionTypeOK, InsideOwns, RuntimeLends, RuntimeNoFence, Admit,
              Unfenced, ProcStages, Runtime
<1>2. CASE Borrow(p)
  BY <1>2 DEF AdmissionInv, AdmissionTypeOK, InsideOwns, RuntimeLends, RuntimeNoFence, Borrow, Runtime
<1>3. CASE GiveBack(p)
  BY <1>3 DEF AdmissionInv, AdmissionTypeOK, InsideOwns, RuntimeLends, RuntimeNoFence, GiveBack
<1>4. CASE Close(p)
  BY <1>4 DEF AdmissionInv, AdmissionTypeOK, InsideOwns, RuntimeLends, RuntimeNoFence, Close,
              ProcStages, Runtime
<1>5. CASE Closed(p)
  <2>1. mutex = p /\ borrowers[p] = 0
    BY <1>5 DEF AdmissionInv, InsideOwns, Closed, BorrowersGone
  <2>2. AdmissionTypeOK'
    BY <1>5 DEF AdmissionInv, AdmissionTypeOK, Closed, ProcStages
  <2>3. InsideOwns'
    BY <1>5, <2>1 DEF AdmissionInv, AdmissionTypeOK, InsideOwns, Closed
  <2>4. RuntimeLends'
    BY <1>5, <2>1 DEF AdmissionInv, AdmissionTypeOK, RuntimeLends, Closed
  <2>5. RuntimeNoFence'
    BY <1>5 DEF AdmissionInv, AdmissionTypeOK, RuntimeNoFence, Closed, Runtime
  <2>6. QED
    BY <2>2, <2>3, <2>4, <2>5 DEF AdmissionInv
<1>6. QED
  BY <1>1, <1>2, <1>3, <1>4, <1>5

\* The invariant is inductive.
LEMMA NextAdmissionInv == AdmissionInv /\ [AdmissionNext]_avars => AdmissionInv'
<1> SUFFICES ASSUME AdmissionInv, [AdmissionNext]_avars PROVE AdmissionInv'
  OBVIOUS
<1>1. CASE UNCHANGED avars
  BY <1>1 DEF avars, AdmissionInv, AdmissionTypeOK, InsideOwns, RuntimeLends, RuntimeNoFence
<1>2. CASE AdmissionNext
  <2> PICK p \in Procs :
        \/ Start(p) \/ Admit(p) \/ Refuse(p) \/ Borrow(p) \/ GiveBack(p)
        \/ Close(p) \/ Closed(p)
        \/ StartRecovery(p) \/ (LeaveRecovery(p) /\ UNCHANGED fence)
        \/ CreateFence(p) \/ (\E t \in Transactions : WriteFence(p, t)) \/ RetireFence(p)
        \/ Die(p)
    BY <1>2 DEF AdmissionNext
  <2>1. CASE Start(p) \/ StartRecovery(p)
    BY <2>1, OwnAdmissionInv DEF Start, StartRecovery
  <2>2. CASE Refuse(p) \/ (LeaveRecovery(p) /\ UNCHANGED fence) \/ Die(p)
    BY <2>2, LeaveAdmissionInv DEF Refuse, LeaveRecovery, Die
  <2>3. CASE CreateFence(p) \/ (\E t \in Transactions : WriteFence(p, t)) \/ RetireFence(p)
    <3>1. stage[p] \in {"recovery", "fencing"}
      BY <2>3 DEF CreateFence, WriteFence, RetireFence
    <3>2. QED
      BY <2>3, <3>1, FenceAdmissionInv
  <2>4. CASE Admit(p) \/ Borrow(p) \/ GiveBack(p) \/ Close(p) \/ Closed(p)
    BY <2>4, RuntimeAdmissionInv
  <2>5. QED
    BY <2>1, <2>2, <2>3, <2>4
<1>3. QED
  BY <1>1, <1>2

\* The invariant holds in every reachable state.
THEOREM AdmissionInvHolds == AdmissionSpec => []AdmissionInv
  BY InitAdmissionInv, NextAdmissionInv, PTL DEF AdmissionSpec

\* No counter of borrowers goes below zero (database_admission.py:111).
THEOREM AdmissionTypeCorrect == AdmissionSpec => []AdmissionTypeOK
<1>1. AdmissionInv => AdmissionTypeOK
  BY DEF AdmissionInv
<1>2. QED
  BY AdmissionInvHolds, <1>1, PTL

\* For any number of processes and transactions, a runtime never runs beside a recovery
\* or behind a fence, torn ones included (database_admission.py:49).
THEOREM RuntimesUnfenced == AdmissionSpec => []RuntimeUnfenced
<1>1. AdmissionInv => RuntimeUnfenced
  BY DEF AdmissionInv, InsideOwns, RuntimeNoFence, RuntimeUnfenced, Runtime
<1>2. QED
  BY AdmissionInvHolds, <1>1, PTL

\* For any number of threads, none opens a connection without its process owning the
\* mutex (database_admission.py:116).
THEOREM BorrowersAreCovered == AdmissionSpec => []BorrowersCovered
<1>1. AdmissionInv => BorrowersCovered
  BY DEF AdmissionInv, InsideOwns, RuntimeLends, BorrowersCovered, Runtime
<1>2. QED
  BY AdmissionInvHolds, <1>1, PTL


-----------------------------------------------------------------------------
(* The forward recovery: its invariant. *)

\* Identities and contents stay within their bounds, and records are what they record.
RecoveryTypeOK ==
  /\ database \in DbFiles \cup {None}
  /\ journal \in BOOLEAN
  /\ version \in 1..MaxVersion /\ created \in 0..MaxFiles
  /\ plan \in [Transactions -> DbFiles \cup {None}]
  /\ incident \in [Transactions -> DbFiles \cup {None}]
  /\ attempts \in [Transactions -> SUBSET DbFiles]
  /\ staged \in [Transactions -> DbFiles \cup {Torn, None}]
  /\ installed \in [Transactions -> DbFiles \cup {Torn, None}]
  /\ accepted \in [Transactions -> DbFiles \cup {Torn, None}]
  /\ completed \in [Transactions -> BOOLEAN]
  /\ run \in Commands \cup {None}

\* A command runs exactly while a process is in a recovery.
RunInside ==
  /\ run # None => mutex \in Procs
  /\ \A p \in Procs : stage[p] \in {"recovery", "fencing"} <=> run # None /\ mutex = p

\* A file identity is the production path's or one stage's, never two of them.
FilesApart ==
  /\ database # None => database.id <= created
  /\ \A t \in Transactions : \A f \in attempts[t] :
       /\ f.id <= created
       /\ database # None => database.id # f.id
       /\ \A u \in Transactions : \A g \in attempts[u] : f.id = g.id => t = u /\ f = g

\* No unfinished stage is at the production path, and a journal lies beside a database.
DatabaseWhole ==
  /\ database # None => database.data # Partial
  /\ journal => database # None

\* What was moved away is the incident database of a transaction that is fenced or done.
IncidentsTrue ==
  \A t \in Transactions :
    incident[t] # None => incident[t] = plan[t] /\ (fence = t \/ completed[t])

\* A fenced transaction has its incident database.
FencedHasIncident ==
  \A t \in Transactions :
    fence = t => plan[t] # None /\ (database = plan[t] \/ incident[t] = plan[t])

\* Complete records agree, and a sealed stage is a migrated one.
RecordsAgree ==
  \A t \in Transactions :
    /\ staged[t] \in DbFiles => staged[t].data = Restored
    /\ installed[t] \in DbFiles => installed[t] = staged[t]
    /\ accepted[t] \in DbFiles => accepted[t] = staged[t]
    /\ completed[t] => accepted[t] \in DbFiles

\* What a running recover knows at each of its steps.
RecoverAt(t, step, file) ==
  /\ step \in {"entered", "fencing", "fenced", "building", "built", "sealing", "staged",
              "moved", "installed", "recording", "recorded"}
  /\ step = "fencing" => fence \in {None, Torn}
  /\ step \notin {"entered", "fencing"} => fence = t
  /\ step \in {"fencing", "fenced", "building", "built", "sealing", "staged"} =>
       OldUnchanged(t) /\ plan[t] # None
  /\ step \in {"building", "built", "sealing"} => incident[t] = None /\ file \in attempts[t]
  /\ step \in {"building", "built"} => staged[t] = None
  /\ step \in {"built", "sealing"} => file.data = Restored
  /\ step = "sealing" => staged[t] = Torn
  /\ step \in {"staged", "moved"} => file \in DbFiles /\ file = staged[t] /\ SealedAt(t)
  /\ step = "moved" => incident[t] # None

RecoverKnows ==
  run # None /\ run.cmd = "recover" => RecoverAt(run.tx, run.step, run.stage)

\* What a running finish knows at each of its steps.
FinishAt(t, step) ==
  /\ step \in {"entered", "checked", "accepting", "accepted", "recorded"}
  /\ step \in {"checked", "accepting", "accepted"} => fence = t /\ installed[t] \in DbFiles
  /\ step = "accepted" => accepted[t] = installed[t]

FinishKnows == run # None /\ run.cmd = "finish" => FinishAt(run.tx, run.step)

\* A qualify does all its work in one step.
QualifyKnows == run # None /\ run.cmd = "qualify" => run.step = "entered"

RecoveryInv ==
  /\ RecoveryTypeOK /\ RunInside /\ FilesApart /\ DatabaseWhole /\ IncidentsTrue
  /\ FencedHasIncident /\ RecordsAgree /\ RecoverKnows /\ FinishKnows /\ QualifyKnows

-----------------------------------------------------------------------------
(* The recovery moves through the admission. *)

\* A command runs in the one process that is inside.
LEMMA CommandInside ==
  ASSUME AdmissionInv, RecoveryInv, NEW p \in Procs, stage[p] \in {"recovery", "fencing"}
  PROVE  /\ mutex = p /\ run # None /\ run \in Commands /\ run.tx \in Transactions
         /\ \A q \in Procs : stage[q] # "out" => q = p
  BY DEF AdmissionInv, InsideOwns, RecoveryInv, RecoveryTypeOK, RunInside, Commands

\* While a runtime is inside, or nobody, no command runs and no fence is opened.
LEMMA NoCommand ==
  ASSUME AdmissionInv, RecoveryInv,
         mutex = None \/ \E p \in Procs : stage[p] \notin {"out", "recovery", "fencing"}
  PROVE  run = None
  BY AdmissionAssumption DEF AdmissionInv, InsideOwns, RecoveryInv, RunInside

\* Every step of the recovery is a step of the admission or leaves it alone.
LEMMA StepsAreAdmitted ==
  ASSUME AdmissionInv, RecoveryInv, [Next]_vars
  PROVE  [AdmissionNext]_avars
<1>1. CASE UNCHANGED vars
  BY <1>1 DEF vars, avars
<1>2. CASE Next
  <2> PICK p \in Procs : RuntimeStep(p) \/ CallStep(p) \/ CommandStep(p) \/ CommandDies(p)
    BY <1>2 DEF Next
  <2>1. CASE RuntimeStep(p)
    BY <2>1 DEF RuntimeStep, StartRuntime, AdmitRuntime, RefuseRuntime, CreateDatabase,
                BeginWrite, CommitWrite, StopRuntime, RuntimeDies, AdmissionNext, Die
  <2>2. CASE CallStep(p)
    BY <2>2 DEF CallStep, Call, AdmissionNext
  <2>3. CASE CommandDies(p)
    BY <2>3 DEF CommandDies, AdmissionNext
  <2>4. CASE CommandStep(p)
    <3>1. CASE FillFence(p)
      <4>1. run.tx \in Transactions
        BY <3>1, CommandInside DEF FillFence, Doing
      <4>2. QED
        BY <3>1, <4>1 DEF FillFence, AdmissionNext
    <3>2. CASE Qualify(p) \/ RecoverReturns(p) \/ FinishReturns(p) \/ CommandRefuses(p)
      BY <3>2 DEF Qualify, RecoverReturns, FinishReturns, CommandRefuses, Leave, AdmissionNext
    <3>3. CASE OpenFence(p) \/ Release(p)
      BY <3>3 DEF OpenFence, Release, AdmissionNext
    <3>4. CASE RecoverChecked(p) \/ FindSealed(p) \/ IncidentMoved(p) \/ StageIsInstalled(p)
               \/ InstalledRecorded(p) \/ FinishChecked(p) \/ AlreadyAccepted(p)
      BY <3>4 DEF RecoverChecked, FindSealed, IncidentMoved, StageIsInstalled,
                  InstalledRecorded, FinishChecked, AlreadyAccepted, Check
    <3>5. CASE ReserveStage(p) \/ MigrateStage(p) \/ MoveIncident(p) \/ InstallStage(p)
      BY <3>5 DEF ReserveStage, MigrateStage, MoveIncident, InstallStage
    <3>6. CASE OpenStaged(p) \/ FillStaged(p) \/ OpenInstalled(p) \/ FillInstalled(p)
               \/ OpenAccepted(p) \/ FillAccepted(p)
      BY <3>6 DEF OpenStaged, FillStaged, OpenInstalled, FillInstalled, OpenAccepted,
                  FillAccepted
    <3>7. QED
      BY <2>4, <3>1, <3>2, <3>3, <3>4, <3>5, <3>6 DEF CommandStep
  <2>5. QED
    BY <2>1, <2>2, <2>3, <2>4
<1>3. QED
  BY <1>1, <1>2

-----------------------------------------------------------------------------
(* Frames. *)

\* The invariant holds before anything has run.
LEMMA InitRecoveryInv == Init => RecoveryInv
<1> SUFFICES ASSUME Init PROVE RecoveryInv
  OBVIOUS
<1>1. RecoveryTypeOK
  <2>1. version \in 1..MaxVersion /\ created \in 0..MaxFiles
    BY RecoveryAssumption DEF Init, Restored
  <2>2. journal \in BOOLEAN /\ completed \in [Transactions -> BOOLEAN]
    BY Zenon DEF Init
  <2>3. /\ database \in DbFiles \cup {None} /\ run \in Commands \cup {None}
        /\ plan \in [Transactions -> DbFiles \cup {None}]
        /\ incident \in [Transactions -> DbFiles \cup {None}]
        /\ attempts \in [Transactions -> SUBSET DbFiles]
    BY DEF Init
  <2>4. /\ staged \in [Transactions -> DbFiles \cup {Torn, None}]
        /\ installed \in [Transactions -> DbFiles \cup {Torn, None}]
        /\ accepted \in [Transactions -> DbFiles \cup {Torn, None}]
    BY DEF Init
  <2>5. QED
    BY <2>1, <2>2, <2>3, <2>4 DEF RecoveryTypeOK
<1>2. RunInside
  BY DEF Init, AdmissionInit, RunInside
<1>3. FilesApart /\ DatabaseWhole /\ IncidentsTrue /\ FencedHasIncident
  BY AdmissionAssumption
     DEF Init, AdmissionInit, FilesApart, DatabaseWhole, IncidentsTrue, FencedHasIncident
<1>4. RecordsAgree /\ RecoverKnows /\ FinishKnows /\ QualifyKnows
  BY RecoveryAssumption DEF Init, RecordsAgree, RecoverKnows, FinishKnows, QualifyKnows
<1>5. QED
  BY <1>1, <1>2, <1>3, <1>4 DEF RecoveryInv

\* A step that writes no file says nothing new of the files.
LEMMA DiskKept ==
  ASSUME RecoveryInv, UNCHANGED <<disk, fence>>
  PROVE  FilesApart' /\ DatabaseWhole' /\ IncidentsTrue' /\ FencedHasIncident' /\ RecordsAgree'
<1>1. UNCHANGED <<database, journal, created, plan, incident, attempts>>
  BY DEF disk, work
<1>2. UNCHANGED <<staged, installed, accepted, completed, fence>>
  BY DEF disk, work
<1>3. FilesApart' /\ DatabaseWhole'
  BY <1>1 DEF RecoveryInv, FilesApart, DatabaseWhole
<1>4. IncidentsTrue' /\ FencedHasIncident'
  BY <1>1, <1>2 DEF RecoveryInv, IncidentsTrue, FencedHasIncident
<1>5. RecordsAgree'
  BY <1>2 DEF RecoveryInv, RecordsAgree
<1>6. QED
  BY <1>3, <1>4, <1>5

\* A step that writes no file keeps the types of the files.
LEMMA DiskTypeKept ==
  ASSUME RecoveryInv, UNCHANGED disk, run' \in Commands \cup {None}
  PROVE  RecoveryTypeOK'
  BY DEF RecoveryInv, RecoveryTypeOK, disk, work

\* Nothing is known of a command that does not run.
LEMMA NoneKnows ==
  ASSUME run' = None
  PROVE  RecoverKnows' /\ FinishKnows' /\ QualifyKnows'
  BY DEF RecoverKnows, FinishKnows, QualifyKnows

\* A command that goes on is the same command.
LEMMA RunGoes ==
  ASSUME run \in Commands, NEW s \in Steps, Goto(s)
  PROVE  /\ run' \in Commands /\ run' # None
         /\ run'.cmd = run.cmd /\ run'.tx = run.tx /\ run'.step = s /\ run'.stage = run.stage
  BY RecoveryAssumption DEF Goto, Commands

\* A command that goes on stays in its process.
LEMMA StaysInside ==
  ASSUME RecoveryInv, NEW p \in Procs, stage[p] \in {"recovery", "fencing"},
         run' # None, mutex' = mutex,
         \A q \in Procs : stage'[q] = stage[q] \/ (q = p /\ stage'[p] \in {"recovery", "fencing"})
  PROVE  RunInside'
  BY DEF RecoveryInv, RunInside

\* A process that leaves takes its command with it.
LEMMA LeavesInside ==
  ASSUME AdmissionInv, RecoveryInv, NEW p \in Procs, stage[p] # "out", LeaveMutex(p), run' = None
  PROVE  RunInside'
  BY DEF AdmissionInv, AdmissionTypeOK, InsideOwns, RecoveryInv, RunInside, LeaveMutex

-----------------------------------------------------------------------------
(* Steps that write no database file. *)

\* Entering as a runtime, being admitted or refused and dying keep the invariant.
LEMMA DoorInv ==
  ASSUME AdmissionInv, RecoveryInv, NEW p \in Procs,
         StartRuntime(p) \/ AdmitRuntime(p) \/ RefuseRuntime(p) \/ StopRuntime(p)
           \/ RuntimeDies(p)
  PROVE  RecoveryInv'
<1>1. run = None /\ run' = None
  BY NoCommand DEF StartRuntime, AdmitRuntime, RefuseRuntime, StopRuntime, RuntimeDies, Start,
                   OwnMutex, Admit, Refuse
<1>2. UNCHANGED <<disk, fence>>
  BY DEF StartRuntime, AdmitRuntime, RefuseRuntime, StopRuntime, RuntimeDies, Start, OwnMutex,
         Admit, Refuse, Die
<1>3. RunInside'
  <2>1. CASE StartRuntime(p)
    BY <1>1, <2>1 DEF AdmissionInv, AdmissionTypeOK, RecoveryInv, RunInside, StartRuntime,
                      Start, OwnMutex
  <2>2. CASE AdmitRuntime(p)
    BY <1>1, <2>2 DEF AdmissionInv, AdmissionTypeOK, RecoveryInv, RunInside, AdmitRuntime,
                      Admit
  <2>3. CASE RefuseRuntime(p) \/ StopRuntime(p) \/ RuntimeDies(p)
    BY <1>1, <2>3, LeavesInside DEF RefuseRuntime, StopRuntime, RuntimeDies, Refuse, Die
  <2>4. QED
    BY <2>1, <2>2, <2>3
<1>4. QED
  BY <1>1, <1>2, <1>3, DiskKept, DiskTypeKept, NoneKnows DEF RecoveryInv

\* Calling a command keeps the invariant: it has looked at nothing yet.
LEMMA CallInv ==
  ASSUME AdmissionInv, RecoveryInv, NEW p \in Procs, CallStep(p)
  PROVE  RecoveryInv'
<1> PICK t \in Transactions, cmd \in {"qualify", "recover", "finish"}, resume \in BOOLEAN :
      Call(p, cmd, t, resume)
  BY DEF CallStep
<1>1. /\ run' \in Commands /\ run' # None /\ run'.step = "entered"
  BY RecoveryAssumption DEF Call, Commands, Steps
<1>2. UNCHANGED <<disk, fence>>
  BY DEF Call, StartRecovery, OwnMutex
<1>3. RunInside'
  BY <1>1, NoCommand
     DEF Call, StartRecovery, OwnMutex, AdmissionInv, AdmissionTypeOK, InsideOwns, RecoveryInv,
         RunInside
<1>4. RecoverKnows' /\ FinishKnows' /\ QualifyKnows'
  BY <1>1 DEF RecoverKnows, RecoverAt, FinishKnows, FinishAt, QualifyKnows
<1>5. QED
  BY <1>1, <1>2, <1>3, <1>4, DiskKept, DiskTypeKept DEF RecoveryInv

\* Whatever ends a command without a write of its own keeps the invariant.
LEMMA EndInv ==
  ASSUME AdmissionInv, RecoveryInv, NEW p \in Procs,
         RecoverReturns(p) \/ FinishReturns(p) \/ CommandRefuses(p) \/ CommandDies(p)
  PROVE  RecoveryInv'
<1>1. /\ stage[p] \in {"recovery", "fencing"} /\ LeaveMutex(p)
      /\ run' = None /\ UNCHANGED <<disk, fence>>
  BY DEF RecoverReturns, FinishReturns, CommandRefuses, CommandDies, Leave, LeaveRecovery, Die
<1>2. QED
  BY <1>1, LeavesInside, DiskKept, DiskTypeKept, NoneKnows DEF RecoveryInv

\* A plan is made for a transaction that has none, so nothing has been moved for it.
LEMMA QualifyInv ==
  ASSUME AdmissionInv, RecoveryInv, NEW p \in Procs, Qualify(p)
  PROVE  RecoveryInv'
<1> DEFINE t == run.tx
<1>1. run \in Commands /\ t \in Transactions
  BY CommandInside DEF Qualify, Doing
<1>2. plan[t] = None /\ fence = None /\ database \in DbFiles
  BY DEF Qualify, Qualifies, RecoveryInv, RecoveryTypeOK
<1>3. /\ UNCHANGED <<fence, database, journal, version, created>>
      /\ UNCHANGED <<incident, attempts, staged, installed, accepted, completed>>
      /\ run' = None /\ stage[p] = "recovery" /\ LeaveMutex(p)
      /\ plan' = [plan EXCEPT ![t] = database]
  BY DEF Qualify, Leave, LeaveRecovery
<1>4. RecoveryTypeOK'
  BY <1>1, <1>2, <1>3 DEF RecoveryInv, RecoveryTypeOK
<1>5. FilesApart' /\ DatabaseWhole' /\ RecordsAgree'
  BY <1>3 DEF RecoveryInv, FilesApart, DatabaseWhole, RecordsAgree
<1>6. IncidentsTrue'
  BY <1>1, <1>2, <1>3 DEF RecoveryInv, RecoveryTypeOK, IncidentsTrue
<1>7. FencedHasIncident'
  BY <1>2, <1>3, AdmissionAssumption DEF FencedHasIncident
<1>8. QED
  BY <1>3, <1>4, <1>5, <1>6, <1>7, LeavesInside, NoneKnows DEF RecoveryInv

-----------------------------------------------------------------------------
(* The runtime's writes. *)

\* A runtime is only in where no transaction is fenced, and beside no command.
LEMMA RuntimeAlone ==
  ASSUME AdmissionInv, RecoveryInv, NEW p \in Procs, stage[p] = "admitted"
  PROVE  run = None /\ fence = None /\ \A t \in Transactions : fence # t
<1>1. fence = None
  BY DEF AdmissionInv, RuntimeNoFence, Runtime
<1>2. run = None
  BY NoCommand
<1>3. QED
  BY <1>1, <1>2, AdmissionAssumption

\* A database that a runtime creates is a file of its own.
LEMMA CreateInv ==
  ASSUME AdmissionInv, RecoveryInv, NEW p \in Procs, CreateDatabase(p)
  PROVE  RecoveryInv'
<1>1. run = None /\ fence = None /\ \A t \in Transactions : fence # t
  BY RuntimeAlone DEF CreateDatabase
<1>2. /\ database = None /\ created < MaxFiles /\ version < MaxVersion
      /\ version' = version + 1 /\ created' = created + 1
      /\ database' = [id |-> created', data |-> version']
      /\ UNCHANGED <<mutex, stage, fence, journal, run>>
      /\ UNCHANGED <<plan, incident, attempts, staged, installed, accepted, completed>>
  BY DEF CreateDatabase, avars, work
<1>3. /\ version' \in 1..MaxVersion /\ created' \in 0..MaxFiles /\ version' \in 2..MaxVersion
      /\ created \in Nat
  BY <1>2, RecoveryAssumption DEF RecoveryInv, RecoveryTypeOK
<1>4. /\ database' \in DbFiles /\ database'.id = created + 1 /\ database'.data # Partial
  BY <1>2, <1>3, RecoveryAssumption DEF DbFiles, Partial
<1>5. RecoveryTypeOK'
  BY <1>2, <1>3, <1>4 DEF RecoveryInv, RecoveryTypeOK
<1>6. RunInside'
  BY <1>2 DEF RecoveryInv, RunInside
<1>7. FilesApart'
  <2>1. \A t \in Transactions : \A f \in attempts[t] : f.id \in Nat /\ f.id <= created
    BY DEF RecoveryInv, RecoveryTypeOK, FilesApart, DbFiles
  <2>2. \A t \in Transactions : \A f \in attempts[t] : f.id <= created' /\ database'.id # f.id
    BY <1>2, <1>3, <1>4, <2>1
  <2>3. database'.id <= created'
    BY <1>2, <1>3, <1>4
  <2>4. QED
    BY <1>2, <2>2, <2>3 DEF RecoveryInv, FilesApart
<1>8. DatabaseWhole'
  BY <1>2, <1>4, RecoveryAssumption DEF DatabaseWhole
<1>9. IncidentsTrue' /\ FencedHasIncident' /\ RecordsAgree'
  BY <1>1, <1>2 DEF RecoveryInv, IncidentsTrue, FencedHasIncident, RecordsAgree
<1>10. QED
  BY <1>1, <1>2, <1>5, <1>6, <1>7, <1>8, <1>9, NoneKnows DEF RecoveryInv

\* A transaction of the runtime changes the content of the file, not the file.
LEMMA WriteInv ==
  ASSUME AdmissionInv, RecoveryInv, NEW p \in Procs, BeginWrite(p) \/ CommitWrite(p)
  PROVE  RecoveryInv'
<1>1. run = None /\ fence = None /\ \A t \in Transactions : fence # t
  BY RuntimeAlone DEF BeginWrite, CommitWrite
<1>2. /\ UNCHANGED <<mutex, stage, fence, created, run>>
      /\ UNCHANGED <<plan, incident, attempts, staged, installed, accepted, completed>>
  BY DEF BeginWrite, CommitWrite, avars, work
<1>3. /\ database \in DbFiles /\ database' \in DbFiles /\ database'.id = database.id
      /\ database.data # Partial /\ database'.data # Partial
      /\ version' \in 1..MaxVersion
  <2>1. database \in DbFiles /\ database.data # Partial
    BY DEF BeginWrite, CommitWrite, RecoveryInv, RecoveryTypeOK, DatabaseWhole
  <2>2. CASE BeginWrite(p)
    BY <2>1, <2>2 DEF BeginWrite, RecoveryInv, RecoveryTypeOK
  <2>3. CASE CommitWrite(p)
    <3>1. version' \in 1..MaxVersion /\ version' \in 0..MaxVersion /\ version' # 0
      BY <2>3, RecoveryAssumption DEF CommitWrite, RecoveryInv, RecoveryTypeOK
    <3>2. database' = [database EXCEPT !.data = version']
      BY <2>3 DEF CommitWrite
    <3>3. QED
      BY <2>1, <3>1, <3>2 DEF DbFiles, Partial
  <2>4. QED
    BY <2>2, <2>3
<1>4. journal' \in BOOLEAN
  <2>1. journal \in BOOLEAN
    BY DEF RecoveryInv, RecoveryTypeOK
  <2>2. QED
    BY <2>1, Zenon DEF BeginWrite, CommitWrite
<1>5. RecoveryTypeOK'
  BY <1>2, <1>3, <1>4 DEF RecoveryInv, RecoveryTypeOK
<1>6. RunInside'
  BY <1>2 DEF RecoveryInv, RunInside
<1>7. FilesApart' /\ DatabaseWhole'
  BY <1>2, <1>3, RecoveryAssumption DEF RecoveryInv, FilesApart, DatabaseWhole
<1>8. IncidentsTrue' /\ FencedHasIncident' /\ RecordsAgree'
  BY <1>1, <1>2 DEF RecoveryInv, IncidentsTrue, FencedHasIncident, RecordsAgree
<1>9. QED
  BY <1>1, <1>2, <1>5, <1>6, <1>7, <1>8, NoneKnows DEF RecoveryInv

-----------------------------------------------------------------------------
(* A command that goes on. *)

\* What a recover knows at its next step is all that is to be shown of it.
LEMMA RecoverGoes ==
  ASSUME NEW t \in Transactions, NEW s, NEW file,
         run'.cmd = "recover", run'.tx = t, run'.step = s, run'.stage = file,
         RecoverAt(t, s, file)'
  PROVE  RecoverKnows' /\ FinishKnows' /\ QualifyKnows'
  BY DEF RecoverKnows, FinishKnows, QualifyKnows

\* What a finish knows at its next step is all that is to be shown of it.
LEMMA FinishGoes ==
  ASSUME NEW t \in Transactions, NEW s,
         run'.cmd = "finish", run'.tx = t, run'.step = s, FinishAt(t, s)'
  PROVE  RecoverKnows' /\ FinishKnows' /\ QualifyKnows'
  BY DEF RecoverKnows, FinishKnows, QualifyKnows

\* A running recover knows what its step says.
LEMMA RecoverKnown ==
  ASSUME RecoveryInv, run # None, run.cmd = "recover"
  PROVE  RecoverAt(run.tx, run.step, run.stage)
  BY DEF RecoveryInv, RecoverKnows

\* A running finish knows what its step says.
LEMMA FinishKnown ==
  ASSUME RecoveryInv, run # None, run.cmd = "finish"
  PROVE  FinishAt(run.tx, run.step)
  BY DEF RecoveryInv, FinishKnows

\* A check writes nothing; the rest is what the command knows after it.
LEMMA CheckedInv ==
  ASSUME AdmissionInv, RecoveryInv, NEW p \in Procs, stage[p] \in {"recovery", "fencing"},
         UNCHANGED <<avars, disk>>, run' \in Commands, run' # None,
         RecoverKnows', FinishKnows', QualifyKnows'
  PROVE  RecoveryInv'
<1>1. mutex' = mutex /\ stage' = stage /\ fence' = fence
  BY DEF avars
<1>2. RunInside'
  BY <1>1, StaysInside
<1>3. QED
  BY <1>1, <1>2, DiskKept, DiskTypeKept DEF RecoveryInv

-----------------------------------------------------------------------------
(* A command's checks. *)

\* Recover goes on where the fence is its own or there is none, and the old database is
\* as planned.
LEMMA RecoverCheckedInv ==
  ASSUME AdmissionInv, RecoveryInv, NEW p \in Procs, RecoverChecked(p)
  PROVE  RecoveryInv'
<1> PICK t \in Transactions : t = run.tx
  BY CommandInside DEF RecoverChecked, Check, Doing
<1> PICK file \in DbFiles \cup {None} : file = run.stage
  BY CommandInside DEF RecoverChecked, Check, Doing, Commands
<1> PICK next \in {"fencing", "fenced"} : next = IF fence = None THEN "fencing" ELSE "fenced"
  OBVIOUS
<1>1. /\ stage[p] \in {"recovery", "fencing"} /\ UNCHANGED <<avars, disk>>
      /\ run \in Commands /\ run.cmd = "recover" /\ Goto(next)
  BY CommandInside DEF RecoverChecked, Check, Doing
<1>2. /\ run' \in Commands /\ run' # None
      /\ run'.cmd = "recover" /\ run'.tx = t /\ run'.step = next /\ run'.stage = file
  BY <1>1, RunGoes DEF Steps
<1>3. UNCHANGED <<database, plan, incident, fence>>
  BY <1>1 DEF disk, work, avars
<1>4. /\ OldUnchanged(t) /\ plan[t] # None
      /\ next = "fencing" => fence = None
      /\ next = "fenced" => fence = t
  BY DEF RecoverChecked, Recovers, FenceAgrees
<1>5. RecoverAt(t, next, file)'
  BY <1>3, <1>4 DEF RecoverAt, OldUnchanged, OldAtDatabase
<1>6. QED
  BY <1>1, <1>2, <1>5, RecoverGoes, CheckedInv

\* A resume that finds the incident moved goes on to install.
LEMMA IncidentMovedInv ==
  ASSUME AdmissionInv, RecoveryInv, NEW p \in Procs, IncidentMoved(p)
  PROVE  RecoveryInv'
<1> PICK t \in Transactions : t = run.tx
  BY CommandInside DEF IncidentMoved, Check, Doing
<1> PICK file \in DbFiles \cup {None} : file = run.stage
  BY CommandInside DEF IncidentMoved, Check, Doing, Commands
<1>1. /\ stage[p] \in {"recovery", "fencing"} /\ UNCHANGED <<avars, disk>> /\ run \in Commands
      /\ run # None /\ run.cmd = "recover" /\ run.step = "staged" /\ Goto("moved")
  BY CommandInside DEF IncidentMoved, Check, Doing
<1>2. /\ run' \in Commands /\ run' # None
      /\ run'.cmd = "recover" /\ run'.tx = t /\ run'.step = "moved" /\ run'.stage = file
  BY <1>1, RunGoes DEF Steps
<1>3. /\ UNCHANGED <<database, plan, incident, attempts>>
      /\ UNCHANGED <<staged, installed, accepted, fence>>
  BY <1>1 DEF disk, work, avars
<1>4. RecoverAt(t, "staged", file)
  BY <1>1, RecoverKnown
<1>5. RecoverAt(t, "moved", file)'
  BY <1>3, <1>4
     DEF RecoverAt, OldUnchanged, OldAtDatabase, SealedAt, StageInstalled, IncidentMoved
<1>6. QED
  BY <1>1, <1>2, <1>5, RecoverGoes, CheckedInv

\* A resume that finds the stage installed goes on to record it.
LEMMA StageIsInstalledInv ==
  ASSUME AdmissionInv, RecoveryInv, NEW p \in Procs, StageIsInstalled(p)
  PROVE  RecoveryInv'
<1> PICK t \in Transactions : t = run.tx
  BY CommandInside DEF StageIsInstalled, Check, Doing
<1> PICK file \in DbFiles \cup {None} : file = run.stage
  BY CommandInside DEF StageIsInstalled, Check, Doing, Commands
<1>1. /\ stage[p] \in {"recovery", "fencing"} /\ UNCHANGED <<avars, disk>> /\ run \in Commands
      /\ run # None /\ run.cmd = "recover" /\ run.step = "moved" /\ Goto("installed")
  BY CommandInside DEF StageIsInstalled, Check, Doing
<1>2. /\ run' \in Commands /\ run' # None
      /\ run'.cmd = "recover" /\ run'.tx = t /\ run'.step = "installed" /\ run'.stage = file
  BY <1>1, RunGoes DEF Steps
<1>3. /\ UNCHANGED <<database, plan, incident, attempts>>
      /\ UNCHANGED <<staged, installed, accepted, fence>>
  BY <1>1 DEF disk, work, avars
<1>4. RecoverAt(t, "moved", file)
  BY <1>1, RecoverKnown
<1>5. RecoverAt(t, "installed", file)'
  BY <1>3, <1>4
     DEF RecoverAt
<1>6. QED
  BY <1>1, <1>2, <1>5, RecoverGoes, CheckedInv

\* A resume that finds everything recorded has nothing to do.
LEMMA InstalledRecordedInv ==
  ASSUME AdmissionInv, RecoveryInv, NEW p \in Procs, InstalledRecorded(p)
  PROVE  RecoveryInv'
<1> PICK t \in Transactions : t = run.tx
  BY CommandInside DEF InstalledRecorded, Check, Doing
<1> PICK file \in DbFiles \cup {None} : file = run.stage
  BY CommandInside DEF InstalledRecorded, Check, Doing, Commands
<1>1. /\ stage[p] \in {"recovery", "fencing"} /\ UNCHANGED <<avars, disk>> /\ run \in Commands
      /\ run # None /\ run.cmd = "recover" /\ run.step = "installed" /\ Goto("recorded")
  BY CommandInside DEF InstalledRecorded, Check, Doing
<1>2. /\ run' \in Commands /\ run' # None
      /\ run'.cmd = "recover" /\ run'.tx = t /\ run'.step = "recorded" /\ run'.stage = file
  BY <1>1, RunGoes DEF Steps
<1>3. /\ UNCHANGED <<database, plan, incident, attempts>>
      /\ UNCHANGED <<staged, installed, accepted, fence>>
  BY <1>1 DEF disk, work, avars
<1>4. RecoverAt(t, "installed", file)
  BY <1>1, RecoverKnown
<1>5. RecoverAt(t, "recorded", file)'
  BY <1>3, <1>4
     DEF RecoverAt
<1>6. QED
  BY <1>1, <1>2, <1>5, RecoverGoes, CheckedInv

\* Finish goes on behind its own fence with a complete receipt.
LEMMA FinishCheckedInv ==
  ASSUME AdmissionInv, RecoveryInv, NEW p \in Procs, FinishChecked(p)
  PROVE  RecoveryInv'
<1> PICK t \in Transactions : t = run.tx
  BY CommandInside DEF FinishChecked, Check, Doing
<1> PICK file \in DbFiles \cup {None} : file = run.stage
  BY CommandInside DEF FinishChecked, Check, Doing, Commands
<1>1. /\ stage[p] \in {"recovery", "fencing"} /\ UNCHANGED <<avars, disk>> /\ run \in Commands
      /\ run # None /\ run.cmd = "finish" /\ run.step = "entered" /\ Goto("checked")
  BY CommandInside DEF FinishChecked, Check, Doing
<1>2. /\ run' \in Commands /\ run' # None
      /\ run'.cmd = "finish" /\ run'.tx = t /\ run'.step = "checked" /\ run'.stage = file
  BY <1>1, RunGoes DEF Steps
<1>3. /\ UNCHANGED <<database, plan, incident, attempts>>
      /\ UNCHANGED <<staged, installed, accepted, fence>>
  BY <1>1 DEF disk, work, avars
<1>4. FinishAt(t, "entered")
  BY <1>1, FinishKnown
<1>5. FinishAt(t, "checked")'
  BY <1>3, <1>4
     DEF FinishAt, FinishChecked, Reconciled
<1>6. QED
  BY <1>1, <1>2, <1>5, FinishGoes, CheckedInv

\* Finish finds that it has been accepted before.
LEMMA AlreadyAcceptedInv ==
  ASSUME AdmissionInv, RecoveryInv, NEW p \in Procs, AlreadyAccepted(p)
  PROVE  RecoveryInv'
<1> PICK t \in Transactions : t = run.tx
  BY CommandInside DEF AlreadyAccepted, Check, Doing
<1> PICK file \in DbFiles \cup {None} : file = run.stage
  BY CommandInside DEF AlreadyAccepted, Check, Doing, Commands
<1>1. /\ stage[p] \in {"recovery", "fencing"} /\ UNCHANGED <<avars, disk>> /\ run \in Commands
      /\ run # None /\ run.cmd = "finish" /\ run.step = "checked" /\ Goto("accepted")
  BY CommandInside DEF AlreadyAccepted, Check, Doing
<1>2. /\ run' \in Commands /\ run' # None
      /\ run'.cmd = "finish" /\ run'.tx = t /\ run'.step = "accepted" /\ run'.stage = file
  BY <1>1, RunGoes DEF Steps
<1>3. /\ UNCHANGED <<database, plan, incident, attempts>>
      /\ UNCHANGED <<staged, installed, accepted, fence>>
  BY <1>1 DEF disk, work, avars
<1>4. FinishAt(t, "checked")
  BY <1>1, FinishKnown
<1>5. FinishAt(t, "accepted")'
  BY <1>3, <1>4
     DEF FinishAt, AlreadyAccepted
<1>6. QED
  BY <1>1, <1>2, <1>5, FinishGoes, CheckedInv

\* A resume takes the stage that was sealed.
LEMMA FindSealedInv ==
  ASSUME AdmissionInv, RecoveryInv, NEW p \in Procs, FindSealed(p)
  PROVE  RecoveryInv'
<1> PICK t \in Transactions : t = run.tx
  BY CommandInside DEF FindSealed, Doing
<1>1. /\ stage[p] \in {"recovery", "fencing"} /\ UNCHANGED <<avars, disk>> /\ run \in Commands
      /\ run # None /\ run.cmd = "recover" /\ run.step = "fenced"
  BY CommandInside DEF FindSealed, Doing
<1>2. staged[t] # None /\ SealedAt(t) /\ run' = [run EXCEPT !.step = "staged", !.stage = staged[t]]
  BY DEF FindSealed
<1>3. staged[t] \in DbFiles
  BY <1>2 DEF SealedAt, StageInstalled, RecoveryInv, RecoveryTypeOK
<1> PICK file \in DbFiles : file = staged[t]
  BY <1>3
<1>4. /\ run' \in Commands /\ run' # None
      /\ run'.cmd = "recover" /\ run'.tx = t /\ run'.step = "staged" /\ run'.stage = file
  BY <1>1, <1>2, RecoveryAssumption DEF Commands, Steps
<1>5. UNCHANGED <<database, plan, incident, attempts, staged, fence>>
  BY <1>1 DEF disk, work, avars
<1>6. RecoverAt(t, "fenced", run.stage)
  BY <1>1, RecoverKnown
<1>7. RecoverAt(t, "staged", file)'
  BY <1>2, <1>5, <1>6 DEF RecoverAt, OldUnchanged, OldAtDatabase, SealedAt, StageInstalled
<1>8. QED
  BY <1>1, <1>4, <1>7, RecoverGoes, CheckedInv

-----------------------------------------------------------------------------
(* The fence. *)

\* The fence is created, torn, where there is none.
LEMMA OpenFenceInv ==
  ASSUME AdmissionInv, RecoveryInv, NEW p \in Procs, OpenFence(p)
  PROVE  RecoveryInv'
<1> PICK t \in Transactions : t = run.tx
  BY CommandInside DEF OpenFence, Doing
<1> PICK file \in DbFiles \cup {None} : file = run.stage
  BY CommandInside DEF OpenFence, Doing, Commands
<1>1. /\ stage[p] = "recovery" /\ run \in Commands /\ run # None
      /\ run.cmd = "recover" /\ run.step = "fencing"
      /\ fence = None /\ fence' = Torn /\ mutex' = mutex
      /\ stage' = [stage EXCEPT ![p] = "fencing"] /\ UNCHANGED <<disk, run>>
  BY CommandInside DEF OpenFence, Doing, CreateFence
<1>2. /\ UNCHANGED <<database, journal, version, created, plan, incident, attempts>>
      /\ UNCHANGED <<staged, installed, accepted, completed>>
  BY <1>1 DEF disk, work
<1>3. RecoverAt(t, "fencing", file)
  BY <1>1, RecoverKnown
<1>4. RecoverAt(t, "fencing", file)'
  BY <1>1, <1>2, <1>3 DEF RecoverAt, OldUnchanged, OldAtDatabase
<1>5. RunInside'
  BY <1>1, StaysInside DEF AdmissionInv, AdmissionTypeOK
<1>6. FilesApart' /\ DatabaseWhole' /\ RecordsAgree'
  BY <1>2 DEF RecoveryInv, FilesApart, DatabaseWhole, RecordsAgree
<1>7. IncidentsTrue' /\ FencedHasIncident'
  BY <1>1, <1>2, AdmissionAssumption DEF RecoveryInv, IncidentsTrue, FencedHasIncident
<1>8. QED
  BY <1>1, <1>4, <1>5, <1>6, <1>7, RecoverGoes, DiskTypeKept DEF RecoveryInv

\* The fence is written while the old database is as planned.
LEMMA FillFenceInv ==
  ASSUME AdmissionInv, RecoveryInv, NEW p \in Procs, FillFence(p)
  PROVE  RecoveryInv'
<1> PICK t \in Transactions : t = run.tx
  BY CommandInside DEF FillFence, Doing
<1> PICK file \in DbFiles \cup {None} : file = run.stage
  BY CommandInside DEF FillFence, Doing, Commands
<1>1. /\ stage[p] \in {"recovery", "fencing"} /\ run \in Commands /\ run # None
      /\ run.cmd = "recover" /\ run.step = "fencing" /\ Goto("fenced")
      /\ fence' = t /\ mutex' = mutex
      /\ stage' = [stage EXCEPT ![p] = "recovery"] /\ UNCHANGED disk
  BY CommandInside DEF FillFence, Doing, WriteFence
<1>2. /\ UNCHANGED <<database, journal, version, created, plan, incident, attempts>>
      /\ UNCHANGED <<staged, installed, accepted, completed>>
  BY <1>1 DEF disk, work
<1>3. RecoverAt(t, "fencing", file)
  BY <1>1, RecoverKnown
<1>4. /\ run' \in Commands /\ run' # None
      /\ run'.cmd = "recover" /\ run'.tx = t /\ run'.step = "fenced" /\ run'.stage = file
  BY <1>1, RunGoes DEF Steps
<1>5. RecoverAt(t, "fenced", file)'
  BY <1>1, <1>2, <1>3 DEF RecoverAt, OldUnchanged, OldAtDatabase
<1>6. RunInside'
  BY <1>1, <1>4, StaysInside DEF AdmissionInv, AdmissionTypeOK
<1>7. FilesApart' /\ DatabaseWhole' /\ RecordsAgree'
  BY <1>2 DEF RecoveryInv, FilesApart, DatabaseWhole, RecordsAgree
<1>8. fence \in {None, Torn} /\ OldUnchanged(t) /\ plan[t] # None
  BY <1>3 DEF RecoverAt
<1>9. IncidentsTrue'
  BY <1>1, <1>2, <1>8, AdmissionAssumption DEF RecoveryInv, IncidentsTrue
<1>10. FencedHasIncident'
  BY <1>1, <1>2, <1>8 DEF FencedHasIncident, OldUnchanged
<1>11. QED
  BY <1>1, <1>4, <1>5, <1>6, <1>7, <1>9, <1>10, RecoverGoes, DiskTypeKept DEF RecoveryInv

\* The fence is retired once its transaction is accepted, which stays on record.
LEMMA ReleaseInv ==
  ASSUME AdmissionInv, RecoveryInv, NEW p \in Procs, Release(p)
  PROVE  RecoveryInv'
<1> PICK t \in Transactions : t = run.tx
  BY CommandInside DEF Release, Doing
<1>1. /\ stage[p] \in {"recovery", "fencing"} /\ run \in Commands /\ run # None
      /\ run.cmd = "finish" /\ run.step = "accepted" /\ Goto("recorded")
      /\ fence' = None /\ mutex' = mutex /\ stage' = stage
      /\ completed' = [completed EXCEPT ![t] = TRUE]
  BY CommandInside DEF Release, Doing, RetireFence
<1>2. /\ UNCHANGED <<database, journal, version, created, plan, incident, attempts>>
      /\ UNCHANGED <<staged, installed, accepted>>
  BY DEF Release
<1>3. FinishAt(t, "accepted")
  BY <1>1, FinishKnown
<1>4. /\ run' \in Commands /\ run' # None
      /\ run'.cmd = "finish" /\ run'.tx = t /\ run'.step = "recorded"
  BY <1>1, RunGoes DEF Steps
<1>5. FinishAt(t, "recorded")'
  BY DEF FinishAt
<1>6. RunInside'
  BY <1>1, <1>4, StaysInside
<1>7. FilesApart' /\ DatabaseWhole'
  BY <1>2 DEF RecoveryInv, FilesApart, DatabaseWhole
<1>8. completed' \in [Transactions -> BOOLEAN] /\ completed'[t]
      /\ \A u \in Transactions : u # t => completed'[u] = completed[u]
  BY <1>1 DEF RecoveryInv, RecoveryTypeOK
<1>9. fence = t /\ accepted[t] \in DbFiles
  BY <1>3 DEF FinishAt
<1>10. IncidentsTrue'
  BY <1>2, <1>8, <1>9 DEF RecoveryInv, IncidentsTrue
<1>11. FencedHasIncident'
  BY <1>1, AdmissionAssumption DEF FencedHasIncident
<1>12. RecordsAgree'
  BY <1>2, <1>8, <1>9 DEF RecoveryInv, RecordsAgree
<1>13. RecoveryTypeOK'
  BY <1>2, <1>4, <1>8 DEF RecoveryInv, RecoveryTypeOK
<1>14. QED
  BY <1>4, <1>5, <1>6, <1>7, <1>10, <1>11, <1>12, <1>13, FinishGoes DEF RecoveryInv

-----------------------------------------------------------------------------
(* The records. *)

\* A record file is none of the database files: what is to be shown of a write of one is
\* that the records agree and what the command knows afterwards.
LEMMA RecordInv ==
  ASSUME AdmissionInv, RecoveryInv, NEW p \in Procs, stage[p] \in {"recovery", "fencing"},
         UNCHANGED <<avars, database, journal, version, created>>,
         UNCHANGED <<plan, incident, attempts, completed>>,
         staged' \in [Transactions -> DbFiles \cup {Torn, None}],
         installed' \in [Transactions -> DbFiles \cup {Torn, None}],
         accepted' \in [Transactions -> DbFiles \cup {Torn, None}],
         RecordsAgree', run' \in Commands, run' # None,
         RecoverKnows', FinishKnows', QualifyKnows'
  PROVE  RecoveryInv'
<1>1. mutex' = mutex /\ stage' = stage /\ fence' = fence
  BY DEF avars
<1>2. RunInside'
  BY <1>1, StaysInside
<1>3. FilesApart' /\ DatabaseWhole'
  BY DEF RecoveryInv, FilesApart, DatabaseWhole
<1>4. IncidentsTrue' /\ FencedHasIncident'
  BY <1>1 DEF RecoveryInv, IncidentsTrue, FencedHasIncident
<1>5. RecoveryTypeOK'
  BY DEF RecoveryInv, RecoveryTypeOK
<1>6. QED
  BY <1>2, <1>3, <1>4, <1>5 DEF RecoveryInv

\* A stage is sealed once: before, no record of its transaction is complete.
LEMMA OpenStagedInv ==
  ASSUME AdmissionInv, RecoveryInv, NEW p \in Procs, OpenStaged(p)
  PROVE  RecoveryInv'
<1> PICK t \in Transactions : t = run.tx
  BY CommandInside DEF OpenStaged, Doing
<1> PICK file \in DbFiles \cup {None} : file = run.stage
  BY CommandInside DEF OpenStaged, Doing, Commands
<1>1. /\ stage[p] \in {"recovery", "fencing"} /\ run \in Commands /\ run # None
      /\ run.cmd = "recover" /\ run.step = "built" /\ Goto("sealing")
      /\ staged' = [staged EXCEPT ![t] = Torn]
  BY CommandInside DEF OpenStaged, Doing
<1>2. /\ UNCHANGED <<avars, database, journal, version, created>>
      /\ UNCHANGED <<plan, incident, attempts, completed, installed, accepted>>
  BY DEF OpenStaged
<1>3. /\ run' \in Commands /\ run' # None
      /\ run'.cmd = "recover" /\ run'.tx = t /\ run'.step = "sealing" /\ run'.stage = file
  BY <1>1, RunGoes DEF Steps
<1>4. RecoverAt(t, "built", file)
  BY <1>1, RecoverKnown
<1>5. /\ staged[t] = None /\ installed[t] \notin DbFiles /\ accepted[t] \notin DbFiles
      /\ ~completed[t]
  BY <1>1, <1>4, RecoveryAssumption
     DEF RecoverAt, RecoveryInv, RecoveryTypeOK, RecordsAgree
<1>6. /\ staged' \in [Transactions -> DbFiles \cup {Torn, None}] /\ staged'[t] = Torn
      /\ \A u \in Transactions : u # t => staged'[u] = staged[u]
  BY <1>1, <1>5 DEF RecoveryInv, RecoveryTypeOK
<1>7. RecordsAgree'
  BY <1>2, <1>5, <1>6, RecoveryAssumption DEF RecoveryInv, RecordsAgree
<1>8. fence' = fence
  BY <1>2 DEF avars
<1>9. RecoverAt(t, "sealing", file)'
  BY <1>2, <1>4, <1>5, <1>6, <1>8 DEF RecoverAt, OldUnchanged, OldAtDatabase
<1>10. QED
  BY <1>1, <1>2, <1>3, <1>6, <1>7, <1>9, RecoverGoes, RecordInv DEF RecoveryInv, RecoveryTypeOK

\* What is sealed is a migrated stage in the transaction's directory.
LEMMA FillStagedInv ==
  ASSUME AdmissionInv, RecoveryInv, NEW p \in Procs, FillStaged(p)
  PROVE  RecoveryInv'
<1> PICK t \in Transactions : t = run.tx
  BY CommandInside DEF FillStaged, Doing
<1> PICK file \in DbFiles \cup {None} : file = run.stage
  BY CommandInside DEF FillStaged, Doing, Commands
<1>1. /\ stage[p] \in {"recovery", "fencing"} /\ run \in Commands /\ run # None
      /\ run.cmd = "recover" /\ run.step = "sealing" /\ Goto("staged")
      /\ staged' = [staged EXCEPT ![t] = file]
  BY CommandInside DEF FillStaged, Doing
<1>2. /\ UNCHANGED <<avars, database, journal, version, created>>
      /\ UNCHANGED <<plan, incident, attempts, completed, installed, accepted>>
  BY DEF FillStaged
<1>3. /\ run' \in Commands /\ run' # None
      /\ run'.cmd = "recover" /\ run'.tx = t /\ run'.step = "staged" /\ run'.stage = file
  BY <1>1, RunGoes DEF Steps
<1>4. RecoverAt(t, "sealing", file)
  BY <1>1, RecoverKnown
<1>5. /\ staged[t] = Torn /\ installed[t] \notin DbFiles /\ accepted[t] \notin DbFiles
      /\ ~completed[t] /\ file \in DbFiles /\ file.data = Restored
      /\ incident[t] = None /\ file \in attempts[t] /\ fence = t
      /\ OldUnchanged(t) /\ plan[t] # None
  BY <1>1, <1>4, RecoveryAssumption
     DEF RecoverAt, RecoveryInv, RecoveryTypeOK, RecordsAgree
<1>6. /\ staged' \in [Transactions -> DbFiles \cup {Torn, None}] /\ staged'[t] = file
      /\ \A u \in Transactions : u # t => staged'[u] = staged[u]
  BY <1>1, <1>5 DEF RecoveryInv, RecoveryTypeOK
<1>7. RecordsAgree'
  BY <1>2, <1>5, <1>6, RecoveryAssumption DEF RecoveryInv, RecordsAgree
<1>8. fence' = fence
  BY <1>2 DEF avars
<1>9. RecoverAt(t, "staged", file)'
  BY <1>2, <1>4, <1>5, <1>6, <1>8 DEF RecoverAt, OldUnchanged, OldAtDatabase, SealedAt, StageInstalled
<1>10. QED
  BY <1>1, <1>2, <1>3, <1>6, <1>7, <1>9, RecoverGoes, RecordInv DEF RecoveryInv, RecoveryTypeOK

\* A torn receipt names nothing.
LEMMA OpenInstalledInv ==
  ASSUME AdmissionInv, RecoveryInv, NEW p \in Procs, OpenInstalled(p)
  PROVE  RecoveryInv'
<1> PICK t \in Transactions : t = run.tx
  BY CommandInside DEF OpenInstalled, Doing
<1> PICK file \in DbFiles \cup {None} : file = run.stage
  BY CommandInside DEF OpenInstalled, Doing, Commands
<1>1. /\ stage[p] \in {"recovery", "fencing"} /\ run \in Commands /\ run # None
      /\ run.cmd = "recover" /\ run.step = "installed" /\ Goto("recording")
      /\ installed' = [installed EXCEPT ![t] = Torn]
  BY CommandInside DEF OpenInstalled, Doing
<1>2. /\ UNCHANGED <<avars, database, journal, version, created>>
      /\ UNCHANGED <<plan, incident, attempts, completed, staged, accepted>>
  BY DEF OpenInstalled
<1>3. /\ run' \in Commands /\ run' # None
      /\ run'.cmd = "recover" /\ run'.tx = t /\ run'.step = "recording" /\ run'.stage = file
  BY <1>1, RunGoes DEF Steps
<1>4. RecoverAt(t, "installed", file)
  BY <1>1, RecoverKnown
<1>5. fence = t
  BY <1>1, <1>4, RecoveryAssumption DEF RecoverAt
<1>6. /\ installed' \in [Transactions -> DbFiles \cup {Torn, None}] /\ installed'[t] = Torn
      /\ \A u \in Transactions : u # t => installed'[u] = installed[u]
  BY <1>1, <1>5 DEF RecoveryInv, RecoveryTypeOK
<1>7. RecordsAgree'
  BY <1>2, <1>5, <1>6, RecoveryAssumption DEF RecoveryInv, RecordsAgree
<1>8. fence' = fence
  BY <1>2 DEF avars
<1>9. RecoverAt(t, "recording", file)'
  BY <1>2, <1>4, <1>5, <1>6, <1>8 DEF RecoverAt
<1>10. QED
  BY <1>1, <1>2, <1>3, <1>6, <1>7, <1>9, RecoverGoes, RecordInv DEF RecoveryInv, RecoveryTypeOK

\* The receipt names the sealed stage.
LEMMA FillInstalledInv ==
  ASSUME AdmissionInv, RecoveryInv, NEW p \in Procs, FillInstalled(p)
  PROVE  RecoveryInv'
<1> PICK t \in Transactions : t = run.tx
  BY CommandInside DEF FillInstalled, Doing
<1> PICK file \in DbFiles \cup {None} : file = run.stage
  BY CommandInside DEF FillInstalled, Doing, Commands
<1>1. /\ stage[p] \in {"recovery", "fencing"} /\ run \in Commands /\ run # None
      /\ run.cmd = "recover" /\ run.step = "recording" /\ Goto("recorded")
      /\ installed' = [installed EXCEPT ![t] = staged[t]]
  BY CommandInside DEF FillInstalled, Doing
<1>2. /\ UNCHANGED <<avars, database, journal, version, created>>
      /\ UNCHANGED <<plan, incident, attempts, completed, staged, accepted>>
  BY DEF FillInstalled
<1>3. /\ run' \in Commands /\ run' # None
      /\ run'.cmd = "recover" /\ run'.tx = t /\ run'.step = "recorded" /\ run'.stage = file
  BY <1>1, RunGoes DEF Steps
<1>4. RecoverAt(t, "recording", file)
  BY <1>1, RecoverKnown
<1>5. fence = t /\ staged[t] \in DbFiles \cup {Torn, None}
  BY <1>1, <1>4, RecoveryAssumption
     DEF RecoverAt, RecoveryInv, RecoveryTypeOK
<1>6. /\ installed' \in [Transactions -> DbFiles \cup {Torn, None}] /\ installed'[t] = staged[t]
      /\ \A u \in Transactions : u # t => installed'[u] = installed[u]
  BY <1>1, <1>5 DEF RecoveryInv, RecoveryTypeOK
<1>7. RecordsAgree'
  BY <1>2, <1>5, <1>6, RecoveryAssumption DEF RecoveryInv, RecordsAgree
<1>8. fence' = fence
  BY <1>2 DEF avars
<1>9. RecoverAt(t, "recorded", file)'
  BY <1>2, <1>4, <1>5, <1>6, <1>8 DEF RecoverAt
<1>10. QED
  BY <1>1, <1>2, <1>3, <1>6, <1>7, <1>9, RecoverGoes, RecordInv DEF RecoveryInv, RecoveryTypeOK

\* Nothing is accepted twice: a completed transaction has its acceptance.
LEMMA OpenAcceptedInv ==
  ASSUME AdmissionInv, RecoveryInv, NEW p \in Procs, OpenAccepted(p)
  PROVE  RecoveryInv'
<1> PICK t \in Transactions : t = run.tx
  BY CommandInside DEF OpenAccepted, Doing
<1>1. /\ stage[p] \in {"recovery", "fencing"} /\ run \in Commands /\ run # None
      /\ run.cmd = "finish" /\ run.step = "checked" /\ Goto("accepting")
      /\ accepted' = [accepted EXCEPT ![t] = Torn]
  BY CommandInside DEF OpenAccepted, Doing
<1>2. /\ UNCHANGED <<avars, database, journal, version, created>>
      /\ UNCHANGED <<plan, incident, attempts, completed, staged, installed>>
  BY DEF OpenAccepted
<1>3. /\ run' \in Commands /\ run' # None
      /\ run'.cmd = "finish" /\ run'.tx = t /\ run'.step = "accepting"
  BY <1>1, RunGoes DEF Steps
<1>4. FinishAt(t, "checked")
  BY <1>1, FinishKnown
<1>5. fence = t /\ installed[t] \in DbFiles /\ accepted[t] = None /\ ~completed[t]
  BY <1>1, <1>4, RecoveryAssumption
     DEF FinishAt, OpenAccepted, RecoveryInv, RecoveryTypeOK, RecordsAgree
<1>6. /\ accepted' \in [Transactions -> DbFiles \cup {Torn, None}] /\ accepted'[t] = Torn
      /\ \A u \in Transactions : u # t => accepted'[u] = accepted[u]
  BY <1>1, <1>5 DEF RecoveryInv, RecoveryTypeOK
<1>7. RecordsAgree'
  BY <1>2, <1>5, <1>6, RecoveryAssumption DEF RecoveryInv, RecordsAgree
<1>8. fence' = fence
  BY <1>2 DEF avars
<1>9. FinishAt(t, "accepting")'
  BY <1>2, <1>4, <1>5, <1>6, <1>8 DEF FinishAt
<1>10. QED
  BY <1>1, <1>2, <1>3, <1>6, <1>7, <1>9, FinishGoes, RecordInv DEF RecoveryInv, RecoveryTypeOK

\* What is accepted is what was installed, and that is what was sealed.
LEMMA FillAcceptedInv ==
  ASSUME AdmissionInv, RecoveryInv, NEW p \in Procs, FillAccepted(p)
  PROVE  RecoveryInv'
<1> PICK t \in Transactions : t = run.tx
  BY CommandInside DEF FillAccepted, Doing
<1>1. /\ stage[p] \in {"recovery", "fencing"} /\ run \in Commands /\ run # None
      /\ run.cmd = "finish" /\ run.step = "accepting" /\ Goto("accepted")
      /\ accepted' = [accepted EXCEPT ![t] = installed[t]]
  BY CommandInside DEF FillAccepted, Doing
<1>2. /\ UNCHANGED <<avars, database, journal, version, created>>
      /\ UNCHANGED <<plan, incident, attempts, completed, staged, installed>>
  BY DEF FillAccepted
<1>3. /\ run' \in Commands /\ run' # None
      /\ run'.cmd = "finish" /\ run'.tx = t /\ run'.step = "accepted"
  BY <1>1, RunGoes DEF Steps
<1>4. FinishAt(t, "accepting")
  BY <1>1, FinishKnown
<1>5. fence = t /\ installed[t] \in DbFiles /\ installed[t] = staged[t]
  BY <1>1, <1>4, RecoveryAssumption
     DEF FinishAt, RecoveryInv, RecordsAgree
<1>6. /\ accepted' \in [Transactions -> DbFiles \cup {Torn, None}] /\ accepted'[t] = installed[t]
      /\ \A u \in Transactions : u # t => accepted'[u] = accepted[u]
  BY <1>1, <1>5 DEF RecoveryInv, RecoveryTypeOK
<1>7. RecordsAgree'
  BY <1>2, <1>5, <1>6, RecoveryAssumption DEF RecoveryInv, RecordsAgree
<1>8. fence' = fence
  BY <1>2 DEF avars
<1>9. FinishAt(t, "accepted")'
  BY <1>2, <1>4, <1>5, <1>6, <1>8 DEF FinishAt
<1>10. QED
  BY <1>1, <1>2, <1>3, <1>6, <1>7, <1>9, FinishGoes, RecordInv DEF RecoveryInv, RecoveryTypeOK

-----------------------------------------------------------------------------
(* The database files. *)

\* A command that moves files leaves the admission and the records alone.
LEMMA FilesInv ==
  ASSUME AdmissionInv, RecoveryInv, NEW p \in Procs, stage[p] \in {"recovery", "fencing"},
         UNCHANGED <<avars, journal, version, plan>>,
         UNCHANGED <<staged, installed, accepted, completed>>,
         database' \in DbFiles \cup {None}, created' \in 0..MaxFiles,
         incident' \in [Transactions -> DbFiles \cup {None}],
         attempts' \in [Transactions -> SUBSET DbFiles],
         FilesApart', DatabaseWhole', IncidentsTrue', FencedHasIncident',
         run' \in Commands, run' # None, RecoverKnows', FinishKnows', QualifyKnows'
  PROVE  RecoveryInv'
<1>1. mutex' = mutex /\ stage' = stage
  BY DEF avars
<1>2. RunInside'
  BY <1>1, StaysInside
<1>3. RecordsAgree'
  BY DEF RecoveryInv, RecordsAgree
<1>4. RecoveryTypeOK'
  BY DEF RecoveryInv, RecoveryTypeOK
<1>5. QED
  BY <1>2, <1>3, <1>4 DEF RecoveryInv

\* A new stage has an identity of its own.
LEMMA ReserveStageInv ==
  ASSUME AdmissionInv, RecoveryInv, NEW p \in Procs, ReserveStage(p)
  PROVE  RecoveryInv'
<1> PICK t \in Transactions : t = run.tx
  BY CommandInside DEF ReserveStage, Doing
<1> PICK new : new = [id |-> created + 1, data |-> Partial]
  OBVIOUS
<1>1. /\ stage[p] \in {"recovery", "fencing"} /\ run \in Commands /\ run # None
      /\ run.cmd = "recover" /\ run.step = "fenced"
      /\ staged[t] = None /\ incident[t] = None
      /\ created < MaxFiles /\ created' = created + 1
      /\ attempts' = [attempts EXCEPT ![t] = @ \cup {new}]
      /\ run' = [run EXCEPT !.step = "building", !.stage = new]
  BY CommandInside DEF ReserveStage, Doing, Unsealed, OldAtDatabase
<1>2. /\ UNCHANGED <<avars, database, journal, version, plan, incident>>
      /\ UNCHANGED <<staged, installed, accepted, completed>>
  BY DEF ReserveStage
<1>3. created \in Nat /\ created' \in 0..MaxFiles
  BY <1>1, RecoveryAssumption DEF RecoveryInv, RecoveryTypeOK
<1>4. new \in DbFiles /\ new.id = created + 1
  BY <1>1, <1>3, RecoveryAssumption DEF DbFiles, Partial
<1>5. /\ run' \in Commands /\ run' # None
      /\ run'.cmd = "recover" /\ run'.tx = t /\ run'.step = "building" /\ run'.stage = new
  BY <1>1, <1>4, RecoveryAssumption DEF Commands, Steps
<1>6. /\ attempts' \in [Transactions -> SUBSET DbFiles] /\ new \in attempts'[t]
      /\ \A u \in Transactions : \A f \in attempts'[u] : f \in attempts[u] \/ (u = t /\ f = new)
  BY <1>1, <1>4 DEF RecoveryInv, RecoveryTypeOK
<1>7. FilesApart'
  <2>1. /\ database # None => database.id \in Nat /\ database.id <= created
        /\ \A u \in Transactions : \A f \in attempts[u] : f.id \in Nat /\ f.id <= created
    BY DEF RecoveryInv, RecoveryTypeOK, FilesApart, DbFiles
  <2>2. /\ database # None => database.id <= created' /\ database.id # new.id
        /\ new.id <= created'
        /\ \A u \in Transactions : \A f \in attempts[u] : f.id <= created' /\ f.id # new.id
    BY <1>1, <1>3, <1>4, <2>1
  <2>3. QED
    BY <1>2, <1>6, <2>2 DEF RecoveryInv, FilesApart
<1>8. DatabaseWhole'
  BY <1>2 DEF RecoveryInv, DatabaseWhole
<1>9. fence' = fence
  BY <1>2 DEF avars
<1>10. IncidentsTrue' /\ FencedHasIncident'
  BY <1>2, <1>9 DEF RecoveryInv, IncidentsTrue, FencedHasIncident
<1>11. RecoverAt(t, "fenced", run.stage)
  BY <1>1, RecoverKnown
<1>12. RecoverAt(t, "building", new)'
  BY <1>1, <1>2, <1>6, <1>9, <1>11 DEF RecoverAt, OldUnchanged, OldAtDatabase
<1>13. QED
  BY <1>1, <1>2, <1>3, <1>5, <1>6, <1>7, <1>8, <1>10, <1>12, RecoverGoes, FilesInv
     DEF RecoveryInv, RecoveryTypeOK

\* A stage that is migrated is the same file.
LEMMA MigrateStageInv ==
  ASSUME AdmissionInv, RecoveryInv, NEW p \in Procs, MigrateStage(p)
  PROVE  RecoveryInv'
<1> PICK t \in Transactions : t = run.tx
  BY CommandInside DEF MigrateStage, Doing
<1> PICK old \in DbFiles \cup {None} : old = run.stage
  BY CommandInside DEF MigrateStage, Doing, Commands
<1> PICK new : new = Migrated(old)
  OBVIOUS
<1>1. /\ stage[p] \in {"recovery", "fencing"} /\ run \in Commands /\ run # None
      /\ run.cmd = "recover" /\ run.step = "building"
      /\ attempts' = [attempts EXCEPT ![t] = (@ \ {old}) \cup {new}]
      /\ run' = [run EXCEPT !.step = "built", !.stage = new]
  BY CommandInside DEF MigrateStage, Doing
<1>2. /\ UNCHANGED <<avars, database, journal, version, created, plan, incident>>
      /\ UNCHANGED <<staged, installed, accepted, completed>>
  BY DEF MigrateStage
<1>3. RecoverAt(t, "building", old)
  BY <1>1, RecoverKnown
<1>4. old \in attempts[t] /\ old \in DbFiles
  BY <1>3 DEF RecoverAt, RecoveryInv, RecoveryTypeOK
<1>5. new \in DbFiles /\ new.id = old.id /\ new.data = Restored
  BY <1>4, RecoveryAssumption DEF DbFiles, Migrated, Restored
<1>6. /\ run' \in Commands /\ run' # None
      /\ run'.cmd = "recover" /\ run'.tx = t /\ run'.step = "built" /\ run'.stage = new
  BY <1>1, <1>5, RecoveryAssumption DEF Commands, Steps
<1>7. /\ attempts' \in [Transactions -> SUBSET DbFiles] /\ new \in attempts'[t]
      /\ \A u \in Transactions : \A f \in attempts'[u] :
           (f \in attempts[u] /\ (u = t => f # old)) \/ (u = t /\ f = new)
  BY <1>1, <1>5 DEF RecoveryInv, RecoveryTypeOK
<1>8. FilesApart'
  BY <1>2, <1>4, <1>5, <1>7 DEF RecoveryInv, FilesApart
<1>9. DatabaseWhole'
  BY <1>2 DEF RecoveryInv, DatabaseWhole
<1>10. fence' = fence
  BY <1>2 DEF avars
<1>11. IncidentsTrue' /\ FencedHasIncident'
  BY <1>2, <1>10 DEF RecoveryInv, IncidentsTrue, FencedHasIncident
<1>12. RecoverAt(t, "built", new)'
  BY <1>2, <1>3, <1>5, <1>7, <1>10 DEF RecoverAt, OldUnchanged, OldAtDatabase
<1>13. QED
  BY <1>1, <1>2, <1>6, <1>7, <1>8, <1>9, <1>11, <1>12, RecoverGoes, FilesInv
     DEF RecoveryInv, RecoveryTypeOK

\* What is moved away is the database the transaction was planned for.
LEMMA MoveIncidentInv ==
  ASSUME AdmissionInv, RecoveryInv, NEW p \in Procs, MoveIncident(p)
  PROVE  RecoveryInv'
<1> PICK t \in Transactions : t = run.tx
  BY CommandInside DEF MoveIncident, Doing
<1> PICK file \in DbFiles \cup {None} : file = run.stage
  BY CommandInside DEF MoveIncident, Doing, Commands
<1>1. /\ stage[p] \in {"recovery", "fencing"} /\ run \in Commands /\ run # None
      /\ run.cmd = "recover" /\ run.step = "staged" /\ Goto("moved")
      /\ ~journal /\ incident[t] = None /\ database' = None
      /\ incident' = [incident EXCEPT ![t] = database]
  BY CommandInside DEF MoveIncident, Doing, SidecarFree, OldAtDatabase
<1>2. /\ UNCHANGED <<avars, journal, version, created, plan, attempts>>
      /\ UNCHANGED <<staged, installed, accepted, completed>>
  BY DEF MoveIncident
<1>3. RecoverAt(t, "staged", file)
  BY <1>1, RecoverKnown
<1>4. /\ fence = t /\ database = plan[t] /\ plan[t] # None
      /\ file \in DbFiles /\ file = staged[t] /\ file \in attempts[t]
  BY <1>1, <1>3 DEF RecoverAt, OldUnchanged, OldAtDatabase, SealedAt, StageInstalled
<1>5. /\ run' \in Commands /\ run' # None
      /\ run'.cmd = "recover" /\ run'.tx = t /\ run'.step = "moved" /\ run'.stage = file
  BY <1>1, RunGoes DEF Steps
<1>6. /\ incident' \in [Transactions -> DbFiles \cup {None}] /\ incident'[t] = database
      /\ \A u \in Transactions : u # t => incident'[u] = incident[u]
  BY <1>1 DEF RecoveryInv, RecoveryTypeOK
<1>7. fence' = fence
  BY <1>2 DEF avars
<1>8. FilesApart' /\ DatabaseWhole'
  BY <1>1, <1>2 DEF RecoveryInv, FilesApart, DatabaseWhole
<1>9. IncidentsTrue' /\ FencedHasIncident'
  BY <1>2, <1>4, <1>6, <1>7 DEF RecoveryInv, IncidentsTrue, FencedHasIncident
<1>10. RecoverAt(t, "moved", file)'
  BY <1>1, <1>2, <1>4, <1>6, <1>7 DEF RecoverAt, SealedAt, StageInstalled, OldAtDatabase
<1>11. QED
  BY <1>1, <1>2, <1>5, <1>6, <1>8, <1>9, <1>10, RecoverGoes, FilesInv
     DEF RecoveryInv, RecoveryTypeOK

\* What is installed is the sealed stage, from where nothing lay to where nothing lies.
LEMMA InstallStageInv ==
  ASSUME AdmissionInv, RecoveryInv, NEW p \in Procs, InstallStage(p)
  PROVE  RecoveryInv'
<1> PICK t \in Transactions : t = run.tx
  BY CommandInside DEF InstallStage, Doing
<1> PICK file \in DbFiles \cup {None} : file = run.stage
  BY CommandInside DEF InstallStage, Doing, Commands
<1>1. /\ stage[p] \in {"recovery", "fencing"} /\ run \in Commands /\ run # None
      /\ run.cmd = "recover" /\ run.step = "moved" /\ Goto("installed")
      /\ database = None /\ database' = file
      /\ attempts' = [attempts EXCEPT ![t] = @ \ {file}]
  BY CommandInside DEF InstallStage, Doing
<1>2. /\ UNCHANGED <<avars, journal, version, created, plan, incident>>
      /\ UNCHANGED <<staged, installed, accepted, completed>>
  BY DEF InstallStage
<1>3. RecoverAt(t, "moved", file)
  BY <1>1, RecoverKnown
<1>4. /\ fence = t /\ file \in DbFiles /\ file = staged[t] /\ file \in attempts[t]
      /\ file.data = Restored
  BY <1>1, <1>3 DEF RecoverAt, SealedAt, StageInstalled, RecoveryInv, RecordsAgree
<1>5. /\ run' \in Commands /\ run' # None
      /\ run'.cmd = "recover" /\ run'.tx = t /\ run'.step = "installed" /\ run'.stage = file
  BY <1>1, RunGoes DEF Steps
<1>6. /\ attempts' \in [Transactions -> SUBSET DbFiles]
      /\ \A u \in Transactions : \A f \in attempts'[u] :
           f \in attempts[u] /\ (u = t => f # file)
  BY <1>1 DEF RecoveryInv, RecoveryTypeOK
<1>7. fence' = fence
  BY <1>2 DEF avars
<1>8. FilesApart'
  <2>1. \A u \in Transactions : \A f \in attempts'[u] : f.id # file.id
    BY <1>4, <1>6 DEF RecoveryInv, FilesApart
  <2>2. QED
    BY <1>1, <1>2, <1>4, <1>6, <2>1 DEF RecoveryInv, FilesApart
<1>9. DatabaseWhole'
  BY <1>1, <1>2, <1>4, RecoveryAssumption DEF RecoveryInv, DatabaseWhole, Restored, Partial
<1>10. IncidentsTrue' /\ FencedHasIncident'
  BY <1>1, <1>2, <1>7 DEF RecoveryInv, IncidentsTrue, FencedHasIncident
<1>11. RecoverAt(t, "installed", file)'
  BY <1>4, <1>7 DEF RecoverAt
<1>12. QED
  BY <1>1, <1>2, <1>4, <1>5, <1>6, <1>8, <1>9, <1>10, <1>11, RecoverGoes, FilesInv
     DEF RecoveryInv, RecoveryTypeOK

-----------------------------------------------------------------------------
(* The invariant. *)

\* Every step of a process keeps the invariant.
LEMMA StepInv ==
  ASSUME AdmissionInv, RecoveryInv, NEW p \in Procs,
         RuntimeStep(p) \/ CallStep(p) \/ CommandStep(p) \/ CommandDies(p)
  PROVE  RecoveryInv'
<1>1. CASE RuntimeStep(p)
  BY <1>1, DoorInv, CreateInv, WriteInv DEF RuntimeStep
<1>2. CASE CallStep(p)
  BY <1>2, CallInv
<1>3. CASE CommandDies(p)
  BY <1>3, EndInv
<1>4. CASE CommandStep(p)
  <2>1. CASE Qualify(p) \/ RecoverReturns(p) \/ FinishReturns(p) \/ CommandRefuses(p)
    BY <2>1, QualifyInv, EndInv
  <2>2. CASE OpenFence(p) \/ FillFence(p) \/ Release(p)
    BY <2>2, OpenFenceInv, FillFenceInv, ReleaseInv
  <2>3. CASE RecoverChecked(p) \/ FindSealed(p) \/ IncidentMoved(p) \/ StageIsInstalled(p)
             \/ InstalledRecorded(p) \/ FinishChecked(p) \/ AlreadyAccepted(p)
    BY <2>3, RecoverCheckedInv, FindSealedInv, IncidentMovedInv, StageIsInstalledInv,
       InstalledRecordedInv, FinishCheckedInv, AlreadyAcceptedInv
  <2>4. CASE ReserveStage(p) \/ MigrateStage(p) \/ MoveIncident(p) \/ InstallStage(p)
    BY <2>4, ReserveStageInv, MigrateStageInv, MoveIncidentInv, InstallStageInv
  <2>5. CASE OpenStaged(p) \/ FillStaged(p) \/ OpenInstalled(p) \/ FillInstalled(p)
             \/ OpenAccepted(p) \/ FillAccepted(p)
    BY <2>5, OpenStagedInv, FillStagedInv, OpenInstalledInv, FillInstalledInv,
       OpenAcceptedInv, FillAcceptedInv
  <2>6. QED
    BY <1>4, <2>1, <2>2, <2>3, <2>4, <2>5 DEF CommandStep
<1>5. QED
  BY <1>1, <1>2, <1>3, <1>4

\* A step that does nothing keeps the invariant.
LEMMA StutterInv ==
  ASSUME RecoveryInv, UNCHANGED vars
  PROVE  RecoveryInv'
<1>1. UNCHANGED <<avars, disk, fence>> /\ run' = run /\ mutex' = mutex /\ stage' = stage
  BY DEF vars, avars
<1>2. UNCHANGED <<database, plan, incident, attempts, staged, installed, accepted>>
  BY <1>1 DEF disk, work
<1>3. RunInside' /\ QualifyKnows'
  BY <1>1 DEF RecoveryInv, RunInside, QualifyKnows
<1>4. RecoverKnows' /\ FinishKnows'
  BY <1>1, <1>2
     DEF RecoveryInv, RecoverKnows, RecoverAt, FinishKnows, FinishAt, OldUnchanged,
         OldAtDatabase, SealedAt, StageInstalled
<1>5. run' \in Commands \cup {None}
  BY <1>1 DEF RecoveryInv, RecoveryTypeOK
<1>6. QED
  BY <1>1, <1>3, <1>4, <1>5, DiskKept, DiskTypeKept DEF RecoveryInv

RInv == AdmissionInv /\ RecoveryInv

\* The invariant is inductive.
LEMMA NextRecoveryInv == RInv /\ [Next]_vars => RInv'
<1> SUFFICES ASSUME RInv, [Next]_vars PROVE RInv'
  OBVIOUS
<1>1. AdmissionInv'
  BY StepsAreAdmitted, NextAdmissionInv DEF RInv
<1>2. RecoveryInv'
  BY StepInv, StutterInv DEF RInv, Next
<1>3. QED
  BY <1>1, <1>2 DEF RInv

\* The invariant holds before anything has run.
LEMMA InitRInv == Init => RInv
  BY InitAdmissionInv, InitRecoveryInv DEF RInv, Init

-----------------------------------------------------------------------------
(* Theorems about the recovery. *)

\* In every reachable state the processes are where the admission allows them, and the
\* disk and the running command are as the invariant says (forward_recovery.py:769).
THEOREM RecoveryInvariant == Spec => []RInv
  BY InitRInv, NextRecoveryInv, PTL DEF Spec

\* The runtime and the recovery commands, taken together, are processes of the
\* admission: whatever holds of the admission holds of them (database_admission.py:62).
THEOREM RecoveryIsAdmitted == Spec => AdmissionSpec
<1>1. Init => AdmissionInit
  BY DEF Init
<1>2. RInv /\ [Next]_vars => [AdmissionNext]_avars
  BY StepsAreAdmitted DEF RInv
<1>3. QED
  BY <1>1, <1>2, RecoveryInvariant, PTL DEF Spec, AdmissionSpec

\* For any number of commands, crashes and competing plans, the incident database of a
\* transaction is never lost (forward_recovery.py:859).
THEOREM IncidentsKept == Spec => []IncidentKept
<1>1. RInv => IncidentKept
  BY DEF RInv, RecoveryInv, IncidentKept, IncidentsTrue, FencedHasIncident
<1>2. QED
  BY <1>1, RecoveryInvariant, PTL

\* The runtime runs only on a database that no unfinished recovery has touched
\* (database_admission.py:3).
THEOREM RuntimeSettled == Spec => []RuntimeOnSettledDatabase
<1> SUFFICES ASSUME RInv PROVE RuntimeOnSettledDatabase
  BY RecoveryInvariant, PTL
<1> SUFFICES ASSUME NEW p \in Procs, NEW t \in Transactions, stage[p] = "admitted"
             PROVE  /\ incident[t] # None => completed[t]
                    /\ database # None => database \notin attempts[t] /\ database.data # Partial
  BY DEF RuntimeOnSettledDatabase
<1>1. fence # t
  BY RuntimeAlone DEF RInv
<1>2. incident[t] # None => completed[t]
  BY <1>1 DEF RInv, RecoveryInv, IncidentsTrue
<1>3. database # None => database \notin attempts[t] /\ database.data # Partial
  BY DEF RInv, RecoveryInv, FilesApart, DatabaseWhole
<1>4. QED
  BY <1>2, <1>3

\* What was sealed is what was installed, accepted and completed
\* (forward_recovery.py:773).
THEOREM SealedHolds == Spec => []Sealed
<1>1. RInv => Sealed
  BY DEF RInv, RecoveryInv, RecordsAgree, Sealed
<1>2. QED
  BY <1>1, RecoveryInvariant, PTL

\* No repetition of a command seals, recreates or migrates a sealed stage
\* (forward_recovery.py:773).
THEOREM SealedForGood == Spec => SealedOnce
<1>1. RInv /\ [Next]_vars =>
        [\A t \in Transactions :
           staged[t] \in DbFiles => staged'[t] = staged[t] /\ attempts'[t] \subseteq attempts[t]]_vars
  <2> SUFFICES ASSUME RInv, [Next]_vars, NEW t \in Transactions, staged[t] \in DbFiles
               PROVE  staged'[t] = staged[t] /\ attempts'[t] \subseteq attempts[t]
    OBVIOUS
  <2>1. CASE UNCHANGED vars
    BY <2>1 DEF vars, disk, work
  <2>2. CASE Next
    <3> PICK p \in Procs : RuntimeStep(p) \/ CallStep(p) \/ CommandStep(p) \/ CommandDies(p)
      BY <2>2 DEF Next
    <3>1. CASE ReserveStage(p) \/ MigrateStage(p) \/ OpenStaged(p) \/ FillStaged(p)
      <4>1. /\ stage[p] \in {"recovery", "fencing"} /\ run # None /\ run.cmd = "recover"
            /\ \/ run.step \in {"building", "built", "sealing"}
               \/ staged[run.tx] = None
        BY <3>1 DEF ReserveStage, Unsealed, MigrateStage, OpenStaged, FillStaged, Doing
      <4>2. run # None /\ run.tx \in Transactions
        BY <4>1, CommandInside DEF RInv
      <4>3. staged[run.tx] \in {None, Torn}
        BY <4>1, <4>2, RecoverKnown DEF RInv, RecoverAt
      <4>4. t # run.tx
        BY <4>3, RecoveryAssumption
      <4>5. QED
        BY <3>1, <4>2, <4>4 DEF ReserveStage, MigrateStage, OpenStaged, FillStaged, RInv,
                                RecoveryInv, RecoveryTypeOK
    <3>2. CASE ~(ReserveStage(p) \/ MigrateStage(p) \/ OpenStaged(p) \/ FillStaged(p))
      <4>1. CASE RuntimeStep(p)
        BY <4>1 DEF RuntimeStep, StartRuntime, AdmitRuntime, RefuseRuntime, CreateDatabase,
                    BeginWrite, CommitWrite, StopRuntime, RuntimeDies, disk, work
      <4>2. CASE CallStep(p) \/ CommandDies(p)
        BY <4>2 DEF CallStep, Call, CommandDies, disk, work
      <4>3. CASE CommandStep(p)
        <5>1. CASE Qualify(p) \/ RecoverReturns(p) \/ FinishReturns(p) \/ CommandRefuses(p)
                   \/ OpenFence(p) \/ FillFence(p) \/ Release(p)
          BY <5>1 DEF Qualify, RecoverReturns, FinishReturns, CommandRefuses, OpenFence,
                      FillFence, Release, disk, work
        <5>2. CASE RecoverChecked(p) \/ FindSealed(p) \/ IncidentMoved(p)
                   \/ StageIsInstalled(p) \/ InstalledRecorded(p) \/ FinishChecked(p)
                   \/ AlreadyAccepted(p)
          BY <5>2 DEF RecoverChecked, FindSealed, IncidentMoved, StageIsInstalled,
                      InstalledRecorded, FinishChecked, AlreadyAccepted, Check, disk, work
        <5>3. CASE MoveIncident(p) \/ InstallStage(p) \/ OpenInstalled(p) \/ FillInstalled(p)
                   \/ OpenAccepted(p) \/ FillAccepted(p)
          BY <5>3 DEF MoveIncident, InstallStage, OpenInstalled, FillInstalled, OpenAccepted,
                      FillAccepted, RInv, RecoveryInv, RecoveryTypeOK
        <5>4. QED
          BY <3>2, <4>3, <5>1, <5>2, <5>3 DEF CommandStep
      <4>4. QED
        BY <4>1, <4>2, <4>3
    <3>3. QED
      BY <3>1, <3>2
  <2>3. QED
    BY <2>1, <2>2
<1>2. QED
  BY <1>1, RecoveryInvariant, PTL DEF Spec, SealedOnce

\* Whatever file a recovery takes away is kept, with no journal left behind
\* (forward_recovery.py:785).
THEOREM DisplacedKept == Spec => DisplacedDatabaseKept
<1>1. RInv /\ [Next]_vars =>
        [database # None /\ (database' = None \/ database'.id # database.id) =>
           ~journal /\ \E t \in Transactions : incident'[t] = database]_vars
  <2> SUFFICES ASSUME RInv, [Next]_vars, database # None,
                      database' = None \/ database'.id # database.id
               PROVE  ~journal /\ \E t \in Transactions : incident'[t] = database
    OBVIOUS
  <2>1. database' # database
    OBVIOUS
  <2>2. CASE UNCHANGED vars
    BY <2>1, <2>2 DEF vars, disk
  <2>3. CASE Next
    <3> PICK p \in Procs : RuntimeStep(p) \/ CallStep(p) \/ CommandStep(p) \/ CommandDies(p)
      BY <2>3 DEF Next
    <3>1. CASE MoveIncident(p)
      <4>1. run.tx \in Transactions /\ ~journal
            /\ incident' = [incident EXCEPT ![run.tx] = database]
        BY <3>1, CommandInside DEF MoveIncident, Doing, SidecarFree, RInv
      <4>2. incident'[run.tx] = database
        BY <4>1 DEF RInv, RecoveryInv, RecoveryTypeOK
      <4>3. QED
        BY <4>1, <4>2
    <3>2. CASE CommitWrite(p)
      <4>1. database \in DbFiles /\ database' = [database EXCEPT !.data = version']
        BY <3>2 DEF CommitWrite, RInv, RecoveryInv, RecoveryTypeOK
      <4>2. database' # None
        <5>1. version' \in 0..MaxVersion
          BY <3>2, RecoveryAssumption DEF CommitWrite, RInv, RecoveryInv, RecoveryTypeOK
        <5>2. QED
          BY <4>1, <5>1, RecoveryAssumption DEF DbFiles
      <4>3. database'.id = database.id
        BY <4>1 DEF DbFiles
      <4>4. QED
        BY <4>2, <4>3
    <3>3. CASE ~(MoveIncident(p) \/ CommitWrite(p))
      <4>1. CASE RuntimeStep(p)
        BY <2>1, <3>3, <4>1
           DEF RuntimeStep, StartRuntime, AdmitRuntime, RefuseRuntime, CreateDatabase,
               BeginWrite, StopRuntime, RuntimeDies, disk
      <4>2. CASE CallStep(p) \/ CommandDies(p)
        BY <2>1, <4>2 DEF CallStep, Call, CommandDies, disk
      <4>3. CASE CommandStep(p)
        <5>1. CASE Qualify(p) \/ RecoverReturns(p) \/ FinishReturns(p) \/ CommandRefuses(p)
                   \/ OpenFence(p) \/ FillFence(p) \/ Release(p)
          BY <2>1, <5>1 DEF Qualify, RecoverReturns, FinishReturns, CommandRefuses, OpenFence,
                            FillFence, Release, disk
        <5>2. CASE RecoverChecked(p) \/ FindSealed(p) \/ IncidentMoved(p)
                   \/ StageIsInstalled(p) \/ InstalledRecorded(p) \/ FinishChecked(p)
                   \/ AlreadyAccepted(p)
          BY <2>1, <5>2
             DEF RecoverChecked, FindSealed, IncidentMoved, StageIsInstalled,
                 InstalledRecorded, FinishChecked, AlreadyAccepted, Check, disk
        <5>3. CASE ReserveStage(p) \/ MigrateStage(p) \/ InstallStage(p)
                   \/ OpenStaged(p) \/ FillStaged(p) \/ OpenInstalled(p) \/ FillInstalled(p)
                   \/ OpenAccepted(p) \/ FillAccepted(p)
          BY <2>1, <5>3
             DEF ReserveStage, MigrateStage, InstallStage, OpenStaged, FillStaged,
                 OpenInstalled, FillInstalled, OpenAccepted, FillAccepted
        <5>4. QED
          BY <3>3, <4>3, <5>1, <5>2, <5>3 DEF CommandStep
      <4>4. QED
        BY <4>1, <4>2, <4>3
    <3>4. QED
      BY <3>1, <3>2, <3>3
  <2>4. QED
    BY <2>2, <2>3
<1>2. QED
  BY <1>1, RecoveryInvariant, PTL DEF Spec, DisplacedDatabaseKept


=============================================================================
