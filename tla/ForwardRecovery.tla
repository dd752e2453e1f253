---------------------------- MODULE ForwardRecovery ----------------------------
(***************************************************************************)
(* The offline forward recovery: qualify a plan for the live database,     *)
(* recover (fence, build and seal a migrated stage, move the incident      *)
(* database away, install the stage, record it), resume after a crash at   *)
(* any point, finish (accept, retire the fence); and the runtime, which    *)
(* Start admits under the same admission and which edits the database.     *)
(*                                                                         *)
(* A database file is its NTFS identity and its content.  A record file is *)
(* None, Torn (created, not written) or what it records.                   *)
(***************************************************************************)
EXTENDS Admission

CONSTANTS MaxFiles,     \* bound: database files ever created
          MaxVersion,   \* bound: contents the runtime writes
          MaxFailures   \* bound: commands that die or raise part-way

DbFiles == [id: 0..MaxFiles, data: 0..MaxVersion]

Steps ==
  {"entered", "fencing", "fenced", "building", "built", "sealing", "staged", "moved",
   "installed", "recording", "recorded", "checked", "accepting", "accepted"}

Commands ==
  [cmd: {"qualify", "recover", "finish"}, tx: Transactions, resume: BOOLEAN,
   step: Steps, stage: DbFiles \cup {None}]

ASSUME RecoveryAssumption ==
  /\ MaxFiles \in Nat \ {0} /\ MaxVersion \in Nat \ {0, 1} /\ MaxFailures \in Nat
  /\ None \notin DbFiles \cup Commands /\ Torn \notin DbFiles

VARIABLES database,   \* the file at the production path
          journal,    \* a rollback journal lies beside it
          version,    \* last content the runtime wrote
          created,    \* database files created so far
          plan,       \* plan.json: the live database a transaction is qualified for
          incident,   \* incident.db of each transaction
          attempts,   \* stage-*.db files of each transaction
          staged, installed, accepted,   \* its records
          completed,  \* completed-fence.json of each transaction
          run,        \* the command the mutex's owner executes
          failures

work == <<plan, incident, attempts, staged, installed, accepted, completed>>
disk == <<database, journal, version, created, work>>
vars == <<avars, disk, run, failures>>

\* Contents: an unfinished stage, the migrated checkpoint, what the runtime wrote.
Partial == 0
Restored == 1

Init ==
  /\ AdmissionInit
  /\ database = None /\ journal = FALSE
  /\ version = Restored /\ created = 0
  /\ plan = [t \in Transactions |-> None]
  /\ incident = [t \in Transactions |-> None]
  /\ attempts = [t \in Transactions |-> {}]
  /\ staged = [t \in Transactions |-> None]
  /\ installed = [t \in Transactions |-> None]
  /\ accepted = [t \in Transactions |-> None]
  /\ completed = [t \in Transactions |-> FALSE]
  /\ run = None
  /\ failures = 0

-----------------------------------------------------------------------------
(* The runtime. *)

StartRuntime(p) == Start(p) /\ UNCHANGED <<disk, run, failures>>

AdmitRuntime(p) == Admit(p) /\ UNCHANGED <<disk, run, failures>>

RefuseRuntime(p) == Refuse(p) /\ UNCHANGED <<disk, run, failures>>

\* SQLite creates the database a runtime opens when there is none.
CreateDatabase(p) ==
  /\ stage[p] = "admitted" /\ database = None
  /\ created < MaxFiles /\ version < MaxVersion
  /\ version' = version + 1 /\ created' = created + 1
  /\ database' = [id |-> created', data |-> version']
  /\ UNCHANGED <<avars, journal, work, run, failures>>

\* A write transaction opens its journal, or first rolls back the one it finds.
BeginWrite(p) ==
  /\ stage[p] = "admitted" /\ database # None
  /\ journal' = ~journal
  /\ UNCHANGED <<avars, database, version, created, work, run, failures>>

CommitWrite(p) ==
  /\ stage[p] = "admitted" /\ journal
  /\ version < MaxVersion
  /\ version' = version + 1
  /\ database' = [database EXCEPT !.data = version']
  /\ journal' = FALSE
  /\ UNCHANGED <<avars, created, work, run, failures>>

StopRuntime(p) ==
  /\ stage[p] = "admitted" /\ ~journal
  /\ LeaveMutex(p)
  /\ UNCHANGED <<fence, disk, run, failures>>

RuntimeDies(p) ==
  /\ stage[p] \in {"locking", "admitted"}
  /\ failures < MaxFailures /\ failures' = failures + 1
  /\ Die(p)
  /\ UNCHANGED <<disk, run>>

-----------------------------------------------------------------------------
(* Commands.  Every command owns the mutex from beginning to end; whatever it *)
(* has open keeps others from changing it.                                    *)

Call(p, cmd, t, resume) ==
  /\ StartRecovery(p)
  /\ run' = [cmd |-> cmd, tx |-> t, resume |-> resume, step |-> "entered", stage |-> None]
  /\ UNCHANGED <<disk, failures>>

Leave(p) == LeaveRecovery(p) /\ run' = None /\ UNCHANGED failures

\* An error or a crash part-way through a command: what is on disk stays.
CommandDies(p) ==
  /\ run # None /\ stage[p] \in {"recovery", "fencing"}
  /\ failures < MaxFailures /\ failures' = failures + 1
  /\ Die(p)
  /\ run' = None
  /\ UNCHANGED disk

Doing(p, cmd, step) ==
  /\ stage[p] \in {"recovery", "fencing"}
  /\ run # None /\ run.cmd = cmd /\ run.step = step

Goto(step) == run' = [run EXCEPT !.step = step]

\* Nothing changes but the command's own progress.
Check(p, cmd, step, next) ==
  Doing(p, cmd, step) /\ Goto(next) /\ UNCHANGED <<avars, disk, failures>>

\* Mutant of SidecarFree: a journal is ignored.
SidecarIgnored == TRUE

SidecarFree == ~journal

-----------------------------------------------------------------------------
Qualifies(t) ==
  plan[t] = None /\ fence = None /\ SidecarFree /\ database # None

Qualify(p) ==
  /\ Doing(p, "qualify", "entered") /\ Qualifies(run.tx)
  /\ plan' = [plan EXCEPT ![run.tx] = database]
  /\ Leave(p)
  /\ UNCHANGED <<fence, database, journal, version, created,
                 incident, attempts, staged, installed, accepted, completed>>

-----------------------------------------------------------------------------
(* recover and resume. *)

Finished(t) == accepted[t] # None /\ fence = None

OldAtDatabase(t) == incident[t] = None

\* Mutant of OldUnchanged: only the identity of the old database is compared.
OldIdentity(t) ==
  LET old == IF OldAtDatabase(t) THEN database ELSE incident[t] IN
  old # None /\ old.id = plan[t].id

OldUnchanged(t) ==
  (IF OldAtDatabase(t) THEN database ELSE incident[t]) = plan[t]

FenceAgrees(t, resume) ==
  IF fence = None THEN ~resume /\ staged[t] = None ELSE resume /\ fence = t

Recovers(t, resume) ==
  /\ plan[t] # None /\ ~Finished(t)
  /\ FenceAgrees(t, resume)
  /\ SidecarFree
  /\ staged[t] # Torn
  /\ OldUnchanged(t)

RecoverChecked(p) ==
  /\ Check(p, "recover", "entered", IF fence = None THEN "fencing" ELSE "fenced")
  /\ Recovers(run.tx, run.resume)

OpenFence(p) ==
  /\ Doing(p, "recover", "fencing") /\ CreateFence(p)
  /\ UNCHANGED <<disk, run, failures>>

FillFence(p) ==
  /\ Doing(p, "recover", "fencing") /\ WriteFence(p, run.tx)
  /\ Goto("fenced")
  /\ UNCHANGED <<disk, failures>>

\* Mutant of Unsealed: a resume builds a new stage although one is sealed.
UnsealedAnyway(t) == OldAtDatabase(t)

Unsealed(t) == staged[t] = None /\ OldAtDatabase(t)

\* CREATE_NEW of a stage under a fresh name: the one of an earlier attempt stays.
ReserveStage(p) ==
  /\ Doing(p, "recover", "fenced") /\ Unsealed(run.tx)
  /\ created < MaxFiles
  /\ created' = created + 1
  /\ LET new == [id |-> created', data |-> Partial] IN
       /\ attempts' = [attempts EXCEPT ![run.tx] = @ \cup {new}]
       /\ run' = [run EXCEPT !.step = "building", !.stage = new]
  /\ UNCHANGED <<avars, database, journal, version,
                 plan, incident, staged, installed, accepted, completed, failures>>

Migrated(file) == [file EXCEPT !.data = Restored]

\* The checkpoint is copied, migrated and validated.
MigrateStage(p) ==
  /\ Doing(p, "recover", "building")
  /\ attempts' = [attempts EXCEPT ![run.tx] = (@ \ {run.stage}) \cup {Migrated(run.stage)}]
  /\ run' = [run EXCEPT !.step = "built", !.stage = Migrated(run.stage)]
  /\ UNCHANGED <<avars, database, journal, version, created,
                 plan, incident, staged, installed, accepted, completed, failures>>

\* Every record is created exclusively: one that is there already is an error.
OpenStaged(p) ==
  /\ Doing(p, "recover", "built") /\ staged[run.tx] = None
  /\ staged' = [staged EXCEPT ![run.tx] = Torn]
  /\ Goto("sealing")
  /\ UNCHANGED <<avars, database, journal, version, created,
                 plan, incident, attempts, installed, accepted, completed, failures>>

FillStaged(p) ==
  /\ Doing(p, "recover", "sealing")
  /\ staged' = [staged EXCEPT ![run.tx] = run.stage]
  /\ Goto("staged")
  /\ UNCHANGED <<avars, database, journal, version, created,
                 plan, incident, attempts, installed, accepted, completed, failures>>

\* Where a sealed stage is looked for: at the production path once the incident has
\* left it and something else lies there.
StageInstalled(t) == ~OldAtDatabase(t) /\ database # None

\* Mutant of SealedAt: a resume looks for the stage in the transaction directory only.
SealedInWork(t) == staged[t] \in attempts[t]

SealedAt(t) ==
  IF StageInstalled(t) THEN database = staged[t] ELSE staged[t] \in attempts[t]

FindSealed(p) ==
  LET t == run.tx IN
  /\ Doing(p, "recover", "fenced")
  /\ staged[t] # None /\ SealedAt(t)
  /\ run' = [run EXCEPT !.step = "staged", !.stage = staged[t]]
  /\ UNCHANGED <<avars, disk, failures>>

\* The handle-bound renames never overwrite.
MoveIncident(p) ==
  LET t == run.tx IN
  /\ Doing(p, "recover", "staged") /\ SidecarFree
  /\ OldAtDatabase(t)
  /\ incident' = [incident EXCEPT ![t] = database]
  /\ database' = None
  /\ Goto("moved")
  /\ UNCHANGED <<avars, journal, version, created,
                 plan, attempts, staged, installed, accepted, completed, failures>>

IncidentMoved(p) ==
  Check(p, "recover", "staged", "moved") /\ SidecarFree /\ ~OldAtDatabase(run.tx)

InstallStage(p) ==
  LET t == run.tx IN
  /\ Doing(p, "recover", "moved")
  /\ database = None
  /\ database' = run.stage
  /\ attempts' = [attempts EXCEPT ![t] = @ \ {run.stage}]
  /\ Goto("installed")
  /\ UNCHANGED <<avars, journal, version, created,
                 plan, incident, staged, installed, accepted, completed, failures>>

StageIsInstalled(p) ==
  Check(p, "recover", "moved", "installed") /\ database # None

ReadBack(t) == incident[t] = plan[t] /\ database = staged[t]

OpenInstalled(p) ==
  LET t == run.tx IN
  /\ Doing(p, "recover", "installed") /\ ReadBack(t)
  /\ installed[t] = None
  /\ installed' = [installed EXCEPT ![t] = Torn]
  /\ Goto("recording")
  /\ UNCHANGED <<avars, database, journal, version, created,
                 plan, incident, attempts, staged, accepted, completed, failures>>

\* Mutant of FillInstalled: the receipt names the old database.
FillInstalledOld(p) ==
  LET t == run.tx IN
  /\ Doing(p, "recover", "recording")
  /\ installed' = [installed EXCEPT ![t] = plan[t]]
  /\ Goto("recorded")
  /\ UNCHANGED <<avars, database, journal, version, created,
                 plan, incident, attempts, staged, accepted, completed, failures>>

FillInstalled(p) ==
  LET t == run.tx IN
  /\ Doing(p, "recover", "recording")
  /\ installed' = [installed EXCEPT ![t] = staged[t]]
  /\ Goto("recorded")
  /\ UNCHANGED <<avars, database, journal, version, created,
                 plan, incident, attempts, staged, accepted, completed, failures>>

InstalledRecorded(p) ==
  /\ Check(p, "recover", "installed", "recorded")
  /\ ReadBack(run.tx) /\ installed[run.tx] = staged[run.tx]

RecoverReturns(p) ==
  Doing(p, "recover", "recorded") /\ Leave(p) /\ UNCHANGED <<fence, disk>>

-----------------------------------------------------------------------------
(* finish. *)

Reconciled(t) ==
  /\ fence = t
  /\ installed[t] \in DbFiles
  /\ SidecarFree
  /\ database = installed[t] /\ database.data = Restored
  /\ incident[t] = plan[t]

FinishChecked(p) == Check(p, "finish", "entered", "checked") /\ Reconciled(run.tx)

OpenAccepted(p) ==
  LET t == run.tx IN
  /\ Doing(p, "finish", "checked") /\ accepted[t] = None
  /\ accepted' = [accepted EXCEPT ![t] = Torn]
  /\ Goto("accepting")
  /\ UNCHANGED <<avars, database, journal, version, created,
                 plan, incident, attempts, staged, installed, completed, failures>>

FillAccepted(p) ==
  LET t == run.tx IN
  /\ Doing(p, "finish", "accepting")
  /\ accepted' = [accepted EXCEPT ![t] = installed[t]]
  /\ Goto("accepted")
  /\ UNCHANGED <<avars, database, journal, version, created,
                 plan, incident, attempts, staged, installed, completed, failures>>

AlreadyAccepted(p) ==
  Check(p, "finish", "checked", "accepted") /\ accepted[run.tx] = installed[run.tx]

\* The fence file becomes completed-fence.json.
Release(p) ==
  /\ Doing(p, "finish", "accepted") /\ RetireFence(p)
  /\ completed' = [completed EXCEPT ![run.tx] = TRUE]
  /\ Goto("recorded")
  /\ UNCHANGED <<database, journal, version, created,
                 plan, incident, attempts, staged, installed, accepted, failures>>

FinishReturns(p) ==
  Doing(p, "finish", "recorded") /\ Leave(p) /\ UNCHANGED <<fence, disk>>

-----------------------------------------------------------------------------
\* A command refuses, or reports what it finds to be finished already.
Refusal(t) ==
  CASE run.cmd = "qualify" -> run.step = "entered" /\ ~Qualifies(t)
    [] run.cmd = "recover" ->
         \/ run.step = "entered" /\ ~Recovers(t, run.resume)
         \/ run.step = "fenced" /\ ~Unsealed(t) /\ ~SealedAt(t)
         \/ run.step = "installed" /\ ~(ReadBack(t) /\ installed[t] \in {None, staged[t]})
    [] run.cmd = "finish" ->
         \/ run.step = "entered" /\ ~Reconciled(t)
         \/ run.step = "checked" /\ accepted[t] \notin {None, installed[t]}

CommandRefuses(p) ==
  /\ run # None /\ stage[p] = "recovery" /\ Refusal(run.tx)
  /\ Leave(p)
  /\ UNCHANGED <<fence, disk>>

RuntimeStep(p) ==
  \/ StartRuntime(p) \/ AdmitRuntime(p) \/ RefuseRuntime(p) \/ CreateDatabase(p)
  \/ BeginWrite(p) \/ CommitWrite(p) \/ StopRuntime(p) \/ RuntimeDies(p)

CallStep(p) ==
  \E t \in Transactions :
    \/ Call(p, "qualify", t, FALSE)
    \/ \E resume \in BOOLEAN : Call(p, "recover", t, resume)
    \/ Call(p, "finish", t, FALSE)

CommandStep(p) ==
  \/ Qualify(p) \/ RecoverChecked(p) \/ OpenFence(p) \/ FillFence(p)
  \/ ReserveStage(p) \/ MigrateStage(p) \/ OpenStaged(p) \/ FillStaged(p)
  \/ FindSealed(p) \/ MoveIncident(p) \/ IncidentMoved(p)
  \/ InstallStage(p) \/ StageIsInstalled(p)
  \/ OpenInstalled(p) \/ FillInstalled(p) \/ InstalledRecorded(p) \/ RecoverReturns(p)
  \/ FinishChecked(p) \/ OpenAccepted(p) \/ FillAccepted(p) \/ AlreadyAccepted(p)
  \/ Release(p) \/ FinishReturns(p)
  \/ CommandRefuses(p)

Next ==
  \E p \in Procs : RuntimeStep(p) \/ CallStep(p) \/ CommandStep(p) \/ CommandDies(p)

Spec == Init /\ [][Next]_vars

(***************************************************************************)
(* A command that runs goes on, Start is refused at once, and the operator *)
(* keeps calling resume and finish for the transaction the fence names, as *)
(* the runbook says (docs/OWNER_RUNTIME_OPERATIONS.md:1090).               *)
(***************************************************************************)
Operator ==
  \A t \in Transactions :
    /\ SF_vars(\E p \in Procs : Call(p, "recover", t, TRUE) /\ fence = t)
    /\ SF_vars(\E p \in Procs : Call(p, "finish", t, FALSE) /\ fence = t)

FairSpec ==
  /\ Spec
  /\ \A p \in Procs : WF_vars(CommandStep(p)) /\ WF_vars(RefuseRuntime(p))
  /\ Operator

-----------------------------------------------------------------------------
(* Properties. *)

\* The incident database of a transaction is never lost: from the fence on its exact
\* file is at the production path or in the transaction directory, and once it has
\* left the production path it stays where it was moved (forward_recovery.py:859).
IncidentKept ==
  \A t \in Transactions :
    /\ fence = t => database = plan[t] \/ incident[t] = plan[t]
    /\ incident[t] # None => incident[t] = plan[t]

\* The runtime runs only on a database that no unfinished recovery has touched
\* (database_admission.py:3).
RuntimeOnSettledDatabase ==
  \A p \in Procs, t \in Transactions :
    stage[p] = "admitted" =>
      /\ incident[t] # None => completed[t]
      /\ database # None => database \notin attempts[t] /\ database.data # Partial

\* A sealed stage is never rebuilt or migrated again, and it is what was installed and
\* accepted (forward_recovery.py:773).
Sealed ==
  \A t \in Transactions :
    /\ installed[t] \in DbFiles => installed[t] = staged[t]
    /\ accepted[t] \in DbFiles => accepted[t] = staged[t]
    /\ completed[t] => accepted[t] = staged[t] /\ staged[t].data = Restored

\* Once a stage is sealed, no resume, retry or other plan seals, recreates or migrates one
\* for that transaction again (forward_recovery.py:773).
SealedOnce ==
  [][\A t \in Transactions :
       staged[t] \in DbFiles => staged'[t] = staged[t] /\ attempts'[t] \subseteq attempts[t]]_vars

\* Whatever file a recovery takes away from the production path, with every commit of
\* the runtime in it and no journal left behind, is kept: also when a plan is old, when
\* a finished transaction is recovered again, or when two plans compete
\* (forward_recovery.py:785).
DisplacedDatabaseKept ==
  [][database # None /\ (database' = None \/ database'.id # database.id) =>
       ~journal /\ \E t \in Transactions : incident'[t] = database]_vars

\* Unless a record was torn by a crash, a fenced transaction completes, however often
\* its commands die: resume and finish pick up where it stopped
\* (docs/OWNER_RUNTIME_OPERATIONS.md:1124).
FencedCompletes ==
  \A t \in Transactions :
    fence = t ~> completed[t] \/ Torn \in {staged[t], installed[t], accepted[t]}

=============================================================================
