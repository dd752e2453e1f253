----------------------------- MODULE BackupRestore -----------------------------
(***************************************************************************)
(* Backups of the live database and restores from them, under the          *)
(* admission control of Maintenance: sessions that commit edits and issue  *)
(* forms, creation of a backup (reserve a name, snapshot to a temporary    *)
(* file, publish by rename) and a restore (stage a copy, save the live     *)
(* database, close the pool, replace the file), which may fail at any      *)
(* step, and a process that may die at any step.                           *)
(*                                                                         *)
(* A database is its version: the number of the commit that wrote it.      *)
(***************************************************************************)
EXTENDS Maintenance

CONSTANTS BackupIds,    \* file names a backup may take
          Reserved,     \* an empty file that holds a name
          MaxVersion,   \* bound: commits
          MaxFiles      \* bound: files installed as the live database

Versions == 0..MaxVersion
Files == 0..MaxFiles

VARIABLES live,      \* the version in the live database file
          file,      \* which file the live database is: one more at each replacement
          latest,    \* the last version committed by any session
          pooled,    \* the file the engine's pooled connection has open, or None
          backups,   \* file under each backup name: None, Reserved or a version
          forms,     \* forms held by clients
          job,       \* what each admitted worker does
          reply      \* the last answer to a restore request

files == <<live, file, latest, pooled, backups>>
vars == <<mvars, files, forms, job, reply>>

NoJob == [op |-> None]
SessionJob == [op |-> "session"]  \* edits, reads and listings

ASSUME BackupAssumption ==
  /\ None \notin BackupIds \cup Versions \cup Files \cup {Reserved}
  /\ Reserved \notin Versions
  /\ None \notin {"session", "backup", "restore"}
  /\ MaxVersion \in Nat /\ MaxFiles \in Nat

Init ==
  /\ MaintenanceInit
  /\ live = 0 /\ file = 0 /\ latest = 0
  /\ pooled = None
  /\ backups = [b \in BackupIds |-> None]
  /\ forms = {}
  /\ job = [w \in Workers |-> NoJob]
  /\ reply = None

-----------------------------------------------------------------------------
FormIdentity == [incarnation |-> formIncarnation, epoch |-> formEpoch]

NewJob(op, from) == [op |-> op, stage |-> "begin", from |-> from, staged |-> None,
                     name |-> None, copy |-> None, began |-> file]

Within(w, op, stage) == job[w].op = op /\ job[w].stage = stage

\* A connection from the pool: the one that is open, or a new one.
Connected == IF pooled = None THEN file ELSE pooled

-----------------------------------------------------------------------------
(* Sessions. *)

BeginSession(w) ==
  /\ EnterOperation(w)
  /\ job' = [job EXCEPT ![w] = SessionJob]
  /\ pooled' = Connected
  /\ UNCHANGED <<live, file, latest, backups, forms, reply>>

\* A commit through a pooled connection reaches the file it has open.
CommitEdit(w) ==
  /\ pc[w] = "operating" /\ job[w].op = "session"
  /\ latest < MaxVersion
  /\ latest' = latest + 1
  /\ live' = IF pooled = file THEN latest' ELSE live
  /\ UNCHANGED <<mvars, file, pooled, backups, forms, job, reply>>

\* A response carries a form bound to the identity stamped on the session.
IssueForm(w) ==
  /\ pc[w] = "operating" /\ job[w].op = "session"
  /\ forms' = forms \cup {[identity |-> FormIdentity, file |-> file]}
  /\ UNCHANGED <<mvars, files, job, reply>>

EndSession(w) ==
  /\ LeaveOperation(w)
  /\ job[w].op = "session"
  /\ job' = [job EXCEPT ![w] = NoJob]
  /\ UNCHANGED <<files, forms, reply>>

-----------------------------------------------------------------------------
(* _create_backup, called by create_backup and, inside a restore, by       *)
(* _restore_backup.                                                        *)

BeginBackup(w) ==
  /\ EnterOperation(w)
  /\ job' = [job EXCEPT ![w] = NewJob("backup", None)]
  /\ UNCHANGED <<files, forms, reply>>

ReadyToReserve(w) == Within(w, "backup", "begin") \/ Within(w, "restore", "staged")

\* Mutant of ReserveName: the name is taken without O_EXCL.
ReserveAnyName(w) ==
  /\ ReadyToReserve(w)
  /\ \E b \in BackupIds :
       /\ backups' = [backups EXCEPT ![b] = Reserved]
       /\ job' = [job EXCEPT ![w].stage = "reserved", ![w].name = b]
  /\ UNCHANGED <<mvars, live, file, latest, pooled, forms, reply>>

ReserveName(w) ==
  /\ ReadyToReserve(w)
  /\ \E b \in BackupIds :
       /\ backups[b] = None
       /\ backups' = [backups EXCEPT ![b] = Reserved]
       /\ job' = [job EXCEPT ![w].stage = "reserved", ![w].name = b]
  /\ UNCHANGED <<mvars, live, file, latest, pooled, forms, reply>>

\* SQLite's online backup reads one consistent version.
Snapshot(w) ==
  /\ job[w].op \in {"backup", "restore"} /\ job[w].stage = "reserved"
  /\ job' = [job EXCEPT ![w].stage = "copied", ![w].copy = live]
  /\ pooled' = Connected
  /\ UNCHANGED <<mvars, live, file, latest, backups, forms, reply>>

Publish(w) ==
  /\ job[w].op \in {"backup", "restore"} /\ job[w].stage = "copied"
  /\ backups' = [backups EXCEPT ![job[w].name] = job[w].copy]
  /\ job' = [job EXCEPT ![w].stage = "published"]
  /\ UNCHANGED <<mvars, live, file, latest, pooled, forms, reply>>

\* The finally of _create_backup: a name that is still empty is given back.
ReleaseName(j) ==
  backups' = [b \in BackupIds |-> IF b = j.name /\ backups[b] = Reserved
                                    THEN None ELSE backups[b]]

\* A backup ends with its file published or, after an error, without it.
EndBackup(w) ==
  /\ LeaveOperation(w)
  /\ job[w].op = "backup"
  /\ ReleaseName(job[w])
  /\ job' = [job EXCEPT ![w] = NoJob]
  /\ UNCHANGED <<live, file, latest, pooled, forms, reply>>

-----------------------------------------------------------------------------
(* _restore_backup. *)

BeginRestore(w, b) ==
  /\ RequestRestore(w)
  /\ job' = [job EXCEPT ![w] = NewJob("restore", b)]
  /\ UNCHANGED <<files, forms, reply>>

GetIn(w) == Wake(w) /\ UNCHANGED <<files, forms, job, reply>>

\* The file is validated, copied and the copy validated.  A missing file or an
\* empty one, which has no schema, is refused (FailRestore).
StageCopy(w) ==
  /\ pc[w] = "restoring" /\ job[w].stage = "begin"
  /\ backups[job[w].from] \in Versions
  /\ job' = [job EXCEPT ![w].stage = "staged", ![w].staged = backups[job[w].from],
                        ![w].began = file]
  /\ UNCHANGED <<mvars, files, forms, reply>>

\* Mutant of SavedFirst: the copy is installed without a pre-restore backup.
StagedOnly(w) == Within(w, "restore", "staged")

SavedFirst(w) == Within(w, "restore", "published")

\* Mutant of ClosePool: engine.dispose() is missing.
KeepPool == pooled' = pooled

ClosePool == pooled' = None

Dispose(w) ==
  /\ pc[w] = "restoring" /\ SavedFirst(w)
  /\ ClosePool
  /\ job' = [job EXCEPT ![w].stage = "closed"]
  /\ UNCHANGED <<mvars, live, file, latest, backups, forms, reply>>

\* os.replace
Replace(w) ==
  /\ Within(w, "restore", "closed")
  /\ file < MaxFiles
  /\ file' = file + 1
  /\ live' = job[w].staged
  /\ job' = [job EXCEPT ![w].stage = "replaced"]
  /\ UNCHANGED <<mvars, latest, pooled, backups, forms, reply>>

\* Mutant of MayHaveReplaced: the flag is set when os.replace has returned and the
\* metadata was read.
NeverReplaced(j) == FALSE

MayHaveReplaced(j) == j.stage \in {"closed", "replaced"}

Answer(w, kind) ==
  /\ LeaveRestore(w)
  /\ reply' = [kind |-> kind, asked |-> job[w].staged, began |-> job[w].began]
  /\ job' = [job EXCEPT ![w] = NoJob]

EndRestore(w) ==
  /\ Within(w, "restore", "replaced")
  /\ Answer(w, "restored")
  /\ UNCHANGED <<files, forms>>

\* An error at any step: also one that os.replace or the metadata read raises
\* after the file was replaced.
FailRestore(w) ==
  /\ job[w].op = "restore"
  /\ Answer(w, IF MayHaveReplaced(job[w]) THEN "ambiguous" ELSE "failed")
  /\ ReleaseName(job[w])
  /\ UNCHANGED <<live, file, latest, pooled, forms>>

-----------------------------------------------------------------------------
\* The process dies.  Files stay as they are, reserved names included.
Crash ==
  /\ NewProcess
  /\ pooled' = None
  /\ job' = [w \in Workers |-> NoJob]
  /\ UNCHANGED <<live, file, latest, backups, forms, reply>>

SessionStep(w) == BeginSession(w) \/ CommitEdit(w) \/ IssueForm(w) \/ EndSession(w)
BackupStep(w) ==
  BeginBackup(w) \/ ReserveName(w) \/ Snapshot(w) \/ Publish(w) \/ EndBackup(w)
RestoreStep(w) ==
  \/ \E b \in BackupIds : BeginRestore(w, b)
  \/ GetIn(w) \/ StageCopy(w) \/ Dispose(w) \/ Replace(w)
  \/ EndRestore(w) \/ FailRestore(w)

Next == (\E w \in Workers : SessionStep(w) \/ BackupStep(w) \/ RestoreStep(w)) \/ Crash

Spec == Init /\ [][Next]_vars

-----------------------------------------------------------------------------
(* What it implements: a name that is only held is no backup yet. *)

Complete == [b \in BackupIds |-> IF backups[b] = Reserved THEN None ELSE backups[b]]

Atomic == INSTANCE AtomicRestore WITH database <- live, committed <- latest,
                                      installed <- file, copies <- Complete

-----------------------------------------------------------------------------
(* Properties. *)

\* Whatever overlaps, fails or dies, the files change as if commits, backups and
\* restores were atomic: no commit is lost to a replaced file, a restore installs the
\* backup it was asked for, as it still is, and keeps what it replaces (backups.py:265).
ImplementsAtomicRestore == Atomic!AtomicSpec

\* The database that a restore replaces is in a complete backup at that moment,
\* its last commit included (backups.py:266).
ReplacedDatabaseIsSaved == [][file' # file => \E b \in BackupIds : backups[b] = live]_vars

\* A backup, once complete, is never overwritten or removed, although backups and
\* restores pick their names at the same time and may fail (backups.py:88).
BackupsKept ==
  [][\A b \in BackupIds : backups[b] \in Versions => backups'[b] = backups[b]]_vars

\* No operation works on a connection to a file that is no longer the live
\* database: its commits are not lost (backups.py:284).
SessionsReachLiveFile == At("operating") # {} => pooled \in {None, file}

\* A form that the current identity would still accept was issued from the file
\* that is live, across restores, failed ones too, and restarts (database.py:105).
AcceptedFormsNameLiveFile ==
  At("restoring") = {} =>
    \A f \in forms : f.identity = FormIdentity => f.file = file

\* What the client is told of a restore: on success the file is the one it asked
\* for, on plain failure the database is the one from before (backups.py:285).
AnswersAreTrue ==
  [][reply' # reply =>
       CASE reply'.kind = "restored" -> file = reply'.began + 1 /\ live = reply'.asked
         [] reply'.kind = "failed" -> file = reply'.began
         [] OTHER -> TRUE]_vars

=============================================================================
