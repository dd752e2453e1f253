----------------------------- MODULE AtomicRestore -----------------------------
(***************************************************************************)
(* What backups.py promises whoever edits, backs up and restores: commits  *)
(* follow one another and none is lost, a backup appears complete and      *)
(* stays as it is, and a restore replaces the database at once by a backup *)
(* that is complete, never without a backup of what it replaces.           *)
(***************************************************************************)
EXTENDS Naturals

CONSTANTS BackupIds, None

VARIABLES database,   \* the version in the live database
          committed,  \* commits so far: each writes the version of its number
          installed,  \* restores so far
          copies      \* the version in each complete backup

atomicVars == <<database, committed, installed, copies>>

AtomicInit ==
  /\ database = 0 /\ committed = 0 /\ installed = 0
  /\ copies = [b \in BackupIds |-> None]

Commit ==
  /\ committed' = committed + 1
  /\ database' = committed'
  /\ UNCHANGED <<installed, copies>>

\* The copy is of a version that was committed, and takes nobody's name.
BackUp(b) ==
  /\ copies[b] = None
  /\ \E v \in 0..committed : copies' = [copies EXCEPT ![b] = v]
  /\ UNCHANGED <<database, committed, installed>>

Restore(b) ==
  /\ copies[b] # None
  /\ \E saved \in BackupIds : copies[saved] = database
  /\ database' = copies[b]
  /\ installed' = installed + 1
  /\ UNCHANGED <<committed, copies>>

AtomicNext == Commit \/ \E b \in BackupIds : BackUp(b) \/ Restore(b)

AtomicSpec == AtomicInit /\ [][AtomicNext]_atomicVars

=============================================================================
