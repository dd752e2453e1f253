---------------------------- MODULE MaintenanceLock ----------------------------
(***************************************************************************)
(* What the admission control of database.py promises its callers: any     *)
(* number of database operations at once, or one restore alone.            *)
(***************************************************************************)
CONSTANTS Workers, None

VARIABLES operations,  \* workers inside a database operation
          restorer     \* the worker inside a restore

lockVars == <<operations, restorer>>

LockInit == operations = {} /\ restorer = None

BeginOperation(w) ==
  /\ restorer = None
  /\ w \notin operations
  /\ operations' = operations \cup {w}
  /\ UNCHANGED restorer

EndOperation(w) ==
  /\ w \in operations
  /\ operations' = operations \ {w}
  /\ UNCHANGED restorer

BeginRestore(w) ==
  /\ restorer = None
  /\ operations = {}
  /\ restorer' = w
  /\ UNCHANGED operations

EndRestore(w) ==
  /\ restorer = w
  /\ restorer' = None
  /\ UNCHANGED operations

\* The process dies with everyone inside.
Die == operations' = {} /\ restorer' = None

LockNext ==
  \/ \E w \in Workers : \/ BeginOperation(w) \/ EndOperation(w)
                        \/ BeginRestore(w) \/ EndRestore(w)
  \/ Die

LockSpec == LockInit /\ [][LockNext]_lockVars

=============================================================================
