------------------------ MODULE ReportingMonthsProofs ------------------------
(***************************************************************************)
(* Theorems about ReportingMonths, for every number of sessions, months,   *)
(* periods, rows and requests.                                             *)
(***************************************************************************)
EXTENDS ReportingMonths, TLAPS

\* Call c carries the arguments its operation needs.
WellFormed(c) ==
  /\ c.op \in Ops
  /\ c.op # "create" => c.month \in MonthIds
  /\ c.op \in {"create", "clone"} => c.period \in Periods
  /\ c.op \in {"create", "clone"} => c.date \in Dates
  /\ c.op = "create" => c.source \in Sources
  /\ c.op \in {"add", "edit", "remove"} => c.key \in Keys
  /\ c.op \in {"edit", "remove"} => c.row \in RowIds
  /\ c.op \in {"add", "edit"} => c.value \in Values
  /\ c.op = "emptyClose" => c.request \in Requests /\ c.intent \in Intents

WellFormedCalls == \A s \in Sessions : at[s] # "idle" => WellFormed(call[s])

\* The inductive invariant: a session past its reservation owns the writer, so
\* no other session's commit can undo what it checked.
IInv ==
  /\ TypeOK
  /\ WellFormedCalls
  /\ SingleWriter
  /\ EditsHoldADraft
  /\ OneMonthPerPeriod

-----------------------------------------------------------------------------
(* Typing of the building blocks. *)

LEMMA NoCallType == NoCall \in Calls
  BY DEF NoCall, Calls

LEMMA IdentityType ==
  ASSUME TypeOK, NEW m \in MonthIds
  PROVE  Identity(m) \in Identities
<1>1. LastRequest(m) \in Requests \cup {None}
  <2>1. CASE ReceiptsOf(m) = {}
    BY <2>1 DEF LastRequest
  <2>2. CASE ReceiptsOf(m) # {}
    <3>1. ReceiptsOf(m) \subseteq Requests
      BY DEF ReceiptsOf
    <3>2. QED
      BY <2>2, <3>1 DEF LastRequest
  <2>3. QED
    BY <2>1, <2>2
<1>2. months[m] \in Month \cup {None}
  BY DEF TypeOK
<1>3. QED
  BY <1>1, <1>2 DEF TypeOK, Identity, Identities

LEMMA NextRowFree ==
  ASSUME NEW k, NEW i \in RowIds, IsNextRow(k, i)
  PROVE  rows[k][i] = None
BY DEF IsNextRow, RowIds

\* The rows of a kind a step leaves behind.
RowTables == [Keys -> [RowIds -> Row \cup {None}]]

LEMMA CopyType ==
  ASSUME TypeOK, NEW k \in Keys, NEW src \in MonthIds, NEW m \in MonthIds, Copies(k, src)
  PROVE  Copy(k, src, m) \in Row /\ Copy(k, src, m).month = m
<1> DEFINE i == CHOOSE j \in RowsOf(src, k) : TRUE
<1>1. i \in RowsOf(src, k)
  BY DEF Copies
<1>2. rows[k][i] \in Row
  BY <1>1 DEF TypeOK, RowsOf
<1>3. rows[k][i].value \in Values \cup {Template}
  BY <1>2 DEF Row
<1> HIDE DEF i
<1>4. Copy(k, src, m) = [month |-> m, value |-> IF k \in BalanceKeys THEN rows[k][i].value
                                              ELSE Template]
  BY DEF Copy, i
<1> QED
  BY <1>3, <1>4 DEF Row

\* A clone stores its copies at free ids and touches no other row.
LEMMA CloneRowsAt ==
  ASSUME TypeOK, NEW src \in MonthIds, NEW m \in MonthIds, CloneRows(src, m)
  PROVE  /\ rows' \in RowTables
         /\ \E new \in [Keys -> RowIds] : \A k \in Keys : \A i \in RowIds :
              /\ Copies(k, src) /\ i = new[k]
                   => rows[k][i] = None /\ rows'[k][i] = Copy(k, src, m)
              /\ ~(Copies(k, src) /\ i = new[k]) => rows'[k][i] = rows[k][i]
<1>1. PICK new \in [Keys -> RowIds] :
        /\ \A k \in Keys : Copies(k, src) => IsNextRow(k, new[k])
        /\ rows' = [k \in Keys |-> IF Copies(k, src)
                                  THEN [rows[k] EXCEPT ![new[k]] = Copy(k, src, m)]
                                  ELSE rows[k]]
  BY DEF CloneRows
<1>2. \A k \in Keys : Copies(k, src) => rows[k][new[k]] = None
  BY <1>1, NextRowFree
<1>3. \A k \in Keys : Copies(k, src) => Copy(k, src, m) \in Row
  BY CopyType
<1>4. rows \in RowTables
  BY DEF TypeOK, RowTables
<1> HIDE DEF CloneRows, TypeOK
<1>5. rows' \in RowTables
  BY <1>1, <1>3, <1>4 DEF RowTables
<1>6. \A k \in Keys : \A i \in RowIds :
        rows'[k][i] = IF Copies(k, src) /\ i = new[k] THEN Copy(k, src, m) ELSE rows[k][i]
  BY <1>1, <1>4 DEF RowTables
<1> QED
  BY <1>2, <1>5, <1>6

THEOREM InitIInv == Init => IInv
<1> SUFFICES ASSUME Init PROVE IInv
  OBVIOUS
<1>1. TypeOK
  BY NoCallType DEF Init, TypeOK
<1>2. WellFormedCalls /\ SingleWriter /\ EditsHoldADraft
  BY DEF Init, WellFormedCalls, SingleWriter, EditsHoldADraft
<1>3. OneMonthPerPeriod
  BY DEF Init, OneMonthPerPeriod, Exists
<1>4. QED
  BY <1>1, <1>2, <1>3 DEF IInv

-----------------------------------------------------------------------------
(* The steps that write nothing to the database. *)

LEMMA ReadStep ==
  ASSUME IInv, NEW s \in Sessions, NEW c \in Calls, WellFormed(c), Read(s, c)
  PROVE  IInv'
<1>1. TypeOK'
  BY DEF IInv, TypeOK, Read, db, client
<1>2. WellFormedCalls'
  BY DEF IInv, TypeOK, WellFormedCalls, WellFormed, Read
<1>3. SingleWriter' /\ EditsHoldADraft'
  BY DEF IInv, TypeOK, SingleWriter, EditsHoldADraft, Read, db, IsDraft, Exists
<1>4. OneMonthPerPeriod'
  BY DEF IInv, OneMonthPerPeriod, Read, db, Exists
<1>5. QED
  BY <1>1, <1>2, <1>3, <1>4 DEF IInv

LEMMA NothingReserved ==
  ASSUME IInv, writer = None
  PROVE  \A t \in Sessions : at[t] # "reserved"
  BY NoneAssumption DEF IInv, SingleWriter

LEMMA ReserveStep ==
  ASSUME IInv, NEW s \in Sessions, NEW c \in Calls, WellFormed(c), Reserve(s, c),
         c.op \notin Guarded
  PROVE  IInv'
<1>0. \A t \in Sessions : at[t] # "reserved"
  BY NothingReserved DEF Reserve
<1>1. TypeOK'
  BY DEF IInv, TypeOK, Reserve, db, client
<1>2. WellFormedCalls'
  BY DEF IInv, TypeOK, WellFormedCalls, WellFormed, Reserve
<1>3. SingleWriter' /\ EditsHoldADraft'
  BY <1>0 DEF IInv, TypeOK, SingleWriter, EditsHoldADraft, Reserve, db, IsDraft, Exists
<1>4. OneMonthPerPeriod'
  BY DEF IInv, OneMonthPerPeriod, Reserve, db, Exists
<1>5. QED
  BY <1>1, <1>2, <1>3, <1>4 DEF IInv

LEMMA RequireEditableStep ==
  ASSUME IInv, NEW s \in Sessions, RequireEditable(s)
  PROVE  IInv'
<1>0. \A t \in Sessions : at[t] # "reserved"
  BY NothingReserved DEF RequireEditable
<1>1. TypeOK'
  BY DEF IInv, TypeOK, RequireEditable, db, client
<1>2. WellFormedCalls'
  BY DEF IInv, TypeOK, WellFormedCalls, RequireEditable
<1>3. SingleWriter' /\ EditsHoldADraft'
  BY <1>0 DEF IInv, TypeOK, SingleWriter, EditsHoldADraft, RequireEditable, db, IsDraft, Exists
<1>4. OneMonthPerPeriod'
  BY DEF IInv, OneMonthPerPeriod, RequireEditable, db, Exists
<1>5. QED
  BY <1>1, <1>2, <1>3, <1>4 DEF IInv

LEMMA ReserveIntervalStep ==
  ASSUME IInv, NEW s \in Sessions, ReserveInterval(s)
  PROVE  IInv'
<1>0. \A t \in Sessions : at[t] # "reserved"
  BY NothingReserved DEF ReserveInterval
<1>1. TypeOK'
  BY DEF IInv, TypeOK, ReserveInterval, db, client
<1>2. WellFormedCalls'
  BY DEF IInv, TypeOK, WellFormedCalls, ReserveInterval
<1>3. SingleWriter' /\ EditsHoldADraft'
  BY <1>0 DEF IInv, TypeOK, SingleWriter, EditsHoldADraft, ReserveInterval, Guarded
<1>4. OneMonthPerPeriod'
  BY DEF IInv, OneMonthPerPeriod, ReserveInterval, db, Exists
<1>5. QED
  BY <1>1, <1>2, <1>3, <1>4 DEF IInv

LEMMA AbortStep ==
  ASSUME IInv, NEW s \in Sessions, Abort(s)
  PROVE  IInv'
<1>1. TypeOK'
  BY NoCallType DEF IInv, TypeOK, Abort, Finish, db, client
<1>2. WellFormedCalls'
  BY DEF IInv, TypeOK, WellFormedCalls, Abort, Finish
<1>3. SingleWriter' /\ EditsHoldADraft'
  BY DEF IInv, TypeOK, SingleWriter, EditsHoldADraft, Abort, Finish, db, IsDraft, Exists
<1>4. OneMonthPerPeriod'
  BY DEF IInv, OneMonthPerPeriod, Abort, db, Exists
<1>5. QED
  BY <1>1, <1>2, <1>3, <1>4 DEF IInv

LEMMA ConfirmStep ==
  ASSUME IInv, NEW r \in Requests, NEW m \in MonthIds, Confirm(r, m)
  PROVE  IInv'
<1>0. [month |-> m, identity |-> Identity(m)] \in Intents
  BY IdentityType DEF IInv, Intents
<1>1. TypeOK'
  BY <1>0 DEF IInv, TypeOK, Confirm, db
<1>2. WellFormedCalls' /\ SingleWriter' /\ EditsHoldADraft'
  BY DEF IInv, WellFormedCalls, SingleWriter, EditsHoldADraft, Confirm, db, IsDraft, Exists
<1>3. OneMonthPerPeriod'
  BY DEF IInv, OneMonthPerPeriod, Confirm, db, Exists
<1>4. QED
  BY <1>1, <1>2, <1>3 DEF IInv

LEMMA RestartStep ==
  ASSUME IInv, Restart
  PROVE  IInv'
<1>1. TypeOK'
  BY NoCallType DEF IInv, TypeOK, Restart, db, client
<1>2. WellFormedCalls' /\ SingleWriter' /\ EditsHoldADraft'
  BY DEF IInv, WellFormedCalls, SingleWriter, EditsHoldADraft, Restart
<1>3. OneMonthPerPeriod'
  BY DEF IInv, OneMonthPerPeriod, Restart, db, Exists
<1>4. QED
  BY <1>1, <1>2, <1>3 DEF IInv

-----------------------------------------------------------------------------
(* The commits. *)

\* What every commit leaves behind: the session is idle, its call forgotten,
\* and no session holds a reservation.
SessionsTyped ==
  /\ writer \in Sessions \cup {None}
  /\ at \in [Sessions -> {"idle", "read", "reserved"}]
  /\ call \in [Sessions -> Calls]

LEMMA FinishStep ==
  ASSUME IInv, NEW s \in Sessions, Finish(s), at[s] = "reserved" \/ writer = None
  PROVE  SessionsTyped' /\ WellFormedCalls' /\ SingleWriter' /\ EditsHoldADraft'
<1>1. \A t \in Sessions : t # s => at[t] # "reserved"
  <2>1. CASE at[s] = "reserved"
    BY <2>1 DEF IInv, SingleWriter
  <2>2. CASE writer = None
    BY <2>2, NothingReserved
  <2>3. QED
    BY <2>1, <2>2
<1>2. SessionsTyped'
  BY NoCallType DEF IInv, TypeOK, SessionsTyped, Finish
<1>3. WellFormedCalls'
  BY DEF IInv, TypeOK, WellFormedCalls, Finish
<1>4. \A t \in Sessions : at'[t] # "reserved"
  BY <1>1 DEF IInv, TypeOK, Finish
<1>5. QED
  BY <1>2, <1>3, <1>4 DEF SingleWriter, EditsHoldADraft

LEMMA CommitIsGuarded ==
  ASSUME IInv, NEW s \in Sessions, NEW op \in Guarded, Commit(s, op)
  PROVE  call[s].month \in MonthIds /\ IsDraft(call[s].month)
  BY DEF IInv, WellFormedCalls, WellFormed, EditsHoldADraft, Commit, Guarded

LEMMA ReservedMonth ==
  ASSUME IInv, NEW s \in Sessions, NEW op \in Ops \ {"create"}, Commit(s, op)
  PROVE  call[s].month \in MonthIds
  BY DEF IInv, WellFormedCalls, WellFormed, Commit

\* Writing a header that keeps its period, or removing it, keeps periods distinct.
LEMMA RewriteKeepsPeriods ==
  ASSUME TypeOK, OneMonthPerPeriod, NEW m \in MonthIds, Exists(m),
         NEW h, h = None \/ h.period = months[m].period, WriteHeader(m, h)
  PROVE  OneMonthPerPeriod'
  BY DEF TypeOK, OneMonthPerPeriod, Exists, WriteHeader

\* A new header at a free id and a free period keeps periods distinct.
LEMMA InsertKeepsPeriods ==
  ASSUME TypeOK, OneMonthPerPeriod, NEW m \in MonthIds,
         NEW h, ~Taken(h.period), WriteHeader(m, h)
  PROVE  OneMonthPerPeriod'
  BY DEF TypeOK, OneMonthPerPeriod, Exists, Taken, WriteHeader

\* Typing of a stamped header.
LEMMA StampedType ==
  ASSUME TypeOK, NEW h \in Month
  PROVE  Stamped(h) \in Month /\ Stamped(h).period = h.period
  BY DEF TypeOK, Stamped, Month

LEMMA DraftType ==
  ASSUME TypeOK, NEW p \in Periods, NEW d \in Dates, NEW src \in Sources
  PROVE  Draft(p, d, src) \in Month /\ Draft(p, d, src).period = p
  BY DEF TypeOK, Draft, Month

LEMMA HeaderType ==
  ASSUME TypeOK, NEW m \in MonthIds, NEW h \in Month \cup {None}, WriteHeader(m, h)
  PROVE  /\ months' \in [MonthIds -> Month \cup {None}]
         /\ clock' \in Nat
         /\ current' \subseteq Intents
  BY DEF TypeOK, WriteHeader

LEMMA ExistingType ==
  ASSUME TypeOK, NEW m \in MonthIds, Exists(m)
  PROVE  months[m] \in Month
  BY DEF TypeOK, Exists

LEMMA CreateCommitStep ==
  ASSUME IInv, NEW s \in Sessions, CreateCommit(s)
  PROVE  IInv'
<1> DEFINE p == call[s].period
           h == Draft(p, call[s].date, call[s].source)
<1>1. PICK m \in MonthIds : WriteHeader(m, h)
  BY DEF CreateCommit
<1>2. p \in Periods /\ call[s].date \in Dates /\ call[s].source \in Sources
  BY DEF IInv, WellFormedCalls, WellFormed, CreateCommit
<1>3. h \in Month /\ h.period = p
  BY <1>2, DraftType DEF IInv
<1>4. SessionsTyped' /\ WellFormedCalls' /\ SingleWriter' /\ EditsHoldADraft'
  BY FinishStep DEF CreateCommit
<1>5. TypeOK'
  BY <1>1, <1>3, <1>4, HeaderType DEF IInv, TypeOK, SessionsTyped, CreateCommit, client
<1>6. OneMonthPerPeriod'
  <2>1. ~Taken(h.period)
    BY <1>3 DEF CreateCommit
  <2>2. QED
    BY <1>1, <2>1, InsertKeepsPeriods DEF IInv
<1>7. QED
  BY <1>4, <1>5, <1>6 DEF IInv

\* An update writes a header of its month's own period.
LEMMA UpdatedType ==
  ASSUME TypeOK, NEW m \in MonthIds, Exists(m), NEW c \in Calls
  PROVE  Updated(months[m], c) \in Month /\ Updated(months[m], c).period = months[m].period
<1>1. months[m] \in Month
  BY ExistingType
<1>2. Given(c.date, months[m].date) \in Dates /\ Given(c.source, months[m].source) \in Sources
  BY <1>1 DEF Given, Calls, Month
<1>3. QED
  BY <1>1, <1>2 DEF Updated, Month

LEMMA UpdateCommitStep ==
  ASSUME IInv, NEW s \in Sessions, UpdateCommit(s)
  PROVE  IInv'
<1> DEFINE m == call[s].month
           g == Updated(months[m], call[s])
<1>1. m \in MonthIds /\ IsDraft(m)
  BY CommitIsGuarded DEF UpdateCommit, Guarded
<1>2. call[s] \in Calls
  BY DEF IInv, TypeOK
<1>3. g \in Month /\ g.period = months[m].period
  BY <1>1, <1>2, UpdatedType DEF IInv, IsDraft
<1>4. Stamped(g) \in Month /\ Stamped(g).period = months[m].period
  BY <1>3, StampedType DEF IInv
<1>5. SessionsTyped' /\ WellFormedCalls' /\ SingleWriter' /\ EditsHoldADraft'
  BY FinishStep DEF UpdateCommit, Commit
<1>6. TypeOK'
  BY <1>1, <1>4, <1>5, HeaderType DEF IInv, TypeOK, SessionsTyped, UpdateCommit, client
<1>7. OneMonthPerPeriod'
  BY <1>1, <1>4, RewriteKeepsPeriods DEF IInv, UpdateCommit, IsDraft
<1>8. QED
  BY <1>5, <1>6, <1>7 DEF IInv

LEMMA DeleteCommitStep ==
  ASSUME IInv, NEW s \in Sessions, DeleteCommit(s)
  PROVE  IInv'
<1> DEFINE m == call[s].month
<1>1. m \in MonthIds /\ IsDraft(m)
  BY CommitIsGuarded DEF DeleteCommit, Guarded
<1>2. SessionsTyped' /\ WellFormedCalls' /\ SingleWriter' /\ EditsHoldADraft'
  BY FinishStep DEF DeleteCommit, Commit
<1>3. rows' \in [Keys -> [RowIds -> Row \cup {None}]]
  BY DEF IInv, TypeOK, DeleteCommit, DeleteRows
<1>4. TypeOK'
  BY <1>1, <1>2, <1>3, HeaderType DEF IInv, TypeOK, SessionsTyped, DeleteCommit, client
<1>5. OneMonthPerPeriod'
  BY <1>1, RewriteKeepsPeriods DEF IInv, DeleteCommit, IsDraft
<1>6. QED
  BY <1>2, <1>4, <1>5 DEF IInv

\* Closing and reopening change the status and the stamp of a header.
LEMMA StatusType ==
  ASSUME TypeOK, NEW m \in MonthIds, Exists(m), NEW st \in {"draft", "closed"}
  PROVE  LET h == Stamped([months[m] EXCEPT !.status = st])
         IN  h \in Month /\ h.period = months[m].period
<1>1. [months[m] EXCEPT !.status = st] \in Month
  BY ExistingType DEF Month
<1>2. [months[m] EXCEPT !.status = st].period = months[m].period
  BY ExistingType DEF Month
<1>3. QED
  BY <1>1, <1>2, StampedType

LEMMA CloseCommitStep ==
  ASSUME IInv, NEW s \in Sessions, CloseCommit(s)
  PROVE  IInv'
<1> DEFINE m == call[s].month
           h == Stamped([months[m] EXCEPT !.status = "closed"])
<1>1. m \in MonthIds /\ Exists(m)
  BY ReservedMonth DEF CloseCommit, IsDraft, Ops
<1>2. h \in Month /\ h.period = months[m].period
  BY <1>1, StatusType DEF IInv
<1>3. SessionsTyped' /\ WellFormedCalls' /\ SingleWriter' /\ EditsHoldADraft'
  BY FinishStep DEF CloseCommit, Commit
<1>4. TypeOK'
  BY <1>1, <1>2, <1>3, HeaderType DEF IInv, TypeOK, SessionsTyped, CloseCommit, client
<1>5. OneMonthPerPeriod'
  BY <1>1, <1>2, RewriteKeepsPeriods DEF IInv, CloseCommit
<1>6. QED
  BY <1>3, <1>4, <1>5 DEF IInv

LEMMA ReopenCommitStep ==
  ASSUME IInv, NEW s \in Sessions, ReopenCommit(s)
  PROVE  IInv'
<1> DEFINE m == call[s].month
           h == Stamped([months[m] EXCEPT !.status = "draft"])
<1>1. m \in MonthIds /\ Exists(m)
  BY ReservedMonth DEF ReopenCommit, IsClosed, Ops
<1>2. h \in Month /\ h.period = months[m].period
  BY <1>1, StatusType DEF IInv
<1>3. SessionsTyped' /\ WellFormedCalls' /\ SingleWriter' /\ EditsHoldADraft'
  BY FinishStep DEF ReopenCommit, Commit
<1>4. TypeOK'
  BY <1>1, <1>2, <1>3, HeaderType DEF IInv, TypeOK, SessionsTyped, ReopenCommit, client
<1>5. OneMonthPerPeriod'
  BY <1>1, <1>2, RewriteKeepsPeriods DEF IInv, ReopenCommit
<1>6. QED
  BY <1>3, <1>4, <1>5 DEF IInv

LEMMA CloneCommitStep ==
  ASSUME IInv, NEW s \in Sessions, CloneCommit(s)
  PROVE  IInv'
<1> DEFINE src == call[s].month
           h == Draft(call[s].period, call[s].date, months[src].source)
<1>1. PICK m \in MonthIds :
        WriteHeader(m, h) /\ CloneRows(src, m)
  BY DEF CloneCommit
<1>2. src \in MonthIds /\ call[s].period \in Periods /\ call[s].date \in Dates
  BY DEF IInv, WellFormedCalls, WellFormed, CloneCommit, Commit
<1>3. months[src].source \in Sources
  BY <1>2, ExistingType DEF IInv, CloneCommit, Month
<1>4. h \in Month /\ h.period = call[s].period
  BY <1>2, <1>3, DraftType DEF IInv
<1>5. SessionsTyped' /\ WellFormedCalls' /\ SingleWriter' /\ EditsHoldADraft'
  BY FinishStep DEF CloneCommit, Commit
<1>6. rows' \in RowTables
  BY <1>1, <1>2, CloneRowsAt DEF IInv
<1>7. TypeOK'
  BY <1>1, <1>4, <1>5, <1>6, HeaderType
  DEF IInv, TypeOK, RowTables, SessionsTyped, CloneCommit, client
<1>8. OneMonthPerPeriod'
  <2>1. ~Taken(h.period)
    BY <1>4 DEF CloneCommit
  <2>2. QED
    BY <1>1, <2>1, InsertKeepsPeriods DEF IInv
<1>9. QED
  BY <1>5, <1>7, <1>8 DEF IInv

ChildCommits(s) == AddCommit(s) \/ EditCommit(s) \/ RemoveCommit(s)

LEMMA ChildCall ==
  ASSUME IInv, NEW s \in Sessions, ChildCommits(s)
  PROVE  /\ \E op \in {"add", "edit", "remove"} : ChildCommit(s, op)
         /\ call[s].month \in MonthIds /\ IsDraft(call[s].month) /\ call[s].key \in Keys
         /\ call[s].op \in {"edit", "remove"} => call[s].row \in RowIds
         /\ call[s].op \in {"add", "edit"} => call[s].value \in Values
<1>1. PICK op \in {"add", "edit", "remove"} : ChildCommit(s, op)
  BY DEF ChildCommits, AddCommit, EditCommit, RemoveCommit
<1>2. at[s] = "reserved" /\ call[s].op = op /\ Commit(s, op) /\ op \in Guarded
  BY <1>1 DEF ChildCommit, Commit, Guarded
<1>3. call[s].month \in MonthIds /\ IsDraft(call[s].month)
  BY <1>2, CommitIsGuarded
<1> QED
  BY <1>1, <1>2, <1>3 DEF IInv, WellFormedCalls, WellFormed

LEMMA ChildRowsType ==
  ASSUME IInv, NEW s \in Sessions, ChildCommits(s)
  PROVE  rows' \in RowTables
<1> DEFINE m == call[s].month  k == call[s].key  i == call[s].row
<1>1. rows \in RowTables /\ k \in Keys /\ m \in MonthIds
  BY ChildCall DEF IInv, TypeOK, RowTables
<1>2. CASE AddCommit(s)
  <2>1. call[s].value \in Values
    BY <1>2, ChildCall DEF AddCommit, ChildCommit, Commit
  <2>2. [month |-> m, value |-> call[s].value] \in Row
    BY <1>1, <2>1 DEF Row
  <2> QED
    BY <1>1, <1>2, <2>2 DEF AddCommit, RowTables
<1>3. CASE EditCommit(s)
  <2>1. call[s].value \in Values /\ i \in RowIds
    BY <1>3, ChildCall DEF EditCommit, ChildCommit, Commit
  <2>2. rows[k][i] \in Row
    BY <1>1, <1>3, <2>1 DEF EditCommit, RowTables
  <2>3. [rows[k][i] EXCEPT !.value = call[s].value] \in Row
    BY <2>1, <2>2 DEF Row
  <2> QED
    BY <1>1, <1>3, <2>1, <2>3 DEF EditCommit, RowTables
<1>4. CASE RemoveCommit(s)
  BY <1>1, <1>4 DEF RemoveCommit, RowTables
<1> QED
  BY <1>2, <1>3, <1>4 DEF ChildCommits

LEMMA ChildCommitStep ==
  ASSUME IInv, NEW s \in Sessions, ChildCommits(s)
  PROVE  IInv'
<1>1. PICK op \in {"add", "edit", "remove"} : ChildCommit(s, op)
  BY ChildCall
<1>2. SessionsTyped' /\ WellFormedCalls' /\ SingleWriter' /\ EditsHoldADraft'
  BY <1>1, FinishStep DEF ChildCommit, Commit
<1>3. rows' \in RowTables
  BY ChildRowsType
<1>4. TypeOK'
  BY <1>1, <1>2, <1>3 DEF IInv, TypeOK, RowTables, SessionsTyped, ChildCommit, client
<1>5. OneMonthPerPeriod'
  BY <1>1 DEF IInv, OneMonthPerPeriod, ChildCommit, Exists
<1> QED
  BY <1>2, <1>4, <1>5 DEF IInv

LEMMA EmptyCloseReplayStep ==
  ASSUME IInv, NEW s \in Sessions, EmptyCloseReplay(s)
  PROVE  IInv'
<1>1. SessionsTyped' /\ WellFormedCalls' /\ SingleWriter' /\ EditsHoldADraft'
  BY FinishStep DEF EmptyCloseReplay, Commit
<1>2. call[s].request \in Requests /\ call[s].intent \in Intents
  BY DEF IInv, WellFormedCalls, WellFormed, EmptyCloseReplay, Commit
<1>3. TypeOK'
  BY <1>1, <1>2 DEF IInv, TypeOK, SessionsTyped, EmptyCloseReplay, Acknowledge, db
<1>4. OneMonthPerPeriod'
  BY DEF IInv, OneMonthPerPeriod, EmptyCloseReplay, db, Exists
<1>5. QED
  BY <1>1, <1>3, <1>4 DEF IInv

LEMMA EmptyCloseCommitStep ==
  ASSUME IInv, NEW s \in Sessions, EmptyCloseCommit(s)
  PROVE  IInv'
<1> DEFINE m == call[s].month
           h == Stamped([months[m] EXCEPT !.status = "closed"])
<1>1. m \in MonthIds /\ Exists(m)
  BY ReservedMonth DEF EmptyCloseCommit, IsDraft, Ops
<1>2. h \in Month /\ h.period = months[m].period
  BY <1>1, StatusType DEF IInv
<1>3. SessionsTyped' /\ WellFormedCalls' /\ SingleWriter' /\ EditsHoldADraft'
  BY FinishStep DEF EmptyCloseCommit, Commit
<1>4. call[s].request \in Requests /\ call[s].intent \in Intents
  BY DEF IInv, WellFormedCalls, WellFormed, EmptyCloseCommit, Commit
<1>5. WriteHeader(m, h)
  BY DEF EmptyCloseCommit
<1>6. receipts' \in [Requests -> Receipts \cup {None}]
  BY <1>1, <1>4 DEF IInv, TypeOK, EmptyCloseCommit, Receipts
<1>7. acked' \in [Requests -> Intents \cup {None}]
  BY <1>4 DEF IInv, TypeOK, EmptyCloseCommit, Acknowledge
<1>8. TypeOK'
  BY <1>1, <1>2, <1>3, <1>5, <1>6, <1>7, HeaderType
  DEF IInv, TypeOK, SessionsTyped, EmptyCloseCommit
<1>9. OneMonthPerPeriod'
  BY <1>1, <1>2, <1>5, RewriteKeepsPeriods DEF IInv
<1>10. QED
  BY <1>3, <1>8, <1>9 DEF IInv

-----------------------------------------------------------------------------
(* Every step. *)

LEMMA MonthStepKeeps ==
  ASSUME IInv, NEW s \in Sessions, MonthStep(s)
  PROVE  IInv'
<1>1. CASE \E p \in Periods, d \in Dates, src \in Sources : CreateRead(s, p, d, src)
  <2>1. PICK p \in Periods, d \in Dates, src \in Sources : CreateRead(s, p, d, src)
    BY <1>1
  <2> DEFINE c == [NoCall EXCEPT !.op = "create", !.period = p, !.date = d, !.source = src]
  <2>2. c \in Calls /\ WellFormed(c)
    BY DEF NoCall, Calls, WellFormed, Ops
  <2>3. QED
    BY <2>1, <2>2, ReadStep DEF CreateRead
<1>2. CASE \E m \in MonthIds, d \in Dates \cup {None}, src \in Sources \cup {None} :
             UpdateRead(s, m, d, src)
  <2>1. PICK m \in MonthIds, d \in Dates \cup {None}, src \in Sources \cup {None} :
          UpdateRead(s, m, d, src)
    BY <1>2
  <2> DEFINE c == [NoCall EXCEPT !.op = "update", !.month = m, !.date = d, !.source = src]
  <2>2. c \in Calls /\ WellFormed(c)
    BY DEF NoCall, Calls, WellFormed, Ops
  <2>3. QED
    BY <2>1, <2>2, ReadStep DEF UpdateRead
<1>3. CASE \E m \in MonthIds : DeleteRead(s, m)
  <2>1. PICK m \in MonthIds : DeleteRead(s, m)
    BY <1>3
  <2> DEFINE c == [NoCall EXCEPT !.op = "delete", !.month = m]
  <2>2. c \in Calls /\ WellFormed(c)
    BY DEF NoCall, Calls, WellFormed, Ops
  <2>3. QED
    BY <2>1, <2>2, ReadStep DEF DeleteRead
<1>4. CASE \E m \in MonthIds : CloseReserve(s, m)
  <2>1. PICK m \in MonthIds : CloseReserve(s, m)
    BY <1>4
  <2> DEFINE c == [NoCall EXCEPT !.op = "close", !.month = m]
  <2>2. c \in Calls /\ WellFormed(c) /\ c.op \notin Guarded
    BY DEF NoCall, Calls, WellFormed, Ops, Guarded
  <2>3. QED
    BY <2>1, <2>2, ReserveStep DEF CloseReserve
<1>5. CASE \E m \in MonthIds : ReopenRead(s, m)
  <2>1. PICK m \in MonthIds : ReopenRead(s, m)
    BY <1>5
  <2> DEFINE c == [NoCall EXCEPT !.op = "reopen", !.month = m]
  <2>2. c \in Calls /\ WellFormed(c)
    BY DEF NoCall, Calls, WellFormed, Ops
  <2>3. QED
    BY <2>1, <2>2, ReadStep DEF ReopenRead
<1>6. CASE \E m \in MonthIds, p \in Periods, d \in Dates : CloneReserve(s, m, p, d)
  <2>1. PICK m \in MonthIds, p \in Periods, d \in Dates : CloneReserve(s, m, p, d)
    BY <1>6
  <2> DEFINE c == [NoCall EXCEPT !.op = "clone", !.month = m, !.period = p, !.date = d]
  <2>2. c \in Calls /\ WellFormed(c) /\ c.op \notin Guarded
    BY DEF NoCall, Calls, WellFormed, Ops, Guarded
  <2>3. QED
    BY <2>1, <2>2, ReserveStep DEF CloneReserve
<1>7. QED
  BY <1>1, <1>2, <1>3, <1>4, <1>5, <1>6, CreateCommitStep, UpdateCommitStep,
     DeleteCommitStep, CloseCommitStep, ReopenCommitStep, CloneCommitStep
  DEF MonthStep

LEMMA ChildStepKeeps ==
  ASSUME IInv, NEW s \in Sessions, ChildStep(s)
  PROVE  IInv'
<1>1. CASE \E m \in MonthIds, k \in Keys, v \in Values : AddRead(s, m, k, v)
  <2>1. PICK m \in MonthIds, k \in Keys, v \in Values : AddRead(s, m, k, v)
    BY <1>1
  <2> DEFINE c == [NoCall EXCEPT !.op = "add", !.month = m, !.key = k, !.value = v]
  <2>2. c \in Calls /\ WellFormed(c)
    BY DEF NoCall, Calls, WellFormed, Ops
  <2>3. QED
    BY <2>1, <2>2, ReadStep DEF AddRead
<1>2. CASE \E k \in Keys, i \in RowIds, v \in Values : EditRead(s, k, i, v)
  <2>1. PICK k \in Keys, i \in RowIds, v \in Values : EditRead(s, k, i, v)
    BY <1>2
  <2> DEFINE c == [NoCall EXCEPT !.op = "edit", !.month = rows[k][i].month, !.key = k,
                                 !.row = i, !.value = v]
  <2>2. rows[k][i].month \in MonthIds
    BY <2>1 DEF IInv, TypeOK, EditRead, Row
  <2>3. c \in Calls /\ WellFormed(c)
    BY <2>2 DEF NoCall, Calls, WellFormed, Ops
  <2>4. QED
    BY <2>1, <2>3, ReadStep DEF EditRead
<1>3. CASE \E k \in Keys, i \in RowIds : RemoveRead(s, k, i)
  <2>1. PICK k \in Keys, i \in RowIds : RemoveRead(s, k, i)
    BY <1>3
  <2> DEFINE c == [NoCall EXCEPT !.op = "remove", !.month = rows[k][i].month, !.key = k,
                                 !.row = i]
  <2>2. rows[k][i].month \in MonthIds
    BY <2>1 DEF IInv, TypeOK, RemoveRead, Row
  <2>3. c \in Calls /\ WellFormed(c)
    BY <2>2 DEF NoCall, Calls, WellFormed, Ops
  <2>4. QED
    BY <2>1, <2>3, ReadStep DEF RemoveRead
<1>4. QED
  BY <1>1, <1>2, <1>3, ChildCommitStep DEF ChildStep, ChildCommits

LEMMA EmptyCloseStepKeeps ==
  ASSUME IInv, NEW s \in Sessions, EmptyCloseStep(s)
  PROVE  IInv'
<1>1. CASE \E r \in Requests : EmptyCloseReserve(s, r)
  <2>1. PICK r \in Requests : EmptyCloseReserve(s, r)
    BY <1>1
  <2> DEFINE c == [NoCall EXCEPT !.op = "emptyClose", !.month = intent[r].month,
                                 !.request = r, !.intent = intent[r]]
  <2>2. intent[r] \in Intents
    BY <2>1 DEF IInv, TypeOK, EmptyCloseReserve
  <2>3. intent[r].month \in MonthIds
    BY <2>2 DEF Intents
  <2>4. c \in Calls /\ WellFormed(c) /\ c.op \notin Guarded
    BY <2>2, <2>3 DEF NoCall, Calls, WellFormed, Ops, Guarded
  <2>5. QED
    BY <2>1, <2>4, ReserveStep DEF EmptyCloseReserve
<1>2. QED
  BY <1>1, EmptyCloseReplayStep, EmptyCloseCommitStep DEF EmptyCloseStep

LEMMA StutterStep ==
  ASSUME IInv, UNCHANGED vars
  PROVE  IInv'
<1>1. TypeOK'
  BY DEF IInv, TypeOK, vars
<1>2. WellFormedCalls' /\ SingleWriter' /\ EditsHoldADraft' /\ OneMonthPerPeriod'
  BY DEF IInv, WellFormedCalls, SingleWriter, EditsHoldADraft, OneMonthPerPeriod,
         vars, IsDraft, Exists
<1>3. QED
  BY <1>1, <1>2 DEF IInv

THEOREM NextIInv == IInv /\ [Next]_vars => IInv'
<1> SUFFICES ASSUME IInv, [Next]_vars PROVE IInv'
  OBVIOUS
<1>1. CASE \E s \in Sessions : SessionStep(s)
  BY <1>1, RequireEditableStep, ReserveIntervalStep, AbortStep, MonthStepKeeps,
     ChildStepKeeps, EmptyCloseStepKeeps
  DEF SessionStep
<1>2. CASE \E r \in Requests, m \in MonthIds : Confirm(r, m)
  BY <1>2, ConfirmStep
<1>3. CASE Restart
  BY <1>3, RestartStep
<1>4. CASE UNCHANGED vars
  BY <1>4, StutterStep
<1>5. QED
  BY <1>1, <1>2, <1>3, <1>4 DEF Next

\* The inductive invariant holds in every reachable state.
THEOREM IInvHolds == Spec => []IInv
  BY InitIInv, NextIInv, PTL DEF Spec

\* The variables always hold values of their types (reporting_months.py).
THEOREM TypeCorrect == Spec => []TypeOK
  BY IInvHolds, PTL DEF IInv

\* No two stored months name the same calendar period, although the lookup for
\* the period precedes the writer reservation (reporting_months.py:144).
THEOREM PeriodsDistinct == Spec => []OneMonthPerPeriod
  BY IInvHolds, PTL DEF IInv

\* An edit that passed the guard commits to a month that is still DRAFT
\* (_guard.py:52).
THEOREM EditsCommitToDrafts == Spec => []EditsHoldADraft
  BY IInvHolds, PTL DEF IInv

-----------------------------------------------------------------------------
(* Closed months are frozen. *)

\* The only rows that a step changes are rows of month w.
OnlyRowsOf(w) ==
  \A k \in Keys : \A i \in RowIds : rows'[k][i] # rows[k][i] =>
    /\ rows[k][i] # None => rows[k][i].month = w
    /\ rows'[k][i] # None => rows'[k][i].month = w

LEMMA FrozenByRewrite ==
  ASSUME TypeOK, NEW w \in MonthIds, ~IsClosed(w), UNCHANGED rows \/ OnlyRowsOf(w),
         UNCHANGED months \/ \E h : WriteHeader(w, h)
  PROVE  \A m \in MonthIds : KeepsClosed(m)
<1>1. ASSUME NEW m \in MonthIds, IsClosed(m)
      PROVE  \A k \in Keys, i \in RowIds : KeepsRow(m, k, i)
  BY <1>1 DEF OnlyRowsOf, KeepsRow
<1>2. ASSUME NEW m \in MonthIds, IsClosed(m)
      PROVE  months'[m] = months[m]
  BY <1>2 DEF TypeOK, WriteHeader
<1> QED
  BY <1>1, <1>2 DEF KeepsClosed

LEMMA DeleteRowsOnly ==
  ASSUME NEW m \in MonthIds, DeleteRows(m)
  PROVE  OnlyRowsOf(m)
  BY DEF DeleteRows, OnlyRowsOf, RowsOf

LEMMA CloneRowsOnly ==
  ASSUME TypeOK, NEW src \in MonthIds, NEW m \in MonthIds, CloneRows(src, m)
  PROVE  OnlyRowsOf(m)
<1>1. PICK new \in [Keys -> RowIds] : \A k \in Keys : \A i \in RowIds :
        /\ Copies(k, src) /\ i = new[k]
             => rows[k][i] = None /\ rows'[k][i] = Copy(k, src, m)
        /\ ~(Copies(k, src) /\ i = new[k]) => rows'[k][i] = rows[k][i]
  BY CloneRowsAt
<1>2. \A k \in Keys : Copies(k, src) => Copy(k, src, m).month = m
  BY CopyType
<1> QED
  BY <1>1, <1>2 DEF OnlyRowsOf

\* What a child commit does to the rows: unless it is misdirected, it writes a row of
\* the month it reserved; misdirected, it writes the one row of its id.
LEMMA ChildRowsOnly ==
  ASSUME IInv, NEW s \in Sessions, ChildCommits(s)
  PROVE  \/ UNCHANGED rows
         \/ OnlyRowsOf(call[s].month)
         \/ /\ Misdirected(s)
            /\ \A k \in Keys, i \in RowIds :
                 rows'[k][i] # rows[k][i] => call[s].key = k /\ call[s].row = i
<1> DEFINE m == call[s].month  k == call[s].key  i == call[s].row
<1>1. rows \in RowTables /\ rows' \in RowTables /\ k \in Keys /\ m \in MonthIds
  BY ChildCall, ChildRowsType DEF IInv, TypeOK, RowTables
<1>2. CASE AddCommit(s)
  <2>1. PICK j \in RowIds : /\ IsNextRow(k, j)
                           /\ rows' = [rows EXCEPT ![k][j] = [month |-> m, value |-> call[s].value]]
    BY <1>2 DEF AddCommit
  <2>2. rows[k][j] = None
    BY <2>1, NextRowFree
  <2>3. \A q \in Keys : \A n \in RowIds :
          rows'[q][n] = IF q = k /\ n = j THEN [month |-> m, value |-> call[s].value]
                        ELSE rows[q][n]
    BY <1>1, <2>1 DEF RowTables
  <2> QED
    BY <2>2, <2>3 DEF OnlyRowsOf
<1>3. CASE EditCommit(s)
  <2>1. i \in RowIds /\ rows[k][i] # None
    BY <1>3, ChildCall DEF EditCommit, ChildCommit, Commit
  <2>2. rows[k][i] \in Row
    BY <1>1, <2>1 DEF RowTables
  <2>3. \A q \in Keys : \A n \in RowIds :
          rows'[q][n] = IF q = k /\ n = i THEN [rows[k][i] EXCEPT !.value = call[s].value]
                        ELSE rows[q][n]
    BY <1>1, <1>3, <2>1 DEF RowTables, EditCommit
  <2>4. [rows[k][i] EXCEPT !.value = call[s].value].month = rows[k][i].month
    BY <2>2 DEF Row
  <2>5. CASE rows[k][i].month = m
    BY <2>3, <2>4, <2>5 DEF OnlyRowsOf
  <2>6. CASE rows[k][i].month # m
    BY <1>3, <2>1, <2>3, <2>6 DEF Misdirected
  <2> QED
    BY <2>5, <2>6
<1>4. CASE RemoveCommit(s)
  <2>1. i \in RowIds
    BY <1>4, ChildCall DEF RemoveCommit, ChildCommit, Commit
  <2>2. \A q \in Keys : \A n \in RowIds :
          rows'[q][n] = IF q = k /\ n = i THEN None ELSE rows[q][n]
    BY <1>1, <1>4, <2>1 DEF RowTables, RemoveCommit
  <2>3. CASE rows[k][i] = None \/ rows[k][i].month = m
    BY <2>2, <2>3 DEF OnlyRowsOf
  <2>4. CASE rows[k][i] # None /\ rows[k][i].month # m
    BY <1>4, <2>2, <2>4 DEF Misdirected
  <2> QED
    BY <2>3, <2>4
<1> QED
  BY <1>2, <1>3, <1>4 DEF ChildCommits

LEMMA FreshIdNotClosed ==
  ASSUME NEW m \in MonthIds, IsNextId(m)
  PROVE  ~IsClosed(m)
  BY DEF MonthIds, IsNextId, IsClosed, Exists

LEMMA DraftNotClosed ==
  ASSUME NEW m \in MonthIds, IsDraft(m)
  PROVE  ~IsClosed(m)
  BY DEF IsDraft, IsClosed

LEMMA FrozenStep ==
  ASSUME IInv, Next
  PROVE  \A m \in MonthIds : KeepsClosed(m)
<1>1. CASE UNCHANGED <<months, rows>>
  BY <1>1 DEF KeepsClosed, KeepsRow
<1>2. CASE Restart \/ \E r \in Requests, m \in MonthIds : Confirm(r, m)
  BY <1>1, <1>2 DEF Restart, Confirm, db
<1>3. ASSUME NEW s \in Sessions, SessionStep(s)
      PROVE  \A m \in MonthIds : KeepsClosed(m)
  <2>1. CASE RequireEditable(s) \/ ReserveInterval(s) \/ Abort(s) \/ EmptyCloseReplay(s)
    BY <1>1, <2>1 DEF RequireEditable, ReserveInterval, Abort, EmptyCloseReplay, db
  <2>2. CASE CreateCommit(s)
    <3>1. PICK m \in MonthIds :
            IsNextId(m) /\ WriteHeader(m, Draft(call[s].period, call[s].date, call[s].source))
      BY <2>2 DEF CreateCommit
    <3>2. QED
      BY <2>2, <3>1, FreshIdNotClosed, FrozenByRewrite DEF IInv, CreateCommit
  <2>3. CASE UpdateCommit(s)
    <3>1. call[s].month \in MonthIds /\ ~IsClosed(call[s].month)
      BY <2>3, CommitIsGuarded, DraftNotClosed DEF UpdateCommit, Guarded
    <3>2. QED
      BY <2>3, <3>1, FrozenByRewrite DEF IInv, UpdateCommit
  <2>4. CASE DeleteCommit(s)
    <3>1. call[s].month \in MonthIds /\ ~IsClosed(call[s].month)
      BY <2>4, CommitIsGuarded, DraftNotClosed DEF DeleteCommit, Guarded
    <3>2. OnlyRowsOf(call[s].month)
      BY <2>4, <3>1, DeleteRowsOnly DEF DeleteCommit
    <3>3. QED
      BY <2>4, <3>1, <3>2, FrozenByRewrite DEF IInv, DeleteCommit
  <2>5. CASE CloseCommit(s)
    <3>1. call[s].month \in MonthIds /\ ~IsClosed(call[s].month)
      BY <2>5, ReservedMonth, DraftNotClosed DEF CloseCommit, Ops
    <3>2. QED
      BY <2>5, <3>1, FrozenByRewrite DEF IInv, CloseCommit
  <2>6. CASE ReopenCommit(s)
    <3>1. call[s].month \in MonthIds
      BY <2>6, ReservedMonth DEF ReopenCommit, Ops
    <3>2. QED
      BY <2>6, <3>1, ExistingType
      DEF IInv, TypeOK, ReopenCommit, WriteHeader, Stamped, KeepsClosed, KeepsRow, IsClosed,
          Month
  <2>7. CASE CloneCommit(s)
    <3>1. PICK m \in MonthIds :
            /\ IsNextId(m)
            /\ WriteHeader(m, Draft(call[s].period, call[s].date, months[call[s].month].source))
            /\ CloneRows(call[s].month, m)
      BY <2>7 DEF CloneCommit
    <3>2. call[s].month \in MonthIds
      BY <2>7, ReservedMonth DEF CloneCommit, Ops
    <3>3. OnlyRowsOf(m) /\ ~IsClosed(m)
      BY <3>1, <3>2, FreshIdNotClosed, CloneRowsOnly DEF IInv
    <3>4. QED
      BY <3>1, <3>3, FrozenByRewrite DEF IInv
  <2>8. CASE ChildCommits(s)
    <3>1. call[s].month \in MonthIds /\ ~IsClosed(call[s].month)
      BY <2>8, ChildCall, DraftNotClosed
    <3>2. UNCHANGED months
      BY <2>8, ChildCall DEF ChildCommit
    <3>3. CASE UNCHANGED rows \/ OnlyRowsOf(call[s].month)
      BY <3>1, <3>2, <3>3, FrozenByRewrite DEF IInv
    <3>4. CASE /\ Misdirected(s)
               /\ \A k \in Keys, i \in RowIds :
                    rows'[k][i] # rows[k][i] => call[s].key = k /\ call[s].row = i
      BY <3>2, <3>4 DEF KeepsClosed, KeepsRow
    <3>5. QED
      BY <2>8, <3>3, <3>4, ChildRowsOnly
  <2>9. CASE EmptyCloseCommit(s)
    <3>1. call[s].month \in MonthIds /\ ~IsClosed(call[s].month)
      BY <2>9, ReservedMonth, DraftNotClosed DEF EmptyCloseCommit, Ops
    <3>2. QED
      BY <2>9, <3>1, FrozenByRewrite DEF IInv, EmptyCloseCommit
  <2>10. CASE UNCHANGED db
    BY <1>1, <2>10 DEF db
  <2>11. QED
    BY <1>3, <2>1, <2>2, <2>3, <2>4, <2>5, <2>6, <2>7, <2>8, <2>9, <2>10
    DEF SessionStep, MonthStep, ChildStep, EmptyCloseStep, ChildCommits, CreateRead, UpdateRead, DeleteRead, CloseReserve, ReopenRead,
        CloneReserve, AddRead, EditRead, RemoveRead, EmptyCloseReserve, Read, Reserve
<1>4. QED
  BY <1>2, <1>3 DEF Next

\* A closed month changes by a reopen, and its rows by misdirected writes only, each of
\* which hits the one row whose id its session loaded (_guard.py:3, _guard.py:78).
THEOREM ClosedFrozen == Spec => ClosedMonthsFrozen
<1>1. IInv /\ [Next]_vars => [\A m \in MonthIds : KeepsClosed(m)]_vars
  BY FrozenStep
<1>2. QED
  BY <1>1, IInvHolds, PTL DEF Spec, ClosedMonthsFrozen

-----------------------------------------------------------------------------
(* An empty close commits what the owner confirmed. *)

\* Confirmations that may still be presented: by their owner or by a session.
Held == {i \in Intents : \/ \E r \in Requests : intent[r] = i
                         \/ \E s \in Sessions : call[s].intent = i}

\* A confirmation never names a header from the future, and one that still names
\* the stored header has not been overtaken by a write.
ConfirmationsFresh ==
  /\ \A m \in MonthIds : Exists(m) => months[m].updated <= clock
  /\ \A i \in Held :
       /\ i.identity.header \in Month
       /\ i.identity.header.updated <= clock
       /\ i.identity.epoch <= epoch
       /\ i.identity.header = months[i.month] /\ i.identity.epoch = epoch => i \in current

LEMMA FreshInit == Init => ConfirmationsFresh
<1> SUFFICES ASSUME Init PROVE ConfirmationsFresh
  OBVIOUS
<1>1. Held = {}
  BY NoneAssumption DEF Init, Held, NoCall
<1>2. QED
  BY <1>1 DEF Init, ConfirmationsFresh, Exists

\* A step that only moves sessions and forgets or repeats confirmations.
LEMMA FreshByQuietStep ==
  ASSUME ConfirmationsFresh, Held' \subseteq Held,
         UNCHANGED <<months, clock, epoch, current>>
  PROVE  ConfirmationsFresh'
  BY DEF ConfirmationsFresh, Exists

\* A step that writes a header stamped with the new time, or removes it.
LEMMA FreshByWrite ==
  ASSUME IInv, ConfirmationsFresh, NEW w \in MonthIds, NEW h, WriteHeader(w, h),
         h = None \/ h.updated = clock + 1,
         Held' \subseteq Held, UNCHANGED epoch
  PROVE  ConfirmationsFresh'
<1>1. clock \in Nat /\ clock' = clock + 1
  BY DEF IInv, TypeOK, WriteHeader
<1>2. \A m \in MonthIds : months'[m] = IF m = w THEN h ELSE months[m]
  BY DEF IInv, TypeOK, WriteHeader
<1>3. \A m \in MonthIds : Exists(m) => months[m].updated \in Nat
  BY ExistingType DEF IInv, Month
<1>4. \A m \in MonthIds : months'[m] # None => months'[m].updated <= clock'
  BY <1>1, <1>2, <1>3 DEF ConfirmationsFresh, Exists
<1>5. ASSUME NEW i \in Held'
      PROVE  /\ i.identity.header \in Month
             /\ i.identity.header.updated <= clock'
             /\ i.identity.epoch <= epoch'
             /\ i.identity.header = months'[i.month] /\ i.identity.epoch = epoch'
                  => i \in current'
  <2>1. i \in Held /\ i \in Intents /\ i.month \in MonthIds
    BY DEF Held, Intents
  <2>2. /\ i.identity.header \in Month
        /\ i.identity.header.updated \in Nat
        /\ i.identity.header.updated <= clock
    BY <2>1 DEF ConfirmationsFresh, Month
  <2>3. i.month = w => i.identity.header # months'[i.month]
    BY <1>1, <1>2, <2>1, <2>2, NoneAssumption
  <2>4. i.month # w /\ i.identity.header = months'[i.month] /\ i.identity.epoch = epoch'
          => i \in current'
    BY <1>2, <2>1 DEF ConfirmationsFresh, WriteHeader
  <2>5. QED
    BY <1>1, <2>1, <2>2, <2>3, <2>4 DEF ConfirmationsFresh
<1>6. QED
  BY <1>4, <1>5 DEF ConfirmationsFresh, Exists

LEMMA HeldByFinish ==
  ASSUME IInv, NEW s \in Sessions, Finish(s), UNCHANGED intent
  PROVE  Held' \subseteq Held
  BY NoneAssumption DEF IInv, TypeOK, Held, Finish, NoCall

LEMMA HeldByCall ==
  ASSUME IInv, NEW s \in Sessions, NEW c, call' = [call EXCEPT ![s] = c],
         c.intent = None \/ \E r \in Requests : intent[r] = c.intent,
         UNCHANGED intent
  PROVE  Held' \subseteq Held
  BY NoneAssumption DEF IInv, TypeOK, Held

LEMMA FreshConfirm ==
  ASSUME IInv, ConfirmationsFresh, NEW r \in Requests, NEW m \in MonthIds, Confirm(r, m)
  PROVE  ConfirmationsFresh'
<1> DEFINE j == [month |-> m, identity |-> Identity(m)]
<1>1. j \in Intents /\ intent'[r] = j /\ Held' \subseteq Held \cup {j}
  BY IdentityType DEF IInv, TypeOK, Intents, Confirm, Held
<1>2. /\ j.identity.header = months[m] /\ j.identity.epoch = epoch
      /\ j \in current' /\ current \subseteq current'
  BY <1>1 DEF Identity, Confirm
<1>3. months[m] \in Month /\ months[m].updated <= clock
  BY ExistingType DEF IInv, Confirm, ConfirmationsFresh
<1>4. epoch <= epoch
  BY DEF IInv, TypeOK
<1>5. QED
  BY <1>1, <1>2, <1>3, <1>4 DEF ConfirmationsFresh, Confirm, db, Exists

LEMMA FreshRestart ==
  ASSUME IInv, ConfirmationsFresh, Restart
  PROVE  ConfirmationsFresh'
<1>1. Held' \subseteq Held
  BY NoneAssumption DEF Held, Restart, NoCall, client
<1>2. \A i \in Held : i.identity.epoch \in Nat
  BY DEF Held, Intents, Identities
<1>3. epoch \in Nat
  BY DEF IInv, TypeOK
<1>4. QED
  BY <1>1, <1>2, <1>3 DEF ConfirmationsFresh, Restart, db, Exists

\* The sessions' steps that leave the database alone.
QuietStep(s) ==
  \/ RequireEditable(s) \/ ReserveInterval(s) \/ Abort(s) \/ EmptyCloseReplay(s)
  \/ \E c : Read(s, c) /\ c.intent = None
  \/ \E c : Reserve(s, c) /\ (c.intent = None \/ \E r \in Requests : intent[r] = c.intent)

LEMMA FreshQuietStep ==
  ASSUME IInv, ConfirmationsFresh, NEW s \in Sessions, QuietStep(s)
  PROVE  ConfirmationsFresh'
<1>1. UNCHANGED <<months, clock, epoch, current, intent>>
  BY DEF db, client, QuietStep, RequireEditable, ReserveInterval, Abort,
         EmptyCloseReplay, Read, Reserve
<1>2. \/ UNCHANGED call
      \/ Finish(s)
      \/ \E c : /\ call' = [call EXCEPT ![s] = c]
                /\ c.intent = None \/ \E r \in Requests : intent[r] = c.intent
  BY DEF QuietStep, RequireEditable, ReserveInterval, Abort, EmptyCloseReplay,
         Read, Reserve, Commit
<1>3. Held' \subseteq Held
  <2>1. CASE UNCHANGED call
    BY <1>1, <2>1 DEF Held
  <2>2. QED
    BY <1>1, <1>2, <2>1, HeldByFinish, HeldByCall
<1>4. QED
  BY <1>1, <1>3, FreshByQuietStep

\* A session's step is quiet or one of the commits.
LEMMA SessionStepCases ==
  ASSUME NEW s \in Sessions, SessionStep(s)
  PROVE  \/ QuietStep(s)
         \/ CreateCommit(s) \/ UpdateCommit(s) \/ DeleteCommit(s) \/ CloseCommit(s)
         \/ ReopenCommit(s) \/ CloneCommit(s) \/ EmptyCloseCommit(s)
         \/ ChildCommits(s)
<1>1. ASSUME NEW p \in Periods, NEW d \in Dates, NEW src \in Sources, CreateRead(s, p, d, src)
      PROVE  QuietStep(s)
  <2> DEFINE c == [NoCall EXCEPT !.op = "create", !.period = p, !.date = d, !.source = src]
  <2>1. c.intent = None
    BY DEF NoCall
  <2>2. Read(s, c)
    BY <1>1 DEF CreateRead
  <2>3. QED
    BY <2>1, <2>2 DEF QuietStep
<1>2. ASSUME NEW m \in MonthIds, NEW d \in Dates \cup {None},
             NEW src \in Sources \cup {None}, UpdateRead(s, m, d, src)
      PROVE  QuietStep(s)
  <2> DEFINE c == [NoCall EXCEPT !.op = "update", !.month = m, !.date = d, !.source = src]
  <2>1. c.intent = None
    BY DEF NoCall
  <2>2. Read(s, c)
    BY <1>2 DEF UpdateRead
  <2>3. QED
    BY <2>1, <2>2 DEF QuietStep
<1>3. ASSUME NEW m \in MonthIds, DeleteRead(s, m)
      PROVE  QuietStep(s)
  <2> DEFINE c == [NoCall EXCEPT !.op = "delete", !.month = m]
  <2>1. c.intent = None
    BY DEF NoCall
  <2>2. Read(s, c)
    BY <1>3 DEF DeleteRead
  <2>3. QED
    BY <2>1, <2>2 DEF QuietStep
<1>4. ASSUME NEW m \in MonthIds, CloseReserve(s, m)
      PROVE  QuietStep(s)
  <2> DEFINE c == [NoCall EXCEPT !.op = "close", !.month = m]
  <2>1. c.intent = None
    BY DEF NoCall
  <2>2. Reserve(s, c)
    BY <1>4 DEF CloseReserve
  <2>3. QED
    BY <2>1, <2>2 DEF QuietStep
<1>5. ASSUME NEW m \in MonthIds, ReopenRead(s, m)
      PROVE  QuietStep(s)
  <2> DEFINE c == [NoCall EXCEPT !.op = "reopen", !.month = m]
  <2>1. c.intent = None
    BY DEF NoCall
  <2>2. Read(s, c)
    BY <1>5 DEF ReopenRead
  <2>3. QED
    BY <2>1, <2>2 DEF QuietStep
<1>6. ASSUME NEW m \in MonthIds, NEW p \in Periods, NEW d \in Dates, CloneReserve(s, m, p, d)
      PROVE  QuietStep(s)
  <2> DEFINE c == [NoCall EXCEPT !.op = "clone", !.month = m, !.period = p, !.date = d]
  <2>1. c.intent = None
    BY DEF NoCall
  <2>2. Reserve(s, c)
    BY <1>6 DEF CloneReserve
  <2>3. QED
    BY <2>1, <2>2 DEF QuietStep
<1>7. ASSUME NEW m \in MonthIds, NEW k \in Keys, NEW v \in Values, AddRead(s, m, k, v)
      PROVE  QuietStep(s)
  <2> DEFINE c == [NoCall EXCEPT !.op = "add", !.month = m, !.key = k, !.value = v]
  <2>1. c.intent = None
    BY DEF NoCall
  <2>2. Read(s, c)
    BY <1>7 DEF AddRead
  <2>3. QED
    BY <2>1, <2>2 DEF QuietStep
<1>8. ASSUME NEW k \in Keys, NEW i \in RowIds, NEW v \in Values, EditRead(s, k, i, v)
      PROVE  QuietStep(s)
  <2> DEFINE c == [NoCall EXCEPT !.op = "edit", !.month = rows[k][i].month, !.key = k,
                                 !.row = i, !.value = v]
  <2>1. c.intent = None
    BY DEF NoCall
  <2>2. Read(s, c)
    BY <1>8 DEF EditRead
  <2>3. QED
    BY <2>1, <2>2 DEF QuietStep
<1>9. ASSUME NEW k \in Keys, NEW i \in RowIds, RemoveRead(s, k, i)
      PROVE  QuietStep(s)
  <2> DEFINE c == [NoCall EXCEPT !.op = "remove", !.month = rows[k][i].month, !.key = k,
                                 !.row = i]
  <2>1. c.intent = None
    BY DEF NoCall
  <2>2. Read(s, c)
    BY <1>9 DEF RemoveRead
  <2>3. QED
    BY <2>1, <2>2 DEF QuietStep
<1>10. ASSUME NEW r \in Requests, EmptyCloseReserve(s, r)
      PROVE  QuietStep(s)
  <2> DEFINE c == [NoCall EXCEPT !.op = "emptyClose", !.month = intent[r].month,
                                 !.request = r, !.intent = intent[r]]
  <2>1. c.intent = intent[r]
    BY DEF NoCall
  <2>2. Reserve(s, c)
    BY <1>10 DEF EmptyCloseReserve
  <2>3. QED
    BY <2>1, <2>2 DEF QuietStep
<1>11. QED
  BY <1>1, <1>2, <1>3, <1>4, <1>5, <1>6, <1>7, <1>8, <1>9, <1>10
  DEF SessionStep, MonthStep, ChildStep, EmptyCloseStep, ChildCommits, QuietStep

LEMMA StampedUpdated ==
  ASSUME TypeOK, NEW h \in Month
  PROVE  Stamped(h).updated = clock + 1
  BY DEF Stamped, Month

\* The commits that write a header.
LEMMA FreshHeaderCommit ==
  ASSUME IInv, ConfirmationsFresh, NEW s \in Sessions,
         \/ CreateCommit(s) \/ UpdateCommit(s) \/ DeleteCommit(s) \/ CloseCommit(s)
         \/ ReopenCommit(s) \/ CloneCommit(s) \/ EmptyCloseCommit(s)
  PROVE  ConfirmationsFresh'
<1>1. Held' \subseteq Held
  BY HeldByFinish DEF CreateCommit, UpdateCommit, DeleteCommit, CloseCommit, ReopenCommit,
     CloneCommit, EmptyCloseCommit, Commit, client
<1>2. UNCHANGED epoch
  BY DEF CreateCommit, UpdateCommit, DeleteCommit, CloseCommit, ReopenCommit,
     CloneCommit, EmptyCloseCommit
<1>3. \E w \in MonthIds : \E h :
        WriteHeader(w, h) /\ (h = None \/ h.updated = clock + 1)
  <2>1. CASE CreateCommit(s) \/ CloneCommit(s)
    BY <2>1 DEF CreateCommit, CloneCommit, Draft
  <2>2. CASE UpdateCommit(s)
    <3> DEFINE m == call[s].month
               g == Updated(months[m], call[s])
    <3>1. m \in MonthIds /\ IsDraft(m)
      BY <2>2, CommitIsGuarded DEF UpdateCommit, Guarded
    <3>2. call[s] \in Calls
      BY DEF IInv, TypeOK
    <3>3. g \in Month
      BY <3>1, <3>2, UpdatedType DEF IInv, IsDraft
    <3>4. QED
      BY <2>2, <3>1, <3>3, StampedUpdated DEF IInv, UpdateCommit
  <2>3. CASE DeleteCommit(s)
    <3>1. call[s].month \in MonthIds
      BY <2>3, CommitIsGuarded DEF DeleteCommit, Guarded
    <3>2. QED
      BY <2>3, <3>1 DEF DeleteCommit
  <2>4. ASSUME NEW op \in {"close", "reopen", "emptyClose"}, Commit(s, op),
               NEW st \in {"draft", "closed"}, Exists(call[s].month),
               WriteHeader(call[s].month, Stamped([months[call[s].month] EXCEPT !.status = st]))
        PROVE  \E w \in MonthIds : \E h :
                 WriteHeader(w, h) /\ (h = None \/ h.updated = clock + 1)
    <3>1. call[s].month \in MonthIds
      BY <2>4, ReservedMonth DEF Ops
    <3>2. [months[call[s].month] EXCEPT !.status = st] \in Month
      BY <2>4, <3>1, ExistingType DEF IInv, Month
    <3>3. QED
      BY <2>4, <3>1, <3>2, StampedUpdated DEF IInv
  <2>5. QED
    BY <2>1, <2>2, <2>3, <2>4
    DEF CloseCommit, ReopenCommit, EmptyCloseCommit, IsDraft, IsClosed
<1>4. QED
  BY <1>1, <1>2, <1>3, FreshByWrite

LEMMA FreshChildCommit ==
  ASSUME IInv, ConfirmationsFresh, NEW s \in Sessions, ChildCommits(s)
  PROVE  ConfirmationsFresh'
<1>1. Held' \subseteq Held
  BY ChildCall, HeldByFinish DEF ChildCommit, Commit, client
<1>2. QED
  BY <1>1, ChildCall, FreshByQuietStep DEF ChildCommit

LEMMA FreshStep ==
  ASSUME IInv, ConfirmationsFresh, [Next]_vars
  PROVE  ConfirmationsFresh'
<1>1. ASSUME NEW s \in Sessions, SessionStep(s) PROVE ConfirmationsFresh'
  <2>1. QED
    BY <1>1, SessionStepCases, FreshQuietStep, FreshHeaderCommit, FreshChildCommit
<1>2. CASE UNCHANGED vars
  BY <1>2 DEF vars, ConfirmationsFresh, Held, Exists
<1>3. QED
  BY <1>1, <1>2, FreshConfirm, FreshRestart DEF Next

LEMMA ReceiptStep ==
  ASSUME IInv, ConfirmationsFresh, Next
  PROVE  \A r \in Requests : WrittenAsConfirmed(r)
<1>1. CASE UNCHANGED receipts
  BY <1>1 DEF WrittenAsConfirmed
<1>2. ASSUME NEW s \in Sessions, EmptyCloseCommit(s)
      PROVE  \A r \in Requests : WrittenAsConfirmed(r)
  <2> DEFINE i == call[s].intent
             m == call[s].month
  <2>1. /\ call[s].request \in Requests /\ m \in MonthIds
        /\ receipts' = [receipts EXCEPT ![call[s].request] =
                          [month |-> m, intent |-> i, closedAt |-> clock + 1]]
    BY <1>2, ReservedMonth
    DEF IInv, WellFormedCalls, WellFormed, EmptyCloseCommit, Commit, Ops
  <2>2. i \in Held
    BY <1>2 DEF IInv, WellFormedCalls, WellFormed, EmptyCloseCommit, Commit, Held
  <2>3. i.month = m /\ i.identity.header = months[i.month] /\ i.identity.epoch = epoch
    BY <1>2 DEF EmptyCloseCommit, IdentityMatches, Identity
  <2>4. i \in current
    BY <2>2, <2>3 DEF ConfirmationsFresh
  <2>5. QED
    BY <1>2, <2>1, <2>3, <2>4
    DEF IInv, TypeOK, WrittenAsConfirmed, EmptyCloseCommit
<1>3. ASSUME NEW s \in Sessions, SessionStep(s), ~EmptyCloseCommit(s)
      PROVE  UNCHANGED receipts
  BY <1>3, SessionStepCases
  DEF QuietStep, RequireEditable, ReserveInterval, Abort, EmptyCloseReplay, Read, Reserve,
      CreateCommit, UpdateCommit, DeleteCommit, CloseCommit, ReopenCommit, CloneCommit,
      ChildCommits, AddCommit, EditCommit, RemoveCommit, ChildCommit, db
<1>4. QED
  BY <1>1, <1>2, <1>3 DEF Next, Confirm, Restart, db

\* The intentional empty close writes a receipt only for a month whose header has
\* not moved since its owner confirmed it (intentional_empty_close.py:57).
THEOREM EmptyCloseConfirmed == Spec => EmptyCloseAsConfirmed
<1>1. Init => ConfirmationsFresh
  BY FreshInit
<1>2. IInv /\ ConfirmationsFresh /\ [Next]_vars => ConfirmationsFresh'
  BY FreshStep
<1>3. IInv /\ ConfirmationsFresh /\ [Next]_vars
        => [\A r \in Requests : WrittenAsConfirmed(r)]_vars
  BY ReceiptStep
<1>4. QED
  BY <1>1, <1>2, <1>3, IInvHolds, PTL DEF Spec, EmptyCloseAsConfirmed

-----------------------------------------------------------------------------
(* Acknowledgements are durable. *)

LEMMA RecordedStep ==
  ASSUME IInv, AcknowledgedStaysRecorded, [Next]_vars
  PROVE  AcknowledgedStaysRecorded'
<1>1. CASE UNCHANGED <<receipts, acked>>
  BY <1>1 DEF AcknowledgedStaysRecorded
<1>2. ASSUME NEW s \in Sessions, EmptyCloseReplay(s)
      PROVE  AcknowledgedStaysRecorded'
  BY <1>2 DEF IInv, TypeOK, AcknowledgedStaysRecorded, EmptyCloseReplay, Acknowledge, db
<1>3. ASSUME NEW s \in Sessions, EmptyCloseCommit(s)
      PROVE  AcknowledgedStaysRecorded'
  <2>1. /\ call[s].request \in Requests /\ call[s].month \in MonthIds
        /\ call[s].intent \in Intents
    BY <1>3, ReservedMonth DEF IInv, WellFormedCalls, WellFormed, EmptyCloseCommit, Commit, Ops
  <2>2. [month |-> call[s].month, intent |-> call[s].intent, closedAt |-> clock + 1] \in Receipts
    BY <2>1 DEF IInv, TypeOK, Receipts
  <2>3. acked[call[s].request] = None
    BY <1>3, <2>1 DEF AcknowledgedStaysRecorded, EmptyCloseCommit
  <2>4. QED
    BY <1>3, <2>1, <2>2, <2>3, NoneAssumption
    DEF IInv, TypeOK, AcknowledgedStaysRecorded, EmptyCloseCommit, Acknowledge
<1>4. ASSUME NEW s \in Sessions, SessionStep(s), ~EmptyCloseCommit(s), ~EmptyCloseReplay(s)
      PROVE  UNCHANGED <<receipts, acked>>
  BY <1>4, SessionStepCases
  DEF QuietStep, RequireEditable, ReserveInterval, Abort, Read, Reserve,
      CreateCommit, UpdateCommit, DeleteCommit, CloseCommit, ReopenCommit, CloneCommit,
      ChildCommits, AddCommit, EditCommit, RemoveCommit, ChildCommit, db, client
<1>5. QED
  BY <1>1, <1>2, <1>3, <1>4 DEF Next, Confirm, Restart, db, client, vars

\* An acknowledged empty close keeps its receipt through Reopen, deletion and
\* restart (intentional_empty_close.py:125).
THEOREM AcknowledgementsDurable == Spec => []AcknowledgedStaysRecorded
<1>1. Init => AcknowledgedStaysRecorded
  BY DEF Init, AcknowledgedStaysRecorded
<1>2. IInv /\ AcknowledgedStaysRecorded /\ [Next]_vars => AcknowledgedStaysRecorded'
  BY RecordedStep
<1>3. QED
  BY <1>1, <1>2, IInvHolds, PTL DEF Spec

-----------------------------------------------------------------------------
(* Every step is one of the month book. *)

\* A row belongs to a month that exists, and a month has one row of a kind: what a
\* clone copies, and what it puts the copies beside, depend on both.
RowsStand == \A k \in Keys : \A i \in RowIds :
               rows[k][i] # None => Exists(rows[k][i].month)
OneRow == \A m \in MonthIds : \A k \in Keys : \A i, j \in RowsOf(m, k) : i = j

BookInv == IInv /\ RowsStand /\ OneRow

LEMMA UnstampedType ==
  ASSUME NEW h \in Month
  PROVE  /\ Unstamped(h) \in Book!Header /\ Unstamped(h) # None
         /\ Unstamped(h).period = h.period /\ Unstamped(h).date = h.date
         /\ Unstamped(h).source = h.source /\ Unstamped(h).status = h.status
<1>1. h # None
  BY NoneAssumption
<1>2. Unstamped(h) = [period |-> h.period, date |-> h.date, source |-> h.source,
                      status |-> h.status]
  BY <1>1 DEF Unstamped
<1>3. Unstamped(h) \in Book!Header
  BY <1>2 DEF Month, Book!Header
<1> QED
  BY <1>2, <1>3, HeaderAssumption

LEMMA BookMonths ==
  ASSUME TypeOK
  PROVE  /\ Book!Stored = {m \in MonthIds : Exists(m)}
         /\ Book!Drafts = {m \in MonthIds : IsDraft(m)}
         /\ \A m \in MonthIds :
              Exists(m) => /\ Headers[m].period = months[m].period
                           /\ Headers[m].status = months[m].status
                           /\ Headers[m] = Unstamped(months[m])
<1>1. ASSUME NEW m \in MonthIds
      PROVE  /\ Exists(m) <=> Headers[m] # None
             /\ Exists(m) => /\ Headers[m].period = months[m].period
                             /\ Headers[m].status = months[m].status
                             /\ Headers[m] = Unstamped(months[m])
  BY ExistingType, UnstampedType DEF Headers, Exists, Unstamped
<1>2. Book!Stored = {m \in MonthIds : Exists(m)}
  BY <1>1 DEF Book!Stored
<1>3. Book!Drafts = {m \in MonthIds : IsDraft(m)}
  BY <1>1, <1>2 DEF Book!Drafts, IsDraft
<1> QED
  BY <1>1, <1>2, <1>3

LEMMA HeaderWritten ==
  ASSUME TypeOK, NEW m \in MonthIds, NEW h, WriteHeader(m, h)
  PROVE  Headers' = [Headers EXCEPT ![m] = Unstamped(h)]
<1>1. \A n \in MonthIds : months'[n] = IF n = m THEN h ELSE months[n]
  BY DEF TypeOK, WriteHeader
<1>2. \A n \in MonthIds : Headers'[n] = Unstamped(months'[n])
  BY DEF Headers
<1>3. Headers' = [n \in MonthIds |-> IF n = m THEN Unstamped(h) ELSE Headers[n]]
  BY <1>1, <1>2 DEF Headers
<1> QED
  BY <1>3 DEF Headers

\* An id that is next is free.
LEMMA NextIdFree ==
  ASSUME NEW m \in MonthIds, IsNextId(m)
  PROVE  ~Exists(m)
BY DEF IsNextId, MonthIds

LEMMA AbsentEmpty ==
  ASSUME BookInv, NEW m \in MonthIds, ~Exists(m)
  PROVE  Contents[m] = Empty /\ \A k \in Keys : RowsOf(m, k) = {}
<1>1. \A k \in Keys : RowsOf(m, k) = {}
  BY DEF BookInv, RowsStand, RowsOf
<1> QED
  BY <1>1 DEF Contents, Empty

LEMMA ContentsElsewhere ==
  ASSUME NEW w \in MonthIds, OnlyRowsOf(w)
  PROVE  Contents' = [Contents EXCEPT ![w] = Contents'[w]]
<1>1. ASSUME NEW n \in MonthIds \ {w}
      PROVE  Contents'[n] = Contents[n]
  <2>1. ASSUME NEW k \in Keys
        PROVE  /\ RowsOf(n, k)' = RowsOf(n, k)
               /\ \A i \in RowsOf(n, k) : rows'[k][i] = rows[k][i]
    BY <2>1 DEF RowsOf, OnlyRowsOf
  <2>2. \A k \in Keys : {rows'[k][i].value : i \in RowsOf(n, k)'}
                        = {rows[k][i].value : i \in RowsOf(n, k)}
    BY <2>1
  <2> QED
    BY <2>2 DEF Contents
<1>2. \A n \in MonthIds : Contents'[n] = IF n = w THEN Contents'[w] ELSE Contents[n]
  BY <1>1
<1> QED
  BY <1>2 DEF Contents

LEMMA DeleteContents ==
  ASSUME NEW m \in MonthIds, DeleteRows(m)
  PROVE  Contents'[m] = Empty
<1>1. \A k \in Keys : RowsOf(m, k)' = {}
  BY DEF DeleteRows, RowsOf
<1> QED
  BY <1>1 DEF Contents, Empty

LEMMA ContentsType ==
  ASSUME TypeOK'
  PROVE  \A m \in MonthIds : Contents'[m] \in Holdings
<1>1. ASSUME NEW m \in MonthIds, NEW k \in Keys, NEW i \in RowsOf(m, k)'
      PROVE  rows'[k][i].value \in Values \cup {Template}
  <2>1. rows'[k][i] \in Row
    BY DEF TypeOK, RowsOf
  <2> QED
    BY <2>1 DEF Row
<1> QED
  BY <1>1 DEF Contents, Holdings

LEMMA CloneContents ==
  ASSUME BookInv, NEW src \in MonthIds, NEW m \in MonthIds, ~Exists(m), Exists(src),
         CloneRows(src, m)
  PROVE  Contents'[m] = Copied(Contents[src])
<1>1. PICK new \in [Keys -> RowIds] : \A k \in Keys : \A i \in RowIds :
        /\ Copies(k, src) /\ i = new[k]
             => rows[k][i] = None /\ rows'[k][i] = Copy(k, src, m)
        /\ ~(Copies(k, src) /\ i = new[k]) => rows'[k][i] = rows[k][i]
  BY CloneRowsAt DEF BookInv, IInv
<1>2. ASSUME NEW k \in Keys
      PROVE  Contents'[m][k] = Copied(Contents[src])[k]
  <2>1. RowsOf(m, k) = {} /\ new[k] \in RowIds
    BY AbsentEmpty
  <2>2. CASE ~Copies(k, src)
    <3>1. RowsOf(m, k)' = {}
      BY <1>1, <2>1, <2>2 DEF RowsOf
    <3>2. Contents'[m][k] = {}
      BY <3>1 DEF Contents
    <3>3. k \in BalanceKeys \cup TemplateKeys => Contents[src][k] = {}
      BY <2>2 DEF Copies, Contents
    <3> QED
      BY <3>2, <3>3 DEF Copied
  <2>3. CASE Copies(k, src)
    <3>1. Copy(k, src, m) \in Row /\ Copy(k, src, m).month = m
      BY <2>3, CopyType DEF BookInv, IInv
    <3>2. RowsOf(m, k)' = {new[k]}
      BY <1>1, <2>1, <2>3, <3>1, NoneAssumption DEF RowsOf
    <3>3. rows'[k][new[k]] = Copy(k, src, m)
      BY <1>1, <2>1, <2>3
    <3>4. Contents'[m][k] = {Copy(k, src, m).value}
      BY <3>2, <3>3 DEF Contents
    <3> DEFINE i == CHOOSE j \in RowsOf(src, k) : TRUE
    <3>5. i \in RowsOf(src, k) /\ k \in BalanceKeys \cup TemplateKeys
      BY <2>3 DEF Copies
    <3>6. RowsOf(src, k) = {i}
      BY <3>5 DEF BookInv, OneRow
    <3>7. Contents[src][k] = {rows[k][i].value}
      BY <3>6 DEF Contents
    <3>8. Copy(k, src, m).value = IF k \in BalanceKeys THEN rows[k][i].value ELSE Template
      BY DEF Copy
    <3> HIDE DEF i
    <3>9. Copied(Contents[src])[k] = IF k \in BalanceKeys THEN {rows[k][i].value} ELSE {Template}
      <4>1. Contents[src][k] # {}
        BY <3>7
      <4> QED
        BY <3>5, <3>7, <4>1 DEF Copied
    <3> QED
      BY <3>4, <3>8, <3>9
  <2> QED
    BY <2>2, <2>3
<1> QED
  BY <1>2 DEF Contents, Copied

LEMMA OpenMaps ==
  ASSUME BookInv, NEW m \in MonthIds, IsNextId(m), NEW h \in Month, h.status = "draft",
         ~Taken(h.period), WriteHeader(m, h),
         \/ UNCHANGED rows
         \/ \E n \in MonthIds : Exists(n) /\ CloneRows(n, m)
  PROVE  Book!BookNext
<1> DEFINE g == Unstamped(h)
<1>1. g \in Book!Header /\ g.status = "draft" /\ g.period = h.period
  BY UnstampedType
<1>2. Headers' = [Headers EXCEPT ![m] = g]
  BY HeaderWritten DEF BookInv, IInv
<1>3. m \notin Book!Stored /\ \A n \in Book!Stored : Headers[n].period # g.period
  BY <1>1, NextIdFree, BookMonths DEF BookInv, IInv, Taken
<1>4. Contents[m] = Empty
  BY NextIdFree, AbsentEmpty
<1>5. \/ Contents' = Contents
      \/ \E n \in Book!Stored : Contents' = [Contents EXCEPT ![m] = Copied(Contents[n])]
  <2>1. CASE UNCHANGED rows
    BY <2>1 DEF Contents, RowsOf
  <2>2. ASSUME NEW n \in MonthIds, Exists(n), CloneRows(n, m)
        PROVE  n \in Book!Stored /\ Contents' = [Contents EXCEPT ![m] = Copied(Contents[n])]
    <3>1. OnlyRowsOf(m)
      BY <2>2, CloneRowsOnly DEF BookInv, IInv
    <3>2. Contents'[m] = Copied(Contents[n])
      BY <2>2, NextIdFree, CloneContents
    <3> QED
      BY <2>2, <3>1, <3>2, ContentsElsewhere, BookMonths DEF BookInv, IInv
  <2> QED
    BY <2>1, <2>2
<1> HIDE DEF g
<1>6. Book!OpenMonth(m, g)
  BY <1>1, <1>2, <1>3, <1>4, <1>5 DEF Book!OpenMonth
<1> QED
  BY <1>1, <1>6 DEF Book!BookNext

LEMMA SwitchMaps ==
  ASSUME BookInv, NEW m \in MonthIds, Exists(m), NEW from, NEW to \in {"draft", "closed"},
         months[m].status = from, <<from, to>> \in {<<"draft", "closed">>, <<"closed", "draft">>},
         WriteHeader(m, Stamped([months[m] EXCEPT !.status = to])), UNCHANGED rows
  PROVE  Book!BookNext
<1> DEFINE h == Stamped([months[m] EXCEPT !.status = to])
<1>1. months[m] \in Month
  BY ExistingType DEF BookInv, IInv
<1>2. h \in Month /\ h.status = to /\ h.period = months[m].period /\ h.date = months[m].date
      /\ h.source = months[m].source
  <2> DEFINE g == [months[m] EXCEPT !.status = to]
  <2>1. g \in Month /\ g.status = to /\ g.period = months[m].period
        /\ g.date = months[m].date /\ g.source = months[m].source
    BY <1>1 DEF Month
  <2>2. Stamped(g) \in Month
    BY <2>1, StampedType DEF BookInv, IInv
  <2> HIDE DEF g
  <2>3. /\ Stamped(g).status = g.status /\ Stamped(g).period = g.period
        /\ Stamped(g).date = g.date /\ Stamped(g).source = g.source
    BY <2>1 DEF Stamped, Month
  <2> USE DEF g
  <2> QED
    BY <2>1, <2>2, <2>3
<1>3. Headers' = [Headers EXCEPT ![m] = Unstamped(h)]
  BY HeaderWritten DEF BookInv, IInv
<1> HIDE DEF h
<1>4. m \in Book!Stored /\ Headers[m].status = from /\ Headers[m] = Unstamped(months[m])
  BY BookMonths DEF BookInv, IInv
<1>5. Unstamped(h) = [Headers[m] EXCEPT !.status = to]
  BY <1>1, <1>2, <1>4, NoneAssumption DEF Unstamped
<1>6. Headers' = [Headers EXCEPT ![m].status = to]
  BY <1>3, <1>5
<1>7. Book!SwitchStatus(m, from, to)
  BY <1>4, <1>6 DEF Book!SwitchStatus, Contents, RowsOf
<1> QED
  BY <1>7 DEF Book!BookNext

LEMMA CommitMaps ==
  ASSUME BookInv, NEW s \in Sessions,
         \/ CreateCommit(s) \/ UpdateCommit(s) \/ DeleteCommit(s) \/ CloseCommit(s)
         \/ ReopenCommit(s) \/ CloneCommit(s) \/ EmptyCloseCommit(s)
         \/ ChildCommits(s)
  PROVE  Book!BookNext \/ Misdirected(s) \/ UNCHANGED <<months, rows>>
<1> DEFINE c == call[s]  m == call[s].month
<1>0. IInv /\ TypeOK
  BY DEF BookInv, IInv
<1> USE <1>0
<1>1. ASSUME CreateCommit(s) PROVE Book!BookNext
  <2>1. c.period \in Periods /\ c.date \in Dates /\ c.source \in Sources
    BY <1>1 DEF IInv, WellFormedCalls, WellFormed, CreateCommit
  <2>2. PICK n \in MonthIds : IsNextId(n) /\ WriteHeader(n, Draft(c.period, c.date, c.source))
    BY <1>1 DEF CreateCommit
  <2>3. Draft(c.period, c.date, c.source) \in Month
        /\ Draft(c.period, c.date, c.source).period = c.period
        /\ Draft(c.period, c.date, c.source).status = "draft"
    BY <2>1, DraftType DEF IInv, Draft
  <2> QED
    BY <1>1, <2>2, <2>3, OpenMaps DEF CreateCommit
<1>2. ASSUME CloneCommit(s) PROVE Book!BookNext
  <2>1. c.period \in Periods /\ c.date \in Dates /\ m \in MonthIds /\ Exists(m) /\ ~Taken(c.period)
    BY <1>2 DEF IInv, WellFormedCalls, WellFormed, CloneCommit, Commit
  <2>2. months[m].source \in Sources
    BY <2>1, ExistingType DEF IInv, Month
  <2> DEFINE h == Draft(c.period, c.date, months[m].source)
  <2>3. PICK n \in MonthIds : /\ IsNextId(n) /\ WriteHeader(n, h)
                              /\ CloneRows(m, n)
    BY <1>2 DEF CloneCommit
  <2>4. h \in Month /\ h.period = c.period /\ h.status = "draft"
    BY <2>1, <2>2, DraftType DEF IInv, Draft
  <2> HIDE DEF h
  <2> QED
    BY <2>1, <2>3, <2>4, OpenMaps
<1>3. ASSUME UpdateCommit(s) PROVE Book!BookNext
  <2> DEFINE h == Stamped(Updated(months[m], c))
  <2>1. m \in MonthIds /\ IsDraft(m) /\ c \in Calls
    BY <1>3, CommitIsGuarded DEF UpdateCommit, Guarded, IInv, TypeOK
  <2>2. months[m] \in Month /\ months[m].status = "draft"
    BY <2>1, ExistingType DEF IsDraft, IInv
  <2>3. Updated(months[m], c) \in Month /\ Updated(months[m], c).period = months[m].period
        /\ Updated(months[m], c).status = "draft"
    BY <2>1, <2>2, UpdatedType DEF IInv, IsDraft, Updated, Month
  <2>4. h \in Month /\ h.period = months[m].period /\ h.status = "draft"
    BY <2>3, StampedType DEF IInv, Stamped, Month
  <2>5. WriteHeader(m, h) /\ UNCHANGED rows /\ Contents' = Contents
    BY <1>3 DEF UpdateCommit, Contents, RowsOf
  <2> HIDE DEF h
  <2>6. Book!EditHeader(m, Unstamped(h)) /\ Unstamped(h) \in Book!Header
    BY <2>1, <2>2, <2>4, <2>5, UnstampedType, HeaderWritten, BookMonths
       DEF Book!EditHeader, IInv, IsDraft
  <2> QED
    BY <2>1, <2>6 DEF Book!BookNext
<1>4. ASSUME DeleteCommit(s) PROVE Book!BookNext
  <2>1. m \in MonthIds /\ IsDraft(m)
    BY <1>4, CommitIsGuarded DEF DeleteCommit, Guarded
  <2>2. Headers' = [Headers EXCEPT ![m] = None]
    BY <1>4, <2>1, HeaderWritten DEF DeleteCommit, IInv, Unstamped
  <2>4. DeleteRows(m) /\ OnlyRowsOf(m)
    BY <1>4, <2>1, DeleteRowsOnly DEF DeleteCommit
  <2>6. Contents'[m] = Empty
    BY <2>1, <2>4, DeleteContents
  <2>7. Contents' = [Contents EXCEPT ![m] = Empty]
    BY <2>1, <2>4, <2>6, ContentsElsewhere
  <2>3. Book!RemoveMonth(m)
    BY <2>1, <2>2, <2>7, BookMonths DEF Book!RemoveMonth, IInv
  <2> QED
    BY <2>1, <2>3 DEF Book!BookNext
<1>5. ASSUME CloseCommit(s) \/ EmptyCloseCommit(s) PROVE Book!BookNext
  <2>1. m \in MonthIds /\ IsDraft(m) /\ UNCHANGED rows
        /\ WriteHeader(m, Stamped([months[m] EXCEPT !.status = "closed"]))
    BY <1>5, ReservedMonth DEF CloseCommit, EmptyCloseCommit, Ops
  <2> QED
    BY <2>1, SwitchMaps DEF IsDraft
<1>6. ASSUME ReopenCommit(s) PROVE Book!BookNext
  <2>1. m \in MonthIds /\ IsClosed(m) /\ UNCHANGED rows
        /\ WriteHeader(m, Stamped([months[m] EXCEPT !.status = "draft"]))
    BY <1>6, ReservedMonth DEF ReopenCommit, Ops
  <2> QED
    BY <2>1, SwitchMaps DEF IsClosed
<1>7. ASSUME ChildCommits(s), ~Misdirected(s), ~UNCHANGED rows
      PROVE  Book!BookNext
  <2>1. m \in MonthIds /\ IsDraft(m)
    BY <1>7, ChildCall
  <2>2. OnlyRowsOf(m)
    BY <1>7, ChildRowsOnly
  <2>3. Contents' = [Contents EXCEPT ![m] = Contents'[m]] /\ Contents'[m] \in Holdings
    <3>1. TypeOK'
      BY <1>7, ChildCommitStep DEF IInv
    <3> QED
      BY <2>1, <2>2, <3>1, ContentsElsewhere, ContentsType
  <2>4. Headers' = Headers
    BY <1>7, ChildCall DEF ChildCommit, Headers
  <2>5. Book!EditRows(m)
    BY <2>1, <2>3, <2>4, BookMonths DEF Book!EditRows, IInv
  <2> QED
    BY <2>1, <2>5 DEF Book!BookNext
<1>8. CASE ChildCommits(s)
  BY <1>7, <1>8, ChildCall DEF ChildCommit
<1> QED
  BY <1>1, <1>2, <1>3, <1>4, <1>5, <1>6, <1>8

\* A step that writes no row leaves one row of a kind; so does one that stores, for a
\* month without a row of a kind, one such row.
LEMMA OneRowByInsert ==
  ASSUME OneRow, NEW m \in MonthIds, NEW new \in [Keys -> RowIds],
         \A k \in Keys : \A i \in RowIds : rows'[k][i] # None =>
           \/ rows[k][i] # None /\ rows'[k][i].month = rows[k][i].month
           \/ i = new[k] /\ RowsOf(m, k) = {} /\ rows'[k][i].month = m
  PROVE  OneRow'
<1>1. ASSUME NEW n \in MonthIds, NEW k \in Keys,
             NEW i \in RowsOf(n, k)', NEW j \in RowsOf(n, k)'
      PROVE  i = j
  <2>1. /\ i \in RowIds /\ rows'[k][i] # None /\ rows'[k][i].month = n
        /\ j \in RowIds /\ rows'[k][j] # None /\ rows'[k][j].month = n
    BY DEF RowsOf
  <2>2. /\ i \in RowsOf(n, k) \/ (i = new[k] /\ RowsOf(m, k) = {} /\ n = m)
        /\ j \in RowsOf(n, k) \/ (j = new[k] /\ RowsOf(m, k) = {} /\ n = m)
    BY <2>1 DEF RowsOf
  <2> QED
    BY <2>2 DEF OneRow
<1> QED
  BY <1>1 DEF OneRow

LEMMA OneRowByRemoval ==
  ASSUME OneRow, \A k \in Keys : \A i \in RowIds : rows'[k][i] # None =>
                   rows[k][i] # None /\ rows'[k][i].month = rows[k][i].month
  PROVE  OneRow'
BY DEF OneRow, RowsOf

\* The rows stand in months that exist as long as no month with rows goes.
LEMMA RowsStandByStep ==
  ASSUME RowsStand, \A m \in MonthIds : Exists(m) => Exists(m)', TypeOK',
         \A k \in Keys : \A i \in RowIds : rows'[k][i] # None =>
           \/ rows[k][i] # None /\ rows'[k][i].month = rows[k][i].month
           \/ months'[rows'[k][i].month] # None
  PROVE  RowsStand'
<1>1. \A k \in Keys : \A i \in RowIds : rows'[k][i] # None => rows'[k][i].month \in MonthIds
  BY DEF TypeOK, Row
<1> QED
  BY <1>1 DEF RowsStand, Exists

LEMMA ChildKeepsRows ==
  ASSUME BookInv, IInv', NEW s \in Sessions, ChildCommits(s)
  PROVE  RowsStand' /\ OneRow'
<1> DEFINE i == call[s].row
<1>0. PICK m \in MonthIds, k \in Keys : m = call[s].month /\ k = call[s].key
  BY ChildCall DEF BookInv
<1>1. rows \in RowTables /\ rows' \in RowTables
      /\ IsDraft(m) /\ UNCHANGED months
  BY <1>0, ChildCall, ChildRowsType DEF BookInv, IInv, TypeOK, RowTables, ChildCommit
<1>2. TypeOK' /\ RowsStand /\ OneRow /\ \A n : Exists(n)' <=> Exists(n)
  BY <1>1 DEF BookInv, IInv, Exists
<1>3. CASE AddCommit(s)
  <2>1. PICK j \in RowIds : rows' = [rows EXCEPT ![k][j] = [month |-> m, value |-> call[s].value]]
    BY <1>0, <1>3 DEF AddCommit
  <2>2. RowsOf(m, k) = {}
    BY <1>0, <1>3 DEF AddCommit
  <2> DEFINE new == [q \in Keys |-> j]
  <2>3. \A q \in Keys : \A n \in RowIds : rows'[q][n] # None =>
          \/ rows[q][n] # None /\ rows'[q][n].month = rows[q][n].month
          \/ n = new[q] /\ RowsOf(m, q) = {} /\ rows'[q][n].month = m
    BY <1>1, <2>1, <2>2 DEF RowTables
  <2>4. new \in [Keys -> RowIds]
    OBVIOUS
  <2>5. months'[m] # None
    BY <1>1 DEF IsDraft, Exists
  <2> HIDE DEF new
  <2> QED
    BY <1>1, <1>2, <2>3, <2>4, <2>5, OneRowByInsert, RowsStandByStep
<1>4. CASE EditCommit(s) \/ RemoveCommit(s)
  <2>1. i \in RowIds
    BY <1>4, ChildCall DEF BookInv, EditCommit, RemoveCommit, ChildCommit, Commit
  <2>2. \A q \in Keys : \A n \in RowIds : rows'[q][n] # None =>
          rows[q][n] # None /\ rows'[q][n].month = rows[q][n].month
    <3>1. CASE EditCommit(s)
      <4>1. rows[k][i] \in Row
        BY <1>0, <1>1, <2>1, <3>1 DEF RowTables, EditCommit
      <4>2. [rows[k][i] EXCEPT !.value = call[s].value].month = rows[k][i].month
        BY <4>1 DEF Row
      <4>3. \A q \in Keys : \A n \in RowIds :
              rows'[q][n] = IF q = k /\ n = i THEN [rows[k][i] EXCEPT !.value = call[s].value]
                            ELSE rows[q][n]
        BY <1>0, <1>1, <2>1, <3>1 DEF RowTables, EditCommit
      <4> QED
        BY <1>0, <3>1, <4>2, <4>3 DEF EditCommit
    <3>2. CASE RemoveCommit(s)
      BY <1>0, <1>1, <2>1, <3>2 DEF RowTables, RemoveCommit
    <3> QED
      BY <1>4, <3>1, <3>2
  <2> QED
    BY <1>2, <2>2, OneRowByRemoval, RowsStandByStep
<1> QED
  BY <1>3, <1>4 DEF ChildCommits

\* A header that is written, not removed, adds a month or keeps one.
LEMMA HeaderKeepsMonths ==
  ASSUME TypeOK, NEW m \in MonthIds, NEW h \in Month, WriteHeader(m, h)
  PROVE  Exists(m)' /\ \A n \in MonthIds : Exists(n) => Exists(n)'
  BY NoneAssumption DEF TypeOK, WriteHeader, Exists

LEMMA CloneKeepsRows ==
  ASSUME BookInv, IInv', NEW s \in Sessions, CloneCommit(s)
  PROVE  RowsStand' /\ OneRow'
<1> DEFINE src == call[s].month
           h == Draft(call[s].period, call[s].date, months[src].source)
<1>1. PICK m \in MonthIds : IsNextId(m) /\ WriteHeader(m, h) /\ CloneRows(src, m)
  BY DEF CloneCommit
<1>2. src \in MonthIds /\ call[s].period \in Periods /\ call[s].date \in Dates /\ Exists(src)
  BY DEF BookInv, IInv, WellFormedCalls, WellFormed, CloneCommit, Commit
<1>3. months[src].source \in Sources /\ TypeOK
  BY <1>2, ExistingType DEF BookInv, IInv, Month
<1>4. h \in Month
  BY <1>2, <1>3, DraftType
<1> HIDE DEF h
<1>5. months'[m] # None /\ \A n \in MonthIds : Exists(n) => Exists(n)'
  BY <1>1, <1>3, <1>4, HeaderKeepsMonths DEF Exists
<1>6. \A k \in Keys : RowsOf(m, k) = {}
  BY <1>1, NextIdFree, AbsentEmpty
<1>7. PICK new \in [Keys -> RowIds] : \A k \in Keys : \A i \in RowIds :
        /\ Copies(k, src) /\ i = new[k]
             => rows[k][i] = None /\ rows'[k][i] = Copy(k, src, m)
        /\ ~(Copies(k, src) /\ i = new[k]) => rows'[k][i] = rows[k][i]
  BY <1>1, <1>2, <1>3, CloneRowsAt
<1>8. \A k \in Keys : Copies(k, src) => Copy(k, src, m).month = m
  BY <1>2, <1>3, CopyType
<1>9. \A k \in Keys : \A i \in RowIds : rows'[k][i] # None =>
        \/ rows[k][i] # None /\ rows'[k][i].month = rows[k][i].month
        \/ i = new[k] /\ RowsOf(m, k) = {} /\ rows'[k][i].month = m
  BY <1>6, <1>7, <1>8
<1>10. OneRow /\ RowsStand /\ TypeOK'
  BY DEF BookInv, IInv
<1> QED
  BY <1>5, <1>9, <1>10, OneRowByInsert, RowsStandByStep

LEMMA DeleteKeepsRows ==
  ASSUME BookInv, IInv', NEW s \in Sessions, DeleteCommit(s)
  PROVE  RowsStand' /\ OneRow'
<1> DEFINE m == call[s].month
<1>1. m \in MonthIds /\ DeleteRows(m) /\ WriteHeader(m, None)
  BY CommitIsGuarded DEF BookInv, DeleteCommit, Guarded
<1>2. \A k \in Keys : \A i \in RowIds : rows'[k][i] # None =>
        rows[k][i] # None /\ rows'[k][i] = rows[k][i] /\ rows[k][i].month # m
  BY <1>1 DEF DeleteRows, RowsOf
<1>3. \A n \in MonthIds : n # m => months'[n] = months[n]
  BY <1>1 DEF BookInv, IInv, TypeOK, WriteHeader
<1>4. \A k \in Keys : \A i \in RowIds : rows[k][i] # None => rows[k][i].month \in MonthIds
  BY DEF BookInv, IInv, TypeOK, Row
<1>5. RowsStand'
  BY <1>2, <1>3, <1>4 DEF BookInv, RowsStand, Exists
<1> QED
  BY <1>2, <1>5, OneRowByRemoval DEF BookInv

\* The commits that rewrite a header and no row.
LEMMA HeaderCommitKeepsRows ==
  ASSUME BookInv, IInv', NEW s \in Sessions,
         \/ CreateCommit(s) \/ UpdateCommit(s) \/ CloseCommit(s)
         \/ ReopenCommit(s) \/ EmptyCloseCommit(s)
  PROVE  RowsStand' /\ OneRow'
<1>1. UNCHANGED rows
  BY DEF CreateCommit, UpdateCommit, CloseCommit, ReopenCommit, EmptyCloseCommit
<1>2. \A n \in MonthIds : Exists(n) => Exists(n)'
  <2>1. CASE CreateCommit(s)
    <3>1. PICK n \in MonthIds : WriteHeader(n, Draft(call[s].period, call[s].date, call[s].source))
      BY <2>1 DEF CreateCommit
    <3>2. Draft(call[s].period, call[s].date, call[s].source) \in Month
      BY <2>1, DraftType DEF BookInv, IInv, WellFormedCalls, WellFormed, CreateCommit
    <3> QED
      BY <3>1, <3>2, HeaderKeepsMonths DEF BookInv, IInv
  <2>2. CASE UpdateCommit(s)
    <3>1. call[s].month \in MonthIds /\ IsDraft(call[s].month) /\ call[s] \in Calls
      BY <2>2, CommitIsGuarded DEF UpdateCommit, Guarded, BookInv, IInv, TypeOK
    <3>2. Stamped(Updated(months[call[s].month], call[s])) \in Month
      BY <3>1, UpdatedType, StampedType DEF BookInv, IInv, IsDraft
    <3> QED
      BY <2>2, <3>1, <3>2, HeaderKeepsMonths DEF BookInv, IInv, UpdateCommit
  <2>3. ASSUME NEW op \in {"close", "reopen", "emptyClose"}, Commit(s, op),
               NEW st \in {"draft", "closed"}, Exists(call[s].month),
               WriteHeader(call[s].month, Stamped([months[call[s].month] EXCEPT !.status = st]))
        PROVE  \A n \in MonthIds : Exists(n) => Exists(n)'
    <3>1. call[s].month \in MonthIds
      BY <2>3, ReservedMonth DEF BookInv, Ops
    <3>2. Stamped([months[call[s].month] EXCEPT !.status = st]) \in Month
      BY <2>3, <3>1, StatusType DEF BookInv, IInv
    <3> QED
      BY <2>3, <3>1, <3>2, HeaderKeepsMonths DEF BookInv, IInv
  <2> QED
    BY <2>1, <2>2, <2>3 DEF CloseCommit, ReopenCommit, EmptyCloseCommit, IsDraft, IsClosed
<1>3. TypeOK' /\ RowsStand /\ OneRow
  BY DEF BookInv, IInv
<1> QED
  BY <1>1, <1>2, <1>3, OneRowByRemoval, RowsStandByStep

LEMMA QuietKeepsRows ==
  ASSUME BookInv, UNCHANGED <<months, rows>>
  PROVE  RowsStand' /\ OneRow'
  BY DEF BookInv, RowsStand, OneRow, RowsOf, Exists

LEMMA BookInvStep ==
  BookInv /\ [Next]_vars => BookInv'
<1> SUFFICES ASSUME BookInv, [Next]_vars PROVE BookInv'
  OBVIOUS
<1>1. IInv'
  BY NextIInv DEF BookInv
<1>2. CASE UNCHANGED <<months, rows>>
  BY <1>1, <1>2, QuietKeepsRows DEF BookInv
<1>3. ASSUME NEW s \in Sessions, SessionStep(s), ~UNCHANGED <<months, rows>>
      PROVE  RowsStand' /\ OneRow'
  <2>1. ~QuietStep(s)
    BY <1>3 DEF QuietStep, RequireEditable, ReserveInterval, Abort, EmptyCloseReplay, Read,
                Reserve, db
  <2> QED
    BY <1>1, <1>3, <2>1, SessionStepCases, ChildKeepsRows, CloneKeepsRows, DeleteKeepsRows,
       HeaderCommitKeepsRows
<1> QED
  BY <1>1, <1>2, <1>3 DEF Next, Confirm, Restart, db, vars, BookInv

LEMMA StepIsBook ==
  BookInv /\ [Next]_vars
    => [Book!BookNext \/ \E s \in Sessions : Misdirected(s)]_(Book!bookVars)
<1> SUFFICES ASSUME BookInv, Next, ~UNCHANGED <<months, rows>>
             PROVE  Book!BookNext \/ \E s \in Sessions : Misdirected(s)
  BY DEF vars, db, Book!bookVars, Headers, Contents, RowsOf
<1>1. PICK s \in Sessions : SessionStep(s)
  BY DEF Next, Confirm, Restart, db
<1>2. ~QuietStep(s)
  BY DEF QuietStep, RequireEditable, ReserveInterval, Abort, EmptyCloseReplay, Read, Reserve, db
<1> QED
  BY <1>1, <1>2, SessionStepCases, CommitMaps

\* However many sessions, months and rows there are: what reaches the tables is a month
\* book that is changed one month and one operation at a time, with its rules checked
\* where they hold (reporting_months.py:144, _guard.py:52, month_clone.py:299), save
\* for the misdirected writes of reused row ids (_guard.py:78).
THEOREM MonthsAreABook == Spec => ImplementsMonthBook
<1>1. Init => BookInv /\ Book!BookInit
  <2> SUFFICES ASSUME Init PROVE RowsStand /\ OneRow /\ Book!BookInit
    BY InitIInv DEF BookInv
  <2>1. RowsStand /\ OneRow /\ \A m \in MonthIds : \A k \in Keys : RowsOf(m, k) = {}
    BY DEF Init, RowsStand, OneRow, RowsOf
  <2> QED
    BY <2>1 DEF Init, Book!BookInit, Headers, Unstamped, Contents, Empty
<1> QED
  BY <1>1, BookInvStep, StepIsBook, PTL DEF Spec, ImplementsMonthBook

=============================================================================
