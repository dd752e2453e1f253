--------------------------- MODULE ReportingMonths ---------------------------
(***************************************************************************)
(* The reporting-month lifecycle of the backend: create, update, delete,   *)
(* close, reopen, clone, the intentional empty close with its immutable    *)
(* receipts, and the month-scoped child edits that share SQLite's single   *)
(* writer with them.                                                       *)
(*                                                                         *)
(* A request session runs in up to three steps, the points at which other  *)
(* sessions can interleave: plain SELECTs (which reserve nothing), the     *)
(* no-op UPDATE that reserves the writer and re-reads the month, and the   *)
(* commit.  Everything between the reservation and the commit is invisible *)
(* to the other sessions, so the writes appear at the commit.  A refusal,  *)
(* a validation error, a busy timeout and a dropped request all roll back: *)
(* Abort.  Restart is a process crash: the journal undoes open             *)
(* transactions and a new process epoch begins.                            *)
(***************************************************************************)
EXTENDS Naturals, FiniteSets

CONSTANTS Sessions,      \* request sessions that may run at once
          MaxMonths,     \* bound: months stored at once (ids are 1..MaxMonths)
          Periods,       \* calendar (year, month) pairs
          Dates,         \* snapshot dates
          Sources,       \* what a month was entered from: "manual", "alfa_pdf", ...
          BalanceKeys,   \* kinds of child rows a clone copies as saved facts
          TemplateKeys,  \* kinds of child rows a clone copies as templates only
          EventKeys,     \* kinds of child rows a clone does not copy
          Values,        \* contents of a child row
          Requests,      \* request ids of intentional empty closes
          MaxRows,       \* bound: stored rows of a kind (ids are 1..MaxRows)
          MaxClock,      \* bound: commits that stamp a month header
          MaxEpoch,      \* bound: process epochs
          None           \* an absent value, row, call or session

MonthIds == 1..MaxMonths
RowIds == 1..MaxRows
Keys == BalanceKeys \cup TemplateKeys \cup EventKeys

ASSUME BoundsAssumption ==
  MaxMonths \in Nat /\ MaxRows \in Nat /\ MaxClock \in Nat /\ MaxEpoch \in Nat

VARIABLES months,    \* committed month headers
          rows,      \* committed child rows of each kind, by row id
          receipts,  \* committed receipts of intentional empty closes
          clock,     \* the time of the last stamped commit
          epoch,     \* process epoch carried by every session
          writer,    \* the session holding SQLite's writer reservation
          at,        \* how far each session is
          call,      \* the operation each session runs, with its arguments
          intent,    \* what each request id's owner confirmed
          acked,     \* the confirmation each request id was acknowledged for
          current    \* history: confirmations whose month is unchanged since

db == <<months, rows, receipts, clock>>
client == <<intent, acked>>
vars == <<months, rows, receipts, clock, epoch, writer, at, call,
          intent, acked, current>>

-----------------------------------------------------------------------------
Month == [period: Periods, date: Dates, source: Sources,
          status: {"draft", "closed"}, created: Nat, updated: Nat]

Template == "template"      \* a cloned expense, saving or salary row
Row == [month: MonthIds, value: Values \cup {Template}]

Exists(m) == months[m] # None
IsDraft(m) == Exists(m) /\ months[m].status = "draft"
IsClosed(m) == Exists(m) /\ months[m].status = "closed"
Taken(p) == \E m \in MonthIds : Exists(m) /\ months[m].period = p

\* INTEGER PRIMARY KEY without AUTOINCREMENT: one more than the largest id, so the
\* id of a deleted month or row is given out again.
IsNextId(m) == /\ \A n \in MonthIds : Exists(n) => n < m
               /\ m > 1 => Exists(m - 1)
IsNextRow(k, i) == /\ \A j \in RowIds : rows[k][j] # None => j < i
                   /\ i > 1 => rows[k][i - 1] # None

RowsOf(m, k) == {i \in RowIds : rows[k][i] # None /\ rows[k][i].month = m}

\* Presence of saved actual rows; template rows and plans do not count.
HasActualFacts(m) == \E k \in Keys : \E i \in RowsOf(m, k) : rows[k][i].value \in Values

(***************************************************************************)
(* The identity a confirmation names: the persisted header, the last       *)
(* receipt of the month and the process epoch.  The SHA-256 digest is      *)
(* modelled as the material itself.                                        *)
(***************************************************************************)
ReceiptsOf(m) == {r \in Requests : receipts[r] # None /\ receipts[r].month = m}
LastRequest(m) ==
  IF ReceiptsOf(m) = {} THEN None
  ELSE CHOOSE r \in ReceiptsOf(m) :
         \A q \in ReceiptsOf(m) : receipts[q].closedAt <= receipts[r].closedAt
Identity(m) == [header |-> months[m], last |-> LastRequest(m), epoch |-> epoch]

Identities == [header: Month \cup {None}, last: Requests \cup {None}, epoch: Nat]
Intents == [month: MonthIds, identity: Identities]
Receipts == [month: MonthIds, intent: Intents, closedAt: Nat]

Ops == {"create", "update", "delete", "close", "reopen", "clone",
        "emptyClose", "add", "edit", "remove"}
Calls == [op: Ops \cup {None}, month: MonthIds \cup {None},
          period: Periods \cup {None}, date: Dates \cup {None},
          source: Sources \cup {None}, key: Keys \cup {None},
          row: RowIds \cup {None}, value: Values \cup {None}, request: Requests \cup {None},
          intent: Intents \cup {None}]
NoCall == [op |-> None, month |-> None, period |-> None, date |-> None,
           source |-> None, key |-> None, row |-> None, value |-> None,
           request |-> None, intent |-> None]

ASSUME NoneAssumption ==
  /\ None \notin Sessions \cup Periods \cup Dates \cup Keys \cup Values \cup Requests
  /\ None \notin MonthIds /\ None \notin RowIds /\ None \notin Row /\ None \notin Ops
  /\ None \notin Month /\ None \notin Intents /\ None \notin Receipts

\* Every row, receipt, session and pending call has the shape the tables give it
\* (persistence.py:744).
TypeOK ==
  /\ months \in [MonthIds -> Month \cup {None}]
  /\ rows \in [Keys -> [RowIds -> Row \cup {None}]]
  /\ receipts \in [Requests -> Receipts \cup {None}]
  /\ clock \in Nat
  /\ epoch \in Nat
  /\ writer \in Sessions \cup {None}
  /\ at \in [Sessions -> {"idle", "read", "reserved"}]
  /\ call \in [Sessions -> Calls]
  /\ intent \in [Requests -> Intents \cup {None}]
  /\ acked \in [Requests -> Intents \cup {None}]
  /\ current \subseteq Intents

Init ==
  /\ months = [m \in MonthIds |-> None]
  /\ rows = [k \in Keys |-> [i \in RowIds |-> None]]
  /\ receipts = [r \in Requests |-> None]
  /\ clock = 0
  /\ epoch = 0
  /\ writer = None
  /\ at = [s \in Sessions |-> "idle"]
  /\ call = [s \in Sessions |-> NoCall]
  /\ intent = [r \in Requests |-> None]
  /\ acked = [r \in Requests |-> None]
  /\ current = {}

-----------------------------------------------------------------------------
(* Steps of a session. *)

\* The plain SELECTs of an operation: no transaction, no reservation.
Read(s, c) ==
  /\ at[s] = "idle"
  /\ at' = [at EXCEPT ![s] = "read"]
  /\ call' = [call EXCEPT ![s] = c]
  /\ UNCHANGED <<db, client, epoch, writer, current>>

\* An operation whose first statement reserves the writer.
Reserve(s, c) ==
  /\ at[s] = "idle"
  /\ writer = None
  /\ writer' = s
  /\ at' = [at EXCEPT ![s] = "reserved"]
  /\ call' = [call EXCEPT ![s] = c]
  /\ UNCHANGED <<db, client, epoch, current>>

\* The end of a session, with what it reserved given back.
Finish(s) ==
  /\ at' = [at EXCEPT ![s] = "idle"]
  /\ call' = [call EXCEPT ![s] = NoCall]
  /\ writer' = IF writer = s THEN None ELSE writer

\* COMMIT of session s, which holds the reservation.
Commit(s, op) == at[s] = "reserved" /\ call[s].op = op /\ Finish(s)

\* A commit that writes month m's header at a fresh time.
WriteHeader(m, header) ==
  /\ clock < MaxClock
  /\ clock' = clock + 1
  /\ months' = [months EXCEPT ![m] = header]
  /\ current' = {i \in current : i.month # m}

Stamped(header) == [header EXCEPT !.updated = clock + 1]

Draft(p, d, src) == [period |-> p, date |-> d, source |-> src, status |-> "draft",
                     created |-> clock + 1, updated |-> clock + 1]

-----------------------------------------------------------------------------
(* The guard of every edit of a draft month or of its child rows. *)

Guarded == {"update", "delete", "add", "edit", "remove"}

RequireEditable(s) ==
  /\ at[s] = "read"
  /\ call[s].op \in Guarded
  /\ writer = None
  /\ IsDraft(call[s].month)
  /\ writer' = s
  /\ at' = [at EXCEPT ![s] = "reserved"]
  /\ UNCHANGED <<db, client, epoch, call, current>>

\* Reopen reserves whatever the status of the month is.
ReserveInterval(s) ==
  /\ at[s] = "read"
  /\ call[s].op = "reopen"
  /\ writer = None
  /\ writer' = s
  /\ at' = [at EXCEPT ![s] = "reserved"]
  /\ UNCHANGED <<db, client, epoch, call, current>>

Abort(s) ==
  /\ at[s] # "idle"
  /\ Finish(s)
  /\ UNCHANGED <<db, client, epoch, current>>

-----------------------------------------------------------------------------
(* Month operations. *)

CreateRead(s, p, d, src) ==
  /\ ~Taken(p)
  /\ Read(s, [NoCall EXCEPT !.op = "create", !.period = p, !.date = d, !.source = src])

\* Mutant of CreateCommit: no unique constraint behind the earlier lookup.
CreateUnchecked(s) ==
  /\ at[s] = "read"
  /\ call[s].op = "create"
  /\ writer = None
  /\ \E m \in MonthIds :
       /\ IsNextId(m)
       /\ WriteHeader(m, Draft(call[s].period, call[s].date, call[s].source))
  /\ Finish(s)
  /\ UNCHANGED <<rows, receipts, epoch, client>>

\* INSERT takes the writer and COMMIT gives it back; the unique constraint on
\* (year, month) refuses a period that was taken since the read.
CreateCommit(s) ==
  /\ at[s] = "read"
  /\ call[s].op = "create"
  /\ writer = None
  /\ ~Taken(call[s].period)
  /\ \E m \in MonthIds :
       /\ IsNextId(m)
       /\ WriteHeader(m, Draft(call[s].period, call[s].date, call[s].source))
  /\ Finish(s)
  /\ UNCHANGED <<rows, receipts, epoch, client>>

\* The caller gives the date, the source or both: one it leaves out stays None.
UpdateRead(s, m, d, src) ==
  /\ Exists(m)
  /\ Read(s, [NoCall EXCEPT !.op = "update", !.month = m, !.date = d, !.source = src])

Given(new, old) == IF new = None THEN old ELSE new

Updated(header, c) ==
  [header EXCEPT !.date = Given(c.date, @), !.source = Given(c.source, @)]

UpdateCommit(s) ==
  LET m == call[s].month IN
  /\ Commit(s, "update")
  /\ Updated(months[m], call[s]) # months[m]
  /\ WriteHeader(m, Stamped(Updated(months[m], call[s])))
  /\ UNCHANGED <<rows, receipts, epoch, client>>

DeleteRead(s, m) ==
  /\ IsDraft(m)
  /\ Read(s, [NoCall EXCEPT !.op = "delete", !.month = m])

DeleteRows(m) ==
  rows' = [k \in Keys |-> [i \in RowIds |-> IF i \in RowsOf(m, k) THEN None ELSE rows[k][i]]]

\* Mutant of DeleteCommit: the receipts go with the month.
DeleteWithReceipts(s) ==
  LET m == call[s].month IN
  /\ Commit(s, "delete")
  /\ DeleteRows(m)
  /\ receipts' = [r \in Requests |-> IF r \in ReceiptsOf(m) THEN None ELSE receipts[r]]
  /\ WriteHeader(m, None)
  /\ UNCHANGED <<epoch, client>>

DeleteCommit(s) ==
  LET m == call[s].month IN
  /\ Commit(s, "delete")
  /\ DeleteRows(m)
  /\ WriteHeader(m, None)
  /\ UNCHANGED <<receipts, epoch, client>>

\* Mutant of CloseReserve: Close checks the month without the reservation.
CloseUnreserved(s, m) ==
  /\ at[s] = "idle"
  /\ at' = [at EXCEPT ![s] = "reserved"]
  /\ call' = [call EXCEPT ![s] = [NoCall EXCEPT !.op = "close", !.month = m]]
  /\ UNCHANGED <<db, client, epoch, writer, current>>

CloseReserve(s, m) == Reserve(s, [NoCall EXCEPT !.op = "close", !.month = m])

CloseCommit(s) ==
  LET m == call[s].month IN
  /\ Commit(s, "close")
  /\ IsDraft(m)
  /\ WriteHeader(m, Stamped([months[m] EXCEPT !.status = "closed"]))
  /\ UNCHANGED <<rows, receipts, epoch, client>>

ReopenRead(s, m) ==
  /\ Exists(m)
  /\ Read(s, [NoCall EXCEPT !.op = "reopen", !.month = m])

\* Reopening a draft month writes nothing: its updated_at stays.
ReopenCommit(s) ==
  LET m == call[s].month IN
  /\ Commit(s, "reopen")
  /\ IsClosed(m)
  /\ WriteHeader(m, Stamped([months[m] EXCEPT !.status = "draft"]))
  /\ UNCHANGED <<rows, receipts, epoch, client>>

\* BEGIN IMMEDIATE before the source is read.
CloneReserve(s, m, p, d) ==
  Reserve(s, [NoCall EXCEPT !.op = "clone", !.month = m, !.period = p, !.date = d])

Copies(k, src) == k \in BalanceKeys \cup TemplateKeys /\ RowsOf(src, k) # {}

\* What a clone stores of month src's row of kind k, for month m.
Copy(k, src, m) ==
  [month |-> m,
   value |-> IF k \in BalanceKeys THEN rows[k][CHOOSE i \in RowsOf(src, k) : TRUE].value
             ELSE Template]

CloneRows(src, m) ==
  \E new \in [Keys -> RowIds] :
    /\ \A k \in Keys : Copies(k, src) => IsNextRow(k, new[k])
    /\ rows' = [k \in Keys |-> IF Copies(k, src)
                              THEN [rows[k] EXCEPT ![new[k]] = Copy(k, src, m)]
                              ELSE rows[k]]

CloneCommit(s) ==
  LET src == call[s].month IN
  /\ Commit(s, "clone")
  /\ Exists(src)
  /\ ~Taken(call[s].period)
  /\ \E m \in MonthIds :
       /\ IsNextId(m)
       /\ WriteHeader(m, Draft(call[s].period, call[s].date, months[src].source))
       /\ CloneRows(src, m)
  /\ UNCHANGED <<receipts, epoch, client>>

-----------------------------------------------------------------------------
(* Child rows.  An edit or a removal loads a row by its id, reserves the   *)
(* month of the row it loaded, and then writes by id: it does not load the *)
(* row again under the reservation, and the id may be another row's by     *)
(* then.  Bound: a month holds one row of a kind at a time.                *)

AddRead(s, m, k, v) ==
  Read(s, [NoCall EXCEPT !.op = "add", !.month = m, !.key = k, !.value = v])

EditRead(s, k, i, v) ==
  /\ rows[k][i] # None /\ rows[k][i].value # v
  /\ Read(s, [NoCall EXCEPT !.op = "edit", !.month = rows[k][i].month,
                            !.key = k, !.row = i, !.value = v])

RemoveRead(s, k, i) ==
  /\ rows[k][i] # None
  /\ Read(s, [NoCall EXCEPT !.op = "remove", !.month = rows[k][i].month,
                            !.key = k, !.row = i])

ChildCommit(s, op) ==
  /\ Commit(s, op)
  /\ UNCHANGED <<months, receipts, clock, epoch, client, current>>

AddCommit(s) ==
  LET m == call[s].month  k == call[s].key IN
  /\ ChildCommit(s, "add")
  /\ RowsOf(m, k) = {}
  /\ \E i \in RowIds :
       /\ IsNextRow(k, i)
       /\ rows' = [rows EXCEPT ![k][i] = [month |-> m, value |-> call[s].value]]

\* UPDATE by id of the one column; an UPDATE that finds no row is refused.
EditCommit(s) ==
  LET k == call[s].key  i == call[s].row IN
  /\ ChildCommit(s, "edit")
  /\ rows[k][i] # None
  /\ rows' = [rows EXCEPT ![k][i].value = call[s].value]

RemoveCommit(s) ==
  /\ ChildCommit(s, "remove")
  /\ rows' = [rows EXCEPT ![call[s].key][call[s].row] = None]

-----------------------------------------------------------------------------
(* The intentional empty close. *)

\* The owner reads the month's identity and confirms it under request id r.
Confirm(r, m) ==
  /\ Exists(m)
  /\ intent' = [intent EXCEPT ![r] = [month |-> m, identity |-> Identity(m)]]
  /\ current' = current \cup {intent'[r]}
  /\ UNCHANGED <<db, epoch, writer, at, call, acked>>

EmptyCloseReserve(s, r) ==
  /\ intent[r] # None
  /\ Reserve(s, [NoCall EXCEPT !.op = "emptyClose", !.month = intent[r].month,
                               !.request = r, !.intent = intent[r]])

\* The response to request r reaches the client or is lost.
Acknowledge(r, i) == acked' = acked \/ acked' = [acked EXCEPT ![r] = i]

\* A retry of a committed command is answered from its receipt: a rollback.
EmptyCloseReplay(s) ==
  LET r == call[s].request IN
  /\ Commit(s, "emptyClose")
  /\ receipts[r] # None
  /\ receipts[r].intent = call[s].intent
  /\ Acknowledge(r, call[s].intent)
  /\ UNCHANGED <<db, epoch, intent, current>>

\* Mutant of IdentityMatches: the header's revision is left out of the digest.
PeriodMatches(i) ==
  i.identity.header.period = months[i.month].period /\ i.identity.epoch = epoch

IdentityMatches(i) == i.identity = Identity(i.month)

EmptyCloseCommit(s) ==
  LET r == call[s].request  m == call[s].month  i == call[s].intent IN
  /\ Commit(s, "emptyClose")
  /\ receipts[r] = None
  /\ IsDraft(m)
  /\ months[m].source = "manual"
  /\ i.month = m /\ IdentityMatches(i)
  /\ ~HasActualFacts(m)
  /\ receipts' = [receipts EXCEPT ![r] = [month |-> m, intent |-> i,
                                          closedAt |-> clock + 1]]
  /\ WriteHeader(m, Stamped([months[m] EXCEPT !.status = "closed"]))
  /\ Acknowledge(r, i)
  /\ UNCHANGED <<rows, epoch, intent>>

-----------------------------------------------------------------------------
\* The process dies; open transactions are rolled back by the journal.
Restart ==
  /\ epoch < MaxEpoch
  /\ epoch' = epoch + 1
  /\ writer' = None
  /\ at' = [s \in Sessions |-> "idle"]
  /\ call' = [s \in Sessions |-> NoCall]
  /\ current' = {}
  /\ UNCHANGED <<db, client>>

MonthStep(s) ==
  \/ \E p \in Periods, d \in Dates, src \in Sources : CreateRead(s, p, d, src)
  \/ CreateCommit(s)
  \/ \E m \in MonthIds, d \in Dates \cup {None}, src \in Sources \cup {None} :
       UpdateRead(s, m, d, src)
  \/ UpdateCommit(s)
  \/ \E m \in MonthIds : DeleteRead(s, m)
  \/ DeleteCommit(s)
  \/ \E m \in MonthIds : CloseReserve(s, m)
  \/ CloseCommit(s)
  \/ \E m \in MonthIds : ReopenRead(s, m)
  \/ ReopenCommit(s)
  \/ \E m \in MonthIds, p \in Periods, d \in Dates : CloneReserve(s, m, p, d)
  \/ CloneCommit(s)

ChildStep(s) ==
  \/ \E m \in MonthIds, k \in Keys, v \in Values : AddRead(s, m, k, v)
  \/ AddCommit(s)
  \/ \E k \in Keys, i \in RowIds, v \in Values : EditRead(s, k, i, v)
  \/ EditCommit(s)
  \/ \E k \in Keys, i \in RowIds : RemoveRead(s, k, i)
  \/ RemoveCommit(s)

EmptyCloseStep(s) ==
  \/ \E r \in Requests : EmptyCloseReserve(s, r)
  \/ EmptyCloseReplay(s)
  \/ EmptyCloseCommit(s)

SessionStep(s) ==
  \/ RequireEditable(s)
  \/ ReserveInterval(s)
  \/ Abort(s)
  \/ MonthStep(s)
  \/ ChildStep(s)
  \/ EmptyCloseStep(s)

Next ==
  \/ \E s \in Sessions : SessionStep(s)
  \/ \E r \in Requests, m \in MonthIds : Confirm(r, m)
  \/ Restart

Spec == Init /\ [][Next]_vars

-----------------------------------------------------------------------------
(* What it implements: headers without their stamps, and what each month  *)
(* holds.                                                                  *)

Unstamped(header) ==
  IF header = None THEN None
  ELSE [period |-> header.period, date |-> header.date, source |-> header.source,
        status |-> header.status]

Headers == [m \in MonthIds |-> Unstamped(months[m])]

\* The values of each kind that a month's rows hold.
Contents ==
  [m \in MonthIds |-> [k \in Keys |-> {rows[k][i].value : i \in RowsOf(m, k)}]]

Empty == [k \in Keys |-> {}]
Holdings == [Keys -> SUBSET (Values \cup {Template})]

Copied(held) ==
  [k \in Keys |-> IF k \in BalanceKeys THEN held[k]
                  ELSE IF k \in TemplateKeys /\ held[k] # {} THEN {Template} ELSE {}]

Book == INSTANCE MonthBook WITH header <- Headers, rows <- Contents,
                                NoRows <- Empty, Rows <- Holdings

ASSUME HeaderAssumption == None \notin Book!Header

-----------------------------------------------------------------------------
(* Properties. *)

\* An edit or a removal reaches a row of a month it has not reserved: the row it
\* loaded is gone and its id is another month's row now.
Misdirected(s) ==
  /\ EditCommit(s) \/ RemoveCommit(s)
  /\ rows[call[s].key][call[s].row] # None
  /\ rows[call[s].key][call[s].row].month # call[s].month

\* However requests overlap, each changes one month at once and as its status allows:
\* a period has one month, a draft is edited, closed or deleted, a closed month is
\* reopened and nothing else, a deleted month leaves no row to whoever takes its id, and
\* a clone is of the source as it was at one moment (reporting_months.py:144).  The one
\* step the book does not have is a misdirected write of a reused row id (_guard.py:78).
ImplementsMonthBook ==
  /\ Book!BookInit
  /\ [][Book!BookNext \/ \E s \in Sessions : Misdirected(s)]_(Book!bookVars)

\* No two stored months name the same calendar period, although every creator
\* looks for the period before it holds the writer (reporting_months.py:144).
OneMonthPerPeriod ==
  \A m, n \in MonthIds :
    Exists(m) /\ Exists(n) /\ months[m].period = months[n].period => m = n

\* What a session checked when it reserved the writer still holds until it
\* commits: an edit never reaches a month that was closed or deleted in between
\* (_guard.py:52).
EditsHoldADraft ==
  \A s \in Sessions :
    at[s] = "reserved" /\ call[s].op \in Guarded => IsDraft(call[s].month)

\* At most one session is between its reservation and its commit.
SingleWriter ==
  \A s \in Sessions : at[s] = "reserved" => writer = s

\* Row i of kind k is no row of month m, stays as it is, or is hit by mistake.
KeepsRow(m, k, i) ==
  rows'[k][i] # rows[k][i] =>
    \/ /\ rows[k][i] # None => rows[k][i].month # m
       /\ rows'[k][i] # None => rows'[k][i].month # m
    \/ \E s \in Sessions : Misdirected(s) /\ call[s].key = k /\ call[s].row = i

KeepsClosed(m) ==
  IsClosed(m) =>
    /\ \A k \in Keys, i \in RowIds : KeepsRow(m, k, i)
    /\ \/ months'[m] = months[m]
       \/ months'[m] = [months[m] EXCEPT !.status = "draft", !.updated = clock']

\* A closed month is never deleted and its header changes by an explicit reopen only
\* (_guard.py:3).  Its rows change by one thing only, the write of a session that
\* loaded a row of another month under the same id before that row was deleted
\* (_guard.py:78): what a session reserved it also writes, or it is such a write.
ClosedMonthsFrozen == [][\A m \in MonthIds : KeepsClosed(m)]_vars

WrittenAsConfirmed(r) ==
  LET m == receipts'[r].month IN
  receipts'[r] # receipts[r] =>
    /\ receipts'[r].intent \in current
    /\ receipts'[r].intent.month = m
    /\ IsDraft(m) /\ ~HasActualFacts(m)

\* A receipt is only ever written for a draft without actual facts whose header
\* has not been touched since the owner confirmed it, in the process the owner
\* confirmed it to (intentional_empty_close.py:57).
EmptyCloseAsConfirmed == [][\A r \in Requests : WrittenAsConfirmed(r)]_vars

\* Whatever happens after an acknowledgement, the month's reopening and deletion
\* included, its receipt stays and names the intent that was acknowledged
\* (intentional_empty_close.py:125).
AcknowledgedStaysRecorded ==
  \A r \in Requests : acked[r] # None =>
    receipts[r] # None /\ receipts[r].intent = acked[r]

=============================================================================
