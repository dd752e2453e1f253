# Hermes Finance: a verification development

Hermes Finance is a local, single-user personal finance application: a React front end, a
FastAPI/SQLAlchemy backend over one SQLite file (`src/backend/src/hermes_finance/`), and
PowerShell/Python tools that start it, back it up and repair it.  One owner uses it, yet
almost nothing in it is sequential: requests run on a thread pool and each has a database
session of its own, SQLite has one writer and lets a `SELECT` reserve nothing, browsers
repeat requests whose answer was lost, several tabs show old data, backups and restores
replace the file that is being used, and the offline recovery is a sequence of file
operations that may be cut off anywhere.  The modules here model that.  Paths below are
relative to `src/backend/src/hermes_finance/` unless they start with `docs/`.

## 1. Inventory

| Component | State | Operations | Interacts with | Hard behaviour | What makes it correct |
|---|---|---|---|---|---|
| Reporting months (`services/reporting_months.py`, `_guard.py`, `month_clone.py`, `intentional_empty_close.py`) | month headers (draft/closed), the rows of a month, receipts of empty closes | create, update, delete, close, reopen, clone, confirmed empty close; every month-scoped edit passes its guard | all month-scoped services, process epoch | check-then-write across sessions, ids reused after deletion, retried closes | a closed month is frozen but for one named write (section 4), a period is stored once, an empty close is what the owner confirmed, once |
| Linked credit-card debts (`services/linked_pairs.py`, `debts.py`, `cash.py`, `deposits.py`, `accounts.py`) | accounts, cash and deposit rows, debts with an optional link | create/update/delete of each, link, unlink | capital read models | the pair's last balance fact; rows read before the writer is reserved | a link keeps an eligible account and balance evidence, but for two named stale writes (section 4) |
| Database maintenance (`database.py: DatabaseMaintenance`) | operation counter, restoring flag, form epoch, incarnation, condition variable | operation, restore | every session, backups | wait/notify, a restore among arriving operations | a restore runs alone and the door reopens |
| Local backups (`services/backups.py`, `api/backups.py`) | backup directory, live file, engine pool, issued forms | create, list, restore | maintenance, migrations | name reservation, failure or death between file operations, pooled connections | what is replaced was saved, complete backups stay, answers are true |
| Database admission (`services/database_admission.py`, `cli.py`, `services/migrations.py`) | kernel mutex, fence file, borrowed admissions | Start, nested connection opening, close, recovery | forward recovery, engine creation | threads that still open connections while the runtime leaves; fence outlives the mutex | no runtime behind a fence or beside a recovery |
| Offline forward recovery (`services/forward_recovery.py`, `forward_recovery_cli.py`) | plan, stages, incident, records, fence | qualify, recover, resume, finish | admission, runtime, migrations | crash at every file operation, torn records, repeated commands, competing plans | the incident database is never lost; the fence opens only on what was sealed |
| Transfer links, evidence, attestations (`services/external_flows.py`, `transfer_reconciliation.py`, `cash_boundary_coverage.py`) | flows (legs), links, evidence rows, coverage attestations | create/update/delete of legs and links, classify, reconcile, attest | months (deletion), valuation | a leg re-linked while evidence is added; a month deleted in bulk; a flow that moves between attested histories | evidence pins the legs it explains, a status is what the legs say, a complete attestation is current |
| In-kind movements (`services/in_kind_boundary_coverage.py`) | movements, attestations with a signature | create/update/delete, attest | months, valuation | as the cash attestations | as the cash attestations |
| Snapshot versions, quote preview and apply (`services/concurrency.py`, `positions.py`, `quote_preview.py`, `quote_apply.py`, `quote_preview_evidence.py`, `instrument_mappings.py`) | `updated_at` as version of a position, mappings of instruments, one process-local preview per month, provenance rows | If-Match edits, preview, apply, map, exclude, clear | market data (external), months | provider call between check and write; a tab, another tab and a quote | no lost update; what is applied is what was previewed, once |
| Form tokens (`api/historical_membership.py`, `api/performance_valuation_capture.py`) | registry of single-use tokens | issue, consume | maintenance identity | double submit, restore in between | a form is used at most once, against the file it was read from (the file: `BackupRestore`) |
| Statement import and payouts (`services/statement_import_apply.py`, `statement_import_retract.py`, `applied_statement_events.py`, `investment_cash_flows.py`) | payouts, applied events with append-only revisions | apply (create, link, revise), retract, the owner's create, update and delete | months | a plan made before the reservation; corrections against retractions; ids used again | a row is applied once, a retraction ends its history, nothing of the owner's is overwritten or removed |
| Forecast refresh (`services/draft_payouts.py`, `payout_preview.py`, `payout_apply.py`) | transient status of a month, background task, pinned connection, saved forecasts | schedule after acceptances, run, refresh by the owner | market data (external), mappings, months | two provider calls between the facts and the write; one position of several fails | forecasts rest on current facts, one task per month, an acceptance that waits is read by a later batch or a batch ends in an outcome the owner sees |
| Source intake and broker months (`services/source_intake.py`, `mybroker_*.py`, `broker_*.py`) | staged sources, owned broker facts | stage, review, apply, revoke | months, process epoch | staged source expires with the process | a source is applied once |
| Protected backups and rehearsal (`services/protected_backups.py`, `recovery_rehearsal.py`, `recovery_process.py`) | protected directory, receipts, locks | publish, prune, rehearse | admission | crash between write and publish | only verified copies are published |
| Month-scoped facts (incomes, salary, expenses, goals, budgets, properties) | rows of a month | create/update/delete | month guard | canonical salary row per month | as the guard of reporting months |
| Valuation capture, historical membership and flows | event versions, observations | observe, correct, close | flows, tokens | observation of versions that change | an observation names the versions it saw |
| Performance, returns (`services/portfolio_xirr.py`, `portfolio_twrr.py`, `domain/`) | none | pure computations | prepared evidence | decimal root finding | numeric: outside this development |
| Read models, exports, market data clients, migrations, front end, scripts | none of their own, or external | | | | not modelled |

Where a request and its neighbours can interleave is the same everywhere, and every
module of sessions is built on it: a `SELECT` takes no lock (pysqlite begins its
transaction at the first write), so a handler is a **read** step, then a **reserve**
step (the no-op `UPDATE` of `_guard.py:52` or `reporting_months.py:289`, which takes
SQLite's single writer and reads the month again), then a **commit** step.  Between
reservation and commit nobody else writes and nobody sees the session's rows, so all
of its writes are shown at the commit.  A refusal, a validation error, `SQLITE_BUSY`
and a client that goes away are all a rollback: `Abort`.

## 2. Modules

| Module | Models | Composition |
|---|---|---|
| `MonthBook` | what the lifecycle promises: months changed one at a time, by whole operations | abstract specification |
| `ReportingMonths` | the month lifecycle and the guard of month-scoped edits | `Book == INSTANCE MonthBook WITH ...` |
| `ReportingMonthsProofs` | its inductive invariants, that it implements `MonthBook` but for misdirected writes, and what a closed month keeps | EXTENDS `ReportingMonths`, `TLAPS` |
| `LinkedPairs` | accounts, balances, debts and links | stands alone |
| `LinkedPairsProofs` | its inductive invariant, and which stale writes alone break each promise | EXTENDS `LinkedPairs`, `TLAPS` |
| `TransferLinks` | flows, transfer links, evidence, attestations, months that close, reopen and go | stands alone |
| `TransferLinksProofs` | its inductive invariant and seven theorems on it | EXTENDS `TransferLinks`, `TLAPS` |
| `PayoutLedger` | what the statement import promises: payouts of the owner and of applied rows, changed by whole operations | abstract specification |
| `StatementEvents` | payouts, statement events and their revisions | `Ledger == INSTANCE PayoutLedger WITH ...` |
| `StatementEventsProofs` | its inductive invariants, and that it implements `PayoutLedger` | EXTENDS `StatementEvents`, `TLAPS` |
| `QuoteApply` | a position with its versions, its instrument's mapping, previews of quotes | stands alone |
| `QuoteApplyProofs` | its inductive invariant and four theorems on it | EXTENDS `QuoteApply`, `TLAPS` |
| `DraftPayouts` | the forecast refresh of a month and its schedule | stands alone |
| `DraftPayoutsProofs` | its inductive invariant and two theorems on it | EXTENDS `DraftPayouts`, `TLAPS` |
| `Absent` | the constant `None` of the modules that are composed | EXTENDED by `Maintenance` and `Admission` |
| `MaintenanceLock` | what the admission control promises: many operations or one restore | abstract specification |
| `Maintenance` | the condition-variable protocol of `DatabaseMaintenance` | `Lock == INSTANCE MaintenanceLock WITH ...` |
| `AtomicRestore` | what the backups promise: complete copies, and restores in one step | abstract specification |
| `BackupRestore` | backups, restore, sessions, forms, crashes | EXTENDS `Maintenance` and takes its actions as the door of every session; `Atomic == INSTANCE AtomicRestore WITH ...` |
| `BackupRestoreProofs` | the inductive invariants of `Maintenance` and of `BackupRestore` and what follows, among it that they implement `MaintenanceLock` and `AtomicRestore` | EXTENDS `BackupRestore`, `TLAPS` |
| `Admission` | the mutex, the runtime's borrowed admissions, the fence | stands alone |
| `ForwardRecovery` | the recovery commands and the runtime between them | EXTENDS `Admission` and takes its actions for every entry, exit and fence write |
| `ForwardRecoveryProofs` | the inductive invariants and nine theorems of `Admission` and of `ForwardRecovery` on it | EXTENDS `ForwardRecovery`, `TLAPS` |
| `MCAdmissionControl` | the two doors, within a process and between processes | product of `Maintenance` and `Admission`, which share no state |
| other `MC*` | model values and symmetry sets | EXTENDS the module they instantiate |

### ReportingMonths

`months`, `rows` and `receipts` are the committed tables; a header carries the period, the
snapshot date, the source, the status and two stamps from `clock`, which stands for
`updated_at` (every flush of a header stamps it, `persistence.py:774`).  The rows of a kind
(a key) are stored under row ids of their own, each with its month; a month has at most one
row of a kind here, several balances being several keys; keys are split by what a clone does
with them (copies the fact, copies a template, or nothing).  An edit or a removal loads a
row by its id (`services/cash.py:130`, `:163`), reserves the month of the copy it loaded
(`_guard.py:78`) and writes by id, whatever is stored under that id by then.  `writer`, `at`
and `call` are the sessions; `epoch` is the process epoch of `services/source_intake.py:44`.
Ids are assigned as SQLite does for an `INTEGER PRIMARY KEY` without `AUTOINCREMENT`, so the
id of a deleted month or of a row comes back: this is what makes a stale confirmation
dangerous, and a stale edit.  The SHA-256 identity of `empty_close_identity` is modelled as
the material it digests.  `intent` and `acked` are the client's side (what the owner
confirmed; what was acknowledged to it); `current` is a history variable, the set of
confirmations whose month has not been touched since they were made.  `Restart` ends the
process with its sessions.

`MonthBook` is what is left of it for a reader of the tables: headers without their
stamps (`Headers`) and the rows of each month.  It has no sessions and no reads, only five
operations that happen at once, each with its rule: open a month of a free period as a
draft, empty or with a copy of what another month holds at that moment; edit a draft's
header or its rows; switch the status and nothing else; remove a draft with all its rows.
`ImplementsMonthBook` says that a check made at a read, before the reservation, is never
what a commit rests on, with one exception that it names: `Misdirected`, the write of a
session whose row was deleted and whose row id belongs to another month now.
`ClosedMonthsFrozen` makes the same exception for the rows of a closed month, none for its
header.  The run reaches misdirected writes to open and to closed months.

Left out: what deletion and reopening invalidate elsewhere (links and cash attestations are
in `TransferLinks`; payout history, observed valuation points and in-kind attestations are
not modelled) and close guards that only refuse.

### LinkedPairs

`account`, `cash`, `deposit`, `debt` are the tables of one month (links never cross
months) and `seen` is the row a session loaded before it reserved the writer, since the
unit of work writes only the changed columns of the row it loaded (`Flushed`).
`Unreferenced` is the foreign key `ON DELETE RESTRICT` that a commit meets, and
`DebtConstraints` the table's `CHECK` and unique index.  Any of the thirteen operations may
overlap any other at every step: `update_account` reserves nothing and decides on the row and
on the linked debts it has read (`LoadedAccount`), the others hold the reservation while they
decide, yet an update or removal of a cash or deposit row judges the copy it had loaded.
`LinkedDebtsEligible` (the debt is a card debt that counts, the only one of its account,
and the account exists) holds of every interleaving.  That the account counts and that it
has an included balance do not, and the two action properties say exactly how they end:
`AccountsLapseByStaleUpdates` by an update of that account that was decided on another row
or before the link (`StaleUpdate`), `EvidenceLapsesByStaleWrites` by a cash or deposit
write judged on another row than the one it changes or removes (`StaleBalanceWrite`).
Everything else, among it two removals each of which sees the other's row and a link made
while its evidence is removed, must keep both.

### TransferLinks

`flows`, `links`, `evidence` and `coverage` are the tables, `months` the status of each
month.  A write that reserves before it reads is one step; the update and the deletion of a
flow read first (`ReadFlow`, kept in `pending`) and compare what they read with what they
find under the reservation (`AsRead`).  An update's arguments are a record in which `None`
leaves a column alone and `Unset` leaves the link alone, since the code's checks ask which
arguments were given (`Repins`, `Reshapes`).  `Refreshed` derives the status of the links a
write touched and `Invalidated` turns attestations over a changed history into unknown ones;
both are conjuncts of the write.  `ReadFlow` of one session and the write of another are
what the `#490` line of `docs/ARCHITECTURE_AND_CONTRACTS.md:167` is about.

Left out: amounts and references of evidence, currency and scope of a flow,
classification, boundary groups, valuation points and attestations by a source preview.

### StatementEvents

`flow` holds the payouts of the owner and of statements, `events` the statement events in
the order of their ids, each with its identity, its mode (it made its payout, or was
linked to one that existed), its status and the `history` of its revisions; a revision is
what the row said and the fingerprint of the payout afterwards (`MaterialOf`).  An apply
is three steps: the identity of a row is looked up (`IdentifyNew`, `IdentifyApplied`), the
stage of the row is planned from payouts that are read then (`PlanCreate`, `PlanLink`,
`PlanRevise`), and under the reservation what the code compares again is compared again
and written (`CommitCreate`, `CommitLink`, `CommitRevise`).  A retraction reads the event
and its payout and then reserves the month **of the payout as it was read**
(`CommitRetract`); so do the owner's update and deletion.  `NextFlow` reuses the id of the
last payout once it is deleted, as SQLite does.  A payout's `source` is a text like its other
columns: the owner may enter a payout as `statement` (`api/investment_flows.py:40`) and may change
the source of any payout (`services/investment_cash_flows.py:292`); only
`_linked_flow_matches_accepted` looks at it, and takes a payout with another source for one
the owner has changed.  An edit carries the columns it changes (`Edited`), since the unit of
work writes no others.

`PayoutLedger` keeps the payouts and forgets sessions, event ids and histories: `standing`
is the set of applied rows, each with its identity, its payout, its mode and what it says
(`Standing`).  The owner enters payouts, may amend anything but the month of any payout, and
removes one only while no row stands for it; a row that is new creates a payout or stands
for one no row stands for; a correction changes a payout that is exactly as its row has it,
source included; a retraction takes the row away, with the payout that it created and no
other.  It says nothing of months that are closed, because of the second finding.

Left out: an apply selects one row here (several rows are one transaction and any failure
rolls all of them back); parsing and reconciliation of the report; an owner's edit of
columns no statement compares (notes, type); the refusals of rows with the basis
`broker_statement_net_v1` and the proof rows a flush listener retires when a payout
changes.  An unchanged row writes nothing, and the event and payout of a retraction are
read in one step.

### QuoteApply

One position of one month.  `position` carries its version (`updated_at`, from `clock`:
no two writes share a microsecond), `mapping` the instrument's identity and exclusion,
`provenance` the rows that say where a price came from, `latest` the evidence store's
entry for the month, and `call` what a session has read: the context of a preview, the
row it computed, the evidence it has claimed, the row an edit has loaded.  `Begin` and
`PreviewRow` read at different moments, `Publish` replaces the entry, `Claim` removes it,
`ApplyPreview` compares the claimed context with what is stored under the reservation,
`ApplyFresh` is the apply without a preview.  `PatchRead` and `PatchCommit` are an edit
with If-Match, `CompareAndUpdate` the guarded `UPDATE` that decides it; one request may
change the quantity, the price and the price's source in any combination (`Edits`,
`services/positions.py:287`).  A source other than the quote's is `manual` here.  A mapping is
written from the row a session had loaded (`StoreMapping`), as the unit of work does.

Left out: several positions in one request (one transaction for all of them), deposits and
savings accounts (the same compare-and-update), the choice between last and historical
quotes, positions of native sources, the class coverage an edit invalidates, and the columns
no quote touches (average cost, accrued interest, the date of the price).
`DerivedValuesCurrent` is about the value derived from quantity and price: imported
positions whose stored totals are kept when only such a column is corrected
(`services/positions.py:322`) are not in the model.  The owner's client reads the row and
sends the edit in one step, and a preview that expires is one that is aborted.

### DraftPayouts

`quantity` is what the accepted statements say of each position, `mapping` and `forecast`
its instrument's identity and the latest revision of its forecast.  `status`, `due` and
`tasks` are the schedule of `AcceptanceRefresh` with its debounce; `batch` holds the
background batch and one the owner asked for, each with the facts and tokens it read and
`fresh`: whether `PRAGMA data_version` of its pinned connection is still the one it
remembers, which every commit of another connection ends and its own commits do not.  A
position passes through lookup, acceptance of the mapping, fetch, selection and save, each
after a check that compares everything with what was read; a failure ends the position and
leaves what was committed for the others.  `posted` are the acceptances that have committed
and not yet reached the schedule; `covered` is a history variable, the acceptances a
background batch has seen.  An acceptance while the batch runs is deliberately not queued:
at its next check the running batch notices the commit and ends as needs_review; one that
commits after the batch's last check is noticed by nobody, the batch ends as completed and a
later refresh has to read it.  `PendingIsCovered` is therefore about acceptances that were
made to wait.

Left out: the owner's single apply of a reviewed preview, which events are selected,
reconciliation with paid and manual payouts, the provider's wire protocol.  An
unsupported position counts as one that needs review.

### MaintenanceLock, Maintenance, BackupRestore

`Maintenance` has one program counter per thread: outside, operating, asleep (in
`Condition.wait`), woken, restoring.  `BackupRestore` adds the file (an identity and a
content), the pool's connection, the backup directory (a name is absent, reserved, or a
complete copy), one job per thread with its stage, the forms that were their identity
(incarnation and form epoch), and the reply.  `FailRestore` may happen after any step,
`Crash` between any two.  The validation of a candidate file is its verdict; the content of
a database is a version number.

`AtomicRestore` forgets the file names, the staging file, the pool, the door and the crashes:
a database that commits change, complete backups (`Complete`) that appear whole and never
change, and a restore that puts a complete backup in the place of a database that has
itself been backed up, in one step.  Every file operation of `BackupRestore` but the last
rename of a backup, the replacement and a commit is a step that cannot be seen there.

### Admission, ForwardRecovery

`mutex` is the named kernel object, `stage` where each process is, `borrowers` how many
worker threads have a connection under construction, `fence` the fence file: absent, torn
(created and not written) or naming a transaction.  `ForwardRecovery` adds the production
file with its rollback journal, and for each transaction its plan, incident file, stage
files, the three records and the retired fence.  A command is a sequence of steps, one per
file operation; `run` is the running command.  A command that raises leaves on disk what a
command that dies leaves, hence one action, `CommandDies`. A record is created exclusively,
so none is ever written twice (`services/forward_recovery.py:287`).  Schema, checkout and
binding checks only refuse and are left to `CommandDies` and `CommandRefuses`.

## 3. What is checked

| Run | Question | Bounds |
|---|---|---|
| `month_lifecycle` | Does any interleaving change a closed month, or do to the months anything but the operations of `MonthBook`, one at a time, except by a misdirected write of a reused row id? | 2 sessions, 2 ids, 2 periods, one kind of row with 2 row ids and 2 values, 5 header commits |
| `empty_close` | Is a receipt only written for what was confirmed, and kept for what was acknowledged? | 2 sessions, 1 id (so it is reused), 1 row, 2 sources, 5 header commits, 1 restart |
| `linked_pairs` | Whatever calls overlap, does a link stay one of a representable debt, and are stale writes of the account or of a balance the only ones that end its account's eligibility or its evidence? | 2 sessions, all 13 operations, 1 account, 1 debt, a cash row, a deposit |
| `transfer_links` | Can overlapping calls leave a wrong status or evidence of nothing, change a reconciled or closed transfer, or leave an attestation complete over a history that changed? | 1 session that reads before it writes, 2 months, 2 accounts, 2 flows, 1 link, 1 evidence row, 1 attestation, 2 dates |
| `statements` | Is a row applied once, does a retraction end its history, is anything the owner changed overwritten, and do the payouts go through the operations of `PayoutLedger` only, one at a time? | 2 sessions, 2 months, 2 identities, 2 payout ids (the owner enters payouts under the first), 1 edit or deletion of the owner under way at a time, 2 events, 3 revisions |
| `quotes` | Is a preview applied once and only to what it showed, and do edits and quotes respect each other? | 2 sessions, 2 identities, 2 quantities, 2 prices, 2 previews, 2 writes, 2 applied quotes |
| `draft_payouts` | Are forecasts saved on current facts only, is there one task per month, is every waiting acceptance covered? | 2 positions, 1 identity, 2 quantities, 3 commits, refreshes or restarts of the owner |
| `admission_control` | Does the condition variable implement the lock and does the door reopen; can a runtime pass a fence, overlap a recovery, or never finish closing? | 4 threads, 2 restores, 1 restart; 3 processes, 2 transactions, 5 borrowers |
| `backup_restore` | Does a restore replace the database at once by a complete backup and only what was saved, are backups kept, answers true, connections and forms bound to the live file? | 2 threads, 3 names, 2 versions, 2 replacements, 1 restart |
| `forward_recovery` | Can any mixture of commands, crashes and runtime edits lose the incident, displace a newer database, rebuild a sealed stage, or unfence something else than what was sealed, and does repeating the runbook complete a fenced transaction? | 2 processes, 2 plans, 6 files, 2 failures |
| `reconciled_legs`, `closed_month_payouts` | violation runs: see Findings | smallest that show them |

Type invariants are part of the invariants that are proved (section 5) and are not
repeated in the runs.

**Why the bounds are enough.**  The hazards of the month lifecycle involve one session
that reads, one that overtakes it, and a month that changes in between: two sessions,
two ids and two periods have every such triple (create against clone, edit against
close or delete, close against edit), and five header commits allow
create-close-reopen-update-close on one id.  Two row ids hold a row of each month at once or
let one be deleted and come back in the other month, two values tell an edit from what
it overwrites; the kinds of rows differ only in what a clone copies, and the run has the kind that a clone
copies whole; that a template is copied as a template and an event not at all is in the proof of
`MonthsAreABook`, for any kinds.  Empty close needs confirm, delete, recreate,
retry: five commits and one id, with the restart on top.

A cash row and a deposit are the smallest set of balances in which each of two removals sees
the other's row; with one account and one debt every stale read of `LinkedPairs` and what
overtakes it fits into two sessions.  That no second debt is linked to an account cannot fail with
one debt: that part of `LinkedDebtsEligible` rests on its proof (`DebtsEligible`, any
number of debts).  Two flows are the legs of a transfer; a third adds nothing, because it cannot
have the direction opposite to both.  One session that reads before it reserves is
enough there, because every other write is one step that may come in between, and a
second reader is refused by the comparison with what it read (with two sessions and two
links, but no attestations, the same properties hold).  Two dates in two months make an
attestation that is moved from a closed month to an open one.

Statements: two payout ids let one be deleted and come back while a request still holds
the old row; three revisions are an apply, a correction and a retraction of one event, with
the second event at its first; two identities let two rows meet at one payout.  One gross
amount suffices because a correction may differ in the date and the month too.  The owner enters
payouts under one id (`MaxEntered`), which an applied row may take when it is free, and has one
edit or deletion under way at a time (`MaxOwnerCalls`), among requests of the import: two
stale requests of the owner against one another are the hazard at
`services/investment_cash_flows.py:296`, which no property here is about.  The proofs have
neither bound, and `closed_month_payouts` gives both their full range.  Quotes:
two previews let a second one replace the first, in another tab or after a restart; two
versioned writes are one that overtakes the other; two applied quotes let a preview be
applied twice if it could.  Payouts: two positions are the smallest batch that can fail
half way, and three events of the owner put an acceptance, a mapping edit or close, and a
restart or second acceptance around each of its steps.

Four threads give a restore, a second restore and two operations.  A recovery that is
retried and meets a competing plan uses six files (two databases of the runtime and four
stages), and two failures allow a crash of recover and one of its resume or of finish.
Fewer files than the failures may leave behind would stop a resume for want of a file, not
because the code stops.  Counters (`MaxRows`, `MaxClock`, `MaxEpoch`, `MaxFormEpoch`,
`MaxProcesses`, `MaxVersion`, `MaxFiles`, `MaxFailures`, `MaxBorrowers`, `MaxFlows`,
`MaxEntered`, `MaxOwnerCalls`, `MaxEvents`, `MaxRevisions`, `MaxPreviews`, `MaxApplied`) are
bounded in guards; the proofs hold for every value of them.

Symmetry is used over sessions, periods, dates and values of rows, accounts and flows of
transfers, months and identities of statements, identities of instruments, threads and
backup names where the run checks safety only; the runs with liveness use none.
`CHECK_DEADLOCK FALSE` is in one configuration, `DraftPayouts.cfg`: a month whose forecasts
are refreshed and whose owner does nothing more is at rest.

**Fairness.**  `MaintenanceFairness`: a thread that is operating leaves (every session
ends), a notified waiter eventually reacquires the condition (CPython's lock is released
by every holder), a restore that runs ends.  Operations arrive without fairness.
`AdmissionFairness`: a thread that opens a connection finishes, and a closing runtime
goes on once they have.  The specification of `MCAdmissionControl` takes both.
`FairSpec` of `ForwardRecovery`: a running command goes on, a
Start that meets the fence is refused, and the operator keeps calling resume and finish
for the fenced transaction, which is strong fairness because the mutex may be taken by
another Start in between.  This is the runbook's instruction
(`docs/OWNER_RUNTIME_OPERATIONS.md:1090`).  `Fairness` of `DraftPayouts`: a request thread
reaches its call of the schedule, the deadline of the debounce passes, the thread of the
background task runs, and its batch goes on, since every provider call has a timeout
(`market_data/t_invest.py:356`, `:370`).  Acceptances that arrive forever would postpone the
deadline forever; `MaxEvents` excludes that.  No fairness is assumed of crashes, of the
owner or of the runtime's own work.

## 4. Findings

* `reconciled_legs` - `stage_update_external_flow` (`services/external_flows.py:612`)
  requires that there is no evidence when the link, the account or the direction is
  given, not when only the kind is, and takes the direction from the kind.  The single
  leg of a link that has evidence is reversed under it, although the message of
  `services/external_flows.py:240` says the legs cannot change while evidence exists.
  A complete pair is safe: the leg rules refuse equal directions, which is why
  `ReconciledTransfersPinned` is stated of complete transfers.
* `closed_month_payouts` - `retract_applied_statement_event`
  (`services/statement_import_retract.py:153`), `update_investment_cash_flow` and
  `delete_investment_cash_flow` (`services/investment_cash_flows.py:262`, `:343`) reserve the
  month of the payout as it was loaded.  When a correction has moved the payout
  meanwhile, or its id has been used again, that is not the month it is in, and the payout
  of a closed month is changed.  `services/_guard.py:3` says a closed reporting month is
  immutable until an explicit reopen.  Every month-scoped row that is loaded by id before the
  guard is exposed to the same (`services/_guard.py:78`, `services/cash.py:130`, `:163`):
  those are the misdirected writes that `ClosedMonthsFrozen` and `ImplementsMonthBook` of
  `ReportingMonths` name as the only exception.

Other disagreements were met while modelling and are listed as hazards with a note, at
their lines, instead of as runs: `update_account` looks for linked debts without the
reservation linking holds (`services/accounts.py:114`); the update and deletion of a cash row
judge the copy loaded before the reservation (`services/cash.py:48`); an update of a payout
validates the row it had loaded and writes only the columns it changes
(`services/investment_cash_flows.py:296`); a link is not compared with its payout again under
the reservation (`services/statement_import_apply.py:894`); a mapping that is set and cleared
between the two reads of a preview (`api/quote_preview.py:166`); quotes fetched while the
writer is reserved (`services/quote_apply.py:182`).  The first two are
the stale writes that `AccountsLapseByStaleUpdates` and `EvidenceLapsesByStaleWrites` name.

## 5. What is proved

All theorems are for arbitrary constants under the named assumptions of the modules
(bounds are natural numbers, `None` is none of the values, threads are a finite set).

* `ReportingMonthsProofs`.  `IInv` joins `TypeOK` with the shape of pending calls,
  `SingleWriter` (a session between reservation and commit is the writer),
  `EditsHoldADraft` and `OneMonthPerPeriod`.  The single writer is what makes the rest
  inductive: a commit happens in the state of its own reservation as far as the tables
  go.  From it follow `TypeCorrect`, `PeriodsDistinct`, `EditsCommitToDrafts` and the
  action property `ClosedFrozen`: a writer's month is a draft, so a row of a closed month is
  touched only by a session that reserved another month than the one its row is in,
  which is a misdirected write of just that row.  `MonthsAreABook` is the refinement: each kind of commit
  maps to one operation of `MonthBook` (`CommitMaps` and a lemma for each), every other
  step to a stutter, and an edit or removal of a row id that is another month's by
  now to a misdirected write.  It needs `BookInv`: beside `IInv` every row is of a month that exists
  (`RowsStand`), so a month that is opened has no rows but its own, and a month has
  one row of a kind (`OneRow`), so a clone copies what the month shows.  `EmptyCloseConfirmed` needs a second invariant,
  `ConfirmationsFresh`: every confirmation that is still held names a header whose
  stamp is not in the future, and if it still matches the stored identity it is in
  `current`; it is inductive because every header commit stamps a later time.
  `AcknowledgementsDurable` follows from receipts never being rewritten.
* `LinkedPairsProofs`.  No theorem assumes anything of which calls overlap.  `BaseInv`:
  types, the shape of calls, one writer (`SingleWriter`), and what the writer has checked is
  still so (`ChecksHold`), since nobody else can have written; that is `WritersChecked`.
  `TableStep` sums up what a step may do to the tables.  `DebtsEligible`: the unique index and
  the foreign key refuse what the checks have not seen.  `AccountsLapse`: a link is made under
  the reservation to an account that counts, and of all later writes only an update of that
  account decided on a row or on links that changed since (`StaleUpdate`) can end that; one that
  read the link has refused.  `EvidenceLapses`: a link is made to an account with an included
  balance, and of all later writes only a cash update, a cash removal or a deposit removal
  that judged another row than the one it writes (`StaleBalanceWrite`) can take the last one.
  A removal that judged the stored row has seen what stays, under the reservation: that two
  removals, or a removal and a link, overlap is what the theorem is about.  The two
  exceptions are the hazards at `services/accounts.py:114` and `services/cash.py:48`.
* `TransferLinksProofs`.  `IInv` is `TypeOK` with `LinkStatusTrue` and
  `EvidenceExplainsALeg`: a link that is not stored has no legs, so the bulk refresh of
  the stored links forgets none, and a write that takes a leg asks for evidence first.
  `KeptByRows` says which writes of the flows leave a link alone and `RefreshedTrue`
  that refreshing the others is enough; there is one lemma per write.  `TypeCorrect`,
  `StatusesTrue` and `EvidenceExplains` follow.  `ReconciledPinned` is the action
  property: what evidence does not forbid, naming a kind alone, cannot reverse a leg of a
  complete pair because the other leg has the opposite direction.  `ClosedFrozen`: every
  write that takes, adds or reshapes a leg asks for the months of all legs, so a link with
  a leg in a closed month is left alone (`StepKeepsClosed`) unless a month goes.
  `CoverageCurrent`: a changed flow was and is either outside an attestation or among the
  crossings that were invalidated (`InvalidatedApart`, `RepresentedByRows`).
  `CoverageFrozen`: an attestation is stored only after both intervals were asked for
  closed months.  These are all properties of the run.
* `StatementEventsProofs`.  `IInv`: active events have different identities and different
  payouts (`ActiveApart`), their payouts are stored (`ActiveStored`), a history is never empty
  (`HistoriesBegun`) and ends with the retraction (`RetractEndsHistory`), and a request only
  names events that are stored (`CallsNameEvents`).  None of it speaks of a payout's source,
  which the owner may change.  That a new payout takes nobody's id is `NextIsFree`, by the
  least-element theorem for the naturals.  `ProvenanceKept`, `RetractionEnds`,
  `CorrectionsSpare` and `OwnedKept` follow (`OwnedKept`: a payout
  that no row has created goes only by its owner's delete); what makes the action properties
  true is what each commit compares again under the reservation.
  `PayoutsAreALedger` is the refinement of `PayoutLedger`, with one lemma per commit.  Beside
  `IInv` it needs what a request carries from its plan (`CallsPlanned`): the row it was
  called with and, for a correction, an event that created its payout, which
  the commit does not ask again and which stays so because no event changes its mode
  (`ModesStay`).
* `QuoteApplyProofs`.  `IInv`: versions are never in the future and every write takes a
  later one, so two rows with the same version are the same row, which is what a
  compare-and-update by version rests on; evidence of one preview is in one hand, the
  store's or one session's, and once it has been applied in none.  `ValuesDerived`,
  `AppliedOnce`, `NoLostUpdate` and `AppliedAsPreviewed` follow.  `NoLostUpdate` is that an
  edit, whatever columns it names, replaces the very row its request had loaded, and that an
  applied quote leaves the quantity: no two rows share a version.
* `DraftPayoutsProofs`.  `IInv`: what a batch has in memory is what its stage says it has,
  and the schedule is running just if a background batch exists.  `OneTask` and
  `ForecastsCurrent` follow: a save compares the whole context it was computed from.
* `BackupRestoreProofs`.  First `Maintenance` alone.  `DoorInv`: the counter is the number
  of operating threads, at most one thread is past the door, the flag is up exactly when
  there is one, and a thread inside a restore excludes operations.
  `MaintenanceImplementsLock` is the refinement, one lemma per action.  Every step of
  `BackupRestore` is a step of the door or leaves it alone (`StepOfDoor`), so the same
  holds of whole backups and restores: `RestoresImplementLock`.
  `BInv` joins: a job's thread is admitted for it (`JobsAdmitted`), so a restore past
  the door is alone (`RestoreGoes`); a reserved name has one holder, whose stage says it is
  reserved (`NamesHeld`, `NamesApart`); between disposal and replacement the pool holds no
  connection, otherwise its connection is to the live file (`PoolLive`); the identity of a
  form is never one still to come (`FormsBound`).  `LiveFileReached`, `FormsNameLiveFile`,
  `ReplacedSaved`, `CompleteBackupsKept` and `AnswersTrue` follow.
  `RestoresAtomic` is the refinement of `AtomicRestore`.  `AtomicInv` adds what it needs
  of the steps that cannot be seen: a session writes to the live file
  (`SessionsConnected`), what a restore staged is still the complete copy it was asked for
  (`StagedAsAsked`), and no copy holds a version that was never committed
  (`VersionsCommitted`).
* `ForwardRecoveryProofs`.  First `Admission` alone: `AdmissionInv` says that whoever is
  inside owns the mutex, only a runtime lends admissions, and no fence stands while a
  runtime is inside; `RuntimesUnfenced` and `BorrowersAreCovered` follow.  Then
  `StepsAreAdmitted` shows that every step of a command or of the runtime is a step of the
  admission or leaves it alone (`RecoveryIsAdmitted`), so that invariant holds here too.
  `RecoveryInv` adds: a command runs just while a process is in a recovery; the identities
  of the production file and of all stages are apart (`FilesApart`); an incident that was
  moved away is of a transaction that is fenced or completed (`IncidentsTrue`), a fenced
  one has its incident database (`FencedHasIncident`); complete records agree
  (`RecordsAgree`); and a running command knows at each step what it has checked
  (`RecoverAt`, `FinishAt`), which is what makes a rename or a record written several steps
  after the check right.  One lemma per step; `IncidentsKept`, `RuntimeSettled`,
  `SealedHolds`, `SealedForGood` (no command seals, recreates or migrates a stage that is
  sealed) and `DisplacedKept` follow: every safety property of the run.

Only model-checked: liveness (`DoorReopens`, `ClosingEnds`, `FencedCompletes`,
`PendingIsCovered`), which the proof system does not reach.  Every safety property that a
passing run checks is a theorem.

## 6. Plan

Everything in the first column of section 2 is done.  What would come next, in this order:

1. In-kind movements beside the cash attestations, and the valuation points that an
   observation captures, composed with `TransferLinks` and the deletion of a month.
2. The publication and retention protocol of protected backups.
3. Deposits and savings accounts beside positions in `QuoteApply`; the owner's apply of a
   reviewed payout preview beside `DraftPayouts`.

## 7. Not modelled

Numeric results (XIRR, TWRR, tax, capital): decimal arithmetic with no protocol; they and
the views built on them are most of the lines of this code. Parsing of broker statements and
provider payloads: modelled by their verdict where a protocol depends on it.  Read models,
exports and the AI bundle: views.  The front end: React state above the same API.
Migrations other than as the file they produce, and the PowerShell scripts other than as the
callers of Start and of the recovery commands. Single-use form tokens: taken and compared in
one step under one lock, with the epoch read inside the admitted request, so nothing
interleaves with them but the restore that `BackupRestore` models.  Source intake and broker
months: staging and parsing, and a guard on closing that only refuses.  Protected backups
and the rehearsal: they never write the live database.  Within the modelled services: two
acceptances of a mapping that overlap may mix the descriptive columns of both
(`services/instrument_mappings.py:381`), which no property here tells apart; the choice of a
second payout candidate (`services/statement_import_apply.py:586`) only refuses.
