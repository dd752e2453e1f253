---------------------------- MODULE StatementEvents ----------------------------
(***************************************************************************)
(* Payouts (investment cash flows) and the statement events that apply,    *)
(* correct and retract them, beside the owner's own edits of the same rows *)
(* and the close and reopen of their months.                               *)
(*                                                                         *)
(* A request reads with plain SELECTs, which reserve nothing, and keeps    *)
(* what it read.  It then reserves SQLite's writer, checks again, writes   *)
(* and commits: from the reservation to the commit no other session writes *)
(* or sees these writes, so that part is one step.                         *)
(***************************************************************************)
EXTENDS Naturals, Sequences, FiniteSetsExt

CONSTANTS Sessions,
          Months,        \* reporting months, each standing for its payment dates too
          Grosses, Taxes,
          Identities,    \* natural identities of statement rows
          MaxFlows,      \* bound: ids of cash flows
          MaxEntered,    \* bound: ids under which the owner enters a payout
          MaxOwnerCalls, \* bound: payouts the owner edits or deletes at the same time
          MaxEvents,     \* bound: statement events ever created
          MaxRevisions,  \* bound: revisions of all events
          None

\* source is a text of the payout that its owner may set as well: "statement" stands for
\* the name of the statement provider, "owner" for any other text.
Sources == {"owner", "statement"}
FlowRow == [month : Months, date : Months, gross : Nat, tax : Nat, net : Nat,
            source : Sources]

ASSUME StatementAssumption ==
  /\ MaxFlows \in Nat /\ MaxEvents \in Nat /\ MaxRevisions \in Nat
  /\ MaxEntered \in Nat /\ MaxOwnerCalls \in Nat
  /\ Grosses \subseteq Nat /\ Taxes \subseteq Nat
  /\ \A g \in Grosses, t \in Taxes : t <= g
  /\ None \notin Sessions \cup Months \cup FlowRow \cup Nat
  /\ None \notin {"edit", "delete", "new", "create", "link", "applied", "revise", "retract",
                 "retracting"}

VARIABLES month,   \* status of each reporting month
          flow,    \* stored cash flows
          events,  \* stored statement events, in id order, with their revisions
          call     \* what each session is doing, with what it has read

tables == <<month, flow, events>>
vars == <<month, flow, events, call>>

-----------------------------------------------------------------------------
FlowIds == 1..MaxFlows

\* The material of a payout: what an owner types in, and what the fingerprint of a
\* statement row covers.  Account, instrument and kind are the same in all of them.
Rows == {[date |-> d, gross |-> g, tax |-> t, net |-> g - t] :
           d \in Months, g \in Grosses, t \in Taxes}

MaterialOf(row) ==
  [date |-> row.date, gross |-> row.gross, tax |-> row.tax, net |-> row.net]
Material(f) == MaterialOf(flow[f])

Payout(m, row, source) ==
  [month |-> m, date |-> row.date, gross |-> row.gross, tax |-> row.tax, net |-> row.net,
   source |-> source]

Exists(f) == flow[f] # None

\* INTEGER PRIMARY KEY without AUTOINCREMENT: a deleted largest id is used again.
NextFlow == 1 + Max({0} \cup {f \in FlowIds : Exists(f)})

EventIds == DOMAIN events
Active(e) == events[e].status = "active"
ActiveOf(i) == {e \in EventIds : Active(e) /\ events[e].identity = i}
EventsOn(f) == {e \in EventIds : Active(e) /\ events[e].flow = f}

Revisions == MapThenSumSet(LAMBDA e : Len(events[e].history), EventIds)

LastRevision(e) == events[e].history[Len(events[e].history)]

\* _linked_flow_matches_accepted
MatchesAccepted(e, f) ==
  /\ f \in FlowIds /\ Exists(f)
  /\ Material(f) = LastRevision(e).row
  /\ flow[f].month = LastRevision(e).row.date
  /\ events[e].mode = "created" => flow[f].source = "statement"

\* find_conservative_cash_flow_candidates: same month and payment date, not linked.
Candidates(row) ==
  {f \in FlowIds : /\ Exists(f)
                   /\ flow[f].month = row.date /\ flow[f].date = row.date
                   /\ EventsOn(f) = {}}

Draft(m) == month[m] = "draft"

Idle == [op |-> None]

Init ==
  /\ month = [m \in Months |-> "draft"]
  /\ flow = [f \in FlowIds |-> None]
  /\ events = <<>>
  /\ call = [s \in Sessions |-> Idle]

-----------------------------------------------------------------------------
(* Steps of a session. *)

Read(s, from, next) ==
  /\ call[s].op = from
  /\ call' = [call EXCEPT ![s] = next]
  /\ UNCHANGED tables

\* The reservation, the checks under it, the writes and the commit.
Commit(s, op) ==
  /\ call[s].op = op
  /\ call' = [call EXCEPT ![s] = Idle]
  /\ UNCHANGED month

\* A refusal, a validation error, a busy timeout or a dropped request.
Abort(s) ==
  /\ call[s] # Idle
  /\ call' = [call EXCEPT ![s] = Idle]
  /\ UNCHANGED tables

-----------------------------------------------------------------------------
(* Months, and the payouts the owner keeps. *)

Close(m) ==
  /\ Draft(m)
  /\ month' = [month EXCEPT ![m] = "closed"]
  /\ UNCHANGED <<flow, events, call>>

Reopen(m) ==
  /\ ~Draft(m)
  /\ month' = [month EXCEPT ![m] = "draft"]
  /\ UNCHANGED <<flow, events, call>>

\* A new cash flow; it reserves its month before it reads anything.
InsertFlow(m, row, source) ==
  /\ Draft(m)
  /\ NextFlow \in FlowIds
  /\ flow' = [flow EXCEPT ![NextFlow] = Payout(m, row, source)]

CreateFlow(m, row, source) ==
  /\ NextFlow <= MaxEntered
  /\ InsertFlow(m, row, source)
  /\ UNCHANGED <<month, events, call>>

OwnerMayCall == Cardinality({s \in Sessions : call[s].op \in {"edit", "delete"}}) < MaxOwnerCalls

\* The columns a PATCH may set.
Columns == {"date", "gross", "tax", "net", "source"}

\* PATCH: wanted is the loaded row with the fields the caller sent; the flush writes the
\* columns that differ.
EditRead(s, f, row, source) ==
  LET wanted == Payout(flow[f].month, row, source)
      changed == {k \in Columns : wanted[k] # flow[f][k]}
  IN /\ Exists(f) /\ OwnerMayCall
     /\ Read(s, None, [op |-> "edit", flow |-> f, month |-> flow[f].month,
                       changes |-> [k \in changed |-> wanted[k]]])
     /\ changed # {}

Edited(row, changes) ==
  [k \in DOMAIN row |-> IF k \in DOMAIN changes THEN changes[k] ELSE row[k]]

\* The month reserved is the loaded row's, and so is the row validated.
EditCommit(s) ==
  LET c == call[s] IN
  /\ Commit(s, "edit")
  /\ Draft(c.month)
  /\ Exists(c.flow)
  /\ flow' = [flow EXCEPT ![c.flow] = Edited(@, c.changes)]
  /\ UNCHANGED events

DeleteRead(s, f) ==
  /\ Exists(f) /\ OwnerMayCall
  /\ Read(s, None, [op |-> "delete", flow |-> f, month |-> flow[f].month])

\* ON DELETE RESTRICT keeps a flow that an active event names.
DeleteCommit(s) ==
  LET c == call[s] IN
  /\ Commit(s, "delete")
  /\ Draft(c.month)
  /\ EventsOn(c.flow) = {}
  /\ flow' = [flow EXCEPT ![c.flow] = None]
  /\ UNCHANGED events

-----------------------------------------------------------------------------
(* Apply of one selected statement row.  An unchanged row writes nothing.  *)
(* The candidate ids the owner reviewed are those found again by the plan. *)

\* get_applied_statement_event_by_identity; the event stays as it is loaded here.
IdentifyNew(s, i, row) ==
  /\ Read(s, None, [op |-> "new", identity |-> i, row |-> row])
  /\ ActiveOf(i) = {}

IdentifyApplied(s, e, row) ==
  /\ Read(s, None, [op |-> "applied", event |-> e, flow |-> events[e].flow, row |-> row])
  /\ Active(e) /\ row # LastRevision(e).row

PlanCreate(s) ==
  /\ Read(s, "new", [call[s] EXCEPT !.op = "create"])
  /\ Draft(call[s].row.date)

\* The owner links a candidate that is _financially_compatible.
PlanLink(s, f) ==
  LET c == call[s] IN
  /\ c.op = "new"
  /\ Draft(c.row.date)
  /\ f \in Candidates(c.row) /\ Material(f) = c.row
  /\ Read(s, "new", [op |-> "link", identity |-> c.identity, row |-> c.row, flow |-> f])

\* A correction of a payout that was the owner's own is left to the owner.
PlanRevise(s) ==
  LET c == call[s] IN
  /\ c.op = "applied"
  /\ events[c.event].mode = "created"
  /\ MatchesAccepted(c.event, c.flow)
  /\ Draft(c.row.date) /\ Draft(flow[c.flow].month)
  /\ Read(s, "applied", [op |-> "revise", event |-> c.event, flow |-> c.flow, row |-> c.row,
                         revision |-> Len(events[c.event].history)])

\* Mutant of AppendEvent: neither the identity nor the flow is looked for again.
AppendEventAnyway(i, f, mode, kind, row) ==
  /\ Len(events) < MaxEvents /\ Revisions < MaxRevisions
  /\ events' = Append(events,
       [identity |-> i, status |-> "active", flow |-> f, mode |-> mode,
        history |-> <<[kind |-> kind, row |-> row]>>])

\* create_applied_statement_event: no active event has the identity or the flow.
AppendEvent(i, f, mode, kind, row) ==
  /\ ActiveOf(i) = {} /\ EventsOn(f) = {}
  /\ Len(events) < MaxEvents /\ Revisions < MaxRevisions
  /\ events' = Append(events,
       [identity |-> i, status |-> "active", flow |-> f, mode |-> mode,
        history |-> <<[kind |-> kind, row |-> row]>>])

CommitCreate(s) ==
  LET c == call[s] IN
  /\ Commit(s, "create")
  /\ InsertFlow(c.row.date, c.row, "statement")
  /\ AppendEvent(c.identity, NextFlow, "created", "apply", c.row)

\* The candidate is not compared with the row again.
CommitLink(s) ==
  LET c == call[s] IN
  /\ Commit(s, "link")
  /\ Draft(c.row.date)
  /\ Exists(c.flow)
  /\ AppendEvent(c.identity, c.flow, "linked", "link_existing", c.row)
  /\ UNCHANGED flow

\* The event is still the one a plan or a retraction has read.
Unchanged(c) ==
  /\ Active(c.event)
  /\ events[c.event].flow = c.flow
  /\ Len(events[c.event].history) = c.revision

AppendRevision(e, kind, row, status, f) ==
  /\ Revisions < MaxRevisions
  /\ events' = [events EXCEPT
       ![e].history = Append(@, [kind |-> kind, row |-> row]),
       ![e].status = status, ![e].flow = f]

\* Mutant of CommitRevise: the plan is not checked once more.
ReviseAsPlanned(s) ==
  LET c == call[s] IN
  /\ Commit(s, "revise")
  /\ Draft(c.row.date)
  /\ Active(c.event) /\ Draft(flow[c.flow].month)
  /\ flow' = [flow EXCEPT ![c.flow] = Payout(c.row.date, c.row, @.source)]
  /\ AppendRevision(c.event, "revise", c.row, "active", c.flow)

\* Both months are reserved, and the plan is checked once more.
CommitRevise(s) ==
  LET c == call[s] IN
  /\ Commit(s, "revise")
  /\ Draft(c.row.date)
  /\ Unchanged(c) /\ MatchesAccepted(c.event, c.flow)
  /\ Draft(flow[c.flow].month)
  /\ flow' = [flow EXCEPT ![c.flow] = Payout(c.row.date, c.row, @.source)]
  /\ AppendRevision(c.event, "revise", c.row, "active", c.flow)

-----------------------------------------------------------------------------
(* Retraction of an applied event. *)

RetractRead(s, e) ==
  /\ Active(e)
  /\ Read(s, None, [op |-> "retract", event |-> e, flow |-> events[e].flow,
                    month |-> flow[events[e].flow].month])

\* The revision list is a query of its own.
RetractRevisions(s) ==
  LET c == call[s] IN
  /\ c.op = "retract"
  /\ Read(s, "retract", [op |-> "retracting", event |-> c.event, flow |-> c.flow,
                         month |-> c.month, revision |-> Len(events[c.event].history)])

\* Mutant of CommitRetract: the event is retracted as it was read.
RetractAsRead(s) ==
  LET c == call[s] IN
  /\ Commit(s, "retracting")
  /\ Draft(c.month)
  /\ AppendRevision(c.event, "retract", LastRevision(c.event).row, "retracted", None)
  /\ flow' = IF events[c.event].mode = "created"
              THEN [flow EXCEPT ![c.flow] = None] ELSE flow

\* Mutant of CommitRetract: the linked payout goes with its event.
RetractWithPayout(s) ==
  LET c == call[s] IN
  /\ Commit(s, "retracting")
  /\ Draft(c.month)
  /\ Unchanged(c)
  /\ AppendRevision(c.event, "retract", LastRevision(c.event).row, "retracted", None)
  /\ flow' = [flow EXCEPT ![c.flow] = None]

\* The flow is loaded again, but the month reserved is the one read first.
CommitRetract(s) ==
  LET c == call[s] IN
  /\ Commit(s, "retracting")
  /\ Draft(c.month)
  /\ Unchanged(c)
  /\ AppendRevision(c.event, "retract", LastRevision(c.event).row, "retracted", None)
  /\ flow' = IF events[c.event].mode = "created"
              THEN [flow EXCEPT ![c.flow] = None] ELSE flow

-----------------------------------------------------------------------------
Request(s) ==
  \/ \E f \in FlowIds, row \in Rows, source \in Sources : EditRead(s, f, row, source)
  \/ EditCommit(s)
  \/ \E f \in FlowIds : DeleteRead(s, f)
  \/ DeleteCommit(s)
  \/ \E i \in Identities, row \in Rows : IdentifyNew(s, i, row)
  \/ \E e \in EventIds, row \in Rows : IdentifyApplied(s, e, row)
  \/ PlanCreate(s)
  \/ \E f \in FlowIds : PlanLink(s, f)
  \/ PlanRevise(s)
  \/ CommitCreate(s)
  \/ CommitLink(s)
  \/ CommitRevise(s)
  \/ \E e \in EventIds : RetractRead(s, e)
  \/ RetractRevisions(s)
  \/ CommitRetract(s)
  \/ Abort(s)

Next ==
  \/ \E s \in Sessions : Request(s)
  \/ \E m \in Months, row \in Rows, source \in Sources : CreateFlow(m, row, source)
  \/ \E m \in Months : Close(m) \/ Reopen(m)

Spec == Init /\ [][Next]_vars

-----------------------------------------------------------------------------
(* What it implements: of the events the active ones, and of those the last revision. *)

Entry(e) ==
  [identity |-> events[e].identity, flow |-> events[e].flow, mode |-> events[e].mode,
   row |-> LastRevision(e).row]

Standing == {Entry(e) : e \in {d \in EventIds : Active(d)}}

Ledger == INSTANCE PayoutLedger WITH payouts <- flow, standing <- Standing

\* However applies, links, corrections, retractions and the owner's edits overlap, the
\* payouts are a ledger in which each of them happens at once and as it may: no row is
\* applied twice, no correction meets a payout that was changed since, and only its
\* owner removes a payout that no row has created (statement_import_apply.py:304).
ImplementsLedger == Ledger!LedgerSpec

\* An accepted statement row is never applied twice and a payout never stands for two
\* rows: of the active events, one has each identity and one names each payout, and the
\* payout is stored, whatever the owner edits or deletes meanwhile
\* (applied_statement_events.py:298, statement_import_retract.py:163).
ProvenanceIntact ==
  /\ \A i \in Identities : Cardinality(ActiveOf(i)) <= 1
  /\ \A f \in FlowIds : Cardinality(EventsOn(f)) <= 1
  /\ \A e \in EventIds : Active(e) => events[e].flow \in FlowIds /\ Exists(events[e].flow)

\* Under competing corrections and retractions a retraction ends the history of its
\* event: once, as the last revision and exactly for the retracted
\* (statement_import_retract.py:143).
RetractEndsHistory ==
  \A e \in EventIds :
    LET h == events[e].history IN
    /\ \A k \in 1..Len(h) : h[k].kind = "retract" <=> k = Len(h) /\ ~Active(e)
    /\ events[e].flow = None <=> ~Active(e)

\* A correction never overwrites what the owner has changed since the last accepted
\* revision, leaves the payout as the statement has it, and moves it from a DRAFT month
\* to a DRAFT month (statement_import_apply.py:304).
CorrectionStep ==
  \A e \in EventIds :
    LET e2 == events'[e]  f == events[e].flow IN
    e2.history # events[e].history /\ e2.status = "active" =>
      /\ Material(f) = LastRevision(e).row
      /\ Draft(flow[f].month) /\ Draft(flow'[f].month)
      /\ MaterialOf(flow'[f]) = e2.history[Len(e2.history)].row
      /\ flow'[f].month = flow'[f].date
CorrectionsSpareOwnerEdits == [][CorrectionStep]_vars

\* A payout that no statement row has created disappears only by its owner's own delete:
\* retracting the row that was linked to it leaves it (statement_import_retract.py:157).
OwnerPayoutsKept ==
  [][\A f \in FlowIds :
       Exists(f) /\ flow'[f] = None /\ (\A e \in EventsOn(f) : events[e].mode = "linked")
         => events' = events]_vars

\* The payouts of a CLOSED month do not change until it is reopened (_guard.py:3).
ClosedMonthFlowsFrozen ==
  [][\A f \in FlowIds :
       Exists(f) /\ ~Draft(flow[f].month) => flow'[f] = flow[f]]_vars

=============================================================================
