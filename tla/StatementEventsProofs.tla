------------------------- MODULE StatementEventsProofs -------------------------
(***************************************************************************)
(* Provenance of payouts for any number of sessions, months, statement     *)
(* rows and events: which event a payout belongs to, how the history of an *)
(* event ends, and which payouts an import may change or remove.           *)
(***************************************************************************)
EXTENDS StatementEvents, FiniteSetTheorems, WellFoundedInduction, TLAPS

Materials == [date : Months, gross : Nat, tax : Nat, net : Nat]
Kinds == {"apply", "link_existing", "revise", "retract"}
EventRow ==
  [identity : Identities, status : {"active", "retracted"}, flow : FlowIds \cup {None},
   mode : {"created", "linked"}, history : Seq([kind : Kinds, row : Materials])]

\* What an UPDATE sets: some columns of a row.
Changes == {[k \in K |-> row[k]] : K \in SUBSET Columns, row \in FlowRow}

Calls ==
  {Idle}
    \cup [op : {"edit"}, flow : FlowIds, month : Months, changes : Changes]
    \cup [op : {"delete"}, flow : FlowIds, month : Months]
    \cup [op : {"new", "create"}, identity : Identities, row : Materials]
    \cup [op : {"link"}, identity : Identities, row : Materials, flow : FlowIds]
    \cup [op : {"applied"}, event : Nat, flow : FlowIds, row : Materials]
    \cup [op : {"revise"}, event : Nat, flow : FlowIds, row : Materials, revision : Nat]
    \cup [op : {"retract"}, event : Nat, flow : FlowIds, month : Months]
    \cup [op : {"retracting"}, event : Nat, flow : FlowIds, month : Months, revision : Nat]

TypeOK ==
  /\ month \in [Months -> {"draft", "closed"}]
  /\ flow \in [FlowIds -> FlowRow \cup {None}]
  /\ events \in Seq(EventRow)
  /\ call \in [Sessions -> Calls]

\* Of two active events neither has the identity or the flow of the other.
ActiveApart ==
  \A d, e \in EventIds :
    Active(d) /\ Active(e) /\ d # e =>
      events[d].identity # events[e].identity /\ events[d].flow # events[e].flow

ActiveStored ==
  \A e \in EventIds : Active(e) => events[e].flow \in FlowIds /\ Exists(events[e].flow)

\* Events are never deleted, so the one that a call has read is still there.
NamesEvent(c) == c.op \in {"applied", "revise", "retract", "retracting"} => c.event \in EventIds

CallsNameEvents == \A s \in Sessions : NamesEvent(call[s])

\* No event is without a revision.
HistoriesBegun == \A e \in EventIds : events[e].history # <<>>

IInv ==
  /\ TypeOK /\ HistoriesBegun /\ ActiveApart /\ ActiveStored /\ RetractEndsHistory
  /\ CallsNameEvents

-----------------------------------------------------------------------------
(* Ids. *)

\* A set of numbers up to a bound has a largest one: the distance to the bound has a
\* least.
LEMMA LargestExists ==
  ASSUME NEW N \in Nat, NEW S, S \subseteq 0..N, S # {}
  PROVE  \E x \in S : \A y \in S : x >= y
<1> DEFINE T == {n \in Nat : N - n \in S}
<1>1. PICK s \in S : TRUE
  OBVIOUS
<1>2. N - s \in Nat /\ N - (N - s) = s
  BY <1>1
<1>3. T \subseteq Nat /\ T # {}
  BY <1>2
<1>4. PICK t \in T : \A u \in T : ~ (<<u, t>> \in OpToRel(<, Nat))
  BY <1>3, WFMin, NatLessThanWellFounded
<1>5. \A u \in T : ~(u < t)
  BY <1>3, <1>4 DEF OpToRel
<1>6. ASSUME NEW y \in S PROVE N - t >= y
  <2>1. y \in Nat /\ N - y \in Nat /\ N - (N - y) = y
    OBVIOUS
  <2>2. N - y \in T
    BY <2>1
  <2>3. ~(N - y < t)
    BY <1>5, <2>2
  <2>4. t \in Nat
    BY <1>3, <1>4
  <2> HIDE DEF T
  <2> QED
    BY <2>1, <2>3, <2>4
<1> QED
  BY <1>4, <1>6

\* The id that is assigned next is not in use.
LEMMA NextIsFree == NextFlow \in Nat /\ \A f \in FlowIds : Exists(f) => f # NextFlow
<1> DEFINE S == {0} \cup {f \in FlowIds : Exists(f)}
<1>1. S \subseteq 0..MaxFlows /\ S # {}
  BY StatementAssumption DEF FlowIds
<1>2. \E x \in S : \A y \in S : x >= y
  BY <1>1, LargestExists, StatementAssumption
<1>3. Max(S) \in S /\ \A y \in S : Max(S) >= y
  BY <1>2 DEF Max
<1>4. NextFlow = 1 + Max(S)
  BY DEF NextFlow
<1> HIDE DEF S
<1>5. Max(S) \in Nat
  <2>1. \A x \in S : x \in Nat
    BY <1>1, StatementAssumption
  <2> QED
    BY <1>3, <2>1
<1>6. ASSUME NEW f \in FlowIds, Exists(f) PROVE f # NextFlow
  <2>1. f \in S /\ f \in Nat
    BY <1>6, StatementAssumption DEF S, FlowIds
  <2>2. Max(S) >= f
    BY <1>3, <2>1
  <2> QED
    BY <1>4, <1>5, <2>1, <2>2
<1> QED
  BY <1>4, <1>5, <1>6

-----------------------------------------------------------------------------
(* What each kind of write leaves of the invariant. *)

LEMMA InitIInv == Init => IInv
<1> SUFFICES ASSUME Init PROVE IInv
  OBVIOUS
<1>1. EventIds = {} /\ events \in Seq(EventRow)
  BY DEF Init, EventIds
<1>2. \A f \in FlowIds : ~Exists(f)
  BY DEF Init, Exists
<1>3. month \in [Months -> {"draft", "closed"}] /\ flow \in [FlowIds -> FlowRow \cup {None}]
  BY DEF Init
<1>4. call \in [Sessions -> Calls]
  BY DEF Init, Calls
<1>5. CallsNameEvents
  BY StatementAssumption DEF Init, CallsNameEvents, NamesEvent, Idle
<1> QED
  BY <1>1, <1>2, <1>3, <1>4, <1>5 DEF IInv, TypeOK, HistoriesBegun, ActiveApart,
                                      ActiveStored, RetractEndsHistory

\* The call of a session takes its next form, or ends.
LEMMA CallGoesOn ==
  ASSUME IInv, NEW s \in Sessions, NEW next \in Calls, NamesEvent(next),
         call' = [call EXCEPT ![s] = next], EventIds \subseteq EventIds'
  PROVE  call' \in [Sessions -> Calls] /\ CallsNameEvents'
BY DEF IInv, TypeOK, CallsNameEvents, NamesEvent

LEMMA CallEnds ==
  ASSUME IInv, NEW s \in Sessions, call' = [call EXCEPT ![s] = Idle],
         EventIds \subseteq EventIds'
  PROVE  call' \in [Sessions -> Calls] /\ CallsNameEvents'
<1>1. Idle \in Calls /\ NamesEvent(Idle)
  BY StatementAssumption DEF Calls, NamesEvent, Idle
<1> QED
  BY <1>1, CallGoesOn

\* Reads, refusals, and the close and reopen of months.
LEMMA RecordsUntouched ==
  ASSUME IInv, UNCHANGED <<flow, events>>, month' \in [Months -> {"draft", "closed"}],
         call' \in [Sessions -> Calls], CallsNameEvents'
  PROVE  IInv'
BY DEF IInv, TypeOK, HistoriesBegun, ActiveApart, ActiveStored,
       RetractEndsHistory, EventIds, Active, Exists

LEMMA ReadKeeps ==
  ASSUME IInv, NEW s \in Sessions, NEW from, NEW next \in Calls, NamesEvent(next),
         Read(s, from, next)
  PROVE  IInv'
<1>1. call' = [call EXCEPT ![s] = next] /\ UNCHANGED <<flow, events, month>>
  BY DEF Read, tables
<1>2. call' \in [Sessions -> Calls] /\ CallsNameEvents'
  BY <1>1, CallGoesOn DEF EventIds
<1> QED
  BY <1>1, <1>2, RecordsUntouched DEF IInv, TypeOK

\* The owner's writes: no event changes and no payout that an active event names goes.
LEMMA OwnerWriteKeeps ==
  ASSUME IInv, UNCHANGED <<month, events>>, call' \in [Sessions -> Calls], CallsNameEvents',
         flow' \in [FlowIds -> FlowRow \cup {None}],
         \A f \in FlowIds : Exists(f) /\ EventsOn(f) # {} => Exists(f)'
  PROVE  IInv'
<1>1. TypeOK' /\ HistoriesBegun' /\ ActiveApart' /\ RetractEndsHistory'
  BY DEF IInv, TypeOK, HistoriesBegun, ActiveApart, RetractEndsHistory, EventIds, Active
<1>2. ActiveStored'
  BY DEF IInv, ActiveStored, EventIds, Active, EventsOn
<1> QED
  BY <1>1, <1>2 DEF IInv

\* A new event with one revision, on a payout that no active event names.
LEMMA AppendEventKeeps ==
  ASSUME IInv, NEW i \in Identities, NEW f \in FlowIds, NEW mode \in {"created", "linked"},
         NEW kind \in {"apply", "link_existing"}, NEW row \in Materials,
         AppendEvent(i, f, mode, kind, row), UNCHANGED month,
         call' \in [Sessions -> Calls], CallsNameEvents',
         flow' \in [FlowIds -> FlowRow \cup {None}], Exists(f)',
         \A g \in FlowIds : g # f => flow'[g] = flow[g]
  PROVE  IInv'
<1> DEFINE new == [identity |-> i, status |-> "active", flow |-> f, mode |-> mode,
                   history |-> <<[kind |-> kind, row |-> row]>>]
<1> PICK n : n = Len(events) + 1
  OBVIOUS
<1>1. events' = Append(events, new)
  BY DEF AppendEvent
<1>2. new \in EventRow
  BY DEF EventRow, Kinds
<1>3. new.identity = i /\ new.status = "active" /\ new.flow = f /\ new.mode = mode
      /\ Len(new.history) = 1 /\ new.history[1].kind = kind
  OBVIOUS
<1> HIDE DEF new
<1>4. events \in Seq(EventRow)
  BY DEF IInv, TypeOK
<1>5. /\ events' \in Seq(EventRow) /\ EventIds' = EventIds \cup {n} /\ n \notin EventIds
      /\ events'[n] = new /\ \A e \in EventIds : events'[e] = events[e]
  BY <1>1, <1>2, <1>4 DEF EventIds
<1>6. \A e \in EventIds : Active(e)' <=> Active(e)
  BY <1>5 DEF Active
<1>7. Active(n)'
  BY <1>3, <1>5 DEF Active
<1>8. \A e \in EventIds : Active(e) => events[e].identity # i /\ events[e].flow # f
  BY DEF AppendEvent, ActiveOf, EventsOn
<1>9. TypeOK'
  BY <1>5 DEF IInv, TypeOK
<1>10. ActiveApart'
  BY <1>3, <1>5, <1>6, <1>8 DEF IInv, ActiveApart
<1>11. ActiveStored'
  <2>1. \A g \in FlowIds : g # f => (Exists(g)' <=> Exists(g))
    BY DEF Exists
  <2> QED
    BY <1>3, <1>5, <1>6, <1>8, <2>1 DEF IInv, ActiveStored
<1>12. RetractEndsHistory'
  <2>1. kind # "retract" /\ None # f
    BY StatementAssumption DEF FlowIds
  <2> SUFFICES ASSUME NEW e \in EventIds'
               PROVE  /\ \A k \in 1..Len(events'[e].history) :
                           events'[e].history[k].kind = "retract"
                             <=> k = Len(events'[e].history) /\ ~Active(e)'
                      /\ events'[e].flow = None <=> ~Active(e)'
    BY DEF RetractEndsHistory
  <2>2. CASE e = n
    BY <1>3, <1>5, <1>7, <2>1, <2>2
  <2>3. CASE e \in EventIds
    BY <1>5, <1>6, <2>3 DEF IInv, RetractEndsHistory
  <2> QED
    BY <1>5, <2>2, <2>3
<1>13. HistoriesBegun'
  BY <1>3, <1>5 DEF IInv, HistoriesBegun
<1> QED
  BY <1>9, <1>10, <1>11, <1>12, <1>13 DEF IInv

LEMMA HistoryTyped ==
  ASSUME TypeOK, NEW e \in EventIds
  PROVE  events[e].history \in Seq([kind : Kinds, row : Materials])
<1>1. events[e] \in EventRow
  BY DEF TypeOK, EventIds
<1> QED
  BY <1>1 DEF EventRow

LEMMA LastTyped ==
  ASSUME TypeOK, HistoriesBegun, NEW e \in EventIds
  PROVE  LastRevision(e).row \in Materials
<1> DEFINE h == events[e].history
           R == [kind : Kinds, row : Materials]
<1>1. h \in Seq(R) /\ h # <<>>
  BY HistoryTyped DEF HistoriesBegun
<1>2. LastRevision(e) = h[Len(h)]
  BY DEF LastRevision
<1>3. \A r \in R : r.row \in Materials
  OBVIOUS
<1> HIDE DEF h, R
<1>4. Len(h) \in 1..Len(h)
  BY <1>1
<1>5. h[Len(h)] \in R
  BY <1>1, <1>4
<1> QED
  BY <1>2, <1>3, <1>5

\* A further revision of an active event.
LEMMA AppendRevisionShape ==
  ASSUME TypeOK, NEW e \in EventIds, Active(e), NEW kind \in Kinds, NEW row \in Materials,
         NEW status \in {"active", "retracted"}, NEW f \in FlowIds \cup {None},
         AppendRevision(e, kind, row, status, f)
  PROVE  /\ events' \in Seq(EventRow) /\ EventIds' = EventIds
         /\ \A d \in EventIds : d # e => events'[d] = events[d]
         /\ events'[e].identity = events[e].identity /\ events'[e].mode = events[e].mode
         /\ events'[e].status = status /\ events'[e].flow = f
         /\ events'[e].history = Append(events[e].history, [kind |-> kind, row |-> row])
<1> DEFINE rev == [kind |-> kind, row |-> row]
           new == [events[e] EXCEPT !.history = Append(@, rev), !.status = status, !.flow = f]
<1>1. events' = [events EXCEPT ![e] = new]
  BY DEF AppendRevision
<1>2. events[e] \in EventRow /\ events \in Seq(EventRow)
  BY DEF TypeOK, EventIds
<1>3. /\ new \in EventRow /\ new.identity = events[e].identity /\ new.mode = events[e].mode
      /\ new.status = status /\ new.flow = f
      /\ new.history = Append(events[e].history, rev)
  <2>1. rev \in [kind : Kinds, row : Materials]
    OBVIOUS
  <2> HIDE DEF rev
  <2>2. Append(events[e].history, rev) \in Seq([kind : Kinds, row : Materials])
    BY <1>2, <2>1 DEF EventRow
  <2> QED
    BY <1>2, <2>2 DEF EventRow
<1> HIDE DEF new, rev
<1>4. events' \in Seq(EventRow) /\ EventIds' = EventIds /\ events'[e] = new
      /\ \A d \in EventIds : d # e => events'[d] = events[d]
  BY <1>1, <1>2, <1>3 DEF EventIds
<1> QED
  BY <1>3, <1>4 DEF rev

-----------------------------------------------------------------------------
(* Rows. *)

LEMMA RowsAreMaterials == Rows \subseteq Materials
<1> SUFFICES ASSUME NEW d \in Months, NEW g \in Grosses, NEW t \in Taxes
             PROVE  [date |-> d, gross |-> g, tax |-> t, net |-> g - t] \in Materials
  BY DEF Rows
<1>1. g \in Nat /\ t \in Nat /\ g - t \in Nat
  BY StatementAssumption
<1> QED
  BY <1>1 DEF Materials

LEMMA PayoutRow ==
  ASSUME NEW m \in Months, NEW row \in Materials, NEW source \in Sources
  PROVE  /\ Payout(m, row, source) \in FlowRow /\ Payout(m, row, source) # None
         /\ Payout(m, row, source).source = source /\ Payout(m, row, source).month = m
         /\ MaterialOf(Payout(m, row, source)) = row
<1>1. Payout(m, row, source) \in FlowRow
  BY DEF Payout, FlowRow, Materials
<1>2. MaterialOf(Payout(m, row, source)) = row
  BY DEF Payout, MaterialOf, Materials
<1> QED
  BY <1>1, <1>2, StatementAssumption DEF Payout

\* The columns that an edit sets are those of a row, and the month is not one of them.
LEMMA EditedRow ==
  ASSUME NEW changes \in Changes, NEW row \in FlowRow
  PROVE  Edited(row, changes) \in FlowRow /\ Edited(row, changes).month = row.month
<1>1. PICK K \in SUBSET Columns, w \in FlowRow : changes = [k \in K |-> w[k]]
  BY DEF Changes
<1>2. "month" \notin K
  BY DEF Columns
<1>3. DOMAIN row = {"month", "date", "gross", "tax", "net", "source"}
  BY DEF FlowRow
<1>4. Edited(row, changes) = [k \in DOMAIN row |-> IF k \in K THEN w[k] ELSE row[k]]
  BY <1>1 DEF Edited
<1> QED
  BY <1>2, <1>3, <1>4 DEF FlowRow

-----------------------------------------------------------------------------
(* The months and the owner's payouts. *)

LEMMA MonthKeeps ==
  ASSUME IInv, NEW m \in Months, Close(m) \/ Reopen(m)
  PROVE  IInv'
<1>1. UNCHANGED <<flow, events, call>> /\ month' \in [Months -> {"draft", "closed"}]
  BY DEF Close, Reopen, IInv, TypeOK
<1> QED
  BY <1>1, RecordsUntouched DEF IInv, TypeOK, CallsNameEvents, NamesEvent, EventIds

LEMMA AbortKeeps ==
  ASSUME IInv, NEW s \in Sessions, Abort(s)
  PROVE  IInv'
<1>1. UNCHANGED <<month, flow, events>> /\ call' = [call EXCEPT ![s] = Idle]
  BY DEF Abort, tables
<1> QED
  BY <1>1, CallEnds, RecordsUntouched DEF IInv, TypeOK, EventIds

LEMMA CreateFlowKeeps ==
  ASSUME IInv, NEW m \in Months, NEW row \in Rows, NEW source \in Sources,
         CreateFlow(m, row, source)
  PROVE  IInv'
<1>1. row \in Materials
  BY RowsAreMaterials
<1> DEFINE p == Payout(m, row, source)
<1>2. p \in FlowRow /\ p # None
  BY <1>1, PayoutRow
<1>3. /\ UNCHANGED <<month, events, call>> /\ NextFlow \in FlowIds
      /\ flow' = [flow EXCEPT ![NextFlow] = p]
  BY DEF CreateFlow, InsertFlow
<1> HIDE DEF p
<1> PICK n \in FlowIds : n = NextFlow
  BY <1>3
<1>4. ~Exists(n)
  BY NextIsFree
<1>5. flow' \in [FlowIds -> FlowRow \cup {None}] /\ flow'[n] = p
      /\ \A f \in FlowIds : f # n => flow'[f] = flow[f]
  BY <1>2, <1>3 DEF IInv, TypeOK
<1> QED
  BY <1>2, <1>3, <1>4, <1>5, OwnerWriteKeeps
     DEF IInv, TypeOK, CallsNameEvents, NamesEvent, EventIds, Exists

LEMMA EditReadKeeps ==
  ASSUME IInv, NEW s \in Sessions, NEW f \in FlowIds, NEW row \in Rows,
         NEW source \in Sources, EditRead(s, f, row, source)
  PROVE  IInv'
<1> DEFINE wanted == Payout(flow[f].month, row, source)
           changed == {k \in Columns : wanted[k] # flow[f][k]}
           changes == [k \in changed |-> wanted[k]]
           next == [op |-> "edit", flow |-> f, month |-> flow[f].month, changes |-> changes]
<1>1. Read(s, None, next)
  BY DEF EditRead
<1>2. flow[f].month \in Months
  BY DEF EditRead, Exists, IInv, TypeOK, FlowRow
<1>3. wanted \in FlowRow
  BY <1>2, RowsAreMaterials, PayoutRow
<1>4. changed \in SUBSET Columns
  OBVIOUS
<1> HIDE DEF wanted, changed
<1>5. changes \in Changes
  BY <1>3, <1>4 DEF Changes
<1> HIDE DEF changes
<1>6. next \in Calls /\ NamesEvent(next)
  BY <1>2, <1>5 DEF Calls, NamesEvent
<1> QED
  BY <1>1, <1>6, ReadKeeps

\* What is known of the call and the payout of an edit that commits.
LEMMA EditFacts ==
  ASSUME IInv, NEW s \in Sessions, EditCommit(s)
  PROVE  \E f \in FlowIds, r \in FlowRow :
           /\ Exists(f) /\ r # None /\ r.month = flow[f].month
           /\ flow' = [flow EXCEPT ![f] = r]
           /\ UNCHANGED <<month, events>> /\ call' = [call EXCEPT ![s] = Idle]
<1>1. call[s] \in [op : {"edit"}, flow : FlowIds, month : Months, changes : Changes]
  BY StatementAssumption DEF EditCommit, Commit, IInv, TypeOK, Calls, Idle
<1>2. PICK f \in FlowIds, changes \in Changes : f = call[s].flow /\ changes = call[s].changes
  BY <1>1
<1>3. /\ Exists(f) /\ flow' = [flow EXCEPT ![f] = Edited(flow[f], changes)]
      /\ UNCHANGED <<month, events>> /\ call' = [call EXCEPT ![s] = Idle]
  BY <1>2 DEF EditCommit, Commit
<1>4. flow[f] \in FlowRow
  BY <1>3 DEF IInv, TypeOK, Exists
<1>5. Edited(flow[f], changes) \in FlowRow /\ Edited(flow[f], changes).month = flow[f].month
  BY <1>4, EditedRow
<1>6. Edited(flow[f], changes) # None
  BY <1>5, StatementAssumption
<1> QED
  BY <1>3, <1>5, <1>6

LEMMA EditCommitKeeps ==
  ASSUME IInv, NEW s \in Sessions, EditCommit(s)
  PROVE  IInv'
<1>1. PICK f \in FlowIds, r \in FlowRow :
        /\ Exists(f) /\ r # None
        /\ flow' = [flow EXCEPT ![f] = r]
        /\ UNCHANGED <<month, events>> /\ call' = [call EXCEPT ![s] = Idle]
  BY EditFacts
<1>2. flow' \in [FlowIds -> FlowRow \cup {None}] /\ flow'[f] = r
      /\ \A g \in FlowIds : g # f => flow'[g] = flow[g]
  BY <1>1 DEF IInv, TypeOK
<1>3. call' \in [Sessions -> Calls] /\ CallsNameEvents'
  BY <1>1, CallEnds DEF EventIds
<1> QED
  BY <1>1, <1>2, <1>3, OwnerWriteKeeps DEF Exists

LEMMA DeleteReadKeeps ==
  ASSUME IInv, NEW s \in Sessions, NEW f \in FlowIds, DeleteRead(s, f)
  PROVE  IInv'
<1> DEFINE next == [op |-> "delete", flow |-> f, month |-> flow[f].month]
<1>1. flow[f].month \in Months
  BY DEF DeleteRead, Exists, IInv, TypeOK, FlowRow
<1>2. next \in Calls /\ NamesEvent(next)
  BY <1>1 DEF Calls, NamesEvent
<1> QED
  BY <1>2, ReadKeeps DEF DeleteRead

LEMMA DeleteCommitKeeps ==
  ASSUME IInv, NEW s \in Sessions, DeleteCommit(s)
  PROVE  IInv'
<1>1. call[s].flow \in FlowIds
  BY StatementAssumption DEF DeleteCommit, Commit, IInv, TypeOK, Calls, Idle
<1>2. /\ UNCHANGED <<month, events>> /\ call' = [call EXCEPT ![s] = Idle]
      /\ EventsOn(call[s].flow) = {} /\ flow' = [flow EXCEPT ![call[s].flow] = None]
  BY DEF DeleteCommit, Commit
<1>3. PICK f \in FlowIds : f = call[s].flow
  BY <1>1
<1>4. flow' \in [FlowIds -> FlowRow \cup {None}] /\ flow'[f] = None
      /\ \A g \in FlowIds : g # f => flow'[g] = flow[g]
  BY <1>2, <1>3 DEF IInv, TypeOK
<1>5. call' \in [Sessions -> Calls] /\ CallsNameEvents'
  BY <1>2, CallEnds DEF EventIds
<1> QED
  BY <1>2, <1>3, <1>4, <1>5, OwnerWriteKeeps DEF Exists

-----------------------------------------------------------------------------
(* Apply. *)

LEMMA IdentifyKeeps ==
  ASSUME IInv, NEW s \in Sessions, NEW row \in Rows,
         \/ \E i \in Identities : IdentifyNew(s, i, row)
         \/ \E e \in EventIds : IdentifyApplied(s, e, row)
  PROVE  IInv'
<1>1. row \in Materials
  BY RowsAreMaterials
<1>2. ASSUME NEW i \in Identities, IdentifyNew(s, i, row) PROVE IInv'
  <2> DEFINE next == [op |-> "new", identity |-> i, row |-> row]
  <2>1. next \in Calls /\ NamesEvent(next)
    BY <1>1 DEF Calls, NamesEvent
  <2> QED
    BY <1>2, <2>1, ReadKeeps DEF IdentifyNew
<1>3. ASSUME NEW e \in EventIds, IdentifyApplied(s, e, row) PROVE IInv'
  <2> DEFINE next == [op |-> "applied", event |-> e, flow |-> events[e].flow, row |-> row]
  <2>1. e \in Nat /\ events[e].flow \in FlowIds
    BY <1>3 DEF IdentifyApplied, IInv, ActiveStored, EventIds, TypeOK
  <2>2. next \in Calls /\ NamesEvent(next)
    BY <1>1, <2>1 DEF Calls, NamesEvent
  <2> QED
    BY <1>3, <2>2, ReadKeeps DEF IdentifyApplied
<1> QED
  BY <1>2, <1>3

LEMMA PlanCreateKeeps ==
  ASSUME IInv, NEW s \in Sessions, PlanCreate(s)
  PROVE  IInv'
<1> DEFINE next == [call[s] EXCEPT !.op = "create"]
<1>1. call[s] \in [op : {"new", "create"}, identity : Identities, row : Materials]
  BY StatementAssumption DEF PlanCreate, Read, IInv, TypeOK, Calls, Idle
<1>2. next \in Calls /\ NamesEvent(next)
  BY <1>1 DEF Calls, NamesEvent
<1> QED
  BY <1>2, ReadKeeps DEF PlanCreate

LEMMA PlanLinkKeeps ==
  ASSUME IInv, NEW s \in Sessions, NEW f \in FlowIds, PlanLink(s, f)
  PROVE  IInv'
<1> DEFINE next == [op |-> "link", identity |-> call[s].identity, row |-> call[s].row,
                    flow |-> f]
<1>1. call[s] \in [op : {"new", "create"}, identity : Identities, row : Materials]
  BY StatementAssumption DEF PlanLink, IInv, TypeOK, Calls, Idle
<1>2. next \in Calls /\ NamesEvent(next)
  BY <1>1 DEF Calls, NamesEvent
<1> QED
  BY <1>2, ReadKeeps DEF PlanLink

LEMMA PlanReviseKeeps ==
  ASSUME IInv, NEW s \in Sessions, PlanRevise(s)
  PROVE  IInv'
<1> DEFINE c == call[s]
           next == [op |-> "revise", event |-> c.event, flow |-> c.flow, row |-> c.row,
                    revision |-> Len(events[c.event].history)]
<1>1. c \in [op : {"applied"}, event : Nat, flow : FlowIds, row : Materials]
  BY StatementAssumption DEF PlanRevise, IInv, TypeOK, Calls, Idle
<1>2. c.event \in EventIds
  BY DEF PlanRevise, IInv, CallsNameEvents, NamesEvent
<1>3. Len(events[c.event].history) \in Nat
  BY <1>2 DEF IInv, TypeOK, EventRow, EventIds
<1>4. next \in Calls /\ NamesEvent(next)
  BY <1>1, <1>2, <1>3 DEF Calls, NamesEvent
<1> QED
  BY <1>4, ReadKeeps DEF PlanRevise

LEMMA CommitCreateKeeps ==
  ASSUME IInv, NEW s \in Sessions, CommitCreate(s)
  PROVE  IInv'
<1> DEFINE c == call[s]
           p == Payout(c.row.date, c.row, "statement")
<1>1. c.identity \in Identities /\ c.row \in Materials /\ c.row.date \in Months
  BY StatementAssumption DEF CommitCreate, Commit, IInv, TypeOK, Calls, Idle, Materials
<1>2. /\ UNCHANGED month /\ call' = [call EXCEPT ![s] = Idle] /\ NextFlow \in FlowIds
      /\ flow' = [flow EXCEPT ![NextFlow] = p]
      /\ AppendEvent(c.identity, NextFlow, "created", "apply", c.row)
  BY DEF CommitCreate, Commit, InsertFlow
<1>3. p \in FlowRow /\ p # None
  BY <1>1, PayoutRow DEF Sources
<1>4. PICK i \in Identities, row \in Materials, n \in FlowIds :
        i = c.identity /\ row = c.row /\ n = NextFlow
  BY <1>1, <1>2
<1>5. AppendEvent(i, n, "created", "apply", row)
  BY <1>2, <1>4
<1> HIDE DEF p, c
<1>6. flow' \in [FlowIds -> FlowRow \cup {None}] /\ flow'[n] = p
      /\ \A g \in FlowIds : g # n => flow'[g] = flow[g]
  BY <1>2, <1>3, <1>4 DEF IInv, TypeOK
<1>7. EventIds \subseteq EventIds'
  BY <1>5 DEF AppendEvent, EventIds, IInv, TypeOK
<1>8. call' \in [Sessions -> Calls] /\ CallsNameEvents'
  BY <1>2, <1>7, CallEnds
<1> QED
  BY <1>2, <1>3, <1>5, <1>6, <1>8, AppendEventKeeps DEF Exists

LEMMA CommitLinkKeeps ==
  ASSUME IInv, NEW s \in Sessions, CommitLink(s)
  PROVE  IInv'
<1> DEFINE c == call[s]
<1>1. c.identity \in Identities /\ c.row \in Materials /\ c.flow \in FlowIds
  BY StatementAssumption DEF CommitLink, Commit, IInv, TypeOK, Calls, Idle
<1>2. /\ UNCHANGED <<month, flow>> /\ call' = [call EXCEPT ![s] = Idle] /\ Exists(c.flow)
      /\ AppendEvent(c.identity, c.flow, "linked", "link_existing", c.row)
  BY DEF CommitLink, Commit
<1>3. PICK i \in Identities, row \in Materials, f \in FlowIds :
        i = c.identity /\ row = c.row /\ f = c.flow
  BY <1>1
<1>4. AppendEvent(i, f, "linked", "link_existing", row) /\ Exists(f)
  BY <1>2, <1>3
<1> HIDE DEF c
<1>5. EventIds \subseteq EventIds'
  BY <1>4 DEF AppendEvent, EventIds, IInv, TypeOK
<1>6. call' \in [Sessions -> Calls] /\ CallsNameEvents'
  BY <1>2, <1>5, CallEnds
<1>7. flow' \in [FlowIds -> FlowRow \cup {None}] /\ Exists(f)'
  BY <1>2, <1>4 DEF IInv, TypeOK, Exists
<1> QED
  BY <1>2, <1>4, <1>6, <1>7, AppendEventKeeps

\* What is known of the call and the event of a correction that commits.
LEMMA ReviseFacts ==
  ASSUME IInv, NEW s \in Sessions, CommitRevise(s)
  PROVE  \E e \in EventIds, f \in FlowIds, row \in Materials :
           /\ e = call[s].event /\ f = call[s].flow /\ row = call[s].row
           /\ Active(e) /\ events[e].flow = f /\ Exists(f) /\ flow[f] \in FlowRow
           /\ Material(f) = LastRevision(e).row
           /\ Draft(flow[f].month) /\ Draft(row.date)
           /\ flow' = [flow EXCEPT ![f] = Payout(row.date, row, flow[f].source)]
           /\ AppendRevision(e, "revise", row, "active", f)
           /\ UNCHANGED month /\ call' = [call EXCEPT ![s] = Idle]
<1> DEFINE c == call[s]
<1>1. c \in [op : {"revise"}, event : Nat, flow : FlowIds, row : Materials, revision : Nat]
  BY StatementAssumption DEF CommitRevise, Commit, IInv, TypeOK, Calls, Idle
<1>2. c.event \in EventIds
  BY <1>1 DEF IInv, CallsNameEvents, NamesEvent
<1>3. Active(c.event) /\ events[c.event].flow = c.flow
  BY DEF CommitRevise, Unchanged
<1>4. Exists(c.flow) /\ flow[c.flow] \in FlowRow
  BY <1>1, <1>2, <1>3 DEF IInv, ActiveStored, Exists, TypeOK
<1> QED
  BY <1>1, <1>2, <1>3, <1>4 DEF CommitRevise, Commit, MatchesAccepted

LEMMA CommitReviseKeeps ==
  ASSUME IInv, NEW s \in Sessions, CommitRevise(s)
  PROVE  IInv'
<1>1. PICK e \in EventIds, f \in FlowIds, row \in Materials :
           /\ Active(e) /\ events[e].flow = f /\ Exists(f) /\ flow[f] \in FlowRow
           /\ flow' = [flow EXCEPT ![f] = Payout(row.date, row, flow[f].source)]
           /\ AppendRevision(e, "revise", row, "active", f)
           /\ UNCHANGED month /\ call' = [call EXCEPT ![s] = Idle]
  BY ReviseFacts
<1> DEFINE p == Payout(row.date, row, flow[f].source)
<1>2. row.date \in Months /\ flow[f].source \in Sources
  BY <1>1 DEF FlowRow, Materials
<1>3. p \in FlowRow /\ p # None
  BY <1>2, PayoutRow
<1>4. /\ events' \in Seq(EventRow) /\ EventIds' = EventIds
      /\ \A d \in EventIds : d # e => events'[d] = events[d]
      /\ events'[e].identity = events[e].identity /\ events'[e].mode = events[e].mode
      /\ events'[e].status = "active" /\ events'[e].flow = f
      /\ events'[e].history = Append(events[e].history, [kind |-> "revise", row |-> row])
  BY <1>1, AppendRevisionShape DEF IInv, Kinds
<1> HIDE DEF p
<1>5. flow' \in [FlowIds -> FlowRow \cup {None}] /\ flow'[f] = p
      /\ \A g \in FlowIds : g # f => flow'[g] = flow[g]
  BY <1>1, <1>3 DEF p, IInv, TypeOK
<1>6. call' \in [Sessions -> Calls] /\ CallsNameEvents'
  BY <1>1, <1>4, CallEnds
<1>7. \A g \in FlowIds : Exists(g)' <=> Exists(g)
  BY <1>1, <1>3, <1>5 DEF Exists
<1>8. \A d \in EventIds :
        /\ Active(d)' <=> Active(d)
        /\ events'[d].flow = events[d].flow /\ events'[d].identity = events[d].identity
        /\ events'[d].mode = events[d].mode
  BY <1>1, <1>4 DEF Active
<1>9. TypeOK'
  BY <1>1, <1>4, <1>5, <1>6 DEF IInv, TypeOK
<1>10. ActiveApart' /\ ActiveStored'
  BY <1>4, <1>7, <1>8 DEF IInv, ActiveApart, ActiveStored
<1>11. RetractEndsHistory'
  <2>1. events[e].history \in Seq([kind : Kinds, row : Materials])
    BY HistoryTyped DEF IInv
  <2>2. \A k \in 1..Len(events[e].history) : events[e].history[k].kind # "retract"
    BY <1>1 DEF IInv, RetractEndsHistory
  <2>3. \A k \in 1..Len(events'[e].history) : events'[e].history[k].kind # "retract"
    BY <1>4, <2>1, <2>2
  <2>4. f # None /\ Active(e)'
    BY <1>1, <1>8, StatementAssumption DEF FlowIds
  <2> SUFFICES ASSUME NEW d \in EventIds
               PROVE  /\ \A k \in 1..Len(events'[d].history) :
                           events'[d].history[k].kind = "retract"
                             <=> k = Len(events'[d].history) /\ ~Active(d)'
                      /\ events'[d].flow = None <=> ~Active(d)'
    BY <1>4 DEF RetractEndsHistory
  <2>5. CASE d = e
    BY <1>4, <2>3, <2>4, <2>5
  <2>6. CASE d # e
    BY <1>4, <1>8, <2>6 DEF IInv, RetractEndsHistory
  <2> QED
    BY <2>5, <2>6
<1>12. HistoriesBegun'
  BY <1>4, HistoryTyped DEF IInv, HistoriesBegun
<1> QED
  BY <1>6, <1>9, <1>10, <1>11, <1>12 DEF IInv

-----------------------------------------------------------------------------
(* Retraction. *)

LEMMA RetractReadKeeps ==
  ASSUME IInv, NEW s \in Sessions, NEW e \in EventIds, RetractRead(s, e)
  PROVE  IInv'
<1> DEFINE next == [op |-> "retract", event |-> e, flow |-> events[e].flow,
                    month |-> flow[events[e].flow].month]
<1>1. e \in Nat /\ events[e].flow \in FlowIds /\ flow[events[e].flow] \in FlowRow
  BY DEF RetractRead, IInv, ActiveStored, Exists, EventIds, TypeOK
<1>2. next \in Calls /\ NamesEvent(next)
  BY <1>1 DEF Calls, NamesEvent, FlowRow
<1> QED
  BY <1>2, ReadKeeps DEF RetractRead

LEMMA RetractRevisionsKeeps ==
  ASSUME IInv, NEW s \in Sessions, RetractRevisions(s)
  PROVE  IInv'
<1> DEFINE c == call[s]
           next == [op |-> "retracting", event |-> c.event, flow |-> c.flow,
                    month |-> c.month, revision |-> Len(events[c.event].history)]
<1>1. c \in [op : {"retract"}, event : Nat, flow : FlowIds, month : Months]
  BY StatementAssumption DEF RetractRevisions, IInv, TypeOK, Calls, Idle
<1>2. c.event \in EventIds
  BY <1>1 DEF IInv, CallsNameEvents, NamesEvent
<1>3. Len(events[c.event].history) \in Nat
  BY <1>2, HistoryTyped DEF IInv
<1>4. next \in Calls /\ NamesEvent(next)
  BY <1>1, <1>2, <1>3 DEF Calls, NamesEvent
<1> QED
  BY <1>4, ReadKeeps DEF RetractRevisions

\* What is known of the call and the event of a retraction that commits.
LEMMA RetractFacts ==
  ASSUME IInv, NEW s \in Sessions, CommitRetract(s)
  PROVE  \E e \in EventIds, f \in FlowIds, row \in Materials :
           /\ Active(e) /\ events[e].flow = f /\ Exists(f)
           /\ flow' = IF events[e].mode = "created" THEN [flow EXCEPT ![f] = None] ELSE flow
           /\ AppendRevision(e, "retract", row, "retracted", None)
           /\ UNCHANGED month /\ call' = [call EXCEPT ![s] = Idle]
<1> DEFINE c == call[s]
<1>1. c \in [op : {"retracting"}, event : Nat, flow : FlowIds, month : Months,
             revision : Nat]
  BY StatementAssumption DEF CommitRetract, Commit, IInv, TypeOK, Calls, Idle
<1>2. c.event \in EventIds
  BY <1>1 DEF IInv, CallsNameEvents, NamesEvent
<1>3. Active(c.event) /\ events[c.event].flow = c.flow
  BY DEF CommitRetract, Unchanged
<1>4. Exists(c.flow)
  BY <1>2, <1>3 DEF IInv, ActiveStored
<1>5. LastRevision(c.event).row \in Materials
  BY <1>2, LastTyped DEF IInv
<1> QED
  BY <1>1, <1>2, <1>3, <1>4, <1>5 DEF CommitRetract, Commit

LEMMA CommitRetractKeeps ==
  ASSUME IInv, NEW s \in Sessions, CommitRetract(s)
  PROVE  IInv'
<1>1. PICK e \in EventIds, f \in FlowIds, row \in Materials :
           /\ Active(e) /\ events[e].flow = f /\ Exists(f)
           /\ flow' = IF events[e].mode = "created" THEN [flow EXCEPT ![f] = None] ELSE flow
           /\ AppendRevision(e, "retract", row, "retracted", None)
           /\ UNCHANGED month /\ call' = [call EXCEPT ![s] = Idle]
  BY RetractFacts
<1>2. /\ events' \in Seq(EventRow) /\ EventIds' = EventIds
      /\ \A d \in EventIds : d # e => events'[d] = events[d]
      /\ events'[e].status = "retracted" /\ events'[e].flow = None
      /\ events'[e].history = Append(events[e].history, [kind |-> "retract", row |-> row])
  BY <1>1, AppendRevisionShape DEF IInv, Kinds
<1>3. flow' \in [FlowIds -> FlowRow \cup {None}]
      /\ (events[e].mode = "created" => flow'[f] = None)
      /\ (events[e].mode # "created" => flow'[f] = flow[f])
      /\ \A g \in FlowIds : g # f => flow'[g] = flow[g]
  BY <1>1 DEF IInv, TypeOK
<1>4. call' \in [Sessions -> Calls] /\ CallsNameEvents'
  BY <1>1, <1>2, CallEnds
<1>5. /\ ~Active(e)'
      /\ \A d \in EventIds : d # e => (Active(d)' <=> Active(d))
  BY <1>2 DEF Active
<1>6. \A d \in EventIds : d # e /\ Active(d) => events[d].flow # f
  BY <1>1 DEF IInv, ActiveApart
<1>7. TypeOK'
  BY <1>1, <1>2, <1>3, <1>4 DEF IInv, TypeOK
<1>8. ActiveApart'
  BY <1>2, <1>5 DEF IInv, ActiveApart
<1>9. ActiveStored'
  BY <1>2, <1>3, <1>5, <1>6 DEF IInv, ActiveStored, Exists
<1>10. RetractEndsHistory'
  <2>1. events[e].history \in Seq([kind : Kinds, row : Materials])
    BY HistoryTyped DEF IInv
  <2>2. \A k \in 1..Len(events[e].history) : events[e].history[k].kind # "retract"
    BY <1>1 DEF IInv, RetractEndsHistory
  <2>3. \A k \in 1..Len(events'[e].history) :
          events'[e].history[k].kind = "retract" <=> k = Len(events'[e].history)
    BY <1>2, <2>1, <2>2
  <2> SUFFICES ASSUME NEW d \in EventIds
               PROVE  /\ \A k \in 1..Len(events'[d].history) :
                           events'[d].history[k].kind = "retract"
                             <=> k = Len(events'[d].history) /\ ~Active(d)'
                      /\ events'[d].flow = None <=> ~Active(d)'
    BY <1>2 DEF RetractEndsHistory
  <2>4. CASE d = e
    BY <1>2, <1>5, <2>3, <2>4
  <2>5. CASE d # e
    BY <1>2, <1>5, <2>5 DEF IInv, RetractEndsHistory
  <2> QED
    BY <2>4, <2>5
<1>11. HistoriesBegun'
  BY <1>2, HistoryTyped DEF IInv, HistoriesBegun
<1> QED
  BY <1>4, <1>7, <1>8, <1>9, <1>10, <1>11 DEF IInv

-----------------------------------------------------------------------------
LEMMA NextIInv == IInv /\ [Next]_vars => IInv'
<1> SUFFICES ASSUME IInv, [Next]_vars PROVE IInv'
  OBVIOUS
<1>1. ASSUME NEW s \in Sessions, Request(s) PROVE IInv'
  BY <1>1, EditReadKeeps, EditCommitKeeps, DeleteReadKeeps, DeleteCommitKeeps,
     IdentifyKeeps, PlanCreateKeeps, PlanLinkKeeps, PlanReviseKeeps, CommitCreateKeeps,
     CommitLinkKeeps, CommitReviseKeeps, RetractReadKeeps, RetractRevisionsKeeps,
     CommitRetractKeeps, AbortKeeps DEF Request
<1>2. CASE \E m \in Months, row \in Rows, source \in Sources : CreateFlow(m, row, source)
  BY <1>2, CreateFlowKeeps
<1>3. CASE \E m \in Months : Close(m) \/ Reopen(m)
  BY <1>3, MonthKeeps
<1>4. CASE UNCHANGED vars
  BY <1>4, RecordsUntouched
     DEF vars, IInv, TypeOK, CallsNameEvents, NamesEvent, EventIds
<1> QED
  BY <1>1, <1>2, <1>3, <1>4 DEF Next

\* The tables and the calls keep their shape and the invariant's parts hold in every
\* reachable state (applied_statement_events.py:298).
THEOREM Invariant == Spec => []IInv
BY InitIInv, NextIInv, PTL DEF Spec

\* A set without two different elements has at most one.
LEMMA AtMostOne ==
  ASSUME NEW S, \A x, y \in S : x = y
  PROVE  Cardinality(S) <= 1
<1>1. CASE S = {}
  BY <1>1, FS_EmptySet
<1>2. ASSUME NEW x \in S PROVE Cardinality(S) <= 1
  <2>1. S = {x}
    BY <1>2
  <2> QED
    BY <2>1, FS_Singleton
<1> QED
  BY <1>1, <1>2

\* However applies, links, corrections and retractions overlap, a statement row has one
\* active event and a payout stands for one row (applied_statement_events.py:387).
THEOREM ProvenanceKept == Spec => []ProvenanceIntact
<1>1. IInv => ProvenanceIntact
  <2> SUFFICES ASSUME IInv PROVE ProvenanceIntact
    OBVIOUS
  <2>1. \A i \in Identities : Cardinality(ActiveOf(i)) <= 1
    BY AtMostOne DEF IInv, ActiveApart, ActiveOf
  <2>2. \A f \in FlowIds : Cardinality(EventsOn(f)) <= 1
    BY AtMostOne DEF IInv, ActiveApart, EventsOn
  <2> QED
    BY <2>1, <2>2 DEF ProvenanceIntact, IInv, ActiveStored
<1> QED
  BY <1>1, Invariant, PTL

\* A retraction is the last revision of its event and happens once
\* (statement_import_retract.py:143).
THEOREM RetractionEnds == Spec => []RetractEndsHistory
BY Invariant, PTL DEF IInv

-----------------------------------------------------------------------------
(* Steps. *)

\* Only the commits of corrections and retractions revise a stored event.
LEMMA OnlyRevisions ==
  ASSUME IInv, Next, NEW e \in EventIds, events'[e] # events[e]
  PROVE  \E s \in Sessions : CommitRevise(s) \/ CommitRetract(s)
<1>1. ASSUME NEW i, NEW f, NEW mode, NEW kind, NEW row, AppendEvent(i, f, mode, kind, row)
      PROVE  events'[e] = events[e]
  BY <1>1 DEF AppendEvent, IInv, TypeOK, EventIds
<1>2. ASSUME NEW s \in Sessions, CommitCreate(s) \/ CommitLink(s) PROVE FALSE
  BY <1>1, <1>2 DEF CommitCreate, CommitLink
<1>3. UNCHANGED events \/ \E s \in Sessions :
        CommitCreate(s) \/ CommitLink(s) \/ CommitRevise(s) \/ CommitRetract(s)
  BY DEF Next, Request, EditRead, EditCommit, DeleteRead, DeleteCommit, IdentifyNew,
         IdentifyApplied, PlanCreate, PlanLink, PlanRevise, RetractRead, RetractRevisions,
         Abort, Read, CreateFlow, Close, Reopen, tables
<1> QED
  BY <1>2, <1>3

LEMMA StepCorrects == IInv /\ [Next]_vars => [CorrectionStep]_vars
<1> SUFFICES ASSUME IInv, Next, NEW e \in EventIds,
                    events'[e].history # events[e].history, events'[e].status = "active"
             PROVE  LET e2 == events'[e]  f == events[e].flow IN
                    /\ Material(f) = LastRevision(e).row
                    /\ Draft(flow[f].month) /\ Draft(flow'[f].month)
                    /\ MaterialOf(flow'[f]) = e2.history[Len(e2.history)].row
                    /\ flow'[f].month = flow'[f].date
  BY DEF CorrectionStep
<1>1. PICK s \in Sessions : CommitRevise(s) \/ CommitRetract(s)
  BY OnlyRevisions
<1>2. CASE CommitRevise(s)
  <2>1. PICK d \in EventIds, f \in FlowIds, row \in Materials :
           /\ Active(d) /\ events[d].flow = f /\ Exists(f) /\ flow[f] \in FlowRow
           /\ Material(f) = LastRevision(d).row
           /\ Draft(flow[f].month) /\ Draft(row.date)
           /\ flow' = [flow EXCEPT ![f] = Payout(row.date, row, flow[f].source)]
           /\ AppendRevision(d, "revise", row, "active", f)
    BY <1>2, ReviseFacts
  <2>2. /\ \A g \in EventIds : g # d => events'[g] = events[g]
        /\ events'[d].history = Append(events[d].history, [kind |-> "revise", row |-> row])
    BY <2>1, AppendRevisionShape DEF IInv, Kinds
  <2>3. d = e
    BY <2>2
  <2>4. events[e].history \in Seq([kind : Kinds, row : Materials])
    BY HistoryTyped DEF IInv
  <2>5. events'[e].history[Len(events'[e].history)].row = row
    BY <2>2, <2>3, <2>4
  <2>6. row.date \in Months /\ flow[f].source \in Sources
    BY <2>1 DEF FlowRow, Materials
  <2>7. flow'[f] = Payout(row.date, row, flow[f].source)
    BY <2>1 DEF IInv, TypeOK
  <2>8. MaterialOf(flow'[f]) = row /\ flow'[f].month = row.date /\ flow'[f].date = row.date
    <3>1. flow'[f].date = row.date
      BY <2>7 DEF Payout
    <3>2. \A m \in Months, source \in Sources :
            MaterialOf(Payout(m, row, source)) = row /\ Payout(m, row, source).month = m
      BY PayoutRow
    <3> QED
      BY <2>6, <2>7, <3>1, <3>2
  <2>9. UNCHANGED month
    BY <1>2 DEF CommitRevise, Commit
  <2> QED
    BY <2>1, <2>3, <2>5, <2>8, <2>9 DEF Draft
<1>3. CASE CommitRetract(s)
  <2>1. PICK d \in EventIds, row \in Materials :
           Active(d) /\ AppendRevision(d, "retract", row, "retracted", None)
    BY <1>3, RetractFacts
  <2>2. /\ \A g \in EventIds : g # d => events'[g] = events[g]
        /\ events'[d].status = "retracted"
    BY <2>1, AppendRevisionShape DEF IInv, Kinds
  <2> QED
    BY <2>2
<1> QED
  BY <1>1, <1>2, <1>3

\* A correction overwrites nothing that differs from the last accepted revision and moves
\* a payout between DRAFT months only, whatever happened since it was planned
\* (statement_import_apply.py:304).
THEOREM CorrectionsSpare == Spec => CorrectionsSpareOwnerEdits
BY StepCorrects, Invariant, PTL DEF Spec, CorrectionsSpareOwnerEdits

LEMMA StepKeepsOwned ==
  IInv /\ [Next]_vars =>
    [\A f \in FlowIds :
       Exists(f) /\ flow'[f] = None /\ (\A e \in EventsOn(f) : events[e].mode = "linked")
         => events' = events]_vars
<1> SUFFICES ASSUME IInv, Next, NEW f \in FlowIds, Exists(f), flow'[f] = None,
                    \A e \in EventsOn(f) : events[e].mode = "linked"
             PROVE  events' = events
  BY DEF vars
<1>1. ASSUME NEW s \in Sessions, CommitCreate(s) PROVE FALSE
  <2>1. NextFlow # f /\ flow' = [flow EXCEPT ![NextFlow] =
                                   Payout(call[s].row.date, call[s].row, "statement")]
    BY <1>1, NextIsFree DEF CommitCreate, InsertFlow
  <2> QED
    BY <2>1 DEF Exists, IInv, TypeOK
<1>2. ASSUME NEW s \in Sessions, CommitLink(s) PROVE FALSE
  BY <1>2 DEF CommitLink, Exists
<1>3. ASSUME NEW s \in Sessions, CommitRevise(s) PROVE FALSE
  <2>1. PICK g \in FlowIds, row \in Materials :
          flow[g] \in FlowRow
          /\ flow' = [flow EXCEPT ![g] = Payout(row.date, row, flow[g].source)]
    BY <1>3, ReviseFacts
  <2>2. Payout(row.date, row, flow[g].source) # None
    BY <2>1, PayoutRow DEF FlowRow, Materials
  <2> QED
    BY <2>1, <2>2 DEF Exists, IInv, TypeOK
<1>4. ASSUME NEW s \in Sessions, CommitRetract(s) PROVE FALSE
  <2>1. PICK e \in EventIds, g \in FlowIds :
          /\ Active(e) /\ events[e].flow = g /\ Exists(g)
          /\ flow' = IF events[e].mode = "created" THEN [flow EXCEPT ![g] = None] ELSE flow
    BY <1>4, RetractFacts
  <2>2. events[e].mode = "created" /\ g = f
    BY <2>1 DEF Exists, IInv, TypeOK
  <2>3. e \in EventsOn(f)
    BY <2>1, <2>2 DEF EventsOn
  <2> QED
    BY <2>2, <2>3
<1> QED
  BY <1>1, <1>2, <1>3, <1>4
     DEF Next, Request, EditRead, EditCommit, DeleteRead, DeleteCommit, IdentifyNew,
         IdentifyApplied, PlanCreate, PlanLink, PlanRevise, RetractRead, RetractRevisions,
         Abort, Read, CreateFlow, Close, Reopen, tables

\* A payout that no statement row has created goes only with the owner's own delete,
\* whatever rows were linked to it (statement_import_retract.py:157).
THEOREM OwnedKept == Spec => OwnerPayoutsKept
BY StepKeepsOwned, Invariant, PTL DEF Spec, OwnerPayoutsKept

-----------------------------------------------------------------------------
(* Every step is one of the ledger. *)

LEMMA EntryFields ==
  ASSUME NEW e
  PROVE  /\ Entry(e).identity = events[e].identity /\ Entry(e).flow = events[e].flow
         /\ Entry(e).mode = events[e].mode /\ Entry(e).row = LastRevision(e).row
  BY DEF Entry

\* Of two active events the entries differ.
LEMMA EntriesApart ==
  ASSUME ActiveApart, NEW d \in EventIds, NEW e \in EventIds, Active(d), Active(e), d # e
  PROVE  Entry(d) # Entry(e)
  BY EntryFields DEF ActiveApart

LEMMA StandingAppended ==
  ASSUME TypeOK, NEW i, NEW f, NEW mode, NEW kind, NEW row, AppendEvent(i, f, mode, kind, row)
  PROVE  Standing' = Standing \cup Ledger!Stand(i, f, mode, row)
<1> DEFINE new == [identity |-> i, status |-> "active", flow |-> f, mode |-> mode,
                   history |-> <<[kind |-> kind, row |-> row]>>]
<1> PICK n : n = Len(events) + 1
  OBVIOUS
<1>1. events' = Append(events, new) /\ events \in Seq(EventRow)
  BY DEF AppendEvent, TypeOK
<1>2. new.identity = i /\ new.status = "active" /\ new.flow = f /\ new.mode = mode
      /\ new.history[Len(new.history)].row = row
  OBVIOUS
<1> HIDE DEF new
<1>3. /\ EventIds' = EventIds \cup {n} /\ n \notin EventIds
      /\ events'[n] = new /\ \A e \in EventIds : events'[e] = events[e]
  BY <1>1 DEF EventIds
<1>4. \A e \in EventIds : (Active(e)' <=> Active(e)) /\ Entry(e)' = Entry(e)
  BY <1>3 DEF Active, Entry, LastRevision
<1>5. Active(n)' /\ Entry(n)' = [identity |-> i, flow |-> f, mode |-> mode, row |-> row]
  BY <1>2, <1>3 DEF Active, Entry, LastRevision
<1> QED
  BY <1>3, <1>4, <1>5 DEF Standing, Ledger!Stand

\* What a revision leaves of the entries of the other events.
LEMMA StandingRevised ==
  ASSUME IInv, NEW e \in EventIds, Active(e), EventIds' = EventIds,
         \A d \in EventIds : d # e => events'[d] = events[d]
  PROVE  Standing' = (Standing \ {Entry(e)}) \cup IF Active(e)' THEN {Entry(e)'} ELSE {}
<1>1. \A d \in EventIds : d # e => (Active(d)' <=> Active(d)) /\ Entry(d)' = Entry(d)
  BY DEF Active, Entry, LastRevision
<1>2. \A d \in EventIds : d # e /\ Active(d) => Entry(d) # Entry(e)
  BY EntriesApart DEF IInv
<1>3. ASSUME NEW x PROVE x \in Standing \ {Entry(e)} <=>
                           \E d \in EventIds : d # e /\ Active(d) /\ x = Entry(d)
  BY <1>2 DEF Standing
<1>4. ASSUME NEW x PROVE x \in Standing' <=>
                           \/ \E d \in EventIds : d # e /\ Active(d) /\ x = Entry(d)
                           \/ Active(e)' /\ x = Entry(e)'
  BY <1>1 DEF Standing
<1> QED
  BY <1>3, <1>4

\* An active event's entry stands, and no other has its identity or its payout.
LEMMA Stands ==
  ASSUME IInv, NEW e \in EventIds, Active(e)
  PROVE  Entry(e) \in Standing
  BY DEF Standing

\* A payout that no active event names, and that is stored, is free for the owner.
LEMMA OwnersAreFree ==
  ASSUME IInv, NEW f \in FlowIds, Exists(f), EventsOn(f) = {}
  PROVE  Ledger!OwnersFree(f)
<1>1. \A e \in EventIds : Active(e) => events[e].flow # f
  BY DEF EventsOn
<1>2. \A x \in Standing : x.flow # f
  BY <1>1, EntryFields DEF Standing
<1> QED
  BY <1>2 DEF Ledger!OwnersFree, Ledger!Stored, Exists

LEMMA NewIdentity ==
  ASSUME NEW i, ActiveOf(i) = {}
  PROVE  Ledger!New(i)
  BY EntryFields DEF ActiveOf, Standing, Ledger!New

-----------------------------------------------------------------------------
(* What a request carries from its plan. *)

Planned(c) ==
  /\ c.op \in {"new", "create", "link", "applied", "revise"} => c.row \in Rows
  /\ c.op = "revise" => c.event \in EventIds /\ events[c.event].mode = "created"

CallsPlanned == \A s \in Sessions : Planned(call[s])

LedgerInv == IInv /\ CallsPlanned

\* An event stays and keeps the mode it was made with.
LEMMA ModesStay ==
  ASSUME IInv, Next, NEW e \in EventIds
  PROVE  e \in EventIds' /\ events'[e].mode = events[e].mode
<1>1. ASSUME NEW i, NEW f, NEW mode, NEW kind, NEW row, AppendEvent(i, f, mode, kind, row)
      PROVE  e \in EventIds'
  BY <1>1 DEF AppendEvent, IInv, TypeOK, EventIds
<1>2. ASSUME NEW s \in Sessions, CommitCreate(s) \/ CommitLink(s) PROVE e \in EventIds'
  BY <1>1, <1>2 DEF CommitCreate, CommitLink
<1>3. ASSUME NEW s \in Sessions, CommitRevise(s)
      PROVE  EventIds' = EventIds /\ events'[e].mode = events[e].mode
  <2>1. PICK d \in EventIds, f \in FlowIds, row \in Materials :
          Active(d) /\ AppendRevision(d, "revise", row, "active", f)
    BY <1>3, ReviseFacts
  <2> QED
    BY <2>1, AppendRevisionShape DEF IInv, Kinds
<1>4. ASSUME NEW s \in Sessions, CommitRetract(s)
      PROVE  EventIds' = EventIds /\ events'[e].mode = events[e].mode
  <2>1. PICK d \in EventIds, row \in Materials :
          Active(d) /\ AppendRevision(d, "retract", row, "retracted", None)
    BY <1>4, RetractFacts
  <2> QED
    BY <2>1, AppendRevisionShape DEF IInv, Kinds
<1>5. UNCHANGED events \/ \E s \in Sessions :
        CommitCreate(s) \/ CommitLink(s) \/ CommitRevise(s) \/ CommitRetract(s)
  BY DEF Next, Request, EditRead, EditCommit, DeleteRead, DeleteCommit, IdentifyNew,
         IdentifyApplied, PlanCreate, PlanLink, PlanRevise, RetractRead, RetractRevisions,
         Abort, Read, CreateFlow, Close, Reopen, tables
<1>6. e \in EventIds'
  BY <1>2, <1>3, <1>4, <1>5 DEF EventIds
<1>7. events'[e].mode = events[e].mode
  BY <1>3, <1>4, OnlyRevisions
<1> QED
  BY <1>6, <1>7

LEMMA PlannedStays ==
  ASSUME IInv, Next, NEW c, Planned(c)
  PROVE  Planned(c)'
  BY ModesStay DEF Planned

LEMMA InitPlanned == Init => CallsPlanned
  BY StatementAssumption DEF Init, CallsPlanned, Planned, Idle

LEMMA NextPlanned == LedgerInv /\ [Next]_vars => CallsPlanned'
<1>1. ASSUME LedgerInv, UNCHANGED vars PROVE CallsPlanned'
  BY <1>1 DEF LedgerInv, CallsPlanned, Planned, EventIds, vars
<1> SUFFICES ASSUME LedgerInv, Next PROVE CallsPlanned'
  BY <1>1
<1>2. Planned(Idle)
  BY StatementAssumption DEF Planned, Idle
<1>3. ASSUME NEW next, Planned(next), NEW s \in Sessions, call' = [call EXCEPT ![s] = next]
      PROVE  CallsPlanned'
  BY <1>3, PlannedStays DEF LedgerInv, IInv, TypeOK, CallsPlanned
<1>4. ASSUME NEW s \in Sessions, Request(s) PROVE CallsPlanned'
  <2>1. CASE \/ Abort(s) \/ EditCommit(s) \/ DeleteCommit(s) \/ CommitCreate(s)
             \/ CommitLink(s) \/ CommitRevise(s) \/ CommitRetract(s)
    BY <1>2, <1>3, <2>1 DEF Abort, EditCommit, DeleteCommit, CommitCreate, CommitLink,
                            CommitRevise, CommitRetract, Commit
  <2>2. CASE \/ \E f \in FlowIds, row \in Rows, source \in Sources : EditRead(s, f, row, source)
             \/ \E f \in FlowIds : DeleteRead(s, f)
             \/ \E e \in EventIds : RetractRead(s, e)
             \/ RetractRevisions(s)
    <3>1. \E next : Planned(next) /\ call' = [call EXCEPT ![s] = next]
      BY <2>2 DEF EditRead, DeleteRead, RetractRead, RetractRevisions, Read, Planned
    <3> QED
      BY <1>3, <3>1
  <2>3. CASE \/ \E i \in Identities, row \in Rows : IdentifyNew(s, i, row)
             \/ \E e \in EventIds, row \in Rows : IdentifyApplied(s, e, row)
    <3>1. \E next : Planned(next) /\ call' = [call EXCEPT ![s] = next]
      BY <2>3 DEF IdentifyNew, IdentifyApplied, Read, Planned
    <3> QED
      BY <1>3, <3>1
  <2>4. CASE PlanCreate(s) \/ \E f \in FlowIds : PlanLink(s, f)
    <3>1. call[s] \in [op : {"new", "create"}, identity : Identities, row : Materials]
      BY <2>4, StatementAssumption DEF PlanCreate, PlanLink, Read, LedgerInv, IInv, TypeOK,
                                       Calls, Idle
    <3>2. call[s].row \in Rows
      BY <2>4 DEF PlanCreate, PlanLink, Read, LedgerInv, CallsPlanned, Planned
    <3>3. Planned([call[s] EXCEPT !.op = "create"])
      BY <3>1, <3>2 DEF Planned
    <3>4. \E next : Planned(next) /\ call' = [call EXCEPT ![s] = next]
      BY <2>4, <3>2, <3>3 DEF PlanCreate, PlanLink, Read, Planned
    <3> QED
      BY <1>3, <3>4
  <2>5. CASE PlanRevise(s)
    <3>1. call[s].row \in Rows /\ call[s].event \in EventIds
      BY <2>5 DEF PlanRevise, LedgerInv, IInv, CallsNameEvents, NamesEvent, CallsPlanned,
                  Planned
    <3>2. \E next : Planned(next) /\ call' = [call EXCEPT ![s] = next]
      BY <2>5, <3>1 DEF PlanRevise, Read, Planned
    <3> QED
      BY <1>3, <3>2
  <2> QED
    BY <1>4, <2>1, <2>2, <2>3, <2>4, <2>5 DEF Request
<1>5. ASSUME UNCHANGED call PROVE CallsPlanned'
  BY <1>5, PlannedStays DEF LedgerInv, CallsPlanned
<1> QED
  BY <1>4, <1>5 DEF Next, CreateFlow, Close, Reopen

-----------------------------------------------------------------------------
(* The commits. *)

LEMMA PayoutIsEntered ==
  ASSUME NEW m, NEW row, NEW source
  PROVE  /\ Payout(m, row, source) = Ledger!Entered(m, row, source)
         /\ Payout(row.date, row, "statement") = Ledger!Stated(row)
  BY DEF Payout, Ledger!Entered, Ledger!Stated

LEMMA CreateFlowMaps ==
  ASSUME IInv, NEW m \in Months, NEW row \in Rows, NEW source \in Sources,
         CreateFlow(m, row, source)
  PROVE  Ledger!LedgerNext
<1>1. PICK n \in FlowIds : n = NextFlow
  BY DEF CreateFlow, InsertFlow
<1>2. flow' = [flow EXCEPT ![n] = Ledger!Entered(m, row, source)] /\ UNCHANGED events
  BY <1>1, PayoutIsEntered DEF CreateFlow, InsertFlow
<1>3. n \notin Ledger!Stored
  BY <1>1, NextIsFree DEF Ledger!Stored, Exists
<1>4. UNCHANGED Standing
  BY <1>2 DEF Standing, EventIds, Active, Entry, LastRevision
<1>5. Ledger!Enter(n)
  BY <1>2, <1>3, <1>4 DEF Ledger!Enter
<1> QED
  BY <1>5 DEF Ledger!LedgerNext

LEMMA EditMaps ==
  ASSUME IInv, NEW s \in Sessions, EditCommit(s)
  PROVE  Ledger!LedgerNext
<1>1. PICK f \in FlowIds, r \in FlowRow :
        /\ Exists(f) /\ r # None /\ r.month = flow[f].month
        /\ flow' = [flow EXCEPT ![f] = r] /\ UNCHANGED events
  BY EditFacts
<1>2. flow'[f] = r /\ \A g \in FlowIds \ {f} : flow'[g] = flow[g]
  BY <1>1 DEF IInv, TypeOK
<1>3. UNCHANGED Standing
  BY <1>1 DEF Standing, EventIds, Active, Entry, LastRevision
<1>4. Ledger!Amend(f)
  BY <1>1, <1>2, <1>3 DEF Ledger!Amend, Ledger!Stored, Exists
<1> QED
  BY <1>4 DEF Ledger!LedgerNext

LEMMA DeleteMaps ==
  ASSUME IInv, NEW s \in Sessions, DeleteCommit(s)
  PROVE  [Ledger!LedgerNext]_(Ledger!ledgerVars)
<1>1. call[s].flow \in FlowIds
  BY StatementAssumption DEF DeleteCommit, Commit, IInv, TypeOK, Calls, Idle
<1>2. PICK f \in FlowIds : f = call[s].flow
  BY <1>1
<1>3. EventsOn(f) = {} /\ flow' = [flow EXCEPT ![f] = None] /\ UNCHANGED events
  BY <1>2 DEF DeleteCommit
<1>4. UNCHANGED Standing
  BY <1>3 DEF Standing, EventIds, Active, Entry, LastRevision
<1>5. CASE Exists(f)
  <2>1. Ledger!Remove(f)
    BY <1>3, <1>4, <1>5, OwnersAreFree DEF Ledger!Remove
  <2> QED
    BY <2>1 DEF Ledger!LedgerNext
<1>6. CASE ~Exists(f)
  <2>1. flow' = flow
    BY <1>3, <1>6 DEF Exists, IInv, TypeOK
  <2> QED
    BY <1>4, <2>1 DEF Ledger!ledgerVars
<1> QED
  BY <1>5, <1>6

LEMMA CreateMaps ==
  ASSUME LedgerInv, NEW s \in Sessions, CommitCreate(s)
  PROVE  Ledger!LedgerNext
<1> DEFINE c == call[s]
<1>1. c.identity \in Identities /\ c.row \in Rows
  BY StatementAssumption DEF CommitCreate, Commit, LedgerInv, IInv, TypeOK, Calls, Idle,
                             CallsPlanned, Planned
<1>2. NextFlow \in FlowIds
  BY DEF CommitCreate, InsertFlow
<1>3. PICK i \in Identities, row \in Rows, n \in FlowIds :
        i = c.identity /\ row = c.row /\ n = NextFlow
  BY <1>1, <1>2
<1>4. /\ flow' = [flow EXCEPT ![n] = Ledger!Stated(row)]
      /\ AppendEvent(i, n, "created", "apply", row)
  BY <1>3, PayoutIsEntered DEF CommitCreate, InsertFlow
<1> HIDE DEF c
<1>5. Standing' = Standing \cup Ledger!Stand(i, n, "created", row)
  BY <1>4, StandingAppended DEF LedgerInv, IInv
<1>6. Ledger!New(i)
  BY <1>4, NewIdentity DEF AppendEvent
<1>7. n \notin Ledger!Stored
  BY <1>3, NextIsFree DEF Ledger!Stored, Exists
<1>8. Ledger!Apply(i, n, row)
  BY <1>4, <1>5, <1>6, <1>7 DEF Ledger!Apply
<1> QED
  BY <1>8 DEF Ledger!LedgerNext

LEMMA LinkMaps ==
  ASSUME LedgerInv, NEW s \in Sessions, CommitLink(s)
  PROVE  Ledger!LedgerNext
<1> DEFINE c == call[s]
<1>1. c.identity \in Identities /\ c.row \in Rows /\ c.flow \in FlowIds
  BY StatementAssumption DEF CommitLink, Commit, LedgerInv, IInv, TypeOK, Calls, Idle,
                             CallsPlanned, Planned
<1>2. PICK i \in Identities, row \in Rows, f \in FlowIds :
        i = c.identity /\ row = c.row /\ f = c.flow
  BY <1>1
<1>3. /\ Exists(f) /\ flow' = flow
      /\ AppendEvent(i, f, "linked", "link_existing", row)
  BY <1>2 DEF CommitLink
<1> HIDE DEF c
<1>4. Standing' = Standing \cup Ledger!Stand(i, f, "linked", row)
  BY <1>3, StandingAppended DEF LedgerInv, IInv
<1>5. Ledger!New(i) /\ Ledger!OwnersFree(f)
  BY <1>3, NewIdentity, OwnersAreFree DEF AppendEvent, LedgerInv
<1>6. Ledger!Link(i, f, row)
  BY <1>3, <1>4, <1>5 DEF Ledger!Link
<1> QED
  BY <1>6 DEF Ledger!LedgerNext

LEMMA ReviseMaps ==
  ASSUME LedgerInv, NEW s \in Sessions, CommitRevise(s)
  PROVE  Ledger!LedgerNext
<1>1. PICK e \in EventIds, f \in FlowIds, row \in Materials :
        /\ e = call[s].event /\ f = call[s].flow /\ row = call[s].row
        /\ Active(e) /\ events[e].flow = f /\ Exists(f) /\ flow[f] \in FlowRow
        /\ Material(f) = LastRevision(e).row
        /\ flow' = [flow EXCEPT ![f] = Payout(row.date, row, flow[f].source)]
        /\ AppendRevision(e, "revise", row, "active", f)
  BY ReviseFacts DEF LedgerInv
<1>2. row \in Rows /\ events[e].mode = "created"
  BY <1>1 DEF CommitRevise, Commit, LedgerInv, CallsPlanned, Planned
<1>3. flow[f].month = LastRevision(e).row.date /\ flow[f].source = "statement"
  BY <1>1, <1>2 DEF CommitRevise, MatchesAccepted
<1>4. flow[f] = Ledger!Stated(LastRevision(e).row)
  <2>1. LastRevision(e).row = [date |-> flow[f].date, gross |-> flow[f].gross,
                               tax |-> flow[f].tax, net |-> flow[f].net]
    BY <1>1 DEF Material, MaterialOf
  <2> QED
    BY <1>1, <1>3, <2>1 DEF Ledger!Stated, Ledger!Entered, FlowRow
<1>5. flow' = [flow EXCEPT ![f] = Ledger!Stated(row)]
  BY <1>1, <1>3, PayoutIsEntered
<1>6. /\ EventIds' = EventIds
      /\ \A d \in EventIds : d # e => events'[d] = events[d]
      /\ events'[e].identity = events[e].identity /\ events'[e].mode = events[e].mode
      /\ events'[e].status = "active" /\ events'[e].flow = f
      /\ events'[e].history = Append(events[e].history, [kind |-> "revise", row |-> row])
  <2>1. TypeOK /\ "revise" \in Kinds /\ f \in FlowIds \cup {None}
    BY DEF LedgerInv, IInv, Kinds
  <2>2. Active(e) /\ AppendRevision(e, "revise", row, "active", f)
    BY <1>1
  <2> QED
    BY <2>1, <2>2, AppendRevisionShape
<1>7. Active(e)' /\ LastRevision(e)'.row = row
  <2>1. events[e].history \in Seq([kind : Kinds, row : Materials])
    BY HistoryTyped DEF LedgerInv, IInv
  <2>2. LastRevision(e)' = [kind |-> "revise", row |-> row]
    BY <1>6, <2>1 DEF LastRevision
  <2> QED
    BY <1>6, <2>2 DEF Active
<1>8. Entry(e)' = [identity |-> events[e].identity, flow |-> f, mode |-> "created", row |-> row]
  BY <1>2, <1>6, <1>7 DEF Entry
<1>9. Standing' = (Standing \ {Entry(e)}) \cup {Entry(e)'}
  BY <1>1, <1>6, <1>7, StandingRevised DEF LedgerInv
<1>10. /\ Entry(e) \in Standing /\ Entry(e).flow = f /\ Entry(e).mode = "created"
       /\ Entry(e).identity = events[e].identity /\ Entry(e).row = LastRevision(e).row
  BY <1>1, <1>2, Stands, EntryFields DEF LedgerInv
<1>11. Ledger!Correct(Entry(e), row)
  BY <1>4, <1>5, <1>8, <1>9, <1>10 DEF Ledger!Correct, Ledger!Stand
<1> QED
  BY <1>2, <1>10, <1>11 DEF Ledger!LedgerNext

LEMMA RetractMaps ==
  ASSUME IInv, NEW s \in Sessions, CommitRetract(s)
  PROVE  Ledger!LedgerNext
<1>1. PICK e \in EventIds, f \in FlowIds, row \in Materials :
        /\ Active(e) /\ events[e].flow = f /\ Exists(f)
        /\ flow' = IF events[e].mode = "created" THEN [flow EXCEPT ![f] = None] ELSE flow
        /\ AppendRevision(e, "retract", row, "retracted", None)
  BY RetractFacts
<1>2. /\ EventIds' = EventIds
      /\ \A d \in EventIds : d # e => events'[d] = events[d]
      /\ events'[e].status = "retracted"
  BY <1>1, AppendRevisionShape DEF IInv, Kinds
<1>3. ~Active(e)'
  BY <1>2 DEF Active
<1>4. Standing' = Standing \ {Entry(e)}
  BY <1>1, <1>2, <1>3, StandingRevised
<1>5. Entry(e) \in Standing /\ Entry(e).flow = f /\ Entry(e).mode = events[e].mode
  BY <1>1, Stands, EntryFields
<1>6. Ledger!Retract(Entry(e))
  BY <1>1, <1>4, <1>5 DEF Ledger!Retract
<1> QED
  BY <1>5, <1>6 DEF Ledger!LedgerNext

LEMMA StepIsLedger == LedgerInv /\ [Next]_vars => [Ledger!LedgerNext]_(Ledger!ledgerVars)
<1> SUFFICES ASSUME LedgerInv, [Next]_vars PROVE [Ledger!LedgerNext]_(Ledger!ledgerVars)
  OBVIOUS
<1>1. ASSUME UNCHANGED <<flow, events>> PROVE UNCHANGED Ledger!ledgerVars
  BY <1>1 DEF Ledger!ledgerVars, Standing, EventIds, Active, Entry, LastRevision
<1>2. ASSUME NEW s \in Sessions, Request(s)
      PROVE  UNCHANGED <<flow, events>> \/ [Ledger!LedgerNext]_(Ledger!ledgerVars)
  <2>1. \/ UNCHANGED <<flow, events>>
        \/ EditCommit(s) \/ DeleteCommit(s) \/ CommitCreate(s) \/ CommitLink(s)
        \/ CommitRevise(s) \/ CommitRetract(s)
    BY <1>2 DEF Request, EditRead, DeleteRead, IdentifyNew, IdentifyApplied, PlanCreate,
                PlanLink, PlanRevise, RetractRead, RetractRevisions, Abort, Read, tables
  <2> QED
    BY <2>1, EditMaps, DeleteMaps, CreateMaps, LinkMaps, ReviseMaps, RetractMaps DEF LedgerInv
<1>3. CASE \E m \in Months, row \in Rows, source \in Sources : CreateFlow(m, row, source)
  BY <1>3, CreateFlowMaps DEF LedgerInv
<1>4. CASE UNCHANGED vars \/ \E m \in Months : Close(m) \/ Reopen(m)
  BY <1>1, <1>4 DEF vars, Close, Reopen
<1> QED
  BY <1>1, <1>2, <1>3, <1>4 DEF Next

\* However many sessions, months, rows and payouts there are: the payouts are a ledger in
\* which applies, links, corrections, retractions and the owner's edits happen at once and
\* as they may (statement_import_apply.py:304).
THEOREM PayoutsAreALedger == Spec => ImplementsLedger
<1>1. Init => LedgerInv /\ Ledger!LedgerInit
  <2>1. Init => Ledger!LedgerInit
    BY DEF Init, Ledger!LedgerInit, Standing, EventIds
  <2> QED
    BY <2>1, InitIInv, InitPlanned DEF LedgerInv
<1>2. LedgerInv /\ [Next]_vars => LedgerInv'
  BY NextIInv, NextPlanned DEF LedgerInv
<1> QED
  BY <1>1, <1>2, StepIsLedger, PTL DEF Spec, ImplementsLedger, Ledger!LedgerSpec

=============================================================================
