---------------------------- MODULE TransferLinks ----------------------------
(***************************************************************************)
(* External flows of the owner's accounts, the transfer links that pair    *)
(* two of them as the legs of one transfer, the reconciliation evidence    *)
(* that explains a link, the attestations that an account's cash history   *)
(* is complete over an interval, and the months the flows belong to.       *)
(*                                                                         *)
(* Every write reserves SQLite's writer before it reads what it decides    *)
(* on and holds it through its commit, so it is one step.  Only the update *)
(* and the deletion of a flow read before they reserve: ReadFlow, then the *)
(* write, which compares what it read with what it finds.                  *)
(***************************************************************************)
EXTENDS Naturals

CONSTANTS Sessions,   \* request sessions that may run at once
          Months,     \* reporting months
          Accounts,
          Dates,      \* event dates
          PeriodOf,   \* the month whose period a date lies in
          Intervals,  \* date intervals that may be attested
          Amounts,    \* boundary amounts
          Flows,      \* ids of external flows
          Links,      \* ids of transfer links
          Evidence,   \* ids of reconciliation evidence
          Coverages,  \* ids of cash-boundary attestations
          Unset,      \* the transfer link of an update that does not name one
          None        \* an absent row or argument

ASSUME TransferAssumption ==
  /\ PeriodOf \in [Dates -> Months]
  /\ Intervals \subseteq SUBSET Dates
  /\ Unset \notin Links /\ Unset # None
  /\ None \notin Months \cup Accounts \cup Dates \cup Amounts \cup Flows \cup Links

VARIABLES months,    \* the status of each month, None when there is none
          flows,     \* rows of external_flows
          links,     \* rows of external_transfer_links: their stored status
          evidence,  \* the link each evidence row explains
          coverage,  \* rows of cash_boundary_coverages
          pending    \* what a session has read of the flow it is about to write

vars == <<months, flows, links, evidence, coverage, pending>>

-----------------------------------------------------------------------------
Directions == {"contribution", "withdrawal"}
FlowRow == [month: Months, account: Accounts, date: Dates, amount: Amounts,
            direction: Directions, link: Links \cup {None}]
LinkRow == [status: {"unresolved", "resolved"}]
CoverageRow == [account: Accounts, interval: Intervals,
                state: {"complete", "unknown"}]
FlowRead == [flow: Flows, link: Links \cup {None}, row: LinkRow \cup {None}]

ASSUME RowsAssumption ==
  /\ None \notin FlowRow /\ None \notin LinkRow
  /\ None \notin CoverageRow /\ None \notin FlowRead
  /\ None \notin {"draft", "closed"}

\* Every row and every pending call has the shape the tables give it
\* (persistence.py:1890).
TypeOK ==
  /\ months \in [Months -> {"draft", "closed", None}]
  /\ flows \in [Flows -> FlowRow \cup {None}]
  /\ links \in [Links -> LinkRow \cup {None}]
  /\ evidence \in [Evidence -> Links \cup {None}]
  /\ coverage \in [Coverages -> CoverageRow \cup {None}]
  /\ pending \in [Sessions -> FlowRead \cup {None}]

Init ==
  /\ months = [m \in Months |-> "draft"]
  /\ flows = [f \in Flows |-> None]
  /\ links = [l \in Links |-> None]
  /\ evidence = [e \in Evidence |-> None]
  /\ coverage = [c \in Coverages |-> None]
  /\ pending = [s \in Sessions |-> None]

-----------------------------------------------------------------------------
(* Legs, evidence and attestations. *)

Stored == {f \in Flows : flows[f] # None}
LegsOf(l) == {f \in Stored : flows[f].link = l}
ExplanationsOf(l) == {e \in Evidence : evidence[e] = l}
Editable(m) == months[m] = "draft"

Opposite(f, g) ==
  flows[f].account # flows[g].account /\ flows[f].direction # flows[g].direction

Complete(l) == \E f, g \in LegsOf(l) : LegsOf(l) = {f, g} /\ Opposite(f, g)

\* At most two legs, and two only as the sides of one transfer.
ValidLegs(l) == Complete(l) \/ \A f, g \in LegsOf(l) : f = g

\* Mutant of LegsEditable: only the month of the flow itself is asked.
AnyLegs(l) == TRUE

LegsEditable(l) == \A f \in LegsOf(l) : Editable(flows[f].month)

Unexplained(l) == ExplanationsOf(l) = {}

\* A leg with this account and direction may join the other legs of l.
MayJoin(l, account, direction, others) ==
  /\ \A f, g \in others : f = g
  /\ \A f \in others : flows[f].account # account /\ flows[f].direction # direction

\* The status of the links touched is derived from their legs after the write.
Refreshed(touched) ==
  /\ \A l \in touched : ValidLegs(l)'
  /\ links' = [l \in Links |->
                 IF l \in touched
                 THEN [status |-> IF Complete(l)' THEN "resolved" ELSE "unresolved"]
                 ELSE links[l]]

Crosses(row) == <<row.account, row.date>>

\* Complete attestations over a flow that changed become unknown.
Invalidated(crossings) ==
  coverage' = [c \in Coverages |->
    IF /\ coverage[c] # None
       /\ \E x \in crossings : x[1] = coverage[c].account /\ x[2] \in coverage[c].interval
    THEN [coverage[c] EXCEPT !.state = "unknown"]
    ELSE coverage[c]]

-----------------------------------------------------------------------------
(* Creation of flows and links. *)

CreateFlow(f, row) ==
  LET l == row.link IN
  /\ flows[f] = None /\ Editable(row.month)
  /\ l # None => /\ links[l] # None
                 /\ MayJoin(l, row.account, row.direction, LegsOf(l))
                 /\ LegsEditable(l) /\ Unexplained(l)
  /\ flows' = [flows EXCEPT ![f] = row]
  /\ Refreshed({l} \ {None})
  /\ Invalidated({Crosses(row)})
  /\ UNCHANGED <<months, evidence, pending>>

CreateLink(l, legs) ==
  /\ links[l] = None
  /\ legs \subseteq Stored
  /\ \A f \in legs : Editable(flows[f].month) /\ flows[f].link = None
  /\ flows' = [f \in Flows |->
                 IF f \in legs THEN [flows[f] EXCEPT !.link = l] ELSE flows[f]]
  /\ Refreshed({l})
  /\ UNCHANGED <<months, evidence, coverage, pending>>

DeleteLink(l) ==
  /\ links[l] # None /\ LegsOf(l) = {} /\ Unexplained(l)
  /\ links' = [links EXCEPT ![l] = None]
  /\ UNCHANGED <<months, flows, evidence, coverage, pending>>

-----------------------------------------------------------------------------
(* Update and deletion of a flow. *)

ReadFlow(s, f) ==
  /\ pending[s] = None /\ flows[f] # None
  /\ pending' = [pending EXCEPT ![s] =
       [flow |-> f, link |-> flows[f].link,
        row |-> IF flows[f].link = None THEN None ELSE links[flows[f].link]]]
  /\ UNCHANGED <<months, flows, links, evidence, coverage>>

\* The flow, its ownership and the status of its link are as they were read.
AsRead(s) ==
  LET seen == pending[s] IN
  /\ seen # None
  /\ flows[seen.flow] # None
  /\ flows[seen.flow].link = seen.link
  /\ seen.link # None => links[seen.link] = seen.row
  /\ Editable(flows[seen.flow].month)

Done(s) == pending' = [pending EXCEPT ![s] = None]

Abort(s) ==
  pending[s] # None /\ Done(s) /\ UNCHANGED <<months, flows, links, evidence, coverage>>

\* The arguments of an update: None leaves a column alone, Unset the link.  Whether
\* the date or the amount is named makes no difference: the stored one stands for none.
Changes == [account: Accounts \cup {None}, date: Dates, amount: Amounts,
            direction: Directions \cup {None}, kind: Directions \cup {None},
            link: Links \cup {None, Unset}]

Given(value, stored) == IF value = None THEN stored ELSE value

NewLink(row, c) == IF c.link = Unset THEN row.link ELSE c.link

\* A kind stands for its direction; given both, they agree.
Agree(c) == c.kind = None \/ c.direction = None \/ c.kind = c.direction

Changed(row, c) ==
  [row EXCEPT !.account = Given(c.account, @), !.date = c.date, !.amount = c.amount,
              !.direction = Given(c.direction, Given(c.kind, @)),
              !.link = NewLink(row, c)]

\* Mutant of Repins: a leg may change its account under evidence.
RepinsLinkOnly(row, c) == NewLink(row, c) # row.link

\* The changes that evidence forbids.
Repins(row, c) ==
  NewLink(row, c) # row.link \/ c.account # None \/ c.direction # None

\* The changes that concern the other leg.
Reshapes(row, c) == Repins(row, c) \/ c.kind # None

\* Mutant of Moved: only the history the flow moves to is asked again.
MovedTo(row, next) == {Crosses(next)}

\* The crossings an update changes; evidence of the old and of the new place.
Moved(row, next) == {Crosses(row), Crosses(next)}

UpdateFlow(s, c) ==
  LET f == pending[s].flow  row == flows[f]
      old == row.link  new == NewLink(row, c)  next == Changed(row, c) IN
  /\ AsRead(s) /\ Agree(c)
  /\ old # None /\ Reshapes(row, c) =>
       /\ LegsEditable(old)
       /\ Repins(row, c) => Unexplained(old)
       /\ new = old => MayJoin(old, next.account, next.direction, LegsOf(old) \ {f})
  /\ new # None => links[new] # None
  /\ new \notin {None, old} =>
       /\ MayJoin(new, next.account, next.direction, LegsOf(new))
       /\ LegsEditable(new) /\ Unexplained(new)
  /\ flows' = [flows EXCEPT ![f] = next]
  /\ Refreshed((IF Reshapes(row, c) THEN {old, new} ELSE {}) \ {None})
  /\ Invalidated(IF next = row THEN {} ELSE Moved(row, next))
  /\ Done(s)
  /\ UNCHANGED <<months, evidence>>

DeleteFlow(s) ==
  LET f == pending[s].flow  row == flows[f]  l == row.link IN
  /\ AsRead(s)
  /\ l # None => LegsEditable(l) /\ Unexplained(l)
  /\ flows' = [flows EXCEPT ![f] = None]
  /\ Refreshed({l} \ {None})
  /\ Invalidated({Crosses(row)})
  /\ Done(s)
  /\ UNCHANGED <<months, evidence>>

-----------------------------------------------------------------------------
(* Reconciliation evidence. *)

\* Mutant of CreateEvidence: a link without legs is explained.
ExplainNothing(e, l) ==
  /\ evidence[e] = None /\ links[l] # None
  /\ LegsEditable(l)
  /\ evidence' = [evidence EXCEPT ![e] = l]
  /\ UNCHANGED <<months, flows, links, coverage, pending>>

CreateEvidence(e, l) ==
  /\ evidence[e] = None /\ links[l] # None
  /\ LegsOf(l) # {} /\ LegsEditable(l)
  /\ evidence' = [evidence EXCEPT ![e] = l]
  /\ UNCHANGED <<months, flows, links, coverage, pending>>

DeleteEvidence(e) ==
  /\ evidence[e] # None /\ LegsEditable(evidence[e])
  /\ evidence' = [evidence EXCEPT ![e] = None]
  /\ UNCHANGED <<months, flows, links, coverage, pending>>

-----------------------------------------------------------------------------
(* Attestations of an account's cash history. *)

IntervalEditable(i) == \A d \in i : months[PeriodOf[d]] # "closed"

Duplicates(c, row) ==
  {o \in Coverages \ {c} : coverage[o] # None /\ coverage[o].account = row.account
                                              /\ coverage[o].interval = row.interval}

StoreCoverage(c, row) ==
  /\ IntervalEditable(row.interval)
  /\ Duplicates(c, row) = {}
  /\ coverage' = [coverage EXCEPT ![c] = row]
  /\ UNCHANGED <<months, flows, links, evidence, pending>>

CreateCoverage(c, row) == coverage[c] = None /\ StoreCoverage(c, row)

\* An owner's attestation reaffirms the row of its interval, or creates one.
Attest(c, account, interval) ==
  LET row == [account |-> account, interval |-> interval, state |-> "complete"] IN
  /\ coverage[c] # None =>
       coverage[c].account = account /\ coverage[c].interval = interval
  /\ StoreCoverage(c, row)

\* Mutant of UpdateCoverage: only the new interval is asked for closed months.
MoveCoverage(c, row) == coverage[c] # None /\ StoreCoverage(c, row)

\* An update moves or restates an attestation; a revocation makes it unknown.
UpdateCoverage(c, row) ==
  /\ coverage[c] # None /\ IntervalEditable(coverage[c].interval)
  /\ StoreCoverage(c, row)

-----------------------------------------------------------------------------
(* The months. *)

SetStatus(m, from, to) ==
  /\ months[m] = from
  /\ months' = [months EXCEPT ![m] = to]
  /\ UNCHANGED <<flows, links, evidence, coverage, pending>>

CreateMonth(m) == SetStatus(m, None, "draft")
CloseMonth(m) == SetStatus(m, "draft", "closed")
ReopenMonth(m) == SetStatus(m, "closed", "draft")

FlowsOf(m) == {f \in Stored : flows[f].month = m}

\* Mutant of DeleteMonth: the links that lost a leg keep their status.
DeleteMonthOnly(m) ==
  /\ Editable(m)
  /\ \A f \in FlowsOf(m) : flows[f].link # None => Unexplained(flows[f].link)
  /\ Invalidated({Crosses(flows[f]) : f \in FlowsOf(m)})
  /\ flows' = [f \in Flows |-> IF f \in FlowsOf(m) THEN None ELSE flows[f]]
  /\ months' = [months EXCEPT ![m] = None]
  /\ UNCHANGED <<links, evidence, pending>>

\* The bulk deletion of a draft's flows asks and repairs what the deletion of
\* one flow would.
DeleteMonth(m) ==
  /\ Editable(m)
  /\ \A f \in FlowsOf(m) : flows[f].link # None => Unexplained(flows[f].link)
  /\ Invalidated({Crosses(flows[f]) : f \in FlowsOf(m)})
  /\ flows' = [f \in Flows |-> IF f \in FlowsOf(m) THEN None ELSE flows[f]]
  /\ Refreshed({l \in Links : links[l] # None})
  /\ months' = [months EXCEPT ![m] = None]
  /\ UNCHANGED <<evidence, pending>>

-----------------------------------------------------------------------------
FlowStep(s) ==
  \/ \E f \in Flows : ReadFlow(s, f)
  \/ \E c \in Changes : UpdateFlow(s, c)
  \/ DeleteFlow(s)
  \/ Abort(s)

LinkStep ==
  \/ \E f \in Flows, row \in FlowRow : CreateFlow(f, row)
  \/ \E l \in Links, legs \in SUBSET Flows : CreateLink(l, legs)
  \/ \E l \in Links : DeleteLink(l)
  \/ \E e \in Evidence, l \in Links : CreateEvidence(e, l)
  \/ \E e \in Evidence : DeleteEvidence(e)

CoverageStep ==
  \E c \in Coverages :
    \/ \E row \in CoverageRow : CreateCoverage(c, row) \/ UpdateCoverage(c, row)
    \/ \E a \in Accounts, i \in Intervals : Attest(c, a, i)

MonthStep ==
  \E m \in Months : CreateMonth(m) \/ CloseMonth(m) \/ ReopenMonth(m) \/ DeleteMonth(m)

Next == (\E s \in Sessions : FlowStep(s)) \/ LinkStep \/ CoverageStep \/ MonthStep

Spec == Init /\ [][Next]_vars

-----------------------------------------------------------------------------
(* Properties. *)

\* The stored status of a link is what its legs say, whichever flow, link or whole
\* month came or went, and a link never has two legs that are not one transfer
\* (external_flows.py:292).
LinkStatusTrue ==
  \A l \in Links :
    /\ links[l] # None => ValidLegs(l) /\ (links[l].status = "resolved" <=> Complete(l))
    /\ links[l] = None => LegsOf(l) = {}

\* Evidence explains an existing link that has a leg (transfer_reconciliation.py:137).
EvidenceExplainsALeg ==
  \A e \in Evidence :
    evidence[e] # None => links[evidence[e]] # None /\ LegsOf(evidence[e]) # {}

\* What identifies a transfer: its legs with their accounts and directions.
Identity(l) == {<<f, flows[f].account, flows[f].direction>> : f \in LegsOf(l)}

\* The legs of a complete transfer do not change while it has evidence, however an
\* update or deletion of a leg overlaps the creation of the evidence
\* (external_flows.py:229).
ReconciledTransfersPinned ==
  [][\A l \in Links :
       Complete(l) /\ ~Unexplained(l) => Identity(l)' = Identity(l)]_vars

\* No leg of a link changes while the link has evidence, a single leg included
\* (external_flows.py:240).
ReconciledLegsPinned ==
  [][\A l \in Links : ~Unexplained(l) => Identity(l)' = Identity(l)]_vars

\* A flow of a closed month does not change, and neither do the legs, the status and
\* the evidence of a transfer with a leg in a closed month, unless the month of its
\* other leg is deleted as a whole (external_flows.py:306).
ClosedTransfersFrozen ==
  [][/\ \A f \in Stored : months[flows[f].month] = "closed" => flows'[f] = flows[f]
     /\ \A l \in Links :
          /\ \E f \in LegsOf(l) : months[flows[f].month] = "closed"
          /\ \A m \in Months : months[m] # None => months'[m] # None
          =>
            /\ Identity(l)' = Identity(l)
            /\ links'[l] = links[l]
            /\ ExplanationsOf(l)' = ExplanationsOf(l)]_vars

\* The flows an attestation speaks of.
Represented(c) ==
  {<<f, flows[f].date, flows[f].amount, flows[f].direction>> :
     f \in {g \in Stored : /\ flows[g].account = coverage[c].account
                           /\ flows[g].date \in coverage[c].interval}}

\* An attestation that stays complete speaks of the same cash history as before: no
\* flow came, went, moved or changed under it (cash_boundary_coverage.py:334).
CompleteCoverageCurrent ==
  [][\A c \in Coverages :
       coverage[c] # None /\ coverage[c].state = "complete" /\ coverage'[c] = coverage[c] =>
         Represented(c)' = Represented(c)]_vars

\* An attestation over a closed month is neither made, moved nor restated; it can only
\* be invalidated (cash_boundary_coverage.py:337).
ClosedCoverageFrozen ==
  [][\A c \in Coverages :
       coverage'[c] # coverage[c] =>
         /\ coverage[c] # None /\ ~IntervalEditable(coverage[c].interval) =>
              coverage'[c] = [coverage[c] EXCEPT !.state = "unknown"]
         /\ coverage'[c] # None /\ ~IntervalEditable(coverage'[c].interval) =>
              coverage[c] # None /\ coverage'[c].interval = coverage[c].interval]_vars

=============================================================================
