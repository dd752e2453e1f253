-------------------------- MODULE TransferLinksProofs --------------------------
(***************************************************************************)
(* For any number of sessions, months, flows, links and evidence rows: the *)
(* stored status of a link is what its legs say, and evidence explains a   *)
(* leg.  The two are inductive together with the shape of the tables: a    *)
(* write refreshes the links it touches, and leaves the legs of every      *)
(* other link as they were.  From the invariant, what a step never does to *)
(* reconciled transfers, to closed months and to attestations.             *)
(***************************************************************************)
EXTENDS TransferLinks, TLAPS

IInv == TypeOK /\ LinkStatusTrue /\ EvidenceExplainsALeg

-----------------------------------------------------------------------------
(* What leaves a link alone. *)

\* The legs of l are the same flows of the same accounts and directions.
Kept(l) ==
  /\ LegsOf(l)' = LegsOf(l)
  /\ \A f \in LegsOf(l) : /\ flows'[f].account = flows[f].account
                          /\ flows'[f].direction = flows[f].direction

\* Whether a link is valid and complete depends on its legs only.
LEMMA KeptLegs ==
  ASSUME NEW l, Kept(l)
  PROVE  (Complete(l)' <=> Complete(l)) /\ (ValidLegs(l)' <=> ValidLegs(l))
<1>1. \A f, g \in LegsOf(l) : Opposite(f, g)' <=> Opposite(f, g)
  BY DEF Kept, Opposite
<1>2. Complete(l)' <=> Complete(l)
  BY <1>1 DEF Kept, Complete
<1>3. QED
  BY <1>2 DEF Kept, ValidLegs

\* A write that refreshes what it touches keeps every status true.
LEMMA RefreshedTrue ==
  ASSUME LinkStatusTrue, NEW touched \in SUBSET Links, Refreshed(touched),
         \A l \in Links \ touched : Kept(l)
  PROVE  LinkStatusTrue'
<1> SUFFICES ASSUME NEW l \in Links
             PROVE  /\ links'[l] # None =>
                         ValidLegs(l)' /\ (links'[l].status = "resolved" <=> Complete(l)')
                    /\ links'[l] = None => LegsOf(l)' = {}
  BY DEF LinkStatusTrue
<1>1. CASE l \in touched
  <2>1. ValidLegs(l)' /\ links'[l] = [status |-> IF Complete(l)' THEN "resolved" ELSE "unresolved"]
    BY <1>1 DEF Refreshed
  <2>2. links'[l] \in LinkRow
    BY <2>1 DEF LinkRow
  <2>3. QED
    BY <2>1, <2>2, RowsAssumption
<1>2. CASE l \notin touched
  <2>1. links'[l] = links[l]
    BY <1>2 DEF Refreshed
  <2>2. Kept(l)
    BY <1>2
  <2>3. QED
    BY <2>1, <2>2, KeptLegs DEF LinkStatusTrue, Kept
<1>3. QED
  BY <1>1, <1>2

\* Refreshing keeps the shape of the links.
LEMMA RefreshedType ==
  ASSUME TypeOK, NEW touched \in SUBSET Links, Refreshed(touched)
  PROVE  links' \in [Links -> LinkRow \cup {None}]
BY DEF Refreshed, TypeOK, LinkRow

\* Refreshing never removes a link.
LEMMA RefreshedKeeps ==
  ASSUME TypeOK, NEW touched \in SUBSET Links, Refreshed(touched), NEW l \in Links,
         links[l] # None
  PROVE  links'[l] # None
<1>1. CASE l \in touched
  <2>1. links'[l] \in LinkRow
    BY <1>1 DEF Refreshed, LinkRow
  <2>2. QED
    BY <2>1, RowsAssumption
<1>2. CASE l \notin touched
  BY <1>2 DEF Refreshed
<1>3. QED
  BY <1>1, <1>2

\* Invalidation keeps the shape of the attestations.
LEMMA InvalidatedType ==
  ASSUME TypeOK, NEW crossings, Invalidated(crossings)
  PROVE  coverage' \in [Coverages -> CoverageRow \cup {None}]
<1> SUFFICES ASSUME NEW c \in Coverages, coverage[c] # None
             PROVE  [coverage[c] EXCEPT !.state = "unknown"] \in CoverageRow
  BY DEF Invalidated, TypeOK
<1> QED
  BY DEF TypeOK, CoverageRow

\* A link with a leg exists.
LEMMA LegsOfLinks ==
  ASSUME LinkStatusTrue, NEW l \in Links, LegsOf(l) # {}
  PROVE  links[l] # None
BY DEF LinkStatusTrue

\* A stored flow is a row.
LEMMA StoredRow ==
  ASSUME TypeOK, NEW f \in Flows, flows[f] # None
  PROVE  flows[f] \in FlowRow
BY DEF TypeOK

\* Evidence stands as long as its link keeps a leg and is kept.
LEMMA EvidenceStands ==
  ASSUME TypeOK, EvidenceExplainsALeg, UNCHANGED evidence,
         NEW touched \in SUBSET Links, Refreshed(touched),
         \A l \in Links : ~Unexplained(l) /\ LegsOf(l) # {} => LegsOf(l)' # {}
  PROVE  EvidenceExplainsALeg'
<1> SUFFICES ASSUME NEW e \in Evidence, evidence[e] # None
             PROVE  links'[evidence[e]] # None /\ LegsOf(evidence[e])' # {}
  BY DEF EvidenceExplainsALeg
<1>1. evidence[e] \in Links
  BY DEF TypeOK
<1>2. links[evidence[e]] # None /\ LegsOf(evidence[e]) # {}
  BY DEF EvidenceExplainsALeg
<1>3. ~Unexplained(evidence[e])
  BY DEF Unexplained, ExplanationsOf
<1>4. QED
  BY <1>1, <1>2, <1>3, RefreshedKeeps

-----------------------------------------------------------------------------
(* The writes. *)

\* A write that leaves every row alone as far as l is concerned leaves l alone.
LEMMA KeptByRows ==
  ASSUME NEW l \in Links,
         \A f \in Flows :
           \/ flows'[f] = flows[f]
           \/ /\ flows[f] = None \/ flows[f].link # l
              /\ flows'[f] = None \/ flows'[f].link # l
           \/ /\ flows[f] # None /\ flows'[f] # None
              /\ flows'[f].link = flows[f].link
              /\ flows'[f].account = flows[f].account
              /\ flows'[f].direction = flows[f].direction
  PROVE  Kept(l)
<1>1. LegsOf(l)' = LegsOf(l)
  BY DEF LegsOf, Stored
<1>2. \A f \in LegsOf(l) : /\ flows'[f].account = flows[f].account
                           /\ flows'[f].direction = flows[f].direction
  BY DEF LegsOf, Stored
<1>3. QED
  BY <1>1, <1>2 DEF Kept

\* A new flow is a leg of no link but its own.
LEMMA CreateFlowKeeps ==
  ASSUME TypeOK, NEW f \in Flows, NEW row \in FlowRow, CreateFlow(f, row),
         NEW l \in Links, l # row.link
  PROVE  Kept(l)
<1>1. flows[f] = None /\ flows' = [flows EXCEPT ![f] = row]
  BY DEF CreateFlow
<1>2. QED
  BY <1>1, KeptByRows, RowsAssumption DEF TypeOK

\* A new flow joins a link without evidence.
LEMMA CreateFlowIInv ==
  ASSUME IInv, NEW f \in Flows, NEW row \in FlowRow, CreateFlow(f, row)
  PROVE  IInv'
<1> DEFINE touched == {row.link} \ {None}
<1>1. /\ flows[f] = None /\ flows' = [flows EXCEPT ![f] = row]
      /\ Refreshed(touched) /\ Invalidated({Crosses(row)})
      /\ UNCHANGED <<months, evidence, pending>>
  BY DEF CreateFlow
<1>2. touched \in SUBSET Links
  BY DEF FlowRow
<1>3. flows \in [Flows -> FlowRow \cup {None}]
  BY DEF IInv, TypeOK
<1>4. TypeOK'
  BY <1>1, <1>2, <1>3, RefreshedType, InvalidatedType DEF IInv, TypeOK
<1>5. \A l \in Links \ touched : Kept(l)
  BY CreateFlowKeeps, TransferAssumption DEF IInv
<1>6. LinkStatusTrue'
  BY <1>1, <1>2, <1>5, RefreshedTrue DEF IInv
<1>7. \A l \in Links : LegsOf(l) \subseteq LegsOf(l)'
  BY <1>1, <1>3 DEF LegsOf, Stored
<1>8. EvidenceExplainsALeg'
  BY <1>1, <1>2, <1>7, EvidenceStands DEF IInv
<1>9. QED
  BY <1>4, <1>6, <1>8 DEF IInv

\* A new link takes flows that were legs of no link.
LEMMA CreateLinkKeeps ==
  ASSUME TypeOK, NEW l \in Links, NEW legs \in SUBSET Flows, CreateLink(l, legs),
         NEW k \in Links, k # l
  PROVE  Kept(k)
<1>1. flows' = [f \in Flows |-> IF f \in legs THEN [flows[f] EXCEPT !.link = l]
                                              ELSE flows[f]]
  BY DEF CreateLink
<1>2. \A f \in legs : flows[f] \in FlowRow /\ flows[f] # None /\ flows[f].link = None
  BY StoredRow DEF CreateLink, Stored
<1>3. \A f \in legs : flows'[f].link = l
  BY <1>1, <1>2 DEF FlowRow
<1>4. \A f \in legs : flows[f].link # k /\ flows'[f].link # k
  BY <1>2, <1>3, TransferAssumption
<1>5. \A f \in Flows \ legs : flows'[f] = flows[f]
  BY <1>1
<1>6. QED
  BY <1>4, <1>5, KeptByRows

\* A new link has no evidence, and no link with evidence loses a leg to it.
LEMMA CreateLinkIInv ==
  ASSUME IInv, NEW l \in Links, NEW legs \in SUBSET Flows, CreateLink(l, legs)
  PROVE  IInv'
<1>1. /\ flows' = [f \in Flows |-> IF f \in legs THEN [flows[f] EXCEPT !.link = l]
                                                  ELSE flows[f]]
      /\ Refreshed({l})
      /\ UNCHANGED <<months, evidence, coverage, pending>>
  BY DEF CreateLink
<1>2. \A f \in legs : flows[f] \in FlowRow /\ flows[f] # None /\ flows[f].link = None
  BY StoredRow DEF CreateLink, Stored, IInv
<1>3. \A f \in legs : flows'[f] \in FlowRow /\ flows'[f] # None /\ flows'[f].link = l
  BY <1>1, <1>2, RowsAssumption DEF FlowRow
<1>4. TypeOK'
  BY <1>1, <1>3, RefreshedType DEF IInv, TypeOK
<1>5. \A k \in Links \ {l} : Kept(k)
  BY CreateLinkKeeps DEF IInv
<1>6. LinkStatusTrue'
  BY <1>1, <1>5, RefreshedTrue DEF IInv
<1>7. \A k \in Links : LegsOf(k) \subseteq LegsOf(k)'
  <2>1. \A k \in Links : \A f \in LegsOf(k) : f \notin legs
    BY <1>2, TransferAssumption DEF LegsOf
  <2>2. QED
    BY <1>1, <2>1 DEF LegsOf, Stored
<1>8. EvidenceExplainsALeg'
  BY <1>1, <1>7, EvidenceStands DEF IInv
<1>9. QED
  BY <1>4, <1>6, <1>8 DEF IInv

\* A link that goes had neither legs nor evidence.
LEMMA DeleteLinkIInv ==
  ASSUME IInv, NEW l \in Links, DeleteLink(l)
  PROVE  IInv'
<1>1. /\ links[l] # None /\ LegsOf(l) = {} /\ Unexplained(l)
      /\ links' = [links EXCEPT ![l] = None]
      /\ UNCHANGED <<months, flows, evidence, coverage, pending>>
  BY DEF DeleteLink
<1>2. TypeOK'
  BY <1>1 DEF IInv, TypeOK
<1>3. ASSUME NEW k \in Links
      PROVE  /\ LegsOf(k)' = LegsOf(k)
             /\ (Complete(k)' <=> Complete(k)) /\ (ValidLegs(k)' <=> ValidLegs(k))
  <2>1. Kept(k)
    BY <1>1, KeptByRows
  <2>2. QED
    BY <2>1, KeptLegs DEF Kept
<1>4. LinkStatusTrue'
  BY <1>1, <1>3 DEF IInv, TypeOK, LinkStatusTrue
<1>5. EvidenceExplainsALeg'
  BY <1>1, <1>3 DEF IInv, TypeOK, EvidenceExplainsALeg, Unexplained, ExplanationsOf
<1>6. QED
  BY <1>2, <1>4, <1>5 DEF IInv

\* A step that changes no flow and no link keeps the statuses and the legs.
LEMMA QuietLinks ==
  ASSUME LinkStatusTrue, UNCHANGED <<flows, links>>
  PROVE  LinkStatusTrue' /\ \A l \in Links : LegsOf(l)' = LegsOf(l)
<1>1. ASSUME NEW l \in Links
      PROVE  /\ LegsOf(l)' = LegsOf(l)
             /\ (Complete(l)' <=> Complete(l)) /\ (ValidLegs(l)' <=> ValidLegs(l))
  <2>1. Kept(l)
    BY KeptByRows
  <2>2. QED
    BY <2>1, KeptLegs DEF Kept
<1>2. QED
  BY <1>1 DEF LinkStatusTrue

\* Reading a flow, giving up, attesting, closing and reopening change none of the three
\* tables.
LEMMA QuietIInv ==
  ASSUME IInv, UNCHANGED <<flows, links, evidence>>, TypeOK'
  PROVE  IInv'
<1>1. LinkStatusTrue' /\ \A l \in Links : LegsOf(l)' = LegsOf(l)
  BY QuietLinks DEF IInv
<1>2. EvidenceExplainsALeg'
  BY <1>1 DEF IInv, TypeOK, EvidenceExplainsALeg
<1>3. QED
  BY <1>1, <1>2 DEF IInv

\* Evidence is created for a link that has a leg.
LEMMA EvidenceIInv ==
  ASSUME IInv, NEW e \in Evidence,
         (\E l \in Links : CreateEvidence(e, l)) \/ DeleteEvidence(e)
  PROVE  IInv'
<1>1. UNCHANGED <<months, flows, links, coverage, pending>>
  BY DEF CreateEvidence, DeleteEvidence
<1>2. LinkStatusTrue' /\ \A l \in Links : LegsOf(l)' = LegsOf(l)
  BY <1>1, QuietLinks DEF IInv
<1>3. CASE \E l \in Links : CreateEvidence(e, l)
  <2> PICK l \in Links : CreateEvidence(e, l)
    BY <1>3
  <2>1. links[l] # None /\ LegsOf(l) # {} /\ evidence' = [evidence EXCEPT ![e] = l]
    BY DEF CreateEvidence
  <2>2. TypeOK'
    BY <1>1, <2>1 DEF IInv, TypeOK
  <2>3. EvidenceExplainsALeg'
    BY <1>1, <1>2, <2>1 DEF IInv, TypeOK, EvidenceExplainsALeg
  <2>4. QED
    BY <1>2, <2>2, <2>3 DEF IInv
<1>4. CASE DeleteEvidence(e)
  <2>1. evidence' = [evidence EXCEPT ![e] = None]
    BY <1>4 DEF DeleteEvidence
  <2>2. TypeOK'
    BY <1>1, <2>1 DEF IInv, TypeOK
  <2>3. EvidenceExplainsALeg'
    BY <1>1, <1>2, <2>1 DEF IInv, TypeOK, EvidenceExplainsALeg
  <2>4. QED
    BY <1>2, <2>2, <2>3 DEF IInv
<1>5. QED
  BY <1>3, <1>4

-----------------------------------------------------------------------------
(* Updates and deletions of flows. *)

\* What a session read names a flow, and the flow is still there.
LEMMA AsReadRow ==
  ASSUME TypeOK, NEW s \in Sessions, AsRead(s)
  PROVE  pending[s].flow \in Flows /\ flows[pending[s].flow] \in FlowRow
<1>1. pending[s] \in FlowRead
  BY DEF TypeOK, AsRead
<1>2. pending[s].flow \in Flows /\ flows[pending[s].flow] # None
  BY <1>1 DEF AsRead, FlowRead
<1>3. QED
  BY <1>2, StoredRow

\* An update makes a row, whatever it names and leaves alone.
LEMMA ChangedRow ==
  ASSUME NEW row \in FlowRow, NEW c \in Changes
  PROVE  /\ NewLink(row, c) \in Links \cup {None}
         /\ Changed(row, c) \in FlowRow
         /\ Changed(row, c).link = NewLink(row, c)
         /\ ~Reshapes(row, c) => /\ Changed(row, c).link = row.link
                                 /\ Changed(row, c).account = row.account
                                 /\ Changed(row, c).direction = row.direction
<1>1. NewLink(row, c) \in Links \cup {None}
  BY DEF NewLink, FlowRow, Changes
<1>2. Given(c.account, row.account) \in Accounts
  BY DEF Given, FlowRow, Changes
<1>3. Given(c.direction, Given(c.kind, row.direction)) \in Directions
  BY DEF Given, FlowRow, Changes
<1>4. c.date \in Dates /\ c.amount \in Amounts
  BY DEF Changes
<1>5. /\ Changed(row, c).link = NewLink(row, c)
      /\ Changed(row, c).account = Given(c.account, row.account)
      /\ Changed(row, c).direction = Given(c.direction, Given(c.kind, row.direction))
  BY DEF Changed, FlowRow
<1>6. Changed(row, c) \in FlowRow
  BY <1>1, <1>2, <1>3, <1>4 DEF Changed, FlowRow
<1>7. ~Reshapes(row, c) => /\ NewLink(row, c) = row.link
                           /\ Given(c.account, row.account) = row.account
                           /\ Given(c.direction, Given(c.kind, row.direction)) = row.direction
  BY DEF Reshapes, Repins, Given
<1>8. QED
  BY <1>1, <1>5, <1>6, <1>7

\* An update leaves alone the links it neither leaves nor joins, and every link when it
\* names neither a link, an account, a direction nor a kind.
LEMMA UpdateFlowKeeps ==
  ASSUME TypeOK, NEW s \in Sessions, NEW c \in Changes, UpdateFlow(s, c), NEW l \in Links,
         Reshapes(flows[pending[s].flow], c) =>
           /\ l # flows[pending[s].flow].link
           /\ l # NewLink(flows[pending[s].flow], c)
  PROVE  Kept(l)
<1> DEFINE f == pending[s].flow
           row == flows[f]
           next == Changed(row, c)
<1>1. f \in Flows /\ row \in FlowRow
  BY AsReadRow DEF UpdateFlow
<1>2. /\ next \in FlowRow /\ next.link = NewLink(row, c)
      /\ ~Reshapes(row, c) => /\ next.link = row.link
                              /\ next.account = row.account
                              /\ next.direction = row.direction
  BY <1>1, ChangedRow
<1>3. flows' = [flows EXCEPT ![f] = next]
  BY DEF UpdateFlow
<1> HIDE DEF f, next
<1>4. flows'[f] = next /\ \A g \in Flows \ {f} : flows'[g] = flows[g]
  BY <1>1, <1>3 DEF TypeOK
<1>5. row # None /\ next # None
  BY <1>1, <1>2, RowsAssumption
<1>6. CASE Reshapes(row, c)
  BY <1>2, <1>4, <1>6, KeptByRows DEF f
<1>7. CASE ~Reshapes(row, c)
  BY <1>2, <1>4, <1>5, <1>7, KeptByRows
<1>8. QED
  BY <1>6, <1>7

\* An update touches the links it leaves and joins, and takes no leg from evidence.
LEMMA UpdateFlowIInv ==
  ASSUME IInv, NEW s \in Sessions, NEW c \in Changes, UpdateFlow(s, c)
  PROVE  IInv'
<1> DEFINE f == pending[s].flow
           row == flows[f]
           old == row.link
           new == NewLink(row, c)
           next == Changed(row, c)
           touched == (IF Reshapes(row, c) THEN {old, new} ELSE {}) \ {None}
           crossings == IF next = row THEN {} ELSE Moved(row, next)
<1>1. /\ AsRead(s)
      /\ old # None /\ Repins(row, c) => Unexplained(old)
      /\ flows' = [flows EXCEPT ![f] = next]
      /\ Refreshed(touched) /\ Invalidated(crossings)
      /\ pending' = [pending EXCEPT ![s] = None]
      /\ UNCHANGED <<months, evidence>>
  BY DEF UpdateFlow, Reshapes, Done
<1>2. f \in Flows /\ row \in FlowRow
  BY <1>1, AsReadRow DEF IInv
<1>3. /\ new \in Links \cup {None} /\ next \in FlowRow /\ next.link = new
      /\ ~Reshapes(row, c) => /\ next.link = row.link
                              /\ next.account = row.account
                              /\ next.direction = row.direction
  BY <1>2, ChangedRow
<1>4. old \in Links \cup {None}
  BY <1>2 DEF FlowRow
<1> HIDE DEF f, row, old, new, next
<1>5. touched \in SUBSET Links
  BY <1>3, <1>4
<1>6. flows \in [Flows -> FlowRow \cup {None}]
  BY DEF IInv, TypeOK
<1>7. row = flows[f] /\ old = row.link /\ row # None /\ next # None
  BY <1>2, <1>3, RowsAssumption DEF row, old
<1>8. TypeOK'
  BY <1>1, <1>2, <1>3, <1>5, <1>6, RefreshedType, InvalidatedType DEF IInv, TypeOK
<1>9. \A l \in Links \ touched : Kept(l)
  BY UpdateFlowKeeps, TransferAssumption DEF IInv, f, row, old, new
<1>10. LinkStatusTrue'
  BY <1>1, <1>5, <1>9, RefreshedTrue DEF IInv
<1>11. ASSUME NEW l \in Links, ~Unexplained(l) PROVE LegsOf(l) \subseteq LegsOf(l)'
  <2>1. SUFFICES ASSUME NEW g \in LegsOf(l) PROVE g \in LegsOf(l)'
    OBVIOUS
  <2>2. g \in Flows /\ flows[g] # None /\ flows[g].link = l
    BY <2>1 DEF LegsOf, Stored
  <2>3. CASE g = f
    <3>1. old = l /\ old # None
      BY <2>2, <2>3, <1>7, TransferAssumption
    <3>2. new = old
      BY <1>1, <1>11, <3>1 DEF Repins, row, new, old
    <3>3. flows'[g] = next /\ next # None /\ next.link = l
      BY <1>1, <1>2, <1>3, <1>6, <1>7, <2>3, <3>1, <3>2
    <3>4. QED
      BY <2>2, <3>3 DEF LegsOf, Stored
  <2>4. CASE g # f
    BY <1>1, <1>6, <2>2, <2>4 DEF LegsOf, Stored
  <2>5. QED
    BY <2>3, <2>4
<1>12. EvidenceExplainsALeg'
  BY <1>1, <1>5, <1>11, EvidenceStands DEF IInv
<1>13. QED
  BY <1>8, <1>10, <1>12 DEF IInv

\* A deletion leaves alone every link but the one the flow was a leg of.
LEMMA DeleteFlowKeeps ==
  ASSUME TypeOK, NEW s \in Sessions, DeleteFlow(s), NEW l \in Links,
         l # flows[pending[s].flow].link
  PROVE  Kept(l)
<1> DEFINE f == pending[s].flow
<1>1. f \in Flows /\ flows' = [flows EXCEPT ![f] = None]
  BY AsReadRow DEF DeleteFlow
<1>2. QED
  BY <1>1, KeptByRows DEF TypeOK

\* The link a deleted flow was a leg of has no evidence.
LEMMA DeleteFlowIInv ==
  ASSUME IInv, NEW s \in Sessions, DeleteFlow(s)
  PROVE  IInv'
<1> DEFINE f == pending[s].flow
           row == flows[f]
           touched == {row.link} \ {None}
<1>1. /\ AsRead(s)
      /\ row.link # None => Unexplained(row.link)
      /\ flows' = [flows EXCEPT ![f] = None]
      /\ Refreshed(touched) /\ Invalidated({Crosses(row)})
      /\ pending' = [pending EXCEPT ![s] = None]
      /\ UNCHANGED <<months, evidence>>
  BY DEF DeleteFlow, Done
<1>2. f \in Flows /\ row \in FlowRow
  BY <1>1, AsReadRow DEF IInv
<1> HIDE DEF f
<1>3. touched \in SUBSET Links
  BY <1>2 DEF FlowRow
<1>4. flows \in [Flows -> FlowRow \cup {None}]
  BY DEF IInv, TypeOK
<1>5. TypeOK'
  BY <1>1, <1>3, <1>4, RefreshedType, InvalidatedType DEF IInv, TypeOK
<1>6. \A l \in Links \ touched : Kept(l)
  BY DeleteFlowKeeps, TransferAssumption DEF IInv, f
<1>7. LinkStatusTrue'
  BY <1>1, <1>3, <1>6, RefreshedTrue DEF IInv
<1>8. ASSUME NEW l \in Links, ~Unexplained(l) PROVE LegsOf(l) \subseteq LegsOf(l)'
  <2>1. l \notin touched
    BY <1>1, <1>8
  <2>2. QED
    BY <2>1, <1>6 DEF Kept
<1>9. EvidenceExplainsALeg'
  BY <1>1, <1>3, <1>8, EvidenceStands DEF IInv
<1>10. QED
  BY <1>5, <1>7, <1>9 DEF IInv

-----------------------------------------------------------------------------
(* Attestations and months. *)

\* An attestation is a row.
LEMMA CoverageIInv ==
  ASSUME IInv, CoverageStep
  PROVE  IInv'
<1>1. PICK c \in Coverages, row \in CoverageRow : StoreCoverage(c, row)
  BY DEF CoverageStep, CreateCoverage, UpdateCoverage, Attest, CoverageRow
<1>2. TypeOK' /\ UNCHANGED <<flows, links, evidence>>
  BY <1>1 DEF IInv, TypeOK, StoreCoverage
<1>3. QED
  BY <1>2, QuietIInv

\* The bulk deletion of a month refreshes every link and takes no leg from evidence.
LEMMA DeleteMonthIInv ==
  ASSUME IInv, NEW m \in Months, DeleteMonth(m)
  PROVE  IInv'
<1> DEFINE touched == {l \in Links : links[l] # None}
           crossings == {Crosses(flows[f]) : f \in FlowsOf(m)}
<1>1. /\ \A f \in FlowsOf(m) : flows[f].link # None => Unexplained(flows[f].link)
      /\ Invalidated(crossings)
      /\ flows' = [f \in Flows |-> IF f \in FlowsOf(m) THEN None ELSE flows[f]]
      /\ Refreshed(touched)
      /\ months' = [months EXCEPT ![m] = None]
      /\ UNCHANGED <<evidence, pending>>
  BY DEF DeleteMonth
<1> HIDE DEF crossings
<1>2. touched \in SUBSET Links
  OBVIOUS
<1>3. TypeOK'
  BY <1>1, <1>2, RefreshedType, InvalidatedType DEF IInv, TypeOK
<1>4. ASSUME NEW l \in Links \ touched PROVE Kept(l)
  <2>1. LegsOf(l) = {}
    BY <1>4 DEF IInv, LinkStatusTrue
  <2>2. LegsOf(l)' = {}
    BY <1>1, <2>1 DEF LegsOf, Stored
  <2>3. QED
    BY <2>1, <2>2 DEF Kept
<1>5. LinkStatusTrue'
  BY <1>1, <1>2, <1>4, RefreshedTrue DEF IInv
<1>6. ASSUME NEW l \in Links, ~Unexplained(l) PROVE LegsOf(l) \subseteq LegsOf(l)'
  <2>1. \A f \in LegsOf(l) : f \notin FlowsOf(m)
    BY <1>1, <1>6, TransferAssumption DEF LegsOf
  <2>2. QED
    BY <1>1, <2>1 DEF LegsOf, Stored
<1>7. EvidenceExplainsALeg'
  BY <1>1, <1>2, <1>6, EvidenceStands DEF IInv
<1>8. QED
  BY <1>3, <1>5, <1>7 DEF IInv

\* The steps of the months keep the invariant.
LEMMA MonthIInv ==
  ASSUME IInv, MonthStep
  PROVE  IInv'
<1>1. PICK m \in Months :
        CreateMonth(m) \/ CloseMonth(m) \/ ReopenMonth(m) \/ DeleteMonth(m)
  BY DEF MonthStep
<1>2. CASE DeleteMonth(m)
  BY <1>2, DeleteMonthIInv
<1>3. CASE CreateMonth(m) \/ CloseMonth(m) \/ ReopenMonth(m)
  <2>1. TypeOK' /\ UNCHANGED <<flows, links, evidence>>
    BY <1>3 DEF IInv, TypeOK, CreateMonth, CloseMonth, ReopenMonth, SetStatus
  <2>2. QED
    BY <2>1, QuietIInv
<1>4. QED
  BY <1>1, <1>2, <1>3

-----------------------------------------------------------------------------
(* The specification. *)

\* The invariant holds of the empty tables.
LEMMA InitIInv == Init => IInv
<1> SUFFICES ASSUME Init PROVE IInv
  OBVIOUS
<1>1. TypeOK
  BY DEF Init, TypeOK
<1>2. \A l : LegsOf(l) = {}
  BY DEF Init, LegsOf, Stored
<1>3. LinkStatusTrue /\ EvidenceExplainsALeg
  BY <1>2 DEF Init, LinkStatusTrue, EvidenceExplainsALeg
<1>4. QED
  BY <1>1, <1>3 DEF IInv

\* The steps of a session keep the invariant.
LEMMA FlowIInv ==
  ASSUME IInv, NEW s \in Sessions, FlowStep(s)
  PROVE  IInv'
<1>1. ASSUME NEW f \in Flows, ReadFlow(s, f) PROVE IInv'
  <2>1. flows[f] \in FlowRow
    BY <1>1, StoredRow DEF IInv, ReadFlow
  <2>2. flows[f].link \in Links \cup {None}
    BY <2>1 DEF FlowRow
  <2>3. (IF flows[f].link = None THEN None ELSE links[flows[f].link]) \in LinkRow \cup {None}
    BY <2>2 DEF IInv, TypeOK
  <2>4. [flow |-> f, link |-> flows[f].link,
         row |-> IF flows[f].link = None THEN None ELSE links[flows[f].link]] \in FlowRead
    BY <2>2, <2>3 DEF FlowRead
  <2>5. TypeOK' /\ UNCHANGED <<flows, links, evidence>>
    BY <1>1, <2>4 DEF ReadFlow, IInv, TypeOK
  <2>6. QED
    BY <2>5, QuietIInv
<1>2. CASE Abort(s)
  <2>1. TypeOK' /\ UNCHANGED <<flows, links, evidence>>
    BY <1>2 DEF Abort, Done, IInv, TypeOK
  <2>2. QED
    BY <2>1, QuietIInv
<1>3. QED
  BY <1>1, <1>2, UpdateFlowIInv, DeleteFlowIInv DEF FlowStep

\* The invariant is inductive.
LEMMA NextIInv == IInv /\ [Next]_vars => IInv'
<1> SUFFICES ASSUME IInv, [Next]_vars PROVE IInv'
  OBVIOUS
<1>1. CASE UNCHANGED vars
  <2>1. TypeOK' /\ UNCHANGED <<flows, links, evidence>>
    BY <1>1 DEF vars, IInv, TypeOK
  <2>2. QED
    BY <2>1, QuietIInv
<1>2. CASE \E s \in Sessions : FlowStep(s)
  BY <1>2, FlowIInv
<1>3. CASE LinkStep
  BY <1>3, CreateFlowIInv, CreateLinkIInv, DeleteLinkIInv, EvidenceIInv DEF LinkStep
<1>4. CASE CoverageStep
  BY <1>4, CoverageIInv
<1>5. CASE MonthStep
  BY <1>5, MonthIInv
<1>6. QED
  BY <1>1, <1>2, <1>3, <1>4, <1>5 DEF Next

\* The invariant holds in every reachable state.
THEOREM IInvHolds == Spec => []IInv
  BY InitIInv, NextIInv, PTL DEF Spec

\* The tables and the pending calls keep their shape (persistence.py:1882).
THEOREM TypeCorrect == Spec => []TypeOK
<1>1. IInv => TypeOK
  BY DEF IInv
<1>2. QED
  BY IInvHolds, <1>1, PTL

\* For any number of sessions, flows and links, the stored status of a link is what its
\* legs say (external_flows.py:280).
THEOREM StatusesTrue == Spec => []LinkStatusTrue
<1>1. IInv => LinkStatusTrue
  BY DEF IInv
<1>2. QED
  BY IInvHolds, <1>1, PTL

\* For any number of evidence rows, none explains a link without legs
\* (transfer_reconciliation.py:137).
THEOREM EvidenceExplains == Spec => []EvidenceExplainsALeg
<1>1. IInv => EvidenceExplainsALeg
  BY DEF IInv
<1>2. QED
  BY IInvHolds, <1>1, PTL

-----------------------------------------------------------------------------
(* Reconciled transfers. *)

\* A complete transfer has two legs, of opposite directions.
LEMMA OtherLeg ==
  ASSUME NEW l \in Links, Complete(l), NEW f \in LegsOf(l)
  PROVE  \E g \in LegsOf(l) \ {f} : flows[f].direction # flows[g].direction
BY DEF Complete, Opposite

\* An update leaves a complete transfer with evidence alone: what could change a leg is
\* refused, and a kind on its own can only repeat the direction, because the other leg
\* has the opposite one.
LEMMA UpdateKeepsReconciled ==
  ASSUME TypeOK, NEW s \in Sessions, NEW c \in Changes, UpdateFlow(s, c), NEW l \in Links,
         Complete(l), ~Unexplained(l)
  PROVE  Kept(l)
<1> DEFINE f == pending[s].flow
           row == flows[f]
           old == row.link
           new == NewLink(row, c)
           next == Changed(row, c)
<1>1. f \in Flows /\ row \in FlowRow /\ row # None
  BY AsReadRow, RowsAssumption DEF UpdateFlow
<1>2. /\ next \in FlowRow /\ next.link = new
      /\ next.account = Given(c.account, row.account)
  BY <1>1, ChangedRow DEF Changed, FlowRow
<1>3. /\ old # None /\ Repins(row, c) => Unexplained(old)
      /\ old # None /\ Reshapes(row, c) /\ new = old =>
           MayJoin(old, next.account, next.direction, LegsOf(old) \ {f})
      /\ new \notin {None, old} => Unexplained(new)
      /\ flows' = [flows EXCEPT ![f] = next]
  BY DEF UpdateFlow, Reshapes
<1>4. l # None
  BY TransferAssumption
<1>5. CASE ~Reshapes(row, c)
  BY <1>5, UpdateFlowKeeps
<1>6. CASE Reshapes(row, c) /\ l # old
  <2>1. l # new
    BY <1>3, <1>4, <1>6
  <2>2. QED
    BY <1>6, <2>1, UpdateFlowKeeps
<1>7. CASE Reshapes(row, c) /\ l = old
  <2>1. ~Repins(row, c)
    BY <1>3, <1>4, <1>7
  <2>2. new = old /\ next.account = row.account
    BY <1>2, <2>1 DEF Repins, Given
  <2>3. MayJoin(l, next.account, next.direction, LegsOf(l) \ {f})
    BY <1>3, <1>4, <1>7, <2>2
  <2>4. f \in LegsOf(l)
    BY <1>1, <1>7 DEF LegsOf, Stored
  <2>5. PICK g \in LegsOf(l) \ {f} : row.direction # flows[g].direction
    BY <2>4, OtherLeg
  <2>6. next.direction # flows[g].direction
    BY <2>3, <2>5 DEF MayJoin
  <2>7. /\ row.direction \in Directions /\ next.direction \in Directions
        /\ flows[g].direction \in Directions
    <3>1. flows[g] \in FlowRow
      BY <2>5, StoredRow DEF LegsOf, Stored
    <3>2. QED
      BY <1>1, <1>2, <3>1 DEF FlowRow
  <2>8. next.direction = row.direction
    BY <2>5, <2>6, <2>7 DEF Directions
  <2> HIDE DEF f, next, new
  <2>9. flows'[f] = next /\ \A h \in Flows \ {f} : flows'[h] = flows[h]
    BY <1>1, <1>3 DEF TypeOK
  <2>10. next # None
    BY <1>2, RowsAssumption
  <2>11. QED
    BY <1>1, <1>2, <2>2, <2>8, <2>9, <2>10, KeptByRows
<1>8. QED
  BY <1>5, <1>6, <1>7

\* No step changes the legs of a complete transfer with evidence.
LEMMA StepKeepsReconciled ==
  ASSUME IInv, Next, NEW l \in Links, Complete(l), ~Unexplained(l)
  PROVE  Kept(l)
<1>1. links[l] # None
  BY LegsOfLinks DEF IInv, Complete
<1>2. l # None
  BY TransferAssumption
<1>3. CASE UNCHANGED flows
  BY <1>3, KeptByRows
<1>4. ASSUME NEW s \in Sessions, FlowStep(s) PROVE Kept(l)
  <2>1. CASE \E c \in Changes : UpdateFlow(s, c)
    BY <2>1, UpdateKeepsReconciled DEF IInv
  <2>2. CASE DeleteFlow(s)
    <3>1. l # flows[pending[s].flow].link
      BY <2>2, <1>2 DEF DeleteFlow
    <3>2. QED
      BY <2>2, <3>1, DeleteFlowKeeps DEF IInv
  <2>3. QED
    BY <1>3, <1>4, <2>1, <2>2 DEF FlowStep, ReadFlow, Abort
<1>5. CASE LinkStep
  <2>1. ASSUME NEW f \in Flows, NEW row \in FlowRow, CreateFlow(f, row) PROVE Kept(l)
    <3>1. l # row.link
      BY <2>1, <1>2 DEF CreateFlow
    <3>2. QED
      BY <2>1, <3>1, CreateFlowKeeps DEF IInv
  <2>2. ASSUME NEW k \in Links, NEW legs \in SUBSET Flows, CreateLink(k, legs) PROVE Kept(l)
    <3>1. l # k
      BY <2>2, <1>1 DEF CreateLink
    <3>2. QED
      BY <2>2, <3>1, CreateLinkKeeps DEF IInv
  <2>3. QED
    BY <1>3, <1>5, <2>1, <2>2 DEF LinkStep, DeleteLink, CreateEvidence, DeleteEvidence
<1>6. CASE CoverageStep
  BY <1>3, <1>6 DEF CoverageStep, CreateCoverage, UpdateCoverage, Attest, StoreCoverage
<1>7. ASSUME NEW m \in Months, DeleteMonth(m) PROVE Kept(l)
  <2>1. \A f \in FlowsOf(m) : flows[f].link # l
    BY <1>2, <1>7 DEF DeleteMonth
  <2>2. flows' = [f \in Flows |-> IF f \in FlowsOf(m) THEN None ELSE flows[f]]
    BY <1>7 DEF DeleteMonth
  <2>3. QED
    BY <2>1, <2>2, KeptByRows
<1>8. CASE MonthStep
  BY <1>3, <1>7, <1>8 DEF MonthStep, CreateMonth, CloseMonth, ReopenMonth, SetStatus
<1>9. QED
  BY <1>4, <1>5, <1>6, <1>8 DEF Next

\* For any number of overlapping sessions, the legs of a complete transfer do not change
\* while it has evidence (external_flows.py:229).
THEOREM ReconciledPinned == Spec => ReconciledTransfersPinned
<1>1. IInv /\ [Next]_vars =>
        [\A l \in Links : Complete(l) /\ ~Unexplained(l) => Identity(l)' = Identity(l)]_vars
  <2> SUFFICES ASSUME IInv, Next, NEW l \in Links, Complete(l), ~Unexplained(l)
               PROVE  Identity(l)' = Identity(l)
    OBVIOUS
  <2>1. Kept(l)
    BY StepKeepsReconciled
  <2>2. QED
    BY <2>1 DEF Kept, Identity
<1>2. QED
  BY IInvHolds, <1>1, PTL DEF Spec, ReconciledTransfersPinned

-----------------------------------------------------------------------------
(* Transfers of closed months. *)

\* A link with a leg in a closed month.
Closed(l) == \E f \in LegsOf(l) : months[flows[f].month] = "closed"

\* Such a link is not editable.
LEMMA ClosedNotEditable ==
  ASSUME NEW l \in Links, Closed(l)
  PROVE  ~LegsEditable(l) /\ LegsOf(l) # {}
BY DEF Closed, LegsEditable, Editable

\* A refresh of other links leaves a link's status alone.
LEMMA RefreshedOthers ==
  ASSUME NEW touched, Refreshed(touched), NEW l \in Links, l \notin touched
  PROVE  links'[l] = links[l]
BY DEF Refreshed

\* A step of a session leaves a closed link alone: whatever changes a leg, takes one or
\* adds one asks for the months of all legs.
LEMMA FlowKeepsClosed ==
  ASSUME TypeOK, NEW s \in Sessions, FlowStep(s), NEW l \in Links, Closed(l)
  PROVE  Kept(l) /\ links'[l] = links[l] /\ UNCHANGED evidence
<1>1. ~LegsEditable(l) /\ l # None
  BY ClosedNotEditable, TransferAssumption
<1>2. ASSUME UNCHANGED <<flows, links, evidence>>
      PROVE  Kept(l) /\ links'[l] = links[l] /\ UNCHANGED evidence
  BY <1>2, KeptByRows
<1>3. ASSUME NEW c \in Changes, UpdateFlow(s, c)
      PROVE  Kept(l) /\ links'[l] = links[l] /\ UNCHANGED evidence
  <2> DEFINE row == flows[pending[s].flow]
             old == row.link
             new == NewLink(row, c)
             touched == (IF Reshapes(row, c) THEN {old, new} ELSE {}) \ {None}
  <2>1. /\ old # None /\ Reshapes(row, c) => LegsEditable(old)
        /\ new \notin {None, old} => LegsEditable(new)
        /\ Refreshed(touched) /\ UNCHANGED evidence
    BY <1>3 DEF UpdateFlow
  <2>2. Reshapes(row, c) => l # old /\ l # new
    <3>1. Reshapes(row, c) => l # old
      BY <1>1, <2>1
    <3>2. QED
      BY <1>1, <2>1, <3>1
  <2>3. Kept(l)
    BY <1>3, <2>2, UpdateFlowKeeps
  <2>4. l \notin touched
    BY <2>2
  <2>5. QED
    BY <2>1, <2>3, <2>4, RefreshedOthers
<1>4. ASSUME DeleteFlow(s)
      PROVE  Kept(l) /\ links'[l] = links[l] /\ UNCHANGED evidence
  <2> DEFINE k == flows[pending[s].flow].link
  <2>1. /\ k # None => LegsEditable(k)
        /\ Refreshed({k} \ {None}) /\ UNCHANGED evidence
    BY <1>4 DEF DeleteFlow
  <2>2. l # k
    BY <1>1, <2>1
  <2>3. QED
    BY <1>4, <2>1, <2>2, DeleteFlowKeeps, RefreshedOthers
<1>5. QED
  BY <1>2, <1>3, <1>4 DEF FlowStep, ReadFlow, Abort

\* A step of a flow, a link or evidence leaves a closed link and what explains it alone.
LEMMA LinkKeepsClosed ==
  ASSUME IInv, LinkStep, NEW l \in Links, Closed(l)
  PROVE  Kept(l) /\ links'[l] = links[l] /\ ExplanationsOf(l)' = ExplanationsOf(l)
<1>1. ~LegsEditable(l) /\ LegsOf(l) # {} /\ l # None /\ links[l] # None
  BY ClosedNotEditable, LegsOfLinks, TransferAssumption DEF IInv
<1>2. ASSUME NEW f \in Flows, NEW row \in FlowRow, CreateFlow(f, row)
      PROVE  Kept(l) /\ links'[l] = links[l] /\ UNCHANGED evidence
  <2>1. /\ row.link # None => LegsEditable(row.link)
        /\ Refreshed({row.link} \ {None}) /\ UNCHANGED evidence
    BY <1>2 DEF CreateFlow
  <2>2. l # row.link
    BY <1>1, <2>1
  <2>3. QED
    BY <1>2, <2>1, <2>2, CreateFlowKeeps, RefreshedOthers DEF IInv
<1>3. ASSUME NEW k \in Links, NEW legs \in SUBSET Flows, CreateLink(k, legs)
      PROVE  Kept(l) /\ links'[l] = links[l] /\ UNCHANGED evidence
  <2>1. links[k] = None /\ Refreshed({k}) /\ UNCHANGED evidence
    BY <1>3 DEF CreateLink
  <2>2. l # k
    BY <1>1, <2>1
  <2>3. QED
    BY <1>3, <2>1, <2>2, CreateLinkKeeps, RefreshedOthers DEF IInv
<1>4. ASSUME NEW k \in Links, DeleteLink(k)
      PROVE  Kept(l) /\ links'[l] = links[l] /\ UNCHANGED evidence
  <2>1. LegsOf(k) = {} /\ links' = [links EXCEPT ![k] = None] /\ UNCHANGED <<flows, evidence>>
    BY <1>4 DEF DeleteLink
  <2>2. l # k
    BY <1>1, <2>1
  <2>3. QED
    BY <2>1, <2>2, KeptByRows DEF IInv, TypeOK
<1>5. ASSUME NEW e \in Evidence, (\E k \in Links : CreateEvidence(e, k)) \/ DeleteEvidence(e)
      PROVE  Kept(l) /\ links'[l] = links[l] /\ ExplanationsOf(l)' = ExplanationsOf(l)
  <2>1. UNCHANGED <<flows, links>>
    BY <1>5 DEF CreateEvidence, DeleteEvidence
  <2>2. evidence[e] # l /\ evidence'[e] # l /\ \A d \in Evidence \ {e} : evidence'[d] = evidence[d]
    <3>1. CASE \E k \in Links : CreateEvidence(e, k)
      BY <1>1, <3>1 DEF CreateEvidence, IInv, TypeOK
    <3>2. CASE DeleteEvidence(e)
      BY <1>1, <3>2 DEF DeleteEvidence, IInv, TypeOK
    <3>3. QED
      BY <1>5, <3>1, <3>2
  <2>3. QED
    BY <2>1, <2>2, KeptByRows DEF ExplanationsOf
<1>6. QED
  BY <1>2, <1>3, <1>4, <1>5 DEF LinkStep, ExplanationsOf

\* No step that keeps the months changes a closed link.
LEMMA StepKeepsClosed ==
  ASSUME IInv, Next, NEW l \in Links, Closed(l),
         \A m \in Months : months[m] # None => months'[m] # None
  PROVE  Kept(l) /\ links'[l] = links[l] /\ ExplanationsOf(l)' = ExplanationsOf(l)
<1>1. ASSUME UNCHANGED <<flows, links, evidence>>
      PROVE  Kept(l) /\ links'[l] = links[l] /\ ExplanationsOf(l)' = ExplanationsOf(l)
  BY <1>1, KeptByRows DEF ExplanationsOf
<1>2. CASE \E s \in Sessions : FlowStep(s)
  BY <1>2, FlowKeepsClosed DEF IInv, ExplanationsOf
<1>3. CASE CoverageStep
  BY <1>1, <1>3 DEF CoverageStep, CreateCoverage, UpdateCoverage, Attest, StoreCoverage
<1>4. ASSUME NEW m \in Months, DeleteMonth(m) PROVE FALSE
  <2>1. months[m] = "draft" /\ months' = [months EXCEPT ![m] = None]
    BY <1>4 DEF DeleteMonth, Editable
  <2>2. QED
    BY <2>1, RowsAssumption DEF IInv, TypeOK
<1>5. CASE MonthStep
  BY <1>1, <1>4, <1>5 DEF MonthStep, CreateMonth, CloseMonth, ReopenMonth, SetStatus
<1>6. QED
  BY <1>2, <1>3, <1>5, LinkKeepsClosed DEF Next

\* A step changes only flows of months that are open.
LEMMA StepKeepsClosedFlows ==
  ASSUME IInv, Next, NEW f \in Stored, months[flows[f].month] = "closed"
  PROVE  flows'[f] = flows[f]
<1>1. f \in Flows /\ flows[f] # None /\ ~Editable(flows[f].month)
  BY DEF Stored, Editable
<1>2. ASSUME NEW s \in Sessions, FlowStep(s) PROVE flows'[f] = flows[f]
  <2>1. ASSUME AsRead(s),
               \E new : flows' = [flows EXCEPT ![pending[s].flow] = new]
        PROVE  flows'[f] = flows[f]
    <3>1. f # pending[s].flow
      BY <1>1, <2>1 DEF AsRead
    <3>2. QED
      BY <1>1, <2>1, <3>1 DEF IInv, TypeOK
  <2>2. CASE \E c \in Changes : UpdateFlow(s, c)
    <3>1. AsRead(s) /\ \E new : flows' = [flows EXCEPT ![pending[s].flow] = new]
      BY <2>2 DEF UpdateFlow
    <3>2. QED
      BY <2>1, <3>1
  <2>3. CASE DeleteFlow(s)
    <3>1. AsRead(s) /\ flows' = [flows EXCEPT ![pending[s].flow] = None]
      BY <2>3 DEF DeleteFlow
    <3>2. QED
      BY <2>1, <3>1
  <2>4. QED
    BY <1>2, <2>2, <2>3 DEF FlowStep, ReadFlow, Abort
<1>3. CASE LinkStep
  <2>1. ASSUME NEW g \in Flows, NEW row \in FlowRow, CreateFlow(g, row)
        PROVE  flows'[f] = flows[f]
    BY <1>1, <2>1 DEF CreateFlow, IInv, TypeOK
  <2>2. ASSUME NEW l \in Links, NEW legs \in SUBSET Flows, CreateLink(l, legs)
        PROVE  flows'[f] = flows[f]
    BY <1>1, <2>2 DEF CreateLink
  <2>3. QED
    BY <1>3, <2>1, <2>2 DEF LinkStep, DeleteLink, CreateEvidence, DeleteEvidence
<1>4. CASE CoverageStep
  BY <1>4 DEF CoverageStep, CreateCoverage, UpdateCoverage, Attest, StoreCoverage
<1>5. ASSUME NEW m \in Months, DeleteMonth(m) PROVE flows'[f] = flows[f]
  BY <1>1, <1>5 DEF DeleteMonth, FlowsOf
<1>6. CASE MonthStep
  BY <1>5, <1>6 DEF MonthStep, CreateMonth, CloseMonth, ReopenMonth, SetStatus
<1>7. QED
  BY <1>2, <1>3, <1>4, <1>6 DEF Next

\* For any number of months and links, no step changes a flow of a closed month, and none
\* that keeps the months changes the legs, the status or the evidence of a transfer with a
\* leg in a closed month (external_flows.py:306).
THEOREM ClosedFrozen == Spec => ClosedTransfersFrozen
<1> DEFINE FlowsKept ==
             \A f \in Stored : months[flows[f].month] = "closed" => flows'[f] = flows[f]
           LinksKept ==
             \A l \in Links :
               /\ \E f \in LegsOf(l) : months[flows[f].month] = "closed"
               /\ \A m \in Months : months[m] # None => months'[m] # None
               => /\ Identity(l)' = Identity(l)
                  /\ links'[l] = links[l]
                  /\ ExplanationsOf(l)' = ExplanationsOf(l)
<1>1. IInv /\ [Next]_vars => [FlowsKept /\ LinksKept]_vars
  <2> SUFFICES ASSUME IInv, Next PROVE FlowsKept /\ LinksKept
    OBVIOUS
  <2>1. FlowsKept
    BY StepKeepsClosedFlows
  <2>2. ASSUME NEW l \in Links, Closed(l),
               \A m \in Months : months[m] # None => months'[m] # None
        PROVE  /\ Identity(l)' = Identity(l)
               /\ links'[l] = links[l]
               /\ ExplanationsOf(l)' = ExplanationsOf(l)
    <3>1. Kept(l) /\ links'[l] = links[l] /\ ExplanationsOf(l)' = ExplanationsOf(l)
      BY <2>2, StepKeepsClosed
    <3>2. QED
      BY <3>1 DEF Kept, Identity
  <2>3. LinksKept
    BY <2>2 DEF Closed
  <2>4. QED
    BY <2>1, <2>3
<1>2. QED
  BY IInvHolds, <1>1, PTL DEF Spec, ClosedTransfersFrozen

-----------------------------------------------------------------------------
(* Attestations. *)

\* A flow that an attestation speaks of.
Under(c, f) ==
  /\ flows[f] # None
  /\ flows[f].account = coverage[c].account
  /\ flows[f].date \in coverage[c].interval

\* The history under an attestation is the same if every flow that changed kept its
\* place, its amount and its direction, or was outside before and is outside after.
LEMMA RepresentedByRows ==
  ASSUME NEW c \in Coverages, coverage'[c] = coverage[c],
         \A f \in Flows :
           \/ flows'[f] = flows[f]
           \/ /\ flows[f] # None /\ flows'[f] # None
              /\ flows'[f].account = flows[f].account /\ flows'[f].date = flows[f].date
              /\ flows'[f].amount = flows[f].amount
              /\ flows'[f].direction = flows[f].direction
           \/ ~Under(c, f) /\ ~Under(c, f)'
  PROVE  Represented(c)' = Represented(c)
<1> DEFINE speaks == {f \in Flows : Under(c, f)}
<1>1. /\ Represented(c) =
           {<<f, flows[f].date, flows[f].amount, flows[f].direction>> : f \in speaks}
      /\ Represented(c)' =
           {<<f, flows'[f].date, flows'[f].amount, flows'[f].direction>> : f \in speaks'}
  BY DEF Represented, Under, Stored
<1>2. speaks' = speaks
  BY DEF Under
<1>3. \A f \in speaks : /\ flows'[f].date = flows[f].date
                        /\ flows'[f].amount = flows[f].amount
                        /\ flows'[f].direction = flows[f].direction
  OBVIOUS
<1> HIDE DEF speaks
<1>4. QED
  BY <1>1, <1>2, <1>3

\* An attestation that stays complete through an invalidation is over none of the
\* crossings.
LEMMA InvalidatedApart ==
  ASSUME TypeOK, NEW crossings, Invalidated(crossings), NEW c \in Coverages,
         coverage[c] # None, coverage[c].state = "complete", coverage'[c] = coverage[c]
  PROVE  /\ \A f \in Flows : Crosses(flows[f]) \in crossings => ~Under(c, f)
         /\ \A f \in Flows : Crosses(flows'[f]) \in crossings => ~Under(c, f)'
<1>1. coverage[c] \in CoverageRow
  BY DEF TypeOK
<1>2. ~ \E x \in crossings : x[1] = coverage[c].account /\ x[2] \in coverage[c].interval
  <2> SUFFICES ASSUME \E x \in crossings :
                        x[1] = coverage[c].account /\ x[2] \in coverage[c].interval
               PROVE  FALSE
    OBVIOUS
  <2>1. coverage'[c] = [coverage[c] EXCEPT !.state = "unknown"]
    BY DEF Invalidated
  <2>2. coverage'[c].state = "unknown"
    BY <1>1, <2>1 DEF CoverageRow
  <2>3. QED
    BY <2>2
<1>3. \A row : Crosses(row)[1] = row.account /\ Crosses(row)[2] = row.date
  BY DEF Crosses
<1>4. QED
  BY <1>2, <1>3 DEF Under

\* A write that invalidates what it crosses keeps the attestations that stay complete
\* current.
LEMMA InvalidatedCurrent ==
  ASSUME TypeOK, NEW crossings, Invalidated(crossings), NEW c \in Coverages,
         coverage[c] # None, coverage[c].state = "complete", coverage'[c] = coverage[c],
         \A f \in Flows :
           \/ flows'[f] = flows[f]
           \/ /\ flows[f] = None \/ Crosses(flows[f]) \in crossings
              /\ flows'[f] = None \/ Crosses(flows'[f]) \in crossings
  PROVE  Represented(c)' = Represented(c)
<1>1. \A f \in Flows : flows[f] = None => ~Under(c, f)
  BY DEF Under
<1>2. \A f \in Flows : flows'[f] = None => ~Under(c, f)'
  BY DEF Under
<1>3. QED
  BY <1>1, <1>2, InvalidatedApart, RepresentedByRows

\* The steps of a session keep the attestations current.
LEMMA FlowKeepsCurrent ==
  ASSUME TypeOK, NEW s \in Sessions, FlowStep(s), NEW c \in Coverages,
         coverage[c] # None, coverage[c].state = "complete", coverage'[c] = coverage[c]
  PROVE  Represented(c)' = Represented(c)
<1>1. ASSUME NEW a \in Changes, UpdateFlow(s, a) PROVE Represented(c)' = Represented(c)
  <2> DEFINE f == pending[s].flow
             row == flows[f]
             next == Changed(row, a)
             crossings == IF next = row THEN {} ELSE Moved(row, next)
  <2>1. /\ Invalidated(crossings)
        /\ flows' = [flows EXCEPT ![f] = next]
    BY <1>1 DEF UpdateFlow
  <2>2. f \in Flows /\ row = flows[f]
    BY <1>1, AsReadRow DEF UpdateFlow
  <2> HIDE DEF f, next, row
  <2>3. flows'[f] = next /\ \A g \in Flows \ {f} : flows'[g] = flows[g]
    BY <2>1, <2>2 DEF TypeOK
  <2>4. \A g \in Flows :
          \/ flows'[g] = flows[g]
          \/ /\ flows[g] = None \/ Crosses(flows[g]) \in crossings
             /\ flows'[g] = None \/ Crosses(flows'[g]) \in crossings
    BY <2>2, <2>3 DEF Moved
  <2> HIDE DEF crossings
  <2>5. QED
    BY <2>1, <2>4, InvalidatedCurrent
<1>2. CASE DeleteFlow(s)
  <2> DEFINE f == pending[s].flow
  <2>1. /\ Invalidated({Crosses(flows[f])})
        /\ flows' = [flows EXCEPT ![f] = None]
    BY <1>2 DEF DeleteFlow
  <2>2. f \in Flows
    BY <1>2, AsReadRow DEF DeleteFlow
  <2> HIDE DEF f
  <2>3. flows'[f] = None /\ \A g \in Flows \ {f} : flows'[g] = flows[g]
    BY <2>1, <2>2 DEF TypeOK
  <2>4. QED
    BY <2>1, <2>3, InvalidatedCurrent
<1>3. QED
  BY <1>1, <1>2, RepresentedByRows DEF FlowStep, ReadFlow, Abort

\* Creating a flow invalidates its place; a new link changes no place, amount or
\* direction.
LEMMA LinkKeepsCurrent ==
  ASSUME TypeOK, LinkStep, NEW c \in Coverages,
         coverage[c] # None, coverage[c].state = "complete", coverage'[c] = coverage[c]
  PROVE  Represented(c)' = Represented(c)
<1>1. ASSUME NEW f \in Flows, NEW row \in FlowRow, CreateFlow(f, row)
      PROVE  Represented(c)' = Represented(c)
  <2>1. /\ flows[f] = None /\ Invalidated({Crosses(row)})
        /\ flows' = [flows EXCEPT ![f] = row]
    BY <1>1 DEF CreateFlow
  <2>2. flows'[f] = row /\ \A g \in Flows \ {f} : flows'[g] = flows[g]
    BY <2>1 DEF TypeOK
  <2>3. QED
    BY <2>1, <2>2, InvalidatedCurrent
<1>2. ASSUME NEW l \in Links, NEW legs \in SUBSET Flows, CreateLink(l, legs)
      PROVE  Represented(c)' = Represented(c)
  <2>1. flows' = [f \in Flows |-> IF f \in legs THEN [flows[f] EXCEPT !.link = l]
                                                ELSE flows[f]]
    BY <1>2 DEF CreateLink
  <2>2. \A f \in legs : flows[f] \in FlowRow /\ flows[f] # None
    BY <1>2, StoredRow DEF CreateLink, Stored
  <2>3. \A f \in legs : /\ flows'[f] \in FlowRow
                        /\ flows'[f].account = flows[f].account
                        /\ flows'[f].date = flows[f].date
                        /\ flows'[f].amount = flows[f].amount
                        /\ flows'[f].direction = flows[f].direction
    BY <2>1, <2>2 DEF FlowRow
  <2>4. \A f \in Flows \ legs : flows'[f] = flows[f]
    BY <2>1
  <2>5. QED
    BY <2>2, <2>3, <2>4, RowsAssumption, RepresentedByRows
<1>3. QED
  BY <1>1, <1>2, RepresentedByRows DEF LinkStep, DeleteLink, CreateEvidence, DeleteEvidence

\* No step changes the history under an attestation that stays complete.
LEMMA StepKeepsCurrent ==
  ASSUME TypeOK, Next, NEW c \in Coverages,
         coverage[c] # None, coverage[c].state = "complete", coverage'[c] = coverage[c]
  PROVE  Represented(c)' = Represented(c)
<1>1. ASSUME UNCHANGED flows PROVE Represented(c)' = Represented(c)
  BY <1>1, RepresentedByRows
<1>2. CASE CoverageStep
  BY <1>1, <1>2 DEF CoverageStep, CreateCoverage, UpdateCoverage, Attest, StoreCoverage
<1>3. ASSUME NEW m \in Months, DeleteMonth(m) PROVE Represented(c)' = Represented(c)
  <2> DEFINE crossings == {Crosses(flows[f]) : f \in FlowsOf(m)}
  <2>1. /\ Invalidated(crossings)
        /\ flows' = [f \in Flows |-> IF f \in FlowsOf(m) THEN None ELSE flows[f]]
    BY <1>3 DEF DeleteMonth
  <2>2. \A f \in Flows : \/ flows'[f] = flows[f]
                         \/ flows'[f] = None /\ Crosses(flows[f]) \in crossings
    BY <2>1
  <2> HIDE DEF crossings
  <2>3. QED
    BY <2>1, <2>2, InvalidatedCurrent
<1>4. CASE MonthStep
  BY <1>1, <1>3, <1>4 DEF MonthStep, CreateMonth, CloseMonth, ReopenMonth, SetStatus
<1>5. QED
  BY <1>2, <1>4, FlowKeepsCurrent, LinkKeepsCurrent DEF Next

\* For any number of flows and attestations, one that stays complete speaks of the same
\* cash history as before (cash_boundary_coverage.py:334).
THEOREM CoverageCurrent == Spec => CompleteCoverageCurrent
<1> DEFINE Current ==
             \A c \in Coverages :
               coverage[c] # None /\ coverage[c].state = "complete"
                 /\ coverage'[c] = coverage[c] =>
                   Represented(c)' = Represented(c)
<1>1. IInv /\ [Next]_vars => [Current]_vars
  BY StepKeepsCurrent DEF IInv
<1>2. QED
  BY IInvHolds, <1>1, PTL DEF Spec, CompleteCoverageCurrent

\* What a step may do to an attestation c.
CoverageRespected(c) ==
  coverage'[c] # coverage[c] =>
    /\ coverage[c] # None /\ ~IntervalEditable(coverage[c].interval) =>
         coverage'[c] = [coverage[c] EXCEPT !.state = "unknown"]
    /\ coverage'[c] # None /\ ~IntervalEditable(coverage'[c].interval) =>
         coverage[c] # None /\ coverage'[c].interval = coverage[c].interval

\* An invalidation only makes attestations unknown.
LEMMA InvalidatedRespects ==
  ASSUME TypeOK, NEW crossings, Invalidated(crossings), NEW c \in Coverages
  PROVE  CoverageRespected(c)
<1> SUFFICES ASSUME coverage'[c] # coverage[c] PROVE CoverageRespected(c)
  BY DEF CoverageRespected
<1>1. /\ coverage[c] # None
      /\ coverage'[c] = [coverage[c] EXCEPT !.state = "unknown"]
  BY DEF Invalidated
<1>2. coverage[c] \in CoverageRow
  BY <1>1 DEF TypeOK
<1>3. coverage'[c].interval = coverage[c].interval
  BY <1>1, <1>2 DEF CoverageRow
<1>4. QED
  BY <1>1, <1>3 DEF CoverageRespected

\* Storing an attestation asks for the months of the new interval, and of the old one
\* where there is one.
LEMMA StoredRespects ==
  ASSUME TypeOK, NEW d \in Coverages, NEW row \in CoverageRow, StoreCoverage(d, row),
         coverage[d] # None => IntervalEditable(coverage[d].interval),
         NEW c \in Coverages
  PROVE  CoverageRespected(c)
<1>1. IntervalEditable(row.interval) /\ coverage' = [coverage EXCEPT ![d] = row]
  BY DEF StoreCoverage
<1>2. coverage'[d] = row /\ \A e \in Coverages \ {d} : coverage'[e] = coverage[e]
  BY <1>1 DEF TypeOK
<1>3. CASE c = d
  BY <1>1, <1>2, <1>3 DEF CoverageRespected
<1>4. CASE c # d
  BY <1>2, <1>4 DEF CoverageRespected
<1>5. QED
  BY <1>3, <1>4

\* Each way to store an attestation asks for both intervals.
LEMMA CoverageRespects ==
  ASSUME TypeOK, CoverageStep, NEW c \in Coverages
  PROVE  CoverageRespected(c)
<1>1. ASSUME NEW d \in Coverages, NEW row \in CoverageRow,
             CreateCoverage(d, row) \/ UpdateCoverage(d, row)
      PROVE  CoverageRespected(c)
  BY <1>1, StoredRespects DEF CreateCoverage, UpdateCoverage
<1>2. ASSUME NEW d \in Coverages, NEW a \in Accounts, NEW i \in Intervals, Attest(d, a, i)
      PROVE  CoverageRespected(c)
  <2> DEFINE row == [account |-> a, interval |-> i, state |-> "complete"]
  <2>1. StoreCoverage(d, row) /\ (coverage[d] # None => coverage[d].interval = i)
    BY <1>2 DEF Attest
  <2>2. row \in CoverageRow /\ row.interval = i
    BY DEF CoverageRow
  <2> HIDE DEF row
  <2>3. coverage[d] # None => IntervalEditable(coverage[d].interval)
    BY <2>1, <2>2 DEF StoreCoverage
  <2>4. QED
    BY <2>1, <2>2, <2>3, StoredRespects
<1>3. QED
  BY <1>1, <1>2 DEF CoverageStep

\* Every step respects the attestations of closed months.
LEMMA StepRespects ==
  ASSUME TypeOK, Next, NEW c \in Coverages
  PROVE  CoverageRespected(c)
<1>1. ASSUME UNCHANGED coverage PROVE CoverageRespected(c)
  BY <1>1 DEF CoverageRespected
<1>2. ASSUME NEW crossings, Invalidated(crossings) PROVE CoverageRespected(c)
  BY <1>2, InvalidatedRespects
<1>3. ASSUME NEW s \in Sessions, FlowStep(s) PROVE CoverageRespected(c)
  <2>1. (\E crossings : Invalidated(crossings)) \/ UNCHANGED coverage
    BY <1>3 DEF FlowStep, ReadFlow, Abort, UpdateFlow, DeleteFlow
  <2>2. QED
    BY <1>1, <1>2, <2>1
<1>4. CASE LinkStep
  <2>1. (\E crossings : Invalidated(crossings)) \/ UNCHANGED coverage
    BY <1>4 DEF LinkStep, CreateFlow, CreateLink, DeleteLink, CreateEvidence, DeleteEvidence
  <2>2. QED
    BY <1>1, <1>2, <2>1
<1>5. CASE MonthStep
  <2>1. (\E crossings : Invalidated(crossings)) \/ UNCHANGED coverage
    BY <1>5 DEF MonthStep, CreateMonth, CloseMonth, ReopenMonth, SetStatus, DeleteMonth
  <2>2. QED
    BY <1>1, <1>2, <2>1
<1>6. QED
  BY <1>3, <1>4, <1>5, CoverageRespects DEF Next

\* For any intervals and months, an attestation over a closed month is neither made,
\* moved nor restated (cash_boundary_coverage.py:337).
THEOREM CoverageFrozen == Spec => ClosedCoverageFrozen
<1>1. IInv /\ [Next]_vars => [\A c \in Coverages : CoverageRespected(c)]_vars
  BY StepRespects DEF IInv
<1>2. [][\A c \in Coverages : CoverageRespected(c)]_vars => ClosedCoverageFrozen
  <2>1. [\A c \in Coverages : CoverageRespected(c)]_vars =>
          [\A c \in Coverages :
             coverage'[c] # coverage[c] =>
               /\ coverage[c] # None /\ ~IntervalEditable(coverage[c].interval) =>
                    coverage'[c] = [coverage[c] EXCEPT !.state = "unknown"]
               /\ coverage'[c] # None /\ ~IntervalEditable(coverage'[c].interval) =>
                    coverage[c] # None /\ coverage'[c].interval = coverage[c].interval]_vars
    BY DEF CoverageRespected
  <2>2. QED
    BY <2>1, PTL DEF ClosedCoverageFrozen
<1>3. QED
  BY IInvHolds, <1>1, <1>2, PTL DEF Spec

=============================================================================
