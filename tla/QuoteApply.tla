------------------------------ MODULE QuoteApply ------------------------------
(***************************************************************************)
(* Market quotes for one position of one reporting month: the preview that *)
(* asks the provider outside any transaction, the process-local evidence   *)
(* it publishes, the apply that claims this evidence once and revalidates  *)
(* it under the writer's reservation, and what may happen in between: the  *)
(* owner's If-Match edits of the position, new, excluded or cleared        *)
(* mappings of its instrument, the close and reopen of the month, a        *)
(* restart.                                                                *)
(***************************************************************************)
EXTENDS Naturals, Sequences

CONSTANTS Sessions,
          Quantities, Prices,
          Uids,         \* T-Invest instrument identities
          MaxPreviews,  \* bound: previews ever begun
          MaxClock,     \* bound: writes of versioned rows
          MaxApplied,   \* bound: quotes applied to the position
          None

ASSUME QuoteAssumption ==
  /\ Quantities \subseteq Nat /\ Prices \subseteq Nat
  /\ {MaxPreviews, MaxClock, MaxApplied} \subseteq Nat
  /\ None \notin Uids /\ None \notin Nat
  /\ None \notin {"begun", "quoted", "claimed", "patch", "mapping"}

VARIABLES month,       \* status and updated_at of the reporting month
          position,    \* the position snapshot, or None
          mapping,     \* the instrument's market mapping, or None
          provenance,  \* position_quote_provenance rows of the position
          clock,       \* updated_at of the last write
          latest,      \* the evidence store's one entry for the month, or None
          issued,      \* previews begun so far
          call         \* what each session is doing, with what it has read

tables == <<month, position, mapping, provenance, clock>>
vars == <<month, position, mapping, provenance, clock, latest, issued, call>>

-----------------------------------------------------------------------------
Idle == [op |-> None]

Draft == month.status = "draft"
Mapped == mapping # None /\ mapping.uid # None /\ ~mapping.excluded

\* Every version is the time of its write; no two writes share one.
Now == clock + 1

Priced(row, price, source) ==
  [row EXCEPT !.price = price, !.value = row.qty * price, !.source = source]
Sized(row, qty) == [row EXCEPT !.qty = qty, !.value = qty * row.price]
Stamped(row) == [row EXCEPT !.version = Now]

NewPosition(qty, price) ==
  [qty |-> qty, price |-> price, value |-> qty * price, source |-> "manual", version |-> Now]

\* capture_context: whole rows, with their versions.
Context == [month |-> month, position |-> position, mapping |-> mapping]

\* A preview row: what the owner is shown, and the quote proposed.
PreviewRows ==
  {[uid |-> mapping.uid, qty |-> position.qty, shown |-> position.price,
    price |-> p, kind |-> k] : p \in Prices, k \in {"last", "history"}}

Init ==
  /\ month = [status |-> "draft", version |-> 0]
  /\ \E q \in Quantities, p \in Prices, source \in {"manual", "t_invest"} :
       position = [qty |-> q, price |-> p, value |-> q * p, source |-> source, version |-> 0]
  /\ \E u \in Uids : mapping = [uid |-> u, excluded |-> FALSE, version |-> 0]
  /\ provenance = <<>>
  /\ clock = 0
  /\ latest = None
  /\ issued = 0
  /\ call = [s \in Sessions |-> Idle]

-----------------------------------------------------------------------------
(* Steps of a session. *)

Goes(s, next) == call' = [call EXCEPT ![s] = next]

Read(s, from, next) ==
  /\ call[s].op = from
  /\ Goes(s, next)
  /\ UNCHANGED <<tables, latest, issued>>

\* A write of a versioned row, committed by a call of this kind.
Commit(s, op) ==
  /\ call[s].op = op
  /\ Goes(s, Idle)
  /\ clock < MaxClock /\ clock' = Now
  /\ UNCHANGED <<month, latest, issued>>

\* A refusal, an expired preview, a busy timeout or a dropped request.
Abort(s) ==
  /\ call[s] # Idle
  /\ Goes(s, Idle)
  /\ UNCHANGED <<tables, latest, issued>>

-----------------------------------------------------------------------------
(* Preview: no reservation, and a provider call between the reads and the end. *)

\* Each new preview of the month displaces the one before.  The entry is taken and the
\* context read in one step: no other step touches both the store and the tables.
Begin(s) ==
  /\ call[s] = Idle /\ issued < MaxPreviews
  /\ issued' = issued + 1
  /\ latest' = [id |-> issued', evidence |-> None]
  /\ Goes(s, [op |-> "begun", id |-> issued', context |-> Context])
  /\ UNCHANGED tables

Quoted(s, row) ==
  [op |-> "quoted", evidence |-> [id |-> call[s].id, context |-> call[s].context, row |-> row]]

\* preview_market_quotes, the provider's answer included; no proposal on a failure.
PreviewRow(s) ==
  /\ call[s].op = "begun"
  /\ \/ Read(s, "begun", Quoted(s, None))
     \/ /\ position # None /\ Mapped
        /\ \E row \in PreviewRows : Read(s, "begun", Quoted(s, row))

\* Published only while this preview is still the latest.
Publish(s) ==
  /\ call[s].op = "quoted"
  /\ LET evidence == call[s].evidence
     IN latest' = IF latest = [id |-> evidence.id, evidence |-> None]
                  THEN [latest EXCEPT !.evidence = evidence] ELSE latest
  /\ Goes(s, Idle)
  /\ UNCHANGED <<tables, issued>>

-----------------------------------------------------------------------------
(* Apply. *)

\* Mutant of Claim: the evidence stays for another apply.
ClaimAndKeep(s) ==
  /\ call[s] = Idle
  /\ latest # None /\ latest.evidence # None
  /\ Goes(s, [op |-> "claimed", evidence |-> latest.evidence])
  /\ UNCHANGED <<tables, latest, issued>>

\* Every claim consumes the evidence, whatever becomes of the apply.
Claim(s) ==
  /\ call[s] = Idle
  /\ latest # None /\ latest.evidence # None
  /\ latest' = None
  /\ Goes(s, [op |-> "claimed", evidence |-> latest.evidence])
  /\ UNCHANGED <<tables, issued>>

Append1(preview, uid, price) ==
  /\ Len(provenance) < MaxApplied
  /\ provenance' = Append(provenance, [preview |-> preview, uid |-> uid, price |-> price])

\* apply_snapshot_market_quote and _append_provenance.  An UPDATE that changes no
\* column is not sent, so the version stays too.
ApplyQuote(preview, uid, price) ==
  LET quoted == Priced(position, price, "t_invest")
  IN /\ Append1(preview, uid, price)
     /\ IF quoted = position
        THEN UNCHANGED <<position, clock>>
        ELSE /\ clock < MaxClock /\ clock' = Now
             /\ position' = Stamped(quoted)

\* The identity in a frozen row is the one previewed; any other row is fetched again.
AppliedUid(row) == IF row.kind = "last" THEN row.uid ELSE mapping.uid

\* Mutant of Revalidated: only the month is compared.
MonthRevalidated(evidence) == evidence.context.month = month

Revalidated(evidence) == evidence.context = Context

\* With a preview id, from the reservation to the commit.
ApplyPreview(s) ==
  /\ call[s].op = "claimed"
  /\ LET evidence == call[s].evidence  row == evidence.row
     IN /\ row # None /\ Draft /\ Revalidated(evidence)
        /\ position # None
        /\ row.kind # "last" => Mapped
        /\ AppliedUid(row) = row.uid
        /\ ApplyQuote(evidence.id, row.uid, row.price)
  /\ Goes(s, Idle)
  /\ UNCHANGED <<month, mapping, latest, issued>>

\* Without one, every quote is fetched again and none may be of kind "last".
ApplyFresh(s) ==
  /\ call[s] = Idle
  /\ Draft /\ position # None /\ Mapped
  /\ \E p \in Prices : ApplyQuote(None, mapping.uid, p)
  /\ UNCHANGED <<month, mapping, latest, issued, call>>

-----------------------------------------------------------------------------
(* The owner's edits of the position, under If-Match. *)

\* The version the client saw and the row the request loads: where these differ the
\* request is refused, so the client's reading and the request's are one step.
PatchRead(s) ==
  /\ position # None
  /\ Read(s, None, [op |-> "patch", loaded |-> position])

\* A request may name the quantity, the price and the source, each alone or with the
\* others.  It cannot make a row a quote's, and a row that stays a quote's keeps its price.
Edits(row) ==
  {Priced(Sized(row, q), p, "manual") : q \in Quantities, p \in Prices}
    \cup IF row.source = "t_invest" THEN {Sized(row, q) : q \in Quantities} ELSE {}

\* Mutant of CompareAndUpdate: the version expected is not in the UPDATE's WHERE.
UpdateAnyVersion(expected, row) ==
  /\ position # None
  /\ position' = Stamped(row)

\* Mutant of CompareAndUpdate: the columns that differ from an unversioned row are
\* written, and its value with them.
UpdateColumns(expected, row) ==
  /\ position # None
  /\ position' = Stamped([position EXCEPT !.qty = row.qty, !.value = row.value])

\* atomic_compare_and_update: all columns in one UPDATE of the version expected.
CompareAndUpdate(expected, row) ==
  /\ position # None /\ position.version = expected
  /\ position' = Stamped(row)

PatchCommit(s) ==
  /\ Commit(s, "patch")
  /\ Draft
  /\ LET loaded == call[s].loaded
     IN \E row \in Edits(loaded) : CompareAndUpdate(loaded.version, row)
  /\ UNCHANGED <<mapping, provenance>>

Create(s) ==
  /\ Commit(s, None)
  /\ Draft /\ position = None
  /\ \E q \in Quantities, p \in Prices : position' = NewPosition(q, p)
  /\ UNCHANGED <<mapping, provenance>>

\* The position's provenance rows go with it.
Delete(s) ==
  /\ call[s] = Idle
  /\ Draft /\ position # None
  /\ position' = None /\ provenance' = <<>>
  /\ UNCHANGED <<month, mapping, clock, latest, issued, call>>

-----------------------------------------------------------------------------
(* The instrument's mapping: read, a provider call, then a commit that writes *)
(* the columns in which the row read and the row wanted differ.               *)

MappingRead(s) == Read(s, None, [op |-> "mapping", loaded |-> mapping])

StoreMapping(loaded, uid, excluded) ==
  IF loaded = None
  THEN /\ mapping = None
       /\ mapping' = [uid |-> uid, excluded |-> excluded, version |-> Now]
  ELSE /\ mapping # None
       /\ mapping' = [uid |-> IF uid = loaded.uid THEN mapping.uid ELSE uid,
                      excluded |-> IF excluded = loaded.excluded THEN mapping.excluded ELSE excluded,
                      version |-> Now]

MappingCommit(s) ==
  /\ Commit(s, "mapping")
  /\ UNCHANGED <<position, provenance>>

Accept(s) ==
  /\ MappingCommit(s)
  /\ \E u \in Uids : StoreMapping(call[s].loaded, u, FALSE)

Exclude(s) ==
  /\ MappingCommit(s)
  /\ LET loaded == call[s].loaded
     IN StoreMapping(loaded, IF loaded = None THEN None ELSE loaded.uid, TRUE)

ClearExclusion(s) ==
  /\ MappingCommit(s)
  /\ LET loaded == call[s].loaded
     IN /\ loaded # None
        /\ IF loaded.uid = None
           THEN mapping # None /\ mapping' = None
           ELSE StoreMapping(loaded, loaded.uid, FALSE)

ClearMapping(s) ==
  /\ MappingCommit(s)
  /\ mapping # None /\ mapping' = None

-----------------------------------------------------------------------------
MonthWrite(from, to) ==
  /\ month.status = from
  /\ clock < MaxClock /\ clock' = Now
  /\ month' = [status |-> to, version |-> Now]
  /\ UNCHANGED <<position, mapping, provenance, latest, issued, call>>

Close == MonthWrite("draft", "closed")
Reopen == MonthWrite("closed", "draft")

\* The store is process-local and is lost with the calls.
Restart ==
  /\ latest' = None
  /\ call' = [s \in Sessions |-> Idle]
  /\ UNCHANGED <<tables, issued>>

Next ==
  \/ \E s \in Sessions :
       \/ Begin(s) \/ PreviewRow(s) \/ Publish(s)
       \/ Claim(s) \/ ApplyPreview(s) \/ ApplyFresh(s)
       \/ PatchRead(s) \/ PatchCommit(s) \/ Create(s) \/ Delete(s)
       \/ MappingRead(s) \/ Accept(s) \/ Exclude(s) \/ ClearExclusion(s) \/ ClearMapping(s)
       \/ Abort(s)
  \/ Close \/ Reopen \/ Restart

Spec == Init /\ [][Next]_vars

-----------------------------------------------------------------------------
\* The stored value of a position is always its quantity times its price, whoever
\* wrote last and from whichever reading (_compute_metrics runs on rows read earlier).
DerivedValuesCurrent == position # None => position.value = position.qty * position.price

\* No lost update: an edit replaces the very row that its request had loaded, so what it
\* does not name stays as stored, and an applied quote leaves the quantity, whichever of
\* the tabs, quotes, deletions and new positions came in between (concurrency.py:47).
EditsReplaceWhatTheyRead ==
  [][position # None /\ position' \notin {None, position} =>
       \/ provenance' # provenance /\ position'.qty = position.qty
       \/ \E s \in Sessions :
            call[s].op = "patch" /\ call'[s] = Idle /\ call[s].loaded = position]_vars

\* A quote is applied to what its owner saw: the month is a draft, the instrument is not
\* excluded, and for a preview the quantity and price are those shown and the identity is
\* the one mapped now, unless there was no mapping when the preview began and is none now.
QuotesAsPreviewed ==
  [][\A i \in DOMAIN provenance' \ DOMAIN provenance :
       LET quote == provenance'[i]
       IN /\ month.status = "draft"
          /\ mapping # None => mapping.uid = quote.uid /\ ~mapping.excluded
          /\ quote.preview # None =>
               \E s \in Sessions :
                 /\ call[s].op = "claimed"
                 /\ LET shown == call[s].evidence
                    IN /\ shown.id = quote.preview
                       /\ shown.row.qty = position.qty /\ shown.row.shown = position.price
                       /\ mapping = None => shown.context.mapping = None]_vars

\* Evidence is used once: no two provenance rows come from one preview, even when the
\* quote changed nothing and so left no new version for a second apply to notice.
PreviewAppliedOnce ==
  \A i, j \in DOMAIN provenance :
    i # j => provenance[i].preview = None \/ provenance[i].preview # provenance[j].preview

=============================================================================
