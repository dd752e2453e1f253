--------------------------- MODULE QuoteApplyProofs ---------------------------
(***************************************************************************)
(* Safety of quotes and edits for any number of sessions, previews and     *)
(* writes: strictly later versions make "the same version" mean "the same  *)
(* row", and an evidence id is in one hand at a time.                      *)
(***************************************************************************)
EXTENDS QuoteApply, TLAPS

Headers == [status : {"draft", "closed"}, version : Nat]
Rows == [qty : Quantities, price : Prices, value : Nat, source : {"manual", "t_invest"},
         version : Nat]
MappingRows == [uid : Uids \cup {None}, excluded : BOOLEAN, version : Nat]
Contexts == [month : Headers, position : Rows \cup {None}, mapping : MappingRows \cup {None}]
Shown == [uid : Uids, qty : Quantities, shown : Prices, price : Prices,
          kind : {"last", "history"}]
Evidences == [id : Nat, context : Contexts, row : Shown \cup {None}]
Calls ==
  {Idle}
    \cup [op : {"begun"}, id : Nat, context : Contexts]
    \cup [op : {"quoted", "claimed"}, evidence : Evidences]
    \cup [op : {"patch"}, loaded : Rows]
    \cup [op : {"mapping"}, loaded : MappingRows \cup {None}]
Quotes == [preview : Nat \cup {None}, uid : Uids, price : Prices]

TypeOK ==
  /\ month \in Headers
  /\ position \in Rows \cup {None}
  /\ mapping \in MappingRows \cup {None}
  /\ provenance \in Seq(Quotes)
  /\ clock \in Nat /\ issued \in Nat
  /\ latest \in [id : Nat, evidence : Evidences \cup {None}] \cup {None}
  /\ call \in [Sessions -> Calls]

\* No version is later than the clock.
Dated(row) == row # None => row.version <= clock

TablesDated == Dated(position) /\ Dated(mapping)

\* A row that a call remembers is the stored one if it has its version.
SameVersionSameRow(loaded) ==
  /\ loaded.version <= clock
  /\ position # None /\ position.version = loaded.version => loaded = position

PatchesCurrent ==
  \A s \in Sessions : call[s].op = "patch" => SameVersionSameRow(call[s].loaded)

\* The row proposed agrees with the context it comes with, as long as that context is the
\* current one, although the two were read at different moments.
ContextDated(context) == Dated(context.position) /\ Dated(context.mapping)

RowOfContext(evidence) ==
  /\ ContextDated(evidence.context)
  /\ evidence.row # None =>
       /\ position # None /\ evidence.context.position = position =>
            evidence.row.qty = position.qty /\ evidence.row.shown = position.price
       /\ mapping # None /\ evidence.context.mapping = mapping =>
            evidence.row.uid = mapping.uid /\ ~mapping.excluded

EvidenceCurrent ==
  /\ \A s \in Sessions :
       /\ call[s].op = "begun" => ContextDated(call[s].context)
       /\ call[s].op \in {"quoted", "claimed"} => RowOfContext(call[s].evidence)
  /\ latest # None /\ latest.evidence # None => RowOfContext(latest.evidence)

\* Who holds the id of a preview.
Holds(s, id) ==
  \/ call[s].op = "begun" /\ call[s].id = id
  \/ call[s].op \in {"quoted", "claimed"} /\ call[s].evidence.id = id

Offered(id) == latest # None /\ latest.evidence # None /\ latest.evidence.id = id
Applied(id) == \E i \in DOMAIN provenance : provenance[i].preview = id

OneHand ==
  \A id \in Nat :
    /\ id > issued => ~Offered(id) /\ ~Applied(id) /\ \A s \in Sessions : ~Holds(s, id)
    /\ \A s, t \in Sessions : Holds(s, id) /\ Holds(t, id) => s = t
    /\ \A s \in Sessions : Holds(s, id) => ~Offered(id) /\ ~Applied(id)
    /\ ~(Offered(id) /\ Applied(id))

IInv ==
  /\ TypeOK /\ DerivedValuesCurrent /\ TablesDated /\ PatchesCurrent /\ EvidenceCurrent
  /\ OneHand /\ PreviewAppliedOnce

-----------------------------------------------------------------------------
(* Rows. *)

\* A product of naturals is one.
LEMMA ProductNat == \A q, p \in Nat : q * p \in Nat
  OBVIOUS

\* Every row that the code builds from a sound row is sound, its value included.
LEMMA RowsBuilt ==
  ASSUME NEW row \in Rows, row.value = row.qty * row.price, clock \in Nat
  PROVE  /\ \A p \in Prices, source \in {"manual", "t_invest"} :
              /\ Priced(row, p, source) \in Rows
              /\ Priced(row, p, source).value =
                   Priced(row, p, source).qty * Priced(row, p, source).price
         /\ \A q \in Quantities :
              /\ Sized(row, q) \in Rows
              /\ Sized(row, q).value = Sized(row, q).qty * Sized(row, q).price
         /\ Stamped(row) \in Rows /\ Stamped(row).version = clock + 1
         /\ Stamped(row).qty = row.qty /\ Stamped(row).price = row.price
         /\ Stamped(row).value = row.value /\ Stamped(row).source = row.source
<1>1. \A q \in Quantities, p \in Prices : q * p \in Nat
  BY QuoteAssumption, ProductNat
<1>2. ASSUME NEW p \in Prices, NEW source \in {"manual", "t_invest"}
      PROVE  /\ Priced(row, p, source) \in Rows
             /\ Priced(row, p, source).value =
                  Priced(row, p, source).qty * Priced(row, p, source).price
  <2>1. row.qty * p \in Nat
    BY <1>1 DEF Rows
  <2>2. QED
    BY <2>1 DEF Priced, Rows
<1>3. ASSUME NEW q \in Quantities
      PROVE  /\ Sized(row, q) \in Rows
             /\ Sized(row, q).value = Sized(row, q).qty * Sized(row, q).price
  <2>1. q * row.price \in Nat
    BY <1>1 DEF Rows
  <2>2. QED
    BY <2>1 DEF Sized, Rows
<1>4. /\ Stamped(row) \in Rows /\ Stamped(row).version = clock + 1
      /\ Stamped(row).qty = row.qty /\ Stamped(row).price = row.price
      /\ Stamped(row).value = row.value /\ Stamped(row).source = row.source
  BY DEF Stamped, Now, Rows
<1>5. QED
  BY <1>2, <1>3, <1>4

-----------------------------------------------------------------------------
(* Writes. *)

\* Calls go on as they are or end, and the store keeps its entry or loses it.
Quiet ==
  /\ \A s \in Sessions : call'[s] = call[s] \/ call'[s] = Idle
  /\ latest' = latest \/ latest' = None
  /\ issued' = issued

\* A row is left, deleted, or written under a version that nobody has seen.
LaterPosition ==
  \/ position' = position
  \/ position' = None
  \/ /\ clock' = clock + 1 /\ position'.version = clock + 1
     /\ position'.value = position'.qty * position'.price

LaterMapping ==
  \/ mapping' = mapping
  \/ mapping' = None
  \/ clock' = clock + 1 /\ mapping'.version = clock + 1

\* A write leaves what the other calls remember comparable with the tables.
LEMMA LaterWrites ==
  ASSUME IInv, TypeOK', Quiet, LaterPosition, LaterMapping, clock' \in {clock, clock + 1}
  PROVE  DerivedValuesCurrent' /\ TablesDated' /\ PatchesCurrent' /\ EvidenceCurrent'
<1>1. /\ position \in Rows \cup {None} /\ position' \in Rows \cup {None}
      /\ mapping \in MappingRows \cup {None} /\ mapping' \in MappingRows \cup {None}
      /\ clock \in Nat /\ clock' \in Nat /\ clock' >= clock
  BY DEF IInv, TypeOK
<1>2. DerivedValuesCurrent'
  BY DEF IInv, DerivedValuesCurrent, LaterPosition
<1>3. TablesDated'
  BY <1>1 DEF IInv, TablesDated, Dated, LaterPosition, LaterMapping, Rows, MappingRows
<1>4. \A row \in Rows \cup MappingRows \cup {None} : Dated(row) => Dated(row)'
  BY <1>1 DEF Dated, Rows, MappingRows
<1>5. ASSUME NEW loaded \in Rows, SameVersionSameRow(loaded)
      PROVE  SameVersionSameRow(loaded)'
  BY <1>1, <1>5 DEF SameVersionSameRow, LaterPosition, Rows
<1>6. ASSUME NEW evidence \in Evidences, RowOfContext(evidence)
      PROVE  RowOfContext(evidence)'
  <2>1. /\ evidence.context.position \in Rows \cup {None}
        /\ evidence.context.mapping \in MappingRows \cup {None}
    BY DEF Evidences, Contexts
  <2>2. ContextDated(evidence.context)'
    BY <1>4, <1>6, <2>1 DEF RowOfContext, ContextDated
  <2>3. ASSUME position' # None, evidence.context.position = position'
        PROVE  position' = position
    BY <1>1, <1>6, <2>1, <2>3 DEF RowOfContext, ContextDated, Dated, LaterPosition, Rows
  <2>4. ASSUME mapping' # None, evidence.context.mapping = mapping'
        PROVE  mapping' = mapping
    BY <1>1, <1>6, <2>1, <2>4
       DEF RowOfContext, ContextDated, Dated, LaterMapping, MappingRows
  <2>5. QED
    BY <1>6, <2>2, <2>3, <2>4 DEF RowOfContext
<1>7. \A s \in Sessions : call'[s].op # None => call'[s] = call[s]
  BY DEF Quiet, Idle
<1>8. /\ \A s \in Sessions : call[s] \in Calls
      /\ \A c \in Calls : /\ c.op = "begun" => c.context \in Contexts
                          /\ c.op \in {"quoted", "claimed"} => c.evidence \in Evidences
                          /\ c.op = "patch" => c.loaded \in Rows
  BY QuoteAssumption DEF IInv, TypeOK, Calls, Idle
<1>9. PatchesCurrent'
  BY <1>5, <1>7, <1>8, QuoteAssumption DEF IInv, PatchesCurrent, SameVersionSameRow
<1>10. ASSUME NEW s \in Sessions, call'[s].op = "begun"
       PROVE  ContextDated(call[s].context)'
  <2>1. call'[s] = call[s] /\ call[s].context \in Contexts
    BY <1>7, <1>8, <1>10, QuoteAssumption
  <2>2. ContextDated(call[s].context)
    BY <1>10, <2>1 DEF IInv, EvidenceCurrent
  <2>3. QED
    BY <1>4, <2>1, <2>2 DEF ContextDated, Contexts, Dated
<1>11. ASSUME NEW s \in Sessions, call'[s].op \in {"quoted", "claimed"}
       PROVE  RowOfContext(call[s].evidence)'
  <2>1. call'[s] = call[s] /\ call[s].evidence \in Evidences
    BY <1>7, <1>8, <1>11, QuoteAssumption
  <2>2. RowOfContext(call[s].evidence)
    BY <1>11, <2>1 DEF IInv, EvidenceCurrent
  <2>3. QED
    BY <1>6, <2>1, <2>2 DEF RowOfContext, ContextDated, Dated
<1>12. ASSUME latest' # None, latest'.evidence # None
       PROVE  RowOfContext(latest.evidence)'
  <2>1. latest' = latest /\ latest.evidence \in Evidences
    BY <1>12 DEF Quiet, IInv, TypeOK
  <2>2. RowOfContext(latest.evidence)
    BY <1>12, <2>1 DEF IInv, EvidenceCurrent
  <2>3. QED
    BY <1>6, <2>1, <2>2 DEF RowOfContext, ContextDated, Dated
<1>13. EvidenceCurrent'
  BY <1>10, <1>11, <1>12 DEF EvidenceCurrent
<1>14. QED
  BY <1>2, <1>3, <1>9, <1>13

-----------------------------------------------------------------------------
(* Hands. *)

\* No id gains a hand where calls and the store only lose what they hold.
LEMMA QuietHands ==
  ASSUME IInv, Quiet, provenance' = provenance \/ provenance' = <<>>
  PROVE  OneHand' /\ PreviewAppliedOnce'
<1>1. ASSUME NEW s \in Sessions, NEW id \in Nat, Holds(s, id)'
      PROVE  Holds(s, id)
  BY <1>1, QuoteAssumption DEF Quiet, Holds, Idle
<1>2. ASSUME NEW id \in Nat, Offered(id)'
      PROVE  Offered(id)
  BY <1>2 DEF Quiet, Offered
<1>3. ASSUME NEW id \in Nat, Applied(id)'
      PROVE  Applied(id)
  BY <1>3 DEF Applied
<1>4. OneHand
  BY DEF IInv
<1>5. OneHand'
  <2> SUFFICES ASSUME NEW id \in Nat
               PROVE  /\ id > issued' =>
                           ~Offered(id)' /\ ~Applied(id)' /\ \A s \in Sessions : ~Holds(s, id)'
                      /\ \A s, t \in Sessions : Holds(s, id)' /\ Holds(t, id)' => s = t
                      /\ \A s \in Sessions : Holds(s, id)' => ~Offered(id)' /\ ~Applied(id)'
                      /\ ~(Offered(id)' /\ Applied(id)')
    BY DEF OneHand
  <2>1. issued' = issued
    BY DEF Quiet
  <2>2. QED
    BY <1>1, <1>2, <1>3, <1>4, <2>1 DEF OneHand
<1>6. PreviewAppliedOnce'
  BY DEF IInv, PreviewAppliedOnce
<1>7. QED
  BY <1>5, <1>6

\* An applied quote passes the id from its call to the provenance, or brings none.
LEMMA AppliedHands ==
  ASSUME IInv, NEW quote \in Quotes, provenance' = Append(provenance, quote),
         UNCHANGED <<latest, issued>>,
         \/ quote.preview = None /\ UNCHANGED call
         \/ /\ quote.preview \in Nat
            /\ \E s \in Sessions : Holds(s, quote.preview) /\ call' = [call EXCEPT ![s] = Idle]
  PROVE  OneHand' /\ PreviewAppliedOnce'
<1> DEFINE n == Len(provenance) + 1
<1>1. /\ provenance \in Seq(Quotes) /\ n \in Nat /\ DOMAIN provenance = 1..Len(provenance)
      /\ DOMAIN provenance' = 1..n /\ provenance'[n] = quote
      /\ \A i \in DOMAIN provenance : provenance'[i] = provenance[i]
  BY DEF IInv, TypeOK
<1> HIDE DEF n
<1>2. DOMAIN provenance' = DOMAIN provenance \cup {n}
  BY <1>1 DEF n
<1>3. ASSUME NEW id \in Nat
      PROVE  Applied(id)' <=> Applied(id) \/ quote.preview = id
  BY <1>1, <1>2 DEF Applied
<1>4. ASSUME NEW s \in Sessions, NEW id \in Nat, Holds(s, id)'
      PROVE  Holds(s, id) /\ quote.preview # id
  <2>1. CASE quote.preview = None /\ UNCHANGED call
    BY <1>4, <2>1, QuoteAssumption DEF Holds
  <2>2. ASSUME NEW t \in Sessions, Holds(t, quote.preview), quote.preview \in Nat,
               call' = [call EXCEPT ![t] = Idle]
        PROVE  Holds(s, id) /\ quote.preview # id
    <3>1. call'[t].op = None
      BY <2>2 DEF IInv, TypeOK, Idle
    <3>2. s # t /\ call'[s] = call[s]
      BY <1>4, <2>2, <3>1, QuoteAssumption DEF Holds, IInv, TypeOK
    <3>3. Holds(s, id)
      BY <1>4, <3>2 DEF Holds
    <3>4. QED
      BY <2>2, <3>2, <3>3 DEF IInv, OneHand
  <2>3. QED
    BY <2>1, <2>2
<1>5. ASSUME quote.preview \in Nat
      PROVE  /\ ~Applied(quote.preview) /\ ~Offered(quote.preview)
             /\ ~(quote.preview > issued)
  BY <1>5, QuoteAssumption DEF IInv, OneHand
<1>6. \A id \in Nat : Offered(id)' <=> Offered(id)
  BY DEF Offered
<1>7. OneHand'
  <2> SUFFICES ASSUME NEW id \in Nat
               PROVE  /\ id > issued' =>
                           ~Offered(id)' /\ ~Applied(id)' /\ \A s \in Sessions : ~Holds(s, id)'
                      /\ \A s, t \in Sessions : Holds(s, id)' /\ Holds(t, id)' => s = t
                      /\ \A s \in Sessions : Holds(s, id)' => ~Offered(id)' /\ ~Applied(id)'
                      /\ ~(Offered(id)' /\ Applied(id)')
    BY DEF OneHand
  <2>1. OneHand
    BY DEF IInv
  <2>2. QED
    BY <1>3, <1>4, <1>5, <1>6, <2>1 DEF OneHand
<1>8. ASSUME NEW i \in DOMAIN provenance, provenance[i].preview # None,
             provenance[i].preview = quote.preview
      PROVE  FALSE
  <2>1. quote.preview \in Nat
    BY <1>8 DEF Quotes
  <2>2. Applied(quote.preview)
    BY <1>8 DEF Applied
  <2>3. QED
    BY <1>5, <2>1, <2>2
<1>9. PreviewAppliedOnce'
  <2> SUFFICES ASSUME NEW i \in DOMAIN provenance', NEW j \in DOMAIN provenance', i # j,
                      provenance'[i].preview # None
               PROVE  provenance'[i].preview # provenance'[j].preview
    BY DEF PreviewAppliedOnce
  <2>1. CASE i \in DOMAIN provenance /\ j \in DOMAIN provenance
    BY <1>1, <2>1 DEF IInv, PreviewAppliedOnce
  <2>2. CASE i \in DOMAIN provenance /\ j = n
    BY <1>1, <1>8, <2>2
  <2>3. CASE i = n /\ j \in DOMAIN provenance
    BY <1>1, <1>8, <2>3
  <2>4. QED
    BY <1>2, <2>1, <2>2, <2>3
<1>10. QED
  BY <1>7, <1>9

-----------------------------------------------------------------------------
(* Steps that write. *)

\* The conjuncts of the invariant, collected.
LEMMA Collected ==
  ASSUME TypeOK', DerivedValuesCurrent', TablesDated', PatchesCurrent', EvidenceCurrent',
         OneHand', PreviewAppliedOnce'
  PROVE  IInv'
  BY DEF IInv

\* A write of one row beside quiet calls keeps the invariant.
LEMMA WriteIInv ==
  ASSUME IInv, TypeOK', Quiet, LaterPosition, LaterMapping, clock' \in {clock, clock + 1},
         provenance' = provenance \/ provenance' = <<>>
  PROVE  IInv'
  BY LaterWrites, QuietHands, Collected

\* What a call that ends, one that goes on and a store that is emptied have in common.
LEMMA QuietTypes ==
  ASSUME IInv, Quiet, call' \in [Sessions -> Calls] \/ \E s \in Sessions : Goes(s, Idle)
  PROVE  /\ call' \in [Sessions -> Calls] /\ issued' \in Nat
         /\ latest' \in [id : Nat, evidence : Evidences \cup {None}] \cup {None}
<1>1. Idle \in Calls
  BY DEF Calls
<1>2. QED
  BY <1>1 DEF IInv, TypeOK, Quiet, Goes

\* A call that ends is quiet.
LEMMA EndsQuiet ==
  ASSUME IInv, NEW s \in Sessions, Goes(s, Idle), UNCHANGED <<latest, issued>>
  PROVE  Quiet
  BY DEF IInv, TypeOK, Goes, Quiet

\* A call that ends without a write.
LEMMA AbortIInv ==
  ASSUME IInv, NEW s \in Sessions, Abort(s)
  PROVE  IInv'
<1>1. Quiet /\ call' \in [Sessions -> Calls] /\ issued' \in Nat
      /\ latest' \in [id : Nat, evidence : Evidences \cup {None}] \cup {None}
  BY EndsQuiet, QuietTypes DEF Abort
<1>2. TypeOK'
  BY <1>1 DEF IInv, TypeOK, Abort, tables
<1>3. QED
  BY <1>1, <1>2, WriteIInv DEF Abort, tables, LaterPosition, LaterMapping

\* A restart loses calls and evidence, and no row.
LEMMA RestartIInv ==
  ASSUME IInv, Restart
  PROVE  IInv'
<1>1. call' \in [Sessions -> Calls] /\ Quiet
  BY DEF Restart, Quiet, Calls
<1>2. TypeOK'
  BY <1>1 DEF IInv, TypeOK, Restart, tables
<1>3. QED
  BY <1>1, <1>2, WriteIInv DEF Restart, tables, LaterPosition, LaterMapping

\* Closing and reopening write the month alone.
LEMMA MonthIInv ==
  ASSUME IInv, Close \/ Reopen
  PROVE  IInv'
<1>1. /\ month' \in Headers /\ clock' = clock + 1
      /\ UNCHANGED <<position, mapping, provenance, latest, issued, call>>
  BY DEF IInv, TypeOK, Close, Reopen, MonthWrite, Now, Headers
<1>2. TypeOK' /\ Quiet
  BY <1>1 DEF IInv, TypeOK, Quiet
<1>3. QED
  BY <1>1, <1>2, WriteIInv DEF LaterPosition, LaterMapping

\* An edit writes a sound row under a new version, over the row it had loaded.
LEMMA PatchCommitIInv ==
  ASSUME IInv, NEW s \in Sessions, PatchCommit(s)
  PROVE  IInv' /\ call[s].op = "patch" /\ call'[s] = Idle /\ call[s].loaded = position
<1> DEFINE loaded == call[s].loaded
<1>1. /\ Commit(s, "patch") /\ position # None /\ position.version = loaded.version
      /\ UNCHANGED <<mapping, provenance>>
  BY DEF PatchCommit, CompareAndUpdate
<1>2. PICK row \in Edits(loaded) : position' = Stamped(row)
  BY DEF PatchCommit, CompareAndUpdate
<1>3. loaded = position
  BY <1>1 DEF IInv, PatchesCurrent, SameVersionSameRow, Commit
<1>4. position \in Rows /\ position.value = position.qty * position.price /\ clock \in Nat
  BY <1>1 DEF IInv, TypeOK, DerivedValuesCurrent
<1>5. row \in Rows /\ row.value = row.qty * row.price
  <2>1. \A q \in Quantities : Sized(position, q) \in Rows
          /\ Sized(position, q).value = Sized(position, q).qty * Sized(position, q).price
    BY <1>4, RowsBuilt
  <2>2. ASSUME NEW q \in Quantities
        PROVE  \A p \in Prices :
                 /\ Priced(Sized(position, q), p, "manual") \in Rows
                 /\ Priced(Sized(position, q), p, "manual").value =
                      Priced(Sized(position, q), p, "manual").qty
                        * Priced(Sized(position, q), p, "manual").price
    <3> PICK sized : sized = Sized(position, q)
      OBVIOUS
    <3>1. sized \in Rows /\ sized.value = sized.qty * sized.price
      BY <2>1
    <3>2. \A p \in Prices :
            /\ Priced(sized, p, "manual") \in Rows
            /\ Priced(sized, p, "manual").value =
                 Priced(sized, p, "manual").qty * Priced(sized, p, "manual").price
      BY <1>4, <3>1, RowsBuilt
    <3>3. QED
      BY <3>2
  <2>3. \/ \E q \in Quantities : row = Sized(position, q)
        \/ \E q \in Quantities, p \in Prices : row = Priced(Sized(position, q), p, "manual")
    BY <1>2, <1>3 DEF Edits
  <2>4. QED
    BY <2>1, <2>2, <2>3
<1>6. /\ position' \in Rows /\ position'.version = clock + 1
      /\ position'.value = position'.qty * position'.price
      /\ position'.qty = row.qty /\ position'.price = row.price
      /\ position'.source = row.source
  BY <1>2, <1>4, <1>5, RowsBuilt
<1>7. clock' = clock + 1 /\ Quiet /\ UNCHANGED month
      /\ call' \in [Sessions -> Calls] /\ issued' \in Nat
      /\ latest' \in [id : Nat, evidence : Evidences \cup {None}] \cup {None}
  BY <1>1, EndsQuiet, QuietTypes DEF Commit, Now
<1>8. TypeOK'
  BY <1>1, <1>4, <1>6, <1>7 DEF IInv, TypeOK
<1>9. IInv'
  BY <1>1, <1>6, <1>7, <1>8, WriteIInv DEF LaterPosition, LaterMapping
<1>10. call[s].op = "patch" /\ call'[s] = Idle
  BY <1>1 DEF Commit, Goes, IInv, TypeOK
<1>11. QED
  BY <1>3, <1>9, <1>10

\* A new position has a new version.
LEMMA CreateIInv ==
  ASSUME IInv, NEW s \in Sessions, Create(s)
  PROVE  IInv'
<1>1. PICK q \in Quantities, p \in Prices : position' = NewPosition(q, p)
  BY DEF Create
<1>2. q * p \in Nat /\ clock \in Nat
  BY QuoteAssumption, ProductNat DEF IInv, TypeOK
<1>3. /\ position' \in Rows /\ position'.version = clock + 1
      /\ position'.value = position'.qty * position'.price
  BY <1>1, <1>2 DEF NewPosition, Now, Rows
<1>4. clock' = clock + 1 /\ Quiet /\ UNCHANGED <<month, mapping, provenance>>
      /\ call' \in [Sessions -> Calls] /\ issued' \in Nat
      /\ latest' \in [id : Nat, evidence : Evidences \cup {None}] \cup {None}
  BY EndsQuiet, QuietTypes DEF Create, Commit, Now
<1>5. TypeOK'
  BY <1>2, <1>3, <1>4 DEF IInv, TypeOK
<1>6. QED
  BY <1>3, <1>4, <1>5, WriteIInv DEF LaterPosition, LaterMapping

\* A deletion takes the provenance along.
LEMMA DeleteIInv ==
  ASSUME IInv, NEW s \in Sessions, Delete(s)
  PROVE  IInv'
<1>1. position' = None /\ provenance' = <<>>
      /\ UNCHANGED <<month, mapping, clock, latest, issued, call>>
  BY DEF Delete
<1>2. TypeOK' /\ Quiet
  BY <1>1 DEF IInv, TypeOK, Quiet
<1>3. QED
  BY <1>1, <1>2, WriteIInv DEF LaterPosition, LaterMapping

\* A mapping is stored under a new version, whichever of its columns were written.
LEMMA StoredMapping ==
  ASSUME IInv, NEW loaded \in MappingRows \cup {None}, NEW uid \in Uids \cup {None},
         NEW excluded \in BOOLEAN, StoreMapping(loaded, uid, excluded)
  PROVE  mapping' \in MappingRows /\ mapping'.version = clock + 1
<1>1. clock \in Nat /\ mapping \in MappingRows \cup {None}
  BY DEF IInv, TypeOK
<1>2. CASE loaded = None
  BY <1>1, <1>2 DEF StoreMapping, Now, MappingRows
<1>3. CASE loaded # None
  <2> DEFINE u == IF uid = loaded.uid THEN mapping.uid ELSE uid
             x == IF excluded = loaded.excluded THEN mapping.excluded ELSE excluded
  <2>1. mapping \in MappingRows /\ mapping' = [uid |-> u, excluded |-> x, version |-> Now]
    BY <1>1, <1>3 DEF StoreMapping
  <2>2. u \in Uids \cup {None} /\ x \in BOOLEAN
    BY <2>1, Zenon DEF MappingRows
  <2> HIDE DEF u, x
  <2>3. QED
    BY <1>1, <2>1, <2>2 DEF Now, MappingRows
<1>4. QED
  BY <1>2, <1>3

\* Every write of the mapping has a new version, or deletes it.
LEMMA MappingIInv ==
  ASSUME IInv, NEW s \in Sessions,
         Accept(s) \/ Exclude(s) \/ ClearExclusion(s) \/ ClearMapping(s)
  PROVE  IInv'
<1> DEFINE loaded == call[s].loaded
<1>1. Commit(s, "mapping") /\ UNCHANGED <<position, provenance>>
  BY DEF Accept, Exclude, ClearExclusion, ClearMapping, MappingCommit
<1>2. call[s] \in Calls /\ call[s].op = "mapping"
  BY <1>1 DEF IInv, TypeOK, Commit
<1>3. loaded \in MappingRows \cup {None}
  BY <1>2, QuoteAssumption DEF Calls, Idle
<1>4. loaded # None => loaded.uid \in Uids \cup {None}
  BY <1>3 DEF MappingRows
<1> HIDE DEF loaded
<1>5. mapping' = None \/ (mapping' \in MappingRows /\ mapping'.version = clock + 1)
  <2>1. CASE Accept(s)
    BY <1>3, <2>1, StoredMapping DEF Accept, loaded
  <2>2. CASE Exclude(s)
    BY <1>3, <1>4, <2>2, StoredMapping DEF Exclude, loaded
  <2>3. CASE ClearExclusion(s)
    BY <1>3, <1>4, <2>3, StoredMapping DEF ClearExclusion, loaded
  <2>4. CASE ClearMapping(s)
    BY <2>4 DEF ClearMapping
  <2>5. QED
    BY <2>1, <2>2, <2>3, <2>4
<1>6. clock' = clock + 1 /\ Quiet /\ UNCHANGED month
      /\ call' \in [Sessions -> Calls] /\ issued' \in Nat
      /\ latest' \in [id : Nat, evidence : Evidences \cup {None}] \cup {None}
  BY <1>1, EndsQuiet, QuietTypes DEF Commit, Now
<1>7. TypeOK'
  BY <1>1, <1>5, <1>6 DEF IInv, TypeOK
<1>8. QED
  BY <1>1, <1>5, <1>6, <1>7, WriteIInv DEF LaterPosition, LaterMapping

-----------------------------------------------------------------------------
(* Quotes. *)

\* A quote leaves the quantity, and a new version wherever it changes anything.
LEMMA QuoteWrites ==
  ASSUME IInv, position # None, NEW id \in Nat \cup {None}, NEW uid \in Uids,
         NEW price \in Prices, ApplyQuote(id, uid, price)
  PROVE  /\ LaterPosition /\ position' \in Rows /\ position'.qty = position.qty
         /\ clock' \in {clock, clock + 1} /\ clock' \in Nat
         /\ provenance' = Append(provenance, [preview |-> id, uid |-> uid, price |-> price])
         /\ provenance' \in Seq(Quotes)
<1> DEFINE quoted == Priced(position, price, "t_invest")
<1>1. /\ position \in Rows /\ position.value = position.qty * position.price /\ clock \in Nat
      /\ provenance \in Seq(Quotes)
  BY DEF IInv, TypeOK, DerivedValuesCurrent
<1>2. quoted \in Rows /\ quoted.value = quoted.qty * quoted.price
  BY <1>1, RowsBuilt
<1>3. quoted.qty = position.qty
  BY <1>1 DEF Priced, Rows
<1>4. /\ provenance' = Append(provenance, [preview |-> id, uid |-> uid, price |-> price])
      /\ \/ UNCHANGED <<position, clock>>
         \/ clock' = clock + 1 /\ position' = Stamped(quoted)
  BY DEF ApplyQuote, Append1, Now
<1> HIDE DEF quoted
<1>5. [preview |-> id, uid |-> uid, price |-> price] \in Quotes
  BY DEF Quotes
<1>6. provenance' \in Seq(Quotes)
  BY <1>1, <1>4, <1>5
<1>7. (LaterPosition /\ position' \in Rows /\ position'.qty = position.qty)
      /\ clock' \in {clock, clock + 1} /\ clock' \in Nat
  <2>1. CASE UNCHANGED <<position, clock>>
    BY <1>1, <2>1 DEF LaterPosition
  <2>2. CASE clock' = clock + 1 /\ position' = Stamped(quoted)
    BY <1>1, <1>2, <1>3, <2>2, RowsBuilt DEF LaterPosition
  <2>3. QED
    BY <1>4, <2>1, <2>2
<1>8. QED
  BY <1>4, <1>6, <1>7

\* What an apply of a preview finds in its evidence.
LEMMA ClaimedEvidence ==
  ASSUME IInv, NEW s \in Sessions, ApplyPreview(s)
  PROVE  LET evidence == call[s].evidence  row == evidence.row
         IN /\ evidence \in Evidences /\ row \in Shown /\ evidence.context = Context
            /\ Holds(s, evidence.id)
            /\ row.qty = position.qty /\ row.shown = position.price
            /\ mapping # None => row.uid = mapping.uid /\ ~mapping.excluded
<1> DEFINE evidence == call[s].evidence
<1>1. /\ call[s] \in Calls /\ call[s].op = "claimed" /\ evidence.row # None
      /\ evidence.context = Context /\ position # None
  BY DEF IInv, TypeOK, ApplyPreview, Revalidated
<1>2. evidence \in Evidences
  BY <1>1, QuoteAssumption DEF Calls, Idle
<1>3. evidence.row \in Shown
  BY <1>1, <1>2 DEF Evidences
<1>4. RowOfContext(evidence)
  BY <1>1 DEF IInv, EvidenceCurrent
<1>5. Context.position = position /\ Context.mapping = mapping
  BY DEF Context
<1>6. QED
  BY <1>1, <1>2, <1>3, <1>4, <1>5 DEF RowOfContext, Holds

\* An apply of a preview passes its id to the provenance.
LEMMA ApplyPreviewIInv ==
  ASSUME IInv, NEW s \in Sessions, ApplyPreview(s)
  PROVE  IInv'
<1> DEFINE evidence == call[s].evidence  row == evidence.row
           quote == [preview |-> evidence.id, uid |-> row.uid, price |-> row.price]
<1>1. evidence \in Evidences /\ row \in Shown /\ Holds(s, evidence.id)
  BY ClaimedEvidence
<1>2. evidence.id \in Nat /\ row.uid \in Uids /\ row.price \in Prices
  BY <1>1 DEF Evidences, Shown
<1>3. /\ position # None /\ ApplyQuote(evidence.id, row.uid, row.price)
      /\ Goes(s, Idle) /\ UNCHANGED <<month, mapping, latest, issued>>
  BY DEF ApplyPreview
<1> HIDE DEF evidence, row
<1>4. /\ LaterPosition /\ position' \in Rows
      /\ clock' \in {clock, clock + 1} /\ clock' \in Nat
      /\ provenance' = Append(provenance, quote) /\ provenance' \in Seq(Quotes)
  BY <1>2, <1>3, QuoteWrites
<1>5. Quiet /\ call' \in [Sessions -> Calls] /\ issued' \in Nat
      /\ latest' \in [id : Nat, evidence : Evidences \cup {None}] \cup {None}
  BY <1>3, EndsQuiet, QuietTypes
<1>6. TypeOK'
  BY <1>3, <1>4, <1>5 DEF IInv, TypeOK
<1>7. DerivedValuesCurrent' /\ TablesDated' /\ PatchesCurrent' /\ EvidenceCurrent'
  BY <1>3, <1>4, <1>5, <1>6, LaterWrites DEF LaterMapping
<1>8. quote \in Quotes /\ quote.preview = evidence.id
  BY <1>2 DEF Quotes
<1> HIDE DEF quote
<1>9. OneHand' /\ PreviewAppliedOnce'
  BY <1>1, <1>2, <1>3, <1>4, <1>8, AppliedHands DEF Goes
<1>10. QED
  BY <1>6, <1>7, <1>9, Collected

\* A fresh quote brings no id.
LEMMA ApplyFreshIInv ==
  ASSUME IInv, NEW s \in Sessions, ApplyFresh(s)
  PROVE  IInv'
<1> DEFINE uid == mapping.uid
<1>1. /\ position # None /\ UNCHANGED <<month, mapping, latest, issued, call>>
      /\ mapping \in MappingRows /\ uid \in Uids
  BY DEF IInv, TypeOK, ApplyFresh, Mapped, MappingRows
<1>2. PICK price \in Prices : ApplyQuote(None, uid, price)
  BY DEF ApplyFresh
<1> DEFINE quote == [preview |-> None, uid |-> uid, price |-> price]
<1> HIDE DEF uid
<1>3. /\ LaterPosition /\ position' \in Rows
      /\ clock' \in {clock, clock + 1} /\ clock' \in Nat
      /\ provenance' = Append(provenance, quote) /\ provenance' \in Seq(Quotes)
  BY <1>1, <1>2, QuoteWrites
<1>4. Quiet /\ TypeOK'
  BY <1>1, <1>3 DEF IInv, TypeOK, Quiet
<1>5. DerivedValuesCurrent' /\ TablesDated' /\ PatchesCurrent' /\ EvidenceCurrent'
  BY <1>1, <1>3, <1>4, LaterWrites DEF LaterMapping
<1>6. quote \in Quotes /\ quote.preview = None
  BY <1>1 DEF Quotes
<1> HIDE DEF quote
<1>7. OneHand' /\ PreviewAppliedOnce'
  BY <1>1, <1>3, <1>6, AppliedHands
<1>8. QED
  BY <1>4, <1>5, <1>7, Collected

-----------------------------------------------------------------------------
(* Steps that leave the tables alone. *)

\* A call that goes on with sound memories keeps everything but the hands.
LEMMA CallGoesOn ==
  ASSUME IInv, NEW s \in Sessions, NEW next \in Calls, Goes(s, next), UNCHANGED tables,
         next.op = "patch" => SameVersionSameRow(next.loaded),
         next.op = "begun" => ContextDated(next.context),
         next.op \in {"quoted", "claimed"} => RowOfContext(next.evidence),
         latest' # None /\ latest'.evidence # None => RowOfContext(latest'.evidence),
         latest' \in [id : Nat, evidence : Evidences \cup {None}] \cup {None},
         issued' \in Nat, OneHand'
  PROVE  IInv'
<1>1. /\ call \in [Sessions -> Calls] /\ call' = [call EXCEPT ![s] = next]
      /\ UNCHANGED <<month, position, mapping, provenance, clock>>
  BY DEF IInv, TypeOK, Goes, tables
<1>2. TypeOK'
  BY <1>1 DEF IInv, TypeOK
<1>3. DerivedValuesCurrent' /\ TablesDated' /\ PreviewAppliedOnce'
  BY <1>1 DEF IInv, DerivedValuesCurrent, TablesDated, Dated, PreviewAppliedOnce
<1>4. PatchesCurrent'
  BY <1>1 DEF IInv, PatchesCurrent, SameVersionSameRow
<1>5. EvidenceCurrent'
  BY <1>1 DEF IInv, EvidenceCurrent, RowOfContext, ContextDated, Dated
<1>6. QED
  BY <1>2, <1>3, <1>4, <1>5, Collected

\* Ids stay in the hands they are in where a call neither takes nor gives one.
LEMMA SameHands ==
  ASSUME IInv, UNCHANGED <<latest, issued, provenance>>,
         \A s \in Sessions, id \in Nat : Holds(s, id)' => Holds(s, id)
  PROVE  OneHand'
<1>1. \A id \in Nat : (Offered(id)' <=> Offered(id)) /\ (Applied(id)' <=> Applied(id))
  BY DEF Offered, Applied
<1>2. QED
  BY <1>1 DEF IInv, OneHand

\* What an edit remembers is the stored row when it is read.
LEMMA PatchReadIInv ==
  ASSUME IInv, NEW s \in Sessions, PatchRead(s)
  PROVE  IInv'
<1> DEFINE next == [op |-> "patch", loaded |-> position]
<1>1. /\ position \in Rows /\ position # None
      /\ Goes(s, next) /\ UNCHANGED <<tables, latest, issued>>
  BY DEF IInv, TypeOK, PatchRead, Read
<1>2. next \in Calls /\ next.op = "patch" /\ next.loaded = position
  BY <1>1 DEF Calls
<1>3. SameVersionSameRow(next.loaded)
  BY <1>1, <1>2 DEF IInv, TablesDated, Dated, SameVersionSameRow
<1>4. \A t \in Sessions, id \in Nat : Holds(t, id)' => Holds(t, id)
  BY <1>1, <1>2 DEF IInv, TypeOK, Goes, Holds
<1>5. OneHand'
  BY <1>1, <1>4, SameHands DEF tables
<1>6. latest' # None /\ latest'.evidence # None => RowOfContext(latest'.evidence)
  BY <1>1 DEF IInv, EvidenceCurrent
<1> HIDE DEF next
<1>7. QED
  BY <1>1, <1>2, <1>3, <1>5, <1>6, CallGoesOn DEF IInv, TypeOK

\* A read of the mapping takes nothing.
LEMMA MappingReadIInv ==
  ASSUME IInv, NEW s \in Sessions, MappingRead(s)
  PROVE  IInv'
<1> DEFINE next == [op |-> "mapping", loaded |-> mapping]
<1>1. /\ mapping \in MappingRows \cup {None}
      /\ Goes(s, next) /\ UNCHANGED <<tables, latest, issued>>
  BY DEF IInv, TypeOK, MappingRead, Read
<1>2. next \in Calls /\ next.op = "mapping"
  BY <1>1 DEF Calls
<1>3. \A t \in Sessions, id \in Nat : Holds(t, id)' => Holds(t, id)
  BY <1>1, <1>2 DEF IInv, TypeOK, Goes, Holds
<1>4. OneHand'
  BY <1>1, <1>3, SameHands DEF tables
<1>5. latest' # None /\ latest'.evidence # None => RowOfContext(latest'.evidence)
  BY <1>1 DEF IInv, EvidenceCurrent
<1> HIDE DEF next
<1>6. QED
  BY <1>1, <1>2, <1>4, <1>5, CallGoesOn DEF IInv, TypeOK

\* The context is a copy of the tables.
LEMMA ContextNow ==
  ASSUME IInv
  PROVE  /\ Context \in Contexts /\ ContextDated(Context)
         /\ Context.position = position /\ Context.mapping = mapping
  BY DEF IInv, TypeOK, TablesDated, Context, Contexts, ContextDated

\* A new id is nobody's.
LEMMA BeginIInv ==
  ASSUME IInv, NEW s \in Sessions, Begin(s)
  PROVE  IInv'
<1> DEFINE next == [op |-> "begun", id |-> issued + 1, context |-> Context]
<1>1. /\ issued \in Nat /\ issued' = issued + 1 /\ call[s] = Idle
      /\ latest' = [id |-> issued + 1, evidence |-> None]
      /\ Goes(s, next) /\ UNCHANGED tables
  BY DEF IInv, TypeOK, Begin
<1>2. /\ next \in Calls /\ next.op = "begun" /\ next.id = issued + 1
      /\ next.context = Context /\ ContextDated(next.context)
  BY <1>1, ContextNow DEF Calls
<1>3. /\ \A t \in Sessions \ {s}, id \in Nat : Holds(t, id)' => Holds(t, id)
      /\ \A id \in Nat : Holds(s, id)' => id = issued + 1
  BY <1>1, <1>2 DEF IInv, TypeOK, Goes, Holds
<1>4. \A id \in Nat : ~Offered(id)' /\ (Applied(id)' <=> Applied(id))
  BY <1>1 DEF Offered, Applied, tables
<1>5. OneHand'
  <2>1. OneHand
    BY DEF IInv
  <2>2. \A id \in Nat : id = issued + 1 => ~Applied(id) /\ \A t \in Sessions : ~Holds(t, id)
    BY <1>1, <2>1 DEF OneHand
  <2>3. \A id \in Nat : id > issued + 1 => id > issued
    BY <1>1
  <2>4. QED
    BY <1>1, <1>3, <1>4, <2>1, <2>2, <2>3 DEF OneHand
<1>6. latest' \in [id : Nat, evidence : Evidences \cup {None}] /\ latest'.evidence = None
  BY <1>1
<1> HIDE DEF next
<1>7. QED
  BY <1>1, <1>2, <1>5, <1>6, CallGoesOn

\* A row is built from the tables of its moment, which agree with the context wherever
\* the context is still the current one.
LEMMA PreviewRowIInv ==
  ASSUME IInv, NEW s \in Sessions, PreviewRow(s)
  PROVE  IInv'
<1> DEFINE old == call[s]
<1>1. old \in Calls /\ old.op = "begun" /\ UNCHANGED <<tables, latest, issued>>
  BY DEF IInv, TypeOK, PreviewRow, Read
<1>2. old.id \in Nat /\ old.context \in Contexts /\ ContextDated(old.context)
  BY <1>1, QuoteAssumption DEF Calls, Idle, IInv, EvidenceCurrent
<1>3. PICK row \in Shown \cup {None} :
        /\ Goes(s, Quoted(s, row))
        /\ row # None => /\ position # None /\ Mapped
                         /\ row.qty = position.qty /\ row.shown = position.price
                         /\ row.uid = mapping.uid
  <2>1. CASE Read(s, "begun", Quoted(s, None))
    BY <2>1 DEF Read
  <2>2. ASSUME position # None, Mapped, NEW row \in PreviewRows,
               Read(s, "begun", Quoted(s, row))
        PROVE  /\ row \in Shown /\ Goes(s, Quoted(s, row))
               /\ row.qty = position.qty /\ row.shown = position.price
               /\ row.uid = mapping.uid
    <3>1. position \in Rows /\ mapping \in MappingRows /\ mapping.uid # None
      BY <2>2 DEF IInv, TypeOK, Mapped
    <3>2. position.qty \in Quantities /\ position.price \in Prices /\ mapping.uid \in Uids
      BY <3>1 DEF Rows, MappingRows
    <3>3. QED
      BY <2>2, <3>2 DEF PreviewRows, Shown, Read
  <2>3. QED
    BY <2>1, <2>2 DEF PreviewRow
<1> DEFINE evidence == [id |-> old.id, context |-> old.context, row |-> row]
           next == [op |-> "quoted", evidence |-> evidence]
<1>4. /\ evidence \in Evidences /\ evidence.id = old.id
      /\ evidence.context = old.context /\ evidence.row = row
  BY <1>2, <1>3 DEF Evidences
<1> HIDE DEF evidence
<1>5. next \in Calls /\ next.op = "quoted" /\ next.evidence = evidence
  BY <1>4 DEF Calls
<1>6. Quoted(s, row) = next
  BY DEF Quoted, evidence
<1>7. RowOfContext(evidence)
  BY <1>2, <1>3, <1>4 DEF RowOfContext, Mapped
<1> HIDE DEF next
<1>8. \A t \in Sessions, id \in Nat : Holds(t, id)' => Holds(t, id)
  BY <1>1, <1>3, <1>4, <1>5, <1>6 DEF IInv, TypeOK, Goes, Holds
<1>9. OneHand'
  BY <1>1, <1>8, SameHands DEF tables
<1>10. latest' # None /\ latest'.evidence # None => RowOfContext(latest'.evidence)
  BY <1>1 DEF IInv, EvidenceCurrent
<1>11. QED
  BY <1>1, <1>3, <1>5, <1>6, <1>7, <1>9, <1>10, CallGoesOn DEF IInv, TypeOK

\* Publishing passes the id from the call to the store.
LEMMA PublishIInv ==
  ASSUME IInv, NEW s \in Sessions, Publish(s)
  PROVE  IInv'
<1> DEFINE evidence == call[s].evidence
<1>1. /\ call[s] \in Calls /\ call[s].op = "quoted" /\ Goes(s, Idle)
      /\ UNCHANGED <<tables, issued>>
      /\ \/ latest' = latest
         \/ latest' = [id |-> evidence.id, evidence |-> evidence]
  BY DEF IInv, TypeOK, Publish
<1>2. evidence \in Evidences /\ RowOfContext(evidence) /\ Holds(s, evidence.id)
  BY <1>1, QuoteAssumption DEF Calls, Idle, IInv, EvidenceCurrent, Holds
<1>3. evidence.id \in Nat
  BY <1>2 DEF Evidences
<1>4. Idle \in Calls /\ Idle.op = None
  BY DEF Calls, Idle
<1>5. /\ \A t \in Sessions, id \in Nat : Holds(t, id)' => Holds(t, id) /\ t # s
      /\ \A id \in Nat : Applied(id)' <=> Applied(id)
  BY <1>1, <1>4, QuoteAssumption DEF IInv, TypeOK, Goes, Holds, Applied, tables
<1> HIDE DEF evidence
<1>6. \A id \in Nat : Offered(id)' => Offered(id) \/ id = evidence.id
  BY <1>1 DEF Offered
<1>7. OneHand'
  <2>1. OneHand
    BY DEF IInv
  <2>2. QED
    BY <1>1, <1>2, <1>3, <1>5, <1>6, <2>1 DEF OneHand
<1>8. /\ latest' \in [id : Nat, evidence : Evidences \cup {None}] \cup {None}
      /\ latest' # None /\ latest'.evidence # None => RowOfContext(latest'.evidence)
  BY <1>1, <1>2, <1>3 DEF IInv, TypeOK, EvidenceCurrent
<1>9. QED
  BY <1>1, <1>4, <1>7, <1>8, QuoteAssumption, CallGoesOn DEF IInv, TypeOK

\* A claim passes the id from the store to the call.
LEMMA ClaimIInv ==
  ASSUME IInv, NEW s \in Sessions, Claim(s)
  PROVE  IInv'
<1> DEFINE evidence == latest.evidence
           next == [op |-> "claimed", evidence |-> evidence]
<1>1. /\ latest # None /\ evidence # None /\ latest' = None /\ Goes(s, next)
      /\ evidence \in Evidences /\ RowOfContext(evidence) /\ UNCHANGED <<tables, issued>>
  BY DEF IInv, TypeOK, EvidenceCurrent, Claim
<1>2. evidence.id \in Nat /\ Offered(evidence.id)
  BY <1>1 DEF Evidences, Offered
<1>3. next \in Calls /\ next.op = "claimed" /\ next.evidence = evidence
  BY <1>1 DEF Calls
<1> HIDE DEF next
<1>4. /\ \A t \in Sessions \ {s}, id \in Nat : Holds(t, id)' => Holds(t, id)
      /\ \A id \in Nat : Holds(s, id)' => id = evidence.id
  BY <1>1, <1>3 DEF IInv, TypeOK, Goes, Holds
<1>5. \A id \in Nat : ~Offered(id)' /\ (Applied(id)' <=> Applied(id))
  BY <1>1 DEF Offered, Applied, tables
<1> HIDE DEF evidence
<1>6. OneHand'
  <2>1. OneHand
    BY DEF IInv
  <2>2. QED
    BY <1>1, <1>2, <1>4, <1>5, <2>1 DEF OneHand
<1>7. QED
  BY <1>1, <1>3, <1>6, CallGoesOn DEF IInv, TypeOK

-----------------------------------------------------------------------------
\* The invariant holds when the process starts.
LEMMA InitIInv == Init => IInv
<1> SUFFICES ASSUME Init PROVE IInv
  OBVIOUS
<1>1. PICK q \in Quantities, p \in Prices, source \in {"manual", "t_invest"} :
        position = [qty |-> q, price |-> p, value |-> q * p, source |-> source, version |-> 0]
  BY DEF Init
<1>2. q * p \in Nat
  BY QuoteAssumption, ProductNat
<1>3. /\ position \in Rows /\ position.version = 0
      /\ position.value = position.qty * position.price
  BY <1>1, <1>2 DEF Rows
<1>4. mapping \in MappingRows /\ mapping.version = 0
  BY DEF Init, MappingRows
<1>5. TypeOK
  BY <1>3, <1>4 DEF Init, TypeOK, Headers, Calls
<1>6. \A s \in Sessions : call[s].op = None
  BY DEF Init, Idle
<1>7. /\ DerivedValuesCurrent /\ TablesDated /\ PatchesCurrent /\ EvidenceCurrent
  BY <1>3, <1>4, <1>6, QuoteAssumption
     DEF Init, DerivedValuesCurrent, TablesDated, Dated, PatchesCurrent, EvidenceCurrent
<1>8. OneHand /\ PreviewAppliedOnce
  BY <1>6, QuoteAssumption
     DEF Init, OneHand, Holds, Offered, Applied, PreviewAppliedOnce
<1>9. QED
  BY <1>5, <1>7, <1>8 DEF IInv

\* Every step keeps the invariant.
LEMMA NextIInv == IInv /\ [Next]_vars => IInv'
<1> SUFFICES ASSUME IInv, [Next]_vars PROVE IInv'
  OBVIOUS
<1>1. CASE Next
  BY <1>1, BeginIInv, PreviewRowIInv, PublishIInv, ClaimIInv, ApplyPreviewIInv,
     ApplyFreshIInv, PatchReadIInv, PatchCommitIInv, CreateIInv, DeleteIInv,
     MappingReadIInv, MappingIInv, AbortIInv, MonthIInv, RestartIInv DEF Next
<1>2. CASE UNCHANGED vars
  <2>1. TypeOK' /\ Quiet
    BY <1>2 DEF IInv, TypeOK, Quiet, vars, tables
  <2>2. QED
    BY <1>2, <2>1, WriteIInv DEF vars, tables, LaterPosition, LaterMapping
<1>3. QED
  BY <1>1, <1>2

\* The invariant holds in every reachable state: versions grow strictly, so what a call
\* remembers under the stored version is the stored row (concurrency.py:38).
THEOREM Invariant == Spec => []IInv
  BY InitIInv, NextIInv, PTL DEF Spec

\* The stored value is the product of the stored quantity and price (positions.py:97).
THEOREM ValuesDerived == Spec => []DerivedValuesCurrent
<1>1. IInv => DerivedValuesCurrent
  BY DEF IInv
<1>2. QED
  BY <1>1, Invariant, PTL

\* A preview is applied at most once, however its calls and those of other tabs
\* interleave (quote_preview_evidence.py:128).
THEOREM AppliedOnce == Spec => []PreviewAppliedOnce
<1>1. IInv => PreviewAppliedOnce
  BY DEF IInv
<1>2. QED
  BY <1>1, Invariant, PTL

\* A sequence that a provenance row is appended to is another one.
LEMMA QuotesAppended ==
  ASSUME IInv, NEW row, provenance' = Append(provenance, row)
  PROVE  provenance' # provenance
<1>1. Len(provenance) \in Nat /\ Len(provenance') = Len(provenance) + 1
  BY DEF IInv, TypeOK
<1>2. QED
  BY <1>1

\* An edit replaces the very row its request had loaded and an applied quote leaves the
\* quantity, so neither undoes the other (concurrency.py:47).
THEOREM NoLostUpdate == Spec => EditsReplaceWhatTheyRead
<1> DEFINE Spares ==
      position # None /\ position' \notin {None, position} =>
        \/ provenance' # provenance /\ position'.qty = position.qty
        \/ \E s \in Sessions :
             call[s].op = "patch" /\ call'[s] = Idle /\ call[s].loaded = position
<1>1. IInv /\ [Next]_vars => [Spares]_vars
  <2> SUFFICES ASSUME IInv, [Next]_vars, position # None, position' # None,
                      position' # position
               PROVE  Spares
    OBVIOUS
  <2>1. PICK s \in Sessions :
          PatchCommit(s) \/ ApplyPreview(s) \/ ApplyFresh(s)
    <3>1. ~(Close \/ Reopen \/ Restart \/ UNCHANGED vars)
      BY DEF Close, Reopen, MonthWrite, Restart, vars, tables
    <3>2. \A s \in Sessions :
            ~(Begin(s) \/ PreviewRow(s) \/ Publish(s) \/ Claim(s) \/ PatchRead(s))
      BY DEF Begin, PreviewRow, Publish, Claim, PatchRead, Read, tables
    <3>3. \A s \in Sessions :
            ~(MappingRead(s) \/ Abort(s) \/ Create(s) \/ Delete(s))
      BY DEF MappingRead, Read, Abort, Create, Delete, tables
    <3>4. \A s \in Sessions :
            ~(Accept(s) \/ Exclude(s) \/ ClearExclusion(s) \/ ClearMapping(s))
      BY DEF Accept, Exclude, ClearExclusion, ClearMapping, MappingCommit
    <3>5. QED
      BY <3>1, <3>2, <3>3, <3>4 DEF Next
  <2>2. CASE PatchCommit(s)
    BY <2>2, PatchCommitIInv
  <2>3. CASE ApplyPreview(s)
    <3> DEFINE evidence == call[s].evidence
    <3>1. /\ evidence \in Evidences /\ evidence.row \in Shown
          /\ ApplyQuote(evidence.id, evidence.row.uid, evidence.row.price)
      BY <2>3, ClaimedEvidence DEF ApplyPreview
    <3>2. evidence.id \in Nat /\ evidence.row.uid \in Uids /\ evidence.row.price \in Prices
      BY <3>1 DEF Evidences, Shown
    <3> HIDE DEF evidence
    <3>3. QED
      BY <3>1, <3>2, QuoteWrites, QuotesAppended
  <2>4. CASE ApplyFresh(s)
    <3>1. PICK price \in Prices : ApplyQuote(None, mapping.uid, price)
      BY <2>4 DEF ApplyFresh
    <3>2. mapping.uid \in Uids
      BY <2>4 DEF IInv, TypeOK, ApplyFresh, Mapped, MappingRows
    <3>3. QED
      BY <3>1, <3>2, QuoteWrites, QuotesAppended
  <2>5. QED
    BY <2>1, <2>2, <2>3, <2>4
<1>2. QED
  BY <1>1, Invariant, PTL DEF Spec, EditsReplaceWhatTheyRead

\* A quote that is applied is of a draft month and of the identity mapped now; from a
\* preview, it is of the quantity and price shown (quote_apply.py:174).
THEOREM AppliedAsPreviewed == Spec => QuotesAsPreviewed
<1> DEFINE Sound(quote) ==
      /\ month.status = "draft"
      /\ mapping # None => mapping.uid = quote.uid /\ ~mapping.excluded
      /\ quote.preview # None =>
           \E s \in Sessions :
             /\ call[s].op = "claimed"
             /\ LET shown == call[s].evidence
                IN /\ shown.id = quote.preview
                   /\ shown.row.qty = position.qty /\ shown.row.shown = position.price
                   /\ mapping = None => shown.context.mapping = None
           AsPreviewed == \A i \in DOMAIN provenance' \ DOMAIN provenance : Sound(provenance'[i])
<1>1. ASSUME IInv, NEW quote \in Quotes, provenance' = Append(provenance, quote), Sound(quote)
      PROVE  AsPreviewed
  <2>1. provenance \in Seq(Quotes)
    BY <1>1 DEF IInv, TypeOK
  <2>2. \A i \in DOMAIN provenance' \ DOMAIN provenance : provenance'[i] = quote
    BY <1>1, <2>1
  <2> HIDE DEF Sound
  <2>3. QED
    BY <1>1, <2>2
<1>2. ASSUME IInv, NEW s \in Sessions, ApplyPreview(s)
      PROVE  AsPreviewed
  <2> DEFINE evidence == call[s].evidence  row == evidence.row
             quote == [preview |-> evidence.id, uid |-> row.uid, price |-> row.price]
  <2>1. /\ evidence \in Evidences /\ row \in Shown /\ evidence.context = Context
        /\ row.qty = position.qty /\ row.shown = position.price
        /\ mapping # None => row.uid = mapping.uid /\ ~mapping.excluded
    BY <1>2, ClaimedEvidence
  <2>2. evidence.id \in Nat /\ row.uid \in Uids /\ row.price \in Prices
    BY <2>1 DEF Evidences, Shown
  <2>3. /\ month.status = "draft" /\ call[s].op = "claimed"
        /\ provenance' = Append(provenance, quote)
    BY <1>2 DEF ApplyPreview, ApplyQuote, Append1, Draft
  <2>4. evidence.context.mapping = mapping
    BY <2>1 DEF Context
  <2>5. quote \in Quotes /\ quote.preview = evidence.id /\ quote.uid = row.uid
    BY <2>2 DEF Quotes
  <2> HIDE DEF quote
  <2>6. Sound(quote)
    BY <2>1, <2>3, <2>4, <2>5
  <2>7. QED
    BY <1>1, <1>2, <2>3, <2>5, <2>6
<1>3. ASSUME IInv, NEW s \in Sessions, ApplyFresh(s)
      PROVE  AsPreviewed
  <2>1. PICK price \in Prices :
          provenance' = Append(provenance, [preview |-> None, uid |-> mapping.uid, price |-> price])
    BY <1>3 DEF ApplyFresh, ApplyQuote, Append1
  <2> DEFINE quote == [preview |-> None, uid |-> mapping.uid, price |-> price]
  <2>2. /\ mapping.uid \in Uids /\ month.status = "draft" /\ ~mapping.excluded
    BY <1>3 DEF IInv, TypeOK, ApplyFresh, Mapped, MappingRows, Draft
  <2>3. quote \in Quotes /\ quote.preview = None /\ quote.uid = mapping.uid
    BY <2>2 DEF Quotes
  <2> HIDE DEF quote
  <2>4. Sound(quote)
    BY <2>2, <2>3
  <2>5. provenance' = Append(provenance, quote)
    BY <2>1 DEF quote
  <2>6. QED
    BY <1>1, <1>3, <2>3, <2>4, <2>5
<1>4. ASSUME UNCHANGED provenance \/ provenance' = <<>>
      PROVE  AsPreviewed
  <2>1. DOMAIN provenance' \ DOMAIN provenance = {}
    BY <1>4
  <2> HIDE DEF Sound
  <2>2. QED
    BY <2>1
<1>5. IInv /\ [Next]_vars => [AsPreviewed]_vars
  <2> SUFFICES ASSUME IInv, Next PROVE AsPreviewed
    OBVIOUS
  <2> HIDE DEF AsPreviewed
  <2>1. CASE Close \/ Reopen \/ Restart
    BY <1>4, <2>1 DEF Close, Reopen, MonthWrite, Restart, tables
  <2>2. ASSUME NEW s \in Sessions,
               Begin(s) \/ PreviewRow(s) \/ Publish(s) \/ Claim(s) \/ PatchRead(s)
        PROVE  AsPreviewed
    BY <1>4, <2>2 DEF Begin, PreviewRow, Publish, Claim, PatchRead, Read, tables
  <2>3. ASSUME NEW s \in Sessions,
               PatchCommit(s) \/ Create(s) \/ Delete(s) \/ MappingRead(s) \/ Abort(s)
        PROVE  AsPreviewed
    BY <1>4, <2>3 DEF PatchCommit, Create, Delete, MappingRead, Abort, Read, tables
  <2>4. ASSUME NEW s \in Sessions,
               Accept(s) \/ Exclude(s) \/ ClearExclusion(s) \/ ClearMapping(s)
        PROVE  AsPreviewed
    BY <1>4, <2>4 DEF Accept, Exclude, ClearExclusion, ClearMapping, MappingCommit
  <2>5. QED
    BY <1>2, <1>3, <2>1, <2>2, <2>3, <2>4 DEF Next
<1>6. QED
  BY <1>5, Invariant, PTL DEF Spec, QuotesAsPreviewed

=============================================================================
