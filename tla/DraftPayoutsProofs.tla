-------------------------- MODULE DraftPayoutsProofs --------------------------
(***************************************************************************)
(* Safety of the forecast refresh for any number of positions, identities  *)
(* and events: the schedule has one task for an active month, and what a   *)
(* batch saves is true when it is saved.                                   *)
(***************************************************************************)
EXTENDS DraftPayouts, TLAPS

Holdings == [Positions -> Quantities]
Mappings == [Positions -> Uids \cup {Excluded, None}]
Revisions == [uid : Uids, quantity : Quantities, amount : Amounts]
Forecasts == [Positions -> Revisions \cup {None}]
Statuses == {"idle", "pending", "running", "partial", "error", "needs_review", "completed"}

Batches ==
  [op : Stages \cup {None}, fresh : BOOLEAN, source : Holdings \cup {None},
   tokens : Mappings \cup {None}, todo : SUBSET Positions, found : SUBSET Results,
   at : Positions \cup {None}, uid : Uids \cup {None},
   context : (Mappings \X Forecasts) \cup {None}, amount : Amounts \cup {None}]

TypeOK ==
  /\ month \in {"draft", "closed"}
  /\ quantity \in Holdings /\ mapping \in Mappings /\ forecast \in Forecasts
  /\ accepted \in Nat /\ posted \in Nat /\ covered \in Nat /\ others \in Nat
  /\ status \in Statuses /\ due \in BOOLEAN /\ tasks \in Nat
  /\ batch \in [Jobs -> Batches]

\* The background batch exists just while the month's status is running.
RunningHasBatch == status = "running" <=> batch["auto"].op # None

Loaded == {"next", "mapping", "ready", "fetched", "selected"}
Answered == {"fetched", "selected"}

\* What a batch remembers agrees with how far it has come: the identity it works with is
\* the one of its token, and after the answer the one of the context it will compare.
Remembers(b) ==
  /\ b.op \in Loaded => b.tokens \in Mappings /\ b.source \in Holdings
  /\ b.op \in Loaded \ {"next"} => b.at \in Positions /\ b.uid \in Uids
  /\ b.op = "ready" => b.tokens[b.at] = b.uid
  /\ b.op \in Answered => /\ b.context \in Mappings \X Forecasts
                          /\ b.context[1][b.at] = b.uid
                          /\ b.amount \in Amounts

BatchesRemember == \A j \in Jobs : Remembers(batch[j])

IInv == TypeOK /\ RunningHasBatch /\ OneTaskPerMonth /\ BatchesRemember

-----------------------------------------------------------------------------
(* Batches. *)

\* A batch that another connection has disturbed is where it was.
LEMMA DisturbedBatch ==
  ASSUME NEW b \in Batches, Remembers(b)
  PROVE  Disturbed(b) \in Batches /\ Remembers(Disturbed(b)) /\ Disturbed(b).op = b.op
<1>1. Disturbed(b) \in Batches
  BY DEF Batches, Disturbed
<1>2. /\ Disturbed(b).op = b.op /\ Disturbed(b).tokens = b.tokens
      /\ Disturbed(b).source = b.source /\ Disturbed(b).at = b.at /\ Disturbed(b).uid = b.uid
      /\ Disturbed(b).context = b.context /\ Disturbed(b).amount = b.amount
  BY DEF Batches, Disturbed
<1>3. QED
  BY <1>1, <1>2 DEF Remembers

\* A batch that is over or has just been opened.
LEMMA FreshBatch ==
  /\ NoBatch \in Batches /\ Remembers(NoBatch) /\ NoBatch.op = None
  /\ Opened \in Batches /\ Remembers(Opened) /\ Opened.op # None
<1>1. NoBatch \in Batches /\ NoBatch.op = None
  BY DEF NoBatch, Batches
<1>2. Opened \in Batches /\ Opened.op = "opened"
  BY <1>1 DEF Opened, Batches, Stages
<1>3. QED
  BY <1>1, <1>2, PayoutAssumption DEF Remembers, Loaded, Answered, Stages

\* A batch that has finished one position is ready for the next one.
LEMMA PastBatch ==
  ASSUME NEW j \in Jobs, NEW p, NEW results \in SUBSET Results,
         batch[j] \in Batches, Remembers(batch[j]), batch[j].op \in Loaded
  PROVE  /\ Past(j, p, results) \in Batches /\ Remembers(Past(j, p, results))
         /\ Past(j, p, results).op = "next"
<1> DEFINE b == batch[j]  next == Past(j, p, results)
           found == IF j = "auto" THEN b.found \cup (results \ {"unchanged"}) ELSE {}
<1>1. found \in SUBSET Results
  BY DEF Batches, Results
<1>2. next = [b EXCEPT !.op = "next", !.todo = b.todo \ {p}, !.found = found,
                       !.at = None, !.uid = None, !.context = None, !.amount = None]
  BY DEF Past
<1>3. b \in Batches /\ b.todo \ {p} \in SUBSET Positions /\ "next" \in Stages
  BY DEF Batches, Stages
<1> HIDE DEF b, found, next
<1>4. next \in Batches
  BY <1>1, <1>2, <1>3 DEF Batches
<1>5. next.op = "next" /\ next.tokens = b.tokens /\ next.source = b.source
  BY <1>2, <1>3 DEF Batches
<1>6. Remembers(next)
  BY <1>5 DEF Remembers, Loaded, Answered, b
<1>7. QED
  BY <1>4, <1>5, <1>6 DEF next

-----------------------------------------------------------------------------
(* Steps. *)

\* A commit of another connection leaves every batch where it was.
LEMMA ElsewhereKeeps ==
  ASSUME IInv, CommitElsewhere
  PROVE  /\ batch' \in [Jobs -> Batches] /\ BatchesRemember'
         /\ batch'["auto"].op = batch["auto"].op
<1>1. \A j \in Jobs : batch[j] \in Batches /\ Remembers(batch[j])
  BY DEF IInv, TypeOK, BatchesRemember
<1>2. batch' = [j \in Jobs |-> Disturbed(batch[j])]
  BY DEF CommitElsewhere
<1>3. \A j \in Jobs : /\ batch'[j] \in Batches /\ Remembers(batch'[j])
                      /\ batch'[j].op = batch[j].op
  BY <1>1, <1>2, DisturbedBatch
<1>4. batch' \in [Jobs -> Batches]
  BY <1>2, <1>3
<1>5. QED
  BY <1>3, <1>4 DEF BatchesRemember, Jobs

\* A step of one batch to a sound batch.
LEMMA GoesKeeps ==
  ASSUME IInv, NEW j \in Jobs, NEW b \in Batches, Remembers(b), Goes(j, b)
  PROVE  /\ batch' \in [Jobs -> Batches] /\ BatchesRemember'
         /\ batch'[j] = b /\ \A k \in Jobs \ {j} : batch'[k] = batch[k]
  BY DEF IInv, TypeOK, Goes, BatchesRemember

\* A commit of one batch, which disturbs the other one.
LEMMA CommitByKeeps ==
  ASSUME IInv, NEW j \in Jobs, NEW b \in Batches, Remembers(b), CommitBy(j, b)
  PROVE  /\ batch' \in [Jobs -> Batches] /\ BatchesRemember'
         /\ batch'[j] = b /\ \A k \in Jobs \ {j} : batch'[k].op = batch[k].op
<1>1. \A k \in Jobs : batch[k] \in Batches /\ Remembers(batch[k])
  BY DEF IInv, TypeOK, BatchesRemember
<1>2. batch' = [k \in Jobs |-> IF k = j THEN b ELSE Disturbed(batch[k])]
  BY DEF CommitBy
<1>3. \A k \in Jobs : /\ batch'[k] \in Batches /\ Remembers(batch'[k])
                      /\ k # j => batch'[k].op = batch[k].op
  BY <1>1, <1>2, DisturbedBatch
<1>4. batch' \in [Jobs -> Batches] /\ batch'[j] = b
  BY <1>2, <1>3
<1>5. QED
  BY <1>3, <1>4 DEF BatchesRemember

\* A batch that goes on within its task keeps the invariant, whatever it committed.
LEMMA GoesOnIInv ==
  ASSUME IInv, NEW j \in Jobs, NEW b \in Batches, Remembers(b), b.op # None,
         batch[j].op # None, Goes(j, b) \/ CommitBy(j, b),
         mapping' \in Mappings, forecast' \in Forecasts, covered' \in Nat,
         UNCHANGED <<month, quantity, accepted, posted, scheduler, others>>
  PROVE  IInv'
<1>1. /\ batch' \in [Jobs -> Batches] /\ BatchesRemember'
      /\ batch'[j] = b /\ \A k \in Jobs \ {j} : batch'[k].op = batch[k].op
  <2>1. CASE Goes(j, b)
    BY <2>1, GoesKeeps
  <2>2. CASE CommitBy(j, b)
    BY <2>2, CommitByKeeps
  <2>3. QED
    BY <2>1, <2>2
<1>2. TypeOK'
  BY <1>1 DEF IInv, TypeOK, scheduler
<1>3. batch'["auto"].op # None <=> batch["auto"].op # None
  BY <1>1 DEF Jobs
<1>4. RunningHasBatch' /\ OneTaskPerMonth'
  BY <1>3 DEF IInv, RunningHasBatch, OneTaskPerMonth, Active, scheduler
<1>5. QED
  BY <1>1, <1>2, <1>4 DEF IInv

\* So does a batch that finishes one position without saving anything.
LEMMA FindsIInv ==
  ASSUME IInv, NEW j \in Jobs, NEW p, NEW result \in Results, batch[j].op \in Loaded,
         Finds(j, p, result), UNCHANGED covered
  PROVE  IInv'
<1> DEFINE b == Past(j, p, {result})
<1>1. batch[j] \in Batches /\ Remembers(batch[j])
  BY DEF IInv, TypeOK, BatchesRemember
<1>2. b \in Batches /\ Remembers(b) /\ b.op = "next"
  BY <1>1, PastBatch
<1>3. b.op # None /\ batch[j].op # None
  BY <1>2, PayoutAssumption DEF Loaded, Stages
<1>4. Goes(j, b) /\ UNCHANGED <<tables, accepted, posted, scheduler, others>>
  BY DEF Finds, Step
<1>5. mapping' \in Mappings /\ forecast' \in Forecasts /\ covered' \in Nat
  BY <1>4 DEF IInv, TypeOK, tables
<1> HIDE DEF b
<1>6. QED
  BY <1>2, <1>3, <1>4, <1>5, GoesOnIInv DEF tables

\* The end of a batch releases the month where it was the background one.
LEMMA EndsIInv ==
  ASSUME IInv, NEW j \in Jobs,
         NEW outcome \in {"partial", "error", "needs_review", "completed"},
         batch[j].op # None, Ends(j, outcome)
  PROVE  IInv'
<1>1. Goes(j, NoBatch)
  BY DEF Ends
<1>2. /\ batch' \in [Jobs -> Batches] /\ BatchesRemember'
      /\ batch'[j] = NoBatch /\ \A k \in Jobs \ {j} : batch'[k] = batch[k]
  BY <1>1, GoesKeeps, FreshBatch
<1>3. CASE j = "auto"
  <2>1. status = "running" /\ tasks = 1
    BY <1>3 DEF IInv, RunningHasBatch, OneTaskPerMonth, Active
  <2>2. status' = outcome /\ due' = FALSE /\ tasks' = 0
    BY <1>3, <2>1 DEF Ends
  <2>3. TypeOK'
    BY <1>2, <2>2 DEF IInv, TypeOK, Ends, tables, Statuses
  <2>4. RunningHasBatch' /\ OneTaskPerMonth'
    BY <1>2, <1>3, <2>2, FreshBatch DEF RunningHasBatch, OneTaskPerMonth, Active
  <2>5. QED
    BY <1>2, <2>3, <2>4 DEF IInv
<1>4. CASE j # "auto"
  <2>1. UNCHANGED scheduler /\ UNCHANGED <<tables, accepted, posted, covered, others>>
    BY <1>4 DEF Ends
  <2>2. batch'["auto"] = batch["auto"]
    BY <1>2, <1>4 DEF Jobs
  <2>3. TypeOK'
    BY <1>2, <2>1 DEF IInv, TypeOK, scheduler, tables
  <2>4. RunningHasBatch' /\ OneTaskPerMonth'
    BY <2>1, <2>2 DEF IInv, RunningHasBatch, OneTaskPerMonth, Active, scheduler
  <2>5. QED
    BY <1>2, <2>3, <2>4 DEF IInv
<1>5. QED
  BY <1>3, <1>4

\* A batch that begins to read.
LEMMA PinIInv ==
  ASSUME IInv, NEW j \in Jobs, Pin(j)
  PROVE  IInv'
<1> DEFINE old == batch[j]
           b == [old EXCEPT !.op = "pinned", !.fresh = TRUE]
<1>1. old \in Batches /\ old.op = "opened" /\ Step(j, b) /\ UNCHANGED covered
  BY DEF IInv, TypeOK, Pin
<1>2. b \in Batches /\ b.op = "pinned"
  BY <1>1 DEF Batches, Stages
<1>3. Remembers(b) /\ b.op # None /\ old.op # None
  BY <1>1, <1>2, PayoutAssumption DEF Remembers, Loaded, Answered, Stages
<1>4. mapping' \in Mappings /\ forecast' \in Forecasts /\ covered' \in Nat
  BY <1>1 DEF IInv, TypeOK, Step, tables
<1> HIDE DEF b
<1>5. QED
  BY <1>1, <1>2, <1>3, <1>4, GoesOnIInv DEF Step, tables

\* The context is a copy of the tables.
LEMMA ReadContextIInv ==
  ASSUME IInv, NEW j \in Jobs, ReadContext(j)
  PROVE  IInv'
<1> DEFINE old == batch[j]
           b == [old EXCEPT !.op = "next", !.source = quantity, !.tokens = mapping,
                            !.todo = Positions]
<1>1. /\ old \in Batches /\ old.op = "pinned" /\ Step(j, b)
      /\ quantity \in Holdings /\ mapping \in Mappings
  BY DEF IInv, TypeOK, ReadContext
<1> HIDE DEF old
<1>2. b \in Batches /\ b.op = "next" /\ b.tokens = mapping /\ b.source = quantity
  BY <1>1 DEF Batches, Stages
<1>3. Remembers(b) /\ b.op # None /\ old.op # None
  BY <1>1, <1>2, PayoutAssumption DEF Remembers, Loaded, Answered, Stages
<1>4. mapping' \in Mappings /\ forecast' \in Forecasts /\ covered' \in Nat
  BY <1>1 DEF IInv, TypeOK, Step, tables, ReadContext
<1> HIDE DEF b
<1>5. QED
  BY <1>1, <1>2, <1>3, <1>4, GoesOnIInv DEF Step, tables, old

\* What is fetched is remembered with the token it was fetched under.
LEMMA FetchIInv ==
  ASSUME IInv, NEW j \in Jobs, NEW p \in Positions, NEW uid \in Uids,
         batch[j].op \in Loaded, TokensHold(j, p) => mapping[p] = uid,
         Fetch(j, p, uid), UNCHANGED covered
  PROVE  IInv'
<1> DEFINE old == batch[j]
<1>1. /\ old \in Batches /\ Remembers(old) /\ old.op \in Loaded
      /\ mapping \in Mappings /\ forecast \in Forecasts
  BY DEF IInv, TypeOK, BatchesRemember
<1>2. CASE Finds(j, p, "needs_review")
  BY <1>2, FindsIInv DEF Results
<1>3. ASSUME TokensHold(j, p), NEW a \in Amounts,
             Step(j, [old EXCEPT !.op = "fetched", !.at = p, !.uid = uid,
                                 !.context = ForecastToken, !.amount = a])
      PROVE  IInv'
  <2> DEFINE token == ForecastToken
             b == [old EXCEPT !.op = "fetched", !.at = p, !.uid = uid,
                              !.context = token, !.amount = a]
  <2>1. token \in Mappings \X Forecasts /\ token[1][p] = uid
    BY <1>1, <1>3 DEF ForecastToken
  <2>2. Step(j, b)
    BY <1>3
  <2> HIDE DEF token, old
  <2>3. /\ b \in Batches /\ b.op = "fetched" /\ b.at = p /\ b.uid = uid
        /\ b.context = token /\ b.amount = a /\ b.tokens = old.tokens /\ b.source = old.source
    BY <1>1, <2>1 DEF Batches, Stages
  <2>4. Remembers(b) /\ b.op # None /\ old.op # None
    BY <1>1, <2>1, <2>3, PayoutAssumption DEF Remembers, Loaded, Answered, Stages
  <2>5. mapping' \in Mappings /\ forecast' \in Forecasts /\ covered' \in Nat
    BY <2>2 DEF IInv, TypeOK, Step, tables
  <2> HIDE DEF b
  <2>6. QED
    BY <2>2, <2>3, <2>4, <2>5, GoesOnIInv DEF Step, tables, old
<1>4. QED
  BY <1>2, <1>3 DEF Fetch

\* The next position is looked up, fetched or left.
LEMMA PositionIInv ==
  ASSUME IInv, NEW j \in Jobs, Position(j)
  PROVE  IInv'
<1> DEFINE old == batch[j]
<1>1. /\ old \in Batches /\ Remembers(old) /\ old.op = "next" /\ old.op \in Loaded
      /\ UNCHANGED covered
  BY DEF IInv, TypeOK, BatchesRemember, Position, Loaded
<1>2. PICK p \in old.todo :
        IF TokensHold(j, p) /\ mapping[p] = None /\ forecast[p] = None
        THEN \E u \in Uids : Step(j, [old EXCEPT !.op = "mapping", !.at = p, !.uid = u])
        ELSE IF TokensHold(j, p) /\ mapping[p] \in Uids
        THEN Fetch(j, p, mapping[p])
        ELSE Finds(j, p, "needs_review")
  BY DEF Position
<1>3. p \in Positions
  BY <1>1, <1>2 DEF Batches
<1>4. ASSUME NEW u \in Uids, Step(j, [old EXCEPT !.op = "mapping", !.at = p, !.uid = u])
      PROVE  IInv'
  <2> DEFINE b == [old EXCEPT !.op = "mapping", !.at = p, !.uid = u]
  <2>1. Step(j, b)
    BY <1>4
  <2> HIDE DEF old
  <2>2. /\ b \in Batches /\ b.op = "mapping" /\ b.at = p /\ b.uid = u
        /\ b.tokens = old.tokens /\ b.source = old.source
    BY <1>1, <1>3 DEF Batches, Stages
  <2>3. Remembers(b) /\ b.op # None /\ old.op # None
    BY <1>1, <1>3, <2>2, PayoutAssumption DEF Remembers, Loaded, Answered, Stages
  <2>4. mapping' \in Mappings /\ forecast' \in Forecasts /\ covered' \in Nat
    BY <1>1, <2>1 DEF IInv, TypeOK, Step, tables
  <2> HIDE DEF b
  <2>5. QED
    BY <2>1, <2>2, <2>3, <2>4, <1>1, GoesOnIInv DEF Step, tables, old
<1>5. ASSUME mapping[p] \in Uids, Fetch(j, p, mapping[p])
      PROVE  IInv'
  BY <1>1, <1>3, <1>5, FetchIInv
<1>6. CASE Finds(j, p, "needs_review")
  BY <1>1, <1>6, FindsIInv DEF Results
<1>7. QED
  BY <1>2, <1>4, <1>5, <1>6

\* A mapping that the batch accepts becomes its own token.
LEMMA AcceptMappingIInv ==
  ASSUME IInv, NEW j \in Jobs, AcceptMapping(j)
  PROVE  IInv'
<1> DEFINE old == batch[j]
<1>1. /\ old \in Batches /\ Remembers(old) /\ old.op = "mapping" /\ old.op \in Loaded
      /\ mapping \in Mappings /\ UNCHANGED covered
  BY DEF IInv, TypeOK, BatchesRemember, AcceptMapping, Loaded
<1>2. /\ old.at \in Positions /\ old.uid \in Uids
      /\ old.tokens \in Mappings /\ old.source \in Holdings
  BY <1>1 DEF Remembers, Loaded
<1>3. CASE Finds(j, old.at, "error")
  BY <1>1, <1>3, FindsIInv DEF Results
<1>4. ASSUME mapping' = [mapping EXCEPT ![old.at] = old.uid],
             CommitBy(j, [old EXCEPT !.op = "ready", !.tokens[old.at] = old.uid]),
             UNCHANGED <<month, quantity, forecast, accepted, posted, scheduler, others>>
      PROVE  IInv'
  <2> DEFINE tokens == [old.tokens EXCEPT ![old.at] = old.uid]
             b == [old EXCEPT !.op = "ready", !.tokens = tokens]
  <2>1. tokens \in Mappings /\ tokens[old.at] = old.uid
    BY <1>2 DEF Mappings
  <2>2. CommitBy(j, b)
    BY <1>4
  <2> HIDE DEF old, tokens
  <2>3. /\ b \in Batches /\ b.op = "ready" /\ b.at = old.at /\ b.uid = old.uid
        /\ b.tokens = tokens /\ b.source = old.source
    BY <1>1, <2>1 DEF Batches, Stages
  <2>4. Remembers(b) /\ b.op # None /\ old.op # None
    BY <1>1, <1>2, <2>1, <2>3, PayoutAssumption DEF Remembers, Loaded, Answered, Stages
  <2>5. mapping' \in Mappings
    BY <1>1, <1>2, <1>4 DEF Mappings
  <2>6. forecast' \in Forecasts /\ covered' \in Nat
    BY <1>1, <1>4 DEF IInv, TypeOK
  <2> HIDE DEF b
  <2>7. QED
    BY <2>2, <2>3, <2>4, <2>5, <2>6, <1>4, GoesOnIInv DEF old
<1>5. QED
  BY <1>3, <1>4 DEF AcceptMapping

\* The mapping just accepted is the one fetched under.
LEMMA FetchAcceptedIInv ==
  ASSUME IInv, NEW j \in Jobs, FetchAccepted(j)
  PROVE  IInv'
<1>1. /\ Remembers(batch[j]) /\ batch[j].op = "ready" /\ batch[j].op \in Loaded
      /\ Fetch(j, batch[j].at, batch[j].uid) /\ UNCHANGED covered
  BY DEF IInv, BatchesRemember, FetchAccepted, Loaded
<1>2. /\ batch[j].at \in Positions /\ batch[j].uid \in Uids
      /\ batch[j].tokens[batch[j].at] = batch[j].uid
  BY <1>1 DEF Remembers, Loaded
<1>3. TokensHold(j, batch[j].at) => mapping[batch[j].at] = batch[j].uid
  BY <1>2 DEF TokensHold
<1>4. QED
  BY <1>1, <1>2, <1>3, FetchIInv

\* What is selected was compared with the context it was fetched in.
LEMMA SelectIInv ==
  ASSUME IInv, NEW j \in Jobs, Select(j)
  PROVE  IInv'
<1> DEFINE old == batch[j]
           b == [old EXCEPT !.op = "selected"]
<1>1. /\ old \in Batches /\ Remembers(old) /\ old.op = "fetched" /\ old.op \in Loaded
      /\ UNCHANGED covered
  BY DEF IInv, TypeOK, BatchesRemember, Select, Loaded
<1>2. ASSUME NEW result \in Results, Finds(j, old.at, result)
      PROVE  IInv'
  BY <1>1, <1>2, FindsIInv
<1>3. ASSUME Step(j, b)
      PROVE  IInv'
  <2> HIDE DEF old
  <2>1. /\ b \in Batches /\ b.op = "selected" /\ b.at = old.at /\ b.uid = old.uid
        /\ b.tokens = old.tokens /\ b.source = old.source
        /\ b.context = old.context /\ b.amount = old.amount
    BY <1>1 DEF Batches, Stages
  <2>2. Remembers(b) /\ b.op # None /\ old.op # None
    BY <1>1, <2>1, PayoutAssumption DEF Remembers, Loaded, Answered, Stages
  <2>3. mapping' \in Mappings /\ forecast' \in Forecasts /\ covered' \in Nat
    BY <1>1, <1>3 DEF IInv, TypeOK, Step, tables
  <2> HIDE DEF b
  <2>4. QED
    BY <1>1, <1>3, <2>1, <2>2, <2>3, GoesOnIInv DEF Step, tables, old
<1>4. QED
  BY <1>2, <1>3 DEF Select, Results

\* A revision that is saved has the accepted quantity and the mapped identity.
LEMMA SavedRevision ==
  ASSUME IInv, NEW j \in Jobs, batch[j].op = "selected", ForecastCurrent(j)
  PROVE  /\ batch[j].at \in Positions /\ Revision(j) \in Revisions
         /\ Revision(j).quantity = quantity[batch[j].at]
         /\ Revision(j).uid = mapping[batch[j].at] /\ month = "draft"
<1>1. /\ Remembers(batch[j]) /\ quantity \in Holdings
  BY DEF IInv, TypeOK, BatchesRemember
<1>2. /\ batch[j].at \in Positions /\ batch[j].uid \in Uids /\ batch[j].amount \in Amounts
      /\ batch[j].context[1][batch[j].at] = batch[j].uid
  BY <1>1 DEF Remembers, Loaded, Answered
<1>3. batch[j].context = <<mapping, forecast>> /\ month = "draft"
  BY DEF ForecastCurrent, SourceCurrent, ForecastToken
<1>4. QED
  BY <1>1, <1>2, <1>3 DEF Revision, Revisions, Holdings

\* A save commits one revision and leaves the batch at its next position.
LEMMA SaveIInv ==
  ASSUME IInv, NEW j \in Jobs, Save(j)
  PROVE  IInv'
<1> DEFINE old == batch[j]
<1>1. /\ old \in Batches /\ Remembers(old) /\ old.op = "selected" /\ old.op \in Loaded
      /\ UNCHANGED covered
  BY DEF IInv, TypeOK, BatchesRemember, Save, Loaded
<1>2. CASE Finds(j, old.at, "error")
  BY <1>1, <1>2, FindsIInv DEF Results
<1>3. ASSUME ForecastCurrent(j), NEW rest \in SUBSET {"needs_review"},
             forecast' = [forecast EXCEPT ![old.at] = Revision(j)],
             CommitBy(j, Past(j, old.at, {"updated"} \cup rest)),
             UNCHANGED <<month, quantity, mapping, accepted, posted, scheduler, others>>
      PROVE  IInv'
  <2> DEFINE b == Past(j, old.at, {"updated"} \cup rest)
  <2>1. {"updated"} \cup rest \in SUBSET Results
    BY DEF Results
  <2>2. b \in Batches /\ Remembers(b) /\ b.op = "next"
    BY <1>1, <2>1, PastBatch
  <2>3. b.op # None /\ old.op # None
    BY <1>1, <2>2, PayoutAssumption DEF Stages
  <2>4. old.at \in Positions /\ Revision(j) \in Revisions
    BY <1>1, <1>3, SavedRevision
  <2>5. forecast' \in Forecasts /\ mapping' \in Mappings /\ covered' \in Nat
    BY <1>1, <1>3, <2>4 DEF IInv, TypeOK, Forecasts
  <2>6. CommitBy(j, b)
    BY <1>3
  <2> HIDE DEF b
  <2>7. QED
    BY <1>3, <2>2, <2>3, <2>5, <2>6, GoesOnIInv
<1>4. QED
  BY <1>2, <1>3 DEF Save

\* Every step of a batch keeps the invariant.
LEMMA BatchStepIInv ==
  ASSUME IInv, NEW j \in Jobs, BatchStep(j)
  PROVE  IInv'
<1>1. CASE Refuse(j)
  <2>1. batch[j].op # None
    BY <1>1, PayoutAssumption DEF Refuse, Stages
  <2>2. QED
    BY <1>1, <2>1, EndsIInv DEF Refuse
<1>2. CASE ItemFails(j)
  <2>1. batch[j].op \in Loaded /\ UNCHANGED covered
    BY <1>2 DEF ItemFails, Loaded
  <2>2. PICK result \in Results : Finds(j, batch[j].at, result)
    BY <1>2 DEF ItemFails, Results
  <2>3. QED
    BY <2>1, <2>2, FindsIInv
<1>3. CASE Finish(j)
  <2>1. batch[j].op # None
    BY <1>3, PayoutAssumption DEF Finish, Stages
  <2>2. Outcome(batch[j].found) \in {"partial", "error", "needs_review", "completed"}
    BY DEF Outcome
  <2>3. QED
    BY <1>3, <2>1, <2>2, EndsIInv DEF Finish
<1>4. QED
  BY <1>1, <1>2, <1>3, PinIInv, ReadContextIInv, PositionIInv, AcceptMappingIInv,
     FetchAcceptedIInv, SelectIInv, SaveIInv DEF BatchStep

-----------------------------------------------------------------------------
(* The schedule and the owner. *)

\* The invariant holds when the process starts.
LEMMA InitIInv == Init => IInv
<1> SUFFICES ASSUME Init PROVE IInv
  OBVIOUS
<1>1. (CHOOSE q \in Quantities : TRUE) \in Quantities
  BY PayoutAssumption
<1>2. TypeOK
  BY <1>1, FreshBatch DEF Init, TypeOK, Holdings, Mappings, Forecasts, Statuses
<1>3. \A j \in Jobs : batch[j] = NoBatch
  BY DEF Init
<1>4. BatchesRemember /\ RunningHasBatch /\ OneTaskPerMonth
  BY <1>3, FreshBatch
     DEF Init, BatchesRemember, RunningHasBatch, OneTaskPerMonth, Active, Jobs
<1>5. QED
  BY <1>2, <1>4 DEF IInv

\* A commit of the owner leaves the schedule and the stages of the batches alone.
LEMMA OwnerIInv ==
  ASSUME IInv, CommitElsewhere, UNCHANGED <<forecast, scheduler, covered>>,
         month' \in {"draft", "closed"}, quantity' \in Holdings, mapping' \in Mappings,
         accepted' \in Nat, posted' \in Nat, others' \in Nat
  PROVE  IInv'
<1>1. /\ batch' \in [Jobs -> Batches] /\ BatchesRemember'
      /\ batch'["auto"].op = batch["auto"].op
  BY ElsewhereKeeps
<1>2. TypeOK'
  BY <1>1 DEF IInv, TypeOK, scheduler
<1>3. RunningHasBatch' /\ OneTaskPerMonth'
  BY <1>1 DEF IInv, RunningHasBatch, OneTaskPerMonth, Active, scheduler
<1>4. QED
  BY <1>1, <1>2, <1>3 DEF IInv

\* Every step keeps the invariant.
LEMMA NextIInv == IInv /\ [Next]_vars => IInv'
<1> SUFFICES ASSUME IInv, [Next]_vars PROVE IInv'
  OBVIOUS
<1> USE DEF IInv, TypeOK
<1>1. CASE Accept
  <2>1. quantity' \in Holdings
    BY <1>1 DEF Accept, Holdings
  <2>2. QED
    BY <1>1, <2>1, OwnerIInv DEF Accept
<1>2. CASE EditMapping
  <2>1. mapping' \in Mappings
    BY <1>2 DEF EditMapping, Mappings
  <2>2. QED
    BY <1>2, <2>1, OwnerIInv DEF EditMapping, OwnerCommit
<1>3. CASE CloseOrReopen
  BY <1>3, OwnerIInv DEF CloseOrReopen, OwnerCommit
<1>4. CASE Schedule
  <2>1. due' \in BOOLEAN
    BY <1>4, Zenon DEF Schedule
  <2>2. posted' \in Nat /\ tasks' \in Nat /\ status' \in Statuses
    BY <1>4, SMT DEF Schedule, Statuses
  <2>3. TypeOK'
    BY <1>4, <2>1, <2>2 DEF Schedule, tables
  <2>4. RunningHasBatch' /\ OneTaskPerMonth' /\ BatchesRemember'
    BY <1>4 DEF Schedule, RunningHasBatch, OneTaskPerMonth, Active, BatchesRemember
  <2>5. QED
    BY <2>3, <2>4
<1>5. CASE DeadlinePasses
  <2>1. TypeOK'
    BY <1>5 DEF DeadlinePasses, tables
  <2>2. RunningHasBatch' /\ OneTaskPerMonth' /\ BatchesRemember'
    BY <1>5 DEF DeadlinePasses, RunningHasBatch, OneTaskPerMonth, Active, BatchesRemember
  <2>3. QED
    BY <2>1, <2>2
<1>6. CASE Run
  <2>1. /\ batch' \in [Jobs -> Batches] /\ BatchesRemember' /\ batch'["auto"] = Opened
    BY <1>6, GoesKeeps, FreshBatch DEF Run, Jobs
  <2>2. TypeOK'
    BY <1>6, <2>1 DEF Run, tables, Statuses
  <2>3. RunningHasBatch' /\ OneTaskPerMonth'
    BY <1>6, <2>1, FreshBatch DEF Run, RunningHasBatch, OneTaskPerMonth, Active
  <2>4. QED
    BY <2>1, <2>2, <2>3
<1>7. CASE ManualRefresh
  <2>1. /\ batch' \in [Jobs -> Batches] /\ BatchesRemember'
        /\ batch'["auto"] = batch["auto"]
    BY <1>7, GoesKeeps, FreshBatch DEF ManualRefresh, Jobs
  <2>2. TypeOK'
    BY <1>7, <2>1 DEF ManualRefresh, tables, scheduler
  <2>3. RunningHasBatch' /\ OneTaskPerMonth'
    BY <1>7, <2>1 DEF ManualRefresh, RunningHasBatch, OneTaskPerMonth, Active, scheduler
  <2>4. QED
    BY <2>1, <2>2, <2>3
<1>8. CASE Restart
  <2>1. \A j \in Jobs : batch'[j] = NoBatch
    BY <1>8 DEF Restart
  <2>2. batch' \in [Jobs -> Batches]
    BY <1>8, FreshBatch DEF Restart
  <2>3. posted' \in Nat /\ tasks' \in Nat /\ others' \in Nat
    BY <1>8, SMT DEF Restart
  <2>4. status' \in Statuses /\ due' \in BOOLEAN
    BY <1>8, Zenon DEF Restart, Statuses
  <2>5. UNCHANGED <<month, quantity, mapping, forecast, accepted, covered>>
    BY <1>8 DEF Restart, tables
  <2>6. TypeOK'
    BY <2>2, <2>3, <2>4, <2>5
  <2>7. RunningHasBatch' /\ OneTaskPerMonth' /\ BatchesRemember'
    BY <1>8, <2>1, FreshBatch
       DEF Restart, RunningHasBatch, OneTaskPerMonth, Active, BatchesRemember, Jobs
  <2>8. QED
    BY <2>6, <2>7
<1>9. CASE \E j \in Jobs : BatchStep(j)
  BY <1>9, BatchStepIInv
<1>10. CASE UNCHANGED vars
  <2>1. TypeOK'
    BY <1>10 DEF vars
  <2>2. RunningHasBatch' /\ OneTaskPerMonth' /\ BatchesRemember'
    BY <1>10 DEF vars, RunningHasBatch, OneTaskPerMonth, Active, BatchesRemember
  <2>3. QED
    BY <2>1, <2>2
<1>11. QED
  BY <1>1, <1>2, <1>3, <1>4, <1>5, <1>6, <1>7, <1>8, <1>9, <1>10 DEF Next

-----------------------------------------------------------------------------
\* The invariant holds in every reachable state: whatever a batch remembers agrees with
\* how far it has come (draft_payouts.py:364).
THEOREM Invariant == Spec => []IInv
  BY InitIInv, NextIInv, PTL DEF Spec

\* One background task for an active month and none for any other: the set _active and
\* the tasks that were added agree for good (draft_payouts.py:61).
THEOREM OneTask == Spec => []OneTaskPerMonth
<1>1. IInv => OneTaskPerMonth
  BY DEF IInv
<1>2. QED
  BY <1>1, Invariant, PTL

\* No step but a save writes forecasts.
LEMMA OnlySavesWrite ==
  ASSUME IInv, [Next]_vars, forecast' # forecast
  PROVE  \E j \in Jobs : Save(j)
<1>1. ~UNCHANGED vars
  BY DEF vars
<1>2. ~(Accept \/ EditMapping \/ CloseOrReopen)
  BY DEF Accept, EditMapping, CloseOrReopen, OwnerCommit
<1>3. ~(Schedule \/ DeadlinePasses \/ Run \/ ManualRefresh \/ Restart)
  BY DEF Schedule, DeadlinePasses, Run, ManualRefresh, Restart, tables
<1>4. PICK j \in Jobs : BatchStep(j)
  BY <1>1, <1>2, <1>3 DEF Next
<1>5. ~(Pin(j) \/ ReadContext(j) \/ Refuse(j) \/ ItemFails(j) \/ Finish(j))
  BY DEF Pin, ReadContext, Refuse, ItemFails, Finish, Ends, Finds, Step, tables
<1>6. ~(Position(j) \/ FetchAccepted(j))
  BY DEF Position, FetchAccepted, Fetch, Finds, Step, tables
<1>7. ~(AcceptMapping(j) \/ Select(j))
  BY DEF AcceptMapping, Select, Finds, Step, tables
<1>8. QED
  BY <1>4, <1>5, <1>6, <1>7 DEF BatchStep

\* Whatever is saved, after two calls of the provider outside any transaction, is of a
\* draft month, of the quantity accepted now and of the identity mapped now.
THEOREM ForecastsCurrent == Spec => ForecastsOnCurrentFacts
<1> DEFINE Current ==
      \A p \in Positions :
        forecast'[p] # forecast[p] =>
          /\ month = "draft"
          /\ forecast'[p].quantity = quantity[p] /\ forecast'[p].uid = mapping[p]
<1>1. IInv /\ [Next]_vars => [Current]_vars
  <2> SUFFICES ASSUME IInv, [Next]_vars, NEW p \in Positions, forecast'[p] # forecast[p]
               PROVE  /\ month = "draft"
                      /\ forecast'[p].quantity = quantity[p]
                      /\ forecast'[p].uid = mapping[p]
    OBVIOUS
  <2>1. PICK j \in Jobs : Save(j)
    BY OnlySavesWrite
  <2>2. /\ batch[j].op = "selected" /\ ForecastCurrent(j)
        /\ forecast' = [forecast EXCEPT ![batch[j].at] = Revision(j)]
    BY <2>1 DEF Save, Finds, Step, tables
  <2>3. forecast \in Forecasts
    BY DEF IInv, TypeOK
  <2>4. p = batch[j].at /\ forecast'[p] = Revision(j)
    BY <2>2, <2>3 DEF Forecasts
  <2>5. QED
    BY <2>2, <2>4, SavedRevision
<1>2. QED
  BY <1>1, Invariant, PTL DEF Spec, ForecastsOnCurrentFacts

=============================================================================
