----------------------------- MODULE DraftPayouts -----------------------------
(***************************************************************************)
(* The forecast refresh of one DRAFT month: a batch that asks the provider *)
(* position by position, outside any transaction, and saves each position  *)
(* in a transaction of its own, and the process-local schedule that starts *)
(* one such batch after the owner's acceptances of broker statements.      *)
(*                                                                         *)
(* A batch pins one SQLite connection and remembers PRAGMA data_version,   *)
(* which another connection's commit changes and its own commits do not.   *)
(***************************************************************************)
EXTENDS Naturals, FiniteSets

CONSTANTS Positions,     \* statement-backed positions, each of its own instrument,
                         \* numbered in the order of the context's items
          Quantities, Uids, Amounts,
          MaxEvents,     \* bound: acceptances, other commits of the owner, refreshes
                         \* the owner asks for and restarts, together
          Excluded, None

Stages == {"opened", "pinned", "next", "mapping", "ready", "fetched", "selected"}
Results == {"updated", "unchanged", "needs_review", "error"}

ASSUME PayoutAssumption ==
  /\ MaxEvents \in Nat /\ Positions \subseteq Nat /\ Quantities # {}
  /\ Excluded # None /\ {Excluded, None} \cap Uids = {}
  /\ None \notin Stages /\ None \notin Positions

VARIABLES month,      \* status of the month
          quantity,   \* what the accepted statements say of each position
          mapping,    \* each instrument's market mapping: a uid, Excluded or None
          forecast,   \* latest revision of each position's forecast, or None
          accepted,   \* acceptances committed so far
          posted,     \* of these, the ones not yet handed to the schedule
          status,     \* AcceptanceRefresh: transient status of the month
          due,        \* AcceptanceRefresh: the deadline has passed
          tasks,      \* background tasks that will run or are running
          batch,      \* the batch of the background task and of the owner's request
          covered,    \* acceptances in the last context a background batch read
          others      \* commits, refreshes and restarts other than acceptances so far

tables == <<month, quantity, mapping, forecast>>
scheduler == <<status, due, tasks>>
vars == <<month, quantity, mapping, forecast, accepted, posted, status, due, tasks,
          batch, covered, others>>

-----------------------------------------------------------------------------
Jobs == {"auto", "manual"}

NoBatch ==
  [op |-> None, fresh |-> FALSE, source |-> None, tokens |-> None, todo |-> {}, found |-> {},
   at |-> None, uid |-> None, context |-> None, amount |-> None]

Opened == [NoBatch EXCEPT !.op = "opened", !.fresh = TRUE]

MayHappen == accepted + others < MaxEvents

\* The set _active of the schedule.
Active == status \in {"pending", "running"}

\* Quantities are only ever compared, so it does not matter which one is the first.
Init ==
  /\ month = "draft"
  /\ quantity = [p \in Positions |-> CHOOSE q \in Quantities : TRUE]
  /\ \E m \in Uids \cup {None} : mapping = [p \in Positions |-> m]
  /\ forecast = [p \in Positions |-> None]
  /\ accepted = 0 /\ posted = 0
  /\ status = "idle" /\ due = FALSE /\ tasks = 0
  /\ batch = [j \in Jobs |-> NoBatch]
  /\ covered = 0
  /\ others = 0

-----------------------------------------------------------------------------
(* Commits: each one changes data_version for the batches of other connections. *)

Disturbed(b) == [b EXCEPT !.fresh = FALSE]

CommitElsewhere == batch' = [j \in Jobs |-> Disturbed(batch[j])]

CommitBy(j, next) ==
  batch' = [k \in Jobs |-> IF k = j THEN next ELSE Disturbed(batch[k])]

Goes(j, next) == batch' = [batch EXCEPT ![j] = next]

\* A strict financial acceptance replaces the month's projection of a position.
Accept ==
  /\ month = "draft" /\ MayHappen
  /\ \E p \in Positions, q \in Quantities : quantity' = [quantity EXCEPT ![p] = q]
  /\ accepted' = accepted + 1 /\ posted' = posted + 1
  /\ CommitElsewhere
  /\ UNCHANGED <<month, mapping, forecast, scheduler, covered, others>>

OwnerCommit ==
  /\ MayHappen /\ others' = others + 1
  /\ CommitElsewhere
  /\ UNCHANGED <<quantity, forecast, accepted, posted, scheduler, covered>>

EditMapping ==
  /\ OwnerCommit
  /\ \E p \in Positions, m \in Uids \cup {Excluded, None} :
       m # mapping[p] /\ mapping' = [mapping EXCEPT ![p] = m]
  /\ UNCHANGED month

CloseOrReopen ==
  /\ OwnerCommit
  /\ month' = IF month = "draft" THEN "closed" ELSE "draft"
  /\ UNCHANGED mapping

-----------------------------------------------------------------------------
(* AcceptanceRefresh. *)

\* Mutant of Schedule: a running batch does not count as active.
ScheduleBesideRun ==
  /\ posted > 0 /\ posted' = posted - 1
  /\ IF status = "pending"
     THEN due' = FALSE /\ UNCHANGED <<status, tasks>>
     ELSE status' = "pending" /\ due' = FALSE /\ tasks' = tasks + 1
  /\ UNCHANGED <<tables, accepted, batch, covered, others>>

\* After the commit, before the answer: pending moves the deadline, running is left
\* to the batch's own guards, and otherwise one background task is added.
Schedule ==
  /\ posted > 0 /\ posted' = posted - 1
  /\ IF Active
     THEN /\ due' = (due /\ status # "pending")
          /\ UNCHANGED <<status, tasks>>
     ELSE /\ status' = "pending" /\ due' = FALSE
          /\ tasks' = tasks + 1
  /\ UNCHANGED <<tables, accepted, batch, covered, others>>

DeadlinePasses ==
  /\ status = "pending" /\ ~due
  /\ due' = TRUE
  /\ UNCHANGED <<tables, accepted, posted, status, tasks, batch, covered, others>>

\* run: after the debounce, a new session.
Run ==
  /\ tasks > 0 /\ status = "pending" /\ due
  /\ status' = "running"
  /\ Goes("auto", Opened)
  /\ UNCHANGED <<tables, accepted, posted, due, tasks, covered, others>>

Outcome(found) ==
  IF "error" \in found THEN IF "updated" \in found THEN "partial" ELSE "error"
  ELSE IF "needs_review" \in found
  THEN IF "updated" \in found THEN "partial" ELSE "needs_review"
  ELSE "completed"

\* Mutant of Ends: run's finally clause does not release the month.
EndsActive(j, outcome) ==
  /\ Goes(j, NoBatch)
  /\ IF j = "auto"
     THEN tasks' = tasks - 1 /\ UNCHANGED <<status, due>>
     ELSE UNCHANGED scheduler
  /\ UNCHANGED <<tables, accepted, posted, covered, others>>

\* The end of a batch; run's finally clause for the background task.
Ends(j, outcome) ==
  /\ Goes(j, NoBatch)
  /\ IF j = "auto"
     THEN status' = outcome /\ due' = FALSE /\ tasks' = tasks - 1
     ELSE UNCHANGED scheduler
  /\ UNCHANGED <<tables, accepted, posted, covered, others>>

ManualRefresh ==
  /\ batch["manual"] = NoBatch
  /\ MayHappen /\ others' = others + 1
  /\ Goes("manual", Opened)
  /\ UNCHANGED <<tables, accepted, posted, scheduler, covered>>

\* Transient status, background tasks and batches are all process-local.
Restart ==
  /\ MayHappen /\ others' = others + 1
  /\ status' = "idle" /\ due' = FALSE /\ tasks' = 0
  /\ posted' = 0
  /\ batch' = [j \in Jobs |-> NoBatch]
  /\ UNCHANGED <<tables, accepted, covered>>

-----------------------------------------------------------------------------
(* A batch. *)

Step(j, next) ==
  /\ Goes(j, next)
  /\ UNCHANGED <<tables, accepted, posted, scheduler, others>>

\* refresh: data_version is read before anything else.
Pin(j) ==
  /\ batch[j].op = "opened"
  /\ Step(j, [batch[j] EXCEPT !.op = "pinned", !.fresh = TRUE])
  /\ UNCHANGED covered

\* _refresh: source and mapping tokens in one snapshot.
ReadContext(j) ==
  /\ batch[j].op = "pinned" /\ month = "draft"
  /\ Step(j, [batch[j] EXCEPT !.op = "next", !.source = quantity, !.tokens = mapping,
                              !.todo = Positions])
  /\ covered' = IF j = "auto" THEN accepted ELSE covered

\* The month was closed, the digest the caller had is an older one, or there is no
\* admission to the database.
Refuse(j) ==
  /\ batch[j].op \in {"opened", "pinned"}
  /\ \E outcome \in {"needs_review", "error"} : Ends(j, outcome)

SourceCurrent(j) ==
  batch[j].fresh /\ month = "draft" /\ quantity = batch[j].source

\* The batch with one position finished.  "unchanged" does not count for the outcome,
\* and what the owner's own request answers is read by the owner alone.
Past(j, p, results) ==
  [batch[j] EXCEPT !.op = "next", !.todo = @ \ {p},
                   !.found = IF j = "auto" THEN @ \cup (results \ {"unchanged"}) ELSE {},
                   !.at = None, !.uid = None, !.context = None, !.amount = None]

\* Nothing is saved for it; whatever was committed for others stays.
Finds(j, p, result) == Step(j, Past(j, p, {result}))

\* A provider failure or any exception of one position; a lookup that is not exact.
ItemFails(j) ==
  /\ batch[j].op \in {"mapping", "fetched", "selected"}
  /\ \E result \in {"error"} \cup IF batch[j].op = "mapping" THEN {"needs_review"} ELSE {} :
       Finds(j, batch[j].at, result)
  /\ UNCHANGED covered

\* _forecast_token: mappings and saved forecasts.
ForecastToken == <<mapping, forecast>>

TokensHold(j, p) == SourceCurrent(j) /\ mapping[p] = batch[j].tokens[p]

\* _refresh_position up to the provider's answer.
Fetch(j, p, uid) ==
  IF TokensHold(j, p) /\ (forecast[p] # None => forecast[p].uid = uid)
  THEN \E a \in Amounts :
         Step(j, [batch[j] EXCEPT !.op = "fetched", !.at = p, !.uid = uid,
                                  !.context = ForecastToken, !.amount = a])
  ELSE Finds(j, p, "needs_review")

\* _ensure_mapping up to the provider's answer: only an instrument without a mapping and
\* without saved forecasts is looked up.  A mapped one is fetched at once: the check
\* before the fetch repeats this one.
Position(j) ==
  /\ batch[j].op = "next"
  /\ \E p \in batch[j].todo :
       /\ \A q \in batch[j].todo : p <= q
       /\ IF TokensHold(j, p) /\ mapping[p] = None /\ forecast[p] = None
          THEN \E u \in Uids : Step(j, [batch[j] EXCEPT !.op = "mapping", !.at = p, !.uid = u])
          ELSE IF TokensHold(j, p) /\ mapping[p] \in Uids
          THEN Fetch(j, p, mapping[p])
          ELSE Finds(j, p, "needs_review")
  /\ UNCHANGED covered

\* set_accepted_mapping with before_write and after_flush.
AcceptMapping(j) ==
  /\ batch[j].op = "mapping"
  /\ LET b == batch[j]  p == b.at
     IN IF TokensHold(j, p)
        THEN /\ mapping' = [mapping EXCEPT ![p] = b.uid]
             /\ CommitBy(j, [b EXCEPT !.op = "ready", !.tokens[p] = b.uid])
             /\ UNCHANGED <<month, quantity, forecast, accepted, posted, scheduler, others>>
        ELSE Finds(j, p, "error")
  /\ UNCHANGED covered

FetchAccepted(j) ==
  /\ batch[j].op = "ready"
  /\ Fetch(j, batch[j].at, batch[j].uid)
  /\ UNCHANGED covered

\* Mutant of ForecastCurrent: only the month is looked at again.
MonthCurrent(j) == month = "draft"

\* context_is_current
ForecastCurrent(j) == SourceCurrent(j) /\ batch[j].context = ForecastToken

Revision(j) ==
  [uid |-> batch[j].uid, quantity |-> quantity[batch[j].at], amount |-> batch[j].amount]

\* The preview: nothing is selected without an event, for an unchanged one and for one
\* the owner has to review.
Select(j) ==
  /\ batch[j].op = "fetched"
  /\ LET p == batch[j].at
     IN IF ForecastCurrent(j)
        THEN \/ \E result \in {"unchanged", "needs_review"} : Finds(j, p, result)
             \/ /\ forecast[p] # Revision(j)
                /\ Step(j, [batch[j] EXCEPT !.op = "selected"])
        ELSE Finds(j, p, "needs_review")
  /\ UNCHANGED covered

\* apply_payout_preview: after a second fetch the writer is reserved and the context
\* checked once more; create or append a revision, and commit.
\* Other events of the position may be left for review.
Save(j) ==
  /\ batch[j].op = "selected"
  /\ LET b == batch[j]  p == b.at
     IN IF ForecastCurrent(j)
        THEN /\ forecast' = [forecast EXCEPT ![p] = Revision(j)]
             /\ \E rest \in SUBSET {"needs_review"} :
                  CommitBy(j, Past(j, p, {"updated"} \cup rest))
             /\ UNCHANGED <<month, quantity, mapping, accepted, posted, scheduler, others>>
        ELSE Finds(j, p, "error")
  /\ UNCHANGED covered

\* The read-back that closes a batch.
Finish(j) ==
  /\ batch[j].op = "next" /\ batch[j].todo = {}
  /\ Ends(j, Outcome(batch[j].found))

BatchStep(j) ==
  \/ Pin(j) \/ ReadContext(j) \/ Refuse(j) \/ ItemFails(j)
  \/ Position(j) \/ AcceptMapping(j) \/ FetchAccepted(j) \/ Select(j) \/ Save(j) \/ Finish(j)

Next ==
  \/ Accept \/ EditMapping \/ CloseOrReopen
  \/ Schedule \/ DeadlinePasses \/ Run \/ ManualRefresh \/ Restart
  \/ \E j \in Jobs : BatchStep(j)

\* A request thread reaches its schedule call, time passes, and the thread of the
\* background task runs: every provider call has a timeout.
Fairness ==
  /\ WF_vars(Schedule) /\ WF_vars(DeadlinePasses) /\ WF_vars(Run)
  /\ WF_vars(BatchStep("auto"))

Spec == Init /\ [][Next]_vars /\ Fairness

-----------------------------------------------------------------------------
\* What a batch saves is true when it is saved: the month is a draft, and the revision
\* has the quantity of the accepted statements and the identity the instrument is mapped
\* to, though both were read before a provider call.
ForecastsOnCurrentFacts ==
  [][\A p \in Positions :
       forecast'[p] # forecast[p] =>
         /\ month = "draft"
         /\ forecast'[p].quantity = quantity[p] /\ forecast'[p].uid = mapping[p]]_vars

\* Two acceptances never start two background tasks of one month, and a month is active
\* just while its task exists: were one lost, the month would never be refreshed again.
OneTaskPerMonth == tasks = IF Active THEN 1 ELSE 0

\* Every acceptance that is waited for is covered: once it is pending, a batch that
\* reads it follows, or a batch ends in an outcome the owner sees, or the process stops.
PendingIsCovered ==
  \A v \in 1..MaxEvents :
    (status = "pending" /\ accepted = v)
      ~> (covered >= v \/ status \in {"needs_review", "error", "idle"})

=============================================================================
