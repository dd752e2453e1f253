----------------------------- MODULE LinkedPairs -----------------------------
(***************************************************************************)
(* Credit-card debts linked to liquid accounts, in one DRAFT month: the    *)
(* edits of debts, cash balances and deposits that are checked under the   *)
(* month's writer reservation, and the edits of accounts, which take no    *)
(* reservation.                                                            *)
(*                                                                         *)
(* An edit first loads its row into the session's identity map (seen).     *)
(* The reservation reloads the month only, so the row stays as it was      *)
(* loaded; every other query runs under the reservation and is fresh.  The *)
(* flush writes the columns that differ from the loaded row.               *)
(***************************************************************************)
EXTENDS Naturals, FiniteSets

CONSTANTS Sessions, Accounts, Debts, CashRows, Deposits,
          Enabled,   \* bound: the operations the sessions may call
          None

Operations == {"createAccount", "updateAccount", "deleteAccount",
               "createCash", "updateCash", "deleteCash",
               "createDeposit", "deleteDeposit",
               "createDebt", "updateDebt", "deleteDebt", "link", "unlink"}

ASSUME EnabledAssumption == Enabled \subseteq Operations
ASSUME NoneAssumption ==
  None \notin Sessions \cup Accounts \cup Debts \cup CashRows \cup Deposits

VARIABLES account,  \* catalogue accounts
          cash,     \* cash balances of the month
          deposit,  \* account of each deposit snapshot of the month
          debt,     \* debts of the month, with their account link
          writer,   \* session that holds SQLite's writer reservation
          at, call, seen

tables == <<account, cash, deposit, debt>>
vars == <<tables, writer, at, call, seen>>

-----------------------------------------------------------------------------
\* eligible: the account type is cash, deposit or savings.
AccountRow == [eligible: BOOLEAN, included: BOOLEAN]
CashRow == [account: Accounts \cup {None}, included: BOOLEAN]
DebtRow == [card: BOOLEAN, included: BOOLEAN, link: Accounts \cup {None}]
Idle == [op |-> None]

ASSUME RowsAssumption ==
  None \notin AccountRow /\ None \notin CashRow /\ None \notin DebtRow

Init ==
  /\ account = [a \in Accounts |-> None]
  /\ cash = [b \in CashRows |-> None]
  /\ deposit = [d \in Deposits |-> None]
  /\ debt = [d \in Debts |-> None]
  /\ writer = None
  /\ at = [s \in Sessions |-> "idle"]
  /\ call = [s \in Sessions |-> Idle]
  /\ seen = [s \in Sessions |-> None]

-----------------------------------------------------------------------------
(* Queries, always of the stored rows. *)

AccountExists(a) == account[a] # None
AccountIncluded(a) == AccountExists(a) /\ account[a].included

LinkedDebts(a) == {d \in Debts : debt[d] # None /\ debt[d].link = a}

CountingCash(a) ==
  {b \in CashRows : cash[b] # None /\ cash[b].account = a /\ cash[b].included}
DepositsOf(a) == {d \in Deposits : deposit[d] = a}

\* has_qualifying_balance_fact, with the rows a removal would exclude.
HasBalanceFact(a, exceptCash, exceptDeposits) ==
  /\ AccountIncluded(a)
  /\ \/ CountingCash(a) \ exceptCash # {}
     \/ DepositsOf(a) \ exceptDeposits # {}

\* ensure_linked_pair_balance_evidence_survives
EvidenceSurvives(a, exceptCash, exceptDeposits) ==
  LinkedDebts(a) # {} => HasBalanceFact(a, exceptCash, exceptDeposits)

-----------------------------------------------------------------------------
(* Steps of a session. *)

\* Load the row the operation is about.  arg is the row as the caller wants it:
\* a field the caller leaves out equals the loaded one.
Read(s, op, id, row, arg) ==
  /\ op \in Enabled
  /\ at[s] = "idle"
  /\ at' = [at EXCEPT ![s] = "read"]
  /\ call' = [call EXCEPT ![s] = [op |-> op, id |-> id, arg |-> arg]]
  /\ seen' = [seen EXCEPT ![s] = row]
  /\ UNCHANGED <<tables, writer>>

\* Reserve the writer and pass the operation's checks under it.
Check(s, op) ==
  /\ at[s] = "read" /\ call[s].op = op
  /\ writer = None
  /\ writer' = s
  /\ at' = [at EXCEPT ![s] = "checked"]
  /\ UNCHANGED <<tables, call, seen>>

Finish(s) ==
  /\ at' = [at EXCEPT ![s] = "idle"]
  /\ call' = [call EXCEPT ![s] = Idle]
  /\ seen' = [seen EXCEPT ![s] = None]
  /\ writer' = IF writer = s THEN None ELSE writer

Commit(s, op) == at[s] = "checked" /\ call[s].op = op /\ Finish(s)

\* A refusal, a constraint violation, a busy timeout or a dropped request.
Abort(s) == at[s] # "idle" /\ Finish(s) /\ UNCHANGED tables

\* The columns that differ from the loaded row are written over the stored row.
Flushed(row, loaded, wanted) ==
  [f \in DOMAIN row |-> IF wanted[f] # loaded[f] THEN wanted[f] ELSE row[f]]

-----------------------------------------------------------------------------
(* Accounts: no reservation before the UPDATE or DELETE statement itself. *)

CreateAccount(s, a, row) ==
  /\ "createAccount" \in Enabled
  /\ at[s] = "idle" /\ writer = None
  /\ account[a] = None
  /\ account' = [account EXCEPT ![a] = row]
  /\ UNCHANGED <<cash, deposit, debt, writer, at, call, seen>>

\* What the refusals are decided on: the row, and whether a debt is linked to it.
LoadedAccount(a) == [row |-> account[a], linked |-> LinkedDebts(a) # {}]

\* Mutant of UpdateAccountRead: only the account type is refused.
UpdateAccountUnchecked(s, a, row) ==
  /\ AccountExists(a)
  /\ LinkedDebts(a) # {} => row.eligible \/ ~account[a].eligible
  /\ Read(s, "updateAccount", a, LoadedAccount(a), row)

\* The refusals are decided here, by plain SELECTs.
UpdateAccountRead(s, a, row) ==
  /\ AccountExists(a)
  /\ LinkedDebts(a) # {} =>
       /\ row.eligible \/ ~account[a].eligible
       /\ row.included \/ ~account[a].included
  /\ Read(s, "updateAccount", a, LoadedAccount(a), row)

UpdateAccountCommit(s) ==
  LET a == call[s].id IN
  /\ at[s] = "read" /\ call[s].op = "updateAccount"
  /\ writer = None
  /\ AccountExists(a)
  /\ account' = [account EXCEPT ![a] = Flushed(@, seen[s].row, call[s].arg)]
  /\ Finish(s)
  /\ UNCHANGED <<cash, deposit, debt>>

DeleteAccountRead(s, a) ==
  /\ AccountExists(a)
  /\ LinkedDebts(a) = {}
  /\ Read(s, "deleteAccount", a, account[a], None)

\* Mutant of Unreferenced: the foreign keys are not enforced.
DeletedAnyway(a) == AccountExists(a)

\* ON DELETE RESTRICT
Unreferenced(a) ==
  /\ LinkedDebts(a) = {}
  /\ DepositsOf(a) = {}
  /\ \A b \in CashRows : cash[b] # None => cash[b].account # a

DeleteAccountCommit(s) ==
  LET a == call[s].id IN
  /\ at[s] = "read" /\ call[s].op = "deleteAccount"
  /\ writer = None
  /\ Unreferenced(a)
  /\ account' = [account EXCEPT ![a] = None]
  /\ Finish(s)
  /\ UNCHANGED <<cash, deposit, debt>>

-----------------------------------------------------------------------------
(* Cash balances and deposits. *)

CreateCashRead(s, b, row) ==
  Read(s, "createCash", b, None, row)

CreateCashCheck(s) ==
  LET row == call[s].arg IN
  /\ Check(s, "createCash")
  /\ cash[call[s].id] = None
  /\ row.account # None => AccountExists(row.account)

CreateCashCommit(s) ==
  /\ Commit(s, "createCash")
  /\ cash' = [cash EXCEPT ![call[s].id] = call[s].arg]
  /\ UNCHANGED <<account, deposit, debt>>

UpdateCashRead(s, b, row) ==
  /\ cash[b] # None
  /\ Read(s, "updateCash", b, cash[b], row)

\* Mutant of CashRemovalAllowed: the row itself is not excluded from the evidence.
CashRemovalChecked(b, loaded) ==
  loaded.account # None /\ loaded.included /\ AccountIncluded(loaded.account)
    => EvidenceSurvives(loaded.account, {}, {})

\* _guard_linked_cash_balance_removal, on the row as it was loaded.
CashRemovalAllowed(b, loaded) ==
  loaded.account # None /\ loaded.included /\ AccountIncluded(loaded.account)
    => EvidenceSurvives(loaded.account, {b}, {})

UpdateCashCheck(s) ==
  LET row == call[s].arg  loaded == seen[s] IN
  /\ Check(s, "updateCash")
  /\ row.account # None => AccountExists(row.account)
  /\ row.account # loaded.account \/ ~row.included
       => CashRemovalAllowed(call[s].id, loaded)

UpdateCashCommit(s) ==
  LET b == call[s].id IN
  /\ Commit(s, "updateCash")
  /\ cash[b] # None
  /\ cash' = [cash EXCEPT ![b] = Flushed(@, seen[s], call[s].arg)]
  /\ UNCHANGED <<account, deposit, debt>>

DeleteCashRead(s, b) ==
  /\ cash[b] # None
  /\ Read(s, "deleteCash", b, cash[b], None)

DeleteCashCheck(s) ==
  /\ Check(s, "deleteCash")
  /\ CashRemovalAllowed(call[s].id, seen[s])

DeleteCashCommit(s) ==
  /\ Commit(s, "deleteCash")
  /\ cash' = [cash EXCEPT ![call[s].id] = None]
  /\ UNCHANGED <<account, deposit, debt>>

CreateDepositRead(s, d, a) == Read(s, "createDeposit", d, None, a)

CreateDepositCheck(s) ==
  /\ Check(s, "createDeposit")
  /\ deposit[call[s].id] = None
  /\ AccountExists(call[s].arg)

CreateDepositCommit(s) ==
  /\ Commit(s, "createDeposit")
  /\ deposit' = [deposit EXCEPT ![call[s].id] = call[s].arg]
  /\ UNCHANGED <<account, cash, debt>>

DeleteDepositRead(s, d) ==
  /\ deposit[d] # None
  /\ Read(s, "deleteDeposit", d, deposit[d], None)

DeleteDepositCheck(s) ==
  /\ Check(s, "deleteDeposit")
  /\ AccountIncluded(seen[s]) => EvidenceSurvives(seen[s], {}, {call[s].id})

DeleteDepositCommit(s) ==
  /\ Commit(s, "deleteDeposit")
  /\ deposit' = [deposit EXCEPT ![call[s].id] = None]
  /\ UNCHANGED <<account, cash, debt>>

-----------------------------------------------------------------------------
(* Debts. *)

\* CHECK and UNIQUE constraints of the debts table.
DebtConstraints(d, row) ==
  row.link # None => /\ row.card /\ row.included
                     /\ LinkedDebts(row.link) \subseteq {d}

CreateDebtRead(s, d, card, included) ==
  Read(s, "createDebt", d, None, [card |-> card, included |-> included, link |-> None])

CreateDebtCheck(s) == Check(s, "createDebt") /\ debt[call[s].id] = None

CreateDebtCommit(s) ==
  /\ Commit(s, "createDebt")
  /\ debt' = [debt EXCEPT ![call[s].id] = call[s].arg]
  /\ UNCHANGED <<account, cash, deposit>>

UpdateDebtRead(s, d, card, included) ==
  /\ debt[d] # None
  /\ Read(s, "updateDebt", d, debt[d], [debt[d] EXCEPT !.card = card, !.included = included])

UpdateDebtCheck(s) ==
  /\ Check(s, "updateDebt")
  /\ seen[s].link # None => call[s].arg.card /\ call[s].arg.included

DeleteDebtRead(s, d) ==
  /\ debt[d] # None
  /\ Read(s, "deleteDebt", d, debt[d], None)

DeleteDebtCheck(s) == Check(s, "deleteDebt")

DeleteDebtCommit(s) ==
  /\ Commit(s, "deleteDebt")
  /\ debt' = [debt EXCEPT ![call[s].id] = None]
  /\ UNCHANGED <<account, cash, deposit>>

LinkRead(s, d, a) ==
  /\ debt[d] # None
  /\ Read(s, "link", d, debt[d], [debt[d] EXCEPT !.link = a])

LinkCheck(s) ==
  LET a == call[s].arg.link IN
  /\ Check(s, "link")
  /\ seen[s].card /\ seen[s].included
  /\ AccountIncluded(a) /\ account[a].eligible
  /\ HasBalanceFact(a, {}, {})
  /\ LinkedDebts(a) \subseteq {call[s].id}

UnlinkRead(s, d) ==
  /\ debt[d] # None
  /\ Read(s, "unlink", d, debt[d], [debt[d] EXCEPT !.link = None])

UnlinkCheck(s) == Check(s, "unlink")

\* The flush of update_debt, link_debt_to_account and unlink_debt_from_account.
DebtCommit(s, op) ==
  LET d == call[s].id  row == Flushed(debt[d], seen[s], call[s].arg) IN
  /\ Commit(s, op)
  /\ debt[d] # None
  /\ DebtConstraints(d, row)
  /\ debt' = [debt EXCEPT ![d] = row]
  /\ UNCHANGED <<account, cash, deposit>>

-----------------------------------------------------------------------------
AccountStep(s) ==
  \/ \E a \in Accounts, row \in AccountRow : CreateAccount(s, a, row)
  \/ \E a \in Accounts, row \in AccountRow : UpdateAccountRead(s, a, row)
  \/ UpdateAccountCommit(s)
  \/ \E a \in Accounts : DeleteAccountRead(s, a)
  \/ DeleteAccountCommit(s)

BalanceStep(s) ==
  \/ \E b \in CashRows, row \in CashRow : CreateCashRead(s, b, row)
  \/ CreateCashCheck(s) \/ CreateCashCommit(s)
  \/ \E b \in CashRows, row \in CashRow : UpdateCashRead(s, b, row)
  \/ UpdateCashCheck(s) \/ UpdateCashCommit(s)
  \/ \E b \in CashRows : DeleteCashRead(s, b)
  \/ DeleteCashCheck(s) \/ DeleteCashCommit(s)
  \/ \E d \in Deposits, a \in Accounts : CreateDepositRead(s, d, a)
  \/ CreateDepositCheck(s) \/ CreateDepositCommit(s)
  \/ \E d \in Deposits : DeleteDepositRead(s, d)
  \/ DeleteDepositCheck(s) \/ DeleteDepositCommit(s)

DebtStep(s) ==
  \/ \E d \in Debts, card, included \in BOOLEAN : CreateDebtRead(s, d, card, included)
  \/ CreateDebtCheck(s) \/ CreateDebtCommit(s)
  \/ \E d \in Debts, card, included \in BOOLEAN : UpdateDebtRead(s, d, card, included)
  \/ UpdateDebtCheck(s) \/ DebtCommit(s, "updateDebt")
  \/ \E d \in Debts : DeleteDebtRead(s, d)
  \/ DeleteDebtCheck(s) \/ DeleteDebtCommit(s)
  \/ \E d \in Debts, a \in Accounts : LinkRead(s, d, a)
  \/ LinkCheck(s) \/ DebtCommit(s, "link")
  \/ \E d \in Debts : UnlinkRead(s, d)
  \/ UnlinkCheck(s) \/ DebtCommit(s, "unlink")

Next == \E s \in Sessions : Abort(s) \/ AccountStep(s) \/ BalanceStep(s) \/ DebtStep(s)

Spec == Init /\ [][Next]_vars

-----------------------------------------------------------------------------
(* Properties: what linked_pairs_for_months refuses to represent. *)

Links == {d \in Debts : debt[d] # None /\ debt[d].link # None}

\* A linked debt stays an included credit-card debt, the only one of the month on
\* its account, and its account row exists (persistence.py:2750).
LinkedDebtsEligible ==
  \A d \in Links :
    /\ debt[d].card /\ debt[d].included
    /\ AccountExists(debt[d].link)
    /\ LinkedDebts(debt[d].link) = {d}

\* The account of d counts towards capital and is of an eligible type.
Counts(d) == account[debt[d].link].included /\ account[debt[d].link].eligible

\* The account of d has an included balance fact in the month.
Evident(d) == CountingCash(debt[d].link) # {} \/ DepositsOf(debt[d].link) # {}

\* d stays linked to the account it was linked to.
StaysLinked(d) == d \in Links /\ debt'[d].link = debt[d].link

\* An account update decided on another row, or before any debt was linked.
StaleUpdate(s, a) ==
  /\ UpdateAccountCommit(s) /\ call[s].id = a
  /\ \/ seen[s].row # account[a]
     \/ ~seen[s].linked /\ LinkedDebts(a) # {}

\* The balance row a call changes or removes is as it was loaded, or gone.
Fresh(c, loaded) ==
  /\ c.op = "updateCash" => cash[c.id] = loaded
  /\ c.op = "deleteCash" => cash[c.id] \in {loaded, None}
  /\ c.op = "deleteDeposit" => deposit[c.id] \in {loaded, None}

BalanceWrite(s) == UpdateCashCommit(s) \/ DeleteCashCommit(s) \/ DeleteDepositCommit(s)

\* A balance write judged on another row than the one it changes or removes.
StaleBalanceWrite(s) == BalanceWrite(s) /\ ~Fresh(call[s], seen[s])

\* A link is made to an included account of an eligible type, and the account stays so,
\* whichever calls overlap, but for one write: an update of that account decided before
\* the debt was linked or on a row that has changed since.  The refusal of
\* accounts.py:123 is no more than that: it takes no reservation.
AccountsLapseByStaleUpdates ==
  [][\A d \in Links' :
       \/ Counts(d)'
       \/ StaysLinked(d) /\ ~Counts(d)
       \/ \E s \in Sessions : StaleUpdate(s, debt'[d].link)]_vars

\* A link is made to an account with an included balance fact, and keeps one while the
\* account counts, whichever removals overlap (linked_pairs.py:103), but for one write: a
\* balance edit or removal judged on a row that has changed since it was loaded
\* (cash.py:48).
EvidenceLapsesByStaleWrites ==
  [][\A d \in Links' :
       \/ Evident(d)'
       \/ StaysLinked(d) /\ ~(Evident(d) /\ AccountIncluded(debt[d].link))
       \/ \E s \in Sessions : StaleBalanceWrite(s)]_vars

=============================================================================
