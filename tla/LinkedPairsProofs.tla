--------------------------- MODULE LinkedPairsProofs ---------------------------
(***************************************************************************)
(* What the read model refuses to represent, for any number of sessions,   *)
(* accounts, debts and balances, whichever calls overlap.  A linked debt   *)
(* stays an eligible, existing, unshared one.  Its account stays eligible  *)
(* and it keeps a balance fact, but for one kind of write each: one that   *)
(* was decided on a row, or on links, that have changed since.             *)
(***************************************************************************)
EXTENDS LinkedPairs, TLAPS

SessionStep(s) == Abort(s) \/ AccountStep(s) \/ BalanceStep(s) \/ DebtStep(s)

TypeOK ==
  /\ account \in [Accounts -> AccountRow \cup {None}]
  /\ cash \in [CashRows -> CashRow \cup {None}]
  /\ deposit \in [Deposits -> Accounts \cup {None}]
  /\ debt \in [Debts -> DebtRow \cup {None}]
  /\ writer \in Sessions \cup {None}
  /\ at \in [Sessions -> {"idle", "read", "checked"}]
  /\ call = [s \in Sessions |-> call[s]]
  /\ seen = [s \in Sessions |-> seen[s]]

\* Whoever has passed its checks, and nobody else, holds the writer.
SingleWriter == \A s \in Sessions : at[s] = "checked" <=> writer = s

\* What each operation is called with, and the row it has loaded.
Shaped(c, loaded) ==
  /\ c.op \in Enabled
  /\ c.op = "updateAccount" =>
       /\ c.id \in Accounts /\ c.arg \in AccountRow /\ loaded.row \in AccountRow
       /\ loaded.linked => /\ c.arg.eligible \/ ~loaded.row.eligible
                           /\ c.arg.included \/ ~loaded.row.included
  /\ c.op = "deleteAccount" => c.id \in Accounts
  /\ c.op = "createCash" => c.id \in CashRows /\ c.arg \in CashRow
  /\ c.op = "updateCash" => c.id \in CashRows /\ c.arg \in CashRow /\ loaded \in CashRow
  /\ c.op = "deleteCash" => c.id \in CashRows /\ loaded \in CashRow
  /\ c.op = "createDeposit" => c.id \in Deposits /\ c.arg \in Accounts
  /\ c.op = "deleteDeposit" => c.id \in Deposits /\ loaded \in Accounts
  /\ c.op = "createDebt" => c.id \in Debts /\ c.arg \in DebtRow /\ c.arg.link = None
  /\ c.op \in {"updateDebt", "link", "unlink"} =>
       c.id \in Debts /\ c.arg \in DebtRow /\ loaded \in DebtRow
  /\ c.op = "updateDebt" => c.arg.link = loaded.link
  /\ c.op = "link" => c.arg.link \in Accounts
  /\ c.op = "unlink" => c.arg.link = None
  /\ c.op = "deleteDebt" => c.id \in Debts

CallsShaped == \A s \in Sessions : at[s] # "idle" => Shaped(call[s], seen[s])

\* What the checks of an operation have found, as the tables are now.
Passed(c, loaded) ==
  /\ c.op = "createCash" => cash[c.id] = None
  /\ c.op = "createDeposit" => deposit[c.id] = None
  /\ c.op = "updateCash" /\ (c.arg.account # loaded.account \/ ~c.arg.included) =>
       CashRemovalAllowed(c.id, loaded)
  /\ c.op = "deleteCash" => CashRemovalAllowed(c.id, loaded)
  /\ c.op = "deleteDeposit" =>
       (AccountIncluded(loaded) => EvidenceSurvives(loaded, {}, {c.id}))
  /\ c.op = "link" => /\ AccountIncluded(c.arg.link) /\ account[c.arg.link].eligible
                      /\ HasBalanceFact(c.arg.link, {}, {})

\* The checks of the writer still hold: nobody else can have written since.
ChecksHold == \A s \in Sessions : at[s] = "checked" => Passed(call[s], seen[s])

BaseInv == TypeOK /\ SingleWriter /\ CallsShaped /\ ChecksHold

-----------------------------------------------------------------------------
(* Rows that a flush writes. *)

LEMMA FlushedAccount ==
  ASSUME NEW row \in AccountRow, NEW loaded \in AccountRow, NEW wanted \in AccountRow
  PROVE  /\ Flushed(row, loaded, wanted) \in AccountRow
         /\ Flushed(row, row, wanted) = wanted
<1>1. DOMAIN row = {"eligible", "included"} /\ DOMAIN wanted = {"eligible", "included"}
  BY DEF AccountRow
<1> QED
  BY <1>1 DEF Flushed, AccountRow

LEMMA FlushedCash ==
  ASSUME NEW row \in CashRow, NEW loaded \in CashRow, NEW wanted \in CashRow
  PROVE  /\ Flushed(row, loaded, wanted) \in CashRow
         /\ Flushed(row, row, wanted) = wanted
<1>1. DOMAIN row = {"account", "included"} /\ DOMAIN wanted = {"account", "included"}
  BY DEF CashRow
<1> QED
  BY <1>1 DEF Flushed, CashRow

LEMMA FlushedDebt ==
  ASSUME NEW row \in DebtRow, NEW loaded \in DebtRow, NEW wanted \in DebtRow
  PROVE  /\ Flushed(row, loaded, wanted) \in DebtRow
         /\ Flushed(row, loaded, wanted).link =
              IF wanted.link # loaded.link THEN wanted.link ELSE row.link
<1>1. DOMAIN row = {"card", "included", "link"}
  BY DEF DebtRow
<1> QED
  BY <1>1 DEF Flushed, DebtRow

-----------------------------------------------------------------------------
(* The kinds of steps. *)

\* A call begins.
Starts(s) ==
  \E op \in Operations : \E id, row, arg :
    Read(s, op, id, row, arg) /\ Shaped([op |-> op, id |-> id, arg |-> arg], row)

\* A call passes its checks.
Reserves(s) == (\E op : Check(s, op)) /\ Passed(call[s], seen[s])

\* A call writes what it is for, or is given up.
Tables ==
  /\ account \in [Accounts -> AccountRow \cup {None}]
  /\ cash \in [CashRows -> CashRow \cup {None}]
  /\ deposit \in [Deposits -> Accounts \cup {None}]
  /\ debt \in [Debts -> DebtRow \cup {None}]

Ends(s) ==
  /\ at[s] # "idle" /\ Finish(s)
  /\ UNCHANGED tables \/ writer \in {None, s}
  /\ Tables'

\* An account appears.
Appears(s) == \E a \in Accounts, row \in AccountRow : CreateAccount(s, a, row)

LEMMA AccountStepKinds ==
  ASSUME BaseInv, NEW s \in Sessions, AccountStep(s)
  PROVE  Starts(s) \/ Ends(s) \/ Appears(s)
<1> USE DEF BaseInv, TypeOK
<1>1. CASE \E a \in Accounts, row \in AccountRow : CreateAccount(s, a, row)
  BY <1>1 DEF Appears
<1>2. ASSUME NEW a \in Accounts, NEW row \in AccountRow, UpdateAccountRead(s, a, row)
      PROVE  Starts(s)
  <2>1. /\ Read(s, "updateAccount", a, LoadedAccount(a), row) /\ account[a] \in AccountRow
        /\ LinkedDebts(a) # {} => /\ row.eligible \/ ~account[a].eligible
                                  /\ row.included \/ ~account[a].included
    BY <1>2 DEF UpdateAccountRead, AccountExists
  <2>2. Shaped([op |-> "updateAccount", id |-> a, arg |-> row], LoadedAccount(a))
    BY <2>1 DEF Shaped, Read, LoadedAccount
  <2> QED
    BY <2>1, <2>2 DEF Starts, Operations
<1>3. CASE UpdateAccountCommit(s)
  <2> DEFINE a == call[s].id  new == Flushed(account[a], seen[s].row, call[s].arg)
  <2>1. /\ at[s] = "read" /\ call[s].op = "updateAccount" /\ writer = None
        /\ account[a] # None /\ account' = [account EXCEPT ![a] = new] /\ Finish(s)
        /\ UNCHANGED <<cash, deposit, debt>>
    BY <1>3 DEF UpdateAccountCommit, AccountExists
  <2>2. a \in Accounts /\ call[s].arg \in AccountRow /\ seen[s].row \in AccountRow
    BY <2>1 DEF CallsShaped, Shaped
  <2>3. new \in AccountRow
    BY <2>1, <2>2, FlushedAccount
  <2> HIDE DEF a, new
  <2>4. Tables'
    BY <2>1, <2>2, <2>3 DEF Tables
  <2> QED
    BY <2>1, <2>4 DEF Ends
<1>4. ASSUME NEW a \in Accounts, DeleteAccountRead(s, a)
      PROVE  Starts(s)
  <2>1. Read(s, "deleteAccount", a, account[a], None)
    BY <1>4 DEF DeleteAccountRead
  <2>2. Shaped([op |-> "deleteAccount", id |-> a, arg |-> None], account[a])
    BY <2>1 DEF Shaped, Read
  <2> QED
    BY <2>1, <2>2 DEF Starts, Operations
<1>5. CASE DeleteAccountCommit(s)
  <2>1. Tables'
    BY <1>5 DEF DeleteAccountCommit, Tables
  <2> QED
    BY <1>5, <2>1 DEF DeleteAccountCommit, Ends
<1> QED
  BY <1>1, <1>2, <1>3, <1>4, <1>5 DEF AccountStep

LEMMA CashStepKinds ==
  ASSUME BaseInv, NEW s \in Sessions,
         \/ \E b \in CashRows, row \in CashRow : CreateCashRead(s, b, row)
         \/ CreateCashCheck(s) \/ CreateCashCommit(s)
         \/ \E b \in CashRows, row \in CashRow : UpdateCashRead(s, b, row)
         \/ UpdateCashCheck(s) \/ UpdateCashCommit(s)
         \/ \E b \in CashRows : DeleteCashRead(s, b)
         \/ DeleteCashCheck(s) \/ DeleteCashCommit(s)
  PROVE  Starts(s) \/ Reserves(s) \/ Ends(s)
<1> USE DEF BaseInv, TypeOK
<1>1. ASSUME NEW b \in CashRows, NEW row \in CashRow, CreateCashRead(s, b, row)
      PROVE  Starts(s)
  <2>1. Read(s, "createCash", b, None, row)
    BY <1>1 DEF CreateCashRead
  <2>2. Shaped([op |-> "createCash", id |-> b, arg |-> row], None)
    BY <2>1 DEF Shaped, Read
  <2> QED
    BY <2>1, <2>2 DEF Starts, Operations
<1>2. CASE CreateCashCheck(s)
  <2>1. Check(s, "createCash") /\ call[s].op = "createCash" /\ cash[call[s].id] = None
    BY <1>2 DEF CreateCashCheck, Check
  <2> QED
    BY <2>1 DEF Reserves, Passed
<1>3. CASE CreateCashCommit(s)
  <2>1. /\ at[s] = "checked" /\ call[s].op = "createCash" /\ Finish(s)
        /\ cash' = [cash EXCEPT ![call[s].id] = call[s].arg]
        /\ UNCHANGED <<account, deposit, debt>>
    BY <1>3 DEF CreateCashCommit, Commit
  <2>2. call[s].arg \in CashRow
    BY <2>1 DEF CallsShaped, Shaped
  <2>3. Tables'
    BY <2>1, <2>2 DEF Tables
  <2> QED
    BY <2>1, <2>3 DEF Ends, SingleWriter
<1>4. ASSUME NEW b \in CashRows, NEW row \in CashRow, UpdateCashRead(s, b, row)
      PROVE  Starts(s)
  <2>1. Read(s, "updateCash", b, cash[b], row) /\ cash[b] \in CashRow
    BY <1>4 DEF UpdateCashRead
  <2>2. Shaped([op |-> "updateCash", id |-> b, arg |-> row], cash[b])
    BY <2>1 DEF Shaped, Read
  <2> QED
    BY <2>1, <2>2 DEF Starts, Operations
<1>5. CASE UpdateCashCheck(s)
  <2>1. /\ Check(s, "updateCash") /\ call[s].op = "updateCash"
        /\ call[s].arg.account # seen[s].account \/ ~call[s].arg.included
             => CashRemovalAllowed(call[s].id, seen[s])
    BY <1>5 DEF UpdateCashCheck, Check
  <2> QED
    BY <2>1 DEF Reserves, Passed
<1>6. CASE UpdateCashCommit(s)
  <2> DEFINE b == call[s].id  new == Flushed(cash[b], seen[s], call[s].arg)
  <2>1. /\ at[s] = "checked" /\ call[s].op = "updateCash" /\ Finish(s)
        /\ cash[b] # None /\ cash' = [cash EXCEPT ![b] = new]
        /\ UNCHANGED <<account, deposit, debt>>
    BY <1>6 DEF UpdateCashCommit, Commit
  <2>2. b \in CashRows /\ call[s].arg \in CashRow /\ seen[s] \in CashRow
    BY <2>1 DEF CallsShaped, Shaped
  <2>3. new \in CashRow
    BY <2>1, <2>2, FlushedCash
  <2> HIDE DEF b, new
  <2>4. Tables'
    BY <2>1, <2>2, <2>3 DEF Tables
  <2> QED
    BY <2>1, <2>4 DEF Ends, SingleWriter
<1>7. ASSUME NEW b \in CashRows, DeleteCashRead(s, b)
      PROVE  Starts(s)
  <2>1. Read(s, "deleteCash", b, cash[b], None) /\ cash[b] \in CashRow
    BY <1>7 DEF DeleteCashRead
  <2>2. Shaped([op |-> "deleteCash", id |-> b, arg |-> None], cash[b])
    BY <2>1 DEF Shaped, Read
  <2> QED
    BY <2>1, <2>2 DEF Starts, Operations
<1>8. CASE DeleteCashCheck(s)
  <2>1. /\ Check(s, "deleteCash") /\ call[s].op = "deleteCash"
        /\ CashRemovalAllowed(call[s].id, seen[s])
    BY <1>8 DEF DeleteCashCheck, Check
  <2> QED
    BY <2>1 DEF Reserves, Passed
<1>9. CASE DeleteCashCommit(s)
  <2>1. /\ at[s] = "checked" /\ Finish(s)
        /\ cash' = [cash EXCEPT ![call[s].id] = None]
        /\ UNCHANGED <<account, deposit, debt>>
    BY <1>9 DEF DeleteCashCommit, Commit
  <2>2. Tables'
    BY <2>1 DEF Tables
  <2> QED
    BY <2>1, <2>2 DEF Ends, SingleWriter
<1> QED
  BY <1>1, <1>2, <1>3, <1>4, <1>5, <1>6, <1>7, <1>8, <1>9

LEMMA DepositStepKinds ==
  ASSUME BaseInv, NEW s \in Sessions,
         \/ \E d \in Deposits, a \in Accounts : CreateDepositRead(s, d, a)
         \/ CreateDepositCheck(s) \/ CreateDepositCommit(s)
         \/ \E d \in Deposits : DeleteDepositRead(s, d)
         \/ DeleteDepositCheck(s) \/ DeleteDepositCommit(s)
  PROVE  Starts(s) \/ Reserves(s) \/ Ends(s)
<1> USE DEF BaseInv, TypeOK
<1>1. ASSUME NEW d \in Deposits, NEW a \in Accounts, CreateDepositRead(s, d, a)
      PROVE  Starts(s)
  <2>1. Read(s, "createDeposit", d, None, a)
    BY <1>1 DEF CreateDepositRead
  <2>2. Shaped([op |-> "createDeposit", id |-> d, arg |-> a], None)
    BY <2>1 DEF Shaped, Read
  <2> QED
    BY <2>1, <2>2 DEF Starts, Operations
<1>2. CASE CreateDepositCheck(s)
  <2>1. /\ Check(s, "createDeposit") /\ call[s].op = "createDeposit"
        /\ deposit[call[s].id] = None
    BY <1>2 DEF CreateDepositCheck, Check
  <2> QED
    BY <2>1 DEF Reserves, Passed
<1>3. CASE CreateDepositCommit(s)
  <2>1. /\ at[s] = "checked" /\ call[s].op = "createDeposit" /\ Finish(s)
        /\ deposit' = [deposit EXCEPT ![call[s].id] = call[s].arg]
        /\ UNCHANGED <<account, cash, debt>>
    BY <1>3 DEF CreateDepositCommit, Commit
  <2>2. call[s].arg \in Accounts
    BY <2>1 DEF CallsShaped, Shaped
  <2>3. Tables'
    BY <2>1, <2>2 DEF Tables
  <2> QED
    BY <2>1, <2>3 DEF Ends, SingleWriter
<1>4. ASSUME NEW d \in Deposits, DeleteDepositRead(s, d)
      PROVE  Starts(s)
  <2>1. Read(s, "deleteDeposit", d, deposit[d], None) /\ deposit[d] \in Accounts
    BY <1>4 DEF DeleteDepositRead
  <2>2. Shaped([op |-> "deleteDeposit", id |-> d, arg |-> None], deposit[d])
    BY <2>1 DEF Shaped, Read
  <2> QED
    BY <2>1, <2>2 DEF Starts, Operations
<1>5. CASE DeleteDepositCheck(s)
  <2>1. /\ Check(s, "deleteDeposit") /\ call[s].op = "deleteDeposit"
        /\ AccountIncluded(seen[s]) => EvidenceSurvives(seen[s], {}, {call[s].id})
    BY <1>5 DEF DeleteDepositCheck, Check
  <2> QED
    BY <2>1 DEF Reserves, Passed
<1>6. CASE DeleteDepositCommit(s)
  <2>1. /\ at[s] = "checked" /\ Finish(s)
        /\ deposit' = [deposit EXCEPT ![call[s].id] = None]
        /\ UNCHANGED <<account, cash, debt>>
    BY <1>6 DEF DeleteDepositCommit, Commit
  <2>2. Tables'
    BY <2>1 DEF Tables
  <2> QED
    BY <2>1, <2>2 DEF Ends, SingleWriter
<1> QED
  BY <1>1, <1>2, <1>3, <1>4, <1>5, <1>6

\* The flush of an update, a link or an unlink leaves a row.
LEMMA DebtCommitEnds ==
  ASSUME BaseInv, NEW s \in Sessions, NEW op \in {"updateDebt", "link", "unlink"},
         DebtCommit(s, op)
  PROVE  Ends(s)
<1> USE DEF BaseInv, TypeOK
<1> DEFINE d == call[s].id  new == Flushed(debt[d], seen[s], call[s].arg)
<1>1. /\ at[s] = "checked" /\ call[s].op = op /\ Finish(s)
      /\ debt[d] # None /\ debt' = [debt EXCEPT ![d] = new]
      /\ UNCHANGED <<account, cash, deposit>>
  BY DEF DebtCommit, Commit
<1>2. d \in Debts /\ call[s].arg \in DebtRow /\ seen[s] \in DebtRow
  BY <1>1 DEF CallsShaped, Shaped
<1>3. new \in DebtRow
  BY <1>1, <1>2, FlushedDebt
<1> HIDE DEF d, new
<1>4. Tables'
  BY <1>1, <1>2, <1>3 DEF Tables
<1> QED
  BY <1>1, <1>4 DEF Ends, SingleWriter

LEMMA DebtStepKinds ==
  ASSUME BaseInv, NEW s \in Sessions, DebtStep(s)
  PROVE  Starts(s) \/ Reserves(s) \/ Ends(s)
<1> USE DEF BaseInv, TypeOK
<1>1. ASSUME NEW d \in Debts, NEW card \in BOOLEAN, NEW included \in BOOLEAN,
             CreateDebtRead(s, d, card, included)
      PROVE  Starts(s)
  <2> DEFINE row == [card |-> card, included |-> included, link |-> None]
  <2>1. Read(s, "createDebt", d, None, row) /\ row \in DebtRow /\ row.link = None
    BY <1>1 DEF CreateDebtRead, DebtRow
  <2> HIDE DEF row
  <2>2. Shaped([op |-> "createDebt", id |-> d, arg |-> row], None)
    BY <2>1 DEF Shaped, Read
  <2> QED
    BY <2>1, <2>2 DEF Starts, Operations
<1>2. CASE CreateDebtCheck(s) \/ DeleteDebtCheck(s) \/ UnlinkCheck(s) \/ UpdateDebtCheck(s)
  <2>1. PICK op \in {"createDebt", "deleteDebt", "unlink", "updateDebt"} :
          Check(s, op) /\ call[s].op = op
    BY <1>2 DEF CreateDebtCheck, DeleteDebtCheck, UnlinkCheck, UpdateDebtCheck, Check
  <2> QED
    BY <2>1 DEF Reserves, Passed
<1>3. CASE CreateDebtCommit(s)
  <2>1. /\ at[s] = "checked" /\ call[s].op = "createDebt" /\ Finish(s)
        /\ debt' = [debt EXCEPT ![call[s].id] = call[s].arg]
        /\ UNCHANGED <<account, cash, deposit>>
    BY <1>3 DEF CreateDebtCommit, Commit
  <2>2. call[s].arg \in DebtRow
    BY <2>1 DEF CallsShaped, Shaped
  <2>3. Tables'
    BY <2>1, <2>2 DEF Tables
  <2> QED
    BY <2>1, <2>3 DEF Ends, SingleWriter
<1>4. ASSUME NEW d \in Debts, NEW card \in BOOLEAN, NEW included \in BOOLEAN,
             UpdateDebtRead(s, d, card, included)
      PROVE  Starts(s)
  <2> DEFINE row == [debt[d] EXCEPT !.card = card, !.included = included]
  <2>1. Read(s, "updateDebt", d, debt[d], row) /\ debt[d] \in DebtRow
    BY <1>4 DEF UpdateDebtRead
  <2>2. row \in DebtRow /\ row.link = debt[d].link
    BY <2>1 DEF DebtRow
  <2> HIDE DEF row
  <2>3. Shaped([op |-> "updateDebt", id |-> d, arg |-> row], debt[d])
    BY <2>1, <2>2 DEF Shaped, Read
  <2> QED
    BY <2>1, <2>3 DEF Starts, Operations
<1>5. ASSUME NEW d \in Debts, DeleteDebtRead(s, d)
      PROVE  Starts(s)
  <2>1. Read(s, "deleteDebt", d, debt[d], None)
    BY <1>5 DEF DeleteDebtRead
  <2>2. Shaped([op |-> "deleteDebt", id |-> d, arg |-> None], debt[d])
    BY <2>1 DEF Shaped, Read
  <2> QED
    BY <2>1, <2>2 DEF Starts, Operations
<1>6. CASE DeleteDebtCommit(s)
  <2>1. /\ at[s] = "checked" /\ Finish(s)
        /\ debt' = [debt EXCEPT ![call[s].id] = None]
        /\ UNCHANGED <<account, cash, deposit>>
    BY <1>6 DEF DeleteDebtCommit, Commit
  <2>2. Tables'
    BY <2>1 DEF Tables
  <2> QED
    BY <2>1, <2>2 DEF Ends, SingleWriter
<1>7. ASSUME NEW d \in Debts, NEW op \in {"link", "unlink"}, NEW a \in Accounts \cup {None},
             debt[d] # None, Read(s, op, d, debt[d], [debt[d] EXCEPT !.link = a]),
             op = "link" => a \in Accounts, op = "unlink" => a = None
      PROVE  Starts(s)
  <2> DEFINE row == [debt[d] EXCEPT !.link = a]
  <2>1. debt[d] \in DebtRow
    BY <1>7
  <2>2. row \in DebtRow /\ row.link = a
    BY <2>1 DEF DebtRow
  <2>3. Read(s, op, d, debt[d], row)
    BY <1>7
  <2> HIDE DEF row
  <2>4. Shaped([op |-> op, id |-> d, arg |-> row], debt[d])
    BY <1>7, <2>1, <2>2, <2>3 DEF Shaped, Read
  <2> QED
    BY <2>3, <2>4 DEF Starts, Operations
<1>8. CASE LinkCheck(s)
  <2>1. /\ Check(s, "link") /\ call[s].op = "link"
        /\ AccountIncluded(call[s].arg.link) /\ account[call[s].arg.link].eligible
        /\ HasBalanceFact(call[s].arg.link, {}, {})
    BY <1>8 DEF LinkCheck, Check
  <2> QED
    BY <2>1 DEF Reserves, Passed
<1>9. CASE \E op \in {"updateDebt", "link", "unlink"} : DebtCommit(s, op)
  BY <1>9, DebtCommitEnds
<1>10. ASSUME NEW d \in Debts, NEW a \in Accounts, LinkRead(s, d, a) PROVE Starts(s)
  BY <1>10, <1>7 DEF LinkRead
<1>11. ASSUME NEW d \in Debts, UnlinkRead(s, d) PROVE Starts(s)
  BY <1>11, <1>7 DEF UnlinkRead
<1> QED
  BY <1>1, <1>2, <1>3, <1>4, <1>5, <1>6, <1>8, <1>9, <1>10, <1>11 DEF DebtStep

\* Every step of a session begins a call, passes its checks or ends it, or creates an
\* account.
LEMMA StepKinds ==
  ASSUME BaseInv, NEW s \in Sessions, SessionStep(s)
  PROVE  Starts(s) \/ Reserves(s) \/ Ends(s) \/ Appears(s)
<1>1. CASE Abort(s)
  BY <1>1 DEF Abort, Ends, Tables, tables, BaseInv, TypeOK
<1>2. CASE BalanceStep(s)
  BY <1>2, CashStepKinds, DepositStepKinds DEF BalanceStep
<1> QED
  BY <1>1, <1>2, AccountStepKinds, DebtStepKinds DEF SessionStep

-----------------------------------------------------------------------------
(* The writer and its checks. *)

\* Checks hold as long as the tables do not change.
LEMMA PassedStable ==
  ASSUME UNCHANGED tables, NEW c, NEW loaded, Passed(c, loaded)
  PROVE  Passed(c, loaded)'
BY DEF tables, Passed, CashRemovalAllowed, EvidenceSurvives, HasBalanceFact,
       AccountIncluded, AccountExists, LinkedDebts, CountingCash, DepositsOf

LEMMA StartsKeeps ==
  ASSUME BaseInv, NEW s \in Sessions, Starts(s)
  PROVE  BaseInv'
<1>1. PICK op \in Operations : \E id, row, arg :
        Read(s, op, id, row, arg) /\ Shaped([op |-> op, id |-> id, arg |-> arg], row)
  BY DEF Starts
<1>2. PICK id, row, arg :
        Read(s, op, id, row, arg) /\ Shaped([op |-> op, id |-> id, arg |-> arg], row)
  BY <1>1
<1>3. /\ at[s] = "idle" /\ at' = [at EXCEPT ![s] = "read"]
      /\ call' = [call EXCEPT ![s] = [op |-> op, id |-> id, arg |-> arg]]
      /\ seen' = [seen EXCEPT ![s] = row]
      /\ UNCHANGED <<tables, writer>>
  BY <1>2 DEF Read
<1>4. TypeOK'
  BY <1>3 DEF BaseInv, TypeOK, tables
<1>5. SingleWriter'
  BY <1>3 DEF BaseInv, TypeOK, SingleWriter
<1>6. /\ call'[s] = [op |-> op, id |-> id, arg |-> arg] /\ seen'[s] = row
      /\ \A t \in Sessions \ {s} :
           at'[t] = at[t] /\ call'[t] = call[t] /\ seen'[t] = seen[t]
  BY <1>3 DEF BaseInv, TypeOK
<1>7. CallsShaped'
  <2> SUFFICES ASSUME NEW t \in Sessions, at'[t] # "idle" PROVE Shaped(call'[t], seen'[t])
    BY DEF CallsShaped, Shaped
  <2>1. CASE t = s
    BY <1>2, <1>6, <2>1
  <2>2. CASE t # s
    BY <1>6, <2>2 DEF BaseInv, CallsShaped
  <2> QED
    BY <2>1, <2>2
<1>8. ChecksHold'
  <2> SUFFICES ASSUME NEW t \in Sessions, at'[t] = "checked"
               PROVE  Passed(call[t], seen[t])'
    BY DEF ChecksHold
  <2>1. t # s
    BY <1>3 DEF BaseInv, TypeOK
  <2>2. PICK c, loaded : c = call[t] /\ loaded = seen[t]
    OBVIOUS
  <2>3. Passed(c, loaded)
    BY <1>6, <2>1, <2>2 DEF BaseInv, ChecksHold
  <2>4. Passed(c, loaded)'
    BY <1>3, <2>3, PassedStable
  <2>5. c = call'[t] /\ loaded = seen'[t]
    BY <1>6, <2>1, <2>2
  <2> QED
    BY <2>4, <2>5
<1> QED
  BY <1>4, <1>5, <1>7, <1>8 DEF BaseInv

LEMMA ReservesKeeps ==
  ASSUME BaseInv, NEW s \in Sessions, Reserves(s)
  PROVE  BaseInv'
<1>1. /\ at[s] = "read" /\ writer = None /\ writer' = s
      /\ at' = [at EXCEPT ![s] = "checked"]
      /\ UNCHANGED <<tables, call, seen>> /\ Passed(call[s], seen[s])
  BY DEF Reserves, Check
<1>2. TypeOK'
  BY <1>1 DEF BaseInv, TypeOK, tables
<1>3. SingleWriter'
  BY <1>1, NoneAssumption DEF BaseInv, TypeOK, SingleWriter
<1>4. CallsShaped'
  BY <1>1 DEF BaseInv, TypeOK, CallsShaped, Shaped
<1>5. ChecksHold'
  <2> SUFFICES ASSUME NEW t \in Sessions, at'[t] = "checked"
               PROVE  Passed(call[t], seen[t])'
    BY DEF ChecksHold
  <2>1. t = s
    BY <1>1, <1>3, NoneAssumption DEF SingleWriter
  <2>2. PICK c, loaded : c = call[t] /\ loaded = seen[t]
    OBVIOUS
  <2>3. Passed(c, loaded)'
    BY <1>1, <2>1, <2>2, PassedStable
  <2> QED
    BY <1>1, <2>2, <2>3
<1> QED
  BY <1>2, <1>3, <1>4, <1>5 DEF BaseInv

LEMMA EndsKeeps ==
  ASSUME BaseInv, NEW s \in Sessions, Ends(s)
  PROVE  BaseInv'
<1>1. /\ at' = [at EXCEPT ![s] = "idle"]
      /\ call' = [call EXCEPT ![s] = Idle]
      /\ seen' = [seen EXCEPT ![s] = None]
      /\ writer' = IF writer = s THEN None ELSE writer
      /\ UNCHANGED tables \/ writer \in {None, s}
      /\ Tables'
  BY DEF Ends, Finish
<1>2. TypeOK'
  BY <1>1 DEF BaseInv, TypeOK, Tables
<1>3. /\ at'[s] = "idle"
      /\ \A t \in Sessions \ {s} :
           at'[t] = at[t] /\ call'[t] = call[t] /\ seen'[t] = seen[t]
  BY <1>1 DEF BaseInv, TypeOK
<1>4. SingleWriter'
  BY <1>1, <1>3, NoneAssumption DEF BaseInv, TypeOK, SingleWriter
<1>5. CallsShaped'
  BY <1>3 DEF BaseInv, CallsShaped, Shaped
<1>6. ChecksHold'
  <2> SUFFICES ASSUME NEW t \in Sessions, at'[t] = "checked"
               PROVE  Passed(call[t], seen[t])'
    BY DEF ChecksHold
  <2>1. t # s /\ at[t] = "checked"
    BY <1>3
  <2>2. writer = t /\ UNCHANGED tables
    BY <1>1, <2>1, NoneAssumption DEF BaseInv, SingleWriter
  <2>3. PICK c, loaded : c = call[t] /\ loaded = seen[t]
    OBVIOUS
  <2>4. Passed(c, loaded)'
    BY <2>1, <2>2, <2>3, PassedStable DEF BaseInv, ChecksHold
  <2>5. c = call'[t] /\ loaded = seen'[t]
    BY <1>3, <2>1, <2>3
  <2> QED
    BY <2>4, <2>5
<1> QED
  BY <1>2, <1>4, <1>5, <1>6 DEF BaseInv

LEMMA AppearsKeeps ==
  ASSUME BaseInv, NEW s \in Sessions, Appears(s)
  PROVE  BaseInv'
<1>1. PICK a \in Accounts, row \in AccountRow : CreateAccount(s, a, row)
  BY DEF Appears
<1>2. /\ writer = None /\ account' = [account EXCEPT ![a] = row]
      /\ UNCHANGED <<cash, deposit, debt, writer, at, call, seen>>
  BY <1>1 DEF CreateAccount
<1>3. TypeOK' /\ SingleWriter' /\ CallsShaped'
  BY <1>2 DEF BaseInv, TypeOK, SingleWriter, CallsShaped, Shaped
<1>4. ChecksHold'
  BY <1>2, NoneAssumption DEF BaseInv, SingleWriter, ChecksHold
<1> QED
  BY <1>3, <1>4 DEF BaseInv

LEMMA InitBase == Init => BaseInv
BY NoneAssumption DEF Init, BaseInv, TypeOK, SingleWriter, CallsShaped, ChecksHold

LEMMA NextBase == BaseInv /\ [Next]_vars => BaseInv'
<1> SUFFICES ASSUME BaseInv, [Next]_vars PROVE BaseInv'
  OBVIOUS
<1>1. CASE Next
  <2>1. PICK s \in Sessions : SessionStep(s)
    BY <1>1 DEF Next, SessionStep
  <2> QED
    BY <2>1, StepKinds, StartsKeeps, ReservesKeeps, EndsKeeps, AppearsKeeps
<1>2. CASE UNCHANGED vars
  <2>1. TypeOK' /\ SingleWriter' /\ CallsShaped'
    BY <1>2 DEF BaseInv, vars, tables, TypeOK, SingleWriter, CallsShaped, Shaped
  <2>2. ChecksHold'
    <3> SUFFICES ASSUME NEW t \in Sessions, at'[t] = "checked"
                 PROVE  Passed(call[t], seen[t])'
      BY DEF ChecksHold
    <3>1. PICK c, loaded : c = call[t] /\ loaded = seen[t]
      OBVIOUS
    <3>2. Passed(c, loaded)'
      BY <1>2, <3>1, PassedStable DEF BaseInv, ChecksHold, vars
    <3> QED
      BY <1>2, <3>1, <3>2 DEF vars
  <2> QED
    BY <2>1, <2>2 DEF BaseInv
<1> QED
  BY <1>1, <1>2

\* Whoever holds the writer has passed its checks, and they still hold, whichever calls
\* overlap (_guard.py:52).
THEOREM WritersChecked == Spec => []BaseInv
BY InitBase, NextBase, PTL DEF Spec

-----------------------------------------------------------------------------
(* What the tables go through. *)

\* The steps that change a table.
TableStep(s) ==
  \/ Appears(s) \/ UpdateAccountCommit(s) \/ DeleteAccountCommit(s)
  \/ CreateCashCommit(s) \/ UpdateCashCommit(s) \/ DeleteCashCommit(s)
  \/ CreateDepositCommit(s) \/ DeleteDepositCommit(s)
  \/ CreateDebtCommit(s) \/ DeleteDebtCommit(s)
  \/ \E op \in {"updateDebt", "link", "unlink"} : DebtCommit(s, op)

LEMMA TableSteps ==
  ASSUME NEW s \in Sessions, SessionStep(s)
  PROVE  TableStep(s) \/ UNCHANGED tables
<1>1. CASE Abort(s)
  BY <1>1 DEF Abort
<1>2. CASE AccountStep(s)
  BY <1>2 DEF AccountStep, TableStep, Appears, UpdateAccountRead, DeleteAccountRead, Read
<1>3. CASE BalanceStep(s)
  BY <1>3 DEF BalanceStep, TableStep, CreateCashRead, CreateCashCheck, UpdateCashRead,
              UpdateCashCheck, DeleteCashRead, DeleteCashCheck, CreateDepositRead,
              CreateDepositCheck, DeleteDepositRead, DeleteDepositCheck, Read, Check
<1>4. CASE DebtStep(s)
  BY <1>4 DEF DebtStep, TableStep, CreateDebtRead, CreateDebtCheck, UpdateDebtRead,
              UpdateDebtCheck, DeleteDebtRead, DeleteDebtCheck, LinkRead, LinkCheck,
              UnlinkRead, UnlinkCheck, Read, Check
<1> QED
  BY <1>1, <1>2, <1>3, <1>4 DEF SessionStep

\* The row a debt's flush leaves: its link is the stored one or, under the checks of a
\* link, the account that was asked for.
LEMMA DebtCommitRow ==
  ASSUME BaseInv, NEW s \in Sessions, NEW op \in {"updateDebt", "link", "unlink"},
         DebtCommit(s, op)
  PROVE  \E d \in Debts, row \in DebtRow :
           /\ debt[d] \in DebtRow /\ debt' = [debt EXCEPT ![d] = row]
           /\ UNCHANGED <<account, cash, deposit>>
           /\ DebtConstraints(d, row)
           /\ \/ row.link = debt[d].link
              \/ row.link = None
              \/ /\ AccountIncluded(row.link) /\ account[row.link].eligible
                 /\ HasBalanceFact(row.link, {}, {})
<1> USE DEF BaseInv, TypeOK
<1> DEFINE d == call[s].id  row == Flushed(debt[d], seen[s], call[s].arg)
<1>1. /\ at[s] = "checked" /\ call[s].op = op
      /\ debt[d] # None /\ debt' = [debt EXCEPT ![d] = row]
      /\ UNCHANGED <<account, cash, deposit>> /\ DebtConstraints(d, row)
  BY DEF DebtCommit, Commit
<1>2. Shaped(call[s], seen[s]) /\ Passed(call[s], seen[s])
  BY <1>1 DEF CallsShaped, ChecksHold
<1>3. /\ d \in Debts /\ call[s].arg \in DebtRow /\ seen[s] \in DebtRow
      /\ op = "updateDebt" => call[s].arg.link = seen[s].link
      /\ op = "unlink" => call[s].arg.link = None
      /\ op = "link" => /\ AccountIncluded(call[s].arg.link)
                        /\ account[call[s].arg.link].eligible
                        /\ HasBalanceFact(call[s].arg.link, {}, {})
  BY <1>1, <1>2 DEF Shaped, Passed
<1>4. debt[d] \in DebtRow
  BY <1>1, <1>3
<1>5. row \in DebtRow /\ row.link = IF call[s].arg.link # seen[s].link
                                    THEN call[s].arg.link ELSE debt[d].link
  BY <1>3, <1>4, FlushedDebt
<1>6. \/ row.link = debt[d].link
      \/ row.link = None
      \/ /\ AccountIncluded(row.link) /\ account[row.link].eligible
         /\ HasBalanceFact(row.link, {}, {})
  BY <1>3, <1>5
<1> HIDE DEF d, row
<1> QED
  BY <1>1, <1>3, <1>4, <1>5, <1>6

\* A linked debt is a row with an account.
LEMMA LinkRow ==
  ASSUME TypeOK, NEW d \in Links
  PROVE  d \in Debts /\ debt[d] \in DebtRow /\ debt[d].link \in Accounts
BY DEF TypeOK, Links, DebtRow

-----------------------------------------------------------------------------
(* Linked debts: whatever overlaps. *)

\* No foreign key of an account that is deleted is left, and no flush passes the
\* constraints of the table with a link of its own account.
LEMMA DebtsStayEligible ==
  ASSUME BaseInv, LinkedDebtsEligible, NEW s \in Sessions, TableStep(s)
  PROVE  LinkedDebtsEligible'
<1> USE DEF BaseInv
<1>1. ASSUME UNCHANGED debt,
             \A d \in Links : AccountExists(debt[d].link)'
      PROVE  LinkedDebtsEligible'
  BY <1>1 DEF LinkedDebtsEligible, Links, LinkedDebts
<1>2. CASE Appears(s)
  <2>1. PICK a \in Accounts, row \in AccountRow : CreateAccount(s, a, row)
    BY <1>2 DEF Appears
  <2>2. \A x \in Accounts : AccountExists(x) => AccountExists(x)'
    BY <2>1, RowsAssumption DEF CreateAccount, AccountExists, TypeOK
  <2> QED
    BY <1>1, <2>1, <2>2, LinkRow DEF CreateAccount, LinkedDebtsEligible
<1>3. CASE UpdateAccountCommit(s)
  <2> DEFINE a == call[s].id  new == Flushed(account[a], seen[s].row, call[s].arg)
  <2>1. /\ at[s] = "read" /\ call[s].op = "updateAccount"
        /\ account[a] # None /\ account' = [account EXCEPT ![a] = new]
        /\ UNCHANGED <<cash, deposit, debt>>
    BY <1>3 DEF UpdateAccountCommit, AccountExists
  <2>2. a \in Accounts /\ call[s].arg \in AccountRow /\ seen[s].row \in AccountRow
    BY <2>1 DEF CallsShaped, Shaped
  <2>3. new \in AccountRow
    BY <2>1, <2>2, FlushedAccount DEF TypeOK
  <2> HIDE DEF a, new
  <2>4. \A x \in Accounts : AccountExists(x) => AccountExists(x)'
    BY <2>1, <2>2, <2>3, RowsAssumption DEF AccountExists, TypeOK
  <2> QED
    BY <1>1, <2>1, <2>4, LinkRow DEF LinkedDebtsEligible
<1>4. CASE DeleteAccountCommit(s)
  <2> DEFINE a == call[s].id
  <2>1. /\ LinkedDebts(a) = {} /\ account' = [account EXCEPT ![a] = None]
        /\ UNCHANGED <<cash, deposit, debt>>
    BY <1>4 DEF DeleteAccountCommit, Unreferenced
  <2> HIDE DEF a
  <2>2. \A d \in Links : debt[d].link # a
    BY <2>1 DEF Links, LinkedDebts
  <2> QED
    BY <1>1, <2>1, <2>2, LinkRow DEF LinkedDebtsEligible, AccountExists, TypeOK
<1>5. CASE \/ CreateCashCommit(s) \/ UpdateCashCommit(s) \/ DeleteCashCommit(s)
           \/ CreateDepositCommit(s) \/ DeleteDepositCommit(s)
  <2>1. UNCHANGED <<account, debt>>
    BY <1>5 DEF CreateCashCommit, UpdateCashCommit, DeleteCashCommit, CreateDepositCommit,
                DeleteDepositCommit
  <2> QED
    BY <1>1, <2>1 DEF LinkedDebtsEligible, AccountExists
<1>6. ASSUME NEW d \in Debts, NEW row \in DebtRow \cup {None},
             debt' = [debt EXCEPT ![d] = row], row # None => row.link = None,
             UNCHANGED account
      PROVE  LinkedDebtsEligible'
  <2>1. debt'[d] = row /\ \A e \in Debts \ {d} : debt'[e] = debt[e]
    BY <1>6 DEF TypeOK
  <2>2. Links' = Links \ {d}
    BY <1>6, <2>1 DEF Links
  <2>3. \A e \in Links \ {d} : LinkedDebts(debt[e].link)' = LinkedDebts(debt[e].link)
    <3>1. \A e \in Links \ {d} : debt[e].link # None /\ d \notin LinkedDebts(debt[e].link)
      BY LinkRow DEF LinkedDebtsEligible, Links
    <3>2. \A e \in Links \ {d} : debt'[e] = debt[e]
      BY <2>1 DEF Links
    <3> QED
      BY <1>6, <2>1, <3>1, <3>2 DEF LinkedDebts
  <2> QED
    BY <1>6, <2>1, <2>2, <2>3 DEF LinkedDebtsEligible, AccountExists, Links
<1>7. CASE CreateDebtCommit(s) \/ DeleteDebtCommit(s)
  <2>1. PICK d \in Debts, row \in DebtRow \cup {None} :
          /\ debt' = [debt EXCEPT ![d] = row] /\ (row # None => row.link = None)
          /\ UNCHANGED account
    BY <1>7 DEF CreateDebtCommit, DeleteDebtCommit, Commit, CallsShaped, Shaped
  <2> QED
    BY <1>6, <2>1
<1>8. ASSUME NEW op \in {"updateDebt", "link", "unlink"}, DebtCommit(s, op)
      PROVE  LinkedDebtsEligible'
  <2>1. PICK d \in Debts, row \in DebtRow :
           /\ debt[d] \in DebtRow /\ debt' = [debt EXCEPT ![d] = row]
           /\ UNCHANGED <<account, cash, deposit>>
           /\ DebtConstraints(d, row)
           /\ \/ row.link = debt[d].link
              \/ row.link = None
              \/ AccountIncluded(row.link)
    BY <1>8, DebtCommitRow
  <2>2. CASE row.link = None
    BY <1>6, <2>1, <2>2
  <2>3. CASE row.link # None
    <3>1. row.card /\ row.included /\ LinkedDebts(row.link) \subseteq {d}
      BY <2>1, <2>3 DEF DebtConstraints
    <3>2. debt'[d] = row /\ \A e \in Debts \ {d} : debt'[e] = debt[e]
      BY <2>1 DEF TypeOK
    <3>3. AccountExists(row.link)
      <4>1. CASE row.link = debt[d].link
        BY <2>1, <2>3, <4>1, RowsAssumption DEF LinkedDebtsEligible, Links
      <4> QED
        BY <2>1, <2>3, <4>1 DEF AccountIncluded
    <3>4. Links' = Links \cup {d}
      BY <2>1, <2>3, <3>2, RowsAssumption DEF Links
    <3>5. LinkedDebts(row.link)' = {d}
      BY <2>1, <3>1, <3>2, RowsAssumption DEF LinkedDebts
    <3>6. ASSUME NEW e \in Links \ {d}
          PROVE  debt'[e] = debt[e] /\ LinkedDebts(debt[e].link)' = {e}
      <4>1. debt'[e] = debt[e] /\ LinkedDebts(debt[e].link) = {e} /\ e \in LinkedDebts(debt[e].link)
        BY <3>2, <3>6 DEF Links, LinkedDebtsEligible
      <4>2. debt[e].link # row.link
        BY <3>1, <3>6, <4>1
      <4> QED
        BY <3>2, <4>1, <4>2 DEF LinkedDebts
    <3> QED
      BY <2>1, <3>1, <3>2, <3>3, <3>4, <3>5, <3>6 DEF LinkedDebtsEligible, AccountExists
  <2> QED
    BY <2>2, <2>3
<1> QED
  BY <1>2, <1>3, <1>4, <1>5, <1>7, <1>8 DEF TableStep

\* Whichever calls overlap, a linked debt stays an included card debt, the only one of its
\* account, and the account exists (persistence.py:2750).
THEOREM DebtsEligible == Spec => []LinkedDebtsEligible
<1>1. Init => LinkedDebtsEligible
  BY DEF Init, LinkedDebtsEligible, Links
<1>2. BaseInv /\ LinkedDebtsEligible /\ [Next]_vars => LinkedDebtsEligible'
  <2> SUFFICES ASSUME BaseInv, LinkedDebtsEligible, [Next]_vars PROVE LinkedDebtsEligible'
    OBVIOUS
  <2>1. CASE UNCHANGED tables
    BY <2>1 DEF tables, LinkedDebtsEligible, Links, LinkedDebts, AccountExists
  <2>2. CASE Next
    <3>1. PICK s \in Sessions : SessionStep(s)
      BY <2>2 DEF Next, SessionStep
    <3> QED
      BY <2>1, <3>1, TableSteps, DebtsStayEligible
  <2> QED
    BY <2>1, <2>2 DEF vars
<1> QED
  BY <1>1, <1>2, WritersChecked, PTL DEF Spec

-----------------------------------------------------------------------------
(* Accounts of linked debts. *)

\* Only an update of the account itself, decided on another row or on other links, can
\* end that it counts.
LEMMA AccountsStayEligible ==
  ASSUME BaseInv, LinkedDebtsEligible, NEW s \in Sessions, TableStep(s),
         NEW d \in Links', StaysLinked(d) => Counts(d), ~StaleUpdate(s, debt'[d].link)
  PROVE  Counts(d)'
<1> USE DEF BaseInv
<1>1. ASSUME UNCHANGED debt,
             d \in Links => account'[debt[d].link] = account[debt[d].link]
      PROVE  Counts(d)'
  BY <1>1 DEF StaysLinked, Counts, Links
<1>2. CASE Appears(s)
  <2>1. PICK a \in Accounts, row \in AccountRow : CreateAccount(s, a, row)
    BY <1>2 DEF Appears
  <2>2. \A x \in Accounts : AccountExists(x) => account'[x] = account[x]
    BY <2>1 DEF CreateAccount, AccountExists, TypeOK
  <2> QED
    BY <1>1, <2>1, <2>2, LinkRow DEF CreateAccount, LinkedDebtsEligible
<1>3. CASE UpdateAccountCommit(s)
  <2> DEFINE a == call[s].id  new == Flushed(account[a], seen[s].row, call[s].arg)
  <2>1. /\ at[s] = "read" /\ call[s].op = "updateAccount"
        /\ account[a] # None /\ account' = [account EXCEPT ![a] = new]
        /\ UNCHANGED <<cash, deposit, debt>>
    BY <1>3 DEF UpdateAccountCommit, AccountExists
  <2>2. d \in Links /\ debt[d].link \in Accounts /\ d \in LinkedDebts(debt[d].link)
    BY <2>1, LinkRow DEF Links, LinkedDebts
  <2>3. CASE debt[d].link # a
    BY <1>1, <2>1, <2>2, <2>3 DEF TypeOK
  <2>4. CASE debt[d].link = a
    <3>1. /\ call[s].arg \in AccountRow /\ account[a] \in AccountRow
          /\ seen[s].linked => /\ call[s].arg.eligible \/ ~seen[s].row.eligible
                               /\ call[s].arg.included \/ ~seen[s].row.included
      BY <2>1, <2>2, <2>4 DEF CallsShaped, Shaped, TypeOK
    <3>2. seen[s].row = account[a] /\ seen[s].linked
      BY <1>3, <2>1, <2>2, <2>4 DEF StaleUpdate
    <3>3. new = call[s].arg
      BY <3>1, <3>2, FlushedAccount
    <3>4. account[a].eligible /\ account[a].included
      BY <2>1, <2>2, <2>4 DEF StaysLinked, Counts
    <3>5. new.eligible /\ new.included
      BY <3>1, <3>2, <3>3, <3>4
    <3> HIDE DEF new
    <3>6. account'[a] = new
      BY <2>1, <2>2, <2>4 DEF TypeOK
    <3> QED
      BY <2>1, <2>4, <3>5, <3>6 DEF Counts
  <2> QED
    BY <2>3, <2>4
<1>4. CASE DeleteAccountCommit(s)
  <2> DEFINE a == call[s].id
  <2>1. /\ LinkedDebts(a) = {} /\ account' = [account EXCEPT ![a] = None]
        /\ UNCHANGED <<cash, deposit, debt>>
    BY <1>4 DEF DeleteAccountCommit, Unreferenced
  <2> HIDE DEF a
  <2>2. d \in Links => debt[d].link # a
    BY <2>1 DEF Links, LinkedDebts
  <2> QED
    BY <1>1, <2>1, <2>2, LinkRow DEF TypeOK
<1>5. CASE \/ CreateCashCommit(s) \/ UpdateCashCommit(s) \/ DeleteCashCommit(s)
           \/ CreateDepositCommit(s) \/ DeleteDepositCommit(s)
  <2>1. UNCHANGED <<account, debt>>
    BY <1>5 DEF CreateCashCommit, UpdateCashCommit, DeleteCashCommit, CreateDepositCommit,
                DeleteDepositCommit
  <2> QED
    BY <1>1, <2>1
<1>6. CASE CreateDebtCommit(s) \/ DeleteDebtCommit(s)
  <2>1. PICK e \in Debts, row \in DebtRow \cup {None} :
          /\ debt' = [debt EXCEPT ![e] = row] /\ (row # None => row.link = None)
          /\ UNCHANGED account
    BY <1>6 DEF CreateDebtCommit, DeleteDebtCommit, Commit, CallsShaped, Shaped
  <2>2. debt'[d] = debt[d] /\ d \in Links
    BY <2>1 DEF TypeOK, Links
  <2> QED
    BY <2>1, <2>2 DEF StaysLinked, Counts
<1>7. ASSUME NEW op \in {"updateDebt", "link", "unlink"}, DebtCommit(s, op)
      PROVE  Counts(d)'
  <2>1. PICK e \in Debts, row \in DebtRow :
           /\ debt[e] \in DebtRow /\ debt' = [debt EXCEPT ![e] = row]
           /\ UNCHANGED account
           /\ \/ row.link = debt[e].link
              \/ row.link = None
              \/ AccountIncluded(row.link) /\ account[row.link].eligible
    BY <1>7, DebtCommitRow
  <2>2. debt'[e] = row /\ \A x \in Debts \ {e} : debt'[x] = debt[x]
    BY <2>1 DEF TypeOK
  <2>3. CASE StaysLinked(d)
    BY <2>1, <2>3 DEF StaysLinked, Counts
  <2>4. CASE ~StaysLinked(d)
    <3>1. d = e /\ AccountIncluded(row.link) /\ account[row.link].eligible
      BY <2>1, <2>2, <2>4, RowsAssumption DEF StaysLinked, Links
    <3> QED
      BY <2>1, <2>2, <3>1 DEF Counts, AccountIncluded
  <2> QED
    BY <2>3, <2>4
<1> QED
  BY <1>2, <1>3, <1>4, <1>5, <1>6, <1>7 DEF TableStep

\* Whichever calls overlap, a debt is linked to an included and eligible account only, and
\* the account stays so, but for an update of it that was decided on a row, or on links,
\* that have changed since (accounts.py:114).
THEOREM AccountsLapse == Spec => AccountsLapseByStaleUpdates
<1>1. BaseInv /\ LinkedDebtsEligible /\ [Next]_vars =>
        [\A d \in Links' :
           \/ Counts(d)'
           \/ StaysLinked(d) /\ ~Counts(d)
           \/ \E s \in Sessions : StaleUpdate(s, debt'[d].link)]_vars
  <2> SUFFICES ASSUME BaseInv, LinkedDebtsEligible, Next, NEW d \in Links',
                      StaysLinked(d) => Counts(d),
                      \A s \in Sessions : ~StaleUpdate(s, debt'[d].link)
               PROVE  Counts(d)'
    OBVIOUS
  <2>1. PICK s \in Sessions : SessionStep(s)
    BY DEF Next, SessionStep
  <2>2. CASE UNCHANGED tables
    BY <2>2 DEF tables, StaysLinked, Counts, Links
  <2>3. CASE TableStep(s)
    BY <2>3, AccountsStayEligible
  <2> QED
    BY <2>1, <2>2, <2>3, TableSteps
<1> QED
  BY <1>1, WritersChecked, DebtsEligible, PTL DEF Spec, AccountsLapseByStaleUpdates

-----------------------------------------------------------------------------
(* The evidence of linked debts. *)

\* A balance fact of the account.
HasFact(x) == CountingCash(x) # {} \/ DepositsOf(x) # {}

\* A removal of a cash row that was allowed on the row as it is leaves a fact.
LEMMA CashLeavesFact ==
  ASSUME NEW x \in Accounts, LinkedDebts(x) # {}, AccountIncluded(x), HasFact(x),
         NEW b \in CashRows,
         b \in CountingCash(x) => CashRemovalAllowed(b, cash[b])
  PROVE  CountingCash(x) \ {b} # {} \/ DepositsOf(x) # {}
<1>1. CASE b \notin CountingCash(x)
  BY <1>1 DEF HasFact
<1>2. CASE b \in CountingCash(x)
  <2>1. cash[b].account = x /\ cash[b].included /\ x # None
    BY <1>2, NoneAssumption DEF CountingCash
  <2>2. EvidenceSurvives(x, {b}, {})
    BY <1>2, <2>1 DEF CashRemovalAllowed
  <2> QED
    BY <2>2 DEF EvidenceSurvives, HasBalanceFact
<1> QED
  BY <1>1, <1>2

\* Balances that come and go: the facts that are left to an account that counts.
LEMMA BalancesLeaveFact ==
  ASSUME BaseInv, NEW s \in Sessions, Fresh(call[s], seen[s]),
         \/ CreateCashCommit(s) \/ UpdateCashCommit(s) \/ DeleteCashCommit(s)
         \/ CreateDepositCommit(s) \/ DeleteDepositCommit(s),
         NEW x \in Accounts, LinkedDebts(x) # {}, AccountIncluded(x), HasFact(x)
  PROVE  HasFact(x)'
<1> USE DEF BaseInv
<1> DEFINE id == call[s].id
<1>1. CASE CreateCashCommit(s)
  <2>1. /\ at[s] = "checked" /\ call[s].op = "createCash"
        /\ cash' = [cash EXCEPT ![id] = call[s].arg] /\ UNCHANGED deposit
    BY <1>1 DEF CreateCashCommit, Commit
  <2>2. id \in CashRows /\ cash[id] = None
    BY <2>1 DEF CallsShaped, Shaped, ChecksHold, Passed
  <2> HIDE DEF id
  <2>3. CountingCash(x) \subseteq CountingCash(x)' /\ DepositsOf(x)' = DepositsOf(x)
    BY <2>1, <2>2 DEF CountingCash, DepositsOf, TypeOK
  <2> QED
    BY <2>3 DEF HasFact
<1>2. CASE UpdateCashCommit(s)
  <2> DEFINE new == Flushed(cash[id], seen[s], call[s].arg)
  <2>1. /\ at[s] = "checked" /\ call[s].op = "updateCash" /\ cash[id] # None
        /\ cash' = [cash EXCEPT ![id] = new] /\ UNCHANGED deposit
    BY <1>2 DEF UpdateCashCommit, Commit
  <2>2. /\ Shaped(call[s], seen[s]) /\ Passed(call[s], seen[s])
        /\ Fresh(call[s], seen[s])
    BY <2>1 DEF CallsShaped, ChecksHold
  <2>3. /\ id \in CashRows /\ call[s].arg \in CashRow
        /\ cash[id] = seen[s] /\ cash[id] \in CashRow
        /\ call[s].arg.account # cash[id].account \/ ~call[s].arg.included =>
             CashRemovalAllowed(id, cash[id])
    BY <2>1, <2>2 DEF Shaped, Passed, Fresh
  <2>4. new = call[s].arg
    BY <2>3, FlushedCash
  <2>5. new \in CashRow /\ (new.account # cash[id].account \/ ~new.included =>
                              CashRemovalAllowed(id, cash[id]))
    BY <2>3, <2>4
  <2> HIDE DEF id, new
  <2>6. cash'[id] = new /\ \A b \in CashRows \ {id} : cash'[b] = cash[b]
    BY <2>1, <2>3 DEF TypeOK
  <2>7. /\ CountingCash(x) \ {id} \subseteq CountingCash(x)'
        /\ DepositsOf(x)' = DepositsOf(x)
    BY <2>1, <2>6 DEF CountingCash, DepositsOf
  <2>8. CASE id \in CountingCash(x) /\ ~CashRemovalAllowed(id, cash[id])
    <3>1. new.account = x /\ new.included
      BY <2>5, <2>8 DEF CountingCash
    <3>2. id \in CountingCash(x)'
      BY <2>3, <2>5, <2>6, <3>1, RowsAssumption DEF CountingCash
    <3> QED
      BY <3>2 DEF HasFact
  <2>9. CASE ~(id \in CountingCash(x) /\ ~CashRemovalAllowed(id, cash[id]))
    <3>1. CountingCash(x) \ {id} # {} \/ DepositsOf(x) # {}
      BY <2>3, <2>9, CashLeavesFact
    <3> QED
      BY <2>7, <3>1 DEF HasFact
  <2> QED
    BY <2>8, <2>9
<1>3. CASE DeleteCashCommit(s)
  <2>1. /\ at[s] = "checked" /\ call[s].op = "deleteCash"
        /\ cash' = [cash EXCEPT ![id] = None] /\ UNCHANGED deposit
    BY <1>3 DEF DeleteCashCommit, Commit
  <2>2. /\ id \in CashRows /\ cash[id] \in {seen[s], None}
        /\ CashRemovalAllowed(id, seen[s])
    BY <2>1 DEF CallsShaped, ChecksHold, Shaped, Passed, Fresh
  <2> HIDE DEF id
  <2>3. id \in CountingCash(x) => CashRemovalAllowed(id, cash[id])
    BY <2>2 DEF CountingCash
  <2>4. CountingCash(x) \ {id} # {} \/ DepositsOf(x) # {}
    BY <2>2, <2>3, CashLeavesFact
  <2>5. /\ CountingCash(x) \ {id} \subseteq CountingCash(x)'
        /\ DepositsOf(x)' = DepositsOf(x)
    BY <2>1, <2>2 DEF CountingCash, DepositsOf, TypeOK
  <2> QED
    BY <2>4, <2>5 DEF HasFact
<1>4. CASE CreateDepositCommit(s)
  <2>1. /\ at[s] = "checked" /\ call[s].op = "createDeposit"
        /\ deposit' = [deposit EXCEPT ![id] = call[s].arg] /\ UNCHANGED cash
    BY <1>4 DEF CreateDepositCommit, Commit
  <2>2. id \in Deposits /\ deposit[id] = None
    BY <2>1 DEF CallsShaped, Shaped, ChecksHold, Passed
  <2> HIDE DEF id
  <2>3. DepositsOf(x) \subseteq DepositsOf(x)' /\ CountingCash(x)' = CountingCash(x)
    BY <2>1, <2>2, NoneAssumption DEF CountingCash, DepositsOf, TypeOK
  <2> QED
    BY <2>3 DEF HasFact
<1>5. CASE DeleteDepositCommit(s)
  <2>1. /\ at[s] = "checked" /\ call[s].op = "deleteDeposit"
        /\ deposit' = [deposit EXCEPT ![id] = None] /\ UNCHANGED cash
    BY <1>5 DEF DeleteDepositCommit, Commit
  <2>2. /\ id \in Deposits /\ deposit[id] \in {seen[s], None}
        /\ AccountIncluded(seen[s]) => EvidenceSurvives(seen[s], {}, {id})
    BY <2>1 DEF CallsShaped, ChecksHold, Shaped, Passed, Fresh
  <2> HIDE DEF id
  <2>3. CountingCash(x) # {} \/ DepositsOf(x) \ {id} # {}
    <3>1. CASE id \notin DepositsOf(x)
      BY <3>1 DEF HasFact
    <3>2. CASE id \in DepositsOf(x)
      <4>1. seen[s] = x
        BY <2>2, <3>2, NoneAssumption DEF DepositsOf
      <4>2. EvidenceSurvives(x, {}, {id})
        BY <2>2, <4>1
      <4> QED
        BY <4>2 DEF EvidenceSurvives, HasBalanceFact
    <3> QED
      BY <3>1, <3>2
  <2>4. DepositsOf(x) \ {id} \subseteq DepositsOf(x)' /\ CountingCash(x)' = CountingCash(x)
    BY <2>1, <2>2 DEF CountingCash, DepositsOf, TypeOK
  <2> QED
    BY <2>3, <2>4 DEF HasFact
<1> QED
  BY <1>1, <1>2, <1>3, <1>4, <1>5

\* Only a balance write judged on another row than the stored one can end the evidence of
\* a debt whose account counts.
LEMMA EvidenceStays ==
  ASSUME BaseInv, NEW s \in Sessions, TableStep(s), NEW d \in Links',
         StaysLinked(d) => Evident(d) /\ AccountIncluded(debt[d].link),
         ~StaleBalanceWrite(s)
  PROVE  Evident(d)'
<1> USE DEF BaseInv
<1>1. CASE \/ CreateCashCommit(s) \/ UpdateCashCommit(s) \/ DeleteCashCommit(s)
           \/ CreateDepositCommit(s) \/ DeleteDepositCommit(s)
  <2>1. UNCHANGED debt
    BY <1>1 DEF CreateCashCommit, UpdateCashCommit, DeleteCashCommit, CreateDepositCommit,
                DeleteDepositCommit
  <2>2. d \in Links /\ StaysLinked(d)
    BY <2>1 DEF Links, StaysLinked
  <2>3. PICK x \in Accounts : x = debt[d].link /\ LinkedDebts(x) # {}
    BY <2>2, LinkRow DEF Links, LinkedDebts
  <2>4. Fresh(call[s], seen[s])
    BY <1>1 DEF StaleBalanceWrite, BalanceWrite, CreateCashCommit, CreateDepositCommit,
                Commit, Fresh
  <2>5. HasFact(x) /\ AccountIncluded(x)
    BY <2>2, <2>3 DEF Evident, HasFact
  <2>6. HasFact(x)'
    BY <1>1, <2>3, <2>4, <2>5, BalancesLeaveFact
  <2> QED
    BY <2>1, <2>3, <2>6 DEF Evident, HasFact
<1>2. CASE UNCHANGED <<cash, deposit>> /\ StaysLinked(d)
  BY <1>2 DEF StaysLinked, Evident, CountingCash, DepositsOf
<1>3. CASE Appears(s) \/ UpdateAccountCommit(s) \/ DeleteAccountCommit(s)
  <2>1. UNCHANGED <<cash, deposit, debt>>
    BY <1>3 DEF Appears, CreateAccount, UpdateAccountCommit, DeleteAccountCommit
  <2> QED
    BY <1>2, <2>1 DEF Links, StaysLinked
<1>4. CASE CreateDebtCommit(s) \/ DeleteDebtCommit(s)
  <2>1. PICK e \in Debts, row \in DebtRow \cup {None} :
          /\ debt' = [debt EXCEPT ![e] = row] /\ (row # None => row.link = None)
          /\ UNCHANGED <<cash, deposit>>
    BY <1>4 DEF CreateDebtCommit, DeleteDebtCommit, Commit, CallsShaped, Shaped
  <2>2. debt'[d] = debt[d] /\ d \in Links
    BY <2>1 DEF TypeOK, Links
  <2> QED
    BY <1>2, <2>1, <2>2 DEF StaysLinked
<1>5. ASSUME NEW op \in {"updateDebt", "link", "unlink"}, DebtCommit(s, op)
      PROVE  Evident(d)'
  <2>1. PICK e \in Debts, row \in DebtRow :
           /\ debt[e] \in DebtRow /\ debt' = [debt EXCEPT ![e] = row]
           /\ UNCHANGED <<cash, deposit>>
           /\ \/ row.link = debt[e].link
              \/ row.link = None
              \/ HasBalanceFact(row.link, {}, {})
    BY <1>5, DebtCommitRow
  <2>2. debt'[e] = row /\ \A x \in Debts \ {e} : debt'[x] = debt[x]
    BY <2>1 DEF TypeOK
  <2>3. CASE StaysLinked(d)
    BY <1>2, <2>1, <2>3
  <2>4. CASE ~StaysLinked(d)
    <3>1. d = e /\ HasBalanceFact(row.link, {}, {})
      BY <2>1, <2>2, <2>4, RowsAssumption DEF StaysLinked, Links
    <3>2. CountingCash(row.link) # {} \/ DepositsOf(row.link) # {}
      BY <3>1 DEF HasBalanceFact
    <3>3. CountingCash(row.link)' = CountingCash(row.link)
          /\ DepositsOf(row.link)' = DepositsOf(row.link)
      BY <2>1 DEF CountingCash, DepositsOf
    <3> QED
      BY <2>2, <3>1, <3>2, <3>3 DEF Evident
  <2> QED
    BY <2>3, <2>4
<1> QED
  BY <1>1, <1>3, <1>4, <1>5 DEF TableStep

\* Whichever calls overlap, a debt is linked to an account with a balance fact only, and
\* keeps one while the account counts, but for a cash update, a cash removal or a deposit
\* removal judged on a row that has changed since it was loaded (linked_pairs.py:103,
\* cash.py:48).
THEOREM EvidenceLapses == Spec => EvidenceLapsesByStaleWrites
<1>1. BaseInv /\ [Next]_vars =>
        [\A d \in Links' :
           \/ Evident(d)'
           \/ StaysLinked(d) /\ ~(Evident(d) /\ AccountIncluded(debt[d].link))
           \/ \E s \in Sessions : StaleBalanceWrite(s)]_vars
  <2> SUFFICES ASSUME BaseInv, Next, NEW d \in Links',
                      StaysLinked(d) => Evident(d) /\ AccountIncluded(debt[d].link),
                      \A s \in Sessions : ~StaleBalanceWrite(s)
               PROVE  Evident(d)'
    OBVIOUS
  <2>1. PICK s \in Sessions : SessionStep(s)
    BY DEF Next, SessionStep
  <2>2. CASE UNCHANGED tables
    BY <2>2 DEF tables, StaysLinked, Evident, Links, CountingCash, DepositsOf
  <2>3. CASE TableStep(s)
    BY <2>3, EvidenceStays
  <2> QED
    BY <2>1, <2>2, <2>3, TableSteps
<1> QED
  BY <1>1, WritersChecked, PTL DEF Spec, EvidenceLapsesByStaleWrites

=============================================================================
