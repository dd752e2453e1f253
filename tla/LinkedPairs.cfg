SPECIFICATION Spec
CONSTANTS
  s1 = s1  s2 = s2
  Sessions = {s1, s2}
  Accounts = {a1}
  Debts = {d1}
  CashRows = {b1}
  Deposits = {t1}
  Enabled = {"createAccount", "updateAccount", "deleteAccount", "createCash", "updateCash", "deleteCash", "createDeposit", "deleteDeposit", "createDebt", "updateDebt", "deleteDebt", "link", "unlink"}
  None = None
INVARIANT LinkedDebtsEligible
PROPERTIES AccountsLapseByStaleUpdates EvidenceLapsesByStaleWrites
SYMMETRY SymmetrySessions
