SPECIFICATION Spec
CONSTANTS
  s1 = s1  m1 = m1  m2 = m2  a1 = a1  a2 = a2  d1 = d1  d2 = d2  f1 = f1  f2 = f2
  Sessions = {s1}
  Months = {m1, m2}
  Accounts = {a1, a2}
  Dates = {d1, d2}
  PeriodOf <- MCPeriodOf
  Intervals <- OneDay
  Amounts = {x1}
  Flows = {f1, f2}
  Links = {l1}
  Evidence = {e1}
  Coverages = {c1}
  Unset = Unset
  None = None
INVARIANTS LinkStatusTrue EvidenceExplainsALeg
PROPERTIES ReconciledTransfersPinned ClosedTransfersFrozen CompleteCoverageCurrent ClosedCoverageFrozen
SYMMETRY SymmetryLegs
