SPECIFICATION Spec
CONSTANTS
  s1 = s1  m1 = m1  m2 = m2  a1 = a1  a2 = a2  d1 = d1  d2 = d2  f1 = f1  f2 = f2
  Sessions = {s1}
  Months = {m1, m2}
  Accounts = {a1}
  Dates = {d1, d2}
  PeriodOf <- MCPeriodOf
  Intervals = {}
  Amounts = {x1}
  Flows = {f1}
  Links = {l1}
  Evidence = {e1}
  Coverages = {}
  Unset = Unset
  None = None
PROPERTY ReconciledLegsPinned
