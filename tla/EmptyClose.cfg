SPECIFICATION Spec
CONSTANTS
  s1 = s1  s2 = s2  p1 = p1  p2 = p2  d1 = d1  d2 = d2
  bal = bal  tmpl = tmpl  ev = ev  v1 = v1  v2 = v2  r1 = r1
  Sessions = {s1, s2}
  MaxMonths = 1
  Periods = {p1}
  Dates = {d1}
  Sources = {"manual", "alfa_pdf"}
  BalanceKeys = {bal}
  TemplateKeys = {}
  EventKeys = {}
  Values = {v1}
  Requests = {r1}
  MaxRows = 1
  MaxClock = 5
  MaxEpoch = 1
  None = None
INVARIANT AcknowledgedStaysRecorded
PROPERTY EmptyCloseAsConfirmed
SYMMETRY SymmetrySessions
