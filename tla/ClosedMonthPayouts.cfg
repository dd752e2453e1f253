SPECIFICATION Spec
CONSTANTS
  s1 = s1  s2 = s2  m1 = m1  m2 = m2  i1 = i1  i2 = i2
  Sessions = {s1, s2}
  Months = {m1, m2}
  Grosses = {2}
  Taxes = {0}
  Identities = {i1}
  MaxFlows = 2
  MaxEntered = 2
  MaxOwnerCalls = 2
  MaxEvents = 2
  MaxRevisions = 3
  None = None
PROPERTY ClosedMonthFlowsFrozen
