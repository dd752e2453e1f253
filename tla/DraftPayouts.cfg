CONSTANTS
  u1 = u1
  None = None
  Excluded = Excluded
  Positions = {1, 2}
  Quantities = {1, 2}
  Uids = {u1}
  Amounts = {1}
  MaxEvents = 3
SPECIFICATION Spec
INVARIANTS OneTaskPerMonth
PROPERTIES ForecastsOnCurrentFacts PendingIsCovered
CHECK_DEADLOCK FALSE
