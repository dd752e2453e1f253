SPECIFICATION FairSpec
CONSTANTS
  p1 = p1  p2 = p2  t1 = t1  t2 = t2
  Procs = {p1, p2}
  Transactions = {t1, t2}
  MaxBorrowers = 0
  MaxFiles = 6
  MaxVersion = 5
  MaxFailures = 2
  Torn = Torn
  None = None
INVARIANTS IncidentKept RuntimeOnSettledDatabase Sealed
PROPERTIES SealedOnce DisplacedDatabaseKept FencedCompletes
