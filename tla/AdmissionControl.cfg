SPECIFICATION Spec
CONSTANTS
  w1 = w1  w2 = w2  w3 = w3  w4 = w4
  Workers = {w1, w2, w3, w4}
  MaxFormEpoch = 2
  MaxProcesses = 1
  p1 = p1  p2 = p2  p3 = p3  t1 = t1  t2 = t2
  Procs = {p1, p2, p3}
  Transactions = {t1, t2}
  MaxBorrowers = 5
  Torn = Torn
  None = None
INVARIANTS RuntimeUnfenced BorrowersCovered
PROPERTIES ImplementsLock DoorReopens ClosingEnds
