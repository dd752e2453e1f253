SPECIFICATION Spec
CONSTANTS
  w1 = w1  w2 = w2  b1 = b1  b2 = b2  b3 = b3
  Workers = {w1, w2}
  BackupIds = {b1, b2, b3}
  MaxFormEpoch = 2
  MaxProcesses = 1
  MaxVersion = 2
  MaxFiles = 2
  None = None
  Reserved = Reserved
INVARIANTS SessionsReachLiveFile AcceptedFormsNameLiveFile
PROPERTIES ImplementsAtomicRestore BackupsKept AnswersAreTrue
SYMMETRY MCSymmetry
