CONSTANTS
  s1 = s1  s2 = s2  u1 = u1  u2 = u2
  None = None
  Sessions <- MCSessions
  Uids <- MCUids
  Quantities = {1, 2}
  Prices = {1, 2}
  MaxPreviews = 2
  MaxClock = 2
  MaxApplied = 2
SPECIFICATION Spec
SYMMETRY MCSymmetry
INVARIANTS DerivedValuesCurrent PreviewAppliedOnce
PROPERTIES EditsReplaceWhatTheyRead QuotesAsPreviewed
