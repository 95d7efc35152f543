SPECIFICATION Spec
CONSTANTS
  w1 = w1
  w2 = w2
  Workers = {w1, w2}
  Mortal = {w1, w2}
  MaxAttempts = 1
  MaxInvoices = 2
  MaxLines = 2
  MaxEntries = 3
SYMMETRY Symmetry
INVARIANTS
  NumbersGapFree
  SentIsBooked
  PaidIsCovered
CHECK_DEADLOCK FALSE
