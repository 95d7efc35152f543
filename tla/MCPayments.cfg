SPECIFICATION Spec
CONSTANTS
  w1 = w1
  w2 = w2
  Workers = {w1, w2}
  Orders <- MCOrders
  Kind <- MCKind
  Sheets <- MCSheets
  MaxPayables = 2
  MaxBatches = 2
  MaxLines = 2
  MaxMandates = 2
SYMMETRY Symmetry
INVARIANTS
  HandedOnce
  BatchesWhole
PROPERTY RecurringFollowsFirst
VIEW Seen
CHECK_DEADLOCK FALSE
