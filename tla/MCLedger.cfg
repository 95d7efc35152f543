SPECIFICATION Spec
CONSTANTS
  Accounts = {a1}
  Procs = {p1, p2}
  Invoices = {v1}
  None = None
  NoRef = NoRef
  Refs = {NoRef}
  Sources = {"manual", "reversal"}
  MaxEntries = 3
  Modulus = 8
  balanced = balanced
  contra = contra
  empty = empty
  wraps = wraps
  unwraps = unwraps
  PostingLists = {balanced, contra, empty, wraps, unwraps}
  Total <- MCTotal
  Legs <- MCLegs
  Neg <- MCNeg
  Touches <- MCTouches
SYMMETRY Symmetry
INVARIANTS
  PostedBalanced
  ReversedOnce
  AuditTellsJournal
PROPERTIES
  PostedIsFinal
  PostsToActiveAccounts
  ImplementsBooks
VIEW Seen
