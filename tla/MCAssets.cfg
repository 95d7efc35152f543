SPECIFICATION Spec
CONSTANTS
  w1 = w1
  w2 = w2
  NoOverride = NoOverride
  Workers = {w1, w2}
  Scheme <- MCScheme
  SchemeNames <- MCSchemeNames
  Requests <- MCRequests
  AccountType <- MCAccountType
  Accounts <- MCAccounts
  Pausable = {1}
  Closable = {"1890"}
  Targets = {2, 4}
  DisposalDates = {7}
  Proceeds = {5}
  MaxAssets = 2
  MaxEntries = 4
SYMMETRY Symmetry
INVARIANTS
  RunsFollowSchedule
  RegisterMatchesLedger
  DisposalClears
CHECK_DEADLOCK FALSE
