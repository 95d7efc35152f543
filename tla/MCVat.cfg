SPECIFICATION Spec
CONSTANTS
  Workers = {1, 2}
  AccountType <- TypeMC
  Accounts <- AccountsMC
  Input = "1500"
  Output = "2500"
  Settlement <- SettlementMC
  Difference = "4700"
  Bank = "1010"
  Rate <- RateMC
  Kind <- KindMC
  EuReverse <- EuMC
  Codes <- CodesMC
  NoCode = "-"
  ReverseRate = 2100
  MaxDifference = 5
  Periods = {1, 2}
  Today = 1
  LineAmount <- LineMC
  Lines = {1}
  MaxEntries = 5
  Scenarios <- ScenariosMC
INVARIANTS
  ReadoutMatchesBooks
  LineSettledOnce
PROPERTY PositionCleared
CHECK_DEADLOCK FALSE
