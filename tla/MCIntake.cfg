SPECIFICATION IntakeSpec
CONSTANTS
  w1 = w1
  w2 = w2
  Workers = {w1, w2}
  Mortal = {w1, w2}
  Hashes <- MCHashes
  Amount <- MCAmount
  Statements <- MCStatements
  Owed <- MCOwed
  Tolerance = 1
  Manual = {4}
  ByHand = {1}
  MaxEntries = 2
  Codes = {1, 2, 3, 4}
  Words <- WordsMC
  NoRole = NoRole
  Importers = {1, 2}
  Files <- FilesMC
  NoFile = NoFile
  NoCode = NoCode
  NoVat = NoVat
  Dates = {1}
  RefNames = {"", "1", "2", "3"}
  Lower <- LowerMC
  Plain <- PlainMC
  Registration = "123"
  IsKvk <- IsKvkMC
  MaxImported = 3
  ImportScenarios <- ScenariosMC
SYMMETRY Symmetry
VIEW AllSeen
INVARIANTS
  PaysOnce
  MatchedOnce
  ImportedOnce
  FilesBooked
  RolesRight
CHECK_DEADLOCK FALSE
