SPECIFICATION TradeSpec
CONSTANTS
  FilingTypes <- FilingTypesMC
  FiscalYearEnds = {1231, 229, 630}
  Years = {2023, 2024}
  Days <- DaysMC
  Contacts <- ContactsMC
  Details <- DetailsMC
  Published <- PublishedMC
  Payables <- PayablesMC
  Scenarios <- ScenariosMC
INVARIANTS
  TotalsAddUp
  ReportsMatchLedger
  OverdueIsShown
CHECK_DEADLOCK FALSE
