SPECIFICATION AllSpec
CONSTANTS
  sales = sales
  other = other
  odd = odd
  expense = expense
  cash = cash
  loan = loan
  shop = shop
  Flow = {sales, other, odd, expense}
  Income = {sales, other, odd}
  Result = result
  Equity = equity
  Assets = {cash}
  Liabilities = {loan}
  Bookings <- BookingsMC
  Taxonomy <- TaxonomyMC
  LscPnl <- LscPnlMC
  LscActiva <- LscActivaMC
  LscPassiva <- LscPassivaMC
  Year = 2024
  Fye = 331
  Closers = {c1}
  NoRef = NoRef
  NoCenter = NoCenter
  MaxEntries = 5
  Scenarios <- ScenariosMC
INVARIANTS
  ClosedOnce
  SheetBalances
  PartsAddUp
