SPECIFICATION FairSpec
CONSTANTS
  Templates = {1, 2, 3, 4}
  NoRef = 0
  Refs = {0, 1, 2, 3, 4}
  Sources = {"recurring", "reversal"}
  monthly = monthly
  remainder = remainder
  accrual = accrual
  back = back
  PostingLists = {monthly, remainder, accrual, back}
  Total <- MCTotal
  Legs <- MCLegs
  Neg <- MCNeg
  Runs <- MCRuns
  Start <- MCStart
  End <- MCEnd
  Months <- MCMonths
  Day <- MCDay
  Reversing <- MCReversing
  Invoicing <- MCInvoicing
  Splits <- MCSplits
  Normal <- MCNormal
  Final <- MCFinal
  Closable = {1}
  LoopCap = 2
  Days <- MCDays
  MaxCrashes = 1
  MaxChanges = 1
  MaxEntries = 14
INVARIANTS
  NoPeriodSkipped
  PreviewTellsRun
PROPERTY CatchesUp
CHECK_DEADLOCK FALSE
