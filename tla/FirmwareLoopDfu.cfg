SPECIFICATION LoopSpec
CONSTANTS
  NoReport = NoReport
  Odd = Odd
  DrainDelay = 1
  MaxReports = 3
INVARIANT DfuIsEarned
CHECK_DEADLOCK FALSE
