SPECIFICATION LoopSpec
CONSTANTS
  NoReport = NoReport
  Odd = Odd
  DrainDelay = 1
  MaxReports = 3
INVARIANT OutEndpointIsServed
CHECK_DEADLOCK FALSE
