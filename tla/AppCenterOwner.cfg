SPECIFICATION CenterSpec
CONSTANTS
  Nobody = Nobody
  MaxWindows = 1
  MaxJobs = 2
INVARIANTS
  SuspensionIsOwned
CHECK_DEADLOCK FALSE
