SPECIFICATION AppSpec
CONSTANTS
  Clients = {menu, center}
  NoRelease = NoRelease
  MaxRelease = 3
  MaxRefreshes = 2
  Nobody = Nobody
  MaxWindows = 2
  MaxJobs = 2
  Boards = {b1, b2}
  Nothing = Nothing
  AutomaticPolls = 1
  ManualPolls = 1
  ReconnectPolls = 2
  MaxTouches = 2
  Receipts = {r1, r2, malformed}
  WellFormed = {r1, r2}
  Blank = Blank
  Corrupt = Corrupt
  None = None
  Words = 4
  Trials = {1}
  QueueCapacity = 2
  ReorderWindow = 0
  MaxTime = 1
  MaxReports = 2
  MaxExtras = 1
INVARIANTS
  ValidIsComplete
  ReportIsTrue
  FlashIsUndisturbed
PROPERTIES
  ImplementsReceiptPage
  CatalogNeverGoesBack
  SuspensionEnds
  CancelEnds
CHECK_DEADLOCK FALSE
