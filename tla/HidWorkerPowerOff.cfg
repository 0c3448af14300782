SPECIFICATION WorkerFairSpec
CONSTANTS
  Rumbles = {buzz}
  Still = Still
  Nothing = Nothing
  Refresh = 1
  Lease = 2
  Retry = 3
  LizardRefresh = 1
  EventCapacity = 1
  MailboxCapacity = 2
  Burst = 2
  MaxControls = 1
PROPERTIES
  GameplayContinues
CHECK_DEADLOCK FALSE
