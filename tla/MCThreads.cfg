SPECIFICATION ThreadsSpec
CONSTANTS
  Rumbles = {buzz}
  Still = Still
  Nothing = Nothing
  Refresh = 1
  Lease = 2
  Retry = 3
  LizardRefresh = 1
  EventCapacity = 1
  MailboxCapacity = 2
  Burst = 2
  MaxControls = 1
  Masks = {up, down}
  Samples = {still, moved}
  Profiles = {keys}
  NoProfile = NoProfile
  Acks = {first}
  NoAck = NoAck
  None = None
  InputCapacity = 2
  ControlCapacity = 2
  MaxGeneration = 1
  MaxEpoch = 1
  NoReport = NoReport
  Odd = Odd
  DrainDelay = 1
  MaxReports = 3
INVARIANTS
  HeldPortEarnsDfu
  NothingOwedIsLost
PROPERTIES
  MotorIsLeased
  InputIsSuppressed
  NoMutualWait
CHECK_DEADLOCK FALSE
