SPECIFICATION SessionSpec
CONSTANTS
  Outputs = {bridge, mock}
  Live = {bridge}
  Requests = {r1, r2}
  None = None
  Rumbles = {buzz, hum}
  Still = Still
  Nothing = Nothing
  Refresh = 2
  Lease = 4
  Retry = 5
  Renew = 1
  LizardRefresh = 1
  Sources = {puck, other, blue}
  Pucks = {puck, other}
  NoTime = NoTime
  IdleTimeout = 3
  RetryWait = 2
  Freshness = 1
  Controllers = {one, two}
  Absent = Absent
  MinScan = 2
  MaxScan = 4
  Cooldown = 2
  Buffer = 4
  Trailing = 3
  States = {pressed}
  Neutral = Neutral
  NoReport = NoReport
  QueueCapacity = 2
  OutCapacity = 1
  InboxCapacity = 1
  MaxRequests = 2
  MaxEvents = 2
  MaxExcesses = 1
INVARIANTS
  RumbleReachesController
  LoneControllerIsFound
  ProtocolIsKept
PROPERTIES
  OwnersAreObeyed
  RequestsAreAnswered
  ShutdownIsEarned
  FailureReleasesDevice
CHECK_DEADLOCK FALSE
