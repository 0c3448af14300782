SPECIFICATION FirmwareSpec
CONSTANTS
  Neutral = neutral
  NoReport = no_report
  Reports = {neutral, a}
  Zero = zero
  NoRumble = no_rumble
  Rumbles = {zero, x, y}
  RequestIds = {id1, id2}
  Receipts = {r1, r2}
  None = none
  Blank = blank
  Corrupt = corrupt
  SeqModulus = 2
  CdcDepth = 1
  WatchdogMs = 1
  RefreshMs = 1
  LeaseMs = 2
  QuietMs = 2
INVARIANTS
  TypeOK
  InputIsSafe
  RumbleIsSafe
PROPERTIES
  SafetyNeutralComesFirst
  SafetyZeroComesFirst
  ControlRequestIsSafe
  ExpiredInputIsReleased
  ExpiredRumbleIsStopped
  ControlRequestIsAnswered
