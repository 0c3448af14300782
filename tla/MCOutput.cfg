INIT OutputInit
NEXT OutputNext
CONSTANTS
  stick = stick
  button = button
  GameStates <- MCStates
  NeutralState = NeutralState
  Hidden <- MCHidden
  NoGameState = NoGameState
  Malformed = Malformed
  Status = Status
  InputTimeout = 2
  DecodeFailureLimit = 2
  SlotTimeout = 3
  Capacity = 2
  Neutral = neutral
  NoState = no_state
  States = {neutral, a, b}
  Rumbles = {}
  RequestIds = {id1, id2}
  Receipts = {r1}
  None = none
  QueueCapacity = 1
  SeqModulus = 2
  BatchLimit = 1
  ServiceTicks = 1
  RefreshTicks = 2
  PingTicks = 1
  PongTicks = 2
  GraceTicks = 1
  Bytes = {0, 1, 2, 3}
  Magic <- MCMagic
  ProtocolVersion = 1
  MaxPayload = 2
  Lengths <- MCLengths
  GamepadType = 2
  ReceiptType = 3
  MaxHat = 1
  AxisMin = 3
  Sources = {1, 2}
  MaxRead = 2
SYMMETRY Symmetry
INVARIANTS
  GameSeesTheController
  NothingStaysHeld
  HostIsTimely
  FramingIsSafe
PROPERTIES
  BridgePlaysNewest
  AnswerWasGiven
