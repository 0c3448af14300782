SPECIFICATION DesktopSpec
CONSTANTS
  Up = Up
  Down = Down
  Masks <- MCMasks
  Samples = {still}
  Profiles = {keys, games, pads}
  Configured = {keys, games}
  NoProfile = NoProfile
  Acks = {first}
  NoAck = NoAck
  None = None
  InputCapacity = 1
  ControlCapacity = 2
  MaxGeneration = 1
  MaxEpoch = 1
  keys = keys
  others = {second, third}
  a = a
  shift = shift
  key = key
  pad = pad
  hot = hot
  NoAction = NoAction
  Controls <- MCControls
  Sides <- MCSides
  Outputs = {shift, key}
  Regions = {hot}
  Layouts <- MCLayouts
  MaxCalls = 1
INVARIANTS
  HeldIsOwed
  HeldIsCurrent
  ReleasedAfterAck
  SwitchPressesNothing
  FeedbackIsFresh
PROPERTIES
  EveryCallIsAnswered
CHECK_DEADLOCK FALSE
