SPECIFICATION ActiveSpec
CONSTANTS
  NeutralState = NeutralState
  stick = stick
  button = button
  GameStates <- MCStates
  Hidden <- MCHidden
  NoGameState = NoGameState
  Malformed = Malformed
  Status = Status
  InputTimeout = 2
  DecodeFailureLimit = 2
  SlotTimeout = 4
  Capacity = 2
PROPERTIES
  RestoreIsNotSkipped
