SPECIFICATION Spec
CONSTANTS
  Outputs = {bridge, mock}
  Live = {bridge}
  Requests = {r1, r2}
  None = None
INVARIANT NewestOutputWins
CHECK_DEADLOCK FALSE
