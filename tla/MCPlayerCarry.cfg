CONSTANTS
  Players = {p1}
  NoPlayer = NoPlayer
  MaxFaults = 0
  MaxRequests = 3
  OwnWeight = 2
  Factors = {2, 3}
  MaxWeight = 12
SPECIFICATION Spec
INVARIANT EchoIsNotMultiplied
CHECK_DEADLOCK FALSE
