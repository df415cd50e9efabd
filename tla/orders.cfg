SPECIFICATION Spec
CONSTANTS
  Clients = {c1, c2}
  StationTokens <- MCStationTokens
  Sizes <- MCSizes
  Unset <- MCUnset
  Uninitialised <- MCUninitialised
CHECK_DEADLOCK FALSE
INVARIANTS OrdersSound ProperServiceSurvives
PROPERTY AskedIsAnswered
