SPECIFICATION Spec
CONSTANTS
  Initializers = {i1}
  MaxGenerations = 1
  Credentials = {"u1"}
  MaxLines = 2
  MaxTransports = 1
  MaxExchanges = 4
INVARIANT RemoteConfigKnown
CHECK_DEADLOCK FALSE
