SPECIFICATION Spec
CONSTANTS
  Setups = {"actpass"}
  Datagrams = {"flight", "alert"}
  MaxCandidates = 0
  MaxChanges = 2
  MaxDatagrams = 2
  MaxMessages = 0
INVARIANT HandshakeKeepsState
CHECK_DEADLOCK FALSE
